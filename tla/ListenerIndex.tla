---------------------------- MODULE ListenerIndex ----------------------------
(***************************************************************************)
(* What the XCHandles listener serves: the projections that                *)
(* listener/index.rs keeps of the registry's actions (handle slots,        *)
(* registrations and their statistics, pending updates) and of the owner   *)
(* singletons it follows, while the chain grows and forks, the process     *)
(* stops and restarts, and the walk of sync.rs saves its position before   *)
(* anything is projected.                                                  *)
(*                                                                         *)
(* A block holds at most one action: of the registry, or a spend of an     *)
(* owner singleton by itself.  A coin of a singleton is the sequence of    *)
(* actions that led to it, so the same action included again by another    *)
(* fork makes the same coin.  Time is left out: a handle may expire        *)
(* whenever the chain says so.  A peak's own record is always found here:  *)
(* SingletonFollow has the peaks without one, and following block by       *)
(* block.                                                                  *)
(***************************************************************************)
EXTENDS Integers, FiniteSets, SequencesExt

CONSTANTS
    Handles,     \* handle hashes, ordered
    Owners,      \* launcher ids of owner and resolved singletons
    Nobody,      \* the zero launcher id of the end slots
    Blocks,      \* what a block may be: [kind, key, owner, resolved, tag], where
                 \* the tag tells apart two blocks with the same spends
    Starts,      \* chains the listener may be started first on
    Window,      \* peaks remembered, blocks of history kept (32)
    Finality,    \* blocks after which an unreferenced launcher is dropped (32)
    EventsMax,   \* RECENT_REGISTRATION_EVENTS_MAX (50)
    MaxHeight, MaxDepth, MaxReorgs, MaxMisses, MaxStops, MaxFaults    \* bounds

Kinds == {"register", "expire", "touch", "initiate", "execute", "own", "none"}

ASSUME IndexAssumption ==
    /\ Handles \subseteq Nat \ {0} /\ Nobody \notin Owners
    /\ \A b \in Blocks : b.kind \in Kinds
    /\ \A c \in Starts, n \in 1 .. MaxHeight : n \in DOMAIN c => c[n].kind \in Kinds
    /\ Window \in Nat \ {0} /\ Finality \in Nat \ {0} /\ EventsMax \in Nat \ {0}
    /\ {MaxHeight, MaxDepth, MaxReorgs, MaxMisses, MaxStops, MaxFaults} \subseteq Nat

VARIABLES
    chain,      \* the canonical chain: a sequence of blocks
    pc,         \* where the listener is; "down" between two connections
    tip,        \* the peak being handled
    recent,     \* recent_peaks
    cursor,     \* last_followed_height
    saved,      \* registry spends up to the coin saved as last unspent
    table,      \* the handle slots the walk saved
    todo,       \* transitions walked and not projected yet
    index,      \* the four projections and the followed singletons
    blocked,    \* rolling_back or resyncing
    fork,       \* history variable: the lowest height of a fork not rolled back, or 0
    lost,       \* history variable: handles with a transition never projected
    stale,      \* history variable: those of them not restored from the slots
                \* table, and those restored from a row of an abandoned fork
                \* or before one
    shared,     \* history variable: launchers two handles referred to at once
    caught,     \* history variable: the height of the catch-up, until the cursor
                \* is read
    late,       \* history variable: launchers with a spend at or below the cursor
                \* that was not followed, until the next catch-up
    reorgs, misses, stops

vars == <<chain, pc, tip, recent, cursor, saved, table, todo, index, blocked,
          fork, lost, stale, shared, caught, late, reorgs, misses, stops>>
ghosts == <<fork, lost, stale, shared, caught, late>>
count == <<reorgs, misses, stops>>
handler == <<pc, tip, recent, cursor, saved, table, todo, index, blocked>>

\* Reorganisations, misses and stops are bounded together, too.
MoreFaults == reorgs + misses + stops < MaxFaults

-----------------------------------------------------------------------------
\* The registry and the singletons on a chain.

NoSlot == [owner |-> Nobody, resolved |-> Nobody, counter |-> -1]

Genesis ==
    [slot |-> [h \in Handles |-> NoSlot], updates |-> {}, coin |-> [o \in Owners |-> 0]]

Neighbors(st, k) ==
    LET known == {h \in Handles : st.slot[h] # NoSlot}
        lower == {h \in known : h < k}
        upper == {h \in known : h > k}
    IN  (IF lower = {} THEN {} ELSE {Max(lower)}) \cup (IF upper = {} THEN {} ELSE {Min(upper)})

\* The update slot names the parent of the owner's current coin.
Executable(st, u) ==
    /\ u.initiator.owner = st.slot[u.key].owner
    /\ st.coin[u.initiator.owner] = u.initiator.coin + 1

Executed(st, a) ==
    {u \in st.updates : u.key = a.key /\ Executable(st, u) /\ u.to = a.owner /\ u.resolve = a.resolved}

CanAct(st, a) ==
    CASE a.kind \in {"own", "none"} -> TRUE
      [] a.kind = "register" -> st.slot[a.key] = NoSlot
      [] a.kind = "execute" -> Executed(st, a) # {}
      [] OTHER -> st.slot[a.key] # NoSlot

\* The singletons that approve an action: their coins are spent and created
\* again, with the same puzzle.
Approves(st, a) ==
    CASE a.kind = "own" -> {a.owner}
      [] a.kind = "initiate" -> {st.slot[a.key].owner}
      [] a.kind = "execute" -> {st.slot[a.key].owner, a.owner, a.resolved}
      [] a.kind \in {"register", "expire"} -> {a.owner, a.resolved}
      [] OTHER -> {}

OfRegistry(a) == a.kind \notin {"own", "none"}

\* The handles whose slots an action creates.
Touches(st, a) ==
    IF ~ OfRegistry(a) THEN {}
    ELSE {a.key} \cup (IF a.kind = "register" THEN Neighbors(st, a.key) ELSE {})

Moves(a) == a.kind \in {"register", "expire", "execute"}

\* The slot an action creates for a handle it touches.
Created(st, a, h) ==
    [owner    |-> IF Moves(a) /\ h = a.key THEN a.owner ELSE st.slot[h].owner,
     resolved |-> IF Moves(a) /\ h = a.key THEN a.resolved ELSE st.slot[h].resolved,
     counter  |-> st.slot[h].counter + 1]

NewUpdate(st, a) ==
    [key |-> a.key, to |-> a.owner, resolve |-> a.resolved,
     initiator |-> [owner |-> st.slot[a.key].owner, coin |-> st.coin[st.slot[a.key].owner]]]

Act(st, a) ==
    [slot |-> [h \in Handles |-> IF h \in Touches(st, a) THEN Created(st, a, h) ELSE st.slot[h]],
     updates |-> IF a.kind = "initiate" THEN st.updates \cup {NewUpdate(st, a)}
                 ELSE IF a.kind = "execute" THEN st.updates \ Executed(st, a)
                 ELSE st.updates,
     coin |-> [o \in Owners |-> st.coin[o] + (IF o \in Approves(st, a) THEN 1 ELSE 0)]]

\* The state after the blocks of c.
After(c) ==
    LET state[i \in 0 .. Len(c)] == IF i = 0 THEN Genesis ELSE Act(state[i - 1], c[i])
    IN  state[Len(c)]

\* Heights of the registry's spends; its n-th coin is created by the n-th of
\* them.  The coin's id does not depend on the action: another fork's n-th
\* spend makes the same coin (as long as no action changes the state).
RegistryHeights(c) ==
    LET hs == {h \in DOMAIN c : OfRegistry(c[h])}
    IN  [n \in 1 .. Cardinality(hs) |->
            CHOOSE h \in hs : Cardinality({g \in hs : g <= h}) = n]

\* The handles touched by the registry spends number i to j of c that are
\* included at height `from` or above.
Passed(c, i, j, from) ==
    LET hs == RegistryHeights(c)
    IN  UNION {IF hs[n] < from THEN {} ELSE Touches(After(SubSeq(c, 1, hs[n] - 1)), c[hs[n]]) :
                  n \in DOMAIN hs \cap i .. j}

Hash(h) == SubSeq(chain, 1, h)

\* Chain c grows by block b.
CanFollow(c, b) == CanAct(After(c), b)

Extensions(c, n) ==
    {s \in [1 .. n -> Blocks] :
        \A i \in 1 .. n : CanFollow(c \o SubSeq(s, 1, i - 1), s[i])}

-----------------------------------------------------------------------------
\* The records of the four stores: a current entry, if any, and earlier ones.

Empty == [cur |-> <<>>, hist |-> <<>>]

\* prune_history: entries of the last Window blocks and one older.
Prune(hist, peak) ==
    LET old == {i \in DOMAIN hist : hist[i].height < peak - Window}
    IN  (IF old = {} THEN <<>> ELSE <<hist[Max(old)]>>)
        \o SelectSeq(hist, LAMBDA e : e.height >= peak - Window)

Replace(rec, e, peak) == [cur |-> <<e>>, hist |-> Prune(rec.hist \o rec.cur, peak)]

RestoreBefore(rec, from) ==
    LET kept == SelectSeq(rec.hist, LAMBDA e : e.height < from)
    IN  [cur  |-> IF rec.cur # <<>> /\ rec.cur[1].height < from THEN rec.cur
                  ELSE IF kept = <<>> THEN <<>> ELSE <<Last(kept)>>,
         hist |-> kept]

push_handle_replacement(rec, e, peak) == Replace(rec, e, peak)

\* Mutant: nothing is restored in place of an undone slot.
rollback_handle_to_before_dropOnly(rec, from) ==
    [cur |-> SelectSeq(rec.cur, LAMBDA e : e.height < from),
     hist |-> SelectSeq(rec.hist, LAMBDA e : e.height < from)]

rollback_handle_to_before(rec, from) == RestoreBefore(rec, from)
push_registration_replacement(rec, e, peak) == Replace(rec, e, peak)
rollback_registration_to_before(rec, from) == RestoreBefore(rec, from)
push_pending_replacement(rec, e, peak) == Replace(rec, e, peak)
rollback_pending_to_before(rec, from) == RestoreBefore(rec, from)

\* Clearing keeps the entry as history, without the height of the clearing.
clear_pending_current(rec, peak) ==
    IF rec.cur = <<>> THEN rec ELSE [cur |-> <<>>, hist |-> Prune(rec.hist \o rec.cur, peak)]

\* The statistics: a count and the most recent events.
push_registration_event(stats, e) ==
    LET events == Append(stats.events, e)
    IN  [total  |-> stats.total + (IF e.kind = "register" THEN 1 ELSE 0),
         events |-> IF Len(events) > EventsMax THEN Tail(events) ELSE events]

\* Mutant: the count is not reversed.
rollback_stats_to_before_keepTotal(stats, from) ==
    [stats EXCEPT !.events = SelectSeq(@, LAMBDA e : e.height < from)]

\* Events are popped from the end while they are at or above the height.
rollback_stats_to_before(stats, from) ==
    LET below == {i \in DOMAIN stats.events : stats.events[i].height < from}
        keep  == IF below = {} THEN 0 ELSE Max(below)
        undo  == {i \in DOMAIN stats.events : i > keep /\ stats.events[i].kind = "register"}
    IN  [total  |-> Max({0, stats.total - Cardinality(undo)}),
         events |-> SubSeq(stats.events, 1, keep)]

\* Followed singletons.
Unfollowed == [status |-> "absent", count |-> 0, dropped |-> -1, found |-> -1, rec |-> Empty]

bump_reference(f) ==
    IF f.status = "absent" THEN f ELSE [f EXCEPT !.count = @ + 1, !.dropped = -1]

drop_reference(f, height) ==
    IF f.status = "absent" THEN f
    ELSE [f EXCEPT !.count = Max({0, @ - 1}), !.dropped = IF f.count <= 1 THEN height ELSE @]

cleanup_finalized(f, peak) ==
    IF f.count = 0 /\ f.dropped >= 0 /\ peak >= f.dropped + Finality THEN Unfollowed ELSE f

-----------------------------------------------------------------------------
\* index.rs.  A transition p is the chain up to the block that holds it;
\* `readable` says whether that block is still on the chain when it is read.

NoIndex ==
    [slots |-> [h \in Handles |-> Empty], regs |-> [h \in Handles |-> Empty],
     pend |-> [h \in Handles |-> Empty], stats |-> [total |-> 0, events |-> <<>>],
     follow |-> [o \in Owners |-> Unfollowed]]

Launchers(slot) == {slot.owner, slot.resolved} \ {Nobody}

\* The handles an action spends a slot of and creates one again.
Replaced(st, a) == IF a.kind = "register" THEN Neighbors(st, a.key) ELSE Touches(st, a)

\* Launchers that are neither owner nor resolved of a spent slot, and are now.
references_from_action_log(st, a) ==
    IF Moves(a)
    THEN {a.owner, a.resolved} \ UNION {Launchers(st.slot[h]) : h \in Replaced(st, a)}
    ELSE {}

dereferenced_launchers(st, a) ==
    UNION {Launchers(st.slot[h]) \ Launchers(Created(st, a, h)) : h \in Replaced(st, a)}

discover_reference(f, coin, height, readable) ==
    IF f.status = "active" /\ f.rec.cur # <<>> THEN bump_reference(f)
    ELSE [status |-> IF readable THEN "active" ELSE "incomplete",
          count |-> Max({1, f.count}), dropped |-> -1, found |-> height,
          rec |-> [cur  |-> IF readable THEN <<[coin |-> coin + 1, height |-> height]>> ELSE <<>>,
                   hist |-> f.rec.hist]]

track_slot_reference_changes(f, o, st, a, height) ==
    LET d == IF o \in dereferenced_launchers(st, a) THEN drop_reference(f, height) ELSE f
    IN  IF /\ \E h \in Replaced(st, a) : o \in Launchers(Created(st, a, h))
           /\ d.count = 0 \/ d.dropped >= 0
        THEN bump_reference(d) ELSE d

on_registry_transition(ix, st, a, height, readable) ==
    LET found(o) == IF o \in references_from_action_log(st, a)
                    THEN discover_reference(ix.follow[o], st.coin[o], height, readable)
                    ELSE ix.follow[o]
    IN  [ix EXCEPT !.follow =
            [o \in Owners |-> track_slot_reference_changes(found(o), o, st, a, height)]]

project_handle_slots_from_logs(ix, st, a, height) ==
    [ix EXCEPT !.slots = [h \in Handles |->
        IF h \in Touches(st, a)
        THEN push_handle_replacement(@[h], [val |-> Created(st, a, h), height |-> height], height)
        ELSE @[h]]]

project_registrations_from_logs(ix, a, height) ==
    IF a.kind \notin {"register", "expire"} THEN ix
    ELSE LET e == [kind |-> a.kind, height |-> height]
         IN  [ix EXCEPT !.regs[a.key] = push_registration_replacement(@, e, height),
                        !.stats = push_registration_event(@, e)]

\* Every action that spends the handle's slot clears, initiations push.
project_pending_updates_from_logs(ix, st, a, height) ==
    CASE a.kind = "initiate" ->
            [ix EXCEPT !.pend[a.key] =
                push_pending_replacement(@, [val |-> NewUpdate(st, a), height |-> height], height)]
      [] a.kind \in {"execute", "touch", "expire"} ->
            [ix EXCEPT !.pend[a.key] = clear_pending_current(@, height)]
      [] OTHER -> ix

\* A block that spends the singletons os: incomplete discoveries are retried,
\* current coins that it spends are followed, dropped launchers go.
on_block(ix, st, os, height) ==
    LET step(o) ==
            LET f == ix.follow[o]
                e == [coin |-> st.coin[o] + 1, height |-> height]
            IN  IF o \notin os THEN f
                ELSE IF f.status = "incomplete" THEN [f EXCEPT !.status = "active", !.rec.cur = <<e>>]
                ELSE IF f.rec.cur # <<>> /\ f.rec.cur[1].coin = st.coin[o]
                     THEN [f EXCEPT !.rec = Replace(@, e, height)]
                ELSE f
    IN  [ix EXCEPT !.follow = [o \in Owners |-> cleanup_finalized(step(o), height)]]

apply_registry_transition(ix, p, readable) ==
    LET st == After(Front(p))
        a  == Last(p)
        h  == Len(p)
        i1 == on_registry_transition(ix, st, a, h, readable)
        i2 == project_handle_slots_from_logs(i1, st, a, h)
        i3 == project_registrations_from_logs(i2, a, h)
        i4 == project_pending_updates_from_logs(i3, st, a, h)
    IN  on_block(i4, st, IF readable THEN Approves(st, a) ELSE {}, h)

\* Mutant: a reference dropped by an undone block stays dropped.
RollbackFollowed_keepDropped(f, from) ==
    IF f.status = "absent" \/ f.found >= from THEN Unfollowed
    ELSE [f EXCEPT !.rec = RestoreBefore(@, from)]

RollbackFollowed(f, from) ==
    IF f.status = "absent" \/ f.found >= from THEN Unfollowed
    ELSE LET g == [f EXCEPT !.rec = RestoreBefore(@, from)]
         IN  IF g.dropped >= from THEN [g EXCEPT !.dropped = -1, !.count = Max({1, @})] ELSE g

rollback(ix, from) ==
    [slots |-> [h \in Handles |-> rollback_handle_to_before(ix.slots[h], from)],
     regs |-> [h \in Handles |-> rollback_registration_to_before(ix.regs[h], from)],
     pend |-> [h \in Handles |-> rollback_pending_to_before(ix.pend[h], from)],
     stats |-> rollback_stats_to_before(ix.stats, from),
     follow |-> [o \in Owners |-> RollbackFollowed(ix.follow[o], from)]]

\* follow_blocks_after: the blocks at these heights.
FollowBlocks(ix, hs) ==
    LET upTo[h \in 0 .. Len(chain)] ==
            IF h = 0 THEN ix
            ELSE IF h \notin hs THEN upTo[h - 1]
            ELSE LET st == After(Hash(h - 1))
                 IN  on_block(upTo[h - 1], st, Approves(st, chain[h]), h)
    IN  upTo[Len(chain)]

\* Only spends of current coins are looked at.
catch_up_followed_nfts(ix, c) ==
    LET upTo[h \in 0 .. Len(c)] ==
            IF h = 0 THEN ix
            ELSE LET st == After(SubSeq(c, 1, h - 1))
                     x  == upTo[h - 1]
                     os == {o \in Approves(st, c[h]) :
                               x.follow[o].rec.cur # <<>> /\ x.follow[o].rec.cur[1].coin = st.coin[o]}
                 IN  IF os = {} THEN x ELSE on_block(x, st, os, h)
    IN  upTo[Len(c)]

\* connect_websocket: a slot of the table without a projection gets one, at
\* height 0.
Fallback(ix) ==
    [ix EXCEPT !.slots = [h \in Handles |->
        IF @[h].cur = <<>> /\ table[h] # NoSlot
        THEN push_handle_replacement(@[h], [val |-> table[h], height |-> 0], 0)
        ELSE @[h]]]

-----------------------------------------------------------------------------
\* The chain.

\* Spends the saved position is already past will never be walked.
NeverWalked(c, from) == Passed(c, 1, saved, from)

\* The registry state the saved position stands for.
Walked ==
    LET hs == RegistryHeights(chain)
    IN  IF saved = 0 THEN Genesis ELSE IF saved <= Len(hs) THEN After(Hash(hs[saved])) ELSE After(chain)

Lose(hs) == lost' = lost \cup hs /\ stale' = stale \cup hs

\* A new block between two reads of the chain (the other steps do not read it).
Grow ==
    /\ Len(chain) < MaxHeight
    /\ pc \in {"down", "seed", "idle", "walk"} \/ (pc = "replay" /\ todo = <<>>)
    /\ \E s \in Extensions(chain, 1) : chain' = chain \o s
    /\ Lose(NeverWalked(chain', Len(chain')))
    /\ UNCHANGED <<handler, fork, shared, caught, late, count>>

\* The last d blocks are replaced by n others; a longer fork grows from there.
Reorg ==
    /\ reorgs < MaxReorgs /\ MoreFaults
    /\ pc \in {"down", "seed", "idle"} \/ todo # <<>>
    /\ \E d \in 1 .. Min({MaxDepth, Len(chain)}) : \E n \in 1 .. d :
          /\ LET base == SubSeq(chain, 1, Len(chain) - d)
             IN  /\ \E s \in Extensions(base, n) :
                       s[1] # chain[Len(base) + 1] /\ chain' = base \o s
                 /\ fork' = IF fork = 0 THEN Len(base) + 1 ELSE Min({fork, Len(base) + 1})
    /\ reorgs' = reorgs + 1
    /\ UNCHANGED <<handler, lost, stale, shared, caught, late, misses, stops>>

-----------------------------------------------------------------------------
\* The listener.

Init ==
    /\ chain \in Starts
    /\ pc = "down"
    /\ tip = <<>> /\ recent = <<>> /\ cursor = 0
    /\ saved = 0 /\ table = [h \in Handles |-> NoSlot]
    /\ todo = <<>> /\ index = NoIndex
    /\ blocked = TRUE
    /\ fork = 0 /\ lost = {} /\ stale = {} /\ shared = {} /\ late = {}
    /\ caught = 0 /\ reorgs = 0 /\ misses = 0 /\ stops = 0

\* The registry coin saved as last unspent exists on the chain.
TipExists == Len(RegistryHeights(chain)) >= saved

\* sync_xchandles: the walk from the saved coin to the tip.  Its slots and
\* its position are saved before it returns.
Walk ==
    /\ TipExists
    /\ saved' = Len(RegistryHeights(chain))
    /\ LET st == After(chain)
       IN  table' = [h \in Handles |->
                        IF h \in Passed(chain, saved + 1, saved', 0) THEN st.slot[h] ELSE table[h]]

Transitions ==
    LET hs == RegistryHeights(chain) IN [n \in 1 .. Len(hs) - saved |-> Hash(hs[saved + n])]

\* A connection starts with a walk; the transitions are replayed.
Connect ==
    /\ pc = "down"
    /\ Walk
    /\ todo' = Transitions
    /\ pc' = "replay"
    /\ UNCHANGED <<chain, tip, recent, cursor, index, blocked, ghosts, count>>

\* Launchers two handles refer to.
SharedBy(ix) ==
    {o \in Owners : \E g, h \in Handles :
        /\ g # h /\ ix.slots[g].cur # <<>> /\ ix.slots[h].cur # <<>>
        /\ o \in Launchers(ix.slots[g].cur[1].val) \cap Launchers(ix.slots[h].cur[1].val)}

Project ==
    /\ pc \in {"replay", "project"} /\ todo # <<>>
    /\ LET p == Head(todo)
       IN  index' = apply_registry_transition(index, p, Len(p) <= Len(chain) /\ Hash(Len(p)) = p)
    /\ todo' = Tail(todo)
    /\ shared' = shared \cup SharedBy(index')
    /\ late' = IF pc = "project" /\ Len(Head(todo)) <= cursor
               THEN late \cup Approves(After(Front(Head(todo))), Last(Head(todo))) ELSE late
    /\ UNCHANGED <<chain, pc, tip, recent, cursor, saved, table, blocked, fork, lost, stale, caught, count>>

\* The launchers whose coins the blocks at these heights spend by themselves:
\* with an action of the registry, the transition's own on_block follows them.
SpentAlone(hs) == UNION {IF chain[h].kind = "own" THEN {chain[h].owner} ELSE {} : h \in hs}

\* After the replay: the fallback and the catch-up.
CatchUp ==
    /\ pc = "replay" /\ todo = <<>>
    /\ index' = catch_up_followed_nfts(Fallback(index), chain)
    /\ LET back == {h \in Handles : index.slots[h].cur = <<>> /\ table[h] # NoSlot}
       IN  stale' = (stale \cup back) \ {h \in back : table[h] = Walked.slot[h]}
    /\ shared' = shared \cup SharedBy(index')
    /\ caught' = Len(chain)
    /\ late' = {}
    /\ pc' = "seed"
    /\ UNCHANGED <<chain, tip, recent, cursor, saved, table, todo, blocked, fork, lost, count>>

\* The height to follow from and its record, if there is one.  The blocks since
\* the catch-up are behind it.
Seed ==
    /\ pc = "seed"
    /\ cursor' = Len(chain)
    /\ late' = late \cup SpentAlone(caught + 1 .. Len(chain))
    /\ \/ recent' = <<[height |-> Len(chain), hash |-> chain]>> /\ UNCHANGED misses
       \/ misses < MaxMisses /\ MoreFaults /\ misses' = misses + 1 /\ recent' = <<>>
    /\ caught' = 0
    /\ pc' = "idle"
    /\ UNCHANGED <<chain, tip, saved, table, todo, index, blocked, fork, lost, stale, shared,
                   reorgs, stops>>

\* reorg_rollback_from, -1 for None.
RollbackFrom ==
    LET last == Last(recent)
        bad  == {e \in ToSet(recent) : e.height <= Len(chain) /\ e.hash # Hash(e.height)}
    IN  IF recent = <<>> THEN -1
        ELSE IF Len(chain) < last.height THEN Len(chain) + 1
        ELSE IF Len(chain) = last.height + 1 /\ Hash(last.height) = last.hash THEN -1
        ELSE IF bad = {} THEN -1 ELSE Min({e.height : e \in bad})

\* A peak that extends what was followed.
Peak ==
    /\ pc = "idle"
    /\ RollbackFrom = -1
    /\ tip' = chain
    /\ pc' = "walk"
    /\ UNCHANGED <<chain, recent, cursor, saved, table, todo, index, blocked, ghosts, count>>

\* Handles that a rollback leaves with an entry of the fallback: it has lost
\* its height (0), so no rollback undoes it.
Restored(ix) == {h \in Handles : ix.slots[h].cur # <<>> /\ ix.slots[h].cur[1].height = 0}

\* A peak on another fork: everything from the first changed height is undone.
PeakReorg ==
    /\ pc = "idle"
    /\ RollbackFrom # -1
    /\ LET from  == RollbackFrom
           below == SelectSeq(recent, LAMBDA e : e.height < from)
       IN  /\ index' = rollback(index, from)
           /\ recent' = below
           /\ cursor' = IF below = <<>> THEN Max({0, from - 1}) ELSE Last(below).height
           /\ fork' = IF from <= fork THEN 0 ELSE fork
           /\ lost' = lost \cup NeverWalked(chain, from)
    /\ stale' = stale \cup lost' \cup Restored(index')
    /\ blocked' = TRUE
    /\ tip' = chain
    /\ pc' = "resync"
    /\ UNCHANGED <<chain, saved, table, todo, shared, caught, late, count>>

\* The walk after a rollback: its transitions are not kept.
Resync ==
    /\ pc = "resync"
    /\ Walk
    /\ Lose(Passed(chain, saved + 1, saved', 0))
    /\ pc' = "walk"
    /\ UNCHANGED <<chain, tip, recent, cursor, todo, index, blocked, fork, shared, caught, late, count>>

\* process_spent_registry_records: walk from the registry coin if it is spent.
Process ==
    /\ pc = "walk"
    /\ Walk
    /\ todo' = Transitions
    /\ pc' = "project"
    /\ UNCHANGED <<chain, tip, recent, cursor, index, blocked, ghosts, count>>

\* The saved coin is not on this fork (yet): the call fails, the connection
\* ends, and so will the next ones.
WalkFails ==
    /\ pc \in {"down", "resync", "walk"}
    /\ ~ TipExists
    /\ pc' = "down"
    /\ UNCHANGED <<chain, tip, recent, cursor, saved, table, todo, index, blocked, ghosts, count>>

\* The blocks after the cursor, up to the peak.
Ahead == cursor + 1 .. Min({Len(tip), Len(chain)})

\* The blocks at some heights are followed, some are remembered, and so is the
\* peak; note_peak takes the index for fresh whatever has been missed.
Followed(applied, counted) ==
    /\ pc = "project" /\ todo = <<>>
    /\ index' = FollowBlocks(index, applied)
    /\ cursor' = Max({cursor} \cup counted)
    /\ late' = late \cup SpentAlone({h \in Ahead \ applied : h <= cursor'})
    /\ LET below(q, h) == SelectSeq(q, LAMBDA e : e.height < h)
           new == SetToSortSeq({[height |-> h, hash |-> Hash(h)] : h \in counted},
                               LAMBDA d, e : d.height < e.height)
           q == IF new = <<>> THEN recent ELSE below(recent, new[1].height) \o new
           r == IF q # <<>> /\ Last(q).height = Len(tip) THEN q
                ELSE Append(below(q, Len(tip)), [height |-> Len(tip), hash |-> tip])
       IN  recent' = SubSeq(r, Max({1, Len(r) - Window + 1}), Len(r))
    /\ blocked' = FALSE
    /\ pc' = "idle"
    /\ UNCHANGED <<chain, tip, saved, table, todo, fork, lost, stale, shared, caught, reorgs, stops>>

Finish == Followed(Ahead, Ahead) /\ UNCHANGED misses

\* A block has no record and is skipped, or on_block fails and it counts all
\* the same, or a call fails: what was followed before stays, and no block counts.
FinishPartly ==
    /\ misses < MaxMisses /\ MoreFaults /\ misses' = misses + 1
    /\ \E h \in Ahead :
          \/ Followed(Ahead \ {h}, Ahead \ {h})
          \/ Followed(Ahead \ {h}, Ahead)
          \/ Followed(cursor + 1 .. h - 1, {})

\* The socket closes or a call fails (freshness stays as it is), or the
\* process stops and starts again (resyncing).  Walked transitions are gone.
Stop ==
    /\ pc \in {"replay", "seed", "idle", "resync", "project"} /\ stops < MaxStops /\ MoreFaults
    /\ stops' = stops + 1
    /\ blocked' \in {blocked, TRUE}
    /\ Lose(UNION {Touches(After(Front(p)), Last(p)) : p \in ToSet(todo)})
    /\ todo' = <<>> /\ caught' = 0
    /\ pc' = "down"
    /\ UNCHANGED <<chain, tip, recent, cursor, saved, table, index, fork, shared, late, reorgs, misses>>

Next ==
    \/ Grow \/ Reorg
    \/ Connect \/ Project \/ CatchUp \/ Seed
    \/ Peak \/ PeakReorg \/ Resync \/ Process \/ WalkFails \/ Finish \/ FinishPartly
    \/ Stop

Spec == Init /\ [][Next]_vars

-----------------------------------------------------------------------------
\* What the API answers.

\* Mutant: any live owner coin may execute.
Offered_anyCoin(h) ==
    /\ index.slots[h].cur # <<>> /\ index.pend[h].cur # <<>>
    /\ index.follow[index.slots[h].cur[1].val.owner].rec.cur # <<>>

\* performable_pending_transfer: the owner's current coin is the child of the
\* coin that initiated.
Offered(h) ==
    /\ index.slots[h].cur # <<>> /\ index.pend[h].cur # <<>>
    /\ LET o == index.slots[h].cur[1].val.owner
           f == index.follow[o]
       IN  /\ f.status = "active" /\ f.rec.cur # <<>>
           /\ index.pend[h].cur[1].val.initiator = [owner |-> o, coin |-> f.rec.cur[1].coin - 1]

-----------------------------------------------------------------------------
\* The slot served for a handle.
Served(h) == IF index.slots[h].cur = <<>> THEN NoSlot ELSE index.slots[h].cur[1].val

Settled == pc \in {"idle", "down"} /\ fork = 0

\* Between two peaks, the slot served for a handle is the one the registry
\* coin saved by the walk stands for, across restarts, replays, the fallback
\* to saved slots, and rollbacks that restore replaced slots from the pruned
\* history.  Excepted are exactly the handles whose transitions the saved
\* position has passed without their being projected (`stale`, see Lose) or
\* whose slot the fallback restored before a fork (see Restored), and a fork
\* the remembered peaks do not reach (`fork`).
ProjectionFollowsChain ==
    Settled => \A h \in Handles \ stale : Served(h) = Walked.slot[h]

\* A launcher that a served slot names is followed and counted, through
\* transfers back and forth, finalised clean-ups and rollbacks, unless two
\* handles have shared it ("Pairing spent_left with created_handle would
\* falsely drop the left neighbor's Owner/Resolved NFT follow", index.rs:415).
FollowedWhileReferenced ==
    Settled => \A h \in Handles \ (lost \cup stale) :
        \A o \in Launchers(Served(h)) \ shared : index.follow[o].count > 0

\* total_registered is never above the number of registration facts served:
\* rollbacks reverse the count of every event they undo, as long as none of
\* them has left the bounded feed.
NeverOvercounts ==
    fork = 0 => index.stats.total <= Cardinality({h \in Handles : index.regs[h].cur # <<>>})

\* A pending transfer the API offers can be executed on the chain of the
\* indexed peak, or could at a later block already projected, although clears
\* leave no height behind and a rollback may bring back an executed update:
\* the check of the initiator's coin masks those.  The API may offer a coin
\* that is spent when the owner's spend lies at or below the cursor without
\* having been followed (`late`), or above it after a failed call, until the
\* next peak (Ahead).
OfferedIsExecutable ==
    pc = "idle" /\ ~ blocked /\ fork = 0 =>
        \A h \in Handles :
            /\ Offered(h) /\ h \notin lost \cup stale
            /\ Served(h).owner \notin late \cup SpentAlone(Ahead)
            => \E n \in Len(tip) .. Len(chain) :
                  LET st == After(Hash(n))
                      u  == index.pend[h].cur[1].val
                  IN  u \in st.updates /\ Executable(st, u)
=============================================================================
