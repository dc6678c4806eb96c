--------------------------- MODULE SingletonFollow ---------------------------
(***************************************************************************)
(* How the XCHandles listener keeps one followed singleton up to date      *)
(* across new blocks and reorganisations: the peak handler of              *)
(* connect_websocket, reorg_rollback_from and follow_blocks_after in       *)
(* xchandles/listen.rs, SingletonIndexer::on_block and rollback in         *)
(* listener/index.rs, and the bounded history of listener/store.rs.        *)
(*                                                                         *)
(* A connection first replays the registries' spends, walks the current    *)
(* coin's own spends (catch_up_followed_nfts), and then reads the height   *)
(* it will follow from; only then does it handle peaks.  Each is an RPC    *)
(* call: the chain may change between any two of them, except between the  *)
(* peak's record and the header hashes compared with it, and a record may  *)
(* be missing from an answer.                                              *)
(*                                                                         *)
(* A block is the sequence of spends of the singleton it holds and a tag   *)
(* that tells forks apart.  A header hash is the chain up to that block, a *)
(* coin of the singleton is the sequence of spends that led to it; the     *)
(* same spend may be included again, at another height, by another fork.   *)
(* The record of the singleton was discovered below the modelled chain, so *)
(* no rollback removes it; its reference count is not part of this module. *)
(***************************************************************************)
EXTENDS Integers, FiniteSets, SequencesExt

CONSTANTS
    Blocks,        \* contents of blocks: [tag, spends]
    Start,         \* the chain when the listener starts
    Window,        \* peaks remembered, blocks of history kept (32)
    MaxHeight, MaxReorgs, MaxDepth, MaxMisses, MaxRestarts,   \* bounds
    Interrupted    \* may the chain reorganise while a peak is handled?

Melt == "melt"

VARIABLES
    chain,      \* the canonical chain, as the RPC service answers now
    pc,         \* where the connection or its peak handler is
    tip,        \* the peak height it read
    record,     \* the tip's block record it read, if any
    cursor,     \* last_followed_height
    recent,     \* recent_peaks: heights and header hashes
    follow,     \* next height follow_blocks_after looks at
    followed,   \* what it has followed in this call
    current,    \* the singleton's current state, or NoState
    history,    \* its earlier states
    seen,       \* history variable: the chain when the peak was read, or up
                \* to the last block a registry's spend has taken since
    skipped,    \* history variable: heights skipped and not followed since
    trouble,    \* history variable: "none", "rewind" or "lost", see Tracks
    reorgs, misses, restarts

vars == <<chain, pc, tip, record, cursor, recent, follow, followed, current,
          history, seen, skipped, trouble, reorgs, misses, restarts>>
index == <<current, history>>
count == <<reorgs, misses, restarts>>

NoRecord == <<>>   \* a record that was answered is <<hash>>
NoState == [coin |-> <<"none">>, height |-> 0]

\* The header hash at a height.
Hash(h) == SubSeq(chain, 1, h)

-----------------------------------------------------------------------------
\* The singleton on a chain.

SpendsOf(c) == FlattenSeq([i \in DOMAIN c |-> c[i].spends])

Melted(coin) == coin # <<>> /\ Last(coin) = Melt

\* The state the chain c implies: the coin and the height that created it.
StateOn(c) ==
    LET hs == {i \in DOMAIN c : c[i].spends # <<>>}
    IN  [coin |-> SpendsOf(c), height |-> IF hs = {} THEN 0 ELSE Max(hs)]

\* Was the coin of state s created at its height on chain c?
OnChain(s, c) ==
    /\ s.height <= Len(c)
    /\ IsPrefix(s.coin, SpendsOf(SubSeq(c, 1, s.height)))
    /\ s.height > 0 => Len(s.coin) > Len(SpendsOf(SubSeq(c, 1, s.height - 1)))

\* Do the chains c and d agree up to height h?
Same(c, d, h) == h <= Len(c) /\ h <= Len(d) /\ SubSeq(c, 1, h) = SubSeq(d, 1, h)

\* Does c drop blocks of d, but only above a height: does it agree with d up to
\* there, or to its own end?
Drops(c, d, h) ==
    /\ Len(d) > h /\ ~ Same(c, d, Len(d))
    /\ \/ Same(c, d, h)
       \/ Len(c) < h /\ Same(c, d, Len(c))

\* The states are of chain c, each of the coin before spent once (or, after a
\* rollback, of the same), and go back to below height `low`.
Unbroken(states, c, low) ==
    /\ \A i \in DOMAIN states : OnChain(states[i], c)
    /\ \A i \in 2 .. Len(states) : Len(states[i].coin) - Len(states[i - 1].coin) \in {0, 1}
    /\ states[1].height = 0 \/ states[1].height < low

\* A block that can follow chain c: nothing follows a melt.
CanFollow(c, b) ==
    LET coin == SpendsOf(c) \o b.spends
    IN  \A i \in 1 .. Len(coin) - 1 : coin[i] # Melt

Extensions(c, n) ==
    {s \in [1 .. n -> Blocks] : \A i \in 1 .. n : CanFollow(c \o SubSeq(s, 1, i - 1), s[i])}

ASSUME FollowAssumption ==
    /\ Blocks \subseteq [tag : Nat, spends : Seq({"a", "b", Melt})]
    /\ Start \in Seq(Blocks)
    /\ \A i \in DOMAIN Start : CanFollow(SubSeq(Start, 1, i - 1), Start[i])
    /\ Window \in Nat \ {0} /\ Interrupted \in BOOLEAN
    /\ {MaxHeight, MaxReorgs, MaxDepth, MaxMisses, MaxRestarts} \subseteq Nat

-----------------------------------------------------------------------------
\* The chain.

\* A state is "lost" when the listener can no longer promise the one on the
\* chain, until the next connection has caught up.  A "rewind" is over with the
\* next peak.
LostIf(condition) == IF condition THEN "lost" ELSE trouble

\* Do the blocks s spend the singleton more than once in one block?
Twice(s) == \E i \in DOMAIN s : Len(s[i].spends) > 1

Grow ==
    /\ Len(chain) < MaxHeight
    /\ \E s \in Extensions(chain, 1) : chain' = chain \o s /\ trouble' = LostIf(Twice(s))
    /\ UNCHANGED <<pc, tip, record, cursor, recent, follow, followed, index,
                   seen, skipped, count>>

\* The last d blocks are replaced; the new chain may be shorter. States are
\* lost if the fork leaves below the oldest remembered peak, if it drops a
\* block that a registry's spend has taken already but no remembered peak, and
\* if it comes while a connection is set up or a peak is handled.
Reorg ==
    /\ reorgs < MaxReorgs
    /\ Interrupted \/ pc = "handled"
    /\ \E d \in 1 .. MaxDepth, n \in 1 .. MaxDepth :
          /\ d <= Len(chain)
          /\ LET base == SubSeq(chain, 1, Len(chain) - d)
             IN  /\ Len(base) + n <= MaxHeight
                 /\ \E s \in Extensions(base, n) :
                       /\ s[1] # chain[Len(base) + 1]
                       /\ chain' = base \o s
                       /\ trouble' = LostIf(
                             \/ Twice(s)
                             \/ recent = <<>> \/ Len(base) + 1 < recent[1].height
                             \/ Drops(chain', seen, cursor)
                             \/ pc # "handled")
    /\ reorgs' = reorgs + 1
    /\ UNCHANGED <<pc, tip, record, cursor, recent, follow, followed, index,
                   seen, skipped, misses, restarts>>

-----------------------------------------------------------------------------
\* listener/store.rs

\* The entries of q whose indices are in I, in order.  (SelectSeq would do,
\* but it takes an operator, which the provers cannot expand.)
Keep(q, I) ==
    LET kept[i \in 0 .. Len(q)] ==
            IF i = 0 THEN <<>> ELSE IF i \in I THEN Append(kept[i - 1], q[i]) ELSE kept[i - 1]
    IN  kept[Len(q)]

\* The entries (states, or remembered peaks) below a height.
Below(q, from) == Keep(q, {i \in DOMAIN q : q[i].height < from})

\* Mutant: no older predecessor is kept.
Prune_recentOnly(h, peak) == Keep(h, {i \in DOMAIN h : h[i].height >= peak - Window})

\* Replaced states of the last Window blocks and one older predecessor.
Prune(h, peak) ==
    LET old == {i \in DOMAIN h : h[i].height < peak - Window}
    IN  (IF old = {} THEN <<>> ELSE <<h[Max(old)]>>)
        \o Keep(h, DOMAIN h \ old)

\* The states before a fork; the newest is restored if the current one goes.
RollbackToBefore(from) ==
    LET kept == Below(history, from)
    IN  /\ history' = kept
        /\ current' = IF current.height < from THEN current
                      ELSE IF kept = <<>> THEN NoState ELSE Last(kept)

\* on_block: the block's spend of the current coin, if it holds one, is
\* followed; one spend per call.
OnBlock(st, c, h) ==
    LET base  == SpendsOf(SubSeq(c, 1, h - 1))
        spent == {i \in DOMAIN c[h].spends : st.cur.coin = base \o SubSeq(c[h].spends, 1, i - 1)}
    IN  IF st.cur = NoState \/ Melted(st.cur.coin) \/ spent = {} THEN st
        ELSE [cur  |-> [coin |-> Append(st.cur.coin, c[h].spends[Min(spent)]), height |-> h],
              hist |-> Prune(Append(st.hist, st.cur), h)]

Apply(h) ==
    LET st == OnBlock([cur |-> current, hist |-> history], chain, h)
    IN  current' = st.cur /\ history' = st.hist

-----------------------------------------------------------------------------
\* A connection: what connect_websocket does before its first peak.

\* The listener starts: the singleton was discovered at height 0.
Init ==
    /\ chain = Start
    /\ current = [coin |-> <<>>, height |-> 0] /\ history = <<>>
    /\ pc = "connect"
    /\ tip = 0 /\ record = NoRecord /\ cursor = 0 /\ recent = <<>>
    /\ follow = 1 /\ followed = <<>>
    /\ seen = <<>> /\ skipped = {} /\ trouble = "lost"
    /\ reorgs = 0 /\ misses = 0 /\ restarts = 0

\* An error, or a closed socket, ends the connection at any step; the loop of
\* `listen` opens the next one, which finds the index as it was left.
Reconnect ==
    /\ restarts < MaxRestarts
    /\ restarts' = restarts + 1
    /\ pc' = "connect"
    /\ tip' = 0 /\ record' = NoRecord /\ cursor' = 0 /\ recent' = <<>>
    /\ follow' = 1 /\ followed' = <<>>
    /\ seen' = <<>> /\ skipped' = {} /\ trouble' = "lost"
    /\ UNCHANGED <<chain, index, reorgs, misses>>

\* A block is taken through on_block by the replay of a registry's spend, or by
\* catch_up_followed_nfts, which looks the current coin's spend up.
Walk(h) ==
    /\ pc = "connect"
    /\ Apply(h)
    /\ UNCHANGED <<chain, pc, tip, record, cursor, recent, follow, followed, seen,
                   skipped, trouble, count>>

\* catch_up_followed_nfts ends when the current coin is unspent.
CatchUp ==
    /\ pc = "connect"
    /\ Melted(current.coin) \/ ~ IsStrictPrefix(current.coin, SpendsOf(chain))
    /\ pc' = "seed"
    /\ seen' = chain
    /\ trouble' = IF Unbroken(Append(history, current), chain, Len(chain)) THEN "none" ELSE "lost"
    /\ UNCHANGED <<chain, tip, record, cursor, recent, follow, followed, index,
                   skipped, count>>

\* The height to follow from is read.  Blocks added since the catch-up are
\* behind it: a spend in one of them is not followed.
SeedCursor ==
    /\ pc = "seed"
    /\ pc' = "record"
    /\ cursor' = Len(chain) /\ tip' = Len(chain) /\ seen' = chain
    /\ trouble' = LostIf(SpendsOf(chain) # SpendsOf(seen))
    /\ UNCHANGED <<chain, record, recent, follow, followed, index, skipped, count>>

\* Its record, the first remembered peak.
SeedRecord ==
    /\ pc = "record"
    /\ cursor <= Len(chain)
    /\ recent' = <<[height |-> cursor, hash |-> Hash(cursor)]>>
    /\ pc' = "handled"
    /\ UNCHANGED <<chain, tip, record, cursor, follow, followed, index, seen,
                   skipped, trouble, count>>

\* There is none: no peak is remembered.
SeedMiss ==
    /\ pc = "record"
    /\ \/ cursor > Len(chain) /\ UNCHANGED misses
       \/ cursor <= Len(chain) /\ misses < MaxMisses /\ misses' = misses + 1
    /\ pc' = "handled"
    /\ UNCHANGED <<chain, tip, record, cursor, recent, follow, followed, index,
                   seen, skipped, trouble, reorgs, restarts>>

-----------------------------------------------------------------------------
\* The peak handler.

\* get_blockchain_state: the new peak's height.
Peak ==
    /\ pc = "handled"
    /\ tip' = Len(chain)
    /\ seen' = chain
    /\ pc' = "check"
    /\ trouble' = IF trouble = "lost" THEN "lost"
                  ELSE IF recent # <<>> /\ Len(chain) < Last(recent).height THEN "rewind"
                  ELSE "none"
    /\ UNCHANGED <<chain, record, cursor, recent, follow, followed, index,
                   skipped, count>>

\* The service does not know the state: no height is compared or followed, but
\* the registries' spends are processed.
PeakMiss ==
    /\ pc = "handled"
    /\ misses < MaxMisses
    /\ misses' = misses + 1
    /\ tip' = cursor /\ follow' = cursor + 1
    /\ pc' = "transitions"
    /\ trouble' = "lost"
    /\ UNCHANGED <<chain, record, cursor, recent, followed, index, seen, skipped, reorgs, restarts>>

\* Mutant: the scan reports the height after the first mismatch.
ReorgFrom_after(stored, height, prev, known) ==
    LET last == Last(stored)
        bad  == {i \in known : stored[i].hash # Hash(stored[i].height)}
    IN  IF stored = <<>> THEN -1
        ELSE IF height < last.height THEN height + 1
        ELSE IF height = last.height + 1 /\ prev = last.hash THEN -1
        ELSE IF bad = {} THEN -1 ELSE stored[Min(bad)].height + 1

\* reorg_rollback_from, -1 for None.  `known` are the entries of the window
\* whose heights the service answered for before its first miss.
ReorgFrom(stored, height, prev, known) ==
    LET last == Last(stored)
        bad  == {i \in known : stored[i].hash # Hash(stored[i].height)}
    IN  IF stored = <<>> THEN -1
        ELSE IF height < last.height THEN height + 1
        ELSE IF height = last.height + 1 /\ prev = last.hash THEN -1
        ELSE IF bad = {} THEN -1 ELSE stored[Min(bad)].height

Rollback(from) ==
    /\ RollbackToBefore(from)
    /\ recent' = Below(recent, from)
    /\ cursor' = IF recent' = <<>> THEN (IF from = 0 THEN 0 ELSE from - 1)
                 ELSE Last(recent').height

\* The tip's record, the header hashes of the window, and the rollback.
Check ==
    /\ pc = "check"
    /\ tip <= Len(chain)
    /\ LET answered == {i \in DOMAIN recent : recent[i].height <= Len(chain)}
           known == {i \in answered : \A j \in 1 .. i : j \in answered}
           from  == ReorgFrom(recent, tip, Hash(tip - 1), known)
       IN  IF from = -1 THEN UNCHANGED <<index, recent, cursor>> ELSE Rollback(from)
    /\ record' = <<Hash(tip)>>
    /\ pc' = "transitions"
    /\ follow' = cursor' + 1
    /\ UNCHANGED <<chain, tip, followed, seen, skipped, trouble, count>>

\* There is no record at that height: the fork is shorter by now, or the
\* service misses it.  No reorganisation is looked for.
CheckMiss ==
    /\ pc = "check"
    /\ \/ tip > Len(chain) /\ UNCHANGED misses
       \/ tip <= Len(chain) /\ misses < MaxMisses /\ misses' = misses + 1
    /\ pc' = "transitions"
    /\ follow' = cursor + 1
    /\ trouble' = "lost"
    /\ UNCHANGED <<chain, tip, record, cursor, recent, followed, index, seen, skipped,
                   reorgs, restarts>>

\* process_spent_registry_records: a registry's spend takes its block through
\* on_block ahead of the others.  The registries were read after the peak, so
\* the block may be above it.  States are lost if those of a rewound fork may be
\* below it, or if it is so far above that pruning for it drops some that the
\* remembered peaks may roll back to.
Transition(h) ==
    /\ pc = "transitions"
    /\ Apply(h)
    /\ seen' = IF h > Len(seen) /\ ~ UNCHANGED index THEN Hash(h) ELSE seen
    /\ trouble' = LostIf(/\ ~ UNCHANGED index
                         /\ \/ trouble = "rewind"
                            \/ h > tip + 1 /\ Len(history') <= Len(history))
    /\ UNCHANGED <<chain, pc, tip, record, cursor, recent, follow, followed,
                   skipped, count>>

\* No registry coin is spent any more.
Synced ==
    /\ pc = "transitions"
    /\ pc' = "follow"
    /\ UNCHANGED <<chain, tip, record, cursor, recent, follow, followed, index,
                   seen, skipped, trouble, count>>

Follow ==
    /\ pc = "follow" /\ follow <= tip /\ follow <= Len(chain)
    /\ Apply(follow)
    /\ followed' = Append(followed, [height |-> follow, hash |-> Hash(follow)])
    /\ follow' = follow + 1
    /\ skipped' = skipped \ {follow}
    /\ UNCHANGED <<chain, pc, tip, record, cursor, recent, seen, trouble, count>>

FollowMiss ==
    /\ pc = "follow" /\ follow <= tip
    /\ \/ follow > Len(chain) /\ UNCHANGED misses
       \/ follow <= Len(chain) /\ misses < MaxMisses /\ misses' = misses + 1
    /\ follow' = follow + 1
    /\ skipped' = skipped \cup {follow}
    /\ trouble' = "lost"
    /\ UNCHANGED <<chain, pc, tip, record, cursor, recent, followed, index, seen, reorgs, restarts>>

\* on_block fails before it gets to this singleton (it stops at the first
\* record it cannot follow): the block counts as followed all the same.
FollowFailed ==
    /\ pc = "follow" /\ follow <= tip /\ follow <= Len(chain)
    /\ misses < MaxMisses /\ misses' = misses + 1
    /\ followed' = Append(followed, [height |-> follow, hash |-> Hash(follow)])
    /\ follow' = follow + 1
    /\ trouble' = "lost"
    /\ UNCHANGED <<chain, pc, tip, record, cursor, recent, index, seen, skipped, reorgs, restarts>>

Trim(q) == IF Len(q) > Window THEN SubSeq(q, Len(q) - Window + 1, Len(q)) ELSE q

\* Remember an entry in place of everything at its height and above.
Remember(q, e) == Append(Below(q, e.height), e)

RememberAll(q, es) ==
    LET upTo[n \in 0 .. Len(es)] == IF n = 0 THEN q ELSE Remember(upTo[n - 1], es[n])
    IN  upTo[Len(es)]

Finish ==
    /\ pc = "follow" /\ follow > tip
    /\ LET all == RememberAll(recent, followed)
           end == IF record = NoRecord \/ (all # <<>> /\ Last(all).height = tip) THEN all
                  ELSE Remember(all, [height |-> tip, hash |-> record[1]])
       IN  recent' = Trim(end)
    /\ cursor' = IF followed = <<>> THEN cursor ELSE Last(followed).height
    /\ pc' = "handled"
    /\ record' = NoRecord /\ follow' = 1 /\ followed' = <<>>
    /\ UNCHANGED <<chain, tip, index, seen, skipped, trouble, count>>

\* An RPC error in follow_blocks_after: what was applied stays applied, but
\* the cursor does not move.
FollowError ==
    /\ pc = "follow" /\ follow <= tip
    /\ misses < MaxMisses
    /\ misses' = misses + 1
    /\ recent' = IF record = NoRecord \/ (recent # <<>> /\ Last(recent).height = tip) THEN recent
                 ELSE Trim(Remember(recent, [height |-> tip, hash |-> record[1]]))
    /\ pc' = "handled"
    /\ record' = NoRecord /\ follow' = 1 /\ followed' = <<>>
    /\ trouble' = "lost"
    /\ UNCHANGED <<chain, tip, cursor, index, seen, skipped, reorgs, restarts>>

Next ==
    \/ Grow
    \/ Reorg
    \/ Reconnect
    \/ \E h \in 1 .. Len(chain) : Walk(h)
    \/ CatchUp
    \/ SeedCursor
    \/ SeedRecord
    \/ SeedMiss
    \/ Peak
    \/ PeakMiss
    \/ Check
    \/ CheckMiss
    \/ \E h \in 1 .. Len(chain) : Transition(h)
    \/ Synced
    \/ Follow
    \/ FollowMiss
    \/ FollowFailed
    \/ Finish
    \/ FollowError

Spec == Init /\ [][Next]_vars

-----------------------------------------------------------------------------
\* When a peak has been handled, the singleton's current state is the one on
\* the chain that peak belongs to ("Current canonical state when Active",
\* listener/store.rs), or on that chain up to a later block a registry's spend
\* has taken: across skipped peaks, spends that a fork drops or includes again
\* elsewhere, an empty window and new connections.  Excepted are a peak lower
\* than the one before (reorg_rollback_from compares no hashes then), until the
\* next peak, and what loses states until the next connection has caught up:
\*  - a record that was missing, a call or an on_block that failed, a block
\*    that spends the singleton twice;
\*  - a spend in a block between the catch-up and the height followed from;
\*  - a fork while a connection is set up or a peak handled, one that leaves
\*    below the remembered peaks, or drops only blocks taken ahead of them;
\*  - a registry's spend taken after a rewind, or from so far above the peak
\*    that the history is pruned for it;
\*  - states held at a new connection that are no unbroken line of its chain.
Tracks == pc = "handled" /\ trouble = "none" => current = StateOn(seen)

\* Whatever height of the remembered window the next fork leaves from, the
\* pruned history still holds the state to go back to.
RollbackReady ==
    pc = "handled" /\ trouble = "none" /\ recent # <<>> =>
        \A from \in recent[1].height .. tip :
            from > 0 =>
                LET kept == Below(Append(history, current), from)
                IN  kept # <<>> /\ Last(kept) = StateOn(SubSeq(seen, 1, from - 1))

\* "Missing records are skipped so the next peak can retry them."
MissingAreRetried == pc = "handled" => \A h \in skipped : cursor < h
=============================================================================
