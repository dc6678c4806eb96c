---------------------------- MODULE RegistrySync ----------------------------
(***************************************************************************)
(* The walk by which every command and both listeners bring the SQLite     *)
(* database up to date with a registry (xchandles/sync.rs,                 *)
(* catalog/sync.rs and the statements of database.rs they execute).        *)
(*                                                                         *)
(* Each SQL statement commits on its own, so a process may stop between    *)
(* any two of them: a walk is a queue of statements (`todo`), one per      *)
(* step, and Crash drops the rest of the queue.  An RPC error that leaves  *)
(* the function through `?` is the same event.  All processes share one    *)
(* file, data.db.  The chain grows meanwhile.                              *)
(*                                                                         *)
(* Registry coins are numbered 0, 1, ...: coin c is spent by chain[c + 1], *)
(* at height c + 1.  Chain reorganisations are not part of this module.    *)
(***************************************************************************)
EXTENDS SlotList, SequencesExt

CONSTANTS
    Lo, Hi, Names,   \* the end slots' values and the keys that can be registered
    Procs,           \* processes that may use data.db
    Uses,            \* [kind ("xchandles" or "catalog"), procs (that use the file),
                     \* names, and the bounds actions (of a spend) and crashes]
    Keep,            \* blocks of spent records a cache clear keeps (128)
    MaxSpends, MaxCounter   \* bounds

ASSUME SyncAssumption ==
    /\ Lo \in Int /\ Hi \in Int /\ Lo < Hi
    /\ \A k \in Names : k \in Int /\ Lo < k /\ k < Hi
    /\ \A u \in Uses : /\ u.kind \in {"xchandles", "catalog"} /\ u.procs \subseteq Procs
                       /\ u.names \subseteq Names /\ {u.actions, u.crashes} \subseteq Nat
    /\ {Keep, MaxSpends, MaxCounter} \subseteq Nat

VARIABLES
    use,      \* which registry, and so which sync function, and who syncs it; never changes
    chain,    \* the registry's spends: the slot values each one read and wrote
    rows,     \* table slots
    index,    \* table *_indexed_slot_values: a partial function key -> value
    coins,    \* table singleton_coins
    config,   \* is there a row in xchandles_configurations?
    proc,     \* per process: where it is in sync_xchandles / sync_catalog
    crashes

db == <<rows, index, coins, config>>
vars == <<use, chain, db, proc, crashes>>

kind == use.kind

EndSlot(k) == [key |-> k, left |-> Lo, right |-> Hi, counter |-> 0]

\* The eve coin, parent of the first registry coin and of the end slots.
Eve == -1

Idle == [pc |-> "idle", at |-> 0, save |-> FALSE, spent |-> FALSE, todo |-> <<>>]

Init ==
    /\ use \in Uses
    /\ chain = <<>>
    /\ rows = {}
    /\ index = <<>>
    /\ coins = {}
    /\ config = FALSE
    /\ proc = [p \in Procs |-> Idle]
    /\ crashes = 0

-----------------------------------------------------------------------------
\* The chain.

Elements(q) == {q[i] : i \in DOMAIN q}

Apply(S, a) == (S \ Elements(a.spent)) \cup Elements(a.created)

\* The unspent slot coins when registry coin c is the tip.
SlotsAt(c) ==
    LET at[i \in 0 .. c] ==
            IF i = 0
            THEN {[value |-> EndSlot(k), parent |-> Eve] : k \in {Lo, Hi}}
            ELSE {s \in at[i - 1] : s.value \notin Elements(chain[i].spent)}
                 \cup {[value |-> v, parent |-> i - 1] :
                          v \in Elements(chain[i].created) \ Elements(chain[i].spent)}
    IN  at[c]

ValuesAt(c) == {s.value : s \in SlotsAt(c)}

\* What one action may read and write when the unspent values are S.
Actions(S) ==
    {[spent |-> <<s>>, created |-> <<Touched(s)>>] : s \in {t \in S : t.counter < MaxCounter}}
    \cup {[spent   |-> <<x[2], x[3]>>,
           created |-> <<[key |-> x[1], left |-> x[2].key, right |-> x[3].key, counter |-> 0],
                         RelinkRight(x[2], x[1]), RelinkLeft(x[3], x[1])>>] :
            x \in {y \in use.names \X S \X S : Brackets(y[2], y[3], y[1])}}

\* A spend of the registry runs one or two actions.
Spends(S) ==
    Actions(S) \cup
    (IF use.actions < 2 THEN {}
     ELSE UNION {{[spent |-> a.spent \o b.spent, created |-> a.created \o b.created] :
                     b \in Actions(Apply(S, a))} : a \in Actions(S)})

Grow ==
    /\ Len(chain) < MaxSpends
    /\ \E s \in Spends(ValuesAt(Len(chain))) : chain' = Append(chain, s)
    /\ UNCHANGED <<use, db, proc, crashes>>

-----------------------------------------------------------------------------
\* The statements of database.rs.

\* ON CONFLICT DO UPDATE: a row that was marked becomes unspent again.
SaveSlot(v, parent) ==
    /\ rows' = {r \in rows : ~ (r.value = v /\ r.parent = parent)}
               \cup {[value |-> v, parent |-> parent, spentAt |-> 0]}
    /\ UNCHANGED <<index, coins, config>>

\* Mutant: the first value indexed for a key stays.
SaveIndexed_first(v) ==
    /\ index' = [k \in DOMAIN index \cup {v.key} |-> IF k \in DOMAIN index THEN index[k] ELSE v]
    /\ UNCHANGED <<rows, coins, config>>

SaveIndexed(v) ==
    /\ index' = [k \in DOMAIN index \cup {v.key} |-> IF k = v.key THEN v ELSE index[k]]
    /\ UNCHANGED <<rows, coins, config>>

MarkSlotAsSpent(v, h) ==
    /\ rows' = {IF r.value = v /\ r.spentAt = 0 THEN [r EXCEPT !.spentAt = h] ELSE r : r \in rows}
    /\ UNCHANGED <<index, coins, config>>

\* catalog/sync.rs looks up the value the index has for the spent asset.
MarkIndexedAsSpent(k, h) ==
    IF k \in DOMAIN index THEN MarkSlotAsSpent(index[k], h) ELSE UNCHANGED db

\* Mutant: the parent's row stays unspent.
MarkParentSpent_never(c) == UNCHANGED <<coins, rows, index, config>>

\* save_singleton_coin, first statement: the coin's parent has been spent.
MarkParentSpent(c) ==
    /\ coins' = {IF r.coin = c - 1 /\ r.spentAt = 0 THEN [r EXCEPT !.spentAt = c] ELSE r : r \in coins}
    /\ UNCHANGED <<rows, index, config>>

\* save_singleton_coin, second statement: ON CONFLICT DO NOTHING.
InsertCoin(c, spentAt) ==
    /\ coins' = IF \E r \in coins : r.coin = c THEN coins
                ELSE coins \cup {[coin |-> c, spentAt |-> spentAt]}
    /\ UNCHANGED <<rows, index, config>>

SaveConfig ==
    /\ config' = TRUE
    /\ UNCHANGED <<rows, index, coins>>

Execute(w) ==
    \/ w.op = "slot"   /\ SaveSlot(w.value, w.n)
    \/ w.op = "index"  /\ SaveIndexed(w.value)
    \/ w.op = "mark"   /\ MarkSlotAsSpent(w.value, w.n)
    \/ w.op = "markIx" /\ MarkIndexedAsSpent(w.value.key, w.n)
    \/ w.op = "parent" /\ MarkParentSpent(w.n)
    \/ w.op = "coin"   /\ InsertCoin(w.n, 0)
    \/ w.op = "spent"  /\ InsertCoin(w.n, w.n + 1)
    \/ w.op = "config" /\ SaveConfig

\* A queued statement; n is a coin number or a height.
W(op, v, n) == [op |-> op, value |-> v, n |-> n]

-----------------------------------------------------------------------------
\* The walk.

\* Mutant: spent values are marked before created ones are saved.
XchandlesWrites_markFirst(c) ==
    LET s == chain[c + 1]
    IN  [i \in DOMAIN s.spent |-> W("mark", s.spent[i], c + 1)]
        \o FlattenSeq([i \in DOMAIN s.created |->
               <<W("index", s.created[i], c), W("slot", s.created[i], c)>>])

\* What xchandles/sync.rs does with the spend of coin c: every created value
\* is indexed and saved as unspent, then every spent value is marked.
XchandlesWrites(c) ==
    LET s == chain[c + 1]
    IN  FlattenSeq([i \in DOMAIN s.created |->
            <<W("index", s.created[i], c), W("slot", s.created[i], c)>>])
        \o [i \in DOMAIN s.spent |-> W("mark", s.spent[i], c + 1)]

Count(q, v) == Cardinality({i \in DOMAIN q : q[i] = v})

\* What catalog/sync.rs does with it: the indexed value of each spent asset is
\* marked, then each value created more often than spent is indexed and saved.
CatalogWrites(c) ==
    LET s == chain[c + 1]
        IsNew(i) ==
            /\ \A j \in 1 .. i - 1 : s.created[j] # s.created[i]
            /\ Count(s.spent, s.created[i]) < Count(s.created, s.created[i])
    IN  [i \in DOMAIN s.spent |-> W("markIx", s.spent[i], c + 1)]
        \o FlattenSeq([i \in DOMAIN s.created |->
               IF IsNew(i) THEN <<W("index", s.created[i], c), W("slot", s.created[i], c)>>
               ELSE <<>>])

SpendWrites(c) == IF kind = "catalog" THEN CatalogWrites(c) ELSE XchandlesWrites(c)

\* The queue of a process that starts from the launcher.
ColdWrites ==
    <<W("slot", EndSlot(Lo), Eve), W("index", EndSlot(Lo), Eve),
      W("slot", EndSlot(Hi), Eve), W("index", EndSlot(Hi), Eve)>>

ConfigWrites == IF kind = "catalog" \/ config THEN <<>> ELSE <<W("config", EndSlot(Lo), 0)>>

Tips == {r.coin : r \in {x \in coins : x.spentAt = 0}}

\* resume_from_saved_tip: both a saved tip and the constants are needed.
CanResume == Tips # {} /\ (kind = "catalog" \/ config)

Stopped(p) == proc[p].pc \in {"idle", "done", "crashed"}

\* LIMIT 1 may return any unspent row.  The coin the walk starts from is not
\* saved when it is the registry's first.
Start(p) ==
    /\ Stopped(p)
    /\ \/ /\ CanResume
          /\ \E c \in Tips :
                proc' = [proc EXCEPT ![p] =
                    [pc |-> "walk", at |-> c, save |-> TRUE, spent |-> FALSE, todo |-> ConfigWrites]]
       \/ /\ ~ CanResume
          /\ proc' = [proc EXCEPT ![p] =
                [pc |-> "walk", at |-> 0, save |-> FALSE, spent |-> FALSE,
                 todo |-> ColdWrites \o ConfigWrites]]
    /\ UNCHANGED <<use, chain, db, crashes>>

\* get_coin_record_by_name: the record says whether the coin is spent now.
\* The queue is what is written before the walk looks at the next coin.
Fetch(p) ==
    /\ proc[p].pc = "walk" /\ proc[p].todo = <<>>
    /\ LET c == proc[p].at
           spent == c < Len(chain)
           save == IF proc[p].save
                   THEN <<W("parent", EndSlot(Lo), c), W(IF spent THEN "spent" ELSE "coin", EndSlot(Lo), c)>>
                   ELSE <<>>
       IN  proc' = [proc EXCEPT ![p] =
               [pc |-> "write", at |-> c, save |-> TRUE, spent |-> spent,
                todo |-> save \o (IF spent THEN SpendWrites(c) ELSE <<>>)]]
    /\ UNCHANGED <<use, chain, db, crashes>>

Write(p) ==
    /\ proc[p].pc \in {"walk", "write"} /\ proc[p].todo # <<>>
    /\ Execute(Head(proc[p].todo))
    /\ proc' = [proc EXCEPT ![p].todo = Tail(@)]
    /\ UNCHANGED <<use, chain, crashes>>

\* The walk moves on to the child of a spent coin and ends at an unspent one.
Advance(p) ==
    /\ proc[p].pc = "write" /\ proc[p].todo = <<>>
    /\ proc' = [proc EXCEPT ![p] =
          IF @.spent THEN [@ EXCEPT !.pc = "walk", !.at = proc[p].at + 1] ELSE [@ EXCEPT !.pc = "done"]]
    /\ UNCHANGED <<use, chain, db, crashes>>

Crash(p) ==
    /\ crashes < use.crashes
    /\ ~ Stopped(p)
    /\ proc' = [proc EXCEPT ![p] = [Idle EXCEPT !.pc = "crashed"]]
    /\ crashes' = crashes + 1
    /\ UNCHANGED <<use, chain, db>>

\* Mutant: unspent records are old records too.
ClearCache_all(p) ==
    /\ proc[p].pc = "done"
    /\ LET Old(r) == r.spentAt < Len(chain) - Keep
       IN  /\ rows' = {r \in rows : ~ Old(r)}
           /\ coins' = {r \in coins : ~ Old(r)}
    /\ UNCHANGED <<use, chain, index, config, proc, crashes>>

\* The listeners' cache clear: spent records more than Keep blocks old go.
ClearCache(p) ==
    /\ proc[p].pc = "done"
    /\ LET Old(r) == r.spentAt > 0 /\ r.spentAt < Len(chain) - Keep
       IN  /\ rows' = {r \in rows : ~ Old(r)}
           /\ coins' = {r \in coins : ~ Old(r)}
    /\ UNCHANGED <<use, chain, index, config, proc, crashes>>

Next ==
    \/ Grow
    \/ \E p \in use.procs :
          \/ Start(p)
          \/ Fetch(p)
          \/ Write(p)
          \/ Advance(p)
          \/ Crash(p)
          \/ ClearCache(p)

Spec == Init /\ [][Next]_vars

\* A command that failed is run again, the listeners run a walk whenever the
\* coin they know is spent, and a walk that is not interrupted goes on.
FairSpec ==
    /\ Spec
    /\ \A p \in Procs : /\ WF_vars(p \in use.procs /\ Start(p))
                        /\ WF_vars(Fetch(p) \/ Write(p) \/ Advance(p))

-----------------------------------------------------------------------------
\* No walk is under way and the last one of every process came to its end.
Quiet == \A p \in Procs : proc[p].pc \in {"idle", "done"}
Synced == {proc[p].at : p \in {q \in Procs : proc[q].pc = "done"}}

\* After a walk that came to its end, whatever crashed before it, the rows
\* with spent_block_height = 0 are exactly the slots unspent at the tip the
\* walk found, each with the parent its coin really has (slot spends prove it).
SyncedRows ==
    Quiet /\ Synced # {} =>
        {[value |-> r.value, parent |-> r.parent] : r \in {x \in rows : x.spentAt = 0}}
            = SlotsAt(Max(Synced))

\* get_*_neighbors: the nearest indexed keys on both sides, if their values
\* have unspent rows.
Left(k) == {r.value : r \in {x \in rows : x.spentAt = 0
                /\ \E j \in DOMAIN index : /\ j < k /\ x.value = index[j]
                                           /\ \A i \in DOMAIN index : ~ (j < i /\ i < k)}}
Right(k) == {r.value : r \in {x \in rows : x.spentAt = 0
                /\ \E j \in DOMAIN index : /\ k < j /\ x.value = index[j]
                                           /\ \A i \in DOMAIN index : ~ (k < i /\ i < j)}}

\* After such a walk the neighbours the database returns for a free key are
\* a pair that register.rue accepts for it.
NeighborsBracket ==
    Quiet /\ Synced # {} =>
        \A k \in use.names \ Keys(ValuesAt(Max(Synced))) :
            /\ Left(k) # {} /\ Right(k) # {}
            /\ \A l \in Left(k), r \in Right(k) : Brackets(l, r, k)

\* get_last_unspent_singleton_coin says LIMIT 1 without an order: there is
\* never more than one unspent coin to choose from, at no point of any walk,
\* and the cache clear, which goes by the height of a row, finds in each of
\* the others the height at which that coin was spent.
OneTip == Cardinality(Tips) <= 1 /\ \A r \in coins : r.spentAt \in {0, r.coin + 1}

\* Once the chain stops growing and processes stop crashing, the database
\* shows the registry's final slots and keeps showing them.
Converges ==
    <>[]({r.value : r \in {x \in rows : x.spentAt = 0}} = ValuesAt(Len(chain)))
=============================================================================
