----------------------------- MODULE SpendBundle -----------------------------
(***************************************************************************)
(* Several actions in one spend of a registry (singleton/action.rue).      *)
(*                                                                         *)
(* The actions run one after the other, but they only produce conditions:  *)
(* a message to each slot coin they read and a new coin for each value     *)
(* they write.  The chain matches those of a whole spend at once, with no  *)
(* order: a slot may be read by an action that runs before the one that    *)
(* creates it, because a coin may be created and spent in the same block.  *)
(* So here an action may name ANY value.  A value read before a coin for   *)
(* it exists is a debt, and the spend is accepted only without debts.      *)
(***************************************************************************)
EXTENDS SlotList, FiniteSets

CONSTANTS LowEnd, HighEnd, \* the keys of the two end slots
          Names,           \* keys that can be registered
          CounterBound,    \* bound on the counters of values actions name
          MaxActions       \* bound on the actions of one spend

ASSUME BundleAssumption ==
    /\ LowEnd \in Int /\ HighEnd \in Int /\ LowEnd < HighEnd
    /\ \A k \in Names : k \in Int /\ LowEnd < k /\ k < HighEnd
    /\ CounterBound \in Nat /\ MaxActions \in Nat

VARIABLES
    pool,    \* values of unspent slot coins, with those of this spend so far
    debts,   \* values this spend reads for which no coin exists yet
    base,    \* the unspent values before this spend
    acts     \* the set of actions of this spend: what each reads and writes

bundleVars == <<pool, debts, base, acts>>

AllKeys == Names \cup {LowEnd, HighEnd}

\* The values an action's solution could name.  Others, out of order or with
\* an end slot's outer pointer moved, have no coin and no action writes them
\* (writes keep the order of what was read), so a spend that reads one is
\* never accepted.
Values ==
    {v \in [key : AllKeys, left : AllKeys, right : AllKeys, counter : 0 .. CounterBound] :
        /\ v.key = LowEnd \/ v.left < v.key
        /\ v.key = HighEnd \/ v.key < v.right
        /\ v.key = LowEnd => v.left = LowEnd
        /\ v.key = HighEnd => v.right = HighEnd}

EndValue(k) == [key |-> k, left |-> LowEnd, right |-> HighEnd, counter |-> 0]

BundleInit ==
    /\ base = {EndValue(LowEnd), EndValue(HighEnd)}
    /\ pool = base
    /\ debts = {}
    /\ acts = {}

\* No action writes more than three slots: a spend with more debts than the
\* remaining actions can settle is not worth continuing.
MaxWrites == 3

\* Reading takes a coin from the pool or leaves a debt; writing settles a
\* debt or adds to the pool.  One spend cannot create the same coin twice.
Add(reads, writes) ==
    /\ Cardinality(acts) < MaxActions
    /\ \A a \in acts : a.writes \cap writes = {}
    /\ reads \cap debts = {}
    /\ LET owed == debts \cup (reads \ pool)
           rest == pool \ reads
       IN  /\ debts' = owed \ writes
           /\ Cardinality(debts') <= MaxWrites * (MaxActions - Cardinality(acts) - 1)
           /\ pool' = rest \cup (writes \ owed)
    /\ acts' = acts \cup {[reads |-> reads, writes |-> writes]}
    /\ UNCHANGED base

\* oracle, extend, refund, ...: read a value, write it under the next counter.
Touch(v) == Add({v}, {Touched(v)})

\* The registrations an action's solution could name.
Registrations ==
    {x \in [name : Names, left : Values, right : Values] : Brackets(x.left, x.right, x.name)}

Insert(k, l, r) ==
    Add({l, r}, {[key |-> k, left |-> l.key, right |-> r.key, counter |-> 0],
                 RelinkRight(l, k), RelinkLeft(r, k)})

Accepted == acts # {} /\ debts = {}

EndSpend ==
    /\ Accepted
    /\ base' = pool
    /\ acts' = {}
    /\ UNCHANGED <<pool, debts>>

BundleNext ==
    \/ \E v \in Values : Touch(v)
    \/ \E x \in Registrations : Insert(x.name, x.left, x.right)
    \/ EndSpend

BundleSpec == BundleInit /\ [][BundleNext]_bundleVars

-----------------------------------------------------------------------------
\* Orders in which the actions of the spend could have been run.
Orders ==
    {f \in [1 .. Cardinality(acts) -> acts] :
        \A i, j \in DOMAIN f : i # j => f[i] # f[j]}

\* The values unspent after the first n actions of order f, one at a time.
After(f, n) ==
    LET upTo[i \in 0 .. n] ==
            IF i = 0 THEN base ELSE (upTo[i - 1] \ f[i].reads) \cup f[i].writes
    IN  upTo[n]

\* A spend that the chain accepts is equivalent to running its actions one
\* after the other on coins that exist: no set of actions can conjure up
\* the slots that it reads.  This is what the counter in a slot's value is for.
AcceptedIsSerial ==
    Accepted =>
        \E f \in Orders :
            /\ \A i \in DOMAIN f : f[i].reads \subseteq After(f, i - 1)
            /\ After(f, Cardinality(acts)) = pool

\* Between spends the unspent slots are the sorted linked list.
ListBetweenSpends == Accepted => ListInv(pool, LowEnd, HighEnd)
=============================================================================
