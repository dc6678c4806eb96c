------------------------- MODULE RegistrySyncProofs -------------------------
(***************************************************************************)
(* Proofs about RegistrySync.                                              *)
(*                                                                         *)
(* The chain: every spend finds the values it spends among the unspent     *)
(* ones and leaves a list (History), so that a value is made once and      *)
(* SlotsOf(chain, c) are the slots made before coin c and not spent before *)
(* it (SlotsAre).                                                          *)
(*                                                                         *)
(* The coins, for any number of processes (CoinInv, OneTipInTime): a       *)
(* process marks the parent of a coin before it saves the coin, and a      *)
(* recent coin that was saved is still there.                              *)
(*                                                                         *)
(* The rows, for one process (SyncInv, SyncedRowsAlone): what the database *)
(* is good for at each point of a walk, given what is still queued.        *)
(*                                                                         *)
(* The index, for one process (IndexInv, NeighborsBracketAlone): what a    *)
(* spend makes for a key has rising counters, so that the last value which *)
(* a walk indexes for it is the one the spend leaves.                      *)
(***************************************************************************)
EXTENDS RegistrySync, CommonLemmas, SequenceTheorems

-----------------------------------------------------------------------------
\* Concatenations.

\* The elements of a concatenation are those of its two parts.
LEMMA ConcatElements ==
    ASSUME NEW X, NEW a \in Seq(X), NEW b \in Seq(X)
    PROVE  a \o b \in Seq(X) /\ Elements(a \o b) = Elements(a) \cup Elements(b)
<1> DEFINE c == a \o b
<1>1. /\ c \in Seq(X) /\ Len(c) = Len(a) + Len(b)
      /\ \A i \in 1 .. Len(a) : c[i] = a[i]
      /\ \A i \in 1 .. Len(b) : c[Len(a) + i] = b[i]
  OBVIOUS
<1>2. /\ Len(a) \in Nat /\ Len(b) \in Nat /\ DOMAIN a = 1 .. Len(a) /\ DOMAIN b = 1 .. Len(b)
      /\ DOMAIN c = 1 .. Len(c)
  BY <1>1
<1>3. Elements(c) \subseteq Elements(a) \cup Elements(b)
  <2> SUFFICES ASSUME NEW i \in DOMAIN c PROVE c[i] \in Elements(a) \cup Elements(b)
    BY DEF Elements
  <2>1. CASE i \in 1 .. Len(a)
    BY <1>1, <1>2, <2>1 DEF Elements
  <2>2. CASE i \notin 1 .. Len(a)
    <3>1. i - Len(a) \in 1 .. Len(b) /\ i = Len(a) + (i - Len(a))
      BY <1>1, <1>2, <2>2
    <3> QED BY <1>1, <1>2, <3>1 DEF Elements
  <2> QED BY <2>1, <2>2
<1>4. Elements(a) \subseteq Elements(c)
  BY <1>1, <1>2 DEF Elements
<1>5. Elements(b) \subseteq Elements(c)
  <2> SUFFICES ASSUME NEW i \in DOMAIN b PROVE b[i] \in Elements(c)
    BY DEF Elements
  <2>1. Len(a) + i \in DOMAIN c
    BY <1>1, <1>2
  <2> QED BY <1>1, <1>2, <2>1 DEF Elements
<1> QED BY <1>1, <1>3, <1>4, <1>5

\* Where the elements of a concatenation come from.
LEMMA ConcatPositions ==
    ASSUME NEW X, NEW a \in Seq(X), NEW b \in Seq(X)
    PROVE  /\ Len(a) \in Nat /\ DOMAIN (a \o b) \subseteq Nat
           /\ \A i \in DOMAIN (a \o b) :
                 \/ i \in DOMAIN a /\ i <= Len(a) /\ (a \o b)[i] = a[i] /\ a[i] \in Elements(a)
                 \/ i > Len(a) /\ i - Len(a) \in DOMAIN b /\ (a \o b)[i] = b[i - Len(a)] /\ b[i - Len(a)] \in Elements(b)
           /\ \A i \in DOMAIN a : i \in DOMAIN (a \o b) /\ (a \o b)[i] = a[i]
           /\ \A i \in DOMAIN b : Len(a) + i \in DOMAIN (a \o b) /\ (a \o b)[Len(a) + i] = b[i]
<1> DEFINE c == a \o b
<1>1. /\ Len(a) \in Nat /\ Len(b) \in Nat /\ DOMAIN a = 1 .. Len(a) /\ DOMAIN b = 1 .. Len(b)
      /\ DOMAIN c = 1 .. Len(a) + Len(b)
      /\ \A i \in 1 .. Len(a) : c[i] = a[i]
      /\ \A i \in 1 .. Len(b) : c[Len(a) + i] = b[i]
  OBVIOUS
<1> HIDE DEF c
<1>2. ASSUME NEW i \in DOMAIN c
      PROVE  \/ i \in DOMAIN a /\ i <= Len(a) /\ c[i] = a[i] /\ a[i] \in Elements(a)
             \/ i > Len(a) /\ i - Len(a) \in DOMAIN b /\ c[i] = b[i - Len(a)] /\ b[i - Len(a)] \in Elements(b)
  <2>1. CASE i \in 1 .. Len(a)
    BY <1>1, <2>1 DEF Elements
  <2>2. CASE i \notin 1 .. Len(a)
    <3>1. i > Len(a) /\ i - Len(a) \in 1 .. Len(b) /\ i = Len(a) + (i - Len(a))
      BY <1>1, <2>2
    <3> QED BY <1>1, <3>1 DEF Elements
  <2> QED BY <2>1, <2>2
<1>3. \A i \in DOMAIN a : i \in DOMAIN c /\ c[i] = a[i]
  BY <1>1
<1>4. \A i \in DOMAIN b : Len(a) + i \in DOMAIN c /\ c[Len(a) + i] = b[i]
  BY <1>1
<1>5. DOMAIN c \subseteq Nat
  BY <1>1
<1> QED BY <1>1, <1>2, <1>3, <1>4, <1>5 DEF c

\* A flattened sequence is made by appending its parts one after the other.
LEMMA FlattenRecursion ==
    ASSUME NEW X, NEW q \in Seq(X), Len(q) # 0
    PROVE  \E F : /\ FlattenSeq(q) = F[Len(q)] /\ F[1] = q[1]
                  /\ \A i \in 2 .. Len(q) : F[i] = F[i - 1] \o q[i]
<1> DEFINE Step(f, i) == IF i = 1 THEN q[i] ELSE f[i - 1] \o q[i]
           Part(k) == \E f : f = [i \in 1 .. k |-> Step(f, i)]
<1>a. Len(q) \in Nat /\ DOMAIN q = 1 .. Len(q)
  OBVIOUS
<1>b. Len(q) # 0
  OBVIOUS
<1>1. \A k \in Nat : Part(k)
  <2> DEFINE T == {k \in Nat : Part(k)}
  <2>1. Part(0)
    <3> DEFINE f == [i \in 1 .. 0 |-> <<>>]
    <3>1. f = [i \in 1 .. 0 |-> Step(f, i)]
      OBVIOUS
    <3> QED BY <3>1
  <2>2. ASSUME NEW k \in Nat, Part(k) PROVE Part(k + 1)
    <3>1. PICK f : f = [i \in 1 .. k |-> Step(f, i)]
      BY <2>2
    <3> DEFINE g == [i \in 1 .. k + 1 |-> Step(f, i)]
    <3>2. \A i \in 1 .. k : g[i] = f[i]
      <4>1. \A i \in 1 .. k : f[i] = Step(f, i)
        <5> HIDE DEF Step
        <5> QED BY <3>1
      <4>2. \A i \in 1 .. k : g[i] = Step(f, i)
        <5> HIDE DEF Step
        <5> QED OBVIOUS
      <4> HIDE DEF Step, g
      <4> QED BY <4>1, <4>2
    <3>3. \A i \in 1 .. k + 1 : Step(f, i) = Step(g, i)
      <4> HIDE DEF g
      <4> QED BY <3>2
    <3>4. g = [i \in 1 .. k + 1 |-> Step(g, i)]
      <4> HIDE DEF Step
      <4> QED BY <3>3
    <3> HIDE DEF g, Step
    <3> QED BY <3>4
  <2>3. 0 \in T /\ \A k \in Nat : k \in T => k + 1 \in T
    <3> HIDE DEF Part
    <3> QED BY <2>1, <2>2
  <2> HIDE DEF T, Part
  <2>4. Nat \subseteq T
    BY <2>3, AllNat
  <2> QED BY <2>4 DEF T
<1> DEFINE F == CHOOSE f : f = [i \in 1 .. Len(q) |-> Step(f, i)]
<1>2. F = [i \in 1 .. Len(q) |-> Step(F, i)]
  <2>1. Part(Len(q))
    <3> HIDE DEF Part
    <3> QED BY <1>a, <1>1
  <2> HIDE DEF Step
  <2> QED BY <2>1
<1>3. FlattenSeq(q) = F[Len(q)]
  BY <1>b DEF FlattenSeq
<1>4. F[1] = q[1] /\ \A i \in 2 .. Len(q) : F[i] = F[i - 1] \o q[i]
  <2>1. \A i \in 1 .. Len(q) : F[i] = Step(F, i)
    <3> HIDE DEF Step, F
    <3> QED BY <1>2
  <2>2. \A i \in 2 .. Len(q) : i \in 1 .. Len(q) /\ i # 1
    BY <1>a
  <2>3. 1 \in 1 .. Len(q)
    BY <1>a, <1>b
  <2> HIDE DEF F
  <2>4. F[1] = q[1]
    BY <2>1, <2>3 DEF Step
  <2>5. \A i \in 2 .. Len(q) : F[i] = F[i - 1] \o q[i]
    BY <2>1, <2>2 DEF Step
  <2> QED BY <2>4, <2>5
<1> HIDE DEF F
<1> QED BY <1>3, <1>4

\* The elements of a flattened sequence are those of its parts.
LEMMA FlattenElements ==
    ASSUME NEW X, NEW q \in Seq(Seq(X))
    PROVE  /\ FlattenSeq(q) \in Seq(X)
           /\ Elements(FlattenSeq(q)) = UNION {Elements(q[i]) : i \in DOMAIN q}
<1>1. Len(q) \in Nat /\ DOMAIN q = 1 .. Len(q) /\ \A i \in 1 .. Len(q) : q[i] \in Seq(X)
  OBVIOUS
<1>2. CASE Len(q) = 0
  <2>1. FlattenSeq(q) = q
    BY <1>2 DEF FlattenSeq
  <2>2. q = <<>>
    BY <1>2
  <2> QED BY <2>1, <2>2 DEF Elements
<1>3. CASE Len(q) # 0
  <2>3. PICK F : FlattenSeq(q) = F[Len(q)] /\ F[1] = q[1] /\ \A i \in 2 .. Len(q) : F[i] = F[i - 1] \o q[i]
    BY <1>3, FlattenRecursion
  <2>4. F[1] = q[1] /\ \A i \in 2 .. Len(q) : F[i] = F[i - 1] \o q[i]
    BY <2>3
  <2> DEFINE Good(k) == F[k] \in Seq(X) /\ Elements(F[k]) = UNION {Elements(q[i]) : i \in 1 .. k}
             T == {k \in Nat : k + 1 \in 1 .. Len(q) => Good(k + 1)}
  <2>5. 0 \in T
    <3>1. {Elements(q[i]) : i \in 1 .. 1} = {Elements(q[1])}
      OBVIOUS
    <3> QED BY <1>1, <1>3, <2>4, <3>1
  <2>6. ASSUME NEW k \in Nat, k \in T PROVE k + 1 \in T
    <3> SUFFICES ASSUME k + 2 \in 1 .. Len(q) PROVE Good(k + 2)
      <4> (k + 1) + 1 = k + 2 /\ k + 1 \in Nat
        OBVIOUS
      <4> HIDE DEF Good
      <4> QED OBVIOUS
    <3>0. k + 1 \in 1 .. Len(q) /\ k + 2 \in 2 .. Len(q) /\ (k + 2) - 1 = k + 1
      BY <1>1
    <3>1. Good(k + 1) /\ F[k + 2] = F[k + 1] \o q[k + 2]
      <4> HIDE DEF Good
      <4> QED BY <3>0, <2>4, <2>6
    <3>2. F[k + 2] \in Seq(X) /\ Elements(F[k + 2]) = Elements(F[k + 1]) \cup Elements(q[k + 2])
      BY <1>1, <3>1, ConcatElements
    <3>3. 1 .. k + 2 = (1 .. k + 1) \cup {k + 2}
      OBVIOUS
    <3>4. UNION {Elements(q[i]) : i \in 1 .. k + 2}
            = (UNION {Elements(q[i]) : i \in 1 .. k + 1}) \cup Elements(q[k + 2])
      BY <3>3
    <3> QED BY <3>1, <3>2, <3>4
  <2>7. Good(Len(q))
    <3>1. Len(q) - 1 \in Nat
      BY <1>1, <1>3
    <3>2. Len(q) - 1 \in T
      <4> HIDE DEF T
      <4> QED BY <2>5, <2>6, <3>1, AllNat
    <3> HIDE DEF Good
    <3> QED BY <1>1, <3>1, <3>2
  <2> QED BY <1>1, <2>3, <2>7
<1> QED BY <1>2, <1>3

\* They keep the order of the parts.
LEMMA FlattenOrder ==
    ASSUME NEW X, NEW q \in Seq(Seq(X))
    PROVE  \A i, j \in DOMAIN FlattenSeq(q) : i < j =>
               \E m, n \in DOMAIN q : m <= n /\ FlattenSeq(q)[i] \in Elements(q[m]) /\ FlattenSeq(q)[j] \in Elements(q[n])
<1>1. Len(q) \in Nat /\ DOMAIN q = 1 .. Len(q) /\ \A i \in 1 .. Len(q) : q[i] \in Seq(X)
  OBVIOUS
<1>n. \A k \in 1 .. Len(q) : k + 1 \in 1 .. Len(q) => k + 1 \in 2 .. Len(q) /\ (k + 1) - 1 = k
  BY <1>1
<1>2. CASE Len(q) = 0
  <2>1. FlattenSeq(q) = q /\ DOMAIN q = {}
    BY <1>1, <1>2 DEF FlattenSeq
  <2> QED BY <2>1
<1>3. CASE Len(q) # 0
  <2>1. PICK F : FlattenSeq(q) = F[Len(q)] /\ F[1] = q[1] /\ \A i \in 2 .. Len(q) : F[i] = F[i - 1] \o q[i]
    BY <1>3, FlattenRecursion
  <2> DEFINE Of(f, i, k) == \E m \in 1 .. k : f[i] \in Elements(q[m])
             Order(f, i, j, k) == \E m, n \in 1 .. k : m <= n /\ f[i] \in Elements(q[m]) /\ f[j] \in Elements(q[n])
             Good(k) == /\ F[k] \in Seq(X)
                        /\ \A i \in DOMAIN F[k] : Of(F[k], i, k)
                        /\ \A i, j \in DOMAIN F[k] : i < j => Order(F[k], i, j, k)
             T == {k \in Nat : k + 1 \in 1 .. Len(q) => Good(k + 1)}
  <2>2. Good(1)
    <3>1. F[1] \in Seq(X) /\ \A i \in DOMAIN F[1] : F[1][i] \in Elements(q[1])
      BY <1>1, <1>3, <2>1 DEF Elements
    <3> QED BY <3>1
  <2>3. ASSUME NEW k \in 1 .. Len(q), k + 1 \in 1 .. Len(q), Good(k) PROVE Good(k + 1)
    <3> DEFINE a == F[k]
               b == q[k + 1]
               c == F[k + 1]
    <3>1. c = a \o b /\ a \in Seq(X) /\ b \in Seq(X)
      <4>1. F[k] \in Seq(X)
        BY <2>3
      <4> HIDE DEF Good
      <4>2. k + 1 \in 2 .. Len(q) /\ (k + 1) - 1 = k
        BY <1>n, <2>3
      <4>3. F[k + 1] = F[(k + 1) - 1] \o q[k + 1]
        BY <2>1, <4>2
      <4>4. q[k + 1] \in Seq(X)
        BY <1>1, <2>3
      <4> QED BY <4>1, <4>2, <4>3, <4>4
    <3>2. /\ Len(a) \in Nat /\ DOMAIN c \subseteq Nat /\ c \in Seq(X)
          /\ \A i \in DOMAIN c :
                 \/ i \in DOMAIN a /\ i <= Len(a) /\ c[i] = a[i] /\ a[i] \in Elements(a)
                 \/ i > Len(a) /\ i - Len(a) \in DOMAIN b /\ c[i] = b[i - Len(a)] /\ b[i - Len(a)] \in Elements(b)
      <4> HIDE DEF a, b, c
      <4> QED BY <3>1, ConcatPositions, ConcatElements
    <3>3. /\ \A i \in DOMAIN a : Of(a, i, k)
          /\ \A i, j \in DOMAIN a : i < j => Order(a, i, j, k)
      BY <2>3
    <3>4. k \in Nat /\ k + 1 \in 1 .. k + 1 /\ \A m \in 1 .. k : m \in 1 .. k + 1 /\ m <= k + 1
      BY <1>1
    <3>b. \A x \in Elements(b) : x \in Elements(q[k + 1])
      OBVIOUS
    <3> HIDE DEF a, b, c
    <3>5. \A i \in DOMAIN c : Of(c, i, k + 1)
      BY <3>2, <3>3, <3>4, <3>b
    <3>6. ASSUME NEW i \in DOMAIN c, NEW j \in DOMAIN c, i < j PROVE Order(c, i, j, k + 1)
      <4>1. CASE j <= Len(a)
        <5>1. i \in DOMAIN a /\ j \in DOMAIN a /\ c[i] = a[i] /\ c[j] = a[j]
          BY <3>2, <3>6, <4>1
        <5>2. Order(a, i, j, k)
          BY <3>3, <3>6, <5>1
        <5> QED BY <3>4, <5>1, <5>2
      <4>2. CASE j > Len(a)
        <5>1. c[j] \in Elements(q[k + 1])
          <6>1. j \in Nat /\ ~ (j <= Len(a))
            BY <3>2, <4>2
          <6>2. c[j] \in Elements(b)
            BY <3>2, <6>1
          <6> QED BY <3>b, <6>2
        <5>2. PICK m \in 1 .. k + 1 : c[i] \in Elements(q[m])
          BY <3>5
        <5>3. m <= k + 1
          BY <3>4
        <5> QED BY <3>4, <5>1, <5>2, <5>3
      <4> QED BY <3>2, <4>1, <4>2
    <3>7. c = F[k + 1]
      BY DEF c
    <3> HIDE DEF Of, Order
    <3> QED BY <3>2, <3>5, <3>6, <3>7
  <2> HIDE DEF Good
  <2>4. 0 \in T /\ \A k \in Nat : k \in T => k + 1 \in T
    <3>1. 0 \in T
      BY <2>2
    <3>2. ASSUME NEW k \in Nat, k \in T PROVE k + 1 \in T
      <4> SUFFICES ASSUME (k + 1) + 1 \in 1 .. Len(q) PROVE Good((k + 1) + 1)
        OBVIOUS
      <4>1. k + 1 \in 1 .. Len(q)
        BY <1>1
      <4>2. Good(k + 1)
        BY <3>2, <4>1
      <4> QED BY <2>3, <4>1, <4>2
    <3> QED BY <3>1, <3>2
  <2>5. Good(Len(q))
    <3>1. Len(q) - 1 \in Nat /\ (Len(q) - 1) + 1 = Len(q) /\ Len(q) \in 1 .. Len(q)
      BY <1>1, <1>3
    <3>2. Len(q) - 1 \in T
      <4> HIDE DEF T
      <4> QED BY <2>4, <3>1, AllNat
    <3> QED BY <3>1, <3>2
  <2> QED BY <1>1, <2>1, <2>5 DEF Good
<1> QED BY <1>2, <1>3

-----------------------------------------------------------------------------
\* The types of the state.

Value == [key : Int, left : Int, right : Int, counter : Nat]
Spend == [spent : Seq(Value), created : Seq(Value)]
Row == [value : Value, parent : Int, spentAt : Nat]
Statement == [op : {"slot", "index"}, value : Value, n : Int]
             \cup [op : {"mark", "markIx", "parent", "coin", "spent", "config"}, value : Value, n : Nat]
Process == [pc : {"idle", "walk", "write", "done", "crashed"}, at : Nat, save : BOOLEAN,
            spent : BOOLEAN, todo : Seq(Statement)]

Typed ==
    /\ use \in Uses /\ chain \in Seq(Spend)
    /\ rows \subseteq Row /\ coins \subseteq [coin : Nat, spentAt : Nat] /\ config \in BOOLEAN
    /\ DOMAIN index \subseteq Int /\ \A k \in DOMAIN index : index[k] \in Value /\ index[k].key = k
    /\ proc \in [Procs -> Process] /\ crashes \in Nat

-----------------------------------------------------------------------------
\* The slots at a coin, one spend after the other.

\* SlotsAt with the chain as a parameter.
SlotsOf(ch, c) ==
    LET at[i \in 0 .. c] ==
            IF i = 0
            THEN {[value |-> EndSlot(k), parent |-> Eve] : k \in {Lo, Hi}}
            ELSE {s \in at[i - 1] : s.value \notin Elements(ch[i].spent)}
                 \cup {[value |-> v, parent |-> i - 1] :
                          v \in Elements(ch[i].created) \ Elements(ch[i].spent)}
    IN  at[c]

\* The slots after a spend: those it did not spend, and those it leaves.
Left_(S, a) == {s \in S : s.value \notin Elements(a.spent)}
Made(a, n) == {[value |-> v, parent |-> n] : v \in Elements(a.created) \ Elements(a.spent)}
Ends == {[value |-> EndSlot(k), parent |-> Eve] : k \in {Lo, Hi}}

\* The table that SlotsOf looks its answer up in.
LEMMA SlotsTable ==
    ASSUME NEW ch, NEW c \in Nat
    PROVE  \E f : /\ f = [i \in 0 .. c |-> IF i = 0 THEN Ends
                                           ELSE Left_(f[i - 1], ch[i]) \cup Made(ch[i], i - 1)]
                  /\ SlotsOf(ch, c) = f[c]
<1> DEFINE Step(f, i) == IF i = 0 THEN Ends ELSE Left_(f[i - 1], ch[i]) \cup Made(ch[i], i - 1)
           Part(k) == \E f : f = [i \in 0 .. k |-> Step(f, i)]
           T == {k \in Nat : Part(k)}
<1>1. Part(0)
  <2> DEFINE f == [i \in 0 .. 0 |-> Ends]
  <2>1. f = [i \in 0 .. 0 |-> Step(f, i)]
    OBVIOUS
  <2> QED BY <2>1
<1>2. ASSUME NEW k \in Nat, Part(k) PROVE Part(k + 1)
  <2>1. PICK f : f = [i \in 0 .. k |-> Step(f, i)]
    BY <1>2
  <2> DEFINE g == [i \in 0 .. k + 1 |-> Step(f, i)]
  <2>2. \A i \in 0 .. k : g[i] = f[i]
    <3>1. \A i \in 0 .. k : f[i] = Step(f, i)
      <4> HIDE DEF Step
      <4> QED BY <2>1
    <3>2. \A i \in 0 .. k : g[i] = Step(f, i)
      <4> HIDE DEF Step
      <4> QED OBVIOUS
    <3> HIDE DEF Step, g
    <3> QED BY <3>1, <3>2
  <2>3. \A i \in 0 .. k + 1 : Step(f, i) = Step(g, i)
    <3> HIDE DEF g
    <3>1. \A i \in 0 .. k + 1 : i # 0 => g[i - 1] = f[i - 1]
      BY <2>2
    <3> QED BY <3>1
  <2>4. g = [i \in 0 .. k + 1 |-> Step(g, i)]
    <3> HIDE DEF Step
    <3> QED BY <2>3
  <2> HIDE DEF g, Step
  <2> QED BY <2>4
<1>3. 0 \in T /\ \A k \in Nat : k \in T => k + 1 \in T
  <2> HIDE DEF Part
  <2> QED BY <1>1, <1>2
<1>4. Part(c)
  <2> HIDE DEF Part
  <2> QED BY <1>3, AllNat
<1> DEFINE F == CHOOSE f : f = [i \in 0 .. c |-> Step(f, i)]
<1>5. F = [i \in 0 .. c |-> Step(F, i)]
  <2> HIDE DEF Step
  <2> QED BY <1>4
<1>6. SlotsOf(ch, c) = F[c]
  BY DEF SlotsOf, Left_, Made, Ends
<1> HIDE DEF F
<1> QED BY <1>5, <1>6

\* The slots one coin further on.
LEMMA SlotsOfNext ==
    ASSUME NEW ch
    PROVE  /\ SlotsOf(ch, 0) = Ends
           /\ \A c \in Nat : SlotsOf(ch, c + 1) = Left_(SlotsOf(ch, c), ch[c + 1]) \cup Made(ch[c + 1], c)
<1> DEFINE Step(f, i) == IF i = 0 THEN Ends ELSE Left_(f[i - 1], ch[i]) \cup Made(ch[i], i - 1)
           Is(f, c) == \A i \in 0 .. c : f[i] = Step(f, i)
<1>1. \A c \in Nat : \E f : Is(f, c) /\ SlotsOf(ch, c) = f[c]
  <2> TAKE c \in Nat
  <2>1. PICK f : /\ f = [i \in 0 .. c |-> Step(f, i)] /\ SlotsOf(ch, c) = f[c]
    BY SlotsTable
  <2>2. Is(f, c)
    <3> HIDE DEF Step
    <3> QED BY <2>1
  <2> HIDE DEF Is
  <2> QED BY <2>1, <2>2
<1>2. \A c \in Nat : \A f, g : Is(f, c) /\ Is(g, c) => f[c] = g[c]
  <2> DEFINE T == {c \in Nat : \A f, g : Is(f, c) /\ Is(g, c) => f[c] = g[c]}
  <2>1. 0 \in T
    <3>1. \A f : Is(f, 0) => f[0] = Ends
      OBVIOUS
    <3> HIDE DEF Is
    <3> QED BY <3>1
  <2>2. ASSUME NEW c \in Nat, c \in T PROVE c + 1 \in T
    <3> SUFFICES ASSUME NEW f, NEW g, Is(f, c + 1), Is(g, c + 1) PROVE f[c + 1] = g[c + 1]
      <4> HIDE DEF Is
      <4> QED OBVIOUS
    <3>1. Is(f, c) /\ Is(g, c)
      <4>1. \A i \in 0 .. c : i \in 0 .. c + 1
        OBVIOUS
      <4> HIDE DEF Step
      <4> QED BY <4>1
    <3>2. f[c] = g[c]
      <4> HIDE DEF Is
      <4> QED BY <2>2, <3>1
    <3>3. f[c + 1] = Step(f, c + 1) /\ g[c + 1] = Step(g, c + 1)
      <4> HIDE DEF Step
      <4> QED OBVIOUS
    <3>4. Step(f, c + 1) = Step(g, c + 1)
      <4>1. (c + 1) - 1 = c
        OBVIOUS
      <4> QED BY <3>2, <4>1
    <3> HIDE DEF Step, Is
    <3> QED BY <3>3, <3>4
  <2> HIDE DEF T, Is
  <2>3. Nat \subseteq T
    BY <2>1, <2>2, AllNat
  <2> QED BY <2>3 DEF T
<1>3. SlotsOf(ch, 0) = Ends
  <2>1. PICK f : Is(f, 0) /\ SlotsOf(ch, 0) = f[0]
    <3> HIDE DEF Is
    <3> QED BY <1>1
  <2> QED BY <2>1
<1>4. ASSUME NEW c \in Nat
      PROVE  SlotsOf(ch, c + 1) = Left_(SlotsOf(ch, c), ch[c + 1]) \cup Made(ch[c + 1], c)
  <2>1. PICK f : Is(f, c + 1) /\ SlotsOf(ch, c + 1) = f[c + 1]
    <3> HIDE DEF Is
    <3> QED BY <1>1
  <2>2. PICK g : Is(g, c) /\ SlotsOf(ch, c) = g[c]
    <3> HIDE DEF Is
    <3> QED BY <1>1
  <2>3. Is(f, c)
    BY <2>1
  <2>4. f[c] = g[c]
    <3> HIDE DEF Is
    <3> QED BY <1>2, <2>2, <2>3
  <2>5. f[c + 1] = Step(f, c + 1)
    <3> HIDE DEF Step
    <3> QED BY <2>1
  <2>6. Step(f, c + 1) = Left_(f[c], ch[c + 1]) \cup Made(ch[c + 1], c)
    OBVIOUS
  <2> HIDE DEF Step, Is
  <2> QED BY <2>1, <2>2, <2>4, <2>5, <2>6
<1> QED BY <1>3, <1>4

\* A longer chain has the same slots at the coins of the shorter one.
LEMMA SlotsOfPrefix ==
    ASSUME NEW ch \in Seq(Spend), NEW a \in Spend, NEW c \in 0 .. Len(ch)
    PROVE  SlotsOf(Append(ch, a), c) = SlotsOf(ch, c)
<1> DEFINE more == Append(ch, a)
           T == {i \in Nat : i <= Len(ch) => SlotsOf(more, i) = SlotsOf(ch, i)}
<1>1. 0 \in T
  BY SlotsOfNext
<1>2. ASSUME NEW i \in Nat, i \in T PROVE i + 1 \in T
  <2> SUFFICES ASSUME i + 1 <= Len(ch) PROVE SlotsOf(more, i + 1) = SlotsOf(ch, i + 1)
    OBVIOUS
  <2>1. more[i + 1] = ch[i + 1]
    OBVIOUS
  <2>2. SlotsOf(more, i) = SlotsOf(ch, i)
    BY <1>2
  <2> HIDE DEF more
  <2> QED BY <2>1, <2>2, SlotsOfNext
<1> HIDE DEF T
<1>3. c \in T
  BY <1>1, <1>2, AllNat
<1> QED BY <1>3 DEF T

-----------------------------------------------------------------------------
\* What a spend does to the values.

Good(S) == S \subseteq Value /\ ListInv(S, Lo, Hi)

\* One action: it spends unspent values, makes one value with a higher counter
\* for each of their keys, and leaves a list.
Change(S, sp, cr) ==
    /\ sp \subseteq S /\ cr \subseteq Value
    /\ \A v \in cr, w \in S : w.key = v.key => w.counter < v.counter /\ w \in sp
    /\ \A w \in sp : \E v \in cr : v.key = w.key
    /\ Good((S \ sp) \cup cr)

\* A spend: it may spend what it made, and what it leaves for each key has the
\* highest counter.
Turn(S, sp, cr) ==
    /\ sp \subseteq S \cup cr /\ cr \subseteq Value
    /\ \A v \in cr, w \in S : w.key = v.key => w.counter < v.counter /\ w \in sp
    /\ \A v \in sp \cup cr : \E w \in (S \ sp) \cup (cr \ sp) :
          w.key = v.key /\ v.counter <= w.counter /\ (v.counter = w.counter => v = w)
    /\ Good((S \ sp) \cup (cr \ sp))

\* The names that can be registered are numbers.
LEMMA NamesAreNumbers ==
    ASSUME Typed
    PROVE  /\ Lo \in Int /\ Hi \in Int /\ Lo < Hi
           /\ \A k \in use.names : k \in Int /\ Lo < k /\ k < Hi
           /\ Keep \in Nat /\ MaxSpends \in Nat /\ use.procs \subseteq Procs
BY SyncAssumption DEF Typed

\* Reading a slot makes it again under the next counter.
LEMMA TouchChange ==
    ASSUME NEW S, Good(S), NEW s \in S
    PROVE  Change(S, {s}, {Touched(s)})
<1> DEFINE t == Touched(s)
<1>1. s \in Value
  BY DEF Good
<1>2. /\ t \in Value /\ t.key = s.key /\ t.left = s.left /\ t.right = s.right
      /\ s.counter < t.counter
  BY <1>1 DEF Touched, Value
<1> HIDE DEF t
<1>3. Good((S \ {s}) \cup {t})
  BY <1>2, ReplaceKeepsList DEF Good
<1>4. \A w \in S : w.key = t.key => w = s
  BY <1>2 DEF Good, ListInv, OneSlotPerKey
<1> QED BY <1>2, <1>3, <1>4 DEF Change, t

\* A relinked value has another pointer and the next counter.
LEMMA RelinkedValue ==
    ASSUME NEW v \in Value, NEW k \in Int
    PROVE  /\ RelinkRight(v, k) \in Value /\ RelinkRight(v, k).key = v.key
           /\ RelinkRight(v, k).left = v.left /\ RelinkRight(v, k).right = k
           /\ RelinkRight(v, k).counter = v.counter + 1
           /\ RelinkLeft(v, k) \in Value /\ RelinkLeft(v, k).key = v.key
           /\ RelinkLeft(v, k).left = k /\ RelinkLeft(v, k).right = v.right
           /\ RelinkLeft(v, k).counter = v.counter + 1
<1>1. v.counter \in Nat /\ v.counter + 1 \in Nat
  BY DEF Value
<1>2. /\ RelinkRight(v, k) \in Value /\ RelinkRight(v, k).key = v.key
      /\ RelinkRight(v, k).left = v.left /\ RelinkRight(v, k).right = k
      /\ RelinkRight(v, k).counter = v.counter + 1
  BY <1>1 DEF RelinkRight, Value
<1>3. /\ RelinkLeft(v, k) \in Value /\ RelinkLeft(v, k).key = v.key
      /\ RelinkLeft(v, k).left = k /\ RelinkLeft(v, k).right = v.right
      /\ RelinkLeft(v, k).counter = v.counter + 1
  BY <1>1 DEF RelinkLeft, Value
<1> QED BY <1>2, <1>3

\* A registration makes the new value and its two neighbours again.
LEMMA RegisterChange ==
    ASSUME NEW S, Good(S), NEW k \in Int, NEW l \in S, NEW r \in S, Brackets(l, r, k), Lo \in Int, Hi \in Int
    PROVE  Change(S, {l, r}, {[key |-> k, left |-> l.key, right |-> r.key, counter |-> 0],
                              RelinkRight(l, k), RelinkLeft(r, k)})
<1> DEFINE n == [key |-> k, left |-> l.key, right |-> r.key, counter |-> 0]
           l2 == RelinkRight(l, k)
           r2 == RelinkLeft(r, k)
<1>0. l \in Value /\ r \in Value
  BY DEF Good
<1>1. l \in Value /\ r \in Value /\ l.counter \in Nat /\ r.counter \in Nat
  BY <1>0 DEF Value
<1>2. /\ n \in Value /\ n.key = k /\ n.left = l.key /\ n.right = r.key
  BY <1>1 DEF Value
<1>3. /\ l2 \in Value /\ l2.key = l.key /\ l2.left = l.left /\ l2.right = k /\ l.counter < l2.counter
  <2>1. /\ l2 \in Value /\ l2.key = l.key /\ l2.left = l.left /\ l2.right = k /\ l2.counter = l.counter + 1
    BY <1>1, RelinkedValue
  <2> HIDE DEF l2
  <2> QED BY <1>1, <2>1
<1>4. /\ r2 \in Value /\ r2.key = r.key /\ r2.left = k /\ r2.right = r.right /\ r.counter < r2.counter
  <2>1. /\ r2 \in Value /\ r2.key = r.key /\ r2.left = k /\ r2.right = r.right /\ r2.counter = r.counter + 1
    BY <1>1, RelinkedValue
  <2> HIDE DEF r2
  <2> QED BY <1>1, <2>1
<1> HIDE DEF n, l2, r2
<1>5. Numbered(S)
  BY DEF Good, Numbered, Value
<1>6. SpliceCase(S, Lo, Hi, l, r, n, l2, r2)
  BY <1>2, <1>3, <1>4, <1>5 DEF SpliceCase, Good
<1>7. n.key \notin Keys(S) /\ ListInv((S \ {l, r}) \cup {n, l2, r2}, Lo, Hi)
  BY <1>6, SpliceKeepsList
<1>8. \A v \in {n, l2, r2}, w \in S : w.key = v.key => w.counter < v.counter /\ w \in {l, r}
  BY <1>2, <1>3, <1>4, <1>7 DEF Good, ListInv, OneSlotPerKey, Keys
<1>9. Good((S \ {l, r}) \cup {n, l2, r2})
  BY <1>2, <1>3, <1>4, <1>7 DEF Good
<1>10. Change(S, {l, r}, {n, l2, r2})
  BY <1>2, <1>3, <1>4, <1>8, <1>9 DEF Change
<1> QED BY <1>10 DEF n, l2, r2

\* The elements of short sequences.
LEMMA ShortElements ==
    ASSUME NEW X, NEW a \in X, NEW b \in X
    PROVE  /\ <<a>> \in Seq(X) /\ Elements(<<a>>) = {a}
           /\ <<a, b>> \in Seq(X) /\ Elements(<<a, b>>) = {a, b}
<1>1. DOMAIN <<a>> = {1} /\ DOMAIN <<a, b>> = {1, 2}
  OBVIOUS
<1>2. Elements(<<a>>) = {a}
  BY <1>1 DEF Elements
<1>3. Elements(<<a, b>>) = {a, b}
  BY <1>1 DEF Elements
<1> QED BY <1>2, <1>3

\* The elements of a sequence of three.
LEMMA ThreeElements ==
    ASSUME NEW X, NEW a \in X, NEW b \in X, NEW c \in X
    PROVE  <<a, b, c>> \in Seq(X) /\ Elements(<<a, b, c>>) = {a, b, c}
<1>1. DOMAIN <<a, b, c>> = {1, 2, 3}
  OBVIOUS
<1>2. Elements(<<a, b, c>>) = {a, b, c}
  BY <1>1 DEF Elements
<1> QED BY <1>2

\* No element comes twice.
Simple(q) == \A i, j \in DOMAIN q : q[i] = q[j] => i = j

\* Every action of the registry is a change, and makes no value twice.
LEMMA ActionChange ==
    ASSUME Typed, NEW S, Good(S), NEW a \in Actions(S)
    PROVE  a \in Spend /\ Change(S, Elements(a.spent), Elements(a.created)) /\ Simple(a.created)
<1>1. CASE \E s \in {t \in S : t.counter < MaxCounter} : a = [spent |-> <<s>>, created |-> <<Touched(s)>>]
  <2>1. PICK s \in S : a = [spent |-> <<s>>, created |-> <<Touched(s)>>]
    BY <1>1
  <2>2. Change(S, {s}, {Touched(s)})
    BY TouchChange
  <2>3. s \in Value /\ Touched(s) \in Value
    BY <2>2 DEF Good, Change
  <2>4. a.spent = <<s>> /\ a.created = <<Touched(s)>>
    BY <2>1
  <2>5. a.spent \in Seq(Value) /\ a.created \in Seq(Value) /\ Elements(a.spent) = {s} /\ Elements(a.created) = {Touched(s)}
    BY <2>3, <2>4, ShortElements
  <2>6. Simple(a.created)
    BY <2>4 DEF Simple
  <2> QED BY <2>1, <2>2, <2>5, <2>6 DEF Spend
<1>2. CASE \E x \in {y \in use.names \X S \X S : Brackets(y[2], y[3], y[1])} :
             a = [spent   |-> <<x[2], x[3]>>,
                  created |-> <<[key |-> x[1], left |-> x[2].key, right |-> x[3].key, counter |-> 0],
                                RelinkRight(x[2], x[1]), RelinkLeft(x[3], x[1])>>]
  <2>1. PICK x \in use.names \X S \X S :
             /\ Brackets(x[2], x[3], x[1])
             /\ a = [spent   |-> <<x[2], x[3]>>,
                     created |-> <<[key |-> x[1], left |-> x[2].key, right |-> x[3].key, counter |-> 0],
                                   RelinkRight(x[2], x[1]), RelinkLeft(x[3], x[1])>>]
    BY <1>2
  <2> DEFINE k == x[1]
             l == x[2]
             r == x[3]
             n == [key |-> k, left |-> l.key, right |-> r.key, counter |-> 0]
  <2>2. k \in use.names /\ l \in S /\ r \in S
    OBVIOUS
  <2>3. k \in Int /\ Lo \in Int /\ Hi \in Int
    BY <2>2, NamesAreNumbers
  <2>4. a.spent = <<l, r>> /\ a.created = <<n, RelinkRight(l, k), RelinkLeft(r, k)>> /\ Brackets(l, r, k)
        /\ a = [spent |-> a.spent, created |-> a.created]
    BY <2>1
  <2> HIDE DEF k, l, r
  <2>5. Change(S, {l, r}, {n, RelinkRight(l, k), RelinkLeft(r, k)})
    BY <2>2, <2>3, <2>4, RegisterChange
  <2>8. n.key = k /\ RelinkRight(l, k).key = l.key /\ RelinkLeft(r, k).key = r.key
        /\ l.key < k /\ k < r.key /\ l.key \in Int /\ r.key \in Int
    <3>1. l \in Value /\ r \in Value
      BY <2>2 DEF Good
    <3>2. l.key \in Int /\ r.key \in Int
      BY <3>1 DEF Value
    <3> QED BY <2>3, <2>4, <3>1, <3>2, RelinkedValue DEF Brackets
  <2> HIDE DEF n
  <2>9. Simple(a.created)
    <3> DEFINE l2 == RelinkRight(l, k)
               r2 == RelinkLeft(r, k)
    <3>1. n # l2 /\ n # r2 /\ l2 # r2 /\ a.created = <<n, l2, r2>>
      BY <2>3, <2>4, <2>8
    <3> HIDE DEF l2, r2
    <3>2. DOMAIN a.created = {1, 2, 3} /\ a.created[1] = n /\ a.created[2] = l2 /\ a.created[3] = r2
      BY <3>1
    <3> QED BY <3>1, <3>2 DEF Simple
  <2>6. l \in Value /\ r \in Value /\ n \in Value /\ RelinkRight(l, k) \in Value /\ RelinkLeft(r, k) \in Value
    BY <2>2, <2>5 DEF Good, Change
  <2>7. /\ a.spent \in Seq(Value) /\ a.created \in Seq(Value) /\ Elements(a.spent) = {l, r}
        /\ Elements(a.created) = {n, RelinkRight(l, k), RelinkLeft(r, k)}
    <3>1. <<l, r>> \in Seq(Value) /\ Elements(<<l, r>>) = {l, r}
      BY ONLY <2>6, ShortElements
    <3> DEFINE l2 == RelinkRight(l, k)
               r2 == RelinkLeft(r, k)
    <3>2. n \in Value /\ l2 \in Value /\ r2 \in Value
      BY <2>6
    <3> HIDE DEF l2, r2
    <3> HIDE DEF n
    <3>3. <<n, l2, r2>> \in Seq(Value) /\ Elements(<<n, l2, r2>>) = {n, l2, r2}
      BY <3>2, ThreeElements
    <3> QED BY <2>4, <3>1, <3>3 DEF l2, r2
  <2> QED BY <2>4, <2>5, <2>7, <2>9 DEF Spend
<1> QED BY <1>1, <1>2 DEF Actions

\* One action by itself is a turn.
LEMMA OneTurn ==
    ASSUME NEW S, Good(S), NEW sp, NEW cr, Change(S, sp, cr)
    PROVE  Turn(S, sp, cr)
<1>1. S \subseteq Value /\ cr \subseteq Value /\ sp \subseteq S
  BY DEF Good, Change
<1>2. \A v \in Value : v.counter \in Nat
  BY DEF Value
<1>3. cr \cap sp = {}
  BY <1>1, <1>2 DEF Change
<1>4. (S \ sp) \cup (cr \ sp) = (S \ sp) \cup cr
  BY <1>3
<1>5. ASSUME NEW v \in sp \cup cr
      PROVE  \E w \in (S \ sp) \cup cr : w.key = v.key /\ v.counter <= w.counter /\ (v.counter = w.counter => v = w)
  <2>1. CASE v \in cr
    BY <2>1, <1>1, <1>2
  <2>2. CASE v \in sp
    <3>1. PICK w \in cr : w.key = v.key
      BY <2>2 DEF Change
    <3>2. v.counter < w.counter
      BY <2>2, <3>1, <1>1 DEF Change
    <3> QED BY <3>1, <3>2, <2>2, <1>1, <1>2
  <2> QED BY <2>1, <2>2
<1> QED BY <1>1, <1>4, <1>5 DEF Turn, Change

\* So are two actions in one spend.
LEMMA TwoTurns ==
    ASSUME NEW S, Good(S), NEW sp1, NEW cr1, Change(S, sp1, cr1),
           NEW sp2, NEW cr2, Change((S \ sp1) \cup cr1, sp2, cr2)
    PROVE  Turn(S, sp1 \cup sp2, cr1 \cup cr2)
<1> DEFINE S1 == (S \ sp1) \cup cr1
           sp == sp1 \cup sp2
           cr == cr1 \cup cr2
<1>1. /\ S \subseteq Value /\ cr1 \subseteq Value /\ sp1 \subseteq S /\ S1 \subseteq Value
      /\ cr2 \subseteq Value /\ sp2 \subseteq S1 /\ Good((S1 \ sp2) \cup cr2)
  BY DEF Good, Change
<1>2. \A v \in Value : v.counter \in Nat
  BY DEF Value
<1>3. \A v \in cr1, w \in S : w.key = v.key => w.counter < v.counter /\ w \in sp1
  BY DEF Change
<1>4. \A v \in cr2, w \in S1 : w.key = v.key => w.counter < v.counter /\ w \in sp2
  BY DEF Change
<1>5. \A w \in sp1 : \E v \in cr1 : v.key = w.key /\ w.counter < v.counter /\ v \in S1
  BY <1>1, <1>3 DEF Change
<1>6. \A w \in sp2 : \E v \in cr2 : v.key = w.key /\ w.counter < v.counter
  BY <1>1, <1>4 DEF Change
<1>7. cr1 \cap sp1 = {} /\ cr2 \cap sp2 = {}
  BY <1>1, <1>2, <1>3, <1>4
<1>8. cr2 \cap sp1 = {}
  <2> SUFFICES ASSUME NEW v \in cr2, v \in sp1 PROVE FALSE
    OBVIOUS
  <2>1. PICK x \in cr1 : x.key = v.key /\ v.counter < x.counter /\ x \in S1
    BY <1>5
  <2>2. x.counter < v.counter
    BY <1>4, <2>1
  <2> QED BY <1>1, <1>2, <2>1, <2>2
<1>9. (S \ sp) \cup (cr \ sp) = (S1 \ sp2) \cup cr2
  BY <1>7, <1>8
<1>10. ASSUME NEW v \in cr, NEW w \in S, w.key = v.key
       PROVE  w.counter < v.counter /\ w \in sp
  <2>1. CASE v \in cr1
    BY <1>3, <1>10, <2>1
  <2>2. CASE v \in cr2 /\ w \in S1
    BY <1>4, <1>10, <2>2
  <2>3. CASE v \in cr2 /\ w \in sp1
    <3>1. PICK x \in cr1 : x.key = w.key /\ w.counter < x.counter /\ x \in S1
      BY <1>5, <2>3
    <3>2. x.counter < v.counter
      BY <1>4, <1>10, <2>3, <3>1
    <3> QED BY <1>1, <1>2, <2>3, <3>1, <3>2
  <2> QED BY <2>1, <2>2, <2>3
<1> DEFINE T == (S1 \ sp2) \cup cr2
           Latest(v) == \E w \in T : w.key = v.key /\ v.counter <= w.counter /\ (v.counter = w.counter => v = w)
<1>11. \A v \in cr2 : Latest(v)
  BY <1>1, <1>2
<1>12. ASSUME NEW v \in sp2 PROVE Latest(v)
  <2>1. PICK w \in cr2 : w.key = v.key /\ v.counter < w.counter
    BY <1>6
  <2> QED BY <1>1, <1>2, <2>1
<1>13. ASSUME NEW v \in cr1 PROVE Latest(v)
  <2>1. CASE v \in sp2
    BY <1>12, <2>1
  <2>2. CASE v \in T
    BY <1>1, <1>2, <2>2
  <2> QED BY <2>1, <2>2
<1>14. ASSUME NEW v \in sp1 PROVE Latest(v)
  <2>1. PICK x \in cr1 : x.key = v.key /\ v.counter < x.counter
    BY <1>5
  <2>2. PICK w \in T : w.key = x.key /\ x.counter <= w.counter
    BY <1>13
  <2>3. v.counter < w.counter
    BY <1>1, <1>2, <2>1, <2>2
  <2> QED BY <1>1, <1>2, <2>1, <2>2, <2>3
<1>15. \A v \in sp \cup cr : Latest(v)
  <2> HIDE DEF Latest
  <2> QED BY <1>11, <1>12, <1>13, <1>14
<1>16. sp \subseteq S \cup cr /\ cr \subseteq Value
  BY <1>1
<1> HIDE DEF S1
<1> QED BY <1>1, <1>9, <1>10, <1>15, <1>16 DEF Turn

\* Nor does one in a concatenation of two sequences that share nothing.
LEMMA SimpleConcat ==
    ASSUME NEW X, NEW a \in Seq(X), NEW b \in Seq(X), Simple(a), Simple(b), Elements(a) \cap Elements(b) = {}
    PROVE  Simple(a \o b)
<1> DEFINE c == a \o b
<1>1. /\ Len(a) \in Nat /\ Len(b) \in Nat /\ DOMAIN a = 1 .. Len(a) /\ DOMAIN b = 1 .. Len(b)
      /\ DOMAIN c = 1 .. Len(a) + Len(b)
      /\ \A i \in 1 .. Len(a) : c[i] = a[i]
      /\ \A i \in 1 .. Len(b) : c[Len(a) + i] = b[i]
  OBVIOUS
<1> HIDE DEF c
<1>2. \A i \in DOMAIN c : \/ i \in DOMAIN a /\ c[i] = a[i] /\ c[i] \in Elements(a)
                          \/ i - Len(a) \in DOMAIN b /\ c[i] = b[i - Len(a)] /\ c[i] \in Elements(b)
  BY ConcatPositions DEF c
<1> SUFFICES ASSUME NEW i \in DOMAIN c, NEW j \in DOMAIN c, c[i] = c[j] PROVE i = j
  BY DEF Simple, c
<1>3. CASE i \in DOMAIN a /\ c[i] = a[i] /\ c[i] \in Elements(a)
  <2>1. j \in DOMAIN a /\ c[j] = a[j]
    BY <1>2, <1>3
  <2> QED BY <1>3, <2>1 DEF Simple
<1>4. CASE i - Len(a) \in DOMAIN b /\ c[i] = b[i - Len(a)] /\ c[i] \in Elements(b)
  <2>1. j - Len(a) \in DOMAIN b /\ c[j] = b[j - Len(a)]
    BY <1>2, <1>4
  <2>2. i - Len(a) = j - Len(a)
    BY <1>4, <2>1 DEF Simple
  <2>3. i \in Int /\ j \in Int
    BY <1>1
  <2> QED BY <1>1, <2>2, <2>3
<1> QED BY <1>2, <1>3, <1>4

\* Every spend of the registry is a turn.
LEMMA SpendTurn ==
    ASSUME Typed, NEW S, Good(S), NEW s \in Spends(S)
    PROVE  s \in Spend /\ Turn(S, Elements(s.spent), Elements(s.created)) /\ Simple(s.created)
<1>1. CASE s \in Actions(S)
  BY <1>1, ActionChange, OneTurn
<1>2. CASE \E a \in Actions(S) : \E b \in Actions(Apply(S, a)) :
             s = [spent |-> a.spent \o b.spent, created |-> a.created \o b.created]
  <2>0. PICK a \in Actions(S) : \E b \in Actions(Apply(S, a)) :
            s = [spent |-> a.spent \o b.spent, created |-> a.created \o b.created]
    BY <1>2
  <2>1. PICK b \in Actions(Apply(S, a)) :
            s = [spent |-> a.spent \o b.spent, created |-> a.created \o b.created]
    BY <2>0
  <2>2. a \in Spend /\ Change(S, Elements(a.spent), Elements(a.created)) /\ Simple(a.created)
    BY ActionChange
  <2>3. Apply(S, a) = (S \ Elements(a.spent)) \cup Elements(a.created) /\ Good(Apply(S, a))
    BY <2>2 DEF Apply, Change
  <2>4. b \in Spend /\ Change(Apply(S, a), Elements(b.spent), Elements(b.created)) /\ Simple(b.created)
    BY <2>3, ActionChange
  <2>5. /\ a.spent \in Seq(Value) /\ b.spent \in Seq(Value)
        /\ a.created \in Seq(Value) /\ b.created \in Seq(Value)
    BY <2>2, <2>4 DEF Spend
  <2>6. /\ s.spent \in Seq(Value) /\ Elements(s.spent) = Elements(a.spent) \cup Elements(b.spent)
        /\ s.created \in Seq(Value) /\ Elements(s.created) = Elements(a.created) \cup Elements(b.created)
    BY <2>1, <2>5, ConcatElements
  <2>7. Turn(S, Elements(a.spent) \cup Elements(b.spent), Elements(a.created) \cup Elements(b.created))
    BY <2>2, <2>3, <2>4, TwoTurns
  <2>8. s \in Spend
    BY <2>1, <2>6 DEF Spend
  <2>9. Elements(a.created) \cap Elements(b.created) = {}
    <3>1. \A v \in Elements(b.created) : v.counter \in Nat
      BY <2>4 DEF Change, Value
    <3> QED BY <2>3, <2>4, <3>1 DEF Change
  <2>10. Simple(s.created)
    BY <2>1, <2>2, <2>4, <2>5, <2>9, SimpleConcat
  <2> QED BY <2>6, <2>7, <2>8, <2>10
<1> QED BY <1>1, <1>2 DEF Spends

-----------------------------------------------------------------------------
\* The history of the values.

ValuesOf(ch, c) == {s.value : s \in SlotsOf(ch, c)}
Sp(ch, c) == Elements(ch[c].spent)
Cr(ch, c) == Elements(ch[c].created)

\* A chain of spends of which each found the values it spent.
History(ch) ==
    /\ ch \in Seq(Spend)
    /\ \A c \in 0 .. Len(ch) : Good(ValuesOf(ch, c))
    /\ \A c \in 1 .. Len(ch) : Turn(ValuesOf(ch, c - 1), Sp(ch, c), Cr(ch, c)) /\ Simple(ch[c].created)

\* Values whose key has, at coin c, the same value or one with a higher counter.
Known(ch, c) ==
    {v \in Value : \E w \in ValuesOf(ch, c) :
        w.key = v.key /\ v.counter <= w.counter /\ (v.counter = w.counter => v = w)}

\* The values one coin further on.
LEMMA ValuesOfNext ==
    ASSUME NEW ch
    PROVE  /\ ValuesOf(ch, 0) = {EndSlot(Lo), EndSlot(Hi)}
           /\ \A c \in Nat : ValuesOf(ch, c + 1)
                               = (ValuesOf(ch, c) \ Sp(ch, c + 1)) \cup (Cr(ch, c + 1) \ Sp(ch, c + 1))
<1>1. ValuesOf(ch, 0) = {EndSlot(Lo), EndSlot(Hi)}
  <2>1. \A k \in {Lo, Hi} : [value |-> EndSlot(k), parent |-> Eve].value = EndSlot(k)
    OBVIOUS
  <2>2. {s.value : s \in Ends} = {EndSlot(k) : k \in {Lo, Hi}}
    BY <2>1 DEF Ends
  <2> QED BY <2>2, SlotsOfNext DEF ValuesOf
<1>2. ASSUME NEW c \in Nat
      PROVE  ValuesOf(ch, c + 1)
               = (ValuesOf(ch, c) \ Sp(ch, c + 1)) \cup (Cr(ch, c + 1) \ Sp(ch, c + 1))
  <2>1. SlotsOf(ch, c + 1) = Left_(SlotsOf(ch, c), ch[c + 1]) \cup Made(ch[c + 1], c)
    BY SlotsOfNext
  <2>2. {s.value : s \in Left_(SlotsOf(ch, c), ch[c + 1])} = ValuesOf(ch, c) \ Sp(ch, c + 1)
    BY DEF Left_, ValuesOf, Sp
  <2>3. {s.value : s \in Made(ch[c + 1], c)} = Cr(ch, c + 1) \ Sp(ch, c + 1)
    <3> DEFINE new == Cr(ch, c + 1) \ Sp(ch, c + 1)
    <3>1. Made(ch[c + 1], c) = {[value |-> v, parent |-> c] : v \in new}
      BY DEF Made, Sp, Cr
    <3> HIDE DEF new
    <3> DEFINE M == {[value |-> v, parent |-> c] : v \in new}
    <3>2. \A v \in new : [value |-> v, parent |-> c] \in M /\ [value |-> v, parent |-> c].value = v
      OBVIOUS
    <3>3. \A s \in M : s.value \in new
      OBVIOUS
    <3> HIDE DEF M
    <3>4. new \subseteq {s.value : s \in M}
      <4> SUFFICES ASSUME NEW v \in new PROVE \E s \in M : s.value = v
        OBVIOUS
      <4> QED BY <3>2
    <3>5. {s.value : s \in M} \subseteq new
      BY <3>3
    <3> QED BY <3>1, <3>4, <3>5 DEF M, new
  <2>4. ValuesOf(ch, c + 1) = {s.value : s \in Left_(SlotsOf(ch, c), ch[c + 1])}
                              \cup {s.value : s \in Made(ch[c + 1], c)}
    BY <2>1 DEF ValuesOf
  <2> QED BY <2>2, <2>3, <2>4
<1> QED BY <1>1, <1>2

\* The end slots are a list.
LEMMA EndsAreGood ==
    ASSUME Typed
    PROVE  Good({EndSlot(Lo), EndSlot(Hi)})
<1>1. Lo \in Int /\ Hi \in Int /\ Lo < Hi
  BY NamesAreNumbers
<1> DEFINE a == EndSlot(Lo)
           b == EndSlot(Hi)
<1>2. /\ a \in Value /\ a.key = Lo /\ a.left = Lo /\ a.right = Hi
      /\ b \in Value /\ b.key = Hi /\ b.left = Lo /\ b.right = Hi
  BY <1>1 DEF EndSlot, Value
<1> HIDE DEF a, b
<1> DEFINE S == {a, b}
<1>3. OneSlotPerKey(S) /\ NothingInGaps(S)
  BY <1>1, <1>2 DEF OneSlotPerKey, NothingInGaps
<1>4. Mirrored(S, Lo, Hi) /\ Ascending(S, Lo, Hi)
  BY <1>1, <1>2 DEF Mirrored, Ascending
<1>5. Bounded(S, Lo, Hi)
  BY <1>1, <1>2 DEF Bounded, Keys
<1>6. Good(S)
  BY <1>2, <1>3, <1>4, <1>5 DEF Good, ListInv
<1> QED BY <1>6 DEF a, b

\* A spend that the puzzles accept extends a history to a history.
LEMMA HistoryGrows ==
    ASSUME Typed, NEW ch, History(ch), NEW s \in Spends(ValuesOf(ch, Len(ch)))
    PROVE  s \in Spend /\ History(Append(ch, s))
<1> DEFINE more == Append(ch, s)
           n == Len(ch)
<1>1. ch \in Seq(Spend) /\ n \in Nat /\ Good(ValuesOf(ch, n))
  BY DEF History
<1>2. s \in Spend /\ Turn(ValuesOf(ch, n), Elements(s.spent), Elements(s.created)) /\ Simple(s.created)
  BY <1>1, SpendTurn
<1>3. more \in Seq(Spend) /\ Len(more) = n + 1 /\ more[n + 1] = s /\ \A c \in 1 .. n : more[c] = ch[c]
  BY <1>1, <1>2
<1>4. \A c \in 0 .. n : ValuesOf(more, c) = ValuesOf(ch, c)
  BY <1>1, <1>2, SlotsOfPrefix DEF ValuesOf
<1>5. Sp(more, n + 1) = Elements(s.spent) /\ Cr(more, n + 1) = Elements(s.created)
  BY <1>3 DEF Sp, Cr
<1>6. ValuesOf(more, n + 1)
        = (ValuesOf(ch, n) \ Elements(s.spent)) \cup (Elements(s.created) \ Elements(s.spent))
  <2>1. ValuesOf(more, n + 1)
          = (ValuesOf(more, n) \ Sp(more, n + 1)) \cup (Cr(more, n + 1) \ Sp(more, n + 1))
    BY <1>1, ValuesOfNext
  <2>2. ValuesOf(more, n) = ValuesOf(ch, n)
    BY <1>1, <1>4
  <2> QED BY <1>5, <2>1, <2>2
<1> HIDE DEF more
<1>7. ASSUME NEW c \in 0 .. n + 1 PROVE Good(ValuesOf(more, c))
  <2>1. CASE c \in 0 .. n
    BY <1>4, <2>1 DEF History
  <2>2. CASE c = n + 1
    BY <1>2, <1>6, <2>2 DEF Turn
  <2> QED BY <1>1, <2>1, <2>2
<1>8. ASSUME NEW c \in 1 .. n + 1 PROVE Turn(ValuesOf(more, c - 1), Sp(more, c), Cr(more, c)) /\ Simple(more[c].created)
  <2>1. CASE c \in 1 .. n
    <3>1. Sp(more, c) = Sp(ch, c) /\ Cr(more, c) = Cr(ch, c)
      BY <1>3, <2>1 DEF Sp, Cr
    <3>2. ValuesOf(more, c - 1) = ValuesOf(ch, c - 1)
      <4>1. c - 1 \in 0 .. n
        BY <1>1, <2>1
      <4> QED BY <1>4, <4>1
    <3>3. more[c] = ch[c]
      BY <1>3, <2>1
    <3> QED BY <2>1, <3>1, <3>2, <3>3 DEF History
  <2>2. CASE c = n + 1
    <3>1. c - 1 = n /\ ValuesOf(more, n) = ValuesOf(ch, n)
      BY <1>1, <1>4, <2>2
    <3> QED BY <1>2, <1>3, <1>5, <2>2, <3>1
  <2> QED BY <1>1, <2>1, <2>2
<1> QED BY <1>2, <1>3, <1>7, <1>8 DEF History, more

\* The parts of a spend of a history.
LEMMA TurnOf ==
    ASSUME NEW ch, History(ch), NEW c \in 1 .. Len(ch)
    PROVE  /\ c \in Nat /\ c - 1 \in Nat /\ (c - 1) + 1 = c /\ Len(ch) \in Nat /\ ch[c] \in Spend
           /\ Turn(ValuesOf(ch, c - 1), Sp(ch, c), Cr(ch, c))
           /\ ValuesOf(ch, c) = (ValuesOf(ch, c - 1) \ Sp(ch, c)) \cup (Cr(ch, c) \ Sp(ch, c))
           /\ SlotsOf(ch, c) = Left_(SlotsOf(ch, c - 1), ch[c]) \cup Made(ch[c], c - 1)
           /\ Good(ValuesOf(ch, c)) /\ Good(ValuesOf(ch, c - 1))
           /\ ValuesOf(ch, c) \subseteq Value /\ ValuesOf(ch, c - 1) \subseteq Value
           /\ Cr(ch, c) \subseteq Value /\ Sp(ch, c) \subseteq Value
<1>1. Len(ch) \in Nat /\ ch[c] \in Spend
  BY DEF History
<1>2. c \in Nat /\ c - 1 \in Nat /\ (c - 1) + 1 = c /\ c \in 0 .. Len(ch) /\ c - 1 \in 0 .. Len(ch)
  BY <1>1
<1>3. Good(ValuesOf(ch, c)) /\ Good(ValuesOf(ch, c - 1)) /\ Turn(ValuesOf(ch, c - 1), Sp(ch, c), Cr(ch, c))
  BY <1>2 DEF History
<1>4. ValuesOf(ch, c) \subseteq Value /\ ValuesOf(ch, c - 1) \subseteq Value
  BY <1>3 DEF Good
<1>5. Cr(ch, c) \subseteq Value /\ Sp(ch, c) \subseteq Value
  BY <1>3, <1>4 DEF Turn
<1>6. SlotsOf(ch, (c - 1) + 1) = Left_(SlotsOf(ch, c - 1), ch[(c - 1) + 1]) \cup Made(ch[(c - 1) + 1], c - 1)
  BY <1>2, SlotsOfNext
<1>7. ValuesOf(ch, (c - 1) + 1)
        = (ValuesOf(ch, c - 1) \ Sp(ch, (c - 1) + 1)) \cup (Cr(ch, (c - 1) + 1) \ Sp(ch, (c - 1) + 1))
  BY <1>2, ValuesOfNext
<1> QED BY <1>1, <1>2, <1>3, <1>4, <1>5, <1>6, <1>7

\* What a key had is known one coin further on, and so is what the spend read
\* and made; and what is known is never made again.
LEMMA KnownNext ==
    ASSUME NEW ch, History(ch), NEW c \in 1 .. Len(ch)
    PROVE  /\ Known(ch, c - 1) \subseteq Known(ch, c)
           /\ Sp(ch, c) \cup Cr(ch, c) \cup ValuesOf(ch, c) \subseteq Known(ch, c)
           /\ ValuesOf(ch, c - 1) \subseteq Known(ch, c - 1)
           /\ Known(ch, c - 1) \cap Cr(ch, c) = {}
<1> DEFINE S == ValuesOf(ch, c - 1)
           T == ValuesOf(ch, c)
           sp == Sp(ch, c)
           cr == Cr(ch, c)
           Latest(v) == \E w \in T : w.key = v.key /\ v.counter <= w.counter /\ (v.counter = w.counter => v = w)
<1>1. /\ T = (S \ sp) \cup (cr \ sp) /\ S \subseteq Value /\ T \subseteq Value
      /\ cr \subseteq Value /\ sp \subseteq Value /\ Turn(S, sp, cr)
  BY TurnOf
<1>2. \A v \in Value : v.counter \in Nat
  BY DEF Value
<1>3. \A v \in sp \cup cr : Latest(v)
  BY <1>1 DEF Turn
<1>4. \A v \in T : Latest(v)
  BY <1>1, <1>2
<1>5. ASSUME NEW v \in Value, NEW w \in S, w.key = v.key, v.counter <= w.counter, v.counter = w.counter => v = w
      PROVE  Latest(v)
  <2>1. CASE w \notin sp
    BY <1>1, <1>5, <2>1
  <2>2. CASE w \in sp
    <3>1. PICK x \in T : x.key = w.key /\ w.counter <= x.counter /\ (w.counter = x.counter => w = x)
      BY <1>3, <2>2
    <3>2. w # x
      BY <1>1, <2>2
    <3>3. v.counter < x.counter /\ v.counter <= x.counter
      BY <1>1, <1>2, <1>5, <3>1, <3>2
    <3> QED BY <1>5, <3>1, <3>3, <1>1, <1>2
  <2> QED BY <2>1, <2>2
<1>6. \A v \in cr, w \in S : w.key = v.key => w.counter < v.counter
  BY <1>1 DEF Turn
<1>7. Known(ch, c - 1) \cap Cr(ch, c) = {}
  BY <1>1, <1>2, <1>6 DEF Known
<1>8. S \subseteq Known(ch, c - 1)
  BY <1>1, <1>2 DEF Known
<1>9. Known(ch, c) = {v \in Value : Latest(v)} /\
      Known(ch, c - 1) = {v \in Value : \E w \in S : w.key = v.key /\ v.counter <= w.counter /\ (v.counter = w.counter => v = w)}
  BY DEF Known
<1> HIDE DEF S, T, sp, cr, Latest
<1>10. Known(ch, c - 1) \subseteq Known(ch, c)
  BY <1>5, <1>9
<1>11. sp \cup cr \cup T \subseteq Known(ch, c)
  BY <1>1, <1>3, <1>4, <1>9
<1> QED BY <1>7, <1>8, <1>10, <1>11 DEF S, T, sp, cr

\* What is known stays known.
LEMMA KnownGrows ==
    ASSUME NEW ch, History(ch), NEW c \in Nat, NEW d \in Nat, c <= d, d <= Len(ch)
    PROVE  Known(ch, c) \subseteq Known(ch, d)
<1> DEFINE T == {i \in Nat : c + i <= Len(ch) => Known(ch, c) \subseteq Known(ch, c + i)}
<1>0. Len(ch) \in Nat
  BY DEF History
<1>1. 0 \in T
  OBVIOUS
<1>2. ASSUME NEW i \in Nat, i \in T PROVE i + 1 \in T
  <2> SUFFICES ASSUME c + (i + 1) <= Len(ch) PROVE Known(ch, c) \subseteq Known(ch, c + (i + 1))
    OBVIOUS
  <2>1. c + (i + 1) \in 1 .. Len(ch) /\ (c + (i + 1)) - 1 = c + i /\ c + i <= Len(ch)
    BY <1>0
  <2>2. Known(ch, c + i) \subseteq Known(ch, c + (i + 1))
    BY <2>1, KnownNext
  <2> QED BY <1>2, <2>1, <2>2
<1>3. d - c \in Nat /\ c + (d - c) = d
  OBVIOUS
<1>4. d - c \in T
  <2> HIDE DEF T
  <2> QED BY <1>1, <1>2, <1>3, AllNat
<1> QED BY <1>3, <1>4

\* A value that a spend read or made is not made by a later one, and one that
\* it spent is not among the values from then on.
LEMMA OnceMade ==
    ASSUME NEW ch, History(ch), NEW c \in 1 .. Len(ch), NEW v \in Sp(ch, c) \cup Cr(ch, c) \cup ValuesOf(ch, c)
    PROVE  \A d \in 1 .. Len(ch) : c < d => v \notin Cr(ch, d)
<1> TAKE d \in 1 .. Len(ch)
<1> HAVE c < d
<1>1. Len(ch) \in Nat
  BY DEF History
<1>2. c \in Nat /\ d - 1 \in Nat /\ c <= d - 1 /\ d - 1 <= Len(ch)
  BY <1>1
<1>3. v \in Known(ch, c)
  BY KnownNext
<1>4. v \in Known(ch, d - 1)
  BY <1>2, <1>3, KnownGrows
<1> QED BY <1>4, KnownNext

-----------------------------------------------------------------------------
\* The statements.

\* The statements that write the table of the registry's coins.
CoinOps == {"parent", "coin", "spent"}

\* A statement with a slot's value is a statement.
LEMMA StatementsAre ==
    ASSUME NEW v \in Value, NEW n \in Int,
           NEW op \in {"slot", "index", "mark", "markIx", "parent", "coin", "spent", "config"},
           op \in {"slot", "index"} \/ n \in Nat
    PROVE  W(op, v, n) \in Statement /\ W(op, v, n).op = op /\ W(op, v, n).value = v /\ W(op, v, n).n = n
BY DEF W, Statement

\* Saving a value is two statements.
LEMMA SaveStatements ==
    ASSUME NEW v \in Value, NEW c \in Int
    PROVE  /\ <<W("index", v, c), W("slot", v, c)>> \in Seq(Statement)
           /\ Elements(<<W("index", v, c), W("slot", v, c)>>) = {W("index", v, c), W("slot", v, c)}
<1>1. W("index", v, c) \in Statement /\ W("slot", v, c) \in Statement
  BY StatementsAre
<1> DEFINE a == W("index", v, c)
           b == W("slot", v, c)
<1> HIDE DEF a, b
<1> QED BY <1>1, ShortElements DEF a, b

\* Of two values that a spend makes for a key, the second has the higher counter.
Rising(q) == \A i, j \in DOMAIN q : i < j /\ q[i].key = q[j].key => q[i].counter < q[j].counter

\* Is the i-th statement of a queue one that indexes a value for the key?
Indexes(q, i, k) == q[i].op = "index" /\ q[i].value.key = k

\* Of two statements of a queue that index a value for a key, the second has the
\* higher counter, or they have the same value.
InOrder(q) ==
    \A i, j \in DOMAIN q : i < j /\ q[i].op = "index" /\ Indexes(q, j, q[i].value.key)
        => q[i].value.counter <= q[j].value.counter

\* The statements that save rising values are in order.
LEMMA FlattenInOrder ==
    ASSUME NEW q \in Seq(Seq(Statement)), NEW vs \in Seq(Value), Rising(vs), DOMAIN q = DOMAIN vs,
           \A i \in DOMAIN q : \A w \in Elements(q[i]) : w.value = vs[i]
    PROVE  InOrder(FlattenSeq(q))
<1> DEFINE f == FlattenSeq(q)
<1>1. \A i, j \in DOMAIN f : i < j => \E m, n \in DOMAIN q : m <= n /\ f[i] \in Elements(q[m]) /\ f[j] \in Elements(q[n])
  BY FlattenOrder
<1> HIDE DEF f
<1>2. SUFFICES ASSUME NEW i \in DOMAIN f, NEW j \in DOMAIN f, i < j, f[i].value.key = f[j].value.key
               PROVE  f[i].value.counter <= f[j].value.counter
  BY DEF InOrder, Indexes, f
<1>3. PICK m \in DOMAIN q, n \in DOMAIN q : m <= n /\ f[i] \in Elements(q[m]) /\ f[j] \in Elements(q[n])
  BY <1>1, <1>2
<1>4. f[i].value = vs[m] /\ f[j].value = vs[n]
  BY <1>3
<1>5. vs[m] \in Value /\ vs[n] \in Value /\ m \in Int /\ n \in Int
  OBVIOUS
<1>6. vs[m].counter \in Nat /\ vs[n].counter \in Nat
  BY <1>5 DEF Value
<1>7. m < n => vs[m].counter < vs[n].counter
  BY <1>2, <1>4 DEF Rising
<1> QED BY <1>3, <1>4, <1>5, <1>6, <1>7

\* Other statements before or after do not matter.
LEMMA InOrderConcat ==
    ASSUME NEW a \in Seq(Statement), NEW b \in Seq(Statement), InOrder(a), InOrder(b),
           \A x \in Elements(a), y \in Elements(b) : x.op # "index" \/ y.op # "index"
    PROVE  InOrder(a \o b)
<1> DEFINE c == a \o b
<1>1. /\ Len(a) \in Nat /\ DOMAIN c \subseteq Nat
      /\ \A i \in DOMAIN c :
             \/ i \in DOMAIN a /\ i <= Len(a) /\ c[i] = a[i] /\ a[i] \in Elements(a)
             \/ i > Len(a) /\ i - Len(a) \in DOMAIN b /\ c[i] = b[i - Len(a)] /\ b[i - Len(a)] \in Elements(b)
  BY ConcatPositions
<1> SUFFICES ASSUME NEW i \in DOMAIN c, NEW j \in DOMAIN c, i < j,
                    c[i].op = "index", Indexes(c, j, c[i].value.key)
             PROVE  c[i].value.counter <= c[j].value.counter
  BY DEF InOrder
<1> HIDE DEF c
<1>2. i \in Nat /\ j \in Nat
  BY <1>1
<1>3. CASE j <= Len(a)
  <2>1. i \in DOMAIN a /\ j \in DOMAIN a /\ c[i] = a[i] /\ c[j] = a[j]
    BY <1>1, <1>2, <1>3
  <2> QED BY <2>1 DEF InOrder, Indexes
<1>4. CASE i <= Len(a) /\ j > Len(a)
  <2>1. c[i] \in Elements(a) /\ c[j] \in Elements(b)
    BY <1>1, <1>2, <1>4
  <2> QED BY <2>1 DEF Indexes
<1>5. CASE i > Len(a)
  <2>1. /\ i - Len(a) \in DOMAIN b /\ j - Len(a) \in DOMAIN b /\ i - Len(a) < j - Len(a)
        /\ c[i] = b[i - Len(a)] /\ c[j] = b[j - Len(a)]
    BY <1>1, <1>2, <1>5
  <2> QED BY <2>1 DEF InOrder, Indexes
<1> QED BY <1>1, <1>2, <1>3, <1>4, <1>5

\* What xchandles/sync.rs writes of a spend.
LEMMA XchandlesWritesAre ==
    ASSUME NEW ch \in Seq(Spend), chain = ch, NEW c \in Nat, c < Len(ch)
    PROVE  \E a, b \in Seq(Statement) :
               /\ XchandlesWrites(c) = a \o b
               /\ Elements(a) = UNION {{W("index", v, c), W("slot", v, c)} : v \in Cr(ch, c + 1)}
               /\ Elements(b) = {W("mark", v, c + 1) : v \in Sp(ch, c + 1)}
               /\ Rising(ch[c + 1].created) => InOrder(a)
<1> DEFINE s == chain[c + 1]
           q == [i \in DOMAIN s.created |-> <<W("index", s.created[i], c), W("slot", s.created[i], c)>>]
           m == [i \in DOMAIN s.spent |-> W("mark", s.spent[i], c + 1)]
<1>0. c \in Int /\ c + 1 \in Nat /\ c + 1 \in Int
  OBVIOUS
<1>1. s \in Spend /\ s.spent \in Seq(Value) /\ s.created \in Seq(Value)
  <2>1. s \in Spend
    OBVIOUS
  <2> QED BY <2>1 DEF Spend
<1>2. /\ \A i \in DOMAIN s.created : s.created[i] \in Value
      /\ \A i \in DOMAIN s.spent : s.spent[i] \in Value
  BY <1>1
<1>3. q \in Seq(Seq(Statement)) /\ DOMAIN q = DOMAIN s.created
  <2>1. \A i \in DOMAIN s.created : <<W("index", s.created[i], c), W("slot", s.created[i], c)>> \in Seq(Statement)
    BY <1>0, <1>2, SaveStatements
  <2>2. DOMAIN s.created = 1 .. Len(s.created) /\ Len(s.created) \in Nat
    BY <1>1
  <2> HIDE DEF s
  <2> QED BY <2>1, <2>2
<1>4. m \in Seq(Statement) /\ DOMAIN m = DOMAIN s.spent
  <2>1. \A i \in DOMAIN s.spent : W("mark", s.spent[i], c + 1) \in Statement
    BY <1>0, <1>2, StatementsAre
  <2>2. DOMAIN s.spent = 1 .. Len(s.spent) /\ Len(s.spent) \in Nat
    BY <1>1
  <2> HIDE DEF s
  <2> QED BY <2>1, <2>2
<1>5. \A i \in DOMAIN q : Elements(q[i]) = {W("index", s.created[i], c), W("slot", s.created[i], c)}
  BY <1>0, <1>2, SaveStatements
<1>6. Elements(m) = {W("mark", v, c + 1) : v \in Elements(s.spent)}
  BY DEF Elements
<1>7. XchandlesWrites(c) = FlattenSeq(q) \o m
  BY DEF XchandlesWrites
<1> DEFINE E(v) == {W("index", v, c), W("slot", v, c)}
<1>8. UNION {Elements(q[i]) : i \in DOMAIN q} = UNION {E(v) : v \in Elements(s.created)}
  <2>1. \A i \in DOMAIN s.created : Elements(q[i]) = E(s.created[i])
    BY <1>3, <1>5
  <2>2. Elements(s.created) = {s.created[i] : i \in DOMAIN s.created} /\ DOMAIN q = DOMAIN s.created
    BY <1>3 DEF Elements
  <2> HIDE DEF E, s, q
  <2>3. {Elements(q[i]) : i \in DOMAIN q} = {E(v) : v \in Elements(s.created)}
    <3>1. {Elements(q[i]) : i \in DOMAIN q} = {E(s.created[i]) : i \in DOMAIN s.created}
      BY <2>1, <2>2
    <3> HIDE DEF E
    <3> QED BY <2>2, <3>1
  <2> QED BY <2>3
<1>r. Rising(s.created) => InOrder(FlattenSeq(q))
  <2>1. \A i \in DOMAIN q : \A w \in Elements(q[i]) : w.value = s.created[i]
    <3> SUFFICES ASSUME NEW i \in DOMAIN q, NEW w \in Elements(q[i]) PROVE w.value = s.created[i]
      OBVIOUS
    <3>1. Elements(q[i]) = {W("index", s.created[i], c), W("slot", s.created[i], c)}
      BY <1>5
    <3> HIDE DEF q, s
    <3> QED BY <3>1 DEF W
  <2> HIDE DEF q, s
  <2> QED BY <1>1, <1>3, <2>1, FlattenInOrder
<1> HIDE DEF q, m
<1>9. FlattenSeq(q) \in Seq(Statement) /\ Elements(FlattenSeq(q)) = UNION {Elements(q[i]) : i \in DOMAIN q}
  BY <1>3, FlattenElements
<1> QED BY <1>4, <1>6, <1>7, <1>8, <1>9, <1>r DEF Sp, Cr

\* How often a value comes in a sequence.
LEMMA CountIs ==
    ASSUME NEW X, NEW q \in Seq(X), NEW v
    PROVE  /\ Count(q, v) \in Nat /\ (Count(q, v) = 0 <=> v \notin Elements(q))
           /\ Simple(q) /\ v \in Elements(q) => Count(q, v) = 1
<1> DEFINE I == {i \in DOMAIN q : q[i] = v}
<1>1. IsFiniteSet(I)
  <2>1. DOMAIN q = 1 .. Len(q) /\ Len(q) \in Nat
    OBVIOUS
  <2>2. IsFiniteSet(DOMAIN q)
    BY <2>1, FS_Interval
  <2> QED BY <2>2, FS_Subset
<1>2. I = {} <=> v \notin Elements(q)
  BY DEF Elements
<1>3. Simple(q) /\ I # {} => \E i : I = {i}
  BY DEF Simple
<1> HIDE DEF I
<1>4. Cardinality(I) \in Nat /\ (Cardinality(I) = 0 <=> I = {})
  BY <1>1, FS_CardinalityType, FS_EmptySet
<1>5. Simple(q) /\ I # {} => Cardinality(I) = 1
  BY <1>3, FS_Singleton
<1>6. Count(q, v) = Cardinality(I)
  BY DEF Count, I
<1> QED BY <1>2, <1>4, <1>5, <1>6

\* What catalog/sync.rs writes of a spend.
LEMMA CatalogWritesAre ==
    ASSUME NEW ch \in Seq(Spend), chain = ch, NEW c \in Nat, c < Len(ch), Simple(ch[c + 1].created)
    PROVE  \E a, b \in Seq(Statement) :
               /\ CatalogWrites(c) = a \o b
               /\ Elements(a) = {W("markIx", v, c + 1) : v \in Sp(ch, c + 1)}
               /\ Elements(b) = UNION {{W("index", v, c), W("slot", v, c)} : v \in Cr(ch, c + 1) \ Sp(ch, c + 1)}
               /\ Rising(ch[c + 1].created) => InOrder(b)
<1> DEFINE s == chain[c + 1]
           New(i) == /\ \A j \in 1 .. i - 1 : s.created[j] # s.created[i]
                     /\ Count(s.spent, s.created[i]) < Count(s.created, s.created[i])
           P(i) == <<W("index", s.created[i], c), W("slot", s.created[i], c)>>
           q == [i \in DOMAIN s.created |-> IF New(i) THEN P(i) ELSE <<>>]
           m == [i \in DOMAIN s.spent |-> W("markIx", s.spent[i], c + 1)]
<1>0. c \in Int /\ c + 1 \in Nat /\ c + 1 \in Int
  OBVIOUS
<1>1. s \in Spend /\ s.spent \in Seq(Value) /\ s.created \in Seq(Value)
  <2>1. s \in Spend
    OBVIOUS
  <2> QED BY <2>1 DEF Spend
<1>2. /\ \A i \in DOMAIN s.created : s.created[i] \in Value
      /\ \A i \in DOMAIN s.spent : s.spent[i] \in Value
  BY <1>1
<1>3. q \in Seq(Seq(Statement)) /\ DOMAIN q = DOMAIN s.created
  <2>1. \A i \in DOMAIN s.created : P(i) \in Seq(Statement)
    BY <1>0, <1>2, SaveStatements
  <2>2. DOMAIN s.created = 1 .. Len(s.created) /\ Len(s.created) \in Nat
    BY <1>1
  <2>3. <<>> \in Seq(Statement)
    OBVIOUS
  <2> HIDE DEF s, P, New
  <2> QED BY <2>1, <2>2, <2>3
<1>4. m \in Seq(Statement) /\ DOMAIN m = DOMAIN s.spent
  <2>1. \A i \in DOMAIN s.spent : W("markIx", s.spent[i], c + 1) \in Statement
    BY <1>0, <1>2, StatementsAre
  <2>2. DOMAIN s.spent = 1 .. Len(s.spent) /\ Len(s.spent) \in Nat
    BY <1>1
  <2> HIDE DEF s
  <2> QED BY <2>1, <2>2
<1>n. \A i \in DOMAIN s.created : New(i) <=> s.created[i] \notin Elements(s.spent)
  <2> TAKE i \in DOMAIN s.created
  <2>1. Simple(s.created) /\ DOMAIN s.created = 1 .. Len(s.created) /\ Len(s.created) \in Nat
    BY <1>1
  <2>2. s.created[i] \in Elements(s.created)
    BY DEF Elements
  <2>3. Count(s.created, s.created[i]) = 1
    BY <1>1, <2>1, <2>2, CountIs
  <2>4. Count(s.spent, s.created[i]) \in Nat /\ (Count(s.spent, s.created[i]) = 0 <=> s.created[i] \notin Elements(s.spent))
    BY <1>1, CountIs
  <2>5. \A j \in 1 .. i - 1 : s.created[j] # s.created[i]
    <3>1. \A j \in 1 .. i - 1 : j \in DOMAIN s.created /\ j # i
      BY <2>1
    <3> HIDE DEF s
    <3> QED BY <2>1, <3>1 DEF Simple
  <2> QED BY <2>3, <2>4, <2>5
<1> DEFINE E(v) == {W("index", v, c), W("slot", v, c)}
           N == Elements(s.created) \ Elements(s.spent)
<1>5. \A i \in DOMAIN q : Elements(q[i]) = IF s.created[i] \in Elements(s.spent) THEN {} ELSE E(s.created[i])
  <2>1. Elements(<<>>) = {}
    BY DEF Elements
  <2>2. \A i \in DOMAIN s.created : Elements(P(i)) = E(s.created[i])
    BY <1>0, <1>2, SaveStatements
  <2>3. \A i \in DOMAIN s.created : q[i] = IF s.created[i] \in Elements(s.spent) THEN <<>> ELSE P(i)
    BY <1>3, <1>n
  <2> HIDE DEF q, P, New, s, E
  <2> QED BY <1>3, <2>1, <2>2, <2>3
<1>6. Elements(m) = {W("markIx", v, c + 1) : v \in Elements(s.spent)}
  BY DEF Elements
<1>7. CatalogWrites(c) = m \o FlattenSeq(q)
  BY DEF CatalogWrites
<1>8. UNION {Elements(q[i]) : i \in DOMAIN q} = UNION {E(v) : v \in N}
  <2>1. Elements(s.created) = {s.created[i] : i \in DOMAIN s.created} /\ DOMAIN q = DOMAIN s.created
    BY <1>3 DEF Elements
  <2> HIDE DEF E, s, q
  <2>2. ASSUME NEW x \in UNION {Elements(q[i]) : i \in DOMAIN q}
        PROVE  x \in UNION {E(v) : v \in N}
    <3>1. PICK i \in DOMAIN q : x \in Elements(q[i])
      OBVIOUS
    <3>2. s.created[i] \in N /\ x \in E(s.created[i])
      BY <1>5, <2>1, <3>1
    <3> HIDE DEF E, N
    <3> QED BY <3>2
  <2>3. ASSUME NEW x \in UNION {E(v) : v \in N}
        PROVE  x \in UNION {Elements(q[i]) : i \in DOMAIN q}
    <3>1. PICK v \in N : x \in E(v)
      OBVIOUS
    <3>2. PICK i \in DOMAIN s.created : s.created[i] = v
      BY <2>1
    <3>3. x \in Elements(q[i]) /\ i \in DOMAIN q
      BY <1>5, <2>1, <3>1, <3>2
    <3> QED BY <3>3
  <2> HIDE DEF N
  <2> QED BY <2>2, <2>3
<1>r. Rising(s.created) => InOrder(FlattenSeq(q))
  <2>1. \A i \in DOMAIN q : \A w \in Elements(q[i]) : w.value = s.created[i]
    <3> SUFFICES ASSUME NEW i \in DOMAIN q, NEW w \in Elements(q[i]) PROVE w.value = s.created[i]
      OBVIOUS
    <3>1. w \in {W("index", s.created[i], c), W("slot", s.created[i], c)}
      BY <1>5
    <3> HIDE DEF q, s
    <3> QED BY <3>1 DEF W
  <2> HIDE DEF q, s
  <2> QED BY <1>1, <1>3, <2>1, FlattenInOrder
<1> HIDE DEF q, m
<1>9. FlattenSeq(q) \in Seq(Statement) /\ Elements(FlattenSeq(q)) = UNION {Elements(q[i]) : i \in DOMAIN q}
  BY <1>3, FlattenElements
<1> QED BY <1>4, <1>6, <1>7, <1>8, <1>9, <1>r DEF Sp, Cr

\* The order of the statements in a queue.
Phase(w) ==
    IF w.op \in CoinOps THEN 0 ELSE IF w.op = "markIx" THEN 1 ELSE IF w.op = "mark" THEN 3 ELSE 2
Sorted(q) == \A i, j \in DOMAIN q : i < j => Phase(q[i]) <= Phase(q[j])

\* Two sorted sequences, the second of which begins where the first ends.
LEMMA SortedConcat ==
    ASSUME NEW a \in Seq(Statement), NEW b \in Seq(Statement), Sorted(a), Sorted(b),
           \A x \in Elements(a), y \in Elements(b) : Phase(x) <= Phase(y)
    PROVE  Sorted(a \o b)
<1> DEFINE c == a \o b
<1>1. /\ Len(c) = Len(a) + Len(b) /\ Len(a) \in Nat /\ Len(b) \in Nat
      /\ DOMAIN a = 1 .. Len(a) /\ DOMAIN b = 1 .. Len(b) /\ DOMAIN c = 1 .. Len(a) + Len(b)
      /\ \A i \in 1 .. Len(a) : c[i] = a[i]
      /\ \A i \in 1 .. Len(b) : c[Len(a) + i] = b[i]
  OBVIOUS
<1>2. \A i \in DOMAIN c : \/ i \in DOMAIN a /\ c[i] = a[i] /\ c[i] \in Elements(a)
                          \/ i > Len(a) /\ i - Len(a) \in DOMAIN b /\ c[i] = b[i - Len(a)] /\ c[i] \in Elements(b)
  BY ConcatPositions DEF c
<1>3. SUFFICES ASSUME NEW i \in DOMAIN c, NEW j \in DOMAIN c, i < j PROVE Phase(c[i]) <= Phase(c[j])
  BY DEF Sorted
<1> HIDE DEF c
<1>4. i \in Nat /\ j \in Nat
  BY <1>1
<1>5. CASE i \in DOMAIN a /\ c[i] = a[i] /\ c[i] \in Elements(a)
  <2>1. CASE j \in DOMAIN a /\ c[j] = a[j]
    BY <1>3, <1>5, <2>1 DEF Sorted
  <2>2. CASE c[j] \in Elements(b)
    BY <1>5, <2>2
  <2> QED BY <1>2, <2>1, <2>2
<1>6. CASE i > Len(a) /\ i - Len(a) \in DOMAIN b /\ c[i] = b[i - Len(a)]
  <2>1. j - Len(a) \in DOMAIN b /\ c[j] = b[j - Len(a)] /\ i - Len(a) < j - Len(a)
    <3>1. j \notin DOMAIN a
      BY <1>1, <1>3, <1>4, <1>6
    <3> QED BY <1>1, <1>2, <1>3, <1>4, <3>1
  <2> QED BY <1>6, <2>1 DEF Sorted
<1> QED BY <1>2, <1>5, <1>6

\* The writes of a spend are statements, in order, none of which touches the
\* coins.
LEMMA SpendWritesAre ==
    ASSUME Typed, History(chain), NEW c \in Nat, c < Len(chain)
    PROVE  /\ SpendWrites(c) \in Seq(Statement) /\ Sorted(SpendWrites(c))
           /\ \A w \in Elements(SpendWrites(c)) : w.op \notin CoinOps
           /\ Rising(chain[c + 1].created) => InOrder(SpendWrites(c))
           /\ kind # "catalog" => \A w : w \in Elements(SpendWrites(c)) <=>
                 \/ \E v \in Cr(chain, c + 1) : w = W("index", v, c) \/ w = W("slot", v, c)
                 \/ \E v \in Sp(chain, c + 1) : w = W("mark", v, c + 1)
           /\ kind = "catalog" => \A w : w \in Elements(SpendWrites(c)) <=>
                 \/ \E v \in Cr(chain, c + 1) \ Sp(chain, c + 1) : w = W("index", v, c) \/ w = W("slot", v, c)
                 \/ \E v \in Sp(chain, c + 1) : w = W("markIx", v, c + 1)
<1>1. chain \in Seq(Spend) /\ Simple(chain[c + 1].created)
  <2>1. c + 1 \in 1 .. Len(chain)
    BY DEF History
  <2> QED BY <2>1 DEF History
<1>p. \A v : /\ Phase(W("index", v, c)) = 2 /\ Phase(W("slot", v, c)) = 2
             /\ Phase(W("mark", v, c + 1)) = 3 /\ Phase(W("markIx", v, c + 1)) = 1
  BY DEF Phase, W, CoinOps
<1>o. \A v : \A op \in {"index", "slot", "mark", "markIx"} : W(op, v, c).op \notin CoinOps /\ W(op, v, c + 1).op \notin CoinOps
  BY DEF W, CoinOps
<1>2. CASE kind # "catalog"
  <2>1. PICK a \in Seq(Statement), b \in Seq(Statement) :
            /\ XchandlesWrites(c) = a \o b
            /\ Elements(a) = UNION {{W("index", v, c), W("slot", v, c)} : v \in Cr(chain, c + 1)}
            /\ Elements(b) = {W("mark", v, c + 1) : v \in Sp(chain, c + 1)}
            /\ Rising(chain[c + 1].created) => InOrder(a)
    BY <1>1, XchandlesWritesAre
  <2>2. SpendWrites(c) = a \o b
    BY <1>2, <2>1 DEF SpendWrites
  <2>3. a \o b \in Seq(Statement) /\ Elements(a \o b) = Elements(a) \cup Elements(b)
    BY ConcatElements
  <2>4. /\ \A w \in Elements(a) : \E v \in Cr(chain, c + 1) : w = W("index", v, c) \/ w = W("slot", v, c)
        /\ \A w \in Elements(b) : \E v \in Sp(chain, c + 1) : w = W("mark", v, c + 1)
    BY <2>1
  <2>o. Rising(chain[c + 1].created) => InOrder(a \o b)
    <3>1. InOrder(b) /\ \A x \in Elements(b) : x.op # "index"
      <4>1. \A w \in Elements(b) : w.op # "index"
        BY <2>4 DEF W
      <4> QED BY <4>1 DEF InOrder, Elements
    <3> QED BY <2>1, <3>1, InOrderConcat
  <2>5. /\ \A w \in Elements(a) : Phase(w) = 2 /\ w.op \notin CoinOps
        /\ \A w \in Elements(b) : Phase(w) = 3 /\ w.op \notin CoinOps
    BY <1>p, <1>o, <2>4
  <2>6. Sorted(a) /\ Sorted(b)
    BY <2>5 DEF Sorted, Elements
  <2>7. Sorted(a \o b)
    BY <2>5, <2>6, SortedConcat
  <2>8. \A w : w \in Elements(a) <=> \E v \in Cr(chain, c + 1) : w = W("index", v, c) \/ w = W("slot", v, c)
    BY <2>1
  <2>9. \A w : w \in Elements(b) <=> \E v \in Sp(chain, c + 1) : w = W("mark", v, c + 1)
    BY <2>1
  <2>10. \A w : w \in Elements(SpendWrites(c)) <=> w \in Elements(a) \/ w \in Elements(b)
    BY <2>2, <2>3
  <2>11. /\ SpendWrites(c) \in Seq(Statement) /\ Sorted(SpendWrites(c))
         /\ \A w \in Elements(SpendWrites(c)) : w.op \notin CoinOps
    BY <2>2, <2>3, <2>5, <2>7, <2>10
  <2>12. \A w : w \in Elements(SpendWrites(c)) <=>
               \/ \E v \in Cr(chain, c + 1) : w = W("index", v, c) \/ w = W("slot", v, c)
               \/ \E v \in Sp(chain, c + 1) : w = W("mark", v, c + 1)
    BY <2>8, <2>9, <2>10
  <2> QED BY <1>2, <2>2, <2>o, <2>11, <2>12
<1>3. CASE kind = "catalog"
  <2>1. PICK a \in Seq(Statement), b \in Seq(Statement) :
            /\ CatalogWrites(c) = a \o b
            /\ Elements(a) = {W("markIx", v, c + 1) : v \in Sp(chain, c + 1)}
            /\ Elements(b) = UNION {{W("index", v, c), W("slot", v, c)} : v \in Cr(chain, c + 1) \ Sp(chain, c + 1)}
            /\ Rising(chain[c + 1].created) => InOrder(b)
    BY <1>1, CatalogWritesAre
  <2>2. SpendWrites(c) = a \o b
    BY <1>3, <2>1 DEF SpendWrites
  <2>3. a \o b \in Seq(Statement) /\ Elements(a \o b) = Elements(a) \cup Elements(b)
    BY ConcatElements
  <2>4. /\ \A w \in Elements(b) : \E v \in Cr(chain, c + 1) : w = W("index", v, c) \/ w = W("slot", v, c)
        /\ \A w \in Elements(a) : \E v \in Sp(chain, c + 1) : w = W("markIx", v, c + 1)
    BY <2>1
  <2>o. Rising(chain[c + 1].created) => InOrder(a \o b)
    <3>1. InOrder(a) /\ \A x \in Elements(a) : x.op # "index"
      <4>1. \A w \in Elements(a) : w.op # "index"
        BY <2>4 DEF W
      <4> QED BY <4>1 DEF InOrder, Elements
    <3> QED BY <2>1, <3>1, InOrderConcat
  <2>5. /\ \A w \in Elements(b) : Phase(w) = 2 /\ w.op \notin CoinOps
        /\ \A w \in Elements(a) : Phase(w) = 1 /\ w.op \notin CoinOps
    BY <1>p, <1>o, <2>4
  <2>6. Sorted(a) /\ Sorted(b)
    BY <2>5 DEF Sorted, Elements
  <2>7. Sorted(a \o b)
    BY <2>5, <2>6, SortedConcat
  <2>8. \A w : w \in Elements(b) <=> \E v \in Cr(chain, c + 1) \ Sp(chain, c + 1) : w = W("index", v, c) \/ w = W("slot", v, c)
    BY <2>1
  <2>9. \A w : w \in Elements(a) <=> \E v \in Sp(chain, c + 1) : w = W("markIx", v, c + 1)
    BY <2>1
  <2>10. \A w : w \in Elements(SpendWrites(c)) <=> w \in Elements(a) \/ w \in Elements(b)
    BY <2>2, <2>3
  <2>11. /\ SpendWrites(c) \in Seq(Statement) /\ Sorted(SpendWrites(c))
         /\ \A w \in Elements(SpendWrites(c)) : w.op \notin CoinOps
    BY <2>2, <2>3, <2>5, <2>7, <2>10
  <2>12. \A w : w \in Elements(SpendWrites(c)) <=>
               \/ \E v \in Cr(chain, c + 1) \ Sp(chain, c + 1) : w = W("index", v, c) \/ w = W("slot", v, c)
               \/ \E v \in Sp(chain, c + 1) : w = W("markIx", v, c + 1)
    BY <2>8, <2>9, <2>10
  <2> QED BY <1>3, <2>2, <2>o, <2>11, <2>12
<1> QED BY <1>2, <1>3

\* The statements a walk begins with.
LEMMA ColdWritesAre ==
    ASSUME Typed
    PROVE  /\ ColdWrites \in Seq(Statement) /\ ConfigWrites \in Seq(Statement)
           /\ ColdWrites \o ConfigWrites \in Seq(Statement)
           /\ Elements(ColdWrites \o ConfigWrites) = Elements(ColdWrites) \cup Elements(ConfigWrites)
           /\ Elements(ColdWrites) = {W("slot", EndSlot(Lo), Eve), W("index", EndSlot(Lo), Eve),
                                      W("slot", EndSlot(Hi), Eve), W("index", EndSlot(Hi), Eve)}
           /\ Elements(ConfigWrites) = IF kind = "catalog" \/ config THEN {} ELSE {W("config", EndSlot(Lo), 0)}
<1> DEFINE a == W("slot", EndSlot(Lo), Eve)
           b == W("index", EndSlot(Lo), Eve)
           c == W("slot", EndSlot(Hi), Eve)
           d == W("index", EndSlot(Hi), Eve)
           e == W("config", EndSlot(Lo), 0)
<1>1. EndSlot(Lo) \in Value /\ EndSlot(Hi) \in Value /\ Eve \in Int
  BY NamesAreNumbers DEF EndSlot, Value, Eve
<1>2. {a, b, c, d, e} \subseteq Statement
  BY <1>1, StatementsAre
<1>3. ColdWrites = <<a, b, c, d>> /\ ConfigWrites = IF kind = "catalog" \/ config THEN <<>> ELSE <<e>>
  BY DEF ColdWrites, ConfigWrites
<1> HIDE DEF a, b, c, d, e
<1>4. <<a, b, c, d>> \in Seq(Statement) /\ Elements(<<a, b, c, d>>) = {a, b, c, d}
  <2> DEFINE x == <<a, b>>
             y == <<c, d>>
  <2>1. x \in Seq(Statement) /\ y \in Seq(Statement) /\ <<a, b, c, d>> = x \o y
    BY <1>2
  <2>2. Elements(x) = {a, b} /\ Elements(y) = {c, d}
    BY <1>2, ShortElements
  <2> HIDE DEF x, y
  <2>3. x \o y \in Seq(Statement) /\ Elements(x \o y) = Elements(x) \cup Elements(y)
    BY <2>1, ConcatElements
  <2>4. Elements(x \o y) = {a, b, c, d}
    BY <2>2, <2>3
  <2> QED BY <2>1, <2>3, <2>4
<1>5. ConfigWrites \in Seq(Statement) /\ Elements(ConfigWrites) = IF kind = "catalog" \/ config THEN {} ELSE {e}
  <2>1. <<>> \in Seq(Statement) /\ Elements(<<>>) = {}
    BY DEF Elements
  <2>2. <<e>> \in Seq(Statement) /\ Elements(<<e>>) = {e}
    BY <1>2, ShortElements
  <2> QED BY <1>3, <2>1, <2>2
<1>6. /\ ColdWrites \o ConfigWrites \in Seq(Statement)
      /\ Elements(ColdWrites \o ConfigWrites) = Elements(ColdWrites) \cup Elements(ConfigWrites)
  <2>1. ColdWrites \in Seq(Statement)
    BY <1>3, <1>4
  <2> QED BY <1>5, <2>1, ConcatElements
<1> QED BY <1>3, <1>4, <1>5, <1>6 DEF a, b, c, d, e

-----------------------------------------------------------------------------
\* The types and the history are kept.

Base == Typed /\ History(chain)

\* A process with another record is still a process.
LEMMA ProcessSet ==
    ASSUME proc \in [Procs -> Process], NEW p \in Procs, NEW r \in Process
    PROVE  /\ [proc EXCEPT ![p] = r] \in [Procs -> Process]
           /\ [proc EXCEPT ![p] = r][p] = r
           /\ \A q \in Procs : q # p => [proc EXCEPT ![p] = r][q] = proc[q]
OBVIOUS

\* Executing a statement keeps the types of the tables.
LEMMA ExecuteTyped ==
    ASSUME Typed, NEW w \in Statement, Execute(w)
    PROVE  /\ rows' \subseteq Row /\ coins' \subseteq [coin : Nat, spentAt : Nat] /\ config' \in BOOLEAN
           /\ DOMAIN index' \subseteq Int /\ \A k \in DOMAIN index' : index'[k] \in Value /\ index'[k].key = k
<1>1. /\ w.value \in Value /\ w.n \in Int /\ w.value.key \in Int
      /\ w.op \notin {"slot", "index"} => w.n \in Nat
  BY DEF Statement, Value
<1> DEFINE Db == /\ rows \subseteq Row /\ coins \subseteq [coin : Nat, spentAt : Nat] /\ config \in BOOLEAN
                 /\ DOMAIN index \subseteq Int /\ \A k \in DOMAIN index : index[k] \in Value /\ index[k].key = k
<1>2. Db
  BY DEF Typed
<1>3. ASSUME NEW v, NEW h \in Nat, MarkSlotAsSpent(v, h) PROVE Db'
  <2>1. rows' \subseteq Row
    <3>1. \A r \in Row : [r EXCEPT !.spentAt = h] \in Row
      BY <1>3 DEF Row
    <3> QED BY <1>2, <1>3, <3>1 DEF MarkSlotAsSpent
  <2> QED BY <1>2, <1>3, <2>1 DEF MarkSlotAsSpent
<1>4. CASE w.op = "slot" /\ SaveSlot(w.value, w.n)
  <2>1. [value |-> w.value, parent |-> w.n, spentAt |-> 0] \in Row
    BY <1>1 DEF Row
  <2>2. rows' \subseteq Row
    BY <1>2, <1>4, <2>1 DEF SaveSlot
  <2> QED BY <1>2, <1>4, <2>2 DEF SaveSlot
<1>5. CASE w.op = "index" /\ SaveIndexed(w.value)
  <2>1. /\ DOMAIN index' = DOMAIN index \cup {w.value.key}
        /\ \A k \in DOMAIN index' : index'[k] = IF k = w.value.key THEN w.value ELSE index[k]
    BY <1>5 DEF SaveIndexed
  <2>2. /\ DOMAIN index' \subseteq Int
        /\ \A k \in DOMAIN index' : index'[k] \in Value /\ index'[k].key = k
    BY <1>1, <1>2, <2>1
  <2> QED BY <1>2, <1>5, <2>2 DEF SaveIndexed
<1>6. CASE w.op = "mark" /\ MarkSlotAsSpent(w.value, w.n)
  BY <1>1, <1>3, <1>6
<1>7. CASE w.op = "markIx" /\ MarkIndexedAsSpent(w.value.key, w.n)
  <2>1. CASE w.value.key \in DOMAIN index
    <3>1. MarkSlotAsSpent(index[w.value.key], w.n)
      BY <1>7, <2>1 DEF MarkIndexedAsSpent
    <3> QED BY <1>1, <1>3, <1>7, <3>1
  <2>2. CASE w.value.key \notin DOMAIN index
    BY <1>2, <1>7, <2>2 DEF MarkIndexedAsSpent, db
  <2> QED BY <2>1, <2>2
<1>8. CASE w.op = "parent" /\ MarkParentSpent(w.n)
  <2>1. coins' \subseteq [coin : Nat, spentAt : Nat]
    <3>1. w.n \in Nat
      BY <1>1, <1>8
    <3>2. \A r \in [coin : Nat, spentAt : Nat] : [r EXCEPT !.spentAt = w.n] \in [coin : Nat, spentAt : Nat]
      BY <3>1
    <3> QED BY <1>2, <1>8, <3>2 DEF MarkParentSpent
  <2> QED BY <1>2, <1>8, <2>1 DEF MarkParentSpent
<1>9. ASSUME NEW c \in Nat, NEW h \in Nat, InsertCoin(c, h) PROVE Db'
  BY <1>2, <1>9 DEF InsertCoin
<1>10. CASE (w.op = "coin" /\ InsertCoin(w.n, 0)) \/ (w.op = "spent" /\ InsertCoin(w.n, w.n + 1))
  <2>1. w.n \in Nat /\ w.n + 1 \in Nat
    BY <1>1, <1>10
  <2> QED BY <1>9, <1>10, <2>1
<1>11. CASE w.op = "config" /\ SaveConfig
  BY <1>2, <1>11 DEF SaveConfig
<1> QED BY <1>4, <1>5, <1>6, <1>7, <1>8, <1>10, <1>11 DEF Execute

\* The queue that Fetch leaves: the coin's own statements, then the spend's.
Saving(p) == IF proc[p].save
             THEN <<W("parent", EndSlot(Lo), proc[p].at),
                    W(IF proc[p].at < Len(chain) THEN "spent" ELSE "coin", EndSlot(Lo), proc[p].at)>>
             ELSE <<>>
Spending(p) == IF proc[p].at < Len(chain) THEN SpendWrites(proc[p].at) ELSE <<>>

\* What Fetch does to the process.
LEMMA FetchDoes ==
    ASSUME Typed, History(chain), NEW p \in Procs, Fetch(p)
    PROVE  LET r == [pc |-> "write", at |-> proc[p].at, save |-> TRUE, spent |-> proc[p].at < Len(chain),
                     todo |-> Saving(p) \o Spending(p)]
           IN  /\ proc' = [proc EXCEPT ![p] = r] /\ r \in Process
               /\ Saving(p) \in Seq(Statement) /\ Spending(p) \in Seq(Statement)
               /\ r.todo \in Seq(Statement)
               /\ \A w \in Elements(Spending(p)) : w.op \notin CoinOps
<1>1. proc[p] \in Process /\ proc[p].at \in Nat /\ EndSlot(Lo) \in Value /\ chain \in Seq(Spend)
  BY NamesAreNumbers DEF Typed, Process, EndSlot, Value
<1> DEFINE a == W("parent", EndSlot(Lo), proc[p].at)
           b == W(IF proc[p].at < Len(chain) THEN "spent" ELSE "coin", EndSlot(Lo), proc[p].at)
<1>2. a \in Statement /\ b \in Statement
  <2>1. proc[p].at \in Int
    BY <1>1
  <2> QED BY <1>1, <2>1, StatementsAre
<1>3. Saving(p) \in Seq(Statement)
  <2>1. Saving(p) = IF proc[p].save THEN <<a, b>> ELSE <<>>
    BY DEF Saving
  <2> HIDE DEF a, b
  <2> QED BY <1>2, <2>1
<1>4. Spending(p) \in Seq(Statement) /\ \A w \in Elements(Spending(p)) : w.op \notin CoinOps
  <2>1. CASE proc[p].at < Len(chain)
    BY <1>1, <2>1, SpendWritesAre DEF Spending
  <2>2. CASE ~ (proc[p].at < Len(chain))
    <3>1. Elements(<<>>) = {}
      BY DEF Elements
    <3> QED BY <2>2, <3>1 DEF Spending
  <2> QED BY <2>1, <2>2
<1>5. Saving(p) \o Spending(p) \in Seq(Statement)
  BY <1>3, <1>4, ConcatElements
<1>6. (proc[p].at < Len(chain)) \in BOOLEAN
  OBVIOUS
<1>7. [pc |-> "write", at |-> proc[p].at, save |-> TRUE, spent |-> proc[p].at < Len(chain),
       todo |-> Saving(p) \o Spending(p)] \in Process
  BY <1>1, <1>5, <1>6 DEF Process
<1>8. proc' = [proc EXCEPT ![p] = [pc |-> "write", at |-> proc[p].at, save |-> TRUE,
                                   spent |-> proc[p].at < Len(chain), todo |-> Saving(p) \o Spending(p)]]
  BY DEF Fetch, Saving, Spending
<1> QED BY <1>3, <1>4, <1>5, <1>7, <1>8

\* Init is a state with an empty history.
LEMMA BaseInit ==
    ASSUME Init
    PROVE  Base
<1>1. /\ use \in Uses /\ rows \subseteq Row /\ coins \subseteq [coin : Nat, spentAt : Nat]
      /\ config \in BOOLEAN /\ crashes \in Nat
      /\ DOMAIN index \subseteq Int /\ \A k \in DOMAIN index : index[k] \in Value /\ index[k].key = k
  <2>1. DOMAIN <<>> = {}
    OBVIOUS
  <2> QED BY <2>1 DEF Init
<1>2. chain = <<>> /\ chain \in Seq(Spend) /\ Len(chain) = 0
  BY DEF Init
<1>3. proc \in [Procs -> Process]
  BY DEF Init, Idle, Process
<1>4. Typed
  BY <1>1, <1>2, <1>3 DEF Typed
<1>5. Good(ValuesOf(chain, 0))
  BY <1>4, ValuesOfNext, EndsAreGood
<1>6. 0 .. Len(chain) = {0} /\ 1 .. Len(chain) = {}
  BY <1>2
<1>7. History(chain)
  BY <1>2, <1>5, <1>6 DEF History
<1> QED BY <1>4, <1>7 DEF Base

\* What the other actions do to a process.
LEMMA ProcessSteps ==
    ASSUME Typed, NEW p \in Procs
    PROVE  /\ Start(p) => \E r \in Process : proc' = [proc EXCEPT ![p] = r]
           /\ Write(p) => LET r == [proc[p] EXCEPT !.todo = Tail(@)]
                          IN  /\ proc' = [proc EXCEPT ![p] = r] /\ r \in Process /\ Head(proc[p].todo) \in Statement
           /\ Advance(p) => LET r == IF proc[p].spent THEN [proc[p] EXCEPT !.pc = "walk", !.at = proc[p].at + 1]
                                     ELSE [proc[p] EXCEPT !.pc = "done"]
                            IN  proc' = [proc EXCEPT ![p] = r] /\ r \in Process
           /\ Crash(p) => LET r == [Idle EXCEPT !.pc = "crashed"]
                          IN  proc' = [proc EXCEPT ![p] = r] /\ r \in Process
<1>1. proc[p] \in Process /\ proc \in [Procs -> Process] /\ coins \subseteq [coin : Nat, spentAt : Nat]
  BY DEF Typed
<1>2. ASSUME Start(p) PROVE \E r \in Process : proc' = [proc EXCEPT ![p] = r]
  <2>1. ColdWrites \o ConfigWrites \in Seq(Statement) /\ ConfigWrites \in Seq(Statement)
    BY ColdWritesAre
  <2>2. \A c \in Tips : c \in Nat
    BY <1>1 DEF Tips
  <2>3. \A c \in Nat, q \in Seq(Statement), s \in BOOLEAN :
            [pc |-> "walk", at |-> c, save |-> s, spent |-> FALSE, todo |-> q] \in Process
    BY DEF Process
  <2> QED BY <1>2, <2>1, <2>2, <2>3 DEF Start
<1>3. ASSUME Write(p)
      PROVE  /\ proc' = [proc EXCEPT ![p] = [proc[p] EXCEPT !.todo = Tail(@)]]
             /\ [proc[p] EXCEPT !.todo = Tail(@)] \in Process /\ Head(proc[p].todo) \in Statement
  <2>1. proc' = [proc EXCEPT ![p] = [proc[p] EXCEPT !.todo = Tail(@)]] /\ proc[p].todo # <<>>
    BY <1>1, <1>3 DEF Write
  <2>2. proc[p].todo \in Seq(Statement)
    BY <1>1 DEF Process
  <2>3. Head(proc[p].todo) \in Statement /\ Tail(proc[p].todo) \in Seq(Statement)
    BY <2>1, <2>2
  <2> QED BY <1>1, <2>1, <2>3 DEF Process
<1>4. ASSUME Advance(p)
      PROVE  LET r == IF proc[p].spent THEN [proc[p] EXCEPT !.pc = "walk", !.at = proc[p].at + 1]
                      ELSE [proc[p] EXCEPT !.pc = "done"]
             IN  proc' = [proc EXCEPT ![p] = r] /\ r \in Process
  <2>1. proc[p].at + 1 \in Nat
    BY <1>1 DEF Process
  <2> DEFINE r == IF proc[p].spent THEN [proc[p] EXCEPT !.pc = "walk", !.at = proc[p].at + 1]
                  ELSE [proc[p] EXCEPT !.pc = "done"]
  <2>2. proc' = [proc EXCEPT ![p] = r]
    BY <1>4 DEF Advance
  <2>3. r \in Process
    BY <1>1, <2>1 DEF Process
  <2> QED BY <2>2, <2>3
<1>5. ASSUME Crash(p)
      PROVE  /\ proc' = [proc EXCEPT ![p] = [Idle EXCEPT !.pc = "crashed"]]
             /\ [Idle EXCEPT !.pc = "crashed"] \in Process
  <2>1. proc' = [proc EXCEPT ![p] = [Idle EXCEPT !.pc = "crashed"]]
    BY <1>5 DEF Crash
  <2>2. [Idle EXCEPT !.pc = "crashed"] \in Process
    <3>1. Idle \in Process
      BY DEF Idle, Process
    <3> QED BY <3>1 DEF Process
  <2> QED BY <2>1, <2>2
<1> QED BY <1>2, <1>3, <1>4, <1>5

\* Every step keeps the types and the history.
LEMMA BaseNext ==
    ASSUME Base, [Next]_vars
    PROVE  Base'
<1>1. CASE Grow
  <2>1. PICK s \in Spends(ValuesAt(Len(chain))) : chain' = Append(chain, s)
    BY <1>1 DEF Grow
  <2>2. ValuesAt(Len(chain)) = ValuesOf(chain, Len(chain))
    BY DEF ValuesAt, ValuesOf, SlotsAt, SlotsOf
  <2>3. s \in Spend /\ History(Append(chain, s))
    BY <2>1, <2>2, HistoryGrows DEF Base
  <2>4. chain' \in Seq(Spend)
    BY <2>1, <2>3 DEF History
  <2>5. Typed'
    BY <1>1, <2>4 DEF Base, Typed, Grow, db
  <2>6. History(chain)' <=> History(chain')
    BY DEF History, ValuesOf, SlotsOf, Sp, Cr
  <2> QED BY <2>1, <2>3, <2>5, <2>6 DEF Base
<1>2. ASSUME UNCHANGED chain, Typed' PROVE Base'
  <2>1. History(chain)' <=> History(chain')
    BY DEF History, ValuesOf, SlotsOf, Sp, Cr
  <2> QED BY <1>2, <2>1 DEF Base
<1>3. ASSUME NEW p \in use.procs, Start(p) \/ Fetch(p) \/ Write(p) \/ Advance(p) \/ Crash(p) \/ ClearCache(p)
      PROVE  Base'
  <2>1. p \in Procs /\ Typed /\ proc \in [Procs -> Process]
    BY NamesAreNumbers DEF Base, Typed
  <2>2. proc' \in [Procs -> Process]
    <3>1. CASE ClearCache(p)
      BY <2>1, <3>1 DEF ClearCache
    <3>2. CASE Fetch(p)
      BY <2>1, <3>2, FetchDoes, ProcessSet DEF Base
    <3>3. CASE Start(p) \/ Write(p) \/ Advance(p) \/ Crash(p)
      <4>1. \E r \in Process : proc' = [proc EXCEPT ![p] = r]
        BY <2>1, <3>3, ProcessSteps
      <4> QED BY <2>1, <4>1, ProcessSet
    <3> QED BY <1>3, <3>1, <3>2, <3>3
  <2>3. UNCHANGED <<use, chain>> /\ crashes' \in Nat
    <3>1. UNCHANGED <<use, chain>>
      BY <1>3 DEF Start, Fetch, Write, Advance, Crash, ClearCache
    <3>2. crashes' = crashes \/ crashes' = crashes + 1
      BY <1>3 DEF Start, Fetch, Write, Advance, Crash, ClearCache
    <3> QED BY <2>1, <3>1, <3>2 DEF Typed
  <2>4. /\ rows' \subseteq Row /\ coins' \subseteq [coin : Nat, spentAt : Nat] /\ config' \in BOOLEAN
        /\ DOMAIN index' \subseteq Int /\ \A k \in DOMAIN index' : index'[k] \in Value /\ index'[k].key = k
    <3>1. CASE Start(p) \/ Fetch(p) \/ Advance(p) \/ Crash(p)
      BY <2>1, <3>1 DEF Start, Fetch, Advance, Crash, Typed, db
    <3>2. CASE ClearCache(p)
      BY <2>1, <3>2 DEF ClearCache, Typed
    <3>3. CASE Write(p)
      BY <2>1, <3>3, ProcessSteps, ExecuteTyped DEF Write
    <3> QED BY <1>3, <3>1, <3>2, <3>3
  <2>5. Typed'
    BY <2>1, <2>2, <2>3, <2>4 DEF Typed
  <2> QED BY <1>2, <2>3, <2>5
<1>4. CASE UNCHANGED vars
  <2>1. Typed'
    BY <1>4 DEF Base, Typed, vars, db
  <2> QED BY <1>2, <1>4, <2>1 DEF vars
<1> QED BY <1>1, <1>3, <1>4 DEF Next

-----------------------------------------------------------------------------
\* The registry's coins.

\* Is one of these statements still in a process's queue?
Has(r, ops) == \E i \in DOMAIN r.todo : r.todo[i].op \in ops

\* The parent of the coin that the process is at has not been marked yet, and
\* the coin itself has not been saved yet.
ParentPending(r) == r.pc = "walk" \/ Has(r, {"parent"})
SavePending(r) == r.pc = "walk" \/ Has(r, {"coin", "spent"})

\* The process saved coin n, or went past it.
Past(r, n) == r.at > n \/ (r.at = n /\ ~ SavePending(r))

\* The statements about coins are about the coin that the process is at, and
\* the parent's comes first.
Queued(r) ==
    \A i \in DOMAIN r.todo :
        /\ r.todo[i].op \in CoinOps => r.pc = "write" /\ r.todo[i].n = r.at /\ r.at >= 1
        /\ r.todo[i].op = "parent" => i = 1

\* A process is at a coin of the registry.
Walking(r, n) ==
    /\ r.at <= n
    /\ r.pc = "walk" => (r.save <=> r.at >= 1)
    /\ r.pc = "write" => r.save /\ (r.spent => r.at < n)

Processes ==
    /\ \A p \in Procs : Queued(proc[p]) /\ Walking(proc[p], Len(chain))
    /\ \A p \in Procs \ use.procs : proc[p] = Idle

Saved == \A r \in coins : 1 <= r.coin /\ r.coin <= Len(chain) /\ r.spentAt \in {0, r.coin + 1}

\* A cache clear leaves the record of a coin that was spent in the last blocks.
Recent(n) == Len(chain) <= n + 1 + Keep

\* No recent coin is missing among those before a saved one or before a process.
Kept ==
    \A n \in 1 .. Len(chain) :
        Recent(n) /\ ((\E r \in coins : r.coin >= n) \/ \E p \in Procs : Past(proc[p], n))
            => \E r \in coins : r.coin = n

\* Nothing is saved after the unspent coin, and no process is past it that has
\* not yet to mark it as spent.
Above ==
    \A t \in coins : t.spentAt = 0 =>
        /\ \A r \in coins : r.coin <= t.coin
        /\ \A p \in Procs : \/ proc[p].at <= t.coin
                            \/ proc[p].at = t.coin + 1 /\ ParentPending(proc[p])

\* A process that is alone saves the last coin.
Alone ==
    \A p \in Procs : use.procs \subseteq {p} /\ Has(proc[p], {"coin"}) => \A r \in coins : r.coin <= proc[p].at

CoinInv == Processes /\ Saved /\ Kept /\ Above /\ Alone

\* No process is so slow that the coin it is about to save as unspent has been
\* spent for longer than a cache clear keeps, unless nobody else could have
\* cleared the cache.
InTime ==
    \A p \in Procs : Has(proc[p], {"coin"}) => use.procs \subseteq {p} \/ Recent(proc[p].at)

\* The invariant is about processes, coins and the length of the chain only.
LEMMA SameCoins ==
    ASSUME Base, Base', CoinInv, UNCHANGED <<use, chain, coins>>, NEW p \in use.procs,
           \A q \in Procs : q # p => proc'[q] = proc[q],
           Queued(proc'[p]), Walking(proc'[p], Len(chain)),
           \A n \in 1 .. Len(chain) : Past(proc'[p], n) => Past(proc[p], n) \/ \E r \in coins : r.coin >= n,
           \A t \in coins : t.spentAt = 0 =>
               proc'[p].at <= t.coin \/ (proc'[p].at = t.coin + 1 /\ ParentPending(proc'[p])),
           use.procs \subseteq {p} /\ Has(proc'[p], {"coin"}) => \A r \in coins : r.coin <= proc'[p].at
    PROVE  CoinInv'
<1>0. p \in Procs /\ use' = use /\ chain' = chain /\ coins' = coins /\ Len(chain') = Len(chain)
  BY NamesAreNumbers DEF Base
<1>1. Processes'
  BY <1>0 DEF CoinInv, Processes
<1>2. Saved' /\ Above'
  BY <1>0 DEF CoinInv, Saved, Above
<1>3. Kept'
  <2> SUFFICES ASSUME NEW n \in 1 .. Len(chain), Len(chain) <= n + 1 + Keep,
                      (\E r \in coins : r.coin >= n) \/ \E q \in Procs : Past(proc'[q], n)
               PROVE  \E r \in coins : r.coin = n
    BY <1>0 DEF Kept, Recent
  <2>1. (\E r \in coins : r.coin >= n) \/ \E q \in Procs : Past(proc[q], n)
    BY <1>0
  <2> QED BY <2>1 DEF CoinInv, Kept, Recent
<1>4. Alone'
  BY <1>0 DEF CoinInv, Alone
<1> QED BY <1>1, <1>2, <1>3, <1>4 DEF CoinInv

\* The rest of a queue.
LEMMA RestOf ==
    ASSUME NEW X, NEW q \in Seq(X), q # <<>>
    PROVE  /\ 1 \in DOMAIN q /\ Head(q) = q[1] /\ Tail(q) \in Seq(X)
           /\ \A j \in DOMAIN Tail(q) : j \in Nat /\ j + 1 \in DOMAIN q /\ Tail(q)[j] = q[j + 1]
           /\ \A i \in DOMAIN q : i # 1 => i - 1 \in DOMAIN Tail(q) /\ Tail(q)[i - 1] = q[i]
<1>1. Len(q) \in Nat /\ Len(q) # 0 /\ Len(Tail(q)) = Len(q) - 1 /\ Tail(q) \in Seq(X) /\ Head(q) = q[1]
  OBVIOUS
<1>2. DOMAIN q = 1 .. Len(q) /\ DOMAIN Tail(q) = 1 .. Len(q) - 1
  BY <1>1
<1>3. \A j \in 1 .. Len(q) - 1 : Tail(q)[j] = q[j + 1]
  BY <1>1
<1> QED BY <1>1, <1>2, <1>3

\* What a process still has to do after it executed a statement.
LEMMA RestOfQueue ==
    ASSUME NEW r \in Process, r.todo # <<>>, Queued(r)
    PROVE  LET t == [r EXCEPT !.todo = Tail(@)]
               op == Head(r.todo).op
           IN  /\ t \in Process /\ t.at = r.at /\ t.pc = r.pc /\ t.save = r.save /\ t.spent = r.spent
               /\ t.todo = Tail(r.todo)
               /\ Queued(t)
               /\ Has(t, {"coin"}) => Has(r, {"coin"})
               /\ op \notin {"coin", "spent"} => (SavePending(r) => SavePending(t))
               /\ op # "parent" => (ParentPending(r) => ParentPending(t))
               /\ op \in {"coin", "spent"} => ~ ParentPending(r)
               /\ op \in CoinOps => Head(r.todo).n = r.at /\ r.at >= 1 /\ r.pc = "write"
               /\ op = "coin" => Has(r, {"coin"})
<1> DEFINE t == [r EXCEPT !.todo = Tail(@)]
           op == Head(r.todo).op
<1>1. r.todo \in Seq(Statement)
  BY DEF Process
<1>2. /\ 1 \in DOMAIN r.todo /\ Head(r.todo) = r.todo[1] /\ Tail(r.todo) \in Seq(Statement)
      /\ \A j \in DOMAIN Tail(r.todo) : j \in Nat /\ j + 1 \in DOMAIN r.todo /\ Tail(r.todo)[j] = r.todo[j + 1]
      /\ \A i \in DOMAIN r.todo : i # 1 => i - 1 \in DOMAIN Tail(r.todo) /\ Tail(r.todo)[i - 1] = r.todo[i]
  BY <1>1, RestOf
<1>3. /\ t \in Process /\ t.at = r.at /\ t.pc = r.pc /\ t.save = r.save /\ t.spent = r.spent
      /\ t.todo = Tail(r.todo)
  BY <1>2 DEF Process
<1> HIDE DEF t
<1>4. Queued(t)
  <2>1. \A j \in DOMAIN Tail(r.todo) : j + 1 # 1
    BY <1>2
  <2> QED BY <1>2, <1>3, <2>1 DEF Queued
<1>5. Has(t, {"coin"}) => Has(r, {"coin"})
  BY <1>2, <1>3 DEF Has
<1>6. op \notin {"coin", "spent"} => (SavePending(r) => SavePending(t))
  BY <1>2, <1>3 DEF SavePending, Has
<1>7. op # "parent" => (ParentPending(r) => ParentPending(t))
  BY <1>2, <1>3 DEF ParentPending, Has, Queued
<1>8. op \in {"coin", "spent"} => ~ ParentPending(r)
  BY <1>2 DEF ParentPending, Has, Queued, CoinOps
<1>9. /\ op \in CoinOps => Head(r.todo).n = r.at /\ r.at >= 1 /\ r.pc = "write"
      /\ op = "coin" => Has(r, {"coin"})
  BY <1>2 DEF Has, Queued
<1> QED BY <1>3, <1>4, <1>5, <1>6, <1>7, <1>8, <1>9 DEF t

\* A queue without statements about coins.
LEMMA NoCoinOps ==
    ASSUME NEW r \in Process, \A w \in Elements(r.todo) : w.op \notin CoinOps
    PROVE  Queued(r) /\ \A ops \in SUBSET CoinOps : ~ Has(r, ops)
<1>1. \A i \in DOMAIN r.todo : r.todo[i].op \notin CoinOps
  BY DEF Elements
<1> QED BY <1>1 DEF Queued, Has, CoinOps

\* At first there is nothing.
LEMMA CoinInit ==
    ASSUME Init
    PROVE  CoinInv
<1>1. coins = {} /\ chain = <<>> /\ Len(chain) = 0 /\ \A p \in Procs : proc[p] = Idle
  BY DEF Init
<1>2. Idle.at = 0 /\ Idle.pc = "idle" /\ Idle.todo = <<>> /\ DOMAIN <<>> = {}
  BY DEF Idle
<1>3. Processes
  BY <1>1, <1>2 DEF Processes, Queued, Walking
<1>4. Saved /\ Kept /\ Above /\ Alone
  BY <1>1 DEF Saved, Kept, Above, Alone
<1> QED BY <1>3, <1>4 DEF CoinInv

\* A longer chain.
LEMMA CoinGrow ==
    ASSUME Base, Base', CoinInv, Grow
    PROVE  CoinInv'
<1>1. UNCHANGED <<use, coins, proc>> /\ Len(chain) \in Nat /\ Len(chain') = Len(chain) + 1
  BY DEF Grow, db, Base, Typed
<1>0. \A p \in Procs : proc[p] \in Process /\ proc[p].at \in Nat
  BY DEF Base, Typed, Process
<1>2. Processes'
  BY <1>0, <1>1 DEF CoinInv, Processes, Walking
<1>4. \A r \in coins : r.coin \in Nat
  BY DEF Base, Typed
<1>3. Saved' /\ Above' /\ Alone'
  BY <1>1, <1>4 DEF CoinInv, Saved, Above, Alone
<1>5. Kept'
  <2> SUFFICES ASSUME NEW n \in 1 .. Len(chain) + 1, Len(chain) + 1 <= n + 1 + Keep,
                      (\E r \in coins : r.coin >= n) \/ \E q \in Procs : Past(proc[q], n)
               PROVE  \E r \in coins : r.coin = n
    BY <1>1 DEF Kept, Recent
  <2>1. n \in 1 .. Len(chain)
    <3>1. n <= Len(chain)
      BY <1>0, <1>1, <1>4 DEF CoinInv, Saved, Processes, Walking, Past
    <3> QED BY <1>1, <3>1
  <2>2. Len(chain) <= n + 1 + Keep
    BY <1>1, NamesAreNumbers DEF Base
  <2> QED BY <2>1, <2>2 DEF CoinInv, Kept, Recent
<1> QED BY <1>2, <1>3, <1>5 DEF CoinInv

\* A cache clear.
LEMMA CoinClear ==
    ASSUME Base, Base', CoinInv, NEW p \in use.procs, ClearCache(p)
    PROVE  CoinInv'
<1>1. /\ UNCHANGED <<use, chain, proc>> /\ coins' \subseteq coins
      /\ \A r \in coins : ~ (r.spentAt > 0 /\ r.spentAt < Len(chain) - Keep) => r \in coins'
  BY DEF ClearCache
<1>2. Processes' /\ Saved' /\ Above' /\ Alone'
  BY <1>1 DEF CoinInv, Processes, Saved, Above, Alone
<1>3. Kept'
  <2> SUFFICES ASSUME NEW n \in 1 .. Len(chain), Len(chain) <= n + 1 + Keep,
                      (\E r \in coins : r.coin >= n) \/ \E q \in Procs : Past(proc[q], n)
               PROVE  \E r \in coins' : r.coin = n
    BY <1>1 DEF Kept, Recent
  <2>1. PICK r \in coins : r.coin = n
    BY DEF CoinInv, Kept, Recent
  <2>2. ~ (r.spentAt > 0 /\ r.spentAt < Len(chain) - Keep)
    <3>1. r.spentAt \in {0, n + 1} /\ Len(chain) \in Nat /\ Keep \in Nat /\ n \in Nat
      BY <2>1, NamesAreNumbers DEF CoinInv, Saved, Base, Typed
    <3> QED BY <3>1
  <2> QED BY <1>1, <2>1, <2>2
<1> QED BY <1>2, <1>3 DEF CoinInv

\* A process begins a walk, from the saved tip or from the launcher.
LEMMA CoinStart ==
    ASSUME Base, Base', CoinInv, NEW p \in use.procs, Start(p)
    PROVE  CoinInv'
<1>0. p \in Procs /\ proc \in [Procs -> Process] /\ proc' \in [Procs -> Process] /\ Len(chain) \in Nat
      /\ coins \subseteq [coin : Nat, spentAt : Nat] /\ Typed
  BY NamesAreNumbers DEF Base, Typed
<1>1. UNCHANGED <<use, chain, coins>> /\ \A q \in Procs : q # p => proc'[q] = proc[q]
  BY <1>0 DEF Start, db
<1> DEFINE new == proc'[p]
<1>2. /\ new.pc = "walk" /\ ~ new.spent
      /\ \/ new.save /\ new.at \in Tips /\ new.todo = ConfigWrites
         \/ ~ new.save /\ new.at = 0 /\ new.todo = ColdWrites \o ConfigWrites
  BY <1>0 DEF Start
<1>3. \A w \in Elements(new.todo) : w.op \notin CoinOps
  <2>1. \A w \in Elements(ConfigWrites) \cup Elements(ColdWrites) : w.op \notin CoinOps
    BY <1>0, ColdWritesAre DEF W, CoinOps
  <2> QED BY <1>0, <1>2, <2>1, ColdWritesAre
<1>4. new \in Process
  BY <1>0
<1>5. Queued(new) /\ ~ Has(new, {"coin"}) /\ new.at \in Nat
  <2>1. {"coin"} \in SUBSET CoinOps
    BY DEF CoinOps
  <2> HIDE DEF new
  <2> QED BY <1>3, <1>4, <2>1, NoCoinOps DEF Process
<1>6. new.save => \E t \in coins : t.coin = new.at /\ t.spentAt = 0
  BY <1>0, <1>2 DEF Tips
<1> HIDE DEF new
<1>7. Walking(new, Len(chain))
  BY <1>0, <1>2, <1>6 DEF Walking, CoinInv, Saved
<1>8. \A n \in 1 .. Len(chain) : Past(new, n) => \E r \in coins : r.coin >= n
  <2> SUFFICES ASSUME NEW n \in 1 .. Len(chain), Past(new, n) PROVE \E r \in coins : r.coin >= n
    OBVIOUS
  <2>1. new.at > n
    BY <1>2 DEF Past, SavePending
  <2>2. new.at # 0
    BY <2>1
  <2>3. PICK t \in coins : t.coin = new.at
    BY <1>2, <1>6, <2>2
  <2>4. t.coin >= n
    BY <1>5, <2>1, <2>3
  <2> QED BY <2>4
<1>9. \A t \in coins : t.spentAt = 0 => new.at <= t.coin
  <2> SUFFICES ASSUME NEW t \in coins, t.spentAt = 0 PROVE new.at <= t.coin
    OBVIOUS
  <2>1. \A r \in coins : r.coin <= t.coin
    BY DEF CoinInv, Above
  <2>2. CASE new.save
    BY <1>6, <2>1, <2>2
  <2>3. CASE ~ new.save
    BY <1>0, <1>2, <2>3
  <2> QED BY <2>2, <2>3
<1> QED BY <1>1, <1>5, <1>7, <1>8, <1>9, SameCoins DEF new

\* What Fetch queues about coins.
LEMMA FetchQueue ==
    ASSUME Typed, History(chain), NEW p \in Procs, Fetch(p), Walking(proc[p], Len(chain))
    PROVE  /\ Queued(proc'[p])
           /\ proc[p].at >= 1 => Has(proc'[p], {"parent"}) /\ Has(proc'[p], {"coin", "spent"})
           /\ Has(proc'[p], {"coin"}) => ~ (proc[p].at < Len(chain))
<1> DEFINE new == proc'[p]
           c == proc[p].at
           a == W("parent", EndSlot(Lo), c)
           b == W(IF c < Len(chain) THEN "spent" ELSE "coin", EndSlot(Lo), c)
<1>0. /\ proc[p] \in Process /\ c \in Nat /\ c \in Int /\ proc[p].pc = "walk" /\ Len(chain) \in Nat
      /\ EndSlot(Lo) \in Value
  BY NamesAreNumbers DEF Typed, Process, Fetch, EndSlot, Value
<1>1. proc[p].save <=> c >= 1
  BY <1>0 DEF Walking
<1>2. /\ new.pc = "write" /\ new.at = c /\ new.todo = Saving(p) \o Spending(p)
      /\ Saving(p) \in Seq(Statement) /\ Spending(p) \in Seq(Statement) /\ new \in Process
      /\ \A w \in Elements(Spending(p)) : w.op \notin CoinOps
  <2> DEFINE r == [pc |-> "write", at |-> proc[p].at, save |-> TRUE, spent |-> proc[p].at < Len(chain),
                   todo |-> Saving(p) \o Spending(p)]
  <2>1. /\ proc' = [proc EXCEPT ![p] = r] /\ r \in Process
        /\ Saving(p) \in Seq(Statement) /\ Spending(p) \in Seq(Statement)
        /\ \A w \in Elements(Spending(p)) : w.op \notin CoinOps
    BY FetchDoes
  <2>2. r.pc = "write" /\ r.at = c /\ r.todo = Saving(p) \o Spending(p)
    OBVIOUS
  <2> HIDE DEF r
  <2>3. new = r
    BY <2>1 DEF Typed
  <2> QED BY <2>1, <2>2, <2>3
<1>3. a \in Statement /\ b \in Statement /\ a.op = "parent" /\ a.n = c /\ b.n = c
      /\ b.op = (IF c < Len(chain) THEN "spent" ELSE "coin")
  BY <1>0, StatementsAre
<1>4. Saving(p) = IF proc[p].save THEN <<a, b>> ELSE <<>>
  BY DEF Saving
<1> HIDE DEF a, b, new, c
<1>5. CASE proc[p].save
  <2>1. Saving(p) = <<a, b>> /\ Len(Saving(p)) = 2 /\ Saving(p)[1] = a /\ Saving(p)[2] = b
    BY <1>4, <1>5
  <2>2. /\ new.todo[1] = a /\ new.todo[2] = b /\ 1 \in DOMAIN new.todo /\ 2 \in DOMAIN new.todo
        /\ \A i \in DOMAIN new.todo : i = 1 \/ i = 2 \/ new.todo[i] \in Elements(Spending(p))
    <3>1. /\ Len(new.todo) = 2 + Len(Spending(p)) /\ DOMAIN new.todo = 1 .. Len(new.todo)
          /\ \A i \in 1 .. 2 : new.todo[i] = Saving(p)[i]
          /\ \A i \in 1 .. Len(Spending(p)) : new.todo[2 + i] = Spending(p)[i]
          /\ Len(Spending(p)) \in Nat /\ DOMAIN Spending(p) = 1 .. Len(Spending(p))
      BY <1>2, <2>1
    <3>2. \A i \in DOMAIN new.todo : i \notin {1, 2} => i - 2 \in 1 .. Len(Spending(p)) /\ 2 + (i - 2) = i
      BY <3>1
    <3> QED BY <2>1, <3>1, <3>2 DEF Elements
  <2>3. Queued(new)
    BY <1>0, <1>1, <1>2, <1>3, <1>5, <2>2 DEF Queued, CoinOps
  <2>4. Has(new, {"parent"}) /\ Has(new, {"coin", "spent"})
    BY <1>3, <2>2 DEF Has
  <2>5. Has(new, {"coin"}) => ~ (c < Len(chain))
    BY <1>2, <1>3, <2>2 DEF Has, CoinOps
  <2> QED BY <2>3, <2>4, <2>5 DEF new, c
<1>6. CASE ~ proc[p].save
  <2>1. new.todo = Spending(p)
    BY <1>2, <1>4, <1>6
  <2>2. {"coin"} \in SUBSET CoinOps
    BY DEF CoinOps
  <2>3. Queued(new) /\ ~ Has(new, {"coin"})
    BY <1>2, <2>1, <2>2, NoCoinOps
  <2> QED BY <1>1, <1>6, <2>3 DEF new, c
<1> QED BY <1>5, <1>6

\* A process looks at the next coin.
LEMMA CoinFetch ==
    ASSUME Base, Base', CoinInv, NEW p \in use.procs, Fetch(p)
    PROVE  CoinInv'
<1>0. p \in Procs /\ proc \in [Procs -> Process] /\ Len(chain) \in Nat /\ Typed
      /\ coins \subseteq [coin : Nat, spentAt : Nat]
  BY NamesAreNumbers DEF Base, Typed
<1>1. UNCHANGED <<use, chain, coins>> /\ \A q \in Procs : q # p => proc'[q] = proc[q]
  BY <1>0 DEF Fetch, db
<1> DEFINE old == proc[p]
           new == proc'[p]
<1>2. /\ old.pc = "walk" /\ old \in Process /\ old.at \in Nat
      /\ new.pc = "write" /\ new.at = old.at /\ new.save
      /\ (new.spent <=> old.at < Len(chain))
  BY <1>0, FetchDoes, ProcessSet DEF Fetch, Process, Base
<1>3. Walking(old, Len(chain))
  BY <1>0 DEF CoinInv, Processes
<1>4. /\ Queued(new)
      /\ old.at >= 1 => Has(new, {"parent"}) /\ Has(new, {"coin", "spent"})
      /\ Has(new, {"coin"}) => ~ (old.at < Len(chain))
  BY <1>0, <1>3, FetchQueue DEF Base
<1> HIDE DEF old, new
<1>5. Walking(new, Len(chain))
  BY <1>2, <1>3 DEF Walking
<1>6. \A n \in 1 .. Len(chain) : Past(new, n) => Past(old, n)
  BY <1>0, <1>2, <1>4 DEF Past, SavePending
<1>7. \A t \in coins : t.spentAt = 0 =>
          new.at <= t.coin \/ (new.at = t.coin + 1 /\ ParentPending(new))
  <2> SUFFICES ASSUME NEW t \in coins, t.spentAt = 0
               PROVE  new.at <= t.coin \/ (new.at = t.coin + 1 /\ ParentPending(new))
    OBVIOUS
  <2>1. old.at <= t.coin \/ old.at = t.coin + 1
    BY <1>0 DEF CoinInv, Above, old
  <2>2. t.coin \in Nat
    BY <1>0
  <2> QED BY <1>2, <1>4, <2>1, <2>2 DEF ParentPending
<1>8. Has(new, {"coin"}) => \A r \in coins : r.coin <= new.at
  <2> SUFFICES ASSUME Has(new, {"coin"}), NEW r \in coins PROVE r.coin <= new.at
    OBVIOUS
  <2>1. r.coin <= Len(chain) /\ r.coin \in Nat
    BY <1>0 DEF CoinInv, Saved
  <2> QED BY <1>0, <1>2, <1>4, <2>1
<1> QED BY <1>1, <1>5, <1>4, <1>6, <1>7, <1>8, SameCoins DEF new, old

\* A process goes on to the next coin, or comes to its end.
LEMMA CoinAdvance ==
    ASSUME Base, Base', CoinInv, NEW p \in use.procs, Advance(p)
    PROVE  CoinInv'
<1>0. p \in Procs /\ proc \in [Procs -> Process] /\ Len(chain) \in Nat /\ Typed
      /\ coins \subseteq [coin : Nat, spentAt : Nat]
  BY NamesAreNumbers DEF Base, Typed
<1>1. UNCHANGED <<use, chain, coins>> /\ \A q \in Procs : q # p => proc'[q] = proc[q]
  BY <1>0 DEF Advance, db
<1> DEFINE old == proc[p]
           new == proc'[p]
<1>2. /\ old.pc = "write" /\ old.todo = <<>> /\ old \in Process /\ old.at \in Nat
      /\ new = IF old.spent THEN [old EXCEPT !.pc = "walk", !.at = @ + 1] ELSE [old EXCEPT !.pc = "done"]
  <2>1. new = IF proc[p].spent THEN [proc[p] EXCEPT !.pc = "walk", !.at = proc[p].at + 1]
              ELSE [proc[p] EXCEPT !.pc = "done"]
    <3> DEFINE r == IF proc[p].spent THEN [proc[p] EXCEPT !.pc = "walk", !.at = proc[p].at + 1]
                    ELSE [proc[p] EXCEPT !.pc = "done"]
    <3>1. proc' = [proc EXCEPT ![p] = r] /\ r \in Process
      BY <1>0, ProcessSteps
    <3> HIDE DEF r
    <3>2. new = r
      BY <1>0, <3>1
    <3> QED BY <3>2 DEF r
  <2> QED BY <1>0, <2>1 DEF Advance, Process
<1>3. Walking(old, Len(chain))
  BY <1>0 DEF CoinInv, Processes
<1> HIDE DEF old, new
<1>4. ~ ParentPending(old) /\ ~ SavePending(old) /\ DOMAIN old.todo = {}
  BY <1>2 DEF ParentPending, SavePending, Has
<1>5. /\ new.todo = <<>> /\ DOMAIN new.todo = {}
      /\ \/ new.pc = "walk" /\ new.at = old.at + 1 /\ old.spent /\ new.save = old.save /\ ~ (new.pc = "write")
         \/ new.pc = "done" /\ new.at = old.at
  BY <1>2 DEF Process
<1>6. Queued(new) /\ ~ Has(new, {"coin"})
  BY <1>5 DEF Queued, Has
<1>7. \A n \in 1 .. Len(chain) : Past(new, n) => Past(old, n)
  BY <1>0, <1>2, <1>4, <1>5 DEF Past, SavePending
<1>8. \A t \in coins : t.spentAt = 0 =>
          new.at <= t.coin \/ (new.at = t.coin + 1 /\ ParentPending(new))
  <2> SUFFICES ASSUME NEW t \in coins, t.spentAt = 0
               PROVE  new.at <= t.coin \/ (new.at = t.coin + 1 /\ ParentPending(new))
    OBVIOUS
  <2>1. old.at <= t.coin /\ t.coin \in Nat
    BY <1>0, <1>4 DEF CoinInv, Above, old
  <2> QED BY <1>2, <1>5, <2>1 DEF ParentPending
<1>9. Walking(new, Len(chain))
  BY <1>0, <1>2, <1>3, <1>5 DEF Walking
<1> QED BY <1>1, <1>6, <1>7, <1>8, <1>9, SameCoins DEF new, old

\* A process stops in the middle of a walk.
LEMMA CoinCrash ==
    ASSUME Base, Base', CoinInv, NEW p \in use.procs, Crash(p)
    PROVE  CoinInv'
<1>0. p \in Procs /\ proc \in [Procs -> Process] /\ Len(chain) \in Nat /\ Typed
      /\ coins \subseteq [coin : Nat, spentAt : Nat]
  BY NamesAreNumbers DEF Base, Typed
<1>1. UNCHANGED <<use, chain, coins>> /\ \A q \in Procs : q # p => proc'[q] = proc[q]
  BY <1>0 DEF Crash, db
<1> DEFINE new == proc'[p]
<1>2. new.pc = "crashed" /\ new.at = 0 /\ new.todo = <<>> /\ DOMAIN new.todo = {}
  <2>1. new = [Idle EXCEPT !.pc = "crashed"]
    BY <1>0, ProcessSteps, ProcessSet
  <2> QED BY <2>1 DEF Idle
<1> HIDE DEF new
<1>3. Queued(new) /\ ~ Has(new, {"coin"}) /\ Walking(new, Len(chain))
  BY <1>0, <1>2 DEF Queued, Has, Walking
<1>4. \A n \in 1 .. Len(chain) : ~ Past(new, n)
  BY <1>2 DEF Past
<1>5. \A t \in coins : new.at <= t.coin
  BY <1>0, <1>2
<1> QED BY <1>1, <1>3, <1>4, <1>5, SameCoins DEF new

\* What the statements do to the coins.
LEMMA CoinStatements ==
    ASSUME NEW w, Execute(w)
    PROVE  /\ w.op \notin CoinOps => coins' = coins
           /\ w.op = "parent" => MarkParentSpent(w.n)
           /\ w.op = "coin" => InsertCoin(w.n, 0)
           /\ w.op = "spent" => InsertCoin(w.n, w.n + 1)
BY DEF Execute, CoinOps, SaveSlot, SaveIndexed, MarkIndexedAsSpent, MarkSlotAsSpent, SaveConfig, db

\* A step of a walk's queue: the process, the one statement, the coins.
LEMMA CoinWriteDoes ==
    ASSUME Base, Base', CoinInv, NEW p \in use.procs, Write(p)
    PROVE  /\ p \in Procs /\ Typed /\ Typed' /\ Len(chain) \in Nat /\ proc[p].at \in Nat
           /\ coins \subseteq [coin : Nat, spentAt : Nat]
           /\ UNCHANGED <<use, chain>> /\ \A q \in Procs : q # p => proc'[q] = proc[q]
           /\ proc'[p].at = proc[p].at /\ Queued(proc'[p]) /\ Walking(proc'[p], Len(chain))
           /\ Has(proc'[p], {"coin"}) => Has(proc[p], {"coin"})
           /\ Head(proc[p].todo).op \notin {"coin", "spent"} => (SavePending(proc[p]) => SavePending(proc'[p]))
           /\ Head(proc[p].todo).op # "parent" => (ParentPending(proc[p]) => ParentPending(proc'[p]))
           /\ Head(proc[p].todo).op \in {"coin", "spent"} => ~ ParentPending(proc[p])
           /\ Head(proc[p].todo).op \in CoinOps => Head(proc[p].todo).n = proc[p].at /\ proc[p].at >= 1
           /\ Head(proc[p].todo).op = "coin" => Has(proc[p], {"coin"})
           /\ Execute(Head(proc[p].todo))
<1>0. /\ p \in Procs /\ proc \in [Procs -> Process] /\ Len(chain) \in Nat /\ Typed /\ Typed'
      /\ coins \subseteq [coin : Nat, spentAt : Nat]
  BY NamesAreNumbers DEF Base, Typed
<1> DEFINE old == proc[p]
           t == [old EXCEPT !.todo = Tail(@)]
<1>1. old \in Process /\ old.at \in Nat /\ old.todo # <<>> /\ Execute(Head(old.todo))
  BY <1>0 DEF Write, Process
<1>2. Queued(old) /\ Walking(old, Len(chain))
  BY <1>0 DEF CoinInv, Processes
<1>3. UNCHANGED <<use, chain>> /\ proc' = [proc EXCEPT ![p] = t] /\ t \in Process
  <2>1. proc' = [proc EXCEPT ![p] = t] /\ t \in Process
    BY <1>0, ProcessSteps
  <2> QED BY <2>1 DEF Write
<1>4. /\ t.at = old.at /\ t.pc = old.pc /\ t.save = old.save /\ t.spent = old.spent /\ Queued(t)
      /\ Has(t, {"coin"}) => Has(old, {"coin"})
      /\ Head(old.todo).op \notin {"coin", "spent"} => (SavePending(old) => SavePending(t))
      /\ Head(old.todo).op # "parent" => (ParentPending(old) => ParentPending(t))
      /\ Head(old.todo).op \in {"coin", "spent"} => ~ ParentPending(old)
      /\ Head(old.todo).op \in CoinOps => Head(old.todo).n = old.at /\ old.at >= 1
      /\ Head(old.todo).op = "coin" => Has(old, {"coin"})
  <2> HIDE DEF old
  <2> QED BY <1>1, <1>2, RestOfQueue
<1> HIDE DEF t
<1>5. proc'[p] = t /\ \A q \in Procs : q # p => proc'[q] = proc[q]
  BY <1>0, <1>3, ProcessSet
<1>6. Walking(t, Len(chain))
  BY <1>2, <1>4 DEF Walking
<1> QED BY <1>0, <1>1, <1>3, <1>4, <1>5, <1>6

\* A new row for the coin that a process is at: as spent, or, in time, as unspent.
LEMMA CoinInsert ==
    ASSUME Base, Base', CoinInv, InTime, NEW p \in use.procs, Write(p),
           NEW c \in Nat, c = proc[p].at, c >= 1, NEW h \in {0, c + 1},
           coins' = coins \cup {[coin |-> c, spentAt |-> h]}, \A r \in coins : r.coin # c,
           ~ ParentPending(proc[p]), h = 0 => Has(proc[p], {"coin"})
    PROVE  CoinInv'
<1>0. /\ p \in Procs /\ Len(chain) \in Nat /\ coins \subseteq [coin : Nat, spentAt : Nat]
      /\ UNCHANGED <<use, chain>> /\ \A q \in Procs : q # p => proc'[q] = proc[q]
      /\ proc'[p].at = c /\ Queued(proc'[p]) /\ Walking(proc'[p], Len(chain))
      /\ Has(proc'[p], {"coin"}) => Has(proc[p], {"coin"})
  BY CoinWriteDoes
<1> DEFINE new == [coin |-> c, spentAt |-> h]
<1>1. new.coin = c /\ new.spentAt = h /\ coins' = coins \cup {new}
  OBVIOUS
<1> HIDE DEF new
<1>2. \A q \in Procs : proc[q].at \in Nat
  BY DEF Base, Typed, Process
<1>3. c <= Len(chain)
  BY <1>0 DEF CoinInv, Processes, Walking
<1>4. Processes'
  BY <1>0 DEF CoinInv, Processes
<1>5. Saved'
  BY <1>0, <1>1, <1>3 DEF CoinInv, Saved
<1>6. Kept'
  <2> SUFFICES ASSUME NEW n \in 1 .. Len(chain), Len(chain) <= n + 1 + Keep,
                      (\E r \in coins' : r.coin >= n) \/ \E q \in Procs : Past(proc'[q], n)
               PROVE  \E r \in coins' : r.coin = n
    BY <1>0 DEF Kept, Recent
  <2>1. CASE n = c
    BY <1>1, <2>1
  <2>2. CASE n # c
    <3>1. (\E r \in coins : r.coin >= n) \/ \E q \in Procs : Past(proc[q], n)
      <4>1. CASE c > n
        BY <1>0, <4>1 DEF Past
      <4>2. CASE ~ (c > n)
        <5>1. ~ Past(proc'[p], n) /\ ~ (c >= n)
          BY <1>0, <2>2, <4>2 DEF Past
        <5> QED BY <1>0, <1>1, <5>1
      <4> QED BY <4>1, <4>2
    <3>2. \E r \in coins : r.coin = n
      BY <3>1 DEF CoinInv, Kept, Recent
    <3> QED BY <1>1, <3>2
  <2> QED BY <2>1, <2>2
<1>7. \A t \in coins : t.spentAt = 0 => c <= t.coin /\ t.coin # c
  BY <1>0 DEF CoinInv, Above
<1>8. Above'
  <2>1. CASE h # 0
    <3> SUFFICES ASSUME NEW t \in coins, t.spentAt = 0
                 PROVE  /\ \A r \in coins \cup {new} : r.coin <= t.coin
                        /\ \A q \in Procs : \/ proc'[q].at <= t.coin
                                            \/ proc'[q].at = t.coin + 1 /\ ParentPending(proc'[q])
      BY <1>1, <2>1 DEF Above
    <3>1. c <= t.coin
      BY <1>7
    <3>2. /\ \A r \in coins : r.coin <= t.coin
          /\ \A q \in Procs : \/ proc[q].at <= t.coin
                              \/ proc[q].at = t.coin + 1 /\ ParentPending(proc[q])
      BY DEF CoinInv, Above
    <3>3. \A r \in coins \cup {new} : r.coin <= t.coin
      BY <1>1, <3>1, <3>2
    <3> QED BY <1>0, <3>1, <3>2, <3>3
  <2>2. CASE h = 0
    <3>1. Has(proc[p], {"coin"})
      BY <2>2
    <3>2. use.procs \subseteq {p} \/ Recent(c)
      BY <1>0, <3>1 DEF InTime
    <3>3. /\ \A r \in coins : r.coin <= c
          /\ \A q \in Procs : proc[q].at <= c
      <4>1. CASE use.procs \subseteq {p}
        <5>1. \A r \in coins : r.coin <= c
          BY <1>0, <3>1, <4>1 DEF CoinInv, Alone
        <5>2. \A q \in Procs : q # p => proc[q] = Idle
          BY <4>1 DEF CoinInv, Processes
        <5>3. Idle.at = 0
          BY DEF Idle
        <5> QED BY <5>1, <5>2, <5>3
      <4>2. CASE Recent(c)
        <5>1. ~ ((\E r \in coins : r.coin >= c) \/ \E q \in Procs : Past(proc[q], c))
          BY <1>3, <4>2 DEF CoinInv, Kept
        <5>2. \A r \in coins : ~ (r.coin >= c)
          BY <5>1
        <5>3. \A q \in Procs : ~ (proc[q].at > c)
          BY <5>1 DEF Past
        <5> QED BY <1>0, <1>2, <5>2, <5>3
      <4> QED BY <3>2, <4>1, <4>2
    <3>4. \A t \in coins : t.spentAt # 0
      <4> SUFFICES ASSUME NEW t \in coins, t.spentAt = 0 PROVE FALSE
        OBVIOUS
      <4>1. t.coin <= c /\ c <= t.coin /\ t.coin # c /\ t.coin \in Nat
        BY <1>0, <1>7, <3>3
      <4> QED BY <4>1
    <3>5. \A q \in Procs : proc'[q].at <= c
      BY <1>0, <3>3
    <3>6. \A r \in coins' : r.coin <= c
      BY <1>1, <3>3
    <3> QED BY <1>1, <3>4, <3>5, <3>6 DEF Above
  <2> QED BY <2>1, <2>2
<1>9. Alone'
  <2> SUFFICES ASSUME NEW q \in Procs, use.procs \subseteq {q}, Has(proc'[q], {"coin"}), NEW r \in coins'
               PROVE  r.coin <= proc'[q].at
    BY <1>0 DEF Alone
  <2>1. q = p
    OBVIOUS
  <2>2. \A x \in coins : x.coin <= c
    BY <1>0, <2>1 DEF CoinInv, Alone
  <2> QED BY <1>0, <1>1, <2>1, <2>2
<1> QED BY <1>4, <1>5, <1>6, <1>8, <1>9 DEF CoinInv

\* The parent of the coin that a process is at is marked.
LEMMA CoinParent ==
    ASSUME Base, Base', CoinInv, NEW p \in use.procs, Write(p), Head(proc[p].todo).op = "parent"
    PROVE  CoinInv'
<1> DEFINE c == proc[p].at
           Marked(r) == IF r.coin = c - 1 /\ r.spentAt = 0 THEN [r EXCEPT !.spentAt = c] ELSE r
<1>0. /\ p \in Procs /\ Len(chain) \in Nat /\ c \in Nat /\ c >= 1 /\ coins \subseteq [coin : Nat, spentAt : Nat]
      /\ UNCHANGED <<use, chain>> /\ \A q \in Procs : q # p => proc'[q] = proc[q]
      /\ proc'[p].at = c /\ Queued(proc'[p]) /\ Walking(proc'[p], Len(chain))
      /\ Has(proc'[p], {"coin"}) => Has(proc[p], {"coin"})
      /\ SavePending(proc[p]) => SavePending(proc'[p])
  BY CoinWriteDoes DEF CoinOps
<1>1. coins' = {Marked(r) : r \in coins}
  <2>1. MarkParentSpent(c)
    BY CoinWriteDoes, CoinStatements DEF CoinOps
  <2> QED BY <2>1 DEF MarkParentSpent
<1>2. \A r \in coins : /\ Marked(r).coin = r.coin
                       /\ Marked(r).spentAt \in {r.spentAt, r.coin + 1}
                       /\ Marked(r).spentAt = 0 => r.spentAt = 0 /\ r.coin # c - 1
  BY <1>0
<1> HIDE DEF c, Marked
<1>3. Processes'
  BY <1>0 DEF CoinInv, Processes
<1>4. Saved'
  BY <1>0, <1>1, <1>2 DEF CoinInv, Saved
<1>5. Kept'
  <2> SUFFICES ASSUME NEW n \in 1 .. Len(chain), Len(chain) <= n + 1 + Keep,
                      (\E r \in coins' : r.coin >= n) \/ \E q \in Procs : Past(proc'[q], n)
               PROVE  \E r \in coins' : r.coin = n
    BY <1>0 DEF Kept, Recent
  <2>1. \A q \in Procs : Past(proc'[q], n) => Past(proc[q], n)
    BY <1>0 DEF Past, c
  <2>2. (\E r \in coins : r.coin >= n) \/ \E q \in Procs : Past(proc[q], n)
    BY <1>1, <1>2, <2>1
  <2>3. PICK r \in coins : r.coin = n
    BY <2>2 DEF CoinInv, Kept, Recent
  <2> QED BY <1>1, <1>2, <2>3
<1>6. Above'
  <2> SUFFICES ASSUME NEW u \in coins, Marked(u).spentAt = 0
               PROVE  /\ \A r \in coins' : r.coin <= Marked(u).coin
                      /\ \A q \in Procs : \/ proc'[q].at <= Marked(u).coin
                                          \/ proc'[q].at = Marked(u).coin + 1 /\ ParentPending(proc'[q])
    BY <1>1 DEF Above
  <2>1. u.spentAt = 0 /\ u.coin # c - 1 /\ Marked(u).coin = u.coin /\ u.coin \in Nat
    BY <1>0, <1>2
  <2>2. /\ \A r \in coins : r.coin <= u.coin
        /\ \A q \in Procs : \/ proc[q].at <= u.coin
                            \/ proc[q].at = u.coin + 1 /\ ParentPending(proc[q])
    BY <2>1 DEF CoinInv, Above
  <2>3. c <= u.coin
    BY <1>0, <2>1, <2>2 DEF c
  <2>4. \A r \in coins' : r.coin <= u.coin
    BY <1>1, <1>2, <2>2
  <2> QED BY <1>0, <2>1, <2>2, <2>3, <2>4
<1>7. Alone'
  <2> SUFFICES ASSUME NEW q \in Procs, use.procs \subseteq {q}, Has(proc'[q], {"coin"}), NEW r \in coins
               PROVE  Marked(r).coin <= proc'[q].at
    BY <1>0, <1>1 DEF Alone
  <2>1. q = p
    OBVIOUS
  <2> QED BY <1>0, <1>2, <2>1 DEF CoinInv, Alone, c
<1> QED BY <1>3, <1>4, <1>5, <1>6, <1>7 DEF CoinInv

\* A process executes a statement.
LEMMA CoinWrite ==
    ASSUME Base, Base', CoinInv, InTime, NEW p \in use.procs, Write(p)
    PROVE  CoinInv'
<1> DEFINE w == Head(proc[p].todo)
           c == proc[p].at
<1>0. /\ p \in Procs /\ Len(chain) \in Nat /\ c \in Nat /\ coins \subseteq [coin : Nat, spentAt : Nat]
      /\ UNCHANGED <<use, chain>> /\ \A q \in Procs : q # p => proc'[q] = proc[q]
      /\ proc'[p].at = c /\ Queued(proc'[p]) /\ Walking(proc'[p], Len(chain))
      /\ Has(proc'[p], {"coin"}) => Has(proc[p], {"coin"})
      /\ w.op \notin {"coin", "spent"} => (SavePending(proc[p]) => SavePending(proc'[p]))
      /\ w.op # "parent" => (ParentPending(proc[p]) => ParentPending(proc'[p]))
      /\ w.op \in {"coin", "spent"} => ~ ParentPending(proc[p])
      /\ w.op \in CoinOps => w.n = c /\ c >= 1
      /\ w.op = "coin" => Has(proc[p], {"coin"})
      /\ Execute(w)
  BY CoinWriteDoes
<1>1. CASE w.op = "parent"
  BY <1>1, CoinParent
<1>2. CASE w.op # "parent" /\ coins' = coins /\ (Past(proc'[p], c) => Past(proc[p], c) \/ \E r \in coins : r.coin >= c)
  <2>1. \A n \in 1 .. Len(chain) : Past(proc'[p], n) => Past(proc[p], n) \/ \E r \in coins : r.coin >= n
    <3> TAKE n \in 1 .. Len(chain)
    <3>1. CASE n = c
      BY <1>2, <3>1
    <3>2. CASE n # c
      BY <1>0, <3>2 DEF Past
    <3> QED BY <3>1, <3>2
  <2>2. \A t \in coins : t.spentAt = 0 =>
            proc'[p].at <= t.coin \/ (proc'[p].at = t.coin + 1 /\ ParentPending(proc'[p]))
    BY <1>0, <1>2 DEF CoinInv, Above
  <2>3. use.procs \subseteq {p} /\ Has(proc'[p], {"coin"}) => \A r \in coins : r.coin <= proc'[p].at
    <3> SUFFICES ASSUME use.procs \subseteq {p}, Has(proc'[p], {"coin"}), NEW r \in coins PROVE r.coin <= c
      BY <1>0
    <3> QED BY <1>0 DEF CoinInv, Alone
  <2> QED BY <1>0, <1>2, <2>1, <2>2, <2>3, SameCoins
<1>3. CASE w.op \notin CoinOps
  <2>1. coins' = coins /\ w.op \notin {"coin", "spent", "parent"}
    BY <1>0, <1>3, CoinStatements DEF CoinOps
  <2>2. Past(proc'[p], c) => Past(proc[p], c)
    BY <1>0, <2>1 DEF Past
  <2> QED BY <1>2, <2>1, <2>2
<1>4. ASSUME NEW h \in {0, c + 1}, InsertCoin(c, h), h = 0 => w.op = "coin", w.op \in {"coin", "spent"}
      PROVE  CoinInv'
  <2>0. c >= 1 /\ ~ ParentPending(proc[p]) /\ w.op # "parent" /\ (h = 0 => Has(proc[p], {"coin"}))
    BY <1>0, <1>4 DEF CoinOps
  <2>1. CASE \E r \in coins : r.coin = c
    <3>1. coins' = coins /\ \E r \in coins : r.coin >= c
      BY <1>0, <1>4, <2>1 DEF InsertCoin
    <3> QED BY <1>2, <2>0, <3>1
  <2>2. CASE ~ \E r \in coins : r.coin = c
    <3>1. coins' = coins \cup {[coin |-> c, spentAt |-> h]}
      BY <1>4, <2>2 DEF InsertCoin
    <3> QED BY <1>0, <2>0, <2>2, <3>1, CoinInsert
  <2> QED BY <2>1, <2>2
<1>5. CASE w.op = "coin"
  BY <1>0, <1>4, <1>5, CoinStatements DEF CoinOps
<1>6. CASE w.op = "spent"
  <2>1. InsertCoin(c, c + 1) /\ c + 1 # 0
    BY <1>0, <1>6, CoinStatements DEF CoinOps
  <2> QED BY <1>4, <1>6, <2>1
<1> QED BY <1>1, <1>3, <1>5, <1>6 DEF CoinOps

\* Every step of a system whose processes are in time keeps the invariant.
LEMMA CoinNext ==
    ASSUME Base, Base', CoinInv, InTime, [Next]_vars
    PROVE  CoinInv'
<1>1. CASE Grow
  BY <1>1, CoinGrow
<1>2. ASSUME NEW p \in use.procs, Start(p) \/ Fetch(p) \/ Write(p) \/ Advance(p) \/ Crash(p) \/ ClearCache(p)
      PROVE  CoinInv'
  BY <1>2, CoinStart, CoinFetch, CoinWrite, CoinAdvance, CoinCrash, CoinClear
<1>3. CASE UNCHANGED vars
  <2>1. UNCHANGED <<use, chain, coins, proc>>
    BY <1>3 DEF vars, db
  <2>2. Processes' /\ Saved'
    BY <2>1 DEF CoinInv, Processes, Saved
  <2>3. Kept'
    BY <2>1 DEF CoinInv, Kept, Recent
  <2>4. Above' /\ Alone'
    BY <2>1 DEF CoinInv, Above, Alone
  <2> QED BY <2>2, <2>3, <2>4 DEF CoinInv
<1> QED BY <1>1, <1>2, <1>3 DEF Next

\* There is one unspent coin at most.
LEMMA OneTipFrom ==
    ASSUME Base, CoinInv
    PROVE  OneTip
<1>1. coins \subseteq [coin : Nat, spentAt : Nat]
  BY DEF Base, Typed
<1>2. \A a, b \in Tips : a = b
  <2> SUFFICES ASSUME NEW r \in coins, NEW s \in coins, r.spentAt = 0, s.spentAt = 0 PROVE r.coin = s.coin
    BY DEF Tips
  <2>1. r.coin <= s.coin /\ s.coin <= r.coin /\ r.coin \in Nat /\ s.coin \in Nat
    BY <1>1 DEF CoinInv, Above
  <2> QED BY <2>1
<1>3. Cardinality(Tips) <= 1
  <2>1. CASE Tips = {}
    <3>1. Cardinality(Tips) = 0
      BY <2>1, FS_EmptySet
    <3> QED BY <3>1
  <2>2. CASE Tips # {}
    <3>1. PICK a : a \in Tips
      BY <2>2
    <3>2. Tips = {a}
      BY <1>2, <3>1
    <3>3. Cardinality(Tips) = 1
      BY <3>2, FS_Singleton
    <3> QED BY <3>3
  <2> QED BY <2>1, <2>2
<1> QED BY <1>3 DEF OneTip, CoinInv, Saved

\* For any number of processes that stop anywhere and start again: the saved
\* coins never show two unspent tips, and each spent one shows the height at
\* which it was spent, as long as no process is so late with the insertion of a
\* coin that another one's cache clear has dropped that coin meanwhile.
THEOREM OneTipInTime == Spec /\ []InTime => []OneTip
<1>1. Init => Base /\ CoinInv
  BY BaseInit, CoinInit
<1>2. InTime /\ (Base /\ CoinInv) /\ [Next]_vars => (Base /\ CoinInv)'
  BY BaseNext, CoinNext
<1>3. Base /\ CoinInv => OneTip
  BY OneTipFrom
<1> QED BY <1>1, <1>2, <1>3, PTL DEF Spec

\* Nobody is late where one process has the database to itself, and where the
\* registry is not spent often enough for a cache clear to drop a coin that a
\* process may still be waiting to save.
THEOREM OneTipBounded ==
    ASSUME \A u \in Uses : (\A p, q \in u.procs : p = q) \/ MaxSpends <= Keep + 2
    PROVE  Spec => []OneTip
<1> DEFINE Short == Len(chain) <= MaxSpends
<1>1. Base /\ CoinInv /\ Short => InTime
  <2> SUFFICES ASSUME Base, CoinInv, Short, NEW p \in Procs, Has(proc[p], {"coin"})
               PROVE  use.procs \subseteq {p} \/ Recent(proc[p].at)
    BY DEF InTime
  <2>1. PICK i \in DOMAIN proc[p].todo : proc[p].todo[i].op = "coin"
    BY DEF Has
  <2>2. p \in use.procs
    <3>1. DOMAIN Idle.todo = {}
      BY DEF Idle
    <3> QED BY <2>1, <3>1 DEF CoinInv, Processes
  <2>3. CASE \A q, r \in use.procs : q = r
    BY <2>2, <2>3
  <2>4. CASE MaxSpends <= Keep + 2
    <3>1. proc[p].at >= 1
      BY <2>1 DEF CoinInv, Processes, Queued, CoinOps
    <3>2. proc[p].at \in Nat /\ Len(chain) \in Nat /\ MaxSpends \in Nat /\ Keep \in Nat
      BY NamesAreNumbers DEF Base, Typed, Process
    <3> QED BY <2>4, <3>1, <3>2 DEF Recent
  <2>5. use \in Uses
    BY DEF Base, Typed
  <2> QED BY <2>3, <2>4, <2>5
<1>2. Init => Base /\ CoinInv /\ Short
  <2>1. Init => Short
    BY SyncAssumption DEF Init
  <2> QED BY <2>1, BaseInit, CoinInit
<1>3. (Base /\ CoinInv /\ Short) /\ [Next]_vars => (Base /\ CoinInv /\ Short)'
  <2> SUFFICES ASSUME Base, CoinInv, Short, [Next]_vars PROVE (Base /\ CoinInv /\ Short)'
    OBVIOUS
  <2>1. Base' /\ CoinInv'
    BY <1>1, BaseNext, CoinNext
  <2>2. Short'
    <3>1. CASE Grow
      <4>1. Len(chain) < MaxSpends /\ Len(chain') = Len(chain) + 1 /\ Len(chain) \in Nat /\ MaxSpends \in Nat
        BY <3>1, NamesAreNumbers DEF Grow, Base, Typed
      <4> QED BY <4>1
    <3>2. CASE chain' = chain
      BY <3>2
    <3> QED BY <3>1, <3>2 DEF Next, Start, Fetch, Write, Advance, Crash, ClearCache, vars
  <2> QED BY <2>1, <2>2
<1> HIDE DEF Short
<1>4. Base /\ CoinInv /\ Short => OneTip
  BY OneTipFrom
<1> QED BY <1>2, <1>3, <1>4, PTL DEF Spec

-----------------------------------------------------------------------------
\* The rows of one process.

\* The unspent rows and all rows, as slots.
Live == {[value |-> r.value, parent |-> r.parent] : r \in {x \in rows : x.spentAt = 0}}
Stored == {[value |-> r.value, parent |-> r.parent] : r \in rows}

\* The values that a spend leaves of those it made.
Net(ch, c) == Cr(ch, c) \ Sp(ch, c)

\* Did one of the first c spends spend the value?
SpentBy(ch, v, c) == \E d \in 1 .. c : v \in Sp(ch, d)

\* A slot that is or was one: catalog/sync.rs does not save a value that the
\* same spend spends again.
Minted(ch, s) ==
    \/ s.parent = Eve /\ s.value \in {EndSlot(Lo), EndSlot(Hi)}
    \/ s.parent \in 0 .. Len(ch) - 1 /\ s.value \in Cr(ch, s.parent + 1)
       /\ (kind = "catalog" => s.value \notin Sp(ch, s.parent + 1))

MarkOp == IF kind = "catalog" THEN "markIx" ELSE "mark"
Saves(ch, c) == IF kind = "catalog" THEN Net(ch, c) ELSE Cr(ch, c)

Sound(ch, live, c) == \A s \in live : ~ SpentBy(ch, s.value, c)

\* Every slot at c is unspent in the database, or about to be saved, or, where
\* a walk has begun to write the spend of c, spent by it.
Held(ch, live, Q, c) ==
    \A s \in SlotsOf(ch, c) :
        \/ s \in live
        \/ W("slot", s.value, s.parent) \in Q
        \/ c < Len(ch) /\ s.value \in Sp(ch, c + 1)

\* The index has the value of each key, or it is about to be written, or a walk
\* has begun to write the spend of c and has marked the value.
Indexed(ch, live, ix, Q, c) ==
    kind = "catalog" =>
        \A v \in ValuesOf(ch, c) :
            \/ v.key \in DOMAIN ix /\ ix[v.key] = v
            \/ W("index", v, Eve) \in Q
            \/ c < Len(ch) /\ v.key \in DOMAIN ix /\ ix[v.key] \in Net(ch, c + 1) /\ \A s \in live : s.value # v

AtOK(ch, live, ix, Q, c) == c <= Len(ch) /\ Sound(ch, live, c) /\ Held(ch, live, Q, c) /\ Indexed(ch, live, ix, Q, c)

SpendOK(ch, live, ix, Q, c) ==
    /\ c < Len(ch) /\ Sound(ch, live, c)
    /\ \A s \in live : s.value \in Sp(ch, c + 1) => W(MarkOp, s.value, c + 1) \in Q
    /\ \A s \in SlotsOf(ch, c) : s.value \notin Sp(ch, c + 1) => s \in live
    /\ \A v \in Net(ch, c + 1) : [value |-> v, parent |-> c] \in live \/ W("slot", v, c) \in Q
    /\ Indexed(ch, live, ix, {}, c)
    /\ kind = "catalog" =>
          \A v \in Net(ch, c + 1) : (v.key \in DOMAIN ix /\ ix[v.key] = v) \/ W("index", v, c) \in Q

EndOK(ch, live, stored, ix, c) ==
    /\ AtOK(ch, live, ix, {}, c)
    /\ SlotsOf(ch, c) \subseteq live
    /\ \A s \in stored : s.parent < c

\* What a process has queued, by what it is doing.  A walk saves the ends'
\* slots before it indexes them.
WalkQueue(r) ==
    /\ \A w \in Elements(r.todo) :
          \/ w.op = "config"
          \/ r.at = 0 /\ w.op \in {"slot", "index"} /\ w.n = Eve /\ w.value \in {EndSlot(Lo), EndSlot(Hi)}
    /\ \A i \in DOMAIN r.todo : r.todo[i].op = "slot" =>
          \E j \in DOMAIN r.todo : i < j /\ r.todo[j] = W("index", r.todo[i].value, Eve)

SpendQueue(ch, r) ==
    LET Q == Elements(r.todo)
        c == r.at
    IN  /\ \A w \in Q : \/ w.op \in {"parent", "spent"}
                        \/ w.op \in {"slot", "index"} /\ w.n = c /\ w.value \in Saves(ch, c + 1)
                        \/ w.op = MarkOp /\ w.n = c + 1 /\ w.value \in Sp(ch, c + 1)
        /\ Sorted(r.todo)
        /\ kind # "catalog" /\ (\E w \in Q : w.op \in {"slot", "index"})
              => \A v \in Sp(ch, c + 1) : W("mark", v, c + 1) \in Q
        /\ kind = "catalog" /\ (\E w \in Q : w.op = "markIx")
              => \A v \in Net(ch, c + 1) : W("slot", v, c) \in Q /\ W("index", v, c) \in Q

EndQueue(r) == \A w \in Elements(r.todo) : w.op \in CoinOps

\* What holds of the database, by where the process is.
Progress(ch, live, stored, ix, r) ==
    /\ r.pc = "walk" => WalkQueue(r) /\ AtOK(ch, live, ix, Elements(r.todo), r.at)
    /\ r.pc = "write" /\ r.spent => SpendQueue(ch, r) /\ SpendOK(ch, live, ix, Elements(r.todo), r.at)
    /\ r.pc = "write" /\ ~ r.spent => EndQueue(r) /\ EndOK(ch, live, stored, ix, r.at)
    /\ r.pc = "done" => EndOK(ch, live, stored, ix, r.at)

RowsMinted == \A s \in Stored : Minted(chain, s)

TipsOK == \A t \in Tips : AtOK(chain, Live, index, {}, t)

\* A process that runs is not before the saved tip.
Near == \A p \in use.procs, t \in Tips : proc[p].pc \in {"walk", "write"} => proc[p].at >= t

\* A tip is saved only when the constants are.
ConfigOK ==
    \/ kind = "catalog" \/ config
    \/ /\ coins = {}
       /\ \A p \in use.procs : /\ proc[p].at = 0 /\ proc[p].pc \in {"idle", "crashed", "walk"}
                               /\ proc[p].pc = "walk" => \E w \in Elements(proc[p].todo) : w.op = "config"

SyncInv ==
    /\ RowsMinted /\ TipsOK /\ Near /\ ConfigOK
    /\ \A p \in use.procs : Progress(chain, Live, Stored, index, proc[p])

\* One process has the database to itself.
Single == \A p, q \in use.procs : p = q

\* The slots at a coin are those that were made before it and not spent.
LEMMA SlotsAre ==
    ASSUME Typed, NEW ch, History(ch), NEW c \in 0 .. Len(ch)
    PROVE  \A s : s \in SlotsOf(ch, c) <=>
               /\ s \in [value : Value, parent : Int] /\ Minted(ch, s)
               /\ s.parent < c /\ ~ SpentBy(ch, s.value, c)
<1> DEFINE Slot == [value : Value, parent : Int]
           Is(s, i) == s \in Slot /\ Minted(ch, s) /\ s.parent < i /\ ~ SpentBy(ch, s.value, i)
           T == {i \in Nat : i <= Len(ch) => \A s : s \in SlotsOf(ch, i) <=> Is(s, i)}
<1>1. Len(ch) \in Nat /\ Eve = -1
  BY DEF History, Eve
<1>2. EndSlot(Lo) \in Value /\ EndSlot(Hi) \in Value
  BY NamesAreNumbers DEF EndSlot, Value
<1>3. 0 \in T
  <2>1. SlotsOf(ch, 0) = {[value |-> v, parent |-> Eve] : v \in {EndSlot(Lo), EndSlot(Hi)}}
    BY SlotsOfNext DEF Ends
  <2>2. \A s : ~ SpentBy(ch, s.value, 0)
    BY DEF SpentBy
  <2>3. ASSUME NEW s, s \in SlotsOf(ch, 0) PROVE Is(s, 0)
    <3>1. PICK v \in {EndSlot(Lo), EndSlot(Hi)} : s = [value |-> v, parent |-> Eve]
      BY <2>1, <2>3
    <3>2. s \in Slot /\ s.parent = Eve /\ s.value = v
      BY <1>1, <1>2, <3>1
    <3> QED BY <1>1, <2>2, <3>2 DEF Minted
  <2>4. ASSUME NEW s, Is(s, 0) PROVE s \in SlotsOf(ch, 0)
    <3>1. s.parent = Eve /\ s.value \in {EndSlot(Lo), EndSlot(Hi)}
      BY <2>4 DEF Minted
    <3>2. s = [value |-> s.value, parent |-> s.parent]
      BY <2>4
    <3> QED BY <2>1, <3>1, <3>2
  <2> QED BY <2>3, <2>4
<1>4. ASSUME NEW i \in Nat, i \in T PROVE i + 1 \in T
  <2> SUFFICES ASSUME i + 1 <= Len(ch) PROVE \A s : s \in SlotsOf(ch, i + 1) <=> Is(s, i + 1)
    OBVIOUS
  <2>0. i + 1 \in 1 .. Len(ch) /\ (i + 1) - 1 = i /\ i <= Len(ch) /\ i + 1 \in Nat
    BY <1>1
  <2>1. \A s : s \in SlotsOf(ch, i) <=> Is(s, i)
    BY <1>4, <2>0
  <2>2. SlotsOf(ch, i + 1) = Left_(SlotsOf(ch, i), ch[i + 1]) \cup Made(ch[i + 1], i)
    BY SlotsOfNext
  <2>3. \A v : SpentBy(ch, v, i + 1) <=> SpentBy(ch, v, i) \/ v \in Sp(ch, i + 1)
    <3>1. 1 .. i + 1 = (1 .. i) \cup {i + 1}
      BY <2>0
    <3> QED BY <3>1 DEF SpentBy
  <2>4. ASSUME NEW v \in Cr(ch, i + 1) PROVE ~ SpentBy(ch, v, i) /\ v \in Value
    <3>1. v \in Value
      BY <2>0, TurnOf
    <3>2. ASSUME NEW d \in 1 .. i PROVE v \notin Sp(ch, d)
      <4>1. d \in 1 .. Len(ch) /\ d < i + 1
        BY <1>1, <2>0
      <4> QED BY <2>0, <2>4, <4>1, OnceMade
    <3> QED BY <3>1, <3>2 DEF SpentBy
  <2>5. \A s : s \in Made(ch[i + 1], i) <=>
               s \in Slot /\ s.parent = i /\ s.value \in Cr(ch, i + 1) /\ s.value \notin Sp(ch, i + 1)
    <3>1. Made(ch[i + 1], i) = {[value |-> v, parent |-> i] : v \in Cr(ch, i + 1) \ Sp(ch, i + 1)}
      BY DEF Made, Cr, Sp
    <3> QED BY <2>0, <2>4, <3>1
  <2>6. \A s : s \in Left_(SlotsOf(ch, i), ch[i + 1]) <=> Is(s, i) /\ s.value \notin Sp(ch, i + 1)
    <3> HIDE DEF Is
    <3> QED BY <2>1 DEF Left_, Sp
  <2>7. \A s \in Slot : Minted(ch, s) /\ s.parent = i /\ s.value \notin Sp(ch, i + 1)
                  <=> s.parent = i /\ s.value \in Cr(ch, i + 1) /\ s.value \notin Sp(ch, i + 1)
    BY <1>1, <2>0 DEF Minted
  <2>8. ASSUME NEW s \in Slot
        PROVE  s.parent < i + 1 <=> s.parent < i \/ s.parent = i
    BY <2>0
  <2>9. \A s : s \in Made(ch[i + 1], i) <=>
               s \in Slot /\ Minted(ch, s) /\ s.parent = i /\ ~ SpentBy(ch, s.value, i) /\ s.value \notin Sp(ch, i + 1)
    BY <2>4, <2>5, <2>7
  <2> QED BY <2>2, <2>3, <2>6, <2>8, <2>9
<1> HIDE DEF T
<1>5. c \in T
  <2>1. c \in Nat
    BY <1>1
  <2> QED BY <1>3, <1>4, <2>1, AllNat
<1> QED BY <1>1, <1>5 DEF T

\* A longer chain tells the same about the coins of the shorter one.
LEMMA LongerChain ==
    ASSUME NEW ch \in Seq(Spend), NEW a \in Spend, NEW more, more = Append(ch, a)
    PROVE  /\ Len(ch) \in Nat /\ Len(more) = Len(ch) + 1
           /\ \A c \in 0 .. Len(ch) : SlotsOf(more, c) = SlotsOf(ch, c) /\ ValuesOf(more, c) = ValuesOf(ch, c)
           /\ \A d \in 1 .. Len(ch) : Sp(more, d) = Sp(ch, d) /\ Cr(more, d) = Cr(ch, d) /\ Net(more, d) = Net(ch, d)
           /\ \A c \in 0 .. Len(ch) : \A v : SpentBy(more, v, c) <=> SpentBy(ch, v, c)
           /\ \A s : Minted(ch, s) => Minted(more, s)
<1>1. Len(ch) \in Nat /\ Len(more) = Len(ch) + 1 /\ \A d \in 1 .. Len(ch) : more[d] = ch[d]
  OBVIOUS
<1>2. \A c \in 0 .. Len(ch) : SlotsOf(more, c) = SlotsOf(ch, c)
  BY SlotsOfPrefix
<1>3. \A d \in 1 .. Len(ch) : Sp(more, d) = Sp(ch, d) /\ Cr(more, d) = Cr(ch, d)
  BY <1>1 DEF Sp, Cr
<1>4. \A c \in 0 .. Len(ch) : \A v : SpentBy(more, v, c) <=> SpentBy(ch, v, c)
  <2> TAKE c \in 0 .. Len(ch)
  <2>1. \A d \in 1 .. c : d \in 1 .. Len(ch)
    BY <1>1
  <2> QED BY <1>3, <2>1 DEF SpentBy
<1>5. ASSUME NEW s, Minted(ch, s) PROVE Minted(more, s)
  <2>1. CASE s.parent = Eve /\ s.value \in {EndSlot(Lo), EndSlot(Hi)}
    BY <2>1 DEF Minted
  <2>2. CASE /\ s.parent \in 0 .. Len(ch) - 1 /\ s.value \in Cr(ch, s.parent + 1)
             /\ (kind = "catalog" => s.value \notin Sp(ch, s.parent + 1))
    <3>1. s.parent + 1 \in 1 .. Len(ch) /\ s.parent \in 0 .. Len(more) - 1
      BY <1>1, <2>2
    <3> QED BY <1>3, <2>2, <3>1 DEF Minted
  <2> QED BY <1>5, <2>1, <2>2 DEF Minted
<1>6. \A d \in 1 .. Len(ch) : Net(more, d) = Net(ch, d)
  BY <1>3 DEF Net
<1>7. \A c \in 0 .. Len(ch) : ValuesOf(more, c) = ValuesOf(ch, c)
  BY <1>2 DEF ValuesOf
<1> QED BY <1>1, <1>2, <1>3, <1>4, <1>5, <1>6, <1>7

\* So what holds of the database at a coin still holds on a longer chain.
LEMMA StillOK ==
    ASSUME NEW ch \in Seq(Spend), NEW a \in Spend, NEW more, more = Append(ch, a),
           NEW live, NEW stored, NEW ix, NEW Q, NEW c \in Nat
    PROVE  /\ AtOK(ch, live, ix, Q, c) => AtOK(more, live, ix, Q, c)
           /\ SpendOK(ch, live, ix, Q, c) => SpendOK(more, live, ix, Q, c)
           /\ EndOK(ch, live, stored, ix, c) => EndOK(more, live, stored, ix, c)
<1> HIDE DEF W
<1>1. /\ Len(ch) \in Nat /\ Len(more) = Len(ch) + 1
      /\ \A i \in 0 .. Len(ch) : SlotsOf(more, i) = SlotsOf(ch, i) /\ ValuesOf(more, i) = ValuesOf(ch, i)
      /\ \A d \in 1 .. Len(ch) : Sp(more, d) = Sp(ch, d) /\ Cr(more, d) = Cr(ch, d) /\ Net(more, d) = Net(ch, d)
      /\ \A i \in 0 .. Len(ch) : \A v : SpentBy(more, v, i) <=> SpentBy(ch, v, i)
  BY LongerChain
<1>2. ASSUME NEW U, c <= Len(ch)
      PROVE  /\ Sound(ch, live, c) => Sound(more, live, c)
             /\ Held(ch, live, U, c) => Held(more, live, U, c)
             /\ Indexed(ch, live, ix, U, c) => Indexed(more, live, ix, U, c)
             /\ c <= Len(more) /\ SlotsOf(more, c) = SlotsOf(ch, c)
  <2>1. /\ c \in 0 .. Len(ch) /\ c <= Len(more) /\ (c < Len(ch) => c < Len(more) /\ c + 1 \in 1 .. Len(ch))
        /\ SlotsOf(more, c) = SlotsOf(ch, c) /\ ValuesOf(more, c) = ValuesOf(ch, c)
    BY <1>1, <1>2
  <2>2. c < Len(ch) => Sp(more, c + 1) = Sp(ch, c + 1) /\ Net(more, c + 1) = Net(ch, c + 1)
    BY <1>1, <2>1
  <2>3. Sound(ch, live, c) => Sound(more, live, c)
    BY <1>1, <2>1 DEF Sound
  <2>4. Held(ch, live, U, c) => Held(more, live, U, c)
    BY <2>1, <2>2 DEF Held
  <2>5. Indexed(ch, live, ix, U, c) => Indexed(more, live, ix, U, c)
    BY <2>1, <2>2 DEF Indexed
  <2> QED BY <2>1, <2>3, <2>4, <2>5
<1>3. \A U : AtOK(ch, live, ix, U, c) => AtOK(more, live, ix, U, c)
  BY <1>2 DEF AtOK
<1>4. EndOK(ch, live, stored, ix, c) => EndOK(more, live, stored, ix, c)
  <2> SUFFICES ASSUME EndOK(ch, live, stored, ix, c) PROVE EndOK(more, live, stored, ix, c)
    OBVIOUS
  <2>1. c <= Len(ch) /\ AtOK(more, live, ix, {}, c)
    BY <1>3 DEF EndOK, AtOK
  <2>2. SlotsOf(more, c) = SlotsOf(ch, c)
    BY <1>2, <2>1
  <2> QED BY <2>1, <2>2 DEF EndOK
<1>5. SpendOK(ch, live, ix, Q, c) => SpendOK(more, live, ix, Q, c)
  <2> SUFFICES ASSUME SpendOK(ch, live, ix, Q, c) PROVE SpendOK(more, live, ix, Q, c)
    OBVIOUS
  <2>1. c < Len(ch) /\ c <= Len(ch) /\ c < Len(more) /\ c + 1 \in 1 .. Len(ch)
    BY <1>1 DEF SpendOK
  <2>2. Sp(more, c + 1) = Sp(ch, c + 1) /\ Net(more, c + 1) = Net(ch, c + 1) /\ SlotsOf(more, c) = SlotsOf(ch, c)
    BY <1>1, <1>2, <2>1
  <2>3. Sound(more, live, c) /\ Indexed(more, live, ix, {}, c)
    BY <1>2, <2>1 DEF SpendOK
  <2> QED BY <2>1, <2>2, <2>3 DEF SpendOK
<1> QED BY <1>3, <1>4, <1>5

\* What a queue of a spend holds does not depend on later spends.
LEMMA StillQueue ==
    ASSUME NEW ch \in Seq(Spend), NEW a \in Spend, NEW more, more = Append(ch, a),
           NEW r \in Process, r.at < Len(ch), SpendQueue(ch, r)
    PROVE  SpendQueue(more, r)
<1>1. r.at + 1 \in 1 .. Len(ch)
  <2>1. r.at \in Nat /\ Len(ch) \in Nat
    BY DEF Process
  <2> QED BY <2>1
<1>2. /\ Sp(more, r.at + 1) = Sp(ch, r.at + 1) /\ Cr(more, r.at + 1) = Cr(ch, r.at + 1)
      /\ Net(more, r.at + 1) = Net(ch, r.at + 1)
  BY <1>1, LongerChain
<1>3. Saves(more, r.at + 1) = Saves(ch, r.at + 1)
  BY <1>2 DEF Saves
<1> QED BY <1>2, <1>3 DEF SpendQueue

-----------------------------------------------------------------------------
\* What the statements do to the unspent rows.

\* Saving a slot makes it unspent.
LEMMA SaveLive ==
    ASSUME Typed, NEW v \in Value, NEW n \in Int, SaveSlot(v, n)
    PROVE  /\ Live' = Live \cup {[value |-> v, parent |-> n]}
           /\ Stored' = Stored \cup {[value |-> v, parent |-> n]}
<1> DEFINE new == [value |-> v, parent |-> n, spentAt |-> 0]
           Others == {r \in rows : ~ (r.value = v /\ r.parent = n)}
           slot == [value |-> v, parent |-> n]
<1>1. rows' = Others \cup {new}
  BY DEF SaveSlot
<1>2. new.value = v /\ new.parent = n /\ new.spentAt = 0
  OBVIOUS
<1>3. \A r \in rows : r \notin Others => [value |-> r.value, parent |-> r.parent] = slot
  OBVIOUS
<1>4. Live' = Live \cup {slot}
  <2>1. Live' \subseteq Live \cup {slot}
    <3> SUFFICES ASSUME NEW r \in rows', r.spentAt = 0
                 PROVE  [value |-> r.value, parent |-> r.parent] \in Live \cup {slot}
      BY DEF Live
    <3>1. CASE r = new
      BY <1>2, <3>1
    <3>2. CASE r \in rows
      BY <3>2 DEF Live
    <3> QED BY <1>1, <3>1, <3>2
  <2>2. slot \in Live'
    BY <1>1, <1>2 DEF Live
  <2>3. Live \subseteq Live'
    <3> SUFFICES ASSUME NEW r \in rows, r.spentAt = 0
                 PROVE  [value |-> r.value, parent |-> r.parent] \in Live'
      BY DEF Live
    <3>1. CASE r \in Others
      BY <1>1, <3>1 DEF Live
    <3>2. CASE r \notin Others
      BY <1>3, <2>2, <3>2
    <3> QED BY <3>1, <3>2
  <2> QED BY <2>1, <2>2, <2>3
<1>5. Stored' = Stored \cup {slot}
  <2>1. Stored' \subseteq Stored \cup {slot}
    <3> SUFFICES ASSUME NEW r \in rows'
                 PROVE  [value |-> r.value, parent |-> r.parent] \in Stored \cup {slot}
      BY DEF Stored
    <3>1. CASE r = new
      BY <1>2, <3>1
    <3>2. CASE r \in rows
      BY <3>2 DEF Stored
    <3> QED BY <1>1, <3>1, <3>2
  <2>2. slot \in Stored'
    BY <1>1, <1>2 DEF Stored
  <2>3. Stored \subseteq Stored'
    <3> SUFFICES ASSUME NEW r \in rows
                 PROVE  [value |-> r.value, parent |-> r.parent] \in Stored'
      BY DEF Stored
    <3>1. CASE r \in Others
      BY <1>1, <3>1 DEF Stored
    <3>2. CASE r \notin Others
      BY <1>3, <2>2, <3>2
    <3> QED BY <3>1, <3>2
  <2> QED BY <2>1, <2>2, <2>3
<1> QED BY <1>4, <1>5

\* Marking a value leaves no unspent row with it, and all others.
LEMMA MarkLive ==
    ASSUME Typed, NEW v, NEW h \in Nat \ {0}, MarkSlotAsSpent(v, h)
    PROVE  Live' = {s \in Live : s.value # v} /\ Stored' = Stored
<1> DEFINE M(r) == IF r.value = v /\ r.spentAt = 0 THEN [r EXCEPT !.spentAt = h] ELSE r
           slot(r) == [value |-> r.value, parent |-> r.parent]
<1>1. rows' = {M(r) : r \in rows}
  BY DEF MarkSlotAsSpent
<1>2. \A r \in rows : /\ M(r).value = r.value /\ M(r).parent = r.parent
                      /\ M(r).spentAt = 0 <=> r.spentAt = 0 /\ r.value # v
  BY DEF Typed, Row
<1> HIDE DEF M
<1>3. Stored' = {slot(r) : r \in rows'} /\ Stored = {slot(r) : r \in rows}
  BY DEF Stored
<1>4. Live' = {slot(r) : r \in {x \in rows' : x.spentAt = 0}} /\ Live = {slot(r) : r \in {x \in rows : x.spentAt = 0}}
  BY DEF Live
<1>5. \A r \in rows : slot(M(r)) = slot(r) /\ slot(r).value = r.value
  BY <1>2
<1> HIDE DEF slot
<1>6. Stored' = Stored
  BY <1>1, <1>3, <1>5
<1>7. ASSUME NEW s \in Live' PROVE s \in Live /\ s.value # v
  <2>1. PICK r \in rows : M(r).spentAt = 0 /\ s = slot(M(r))
    BY <1>1, <1>4
  <2> QED BY <1>2, <1>4, <1>5, <2>1
<1>8. ASSUME NEW s \in Live, s.value # v PROVE s \in Live'
  <2>1. PICK r \in rows : r.spentAt = 0 /\ s = slot(r)
    BY <1>4
  <2>2. M(r) \in rows' /\ M(r).spentAt = 0 /\ slot(M(r)) = s
    BY <1>1, <1>2, <1>5, <1>8, <2>1
  <2> QED BY <1>4, <2>2
<1> QED BY <1>6, <1>7, <1>8

\* A cache clear drops no unspent row.
LEMMA ClearLive ==
    ASSUME Typed, NEW p, ClearCache(p)
    PROVE  Live' = Live /\ Stored' \subseteq Stored /\ Tips' = Tips
<1>1. /\ rows' \subseteq rows /\ \A r \in rows : r.spentAt = 0 => r \in rows'
      /\ coins' \subseteq coins /\ \A r \in coins : r.spentAt = 0 => r \in coins'
  BY DEF ClearCache
<1>2. Live' = Live
  <2>1. {x \in rows' : x.spentAt = 0} = {x \in rows : x.spentAt = 0}
    BY <1>1
  <2> QED BY <2>1 DEF Live
<1>3. Stored' \subseteq Stored
  BY <1>1 DEF Stored
<1>4. Tips' = Tips
  <2>1. {x \in coins' : x.spentAt = 0} = {x \in coins : x.spentAt = 0}
    BY <1>1
  <2> QED BY <2>1 DEF Tips
<1> QED BY <1>2, <1>3, <1>4

\* The index with a value written into it.
Reindexed(ix, jx, v) ==
    /\ DOMAIN jx = DOMAIN ix \cup {v.key}
    /\ \A k \in DOMAIN jx : jx[k] = IF k = v.key THEN v ELSE ix[k]

\* The rows and the index after each statement.
LEMMA StatementLive ==
    ASSUME Typed, NEW w \in Statement, Execute(w)
    PROVE  /\ w.op \notin {"slot", "mark", "markIx"} => Live' = Live /\ Stored' = Stored
           /\ w.op # "index" => index' = index
           /\ w.op # "config" => config' = config
           /\ w.op = "config" => config' = TRUE
           /\ w.op \notin CoinOps => coins' = coins
           /\ w.op = "slot" => /\ Live' = Live \cup {[value |-> w.value, parent |-> w.n]}
                               /\ Stored' = Stored \cup {[value |-> w.value, parent |-> w.n]}
           /\ w.op = "index" => Reindexed(index, index', w.value)
           /\ w.op = "mark" /\ w.n # 0 => Live' = {s \in Live : s.value # w.value} /\ Stored' = Stored
           /\ w.op = "markIx" /\ w.n # 0 =>
                 /\ Stored' = Stored
                 /\ w.value.key \in DOMAIN index => Live' = {s \in Live : s.value # index[w.value.key]}
                 /\ w.value.key \notin DOMAIN index => Live' = Live
<1>0. w.value \in Value /\ w.n \in Int /\ (w.op \notin {"slot", "index"} => w.n \in Nat)
  BY DEF Statement
<1>a. rows' = rows => Live' = Live /\ Stored' = Stored
  BY DEF Live, Stored
<1>1. CASE w.op = "slot" /\ SaveSlot(w.value, w.n)
  BY <1>0, <1>1, SaveLive DEF SaveSlot
<1>2. CASE w.op = "index" /\ SaveIndexed(w.value)
  <2>1. rows' = rows /\ config' = config /\ coins' = coins
    BY <1>2 DEF SaveIndexed
  <2>2. Reindexed(index, index', w.value)
    BY <1>2 DEF SaveIndexed, Reindexed
  <2> QED BY <1>a, <1>2, <2>1, <2>2
<1>3. CASE w.op = "mark" /\ MarkSlotAsSpent(w.value, w.n)
  <2>1. index' = index /\ config' = config /\ coins' = coins
    BY <1>3 DEF MarkSlotAsSpent
  <2>2. w.n # 0 => Live' = {s \in Live : s.value # w.value} /\ Stored' = Stored
    BY <1>0, <1>3, MarkLive
  <2> QED BY <1>3, <2>1, <2>2
<1>4. CASE w.op = "markIx" /\ MarkIndexedAsSpent(w.value.key, w.n)
  <2>1. CASE w.value.key \in DOMAIN index
    <3>1. MarkSlotAsSpent(index[w.value.key], w.n)
      BY <1>4, <2>1 DEF MarkIndexedAsSpent
    <3>2. index' = index /\ config' = config /\ coins' = coins
      BY <3>1 DEF MarkSlotAsSpent
    <3>3. w.n # 0 => Live' = {s \in Live : s.value # index[w.value.key]} /\ Stored' = Stored
      BY <1>0, <1>4, <3>1, MarkLive
    <3> QED BY <1>4, <2>1, <3>2, <3>3
  <2>2. CASE w.value.key \notin DOMAIN index
    <3>1. rows' = rows /\ index' = index /\ config' = config /\ coins' = coins
      BY <1>4, <2>2 DEF MarkIndexedAsSpent, db
    <3> QED BY <1>a, <1>4, <2>2, <3>1
  <2> QED BY <2>1, <2>2
<1>5. CASE w.op = "parent" /\ MarkParentSpent(w.n)
  <2>1. rows' = rows /\ index' = index /\ config' = config
    BY <1>5 DEF MarkParentSpent
  <2> QED BY <1>a, <1>5, <2>1 DEF CoinOps
<1>6. CASE (w.op = "coin" /\ InsertCoin(w.n, 0)) \/ (w.op = "spent" /\ InsertCoin(w.n, w.n + 1))
  <2>1. rows' = rows /\ index' = index /\ config' = config
    BY <1>6 DEF InsertCoin
  <2> QED BY <1>a, <1>6, <2>1 DEF CoinOps
<1>7. CASE w.op = "config" /\ SaveConfig
  <2>1. rows' = rows /\ index' = index /\ config' = TRUE /\ coins' = coins
    BY <1>7 DEF SaveConfig
  <2> QED BY <1>a, <1>7, <2>1
<1> QED BY <1>1, <1>2, <1>3, <1>4, <1>5, <1>6, <1>7 DEF Execute

-----------------------------------------------------------------------------
\* What a statement leaves of the work on a spend.

\* A statement's parts.
LEMMA PartsOf ==
    ASSUME NEW op, NEW v, NEW n
    PROVE  W(op, v, n).op = op /\ W(op, v, n).value = v /\ W(op, v, n).n = n
BY DEF W

\* A value that a spend makes was not spent before, and is not one that was
\* there.
LEMMA MadeNow ==
    ASSUME NEW ch, History(ch), NEW c \in Nat, c < Len(ch), NEW v \in Cr(ch, c + 1)
    PROVE  ~ SpentBy(ch, v, c) /\ v \notin ValuesOf(ch, c)
<1>1. Len(ch) \in Nat /\ c + 1 \in 1 .. Len(ch) /\ (c + 1) - 1 = c
  BY DEF History
<1>2. ASSUME NEW d \in 1 .. c PROVE v \notin Sp(ch, d)
  <2>1. d \in 1 .. Len(ch) /\ d < c + 1
    BY <1>1
  <2> QED BY <1>1, <2>1, OnceMade
<1>3. v \notin ValuesOf(ch, c)
  <2>1. /\ \A x \in Cr(ch, c + 1), y \in ValuesOf(ch, c) : y.key = x.key => y.counter < x.counter
        /\ ValuesOf(ch, c) \subseteq Value
    BY <1>1, TurnOf DEF Turn
  <2> SUFFICES ASSUME v \in ValuesOf(ch, c) PROVE FALSE
    OBVIOUS
  <2>2. v.counter < v.counter /\ v.counter \in Nat
    BY <2>1 DEF Value
  <2> QED BY <2>2
<1> QED BY <1>2, <1>3 DEF SpentBy

\* A row that the spend of c spends is one of the slots at c, unless the same
\* spend made it.
LEMMA SpentRow ==
    ASSUME Typed, NEW ch, History(ch), NEW c \in Nat, c < Len(ch), kind = "catalog",
           NEW s, Minted(ch, s), s.value \in Sp(ch, c + 1)
    PROVE  s.value \in ValuesOf(ch, c)
<1>1. Len(ch) \in Nat /\ c + 1 \in 1 .. Len(ch) /\ (c + 1) - 1 = c /\ c <= Len(ch)
  BY DEF History
<1>2. Sp(ch, c + 1) \subseteq ValuesOf(ch, c) \cup Cr(ch, c + 1)
  BY <1>1, TurnOf DEF Turn
<1>3. Known(ch, c) \cap Cr(ch, c + 1) = {} /\ ValuesOf(ch, c) \subseteq Known(ch, c) /\ Sp(ch, c + 1) \subseteq Known(ch, c + 1)
  BY <1>1, KnownNext
<1>4. SUFFICES s.value \notin Cr(ch, c + 1)
  BY <1>2
<1>5. CASE s.parent = Eve /\ s.value \in {EndSlot(Lo), EndSlot(Hi)}
  <2>1. s.value \in ValuesOf(ch, 0)
    BY <1>5, ValuesOfNext
  <2>2. 1 \in 1 .. Len(ch) /\ 1 - 1 = 0
    BY <1>1
  <2>3. ValuesOf(ch, 0) \subseteq Known(ch, 0)
    BY <2>2, KnownNext
  <2>4. Known(ch, 0) \subseteq Known(ch, c)
    BY <1>1, KnownGrows
  <2> QED BY <1>3, <2>1, <2>3, <2>4
<1>6. CASE s.parent \in 0 .. Len(ch) - 1 /\ s.value \in Cr(ch, s.parent + 1) /\ s.value \notin Sp(ch, s.parent + 1)
  <2> DEFINE d == s.parent + 1
  <2>1. d \in 1 .. Len(ch) /\ d - 1 \in Nat /\ d \in Nat /\ d <= Len(ch) /\ d - 1 <= Len(ch) /\ s.value \in Cr(ch, d) /\ s.value \notin Sp(ch, d)
    BY <1>1, <1>6
  <2> HIDE DEF d
  <2>2. CASE d <= c
    <3>1. s.value \in Known(ch, d) /\ Known(ch, d) \subseteq Known(ch, c)
      BY <1>1, <2>1, <2>2, KnownNext, KnownGrows
    <3> QED BY <1>3, <3>1
  <2>3. CASE d = c + 1
    BY <2>1, <2>3
  <2>4. CASE d > c + 1
    <3>1. c + 1 \in Nat /\ c + 1 <= d - 1
      BY <2>1, <2>4
    <3>2. s.value \in Known(ch, d - 1)
      BY <1>3, <2>1, <3>1, KnownGrows
    <3>3. Known(ch, d - 1) \cap Cr(ch, d) = {}
      BY <2>1, KnownNext
    <3> QED BY <2>1, <3>2, <3>3
  <2>5. d <= c \/ d = c + 1 \/ d > c + 1
    BY <2>1
  <2> QED BY <2>2, <2>3, <2>4, <2>5
<1> QED BY <1>5, <1>6 DEF Minted

\* Two values of one key: what a spend leaves of them.
LEMMA SameKey ==
    ASSUME NEW ch, History(ch), NEW c \in Nat, c < Len(ch)
    PROVE  /\ \A v, u \in ValuesOf(ch, c) : v.key = u.key => v = u
           /\ \A v \in Cr(ch, c + 1), u \in ValuesOf(ch, c) : u.key = v.key => u \in Sp(ch, c + 1)
           /\ \A v, u \in Net(ch, c + 1) : v.key = u.key => v = u
           /\ Sp(ch, c + 1) \subseteq ValuesOf(ch, c) \cup Cr(ch, c + 1)
           /\ Net(ch, c + 1) \subseteq Cr(ch, c + 1) /\ Net(ch, c + 1) \cap Sp(ch, c + 1) = {}
<1>1. Len(ch) \in Nat /\ c + 1 \in 1 .. Len(ch) /\ (c + 1) - 1 = c
  BY DEF History
<1>2. /\ Turn(ValuesOf(ch, c), Sp(ch, c + 1), Cr(ch, c + 1))
      /\ Good(ValuesOf(ch, c)) /\ Good(ValuesOf(ch, c + 1))
      /\ ValuesOf(ch, c + 1) = (ValuesOf(ch, c) \ Sp(ch, c + 1)) \cup (Cr(ch, c + 1) \ Sp(ch, c + 1))
  BY <1>1, TurnOf
<1>3. Net(ch, c + 1) \subseteq ValuesOf(ch, c + 1)
  BY <1>2 DEF Net
<1> QED BY <1>2, <1>3 DEF Turn, Good, ListInv, OneSlotPerKey, Net

\* At a coin whose spend a walk is writing, the database is still good for
\* resuming there.
LEMMA SpendAt ==
    ASSUME NEW ch, NEW live, NEW ix, NEW Q, NEW c \in Nat, Len(ch) \in Nat, SpendOK(ch, live, ix, Q, c)
    PROVE  AtOK(ch, live, ix, {}, c)
<1>1. c < Len(ch) /\ c <= Len(ch) /\ Sound(ch, live, c) /\ Indexed(ch, live, ix, {}, c)
  BY DEF SpendOK
<1>2. \A s \in SlotsOf(ch, c) : s.value \notin Sp(ch, c + 1) => s \in live
  BY DEF SpendOK
<1>3. Held(ch, live, {}, c)
  BY <1>1, <1>2 DEF Held
<1> QED BY <1>1, <1>3 DEF AtOK

\* A walk that has started where the database is good stays there.
LEMMA MoreQueued ==
    ASSUME NEW ch, NEW live, NEW ix, NEW Q, NEW c, AtOK(ch, live, ix, {}, c)
    PROVE  AtOK(ch, live, ix, Q, c)
<1>1. Held(ch, live, Q, c)
  BY DEF AtOK, Held
<1>2. Indexed(ch, live, ix, Q, c)
  BY DEF AtOK, Indexed
<1> QED BY <1>1, <1>2 DEF AtOK

\* When the writes of a spend are done, the database is good one coin further.
LEMMA SpendDone ==
    ASSUME NEW ch, History(ch), NEW live, NEW ix, NEW c \in Nat, SpendOK(ch, live, ix, {}, c)
    PROVE  AtOK(ch, live, ix, {}, c + 1)
<1>1. Len(ch) \in Nat /\ c < Len(ch) /\ c + 1 \in 1 .. Len(ch) /\ (c + 1) - 1 = c /\ c + 1 <= Len(ch)
  BY DEF SpendOK, History
<1>2. /\ Sound(ch, live, c) /\ \A s \in live : s.value \notin Sp(ch, c + 1)
      /\ \A s \in SlotsOf(ch, c) : s.value \notin Sp(ch, c + 1) => s \in live
      /\ \A v \in Net(ch, c + 1) : [value |-> v, parent |-> c] \in live
      /\ Indexed(ch, live, ix, {}, c)
      /\ kind = "catalog" => \A v \in Net(ch, c + 1) : v.key \in DOMAIN ix /\ ix[v.key] = v
  BY DEF SpendOK
<1>3. Sound(ch, live, c + 1)
  <2>1. 1 .. c + 1 = (1 .. c) \cup {c + 1}
    OBVIOUS
  <2> QED BY <1>2, <2>1 DEF Sound, SpentBy
<1>4. Held(ch, live, {}, c + 1)
  <2> SUFFICES ASSUME NEW s \in SlotsOf(ch, c + 1) PROVE s \in live
    BY DEF Held
  <2>1. SlotsOf(ch, c + 1) = Left_(SlotsOf(ch, c), ch[c + 1]) \cup Made(ch[c + 1], c)
    BY <1>1, TurnOf
  <2>2. CASE s \in Left_(SlotsOf(ch, c), ch[c + 1])
    BY <1>2, <2>2 DEF Left_, Sp
  <2>3. CASE s \in Made(ch[c + 1], c)
    BY <1>2, <2>3 DEF Made, Net, Sp, Cr
  <2> QED BY <2>1, <2>2, <2>3
<1>5. Indexed(ch, live, ix, {}, c + 1)
  <2> SUFFICES ASSUME kind = "catalog", NEW v \in ValuesOf(ch, c + 1) PROVE v.key \in DOMAIN ix /\ ix[v.key] = v
    BY DEF Indexed
  <2>1. ValuesOf(ch, c + 1) = (ValuesOf(ch, c) \ Sp(ch, c + 1)) \cup Net(ch, c + 1)
    BY ValuesOfNext DEF Net
  <2>2. CASE v \in Net(ch, c + 1)
    BY <1>2, <2>2
  <2>3. CASE v \in ValuesOf(ch, c) /\ v \notin Sp(ch, c + 1)
    <3>1. PICK s \in SlotsOf(ch, c) : s.value = v
      BY <2>3 DEF ValuesOf
    <3>2. s \in live
      BY <1>2, <2>3, <3>1
    <3> QED BY <1>2, <2>3, <3>1, <3>2 DEF Indexed
  <2> QED BY <2>1, <2>2, <2>3
<1> QED BY <1>1, <1>3, <1>4, <1>5 DEF AtOK

-----------------------------------------------------------------------------
\* One statement of the work on a spend.

\* It saves a value that the spend made.
LEMMA SpendSlot ==
    ASSUME NEW ch, History(ch), NEW c \in Nat, NEW live, NEW ix, NEW Q, NEW rest, NEW w,
           Q \subseteq rest \cup {w}, SpendOK(ch, live, ix, Q, c),
           w.op = "slot", w.value \in Saves(ch, c + 1),
           kind # "catalog" => \A v \in Sp(ch, c + 1) : W("mark", v, c + 1) \in Q
    PROVE  SpendOK(ch, live \cup {[value |-> w.value, parent |-> c]}, ix, rest, c)
<1> DEFINE new == [value |-> w.value, parent |-> c]
           more == live \cup {new}
<1>0. new.value = w.value
  OBVIOUS
<1>1. c < Len(ch) /\ w.value \in Cr(ch, c + 1) /\ (kind = "catalog" => w.value \notin Sp(ch, c + 1))
  BY DEF SpendOK, Saves, Net
<1>2. ~ SpentBy(ch, w.value, c) /\ w.value \notin ValuesOf(ch, c)
  BY <1>1, MadeNow
<1>3. \A op, v, n : op # "slot" /\ W(op, v, n) \in Q => W(op, v, n) \in rest
  BY PartsOf
<1>4. MarkOp # "slot" /\ (kind # "catalog" => MarkOp = "mark")
  BY DEF MarkOp
<1> HIDE DEF new
<1>5. Sound(ch, more, c)
  BY <1>0, <1>2 DEF SpendOK, Sound
<1>6. \A s \in more : s.value \in Sp(ch, c + 1) => W(MarkOp, s.value, c + 1) \in rest
  <2>1. \A s \in live : s.value \in Sp(ch, c + 1) => W(MarkOp, s.value, c + 1) \in rest
    BY <1>3, <1>4 DEF SpendOK
  <2>2. w.value \in Sp(ch, c + 1) => W(MarkOp, w.value, c + 1) \in rest
    BY <1>1, <1>3, <1>4
  <2> QED BY <1>0, <2>1, <2>2
<1>7. \A s \in SlotsOf(ch, c) : s.value \notin Sp(ch, c + 1) => s \in more
  BY DEF SpendOK
<1>8. \A v \in Net(ch, c + 1) : [value |-> v, parent |-> c] \in more \/ W("slot", v, c) \in rest
  <2> SUFFICES ASSUME NEW v \in Net(ch, c + 1), [value |-> v, parent |-> c] \notin live, W("slot", v, c) \notin rest
               PROVE  [value |-> v, parent |-> c] \in more
    OBVIOUS
  <2>1. W("slot", v, c) = w
    BY DEF SpendOK
  <2>2. v = w.value
    BY <2>1, PartsOf
  <2> QED BY <2>2 DEF new
<1>9. Indexed(ch, more, ix, {}, c)
  <2>1. \A s \in more : s.value \in ValuesOf(ch, c) => s \in live
    BY <1>0, <1>2
  <2> HIDE DEF more
  <2> QED BY <2>1 DEF SpendOK, Indexed
<1>10. kind = "catalog" =>
          \A v \in Net(ch, c + 1) : (v.key \in DOMAIN ix /\ ix[v.key] = v) \/ W("index", v, c) \in rest
  BY <1>3 DEF SpendOK
<1> HIDE DEF more
<1>11. SpendOK(ch, more, ix, rest, c)
  BY <1>1, <1>5, <1>6, <1>7, <1>8, <1>9, <1>10 DEF SpendOK
<1> QED BY <1>11 DEF more, new

\* It indexes a value that the spend leaves; no mark is pending then that looks
\* its value up in the index.
LEMMA SpendIndex ==
    ASSUME NEW ch, History(ch), NEW c \in Nat, NEW live, NEW ix, NEW Q, NEW rest, NEW w, NEW jx,
           Q \subseteq rest \cup {w}, SpendOK(ch, live, ix, Q, c),
           w.op = "index", w.value \in Saves(ch, c + 1),
           Reindexed(ix, jx, w.value),
           kind = "catalog" => \A v : W("markIx", v, c + 1) \notin Q
    PROVE  SpendOK(ch, live, jx, rest, c)
<1>0. /\ DOMAIN jx = DOMAIN ix \cup {w.value.key}
      /\ \A k \in DOMAIN jx : jx[k] = IF k = w.value.key THEN w.value ELSE ix[k]
  BY DEF Reindexed
<1>1. c < Len(ch) /\ w.value \in Cr(ch, c + 1) /\ (kind = "catalog" => w.value \in Net(ch, c + 1))
  BY DEF SpendOK, Saves, Net
<1>2. \A op, v, n : op # "index" /\ W(op, v, n) \in Q => W(op, v, n) \in rest
  BY PartsOf
<1>3. MarkOp # "index" /\ (kind = "catalog" => MarkOp = "markIx")
  BY DEF MarkOp
<1>4. \A s \in live : s.value \in Sp(ch, c + 1) => W(MarkOp, s.value, c + 1) \in rest
  BY <1>2, <1>3 DEF SpendOK
<1>5. \A v \in Net(ch, c + 1) : [value |-> v, parent |-> c] \in live \/ W("slot", v, c) \in rest
  BY <1>2 DEF SpendOK
<1>6. Indexed(ch, live, jx, {}, c)
  <2> SUFFICES ASSUME kind = "catalog", NEW v \in ValuesOf(ch, c)
               PROVE  \/ v.key \in DOMAIN jx /\ jx[v.key] = v
                      \/ c < Len(ch) /\ v.key \in DOMAIN jx /\ jx[v.key] \in Net(ch, c + 1) /\ \A s \in live : s.value # v
    BY DEF Indexed
  <2>1. CASE v.key # w.value.key
    <3>1. \/ v.key \in DOMAIN ix /\ ix[v.key] = v
          \/ c < Len(ch) /\ v.key \in DOMAIN ix /\ ix[v.key] \in Net(ch, c + 1) /\ \A s \in live : s.value # v
      BY DEF SpendOK, Indexed
    <3> QED BY <1>0, <2>1, <3>1
  <2>2. CASE v.key = w.value.key
    <3>1. v \in Sp(ch, c + 1)
      BY <1>1, <2>2, SameKey
    <3>2. \A s \in live : s.value # v
      BY <1>3, <3>1 DEF SpendOK
    <3> QED BY <1>0, <1>1, <2>2, <3>2
  <2> QED BY <2>1, <2>2
<1>7. ASSUME kind = "catalog", NEW v \in Net(ch, c + 1)
      PROVE  (v.key \in DOMAIN jx /\ jx[v.key] = v) \/ W("index", v, c) \in rest
  <2>1. CASE v.key = w.value.key
    <3>1. v = w.value
      BY <1>1, <1>7, <2>1, SameKey
    <3> QED BY <1>0, <3>1
  <2>2. CASE v.key # w.value.key
    <3>1. (v.key \in DOMAIN ix /\ ix[v.key] = v) \/ W("index", v, c) \in Q
      BY <1>7 DEF SpendOK
    <3>2. W("index", v, c) # w
      BY <2>2, PartsOf
    <3> QED BY <1>0, <2>2, <3>1, <3>2
  <2> QED BY <2>1, <2>2
<1> QED BY <1>4, <1>5, <1>6, <1>7 DEF SpendOK

\* It marks a value (xchandles/sync.rs).
LEMMA SpendMark ==
    ASSUME NEW ch, History(ch), NEW c \in Nat, NEW live, NEW ix, NEW Q, NEW rest, NEW w,
           Q \subseteq rest \cup {w}, SpendOK(ch, live, ix, Q, c),
           kind # "catalog", w.op = "mark", w.value \in Sp(ch, c + 1)
    PROVE  SpendOK(ch, {s \in live : s.value # w.value}, ix, rest, c)
<1> DEFINE less == {s \in live : s.value # w.value}
<1>1. \A op, v, n : (op # "mark" \/ v # w.value) /\ W(op, v, n) \in Q => W(op, v, n) \in rest
  BY PartsOf
<1>2. Sound(ch, less, c)
  BY DEF SpendOK, Sound
<1>3. \A s \in less : s.value \in Sp(ch, c + 1) => W(MarkOp, s.value, c + 1) \in rest
  BY <1>1 DEF SpendOK
<1>4. \A s \in SlotsOf(ch, c) : s.value \notin Sp(ch, c + 1) => s \in less
  BY DEF SpendOK
<1>5. ASSUME NEW v \in Net(ch, c + 1)
      PROVE  [value |-> v, parent |-> c] \in less \/ W("slot", v, c) \in rest
  <2>1. v # w.value /\ [value |-> v, parent |-> c].value = v
    BY DEF Net
  <2>2. [value |-> v, parent |-> c] \in live \/ W("slot", v, c) \in Q
    BY DEF SpendOK
  <2> QED BY <1>1, <2>1, <2>2
<1>6. Indexed(ch, less, ix, {}, c)
  BY DEF Indexed
<1> HIDE DEF less
<1>7. SpendOK(ch, less, ix, rest, c)
  BY <1>2, <1>3, <1>4, <1>5, <1>6 DEF SpendOK
<1> QED BY <1>7 DEF less

\* It marks the value that the index has for a key (catalog/sync.rs).
LEMMA SpendMarkIndexed ==
    ASSUME Typed, NEW ch, History(ch), NEW c \in Nat, NEW live, NEW ix, NEW Q, NEW rest, NEW w, NEW less,
           Q \subseteq rest \cup {w}, SpendOK(ch, live, ix, Q, c),
           kind = "catalog", w.op = "markIx", w.value \in Sp(ch, c + 1),
           \A s \in live : Minted(ch, s),
           \A k \in DOMAIN ix : ix[k].key = k,
           \A v \in Net(ch, c + 1) : W("slot", v, c) \in Q,
           w.value.key \in DOMAIN ix => less = {s \in live : s.value # ix[w.value.key]},
           w.value.key \notin DOMAIN ix => less = live
    PROVE  SpendOK(ch, less, ix, rest, c)
<1> DEFINE k == w.value.key
<1>0. c < Len(ch)
  BY DEF SpendOK
<1>1. \A op, v, n : (op # "markIx" \/ v # w.value) /\ W(op, v, n) \in Q => W(op, v, n) \in rest
  BY PartsOf
<1>2. less \subseteq live
  OBVIOUS
<1>3. \A s \in less : s.value # w.value
  <2> SUFFICES ASSUME NEW s \in less, s.value = w.value PROVE FALSE
    OBVIOUS
  <2>1. s \in live /\ w.value \in ValuesOf(ch, c)
    BY <1>0, <1>2, SpentRow
  <2>2. k \in DOMAIN ix /\ ix[k] = w.value
    BY <2>1 DEF SpendOK, Indexed
  <2> QED BY <2>2
<1>4. \A s \in SlotsOf(ch, c) : s.value \notin Sp(ch, c + 1) => s \in less
  <2> SUFFICES ASSUME NEW s \in SlotsOf(ch, c), s.value \notin Sp(ch, c + 1), k \in DOMAIN ix, s.value = ix[k]
               PROVE  FALSE
    BY DEF SpendOK
  <2>1. s.value \in ValuesOf(ch, c) /\ s.value.key = w.value.key
    BY DEF ValuesOf
  <2>2. w.value \in ValuesOf(ch, c) \/ w.value \in Cr(ch, c + 1)
    BY <1>0, SameKey
  <2> QED BY <1>0, <2>1, <2>2, SameKey
<1>5. Sound(ch, less, c)
  BY <1>2 DEF SpendOK, Sound
<1>6. \A s \in less : s.value \in Sp(ch, c + 1) => W(MarkOp, s.value, c + 1) \in rest
  BY <1>1, <1>2, <1>3 DEF SpendOK
<1>7. \A v \in Net(ch, c + 1) : [value |-> v, parent |-> c] \in less \/ W("slot", v, c) \in rest
  BY <1>1
<1>8. Indexed(ch, less, ix, {}, c)
  BY <1>2 DEF SpendOK, Indexed
<1>9. \A v \in Net(ch, c + 1) : (v.key \in DOMAIN ix /\ ix[v.key] = v) \/ W("index", v, c) \in rest
  BY <1>1 DEF SpendOK
<1> QED BY <1>0, <1>4, <1>5, <1>6, <1>7, <1>8, <1>9 DEF SpendOK

\* It does not touch the slots.
LEMMA SpendOther ==
    ASSUME NEW ch, NEW c \in Nat, NEW live, NEW ix, NEW Q, NEW rest, NEW w,
           Q \subseteq rest \cup {w}, SpendOK(ch, live, ix, Q, c),
           w.op \notin {"slot", "index", "mark", "markIx"}
    PROVE  SpendOK(ch, live, ix, rest, c)
<1>1. \A op, v, n : op \in {"slot", "index", "mark", "markIx"} /\ W(op, v, n) \in Q => W(op, v, n) \in rest
  BY PartsOf
<1>2. MarkOp \in {"mark", "markIx"}
  BY DEF MarkOp
<1> QED BY <1>1, <1>2 DEF SpendOK

-----------------------------------------------------------------------------
\* What a statement leaves of a queue.

\* The elements of the rest of a queue.
LEMMA RestElements ==
    ASSUME NEW X, NEW q \in Seq(X), q # <<>>
    PROVE  /\ Head(q) \in Elements(q) /\ Tail(q) \in Seq(X) /\ Elements(Tail(q)) \subseteq Elements(q)
           /\ Elements(q) \subseteq Elements(Tail(q)) \cup {Head(q)}
<1>1. /\ 1 \in DOMAIN q /\ Head(q) = q[1] /\ Tail(q) \in Seq(X)
      /\ \A j \in DOMAIN Tail(q) : j \in Nat /\ j + 1 \in DOMAIN q /\ Tail(q)[j] = q[j + 1]
      /\ \A i \in DOMAIN q : i # 1 => i - 1 \in DOMAIN Tail(q) /\ Tail(q)[i - 1] = q[i]
  BY RestOf
<1> DEFINE t == Tail(q)
<1> HIDE DEF t
<1>2. Elements(t) \subseteq Elements(q)
  BY <1>1 DEF Elements, t
<1>3. Elements(q) \subseteq Elements(t) \cup {q[1]}
  BY <1>1 DEF Elements, t
<1>4. q[1] \in Elements(q)
  BY <1>1 DEF Elements
<1> QED BY <1>1, <1>2, <1>3, <1>4 DEF t

\* A sorted queue begins with what comes first and leaves a sorted one.
LEMMA RestSorted ==
    ASSUME NEW X, NEW q \in Seq(X), q # <<>>, Sorted(q)
    PROVE  Sorted(Tail(q)) /\ \A w \in Elements(Tail(q)) : Phase(Head(q)) <= Phase(w)
<1>1. /\ 1 \in DOMAIN q /\ Head(q) = q[1]
      /\ \A j \in DOMAIN Tail(q) : j \in Nat /\ j + 1 \in DOMAIN q /\ Tail(q)[j] = q[j + 1]
  BY RestOf
<1> DEFINE t == Tail(q)
<1>d. \A j \in DOMAIN t : j \in Nat /\ j + 1 \in DOMAIN q /\ t[j] = q[j + 1]
  BY <1>1
<1> HIDE DEF t
<1>2. Sorted(t)
  <2> SUFFICES ASSUME NEW i \in DOMAIN t, NEW j \in DOMAIN t, i < j PROVE Phase(t[i]) <= Phase(t[j])
    BY DEF Sorted
  <2>1. i + 1 \in DOMAIN q /\ j + 1 \in DOMAIN q /\ i + 1 < j + 1
    BY <1>d
  <2> QED BY <1>d, <2>1 DEF Sorted
<1>3. ASSUME NEW w \in Elements(t) PROVE Phase(q[1]) <= Phase(w)
  <2>1. PICK j \in DOMAIN t : w = t[j]
    BY DEF Elements
  <2>2. j \in Nat /\ j + 1 \in DOMAIN q /\ w = q[j + 1]
    BY <1>d, <2>1
  <2>3. j # 0
    <3>1. t \in Seq(X)
      BY <1>1, RestOf DEF t
    <3> QED BY <3>1
  <2>4. 1 < j + 1
    BY <2>2, <2>3
  <2> QED BY <1>1, <2>2, <2>4 DEF Sorted
<1> QED BY <1>1, <1>2, <1>3 DEF t

\* What a process is doing is the same after a statement.
LEMMA RestProcess ==
    ASSUME NEW r \in Process, NEW t, t = [r EXCEPT !.todo = Tail(@)], r.todo # <<>>
    PROVE  /\ t.todo = Tail(r.todo) /\ t.at = r.at /\ t.pc = r.pc /\ t.spent = r.spent
           /\ r.todo \in Seq(Statement) /\ r.at \in Nat
BY DEF Process

\* The rest of the queue of a walk.
LEMMA WalkRest ==
    ASSUME NEW r \in Process, NEW t, t = [r EXCEPT !.todo = Tail(@)], r.todo # <<>>, WalkQueue(r)
    PROVE  /\ WalkQueue(t)
           /\ Head(r.todo).op = "slot" => W("index", Head(r.todo).value, Eve) \in Elements(t.todo)
<1>1. t.todo = Tail(r.todo) /\ t.at = r.at /\ r.todo \in Seq(Statement)
  BY RestProcess
<1>2. Elements(t.todo) \subseteq Elements(r.todo)
  BY <1>1, RestElements
<1>3. /\ 1 \in DOMAIN r.todo /\ Head(r.todo) = r.todo[1]
      /\ \A j \in DOMAIN t.todo : j \in Nat /\ j + 1 \in DOMAIN r.todo /\ t.todo[j] = r.todo[j + 1]
      /\ \A i \in DOMAIN r.todo : i # 1 => i - 1 \in DOMAIN t.todo /\ t.todo[i - 1] = r.todo[i]
  BY <1>1, RestOf
<1>4. DOMAIN r.todo \subseteq Nat
  BY <1>1
<1>5. ASSUME NEW i \in DOMAIN t.todo, t.todo[i].op = "slot"
      PROVE  \E j \in DOMAIN t.todo : i < j /\ t.todo[j] = W("index", t.todo[i].value, Eve)
  <2>1. i \in Nat /\ i + 1 \in DOMAIN r.todo /\ t.todo[i] = r.todo[i + 1]
    BY <1>3
  <2>2. PICK j \in DOMAIN r.todo : i + 1 < j /\ r.todo[j] = W("index", r.todo[i + 1].value, Eve)
    BY <1>5, <2>1 DEF WalkQueue
  <2>3. j # 1 /\ i < j - 1
    BY <1>4, <2>1, <2>2
  <2> QED BY <1>3, <2>1, <2>2, <2>3
<1>6. ASSUME Head(r.todo).op = "slot"
      PROVE  W("index", Head(r.todo).value, Eve) \in Elements(t.todo)
  <2>1. PICK j \in DOMAIN r.todo : 1 < j /\ r.todo[j] = W("index", r.todo[1].value, Eve)
    BY <1>3, <1>6 DEF WalkQueue
  <2>2. j # 1
    BY <2>1
  <2> QED BY <1>3, <2>1, <2>2 DEF Elements
<1> QED BY <1>1, <1>2, <1>5, <1>6 DEF WalkQueue

\* The rest of the queue of a spend.
LEMMA SpendRest ==
    ASSUME NEW ch, NEW r \in Process, NEW t, t = [r EXCEPT !.todo = Tail(@)], r.todo # <<>>, SpendQueue(ch, r)
    PROVE  /\ SpendQueue(ch, t)
           /\ Head(r.todo).op = "index" => \A v, n : W("markIx", v, n) \notin Elements(r.todo)
<1> DEFINE w == Head(r.todo)
           Q == Elements(r.todo)
           R == Elements(t.todo)
           c == r.at
<1>1. t.todo = Tail(r.todo) /\ t.at = c /\ r.todo \in Seq(Statement)
  BY RestProcess
<1>2. R \subseteq Q /\ Q \subseteq R \cup {w} /\ w \in Q
  BY <1>1, RestElements
<1>3. Sorted(t.todo) /\ \A x \in R : Phase(w) <= Phase(x)
  BY <1>1, RestSorted DEF SpendQueue
<1>4. \A x \in Q : \/ x.op \in {"parent", "spent"}
                   \/ x.op \in {"slot", "index"} /\ x.n = c /\ x.value \in Saves(ch, c + 1)
                   \/ x.op = MarkOp /\ x.n = c + 1 /\ x.value \in Sp(ch, c + 1)
  BY DEF SpendQueue
<1> HIDE DEF w, Q, R
<1>5. ASSUME kind # "catalog", NEW x \in R, x.op \in {"slot", "index"}, NEW v \in Sp(ch, c + 1)
      PROVE  W("mark", v, c + 1) \in R
  <2>1. W("mark", v, c + 1) \in Q
    BY <1>2, <1>5 DEF SpendQueue, Q
  <2>2. Phase(x) = 2
    BY <1>5 DEF Phase, CoinOps
  <2>3. w # W("mark", v, c + 1)
    <3>1. Phase(W("mark", v, c + 1)) = 3
      BY PartsOf DEF Phase, CoinOps
    <3> QED BY <1>3, <1>5, <2>2, <3>1
  <2> QED BY <1>2, <2>1, <2>3
<1>6. ASSUME kind = "catalog", NEW x \in R, x.op = "markIx", NEW v \in Net(ch, c + 1)
      PROVE  W("slot", v, c) \in R /\ W("index", v, c) \in R
  <2>1. W("slot", v, c) \in Q /\ W("index", v, c) \in Q
    BY <1>2, <1>6 DEF SpendQueue, Q
  <2>2. Phase(x) = 1
    BY <1>6 DEF Phase, CoinOps
  <2>3. w # W("slot", v, c) /\ w # W("index", v, c)
    <3>1. Phase(W("slot", v, c)) = 2 /\ Phase(W("index", v, c)) = 2
      BY PartsOf DEF Phase, CoinOps
    <3> QED BY <1>3, <1>6, <2>2, <3>1
  <2> QED BY <1>2, <2>1, <2>3
<1>7. ASSUME w.op = "index", NEW v, NEW n, W("markIx", v, n) \in Q PROVE FALSE
  <2>1. W("markIx", v, n).op = "markIx"
    BY PartsOf
  <2>2. W("markIx", v, n) \in R
    BY <1>2, <1>7, <2>1
  <2>3. Phase(w) = 2 /\ Phase(W("markIx", v, n)) = 1
    BY <1>7, <2>1 DEF Phase, CoinOps
  <2>4. Phase(w) <= Phase(W("markIx", v, n))
    BY <1>3, <2>2
  <2> QED BY <2>3, <2>4
<1>8. SpendQueue(ch, t)
  BY <1>1, <1>2, <1>3, <1>4, <1>5, <1>6 DEF SpendQueue, R
<1> QED BY <1>7, <1>8 DEF w, Q

-----------------------------------------------------------------------------
\* One statement of a walk that starts from the launcher.

\* It saves an end's slot, which it indexes later.
LEMMA WalkSlot ==
    ASSUME NEW ch, NEW live, NEW ix, NEW Q, NEW rest, NEW w, Q \subseteq rest \cup {w},
           AtOK(ch, live, ix, Q, 0), w.op = "slot", w.n = Eve, W("index", w.value, Eve) \in rest
    PROVE  AtOK(ch, live \cup {[value |-> w.value, parent |-> Eve]}, ix, rest, 0)
<1> DEFINE new == [value |-> w.value, parent |-> Eve]
           more == live \cup {new}
<1>0. new.value = w.value
  OBVIOUS
<1>1. Sound(ch, more, 0)
  BY DEF Sound, SpentBy
<1>2. Held(ch, more, rest, 0)
  <2> SUFFICES ASSUME NEW s \in SlotsOf(ch, 0), s \notin more, ~ (0 < Len(ch) /\ s.value \in Sp(ch, 0 + 1))
               PROVE  W("slot", s.value, s.parent) \in rest
    BY DEF Held
  <2>1. W("slot", s.value, s.parent) \in Q
    BY DEF AtOK, Held
  <2>2. PICK v : s = [value |-> v, parent |-> Eve]
    BY SlotsOfNext DEF Ends
  <2>3. W("slot", s.value, s.parent) # w
    BY <2>2, PartsOf
  <2> QED BY <2>1, <2>3
<1>3. Indexed(ch, more, ix, rest, 0)
  <2> SUFFICES ASSUME kind = "catalog", NEW v \in ValuesOf(ch, 0)
               PROVE  \/ v.key \in DOMAIN ix /\ ix[v.key] = v
                      \/ W("index", v, Eve) \in rest
                      \/ 0 < Len(ch) /\ v.key \in DOMAIN ix /\ ix[v.key] \in Net(ch, 0 + 1) /\ \A s \in more : s.value # v
    BY DEF Indexed
  <2>1. \/ v.key \in DOMAIN ix /\ ix[v.key] = v
        \/ W("index", v, Eve) \in Q
        \/ 0 < Len(ch) /\ v.key \in DOMAIN ix /\ ix[v.key] \in Net(ch, 0 + 1) /\ \A s \in live : s.value # v
    BY DEF AtOK, Indexed
  <2>2. W("index", v, Eve) \in Q => W("index", v, Eve) \in rest
    BY PartsOf
  <2>3. CASE v = w.value
    BY <2>3
  <2>4. CASE v # w.value
    BY <1>0, <2>1, <2>2, <2>4
  <2> QED BY <2>3, <2>4
<1> HIDE DEF more
<1>4. AtOK(ch, more, ix, rest, 0)
  BY <1>1, <1>2, <1>3 DEF AtOK
<1> QED BY <1>4 DEF more, new

\* It indexes an end's slot.
LEMMA WalkIndex ==
    ASSUME NEW ch, History(ch), NEW live, NEW ix, NEW Q, NEW rest, NEW w, NEW jx, Q \subseteq rest \cup {w},
           AtOK(ch, live, ix, Q, 0), w.op = "index", w.value \in {EndSlot(Lo), EndSlot(Hi)},
           Reindexed(ix, jx, w.value)
    PROVE  AtOK(ch, live, jx, rest, 0)
<1>0. /\ DOMAIN jx = DOMAIN ix \cup {w.value.key}
      /\ \A k \in DOMAIN jx : jx[k] = IF k = w.value.key THEN w.value ELSE ix[k]
  BY DEF Reindexed
<1>1. Held(ch, live, rest, 0)
  <2>1. \A v, n : W("slot", v, n) \in Q => W("slot", v, n) \in rest
    BY PartsOf
  <2> QED BY <2>1 DEF AtOK, Held
<1>2. Indexed(ch, live, jx, rest, 0)
  <2> SUFFICES ASSUME kind = "catalog", NEW v \in ValuesOf(ch, 0)
               PROVE  \/ v.key \in DOMAIN jx /\ jx[v.key] = v
                      \/ W("index", v, Eve) \in rest
                      \/ 0 < Len(ch) /\ v.key \in DOMAIN jx /\ jx[v.key] \in Net(ch, 0 + 1) /\ \A s \in live : s.value # v
    BY DEF Indexed
  <2>1. \/ v.key \in DOMAIN ix /\ ix[v.key] = v
        \/ W("index", v, Eve) \in Q
        \/ 0 < Len(ch) /\ v.key \in DOMAIN ix /\ ix[v.key] \in Net(ch, 0 + 1) /\ \A s \in live : s.value # v
    BY DEF AtOK, Indexed
  <2>2. Good(ValuesOf(ch, 0)) /\ w.value \in ValuesOf(ch, 0)
    BY ValuesOfNext DEF History
  <2>3. CASE v.key = w.value.key
    <3>1. v = w.value
      BY <2>2, <2>3 DEF Good, ListInv, OneSlotPerKey
    <3> QED BY <1>0, <3>1
  <2>4. CASE v.key # w.value.key
    <3>1. W("index", v, Eve) # w
      BY <2>4, PartsOf
    <3> QED BY <1>0, <2>1, <2>4, <3>1
  <2> QED BY <2>3, <2>4
<1> QED BY <1>1, <1>2 DEF AtOK

\* It does something else.
LEMMA WalkOther ==
    ASSUME NEW ch, NEW live, NEW ix, NEW Q, NEW rest, NEW w, NEW c, Q \subseteq rest \cup {w},
           AtOK(ch, live, ix, Q, c), w.op \notin {"slot", "index"}
    PROVE  AtOK(ch, live, ix, rest, c)
<1>1. \A op, v, n : op \in {"slot", "index"} /\ W(op, v, n) \in Q => W(op, v, n) \in rest
  BY PartsOf
<1>2. Held(ch, live, rest, c)
  BY <1>1 DEF AtOK, Held
<1>3. Indexed(ch, live, ix, rest, c)
  BY <1>1 DEF AtOK, Indexed
<1> QED BY <1>2, <1>3 DEF AtOK

-----------------------------------------------------------------------------
\* Steps of the one process.

\* The registry's kind does not change, so what holds of the database after a
\* step can be said with the tables after the step.
LEMMA Primed ==
    ASSUME use' = use, NEW p
    PROVE  /\ (\A s \in Stored : Minted(chain, s))' <=> \A s \in Stored' : Minted(chain', s)
           /\ (\A t \in Tips : AtOK(chain, Live, index, {}, t))' <=> \A t \in Tips' : AtOK(chain', Live', index', {}, t)
           /\ Progress(chain, Live, Stored, index, proc[p])' <=> Progress(chain', Live', Stored', index', proc'[p])
<1>1. kind' = kind
  BY DEF kind
<1>2. (\A s \in Stored : Minted(chain, s))' <=> \A s \in Stored' : Minted(chain', s)
  BY <1>1 DEF Minted, Sp, Cr
<1>3. \A Q, c : AtOK(chain, Live, index, Q, c)' <=> AtOK(chain', Live', index', Q, c)
  BY <1>1 DEF AtOK, Sound, Held, Indexed, SpentBy, Net, Sp, Cr, ValuesOf
<1>4. (\A t \in Tips : AtOK(chain, Live, index, {}, t))' <=> \A t \in Tips' : AtOK(chain', Live', index', {}, t)
  BY <1>3
<1>5. MarkOp' = MarkOp /\ \A c : Saves(chain, c)' = Saves(chain', c)
  BY <1>1 DEF MarkOp, Saves, Net, Sp, Cr
<1>6. \A c : Indexed(chain, Live, index, {}, c)' <=> Indexed(chain', Live', index', {}, c)
  BY <1>1 DEF Indexed, Net, Sp, Cr, ValuesOf
<1>7. \A Q, c : SpendOK(chain, Live, index, Q, c)' <=> SpendOK(chain', Live', index', Q, c)
  BY <1>1, <1>5, <1>6 DEF SpendOK, Sound, SpentBy, Net, Sp, Cr
<1>8. \A c : EndOK(chain, Live, Stored, index, c)' <=> EndOK(chain', Live', Stored', index', c)
  BY <1>3 DEF EndOK
<1>9. \A r : SpendQueue(chain, r)' <=> SpendQueue(chain', r)
  BY <1>1, <1>5 DEF SpendQueue, Net, Sp, Cr
<1>10. /\ WalkQueue(proc[p])' <=> WalkQueue(proc'[p])
       /\ EndQueue(proc[p])' <=> EndQueue(proc'[p])
       /\ SpendQueue(chain, proc[p])' <=> SpendQueue(chain', proc'[p])
  BY <1>9 DEF WalkQueue, EndQueue
<1>11. Progress(chain, Live, Stored, index, proc[p])' <=> Progress(chain', Live', Stored', index', proc'[p])
  BY <1>3, <1>7, <1>8, <1>10 DEF Progress
<1> QED BY <1>2, <1>4, <1>11

\* A tip is saved only when the constants are: what a process may be doing
\* before.
Cold(r) == /\ r.at = 0 /\ r.pc \in {"idle", "crashed", "walk"}
           /\ r.pc = "walk" => \E w \in Elements(r.todo) : w.op = "config"

\* What a step has to establish.
LEMMA SyncStep ==
    ASSUME use' = use,
           \A s \in Stored' : Minted(chain', s),
           \A t \in Tips' : AtOK(chain', Live', index', {}, t),
           kind = "catalog" \/ config' \/ (coins' = {} /\ \A q \in use.procs : Cold(proc'[q])),
           \A q \in use.procs :
               /\ \A t \in Tips' : proc'[q].pc \in {"walk", "write"} => proc'[q].at >= t
               /\ Progress(chain', Live', Stored', index', proc'[q])
    PROVE  SyncInv'
<1>1. use'.procs = use.procs /\ kind' = kind
  BY DEF kind
<1>2. RowsMinted' /\ TipsOK'
  BY Primed DEF RowsMinted, TipsOK
<1>3. Near'
  BY <1>1 DEF Near
<1>4. ConfigOK'
  BY <1>1 DEF ConfigOK, Cold
<1>5. \A q \in use.procs : Progress(chain, Live, Stored, index, proc[q])'
  BY Primed
<1>6. (\A q \in use.procs : Progress(chain, Live, Stored, index, proc[q]))'
  BY <1>1, <1>5
<1> QED BY <1>2, <1>3, <1>4, <1>6 DEF SyncInv

\* Nothing is saved in the beginning.
LEMMA SyncInit ==
    ASSUME Init
    PROVE  SyncInv
<1>1. Live = {} /\ Stored = {} /\ Tips = {} /\ coins = {} /\ \A p \in Procs : proc[p] = Idle
  BY DEF Init, Live, Stored, Tips
<1>2. use.procs \subseteq Procs
  BY BaseInit, NamesAreNumbers DEF Base
<1>3. Idle.pc = "idle" /\ Idle.at = 0
  BY DEF Idle
<1>4. RowsMinted /\ TipsOK /\ Near
  BY <1>1 DEF RowsMinted, TipsOK, Near
<1>5. ConfigOK
  BY <1>1, <1>2, <1>3 DEF ConfigOK
<1>6. \A p \in use.procs : Progress(chain, Live, Stored, index, proc[p])
  BY <1>1, <1>2, <1>3 DEF Progress
<1> QED BY <1>4, <1>5, <1>6 DEF SyncInv

\* The registry is spent.
LEMMA SyncGrow ==
    ASSUME Base, Base', SyncInv, Grow
    PROVE  SyncInv'
<1>1. PICK a \in Spends(ValuesAt(Len(chain))) : chain' = Append(chain, a)
  BY DEF Grow
<1>2. a \in Spend /\ chain \in Seq(Spend)
  <2>1. ValuesAt(Len(chain)) = ValuesOf(chain, Len(chain))
    BY DEF ValuesAt, ValuesOf, SlotsAt, SlotsOf
  <2> QED BY <2>1, HistoryGrows DEF Base, History
<1>3. /\ use' = use /\ rows' = rows /\ index' = index /\ coins' = coins /\ config' = config /\ proc' = proc
  BY DEF Grow, db
<1>4. Live' = Live /\ Stored' = Stored /\ Tips' = Tips
  BY <1>3 DEF Live, Stored, Tips
<1>5. \A t \in Tips : t \in Nat
  BY DEF Tips, Base, Typed
<1>6. \A q \in use.procs : proc[q] \in Process /\ proc[q].at \in Nat
  BY NamesAreNumbers DEF Base, Typed, Process
<1>7. \A s \in Stored' : Minted(chain', s)
  BY <1>1, <1>2, <1>4, LongerChain DEF SyncInv, RowsMinted
<1>8. \A t \in Tips' : AtOK(chain', Live', index', {}, t)
  BY <1>1, <1>2, <1>3, <1>4, <1>5, StillOK DEF SyncInv, TipsOK
<1>9. ASSUME NEW q \in use.procs
      PROVE  Progress(chain', Live', Stored', index', proc'[q])
  <2> DEFINE r == proc[q]
  <2>1. Progress(chain, Live, Stored, index, r) /\ r \in Process /\ r.at \in Nat
    BY <1>6 DEF SyncInv
  <2> HIDE DEF r
  <2>2. /\ \A Q : AtOK(chain, Live, index, Q, r.at) => AtOK(chain', Live, index, Q, r.at)
        /\ \A Q : SpendOK(chain, Live, index, Q, r.at) => SpendOK(chain', Live, index, Q, r.at)
        /\ EndOK(chain, Live, Stored, index, r.at) => EndOK(chain', Live, Stored, index, r.at)
    BY <1>1, <1>2, <2>1, StillOK
  <2>3. r.at < Len(chain) /\ SpendQueue(chain, r) => SpendQueue(chain', r)
    BY <1>1, <1>2, <2>1, StillQueue
  <2>4. \A Q : SpendOK(chain, Live, index, Q, r.at) => r.at < Len(chain)
    BY DEF SpendOK
  <2>5. Progress(chain', Live, Stored, index, r)
    BY <2>1, <2>2, <2>3, <2>4 DEF Progress
  <2> QED BY <1>3, <1>4, <2>5 DEF r
<1>10. \A q \in use.procs, t \in Tips' : proc'[q].pc \in {"walk", "write"} => proc'[q].at >= t
  BY <1>3, <1>4 DEF SyncInv, Near
<1>11. kind = "catalog" \/ config' \/ (coins' = {} /\ \A q \in use.procs : Cold(proc'[q]))
  BY <1>3 DEF SyncInv, ConfigOK, Cold
<1> QED BY <1>3, <1>7, <1>8, <1>9, <1>10, <1>11, SyncStep

\* The tables stay as they are.
LEMMA SameTables ==
    ASSUME UNCHANGED <<use, chain, rows, index, coins, config>>, SyncInv
    PROVE  /\ Live' = Live /\ Stored' = Stored /\ Tips' = Tips
           /\ \A s \in Stored' : Minted(chain', s)
           /\ \A t \in Tips' : AtOK(chain', Live', index', {}, t)
<1>1. Live' = Live /\ Stored' = Stored /\ Tips' = Tips
  BY DEF Live, Stored, Tips
<1> QED BY <1>1 DEF SyncInv, RowsMinted, TipsOK

\* A walk starts.
LEMMA SyncStart ==
    ASSUME Base, CoinInv, SyncInv, Single, NEW p \in use.procs, Start(p)
    PROVE  SyncInv'
<1>1. p \in Procs /\ Typed /\ \A q \in use.procs : q = p
  BY NamesAreNumbers DEF Base, Single
<1>2. UNCHANGED <<use, chain, rows, index, coins, config>>
  BY DEF Start, db
<1>3. /\ Live' = Live /\ Stored' = Stored /\ Tips' = Tips
      /\ \A s \in Stored' : Minted(chain', s)
      /\ \A t \in Tips' : AtOK(chain', Live', index', {}, t)
  BY <1>2, SameTables
<1>4. Tips = {r.coin : r \in {x \in coins : x.spentAt = 0}} /\ \A t \in Tips : t \in Nat
  BY <1>1 DEF Tips, Typed
<1>5. \A s, t \in Tips : s >= t
  BY <1>4 DEF CoinInv, Above
<1>6. ColdWrites \o ConfigWrites \in Seq(Statement) /\ ConfigWrites \in Seq(Statement) /\ ColdWrites \in Seq(Statement)
  BY <1>1, ColdWritesAre
<1>c. \A w \in Elements(ConfigWrites) : w.op = "config"
  <2>1. Elements(ConfigWrites) = IF kind = "catalog" \/ config THEN {} ELSE {W("config", EndSlot(Lo), 0)}
    BY <1>1, ColdWritesAre
  <2> QED BY <2>1, PartsOf
<1> DEFINE new == proc'[p]
<1>7. CASE CanResume /\ \E c \in Tips : proc' = [proc EXCEPT ![p] =
                [pc |-> "walk", at |-> c, save |-> TRUE, spent |-> FALSE, todo |-> ConfigWrites]]
  <2>1. PICK c \in Tips : new = [pc |-> "walk", at |-> c, save |-> TRUE, spent |-> FALSE, todo |-> ConfigWrites]
    BY <1>1, <1>7 DEF Typed
  <2>2. new.pc = "walk" /\ new.at = c /\ new.todo = ConfigWrites
    BY <2>1
  <2> HIDE DEF new
  <2>3. WalkQueue(new)
    BY <1>c, <2>2 DEF WalkQueue, Elements
  <2>4. AtOK(chain, Live, index, Elements(new.todo), new.at)
    <3>1. AtOK(chain, Live, index, {}, c)
      BY DEF SyncInv, TipsOK
    <3> QED BY <2>2, <3>1, MoreQueued
  <2>5. Progress(chain', Live', Stored', index', new)
    BY <1>2, <1>3, <2>2, <2>3, <2>4 DEF Progress
  <2>6. \A t \in Tips' : new.at >= t
    BY <1>3, <1>5, <2>2
  <2>7. kind = "catalog" \/ config'
    BY <1>2, <1>7 DEF CanResume
  <2>8. \A q \in use.procs :
            /\ \A t \in Tips' : proc'[q].pc \in {"walk", "write"} => proc'[q].at >= t
            /\ Progress(chain', Live', Stored', index', proc'[q])
    BY <1>1, <2>5, <2>6 DEF new
  <2> QED BY <1>2, <1>3, <2>7, <2>8, SyncStep
<1>8. CASE ~ CanResume /\ proc' = [proc EXCEPT ![p] =
                [pc |-> "walk", at |-> 0, save |-> FALSE, spent |-> FALSE, todo |-> ColdWrites \o ConfigWrites]]
  <2>1. new = [pc |-> "walk", at |-> 0, save |-> FALSE, spent |-> FALSE, todo |-> ColdWrites \o ConfigWrites]
    BY <1>1, <1>8 DEF Typed
  <2>2. new.pc = "walk" /\ new.at = 0 /\ new.todo = ColdWrites \o ConfigWrites
    BY <2>1
  <2> HIDE DEF new
  <2> DEFINE Q == Elements(new.todo)
  <2>3. /\ Q = Elements(ColdWrites) \cup Elements(ConfigWrites)
        /\ Elements(ColdWrites) = {W("slot", EndSlot(Lo), Eve), W("index", EndSlot(Lo), Eve),
                                   W("slot", EndSlot(Hi), Eve), W("index", EndSlot(Hi), Eve)}
        /\ Elements(ConfigWrites) = IF kind = "catalog" \/ config THEN {} ELSE {W("config", EndSlot(Lo), 0)}
    BY <1>1, <2>2, ColdWritesAre
  <2>4. \A w \in Q : w.op = "config" \/ (w.op \in {"slot", "index"} /\ w.n = Eve /\ w.value \in {EndSlot(Lo), EndSlot(Hi)})
    BY <1>c, <2>3, PartsOf
  <2>5. ASSUME NEW i \in DOMAIN new.todo, new.todo[i].op = "slot"
        PROVE  \E j \in DOMAIN new.todo : i < j /\ new.todo[j] = W("index", new.todo[i].value, Eve)
    <3> DEFINE a == W("slot", EndSlot(Lo), Eve)
               b == W("index", EndSlot(Lo), Eve)
               d == W("slot", EndSlot(Hi), Eve)
               e == W("index", EndSlot(Hi), Eve)
    <3>0. b.op # "slot" /\ e.op # "slot" /\ a.value = EndSlot(Lo) /\ d.value = EndSlot(Hi)
      BY PartsOf
    <3>1. ColdWrites = <<a, b, d, e>>
      BY DEF ColdWrites
    <3> HIDE DEF a, b, d, e
    <3>2. Len(ColdWrites) = 4 /\ ColdWrites[1] = a /\ ColdWrites[2] = b /\ ColdWrites[3] = d /\ ColdWrites[4] = e
      BY <3>1
    <3>3. /\ DOMAIN new.todo = 1 .. 4 + Len(ConfigWrites) /\ Len(ConfigWrites) \in Nat
          /\ \A k \in 1 .. 4 : new.todo[k] = ColdWrites[k]
          /\ \A k \in 1 .. Len(ConfigWrites) : new.todo[4 + k] = ConfigWrites[k]
      <4>1. ASSUME NEW x \in Seq(Statement), NEW y \in Seq(Statement)
            PROVE  /\ DOMAIN (x \o y) = 1 .. Len(x) + Len(y) /\ Len(y) \in Nat
                   /\ \A k \in 1 .. Len(x) : (x \o y)[k] = x[k]
                   /\ \A k \in 1 .. Len(y) : (x \o y)[Len(x) + k] = y[k]
        OBVIOUS
      <4>2. /\ DOMAIN new.todo = 1 .. Len(ColdWrites) + Len(ConfigWrites) /\ Len(ConfigWrites) \in Nat
            /\ \A k \in 1 .. Len(ColdWrites) : new.todo[k] = ColdWrites[k]
            /\ \A k \in 1 .. Len(ConfigWrites) : new.todo[Len(ColdWrites) + k] = ConfigWrites[k]
        BY <1>6, <2>2, <4>1
      <4> QED BY <3>2, <4>2
    <3>4. CASE i \in 1 .. 4
      <4>1. i = 1 \/ i = 3
        BY <2>5, <3>0, <3>2, <3>3, <3>4
      <4>2. CASE i = 1
        <5>1. 2 \in DOMAIN new.todo /\ i < 2 /\ new.todo[2] = W("index", new.todo[i].value, Eve)
          BY <3>0, <3>2, <3>3, <4>2 DEF b
        <5> QED BY <5>1
      <4>3. CASE i = 3
        <5>1. 4 \in DOMAIN new.todo /\ i < 4 /\ new.todo[4] = W("index", new.todo[i].value, Eve)
          BY <3>0, <3>2, <3>3, <4>3 DEF e
        <5> QED BY <5>1
      <4> QED BY <4>1, <4>2, <4>3
    <3>5. CASE i \notin 1 .. 4
      <4>1. i - 4 \in 1 .. Len(ConfigWrites) /\ i = 4 + (i - 4)
        BY <3>3, <3>5
      <4>2. new.todo[i] = ConfigWrites[i - 4] /\ i - 4 \in DOMAIN ConfigWrites
        BY <1>6, <3>3, <4>1
      <4>3. new.todo[i].op = "config"
        BY <1>c, <4>2 DEF Elements
      <4> QED BY <2>5, <4>3
    <3> QED BY <3>4, <3>5
  <2>6. WalkQueue(new)
    BY <2>2, <2>4, <2>5 DEF WalkQueue
  <2>7. AtOK(chain, Live, index, Q, 0)
    <3>1. \A v \in {EndSlot(Lo), EndSlot(Hi)} : W("slot", v, Eve) \in Q /\ W("index", v, Eve) \in Q
      BY <2>3
    <3> HIDE DEF Q
    <3>2. Sound(chain, Live, 0)
      BY DEF Sound, SpentBy
    <3>3. Held(chain, Live, Q, 0)
      <4>1. \A s \in SlotsOf(chain, 0) : s.value \in {EndSlot(Lo), EndSlot(Hi)} /\ s.parent = Eve
        BY SlotsOfNext DEF Ends
      <4> QED BY <3>1, <4>1 DEF Held
    <3>4. Indexed(chain, Live, index, Q, 0)
      BY <3>1, ValuesOfNext DEF Indexed
    <3>5. Len(chain) \in Nat
      BY <1>1 DEF Typed
    <3> QED BY <3>2, <3>3, <3>4, <3>5 DEF AtOK
  <2>8. Progress(chain', Live', Stored', index', new)
    BY <1>2, <1>3, <2>2, <2>6, <2>7 DEF Progress
  <2>9. Tips = {}
    <3>1. CASE kind = "catalog" \/ config
      BY <1>8, <3>1 DEF CanResume
    <3>2. CASE coins = {}
      BY <3>2 DEF Tips
    <3> QED BY <3>1, <3>2 DEF SyncInv, ConfigOK
  <2>10. kind = "catalog" \/ config' \/ (coins' = {} /\ Cold(new))
    <3> SUFFICES ASSUME kind # "catalog", ~ config PROVE coins = {} /\ Cold(new)
      BY <1>2
    <3>1. W("config", EndSlot(Lo), 0) \in Q
      BY <2>3
    <3>2. \E w \in Q : w.op = "config"
      BY <3>1, PartsOf
    <3> QED BY <2>2, <3>2 DEF Cold, SyncInv, ConfigOK
  <2>11. \A q \in use.procs :
            /\ \A t \in Tips' : proc'[q].pc \in {"walk", "write"} => proc'[q].at >= t
            /\ Progress(chain', Live', Stored', index', proc'[q])
    BY <1>1, <1>3, <2>8, <2>9 DEF new
  <2>12. kind = "catalog" \/ config' \/ (coins' = {} /\ \A q \in use.procs : Cold(proc'[q]))
    BY <1>1, <2>10 DEF new
  <2> QED BY <1>2, <1>3, <2>11, <2>12, SyncStep
<1> QED BY <1>7, <1>8 DEF Start

\* A walk looks at a coin.
LEMMA SyncFetch ==
    ASSUME Base, CoinInv, SyncInv, Single, NEW p \in use.procs, Fetch(p)
    PROVE  SyncInv'
<1>1. p \in Procs /\ Typed /\ History(chain) /\ \A q \in use.procs : q = p
  BY NamesAreNumbers DEF Base, Single
<1>2. UNCHANGED <<use, chain, rows, index, coins, config>> /\ proc[p].pc = "walk" /\ proc[p].todo = <<>>
  BY DEF Fetch, db
<1>3. /\ Live' = Live /\ Stored' = Stored /\ Tips' = Tips
      /\ \A s \in Stored' : Minted(chain', s)
      /\ \A t \in Tips' : AtOK(chain', Live', index', {}, t)
  BY <1>2, SameTables
<1> DEFINE c == proc[p].at
           a == Saving(p)
           b == Spending(p)
           r == [pc |-> "write", at |-> c, save |-> TRUE, spent |-> c < Len(chain), todo |-> a \o b]
<1>4. /\ proc' = [proc EXCEPT ![p] = r] /\ a \in Seq(Statement) /\ b \in Seq(Statement)
      /\ \A w \in Elements(b) : w.op \notin CoinOps
  BY <1>1, FetchDoes
<1>5. c \in Nat /\ Len(chain) \in Nat /\ c <= Len(chain) /\ AtOK(chain, Live, index, {}, c)
  <2>1. c \in Nat /\ Len(chain) \in Nat
    BY <1>1 DEF Typed, Process
  <2>2. AtOK(chain, Live, index, Elements(<<>>), c)
    BY <1>2 DEF SyncInv, Progress
  <2>3. Elements(<<>>) = {}
    BY DEF Elements
  <2> QED BY <2>1, <2>2, <2>3 DEF AtOK
<1>6. proc'[p] = r
  BY <1>1, <1>4 DEF Typed
<1>7. r.pc = "write" /\ r.at = c /\ (r.spent <=> c < Len(chain)) /\ r.todo = a \o b
  OBVIOUS
<1> HIDE DEF r
<1>8. Elements(r.todo) = Elements(a) \cup Elements(b)
  BY <1>4, <1>7, ConcatElements
<1>9. \A w \in Elements(a) : w.op = "parent" \/ w.op = IF c < Len(chain) THEN "spent" ELSE "coin"
  <2> DEFINE x == W("parent", EndSlot(Lo), c)
             y == W(IF c < Len(chain) THEN "spent" ELSE "coin", EndSlot(Lo), c)
  <2>1. a = IF proc[p].save THEN <<x, y>> ELSE <<>>
    BY DEF Saving
  <2>2. x.op = "parent" /\ y.op = IF c < Len(chain) THEN "spent" ELSE "coin"
    BY PartsOf
  <2> HIDE DEF x, y
  <2>3. Elements(<<>>) = {} /\ Elements(<<x, y>>) = {x, y}
    <3>1. x \in {x, y} /\ y \in {x, y}
      OBVIOUS
    <3> QED BY <3>1, ShortElements DEF Elements
  <2> HIDE DEF a
  <2>4. Elements(a) \subseteq {x, y}
    BY <2>1, <2>3
  <2> QED BY <2>2, <2>4
<1>p. ASSUME Progress(chain, Live, Stored, index, r)
      PROVE  SyncInv'
  <2>1. kind = "catalog" \/ config'
    <3>1. Elements(<<>>) = {}
      BY DEF Elements
    <3> QED BY <1>2, <3>1 DEF SyncInv, ConfigOK
  <2>2. \A t \in Tips' : r.at >= t
    BY <1>2, <1>3, <1>7 DEF SyncInv, Near
  <2>3. Progress(chain', Live', Stored', index', r)
    BY <1>2, <1>3, <1>p
  <2>4. \A q \in use.procs : proc'[q] = r
    BY <1>1, <1>6
  <2> QED BY <1>2, <1>3, <2>1, <2>2, <2>3, <2>4, SyncStep
<1>10. CASE c < Len(chain)
  <2>1. b = SpendWrites(c)
    BY <1>10 DEF Spending
  <2>2. /\ SpendWrites(c) \in Seq(Statement) /\ Sorted(SpendWrites(c))
        /\ kind # "catalog" => \A w : w \in Elements(SpendWrites(c)) <=>
              \/ \E v \in Cr(chain, c + 1) : w = W("index", v, c) \/ w = W("slot", v, c)
              \/ \E v \in Sp(chain, c + 1) : w = W("mark", v, c + 1)
        /\ kind = "catalog" => \A w : w \in Elements(SpendWrites(c)) <=>
              \/ \E v \in Cr(chain, c + 1) \ Sp(chain, c + 1) : w = W("index", v, c) \/ w = W("slot", v, c)
              \/ \E v \in Sp(chain, c + 1) : w = W("markIx", v, c + 1)
    BY <1>1, <1>5, <1>10, SpendWritesAre
  <2> DEFINE B == Elements(b)
             Q == Elements(r.todo)
  <2>3. /\ \A v \in Net(chain, c + 1) : W("slot", v, c) \in B /\ W("index", v, c) \in B
        /\ \A v \in Sp(chain, c + 1) : W(MarkOp, v, c + 1) \in B
    <3>1. CASE kind = "catalog"
      BY <2>1, <2>2, <3>1 DEF Net, MarkOp
    <3>2. CASE kind # "catalog"
      BY <2>1, <2>2, <3>2 DEF Net, MarkOp
    <3> QED BY <3>1, <3>2
  <2>4. \A w \in B : \/ w.op \in {"slot", "index"} /\ w.n = c /\ w.value \in Saves(chain, c + 1)
                     \/ w.op = MarkOp /\ w.n = c + 1 /\ w.value \in Sp(chain, c + 1)
    <3>1. CASE kind = "catalog"
      BY <2>1, <2>2, <3>1, PartsOf DEF Net, MarkOp, Saves
    <3>2. CASE kind # "catalog"
      BY <2>1, <2>2, <3>2, PartsOf DEF MarkOp, Saves
    <3> QED BY <3>1, <3>2
  <2> HIDE DEF a, b
  <2>5. Sorted(r.todo)
    <3>1. \A w \in Elements(a) : Phase(w) = 0
      BY <1>9, <1>10 DEF Phase, CoinOps
    <3>2. Sorted(a)
      BY <3>1 DEF Sorted, Elements
    <3>3. \A w \in Elements(b) : Phase(w) >= 0
      BY DEF Phase
    <3>4. \A x \in Elements(a), y \in Elements(b) : Phase(x) <= Phase(y)
      BY <3>1, <3>3
    <3> QED BY <1>4, <1>7, <2>1, <2>2, <3>2, <3>4, SortedConcat
  <2>6. B \subseteq Q /\ \A w \in Q : w \in B \/ w.op \in {"parent", "spent"}
    BY <1>8, <1>9, <1>10
  <2> HIDE DEF B, Q
  <2>7. SpendQueue(chain, r)
    <3>1. MarkOp = IF kind = "catalog" THEN "markIx" ELSE "mark"
      BY DEF MarkOp
    <3> QED BY <1>7, <2>3, <2>4, <2>5, <2>6, <3>1 DEF SpendQueue, Q
  <2>8. SpendOK(chain, Live, index, Q, c)
    <3>1. Sound(chain, Live, c) /\ Indexed(chain, Live, index, {}, c)
      BY <1>5 DEF AtOK
    <3>2. \A s \in SlotsOf(chain, c) : s.value \notin Sp(chain, c + 1) => s \in Live
      BY <1>5 DEF AtOK, Held
    <3> QED BY <1>10, <2>3, <2>6, <3>1, <3>2 DEF SpendOK
  <2>9. Progress(chain, Live, Stored, index, r)
    BY <1>7, <1>10, <2>7, <2>8 DEF Progress, Q
  <2> QED BY <1>p, <2>9
<1>11. CASE ~ (c < Len(chain))
  <2>1. b = <<>> /\ Elements(b) = {}
    <3>1. Elements(<<>>) = {}
      BY DEF Elements
    <3> QED BY <1>11, <3>1 DEF Spending
  <2>2. EndQueue(r)
    BY <1>8, <1>9, <1>11, <2>1 DEF EndQueue, CoinOps
  <2>3. SlotsOf(chain, c) \subseteq Live
    BY <1>5, <1>11 DEF AtOK, Held
  <2>4. \A s \in Stored : s.parent < c
    <3> SUFFICES ASSUME NEW s \in Stored PROVE s.parent < c
      OBVIOUS
    <3>1. s.parent = -1 \/ s.parent \in 0 .. Len(chain) - 1
      BY DEF SyncInv, RowsMinted, Minted, Eve
    <3> QED BY <1>5, <1>11, <3>1
  <2>5. EndOK(chain, Live, Stored, index, c)
    BY <1>5, <2>3, <2>4 DEF EndOK
  <2>6. Progress(chain, Live, Stored, index, r)
    BY <1>7, <1>11, <2>2, <2>5 DEF Progress
  <2> QED BY <1>p, <2>6
<1> QED BY <1>10, <1>11

\* A walk has written what it had to write of a coin.
LEMMA SyncAdvance ==
    ASSUME Base, CoinInv, SyncInv, Single, NEW p \in use.procs, Advance(p)
    PROVE  SyncInv'
<1>1. p \in Procs /\ Typed /\ History(chain) /\ \A q \in use.procs : q = p
  BY NamesAreNumbers DEF Base, Single
<1>2. UNCHANGED <<use, chain, rows, index, coins, config>> /\ proc[p].pc = "write" /\ proc[p].todo = <<>>
  BY DEF Advance, db
<1>3. /\ Live' = Live /\ Stored' = Stored /\ Tips' = Tips
      /\ \A s \in Stored' : Minted(chain', s)
      /\ \A t \in Tips' : AtOK(chain', Live', index', {}, t)
  BY <1>2, SameTables
<1> DEFINE old == proc[p]
           new == proc'[p]
<1>4. old \in Process /\ old.at \in Nat /\ Elements(old.todo) = {}
  BY <1>1, <1>2 DEF Typed, Process, Elements
<1>5. new = IF old.spent THEN [old EXCEPT !.pc = "walk", !.at = old.at + 1] ELSE [old EXCEPT !.pc = "done"]
  BY <1>1, ProcessSteps DEF Typed
<1>6. Progress(chain, Live, Stored, index, old) /\ \A t \in Tips : old.at >= t
  BY <1>2 DEF SyncInv, Near
<1>7. kind = "catalog" \/ config' \/ (coins' = {} /\ \A q \in use.procs : Cold(proc'[q]))
  BY <1>2 DEF SyncInv, ConfigOK
<1>8. \A t \in Tips : t \in Nat
  BY <1>1 DEF Tips, Typed
<1>9. CASE old.spent
  <2>1. new.pc = "walk" /\ new.at = old.at + 1 /\ new.todo = old.todo
    BY <1>4, <1>5, <1>9 DEF Process
  <2>2. SpendOK(chain, Live, index, {}, old.at)
    BY <1>2, <1>4, <1>6, <1>9 DEF Progress
  <2>3. AtOK(chain, Live, index, Elements(new.todo), new.at)
    BY <1>1, <1>4, <2>1, <2>2, SpendDone
  <2>4. WalkQueue(new)
    <3>1. DOMAIN new.todo = {}
      BY <1>2, <2>1
    <3> QED BY <3>1 DEF WalkQueue, Elements
  <2>5. \A t \in Tips : new.at >= t
    BY <1>4, <1>6, <1>8, <2>1
  <2> HIDE DEF new
  <2>6. Progress(chain', Live', Stored', index', new)
    BY <1>2, <1>3, <2>1, <2>3, <2>4 DEF Progress
  <2> QED BY <1>1, <1>2, <1>3, <1>7, <2>5, <2>6, SyncStep DEF new
<1>10. CASE ~ old.spent
  <2>1. new.pc = "done" /\ new.at = old.at
    BY <1>4, <1>5, <1>10 DEF Process
  <2>2. EndOK(chain, Live, Stored, index, old.at)
    BY <1>2, <1>6, <1>10 DEF Progress
  <2> HIDE DEF new
  <2>3. Progress(chain', Live', Stored', index', new)
    BY <1>2, <1>3, <2>1, <2>2 DEF Progress
  <2>4. new.pc \notin {"walk", "write"}
    BY <2>1
  <2> QED BY <1>1, <1>2, <1>3, <1>7, <2>3, <2>4, SyncStep DEF new
<1> QED BY <1>9, <1>10

\* A process stops.
LEMMA SyncCrash ==
    ASSUME Base, CoinInv, SyncInv, Single, NEW p \in use.procs, Crash(p)
    PROVE  SyncInv'
<1>1. p \in Procs /\ Typed /\ \A q \in use.procs : q = p
  BY NamesAreNumbers DEF Base, Single
<1>2. UNCHANGED <<use, chain, rows, index, coins, config>>
  BY DEF Crash, db
<1>3. /\ Live' = Live /\ Stored' = Stored /\ Tips' = Tips
      /\ \A s \in Stored' : Minted(chain', s)
      /\ \A t \in Tips' : AtOK(chain', Live', index', {}, t)
  BY <1>2, SameTables
<1> DEFINE new == proc'[p]
<1>4. new.pc = "crashed" /\ new.at = 0
  <2>1. new = [Idle EXCEPT !.pc = "crashed"]
    BY <1>1, ProcessSteps DEF Typed
  <2> QED BY <2>1 DEF Idle
<1> HIDE DEF new
<1>5. Progress(chain', Live', Stored', index', new)
  BY <1>4 DEF Progress
<1>6. Cold(new)
  BY <1>4 DEF Cold
<1>7. kind = "catalog" \/ config' \/ (coins' = {} /\ \A q \in use.procs : Cold(proc'[q]))
  BY <1>1, <1>2, <1>6 DEF SyncInv, ConfigOK, new
<1> QED BY <1>1, <1>2, <1>3, <1>4, <1>5, <1>7, SyncStep DEF new

\* The cache is cleared.
LEMMA SyncClear ==
    ASSUME Base, CoinInv, SyncInv, Single, NEW p \in use.procs, ClearCache(p)
    PROVE  SyncInv'
<1>1. Typed /\ \A q \in use.procs : q = p
  BY DEF Base, Single
<1>2. UNCHANGED <<use, chain, index, config, proc>> /\ proc[p].pc = "done" /\ coins' \subseteq coins
  BY DEF ClearCache
<1>3. Live' = Live /\ Stored' \subseteq Stored /\ Tips' = Tips
  BY <1>1, ClearLive
<1>4. \A s \in Stored' : Minted(chain', s)
  BY <1>2, <1>3 DEF SyncInv, RowsMinted
<1>5. \A t \in Tips' : AtOK(chain', Live', index', {}, t)
  BY <1>2, <1>3 DEF SyncInv, TipsOK
<1>6. EndOK(chain, Live, Stored, index, proc[p].at)
  BY <1>2 DEF SyncInv, Progress
<1>7. EndOK(chain', Live', Stored', index', proc[p].at)
  BY <1>2, <1>3, <1>6 DEF EndOK
<1>8. Progress(chain', Live', Stored', index', proc[p])
  BY <1>2, <1>7 DEF Progress
<1>9. kind = "catalog" \/ config'
  BY <1>2 DEF SyncInv, ConfigOK
<1> QED BY <1>1, <1>2, <1>4, <1>5, <1>8, <1>9, SyncStep

-----------------------------------------------------------------------------
\* The one process executes a statement.

\* Which tips there are after a statement.
LEMMA TipsAfter ==
    ASSUME Typed, NEW w \in Statement, Execute(w)
    PROVE  /\ \A t \in Tips' : t \in Tips \/ (w.op = "coin" /\ t = w.n)
           /\ w.op \notin CoinOps => Tips' = Tips
<1>1. w.op \in CoinOps => w.n \in Nat
  BY DEF Statement, CoinOps
<1>2. w.op \notin CoinOps => Tips' = Tips
  BY CoinStatements DEF Tips
<1>3. CASE w.op = "parent"
  <2>1. coins' = {IF r.coin = w.n - 1 /\ r.spentAt = 0 THEN [r EXCEPT !.spentAt = w.n] ELSE r : r \in coins}
    BY <1>3, CoinStatements DEF MarkParentSpent
  <2>2. ASSUME NEW x \in coins', x.spentAt = 0 PROVE x.coin \in Tips
    <3>1. PICK r \in coins : x = IF r.coin = w.n - 1 /\ r.spentAt = 0 THEN [r EXCEPT !.spentAt = w.n] ELSE r
      BY <2>1
    <3>2. r.spentAt = 0 /\ x.coin = r.coin
      BY <2>2, <3>1 DEF Typed
    <3> QED BY <3>2 DEF Tips
  <2> QED BY <1>2, <2>2 DEF Tips, CoinOps
<1>4. ASSUME NEW h, InsertCoin(w.n, h)
      PROVE  \A t \in Tips' : t \in Tips \/ (t = w.n /\ h = 0)
  BY <1>4 DEF Tips, InsertCoin
<1>5. CASE w.op = "coin"
  BY <1>4, <1>5, CoinStatements DEF CoinOps
<1>6. CASE w.op = "spent"
  <2>1. InsertCoin(w.n, w.n + 1) /\ w.n + 1 # 0
    BY <1>1, <1>6, CoinStatements DEF CoinOps
  <2> QED BY <1>4, <1>6, <2>1 DEF CoinOps
<1> QED BY <1>2, <1>3, <1>5, <1>6 DEF CoinOps

\* A process that is at its first coin has no tip, and a process that has
\* marked the parent is at the tip.
LEMMA TipOf ==
    ASSUME Base, CoinInv, SyncInv, NEW p \in use.procs, proc[p].pc \in {"walk", "write"}, NEW t \in Tips
    PROVE  /\ proc[p].at # 0
           /\ proc[p].pc = "write" /\ proc[p].todo # <<>> /\ Head(proc[p].todo).op # "parent" => proc[p].at = t
<1>1. p \in Procs /\ proc[p] \in Process /\ proc[p].at \in Nat /\ proc[p].todo \in Seq(Statement)
  BY NamesAreNumbers DEF Base, Typed, Process
<1>2. PICK r \in coins : r.spentAt = 0 /\ r.coin = t
  BY DEF Tips
<1>3. t \in Nat /\ t >= 1 /\ proc[p].at >= t
  BY <1>2 DEF Base, Typed, CoinInv, Saved, SyncInv, Near
<1>4. ASSUME proc[p].pc = "write", proc[p].todo # <<>>, Head(proc[p].todo).op # "parent"
      PROVE  proc[p].at = t
  <2>1. ~ ParentPending(proc[p])
    <3> SUFFICES ASSUME NEW i \in DOMAIN proc[p].todo, proc[p].todo[i].op = "parent" PROVE FALSE
      BY <1>4 DEF ParentPending, Has
    <3>1. i = 1
      BY <1>1 DEF CoinInv, Processes, Queued
    <3>2. Head(proc[p].todo) = proc[p].todo[1]
      BY <1>1, <1>4
    <3> QED BY <1>4, <3>1, <3>2
  <2>2. proc[p].at <= t
    BY <1>1, <1>2, <2>1 DEF CoinInv, Above
  <2> QED BY <1>1, <1>3, <2>2
<1> QED BY <1>1, <1>3, <1>4

\* What a step of a queue does.
LEMMA SyncWriteDoes ==
    ASSUME Base, CoinInv, SyncInv, NEW p \in use.procs, Write(p)
    PROVE  LET old == proc[p]
               new == proc'[p]
               w == Head(old.todo)
           IN  /\ p \in Procs /\ old \in Process /\ old.todo # <<>> /\ old.pc \in {"walk", "write"}
               /\ w \in Statement /\ Execute(w) /\ UNCHANGED <<use, chain>>
               /\ new = [old EXCEPT !.todo = Tail(@)]
               /\ new.todo = Tail(old.todo) /\ new.at = old.at /\ new.pc = old.pc /\ new.spent = old.spent
               /\ old.at \in Nat
               /\ w \in Elements(old.todo) /\ Elements(new.todo) \subseteq Elements(old.todo)
               /\ Elements(old.todo) \subseteq Elements(new.todo) \cup {w}
               /\ w.op \in CoinOps => w.n = old.at
<1>1. p \in Procs /\ Typed /\ proc[p] \in Process
  BY NamesAreNumbers DEF Base, Typed
<1>2. /\ proc[p].todo # <<>> /\ proc[p].pc \in {"walk", "write"} /\ Execute(Head(proc[p].todo))
      /\ UNCHANGED <<use, chain>>
  BY DEF Write
<1>3. Head(proc[p].todo) \in Statement /\ proc'[p] = [proc[p] EXCEPT !.todo = Tail(@)]
  BY <1>1, ProcessSteps DEF Typed
<1>4. /\ proc'[p].todo = Tail(proc[p].todo) /\ proc'[p].at = proc[p].at /\ proc'[p].pc = proc[p].pc
      /\ proc'[p].spent = proc[p].spent /\ proc[p].todo \in Seq(Statement) /\ proc[p].at \in Nat
  BY <1>1, <1>2, <1>3, RestProcess
<1>5. /\ Head(proc[p].todo) \in Elements(proc[p].todo) /\ Elements(proc'[p].todo) \subseteq Elements(proc[p].todo)
      /\ Elements(proc[p].todo) \subseteq Elements(proc'[p].todo) \cup {Head(proc[p].todo)}
  BY <1>2, <1>4, RestElements
<1>6. Head(proc[p].todo).op \in CoinOps => Head(proc[p].todo).n = proc[p].at
  <2>1. PICK i \in DOMAIN proc[p].todo : proc[p].todo[i] = Head(proc[p].todo)
    BY <1>5 DEF Elements
  <2> QED BY <1>1, <2>1 DEF CoinInv, Processes, Queued
<1> QED BY <1>1, <1>2, <1>3, <1>4, <1>5, <1>6

\* In a walk.
LEMMA SyncWriteWalk ==
    ASSUME Base, CoinInv, SyncInv, Single, NEW p \in use.procs, Write(p), proc[p].pc = "walk"
    PROVE  SyncInv'
<1> DEFINE old == proc[p]
           new == proc'[p]
           w == Head(old.todo)
           Q == Elements(old.todo)
           rest == Elements(new.todo)
<1>0. Typed /\ History(chain) /\ \A q \in use.procs : q = p
  BY DEF Base, Single
<1>1. /\ p \in Procs /\ old \in Process /\ old.todo # <<>>
      /\ w \in Statement /\ Execute(w) /\ UNCHANGED <<use, chain>>
      /\ new = [old EXCEPT !.todo = Tail(@)]
      /\ new.at = old.at /\ new.pc = old.pc /\ old.at \in Nat
      /\ w \in Q /\ rest \subseteq Q /\ Q \subseteq rest \cup {w}
  BY SyncWriteDoes
<1>2. WalkQueue(old) /\ AtOK(chain, Live, index, Q, old.at)
  BY DEF SyncInv, Progress
<1>3. /\ WalkQueue(new)
      /\ w.op = "slot" => W("index", w.value, Eve) \in rest
  BY <1>1, <1>2, WalkRest
<1>4. \/ w.op = "config"
      \/ old.at = 0 /\ w.op \in {"slot", "index"} /\ w.n = Eve /\ w.value \in {EndSlot(Lo), EndSlot(Hi)}
  BY <1>1, <1>2 DEF WalkQueue
<1>5. coins' = coins /\ Tips' = Tips
  <2>1. w.op \notin CoinOps
    BY <1>4 DEF CoinOps
  <2> QED BY <1>0, <1>1, <2>1, StatementLive, TipsAfter
<1>6. \A t \in Tips : old.at >= t /\ old.at # 0
  BY TipOf DEF SyncInv, Near
<1>7. kind = "catalog" \/ config' \/ (coins' = {} /\ Cold(new))
  <2>1. w.op = "config" => config' = TRUE
    BY <1>0, <1>1, StatementLive
  <2>2. w.op # "config" => config' = config
    BY <1>0, <1>1, StatementLive
  <2>3. CASE w.op # "config" /\ kind # "catalog" /\ ~ config
    <3>1. coins = {} /\ old.at = 0 /\ \E x \in Q : x.op = "config"
      BY <2>3 DEF SyncInv, ConfigOK
    <3>2. \E x \in rest : x.op = "config"
      BY <1>1, <2>3, <3>1
    <3> QED BY <1>1, <1>5, <3>1, <3>2 DEF Cold
  <2> QED BY <2>1, <2>2, <2>3
<1> HIDE DEF old, new, w, Q, rest
<1>8. /\ AtOK(chain, Live', index', rest, old.at)
      /\ \A s \in Stored' : Minted(chain, s)
      /\ \A t \in Tips : AtOK(chain, Live', index', {}, t)
  <2>1. CASE w.op = "config"
    <3>1. Live' = Live /\ Stored' = Stored /\ index' = index
      BY <1>0, <1>1, <2>1, StatementLive
    <3>2. AtOK(chain, Live, index, rest, old.at)
      BY <1>1, <1>2, <2>1, WalkOther
    <3> QED BY <3>1, <3>2 DEF SyncInv, RowsMinted, TipsOK
  <2>2. CASE old.at = 0 /\ w.op = "slot" /\ w.n = Eve /\ w.value \in {EndSlot(Lo), EndSlot(Hi)}
    <3> DEFINE s0 == [value |-> w.value, parent |-> Eve]
    <3>1. Live' = Live \cup {s0} /\ Stored' = Stored \cup {s0} /\ index' = index
      BY <1>0, <1>1, <2>2, StatementLive
    <3>2. AtOK(chain, Live \cup {s0}, index, rest, 0)
      BY <1>1, <1>2, <1>3, <2>2, WalkSlot
    <3>3. Minted(chain, s0)
      BY <2>2 DEF Minted
    <3> HIDE DEF s0
    <3> QED BY <1>6, <2>2, <3>1, <3>2, <3>3 DEF SyncInv, RowsMinted
  <2>3. CASE old.at = 0 /\ w.op = "index" /\ w.n = Eve /\ w.value \in {EndSlot(Lo), EndSlot(Hi)}
    <3>1. /\ Live' = Live /\ Stored' = Stored
          /\ Reindexed(index, index', w.value)
      BY <1>0, <1>1, <2>3, StatementLive
    <3>2. AtOK(chain, Live, index', rest, 0)
      BY <1>0, <1>1, <1>2, <2>3, <3>1, WalkIndex
    <3> QED BY <1>6, <2>3, <3>1, <3>2 DEF SyncInv, RowsMinted
  <2> QED BY <1>4, <2>1, <2>2, <2>3
<1>9. Progress(chain', Live', Stored', index', new)
  <2>1. new.pc = "walk"
    BY <1>1 DEF old
  <2> QED BY <1>1, <1>3, <1>8, <2>1 DEF Progress, rest
<1>10. \A q \in use.procs :
            /\ \A t \in Tips' : proc'[q].pc \in {"walk", "write"} => proc'[q].at >= t
            /\ Progress(chain', Live', Stored', index', proc'[q])
  BY <1>0, <1>1, <1>5, <1>6, <1>9 DEF new
<1>11. kind = "catalog" \/ config' \/ (coins' = {} /\ \A q \in use.procs : Cold(proc'[q]))
  BY <1>0, <1>7 DEF new
<1> QED BY <1>1, <1>5, <1>8, <1>10, <1>11, SyncStep

\* In the work on a spend: the rows and the index.
LEMMA SpendStatement ==
    ASSUME Base, CoinInv, SyncInv, NEW p \in use.procs, Write(p), proc[p].pc = "write", proc[p].spent
    PROVE  /\ SpendOK(chain, Live', index', Elements(proc'[p].todo), proc[p].at)
           /\ \A s \in Stored' : Minted(chain, s)
<1> DEFINE old == proc[p]
           new == proc'[p]
           w == Head(old.todo)
           Q == Elements(old.todo)
           rest == Elements(new.todo)
           c == old.at
<1>0. Typed /\ History(chain)
  BY DEF Base
<1>1. /\ p \in Procs /\ old \in Process /\ old.todo # <<>>
      /\ w \in Statement /\ Execute(w)
      /\ new = [old EXCEPT !.todo = Tail(@)] /\ c \in Nat
      /\ w \in Q /\ rest \subseteq Q /\ Q \subseteq rest \cup {w}
  BY SyncWriteDoes
<1>2. SpendQueue(chain, old) /\ SpendOK(chain, Live, index, Q, c)
  BY DEF SyncInv, Progress
<1>3. w.op = "index" => \A v, n : W("markIx", v, n) \notin Q
  BY <1>1, <1>2, SpendRest
<1>4. /\ \/ w.op \in {"parent", "spent"}
         \/ w.op \in {"slot", "index"} /\ w.n = c /\ w.value \in Saves(chain, c + 1)
         \/ w.op = MarkOp /\ w.n = c + 1 /\ w.value \in Sp(chain, c + 1)
      /\ kind # "catalog" /\ w.op = "slot" => \A v \in Sp(chain, c + 1) : W("mark", v, c + 1) \in Q
      /\ kind = "catalog" /\ w.op = "markIx" => \A v \in Net(chain, c + 1) : W("slot", v, c) \in Q
  BY <1>1, <1>2 DEF SpendQueue
<1>5. \A s \in Stored : Minted(chain, s)
  BY DEF SyncInv, RowsMinted
<1>6. Live \subseteq Stored
  BY DEF Live, Stored
<1> HIDE DEF old, new, w, Q, rest, c
<1>7. CASE w.op \in {"parent", "spent"}
  <2>1. Live' = Live /\ Stored' = Stored /\ index' = index
    BY <1>0, <1>1, <1>7, StatementLive
  <2>2. SpendOK(chain, Live, index, rest, c)
    BY <1>1, <1>2, <1>7, SpendOther
  <2> QED BY <1>5, <2>1, <2>2 DEF rest, new, c, old
<1>8. CASE w.op = "slot" /\ w.n = c /\ w.value \in Saves(chain, c + 1)
  <2> DEFINE s0 == [value |-> w.value, parent |-> c]
  <2>1. Live' = Live \cup {s0} /\ Stored' = Stored \cup {s0} /\ index' = index
    BY <1>0, <1>1, <1>8, StatementLive
  <2>2. SpendOK(chain, Live \cup {s0}, index, rest, c)
    BY <1>0, <1>1, <1>2, <1>4, <1>8, SpendSlot
  <2>3. Minted(chain, s0)
    <3>1. c < Len(chain) /\ Len(chain) \in Nat
      BY <1>0, <1>2 DEF SpendOK, Typed
    <3>2. c \in 0 .. Len(chain) - 1
      BY <1>1, <3>1
    <3>3. w.value \in Cr(chain, c + 1) /\ (kind = "catalog" => w.value \notin Sp(chain, c + 1))
      BY <1>8 DEF Saves, Net
    <3> QED BY <3>2, <3>3 DEF Minted
  <2> HIDE DEF s0
  <2> QED BY <1>5, <2>1, <2>2, <2>3 DEF rest, new, c, old
<1>9. CASE w.op = "index" /\ w.n = c /\ w.value \in Saves(chain, c + 1)
  <2>1. /\ Live' = Live /\ Stored' = Stored
        /\ Reindexed(index, index', w.value)
    BY <1>0, <1>1, <1>9, StatementLive
  <2>2. SpendOK(chain, Live, index', rest, c)
    BY <1>0, <1>1, <1>2, <1>3, <1>9, <2>1, SpendIndex
  <2> QED BY <1>5, <2>1, <2>2 DEF rest, new, c, old
<1>10. CASE w.op = MarkOp /\ w.n = c + 1 /\ w.value \in Sp(chain, c + 1)
  <2>0. w.n # 0
    BY <1>1, <1>10
  <2>1. CASE kind = "catalog"
    <3>1. w.op = "markIx"
      BY <1>10, <2>1 DEF MarkOp
    <3>2. /\ Stored' = Stored /\ index' = index
          /\ w.value.key \in DOMAIN index => Live' = {s \in Live : s.value # index[w.value.key]}
          /\ w.value.key \notin DOMAIN index => Live' = Live
      BY <1>0, <1>1, <2>0, <3>1, StatementLive
    <3>3. \A k \in DOMAIN index : index[k].key = k
      BY <1>0 DEF Typed
    <3>4. \A s \in Live : Minted(chain, s)
      BY <1>5, <1>6
    <3>5. SpendOK(chain, Live', index, rest, c)
      BY <1>0, <1>1, <1>2, <1>4, <1>10, <2>1, <3>1, <3>2, <3>3, <3>4, SpendMarkIndexed
    <3> QED BY <1>5, <3>2, <3>5 DEF rest, new, c, old
  <2>2. CASE kind # "catalog"
    <3>1. w.op = "mark"
      BY <1>10, <2>2 DEF MarkOp
    <3>2. Stored' = Stored /\ index' = index /\ Live' = {s \in Live : s.value # w.value}
      BY <1>0, <1>1, <2>0, <3>1, StatementLive
    <3>3. SpendOK(chain, {s \in Live : s.value # w.value}, index, rest, c)
      BY <1>0, <1>1, <1>2, <1>10, <2>2, <3>1, SpendMark
    <3> QED BY <1>5, <3>2, <3>3 DEF rest, new, c, old
  <2> QED BY <2>1, <2>2
<1> QED BY <1>4, <1>7, <1>8, <1>9, <1>10

\* In the work on a spend.
LEMMA SyncWriteSpend ==
    ASSUME Base, CoinInv, SyncInv, Single, NEW p \in use.procs, Write(p), proc[p].pc = "write", proc[p].spent
    PROVE  SyncInv'
<1> DEFINE old == proc[p]
           new == proc'[p]
           w == Head(old.todo)
           rest == Elements(new.todo)
<1>0. Typed /\ Len(chain) \in Nat /\ \A q \in use.procs : q = p
  BY DEF Base, Single, Typed
<1>1. /\ p \in Procs /\ old \in Process /\ old.todo # <<>>
      /\ w \in Statement /\ Execute(w) /\ UNCHANGED <<use, chain>>
      /\ new = [old EXCEPT !.todo = Tail(@)]
      /\ new.at = old.at /\ new.pc = old.pc /\ new.spent = old.spent /\ old.at \in Nat
      /\ w \in Elements(old.todo)
  BY SyncWriteDoes
<1>2. SpendQueue(chain, old)
  BY DEF SyncInv, Progress
<1>3. SpendQueue(chain, new)
  BY <1>1, <1>2, SpendRest
<1>4. w.op \in {"parent", "spent", "slot", "index", MarkOp} /\ w.op # "coin" /\ w.op # "config"
  BY <1>1, <1>2 DEF SpendQueue, MarkOp
<1>5. /\ SpendOK(chain, Live', index', rest, old.at)
      /\ \A s \in Stored' : Minted(chain, s)
  BY SpendStatement
<1>6. \A t \in Tips' : t \in Tips
  BY <1>0, <1>1, <1>4, TipsAfter
<1>7. \A t \in Tips : old.at >= t
  BY DEF SyncInv, Near
<1>8. ASSUME NEW t \in Tips PROVE AtOK(chain, Live', index', {}, t)
  <2>1. CASE w.op \in {"parent", "spent"}
    <3>1. Live' = Live /\ index' = index
      BY <1>0, <1>1, <2>1, StatementLive
    <3> QED BY <3>1 DEF SyncInv, TipsOK
  <2>2. CASE w.op \notin {"parent", "spent"}
    <3>1. old.at = t
      BY <1>1, <2>2, TipOf
    <3>2. AtOK(chain, Live', index', {}, old.at)
      BY <1>0, <1>1, <1>5, SpendAt
    <3> QED BY <3>1, <3>2
  <2> QED BY <2>1, <2>2
<1>9. kind = "catalog" \/ config'
  <2>1. config' = config
    BY <1>0, <1>1, <1>4, StatementLive
  <2> QED BY <2>1 DEF SyncInv, ConfigOK
<1>10. Progress(chain', Live', Stored', index', new)
  <2> HIDE DEF new
  <2> QED BY <1>1, <1>3, <1>5 DEF Progress
<1>11. \A q \in use.procs :
            /\ \A t \in Tips' : proc'[q].pc \in {"walk", "write"} => proc'[q].at >= t
            /\ Progress(chain', Live', Stored', index', proc'[q])
  BY <1>0, <1>1, <1>6, <1>7, <1>10
<1> QED BY <1>1, <1>5, <1>6, <1>8, <1>9, <1>11, SyncStep

\* At an unspent coin.
LEMMA SyncWriteEnd ==
    ASSUME Base, CoinInv, SyncInv, Single, NEW p \in use.procs, Write(p), proc[p].pc = "write", ~ proc[p].spent
    PROVE  SyncInv'
<1> DEFINE old == proc[p]
           new == proc'[p]
           w == Head(old.todo)
<1>0. Typed /\ \A q \in use.procs : q = p
  BY DEF Base, Single
<1>1. /\ p \in Procs /\ old \in Process /\ old.todo # <<>>
      /\ w \in Statement /\ Execute(w) /\ UNCHANGED <<use, chain>>
      /\ new = [old EXCEPT !.todo = Tail(@)]
      /\ new.at = old.at /\ new.pc = old.pc /\ new.spent = old.spent /\ old.at \in Nat
      /\ w \in Elements(old.todo) /\ Elements(new.todo) \subseteq Elements(old.todo)
      /\ w.op \in CoinOps => w.n = old.at
  BY SyncWriteDoes
<1>2. EndQueue(old) /\ EndOK(chain, Live, Stored, index, old.at)
  BY DEF SyncInv, Progress
<1>3. EndQueue(new) /\ w.op \in CoinOps
  BY <1>1, <1>2 DEF EndQueue
<1>4. Live' = Live /\ Stored' = Stored /\ index' = index /\ config' = config
  BY <1>0, <1>1, <1>3, StatementLive DEF CoinOps
<1>5. \A t \in Tips' : t \in Tips \/ t = old.at
  BY <1>0, <1>1, <1>3, TipsAfter
<1>6. \A t \in Tips' : AtOK(chain', Live', index', {}, t)
  <2>1. AtOK(chain, Live, index, {}, old.at)
    BY <1>2 DEF EndOK
  <2> QED BY <1>1, <1>4, <1>5, <2>1 DEF SyncInv, TipsOK
<1>7. \A t \in Tips' : old.at >= t
  BY <1>1, <1>5 DEF SyncInv, Near
<1>8. kind = "catalog" \/ config'
  BY <1>4 DEF SyncInv, ConfigOK
<1>9. \A s \in Stored' : Minted(chain', s)
  BY <1>1, <1>4 DEF SyncInv, RowsMinted
<1>10. Progress(chain', Live', Stored', index', new)
  <2> HIDE DEF new
  <2> QED BY <1>1, <1>2, <1>3, <1>4 DEF Progress
<1>11. \A q \in use.procs :
            /\ \A t \in Tips' : proc'[q].pc \in {"walk", "write"} => proc'[q].at >= t
            /\ Progress(chain', Live', Stored', index', proc'[q])
  BY <1>0, <1>1, <1>7, <1>10
<1> QED BY <1>1, <1>6, <1>8, <1>9, <1>11, SyncStep

\* Every step of a process that has the database to itself keeps what a
\* database is good for.
LEMMA SyncNext ==
    ASSUME Base, Base', CoinInv, SyncInv, Single, [Next]_vars
    PROVE  SyncInv'
<1>1. CASE Grow
  BY <1>1, SyncGrow
<1>2. ASSUME NEW p \in use.procs, Start(p) \/ Fetch(p) \/ Advance(p) \/ Crash(p) \/ ClearCache(p)
      PROVE  SyncInv'
  BY <1>2, SyncStart, SyncFetch, SyncAdvance, SyncCrash, SyncClear
<1>3. ASSUME NEW p \in use.procs, Write(p)
      PROVE  SyncInv'
  <2>1. proc[p].pc \in {"walk", "write"}
    BY <1>3 DEF Write
  <2> QED BY <1>3, <2>1, SyncWriteWalk, SyncWriteSpend, SyncWriteEnd
<1>4. CASE UNCHANGED vars
  <2>1. UNCHANGED <<use, chain, rows, index, coins, config, proc>>
    BY <1>4 DEF vars, db
  <2>2. Live' = Live /\ Stored' = Stored /\ Tips' = Tips
    BY <2>1 DEF Live, Stored, Tips
  <2>3. kind = "catalog" \/ config' \/ (coins' = {} /\ \A q \in use.procs : Cold(proc'[q]))
    BY <2>1 DEF SyncInv, ConfigOK, Cold
  <2> QED BY <2>1, <2>2, <2>3, SyncStep DEF SyncInv, RowsMinted, TipsOK, Near
<1> QED BY <1>1, <1>2, <1>3, <1>4 DEF Next

\* The coin at which the walk has come to its end.
LEMMA SyncedAt ==
    ASSUME Base, CoinInv, Single, Synced # {}
    PROVE  \E p \in use.procs : proc[p].pc = "done" /\ proc[p].at \in Nat /\ Max(Synced) = proc[p].at
<1>1. PICK p \in Procs : proc[p].pc = "done"
  BY DEF Synced
<1>2. \A q \in Procs : proc[q].pc = "done" => q \in use.procs
  BY DEF CoinInv, Processes, Idle
<1>3. Synced = {proc[p].at}
  BY <1>1, <1>2 DEF Synced, Single
<1> DEFINE c == proc[p].at
<1>4. c \in Nat
  BY DEF Base, Typed, Process
<1> HIDE DEF c
<1>5. \A x \in {c} : (\A y \in {c} : x >= y) => x = c
  OBVIOUS
<1>6. c \in {c} /\ \A y \in {c} : c >= y
  BY <1>4
<1>7. Max({c}) = c
  BY <1>5, <1>6 DEF Max
<1> QED BY <1>1, <1>2, <1>3, <1>4, <1>7 DEF c

\* When the walk has come to its end, the unspent rows are the slots.
LEMMA SyncedRowsFrom ==
    ASSUME Base, CoinInv, SyncInv, Single
    PROVE  SyncedRows
<1> SUFFICES ASSUME Quiet, Synced # {} PROVE Live = SlotsAt(Max(Synced))
  BY DEF SyncedRows, Live
<1>1. PICK p \in use.procs : proc[p].pc = "done" /\ proc[p].at \in Nat /\ Max(Synced) = proc[p].at
  BY SyncedAt
<1> DEFINE c == proc[p].at
<1>2. SlotsAt(c) = SlotsOf(chain, c)
  BY DEF SlotsAt, SlotsOf
<1>3. EndOK(chain, Live, Stored, index, c)
  BY <1>1 DEF SyncInv, Progress
<1>4. SlotsOf(chain, c) \subseteq Live
  BY <1>3 DEF EndOK
<1>5. Live \subseteq SlotsOf(chain, c)
  <2> SUFFICES ASSUME NEW s \in Live PROVE s \in SlotsOf(chain, c)
    OBVIOUS
  <2>1. s \in Stored /\ s \in [value : Value, parent : Int]
    BY DEF Live, Stored, Base, Typed, Row
  <2>2. Minted(chain, s) /\ s.parent < c /\ ~ SpentBy(chain, s.value, c)
    BY <1>3, <2>1 DEF EndOK, AtOK, Sound, SyncInv, RowsMinted
  <2>3. c \in 0 .. Len(chain)
    BY <1>1, <1>3 DEF EndOK, AtOK, Base, Typed
  <2> QED BY <2>1, <2>2, <2>3, SlotsAre DEF Base
<1> QED BY <1>1, <1>2, <1>4, <1>5

\* Every step keeps the invariants of a process that has the database to itself.
LEMMA AloneNext ==
    ASSUME Base, CoinInv, SyncInv, Single, [Next]_vars
    PROVE  Base' /\ CoinInv' /\ SyncInv'
<1>1. InTime
  <2>1. ASSUME NEW p \in Procs, Has(proc[p], {"coin"}) PROVE p \in use.procs
    <3>1. DOMAIN Idle.todo = {}
      BY DEF Idle
    <3> QED BY <2>1, <3>1 DEF CoinInv, Processes, Has
  <2> QED BY <2>1 DEF InTime, Single
<1>2. Base' /\ CoinInv'
  BY <1>1, BaseNext, CoinNext
<1> QED BY <1>2, SyncNext

\* For any chain, however often the process stops, starts again and clears the
\* cache: when a walk of a process that has the database to itself has come to
\* its end, the rows with spent_block_height = 0 are exactly the slots that are
\* unspent at the tip it found, each with its parent.
THEOREM SyncedRowsAlone ==
    ASSUME \A u \in Uses : \A p, q \in u.procs : p = q
    PROVE  Spec => []SyncedRows
<1>0. Base => Single
  BY DEF Base, Typed, Single
<1>1. Init => Base /\ CoinInv /\ SyncInv
  BY BaseInit, CoinInit, SyncInit
<1>2. (Base /\ CoinInv /\ SyncInv) /\ [Next]_vars => (Base /\ CoinInv /\ SyncInv)'
  BY <1>0, AloneNext
<1>3. Base /\ CoinInv /\ SyncInv => SyncedRows
  BY <1>0, SyncedRowsFrom
<1> QED BY <1>1, <1>2, <1>3, PTL DEF Spec

-----------------------------------------------------------------------------
\* The index, of one process.

\* Once the queue is written, the index has the value for its key.
EndsWith(ix, q, v) ==
    \/ \E i \in DOMAIN q :
          /\ q[i].op = "index" /\ q[i].value = v
          /\ \A j \in DOMAIN q : i < j /\ Indexes(q, j, v.key) => q[j].value = v
    \/ /\ v.key \in DOMAIN ix /\ ix[v.key] = v
       /\ \A j \in DOMAIN q : Indexes(q, j, v.key) => q[j].value = v

\* Where a walk may be at coin c, the index has the value of each key, or it is
\* about to be written, or a walk has begun to write the spend of c.
IndexAt(ch, ix, Q, c) ==
    /\ c <= Len(ch)
    /\ \A v \in ValuesOf(ch, c) :
          \/ v.key \in DOMAIN ix /\ ix[v.key] = v
          \/ W("index", v, Eve) \in Q
          \/ c < Len(ch) /\ v.key \in DOMAIN ix /\ ix[v.key] \in Cr(ch, c + 1)

\* Where the queue is the rest of the writes of the spend of c.
IndexSpend(ch, ix, q, c) ==
    /\ c < Len(ch) /\ IndexAt(ch, ix, {}, c)
    /\ \A v \in ValuesOf(ch, c) : v \notin Sp(ch, c + 1) => v.key \in DOMAIN ix /\ ix[v.key] = v
    /\ \A v \in Net(ch, c + 1) : EndsWith(ix, q, v)

\* At the end it has the values, each under its key, and nothing else.
IndexEnd(ch, ix, c) ==
    /\ c <= Len(ch)
    /\ DOMAIN ix \subseteq Keys(ValuesOf(ch, c))
    /\ \A v \in ValuesOf(ch, c) : v.key \in DOMAIN ix /\ ix[v.key] = v

IndexProgress(ch, ix, r) ==
    /\ r.pc = "walk" => IndexAt(ch, ix, Elements(r.todo), r.at)
    /\ r.pc = "write" /\ r.spent => IndexSpend(ch, ix, r.todo, r.at)
    /\ r.pc = "write" /\ ~ r.spent => IndexEnd(ch, ix, r.at)
    /\ r.pc = "done" => IndexEnd(ch, ix, r.at)

\* What is indexed was a value of the registry.
IndexKnown == \A k \in DOMAIN index : index[k] \in Known(chain, Len(chain))

IndexInv ==
    /\ \A c \in 1 .. Len(chain) : Rising(chain[c].created)
    /\ IndexKnown
    /\ \A t \in Tips : IndexAt(chain, index, {}, t)
    /\ \A p \in use.procs : IndexProgress(chain, index, proc[p])

\* An action makes no two values for one key.
LEMMA ActionRising ==
    ASSUME Typed, NEW S, Good(S), NEW a \in Actions(S)
    PROVE  Rising(a.created)
<1>1. CASE \E s \in {t \in S : t.counter < MaxCounter} : a = [spent |-> <<s>>, created |-> <<Touched(s)>>]
  <2>1. PICK s \in S : a = [spent |-> <<s>>, created |-> <<Touched(s)>>]
    BY <1>1
  <2>2. DOMAIN a.created = {1}
    BY <2>1
  <2> QED BY <2>2 DEF Rising
<1>2. CASE \E x \in {y \in use.names \X S \X S : Brackets(y[2], y[3], y[1])} :
             a = [spent   |-> <<x[2], x[3]>>,
                  created |-> <<[key |-> x[1], left |-> x[2].key, right |-> x[3].key, counter |-> 0],
                                RelinkRight(x[2], x[1]), RelinkLeft(x[3], x[1])>>]
  <2>1. PICK x \in use.names \X S \X S :
             /\ Brackets(x[2], x[3], x[1])
             /\ a = [spent   |-> <<x[2], x[3]>>,
                     created |-> <<[key |-> x[1], left |-> x[2].key, right |-> x[3].key, counter |-> 0],
                                   RelinkRight(x[2], x[1]), RelinkLeft(x[3], x[1])>>]
    BY <1>2
  <2> DEFINE k == x[1]
             l == x[2]
             r == x[3]
             n == [key |-> k, left |-> l.key, right |-> r.key, counter |-> 0]
             l2 == RelinkRight(l, k)
             r2 == RelinkLeft(r, k)
  <2>2. k \in use.names /\ l \in S /\ r \in S
    OBVIOUS
  <2>3. k \in Int /\ l \in Value /\ r \in Value
    BY <2>2, NamesAreNumbers DEF Good
  <2>4. a.created = <<n, l2, r2>> /\ l.key < k /\ k < r.key /\ n.key = k
    BY <2>1 DEF Brackets
  <2> HIDE DEF k, l, r
  <2>5. l2.key = l.key /\ r2.key = r.key /\ l.key \in Int /\ r.key \in Int
    <3>1. l.key \in Int /\ r.key \in Int
      BY <2>3 DEF Value
    <3> QED BY <2>3, <3>1, RelinkedValue
  <2> HIDE DEF n, l2, r2
  <2>6. n.key # l2.key /\ n.key # r2.key /\ l2.key # r2.key
    BY <2>3, <2>4, <2>5
  <2>7. DOMAIN a.created = {1, 2, 3} /\ a.created[1] = n /\ a.created[2] = l2 /\ a.created[3] = r2
    BY <2>4
  <2> QED BY <2>6, <2>7 DEF Rising
<1> QED BY <1>1, <1>2 DEF Actions

\* Of what two actions make for a key, the second's is the later.
LEMMA RisingConcat ==
    ASSUME NEW a \in Seq(Value), NEW b \in Seq(Value), Rising(a), Rising(b),
           \A x \in Elements(a), y \in Elements(b) : x.key = y.key => x.counter < y.counter
    PROVE  Rising(a \o b)
<1> DEFINE c == a \o b
<1>1. /\ Len(a) \in Nat /\ DOMAIN c \subseteq Nat
      /\ \A i \in DOMAIN c :
             \/ i \in DOMAIN a /\ i <= Len(a) /\ c[i] = a[i] /\ a[i] \in Elements(a)
             \/ i > Len(a) /\ i - Len(a) \in DOMAIN b /\ c[i] = b[i - Len(a)] /\ b[i - Len(a)] \in Elements(b)
  BY ConcatPositions
<1> SUFFICES ASSUME NEW i \in DOMAIN c, NEW j \in DOMAIN c, i < j, c[i].key = c[j].key
             PROVE  c[i].counter < c[j].counter
  BY DEF Rising
<1> HIDE DEF c
<1>2. i \in Nat /\ j \in Nat
  BY <1>1
<1>3. CASE j <= Len(a)
  <2>1. i \in DOMAIN a /\ j \in DOMAIN a /\ c[i] = a[i] /\ c[j] = a[j]
    BY <1>1, <1>2, <1>3
  <2> QED BY <2>1 DEF Rising
<1>4. CASE i <= Len(a) /\ j > Len(a)
  <2>1. c[i] \in Elements(a) /\ c[j] \in Elements(b)
    BY <1>1, <1>2, <1>4
  <2> QED BY <2>1
<1>5. CASE i > Len(a)
  <2>1. /\ i - Len(a) \in DOMAIN b /\ j - Len(a) \in DOMAIN b /\ i - Len(a) < j - Len(a)
        /\ c[i] = b[i - Len(a)] /\ c[j] = b[j - Len(a)]
    BY <1>1, <1>2, <1>5
  <2> QED BY <2>1 DEF Rising
<1> QED BY <1>1, <1>2, <1>3, <1>4, <1>5

\* Of what a spend makes for a key, the later has the higher counter.
LEMMA SpendRising ==
    ASSUME Typed, NEW S, Good(S), NEW s \in Spends(S)
    PROVE  Rising(s.created)
<1>1. CASE s \in Actions(S)
  BY <1>1, ActionRising
<1>2. CASE \E a \in Actions(S) : \E b \in Actions(Apply(S, a)) :
             s = [spent |-> a.spent \o b.spent, created |-> a.created \o b.created]
  <2>0. PICK a \in Actions(S) : \E b \in Actions(Apply(S, a)) :
            s = [spent |-> a.spent \o b.spent, created |-> a.created \o b.created]
    BY <1>2
  <2>1. PICK b \in Actions(Apply(S, a)) :
            s = [spent |-> a.spent \o b.spent, created |-> a.created \o b.created]
    BY <2>0
  <2>2. a \in Spend /\ Change(S, Elements(a.spent), Elements(a.created)) /\ Rising(a.created)
    BY ActionChange, ActionRising
  <2>3. Apply(S, a) = (S \ Elements(a.spent)) \cup Elements(a.created) /\ Good(Apply(S, a))
    BY <2>2 DEF Apply, Change
  <2>4. b \in Spend /\ Change(Apply(S, a), Elements(b.spent), Elements(b.created)) /\ Rising(b.created)
    BY <2>3, ActionChange, ActionRising
  <2>5. a.created \in Seq(Value) /\ b.created \in Seq(Value)
    BY <2>2, <2>4 DEF Spend
  <2>6. \A x \in Elements(a.created), y \in Elements(b.created) : x.key = y.key => x.counter < y.counter
    BY <2>3, <2>4 DEF Change
  <2>7. Rising(a.created \o b.created)
    BY <2>2, <2>4, <2>5, <2>6, RisingConcat
  <2> QED BY <2>1, <2>7
<1> QED BY <1>1, <1>2 DEF Spends

-----------------------------------------------------------------------------
\* The index at a coin.

\* The values of every coin, and what every spend made, are known at the end.
LEMMA AllKnown ==
    ASSUME NEW ch, History(ch)
    PROVE  /\ \A c \in 0 .. Len(ch) : ValuesOf(ch, c) \subseteq Known(ch, Len(ch))
           /\ \A c \in 1 .. Len(ch) : Cr(ch, c) \subseteq Known(ch, Len(ch))
<1>1. Len(ch) \in Nat
  BY DEF History
<1>2. ASSUME NEW c \in 0 .. Len(ch) PROVE Known(ch, c) \subseteq Known(ch, Len(ch))
  <2>1. c \in Nat /\ c <= Len(ch)
    BY <1>1
  <2> QED BY <1>1, <2>1, KnownGrows
<1>3. ASSUME NEW c \in 0 .. Len(ch) PROVE ValuesOf(ch, c) \subseteq Known(ch, c)
  <2>1. ValuesOf(ch, c) \subseteq Value
    BY DEF History, Good
  <2>2. \A v \in Value : v.counter <= v.counter
    BY DEF Value
  <2> QED BY <2>1, <2>2 DEF Known
<1>4. \A c \in 1 .. Len(ch) : c \in 0 .. Len(ch) /\ Cr(ch, c) \subseteq Known(ch, c)
  BY <1>1, KnownNext
<1> QED BY <1>2, <1>3, <1>4

\* A longer chain: what is known stays known, and the index is as good.
LEMMA StillIndexed ==
    ASSUME NEW ch \in Seq(Spend), NEW a \in Spend, NEW more, more = Append(ch, a),
           NEW ix, NEW Q, NEW q, NEW c \in Nat
    PROVE  /\ IndexAt(ch, ix, Q, c) => IndexAt(more, ix, Q, c)
           /\ IndexSpend(ch, ix, q, c) => IndexSpend(more, ix, q, c)
           /\ IndexEnd(ch, ix, c) => IndexEnd(more, ix, c)
<1>1. /\ Len(ch) \in Nat /\ Len(more) = Len(ch) + 1
      /\ \A d \in 0 .. Len(ch) : ValuesOf(more, d) = ValuesOf(ch, d)
      /\ \A d \in 1 .. Len(ch) : Sp(more, d) = Sp(ch, d) /\ Cr(more, d) = Cr(ch, d) /\ Net(more, d) = Net(ch, d)
  BY LongerChain
<1>2. /\ c <= Len(ch) => c <= Len(more) /\ ValuesOf(more, c) = ValuesOf(ch, c)
      /\ c < Len(ch) => /\ c < Len(more)
                        /\ Sp(more, c + 1) = Sp(ch, c + 1) /\ Cr(more, c + 1) = Cr(ch, c + 1)
                        /\ Net(more, c + 1) = Net(ch, c + 1)
  BY <1>1
<1>3. \A R : IndexAt(ch, ix, R, c) => IndexAt(more, ix, R, c)
  BY <1>2 DEF IndexAt
<1>4. IndexSpend(ch, ix, q, c) => IndexSpend(more, ix, q, c)
  <2> SUFFICES ASSUME IndexSpend(ch, ix, q, c) PROVE IndexSpend(more, ix, q, c)
    OBVIOUS
  <2>1. c < Len(ch) /\ c <= Len(ch) /\ IndexAt(more, ix, {}, c)
    <3>1. c < Len(ch) /\ IndexAt(ch, ix, {}, c)
      BY DEF IndexSpend
    <3> QED BY <1>1, <1>3, <3>1
  <2> QED BY <1>2, <2>1 DEF IndexSpend
<1>5. IndexEnd(ch, ix, c) => IndexEnd(more, ix, c)
  BY <1>2 DEF IndexEnd
<1> QED BY <1>3, <1>4, <1>5

\* Nothing but values of the chain is in the index, and at the last coin it has
\* all of them.
LEMMA IndexedAtEnd ==
    ASSUME NEW ch, History(ch), NEW ix,
           \A k \in DOMAIN ix : ix[k] \in Known(ch, Len(ch)) /\ ix[k].key = k,
           IndexAt(ch, ix, {}, Len(ch))
    PROVE  IndexEnd(ch, ix, Len(ch))
<1>1. Len(ch) \in Nat
  BY DEF History
<1>2. ASSUME NEW k \in DOMAIN ix PROVE k \in Keys(ValuesOf(ch, Len(ch)))
  <2>1. PICK w \in ValuesOf(ch, Len(ch)) : w.key = ix[k].key
    BY DEF Known
  <2> QED BY <2>1 DEF Keys
<1>3. \A v \in ValuesOf(ch, Len(ch)) : v.key \in DOMAIN ix /\ ix[v.key] = v
  BY <1>1 DEF IndexAt
<1> QED BY <1>1, <1>2, <1>3 DEF IndexEnd

\* Of the statements that write a spend, the last one that indexes a value for
\* a key indexes the value that the spend leaves for it.
LEMMA LastIndexed ==
    ASSUME Typed, History(chain), NEW c \in Nat, c < Len(chain), Rising(chain[c + 1].created),
           NEW v \in Net(chain, c + 1), NEW ix
    PROVE  EndsWith(ix, SpendWrites(c), v)
<1> DEFINE q == SpendWrites(c)
<1>1. /\ q \in Seq(Statement) /\ InOrder(q)
      /\ kind # "catalog" => \A w : w \in Elements(q) <=>
            \/ \E u \in Cr(chain, c + 1) : w = W("index", u, c) \/ w = W("slot", u, c)
            \/ \E u \in Sp(chain, c + 1) : w = W("mark", u, c + 1)
      /\ kind = "catalog" => \A w : w \in Elements(q) <=>
            \/ \E u \in Cr(chain, c + 1) \ Sp(chain, c + 1) : w = W("index", u, c) \/ w = W("slot", u, c)
            \/ \E u \in Sp(chain, c + 1) : w = W("markIx", u, c + 1)
  BY SpendWritesAre
<1> HIDE DEF q
<1>2. W("index", v, c) \in Elements(q)
  BY <1>1 DEF Net
<1>3. ASSUME NEW w \in Elements(q), w.op = "index" PROVE w.value \in Cr(chain, c + 1)
  <2>1. \/ \E u \in Cr(chain, c + 1) : w = W("index", u, c) \/ w = W("slot", u, c)
        \/ \E u \in Sp(chain, c + 1) : w = W("mark", u, c + 1) \/ w = W("markIx", u, c + 1)
    BY <1>1
  <2> QED BY <1>3, <2>1, PartsOf
<1>4. PICK i \in DOMAIN q : q[i] = W("index", v, c)
  BY <1>2 DEF Elements
<1>5. q[i].op = "index" /\ q[i].value = v
  BY <1>4, PartsOf
<1>6. ASSUME NEW j \in DOMAIN q, i < j, Indexes(q, j, v.key) PROVE q[j].value = v
  <2> DEFINE u == q[j].value
  <2>1. c + 1 \in 1 .. Len(chain) /\ (c + 1) - 1 = c
    BY DEF History
  <2>2. /\ Turn(ValuesOf(chain, c), Sp(chain, c + 1), Cr(chain, c + 1))
        /\ Good(ValuesOf(chain, c + 1))
        /\ ValuesOf(chain, c + 1) = (ValuesOf(chain, c) \ Sp(chain, c + 1)) \cup (Cr(chain, c + 1) \ Sp(chain, c + 1))
        /\ ValuesOf(chain, c + 1) \subseteq Value /\ Cr(chain, c + 1) \subseteq Value
    BY <2>1, TurnOf
  <2>3. u \in Cr(chain, c + 1) /\ u.key = v.key
    BY <1>3, <1>6 DEF Indexes, Elements
  <2>4. v.counter <= u.counter
    BY <1>1, <1>5, <1>6 DEF InOrder
  <2> HIDE DEF u
  <2>5. PICK w \in ValuesOf(chain, c + 1) : w.key = u.key /\ u.counter <= w.counter /\ (u.counter = w.counter => u = w)
    BY <2>2, <2>3 DEF Turn
  <2>6. w = v
    BY <2>2, <2>3, <2>5 DEF Good, ListInv, OneSlotPerKey, Net
  <2>7. u.counter \in Nat /\ v.counter \in Nat
    BY <2>2, <2>3, <2>5, <2>6 DEF Value
  <2> QED BY <2>4, <2>5, <2>6, <2>7 DEF u
<1> QED BY <1>5, <1>6 DEF EndsWith, q

\* Statements before it that do not index anything do not matter.
LEMMA EndsWithBehind ==
    ASSUME NEW a \in Seq(Statement), NEW b \in Seq(Statement), \A w \in Elements(a) : w.op # "index",
           NEW ix, NEW v, EndsWith(ix, b, v)
    PROVE  EndsWith(ix, a \o b, v)
<1> DEFINE c == a \o b
<1>1. /\ Len(a) \in Nat /\ DOMAIN c \subseteq Nat
      /\ \A i \in DOMAIN c :
             \/ i \in DOMAIN a /\ i <= Len(a) /\ c[i] = a[i] /\ a[i] \in Elements(a)
             \/ i > Len(a) /\ i - Len(a) \in DOMAIN b /\ c[i] = b[i - Len(a)] /\ b[i - Len(a)] \in Elements(b)
      /\ \A i \in DOMAIN b : Len(a) + i \in DOMAIN c /\ c[Len(a) + i] = b[i]
  BY ConcatPositions
<1> HIDE DEF c
<1>2. ASSUME NEW j \in DOMAIN c, Indexes(c, j, v.key)
      PROVE  j \in Nat /\ j - Len(a) \in DOMAIN b /\ c[j] = b[j - Len(a)] /\ Indexes(b, j - Len(a), v.key)
  BY <1>1, <1>2 DEF Indexes
<1>3. CASE \E i \in DOMAIN b : /\ b[i].op = "index" /\ b[i].value = v
                               /\ \A j \in DOMAIN b : i < j /\ Indexes(b, j, v.key) => b[j].value = v
  <2>1. PICK i \in DOMAIN b : /\ b[i].op = "index" /\ b[i].value = v
                              /\ \A j \in DOMAIN b : i < j /\ Indexes(b, j, v.key) => b[j].value = v
    BY <1>3
  <2>2. Len(a) + i \in DOMAIN c /\ c[Len(a) + i] = b[i] /\ i \in Nat
    <3>1. DOMAIN b \subseteq Nat
      OBVIOUS
    <3> QED BY <1>1, <3>1
  <2>3. ASSUME NEW j \in DOMAIN c, Len(a) + i < j, Indexes(c, j, v.key) PROVE c[j].value = v
    <3>1. j \in Nat /\ j - Len(a) \in DOMAIN b /\ c[j] = b[j - Len(a)] /\ Indexes(b, j - Len(a), v.key)
      BY <1>2, <2>3
    <3>2. i < j - Len(a)
      BY <1>1, <2>2, <2>3, <3>1
    <3> QED BY <2>1, <3>1, <3>2
  <2> QED BY <2>1, <2>2, <2>3 DEF EndsWith, c
<1>4. CASE v.key \in DOMAIN ix /\ ix[v.key] = v /\ \A j \in DOMAIN b : Indexes(b, j, v.key) => b[j].value = v
  BY <1>2, <1>4 DEF EndsWith, c
<1> QED BY <1>3, <1>4 DEF EndsWith

\* So when a walk has fetched a spend, its queue ends with what the spend leaves.
LEMMA SpendIndexed ==
    ASSUME Typed, History(chain), NEW c \in Nat, c < Len(chain), Rising(chain[c + 1].created),
           NEW a \in Seq(Statement), \A w \in Elements(a) : w.op # "index",
           IndexAt(chain, index, {}, c)
    PROVE  IndexSpend(chain, index, a \o SpendWrites(c), c)
<1>1. SpendWrites(c) \in Seq(Statement)
  BY SpendWritesAre
<1>2. \A v \in Net(chain, c + 1) : EndsWith(index, a \o SpendWrites(c), v)
  BY <1>1, LastIndexed, EndsWithBehind
<1>3. ASSUME NEW v \in ValuesOf(chain, c), v \notin Sp(chain, c + 1)
      PROVE  v.key \in DOMAIN index /\ index[v.key] = v
  <2>1. CASE v.key \in DOMAIN index /\ index[v.key] \in Cr(chain, c + 1)
    <3>1. index[v.key].key = v.key
      BY <2>1 DEF Typed
    <3> QED BY <1>3, <2>1, <3>1, SameKey
  <2> QED BY <2>1 DEF IndexAt
<1> QED BY <1>2, <1>3 DEF IndexSpend

\* One statement: what is left of the work on a spend.
LEMMA IndexSpendNext ==
    ASSUME NEW ch, History(ch), NEW c \in Nat, NEW ix, NEW jx, NEW q \in Seq(Statement), q # <<>>,
           IndexSpend(ch, ix, q, c),
           \/ Head(q).op # "index" /\ jx = ix
           \/ Head(q).op = "index" /\ Head(q).value \in Cr(ch, c + 1) /\ Reindexed(ix, jx, Head(q).value)
    PROVE  IndexSpend(ch, jx, Tail(q), c)
<1> DEFINE w == Head(q)
           t == Tail(q)
<1>1. /\ 1 \in DOMAIN q /\ w = q[1] /\ DOMAIN q \subseteq Nat
      /\ \A j \in DOMAIN t : j \in Nat /\ j + 1 \in DOMAIN q /\ t[j] = q[j + 1]
      /\ \A i \in DOMAIN q : i # 1 => i - 1 \in DOMAIN t /\ t[i - 1] = q[i]
  BY RestOf
<1>0. \A j \in DOMAIN t : j # 0
  <2>1. DOMAIN t = 1 .. Len(t)
    BY RestOf
  <2> QED BY <2>1
<1> HIDE DEF w, t
<1>2. ASSUME NEW v, EndsWith(ix, q, v)
      PROVE  EndsWith(jx, t, v)
  <2>1. \A j \in DOMAIN t : Indexes(t, j, v.key) => Indexes(q, j + 1, v.key)
    BY <1>1 DEF Indexes
  <2>2. CASE \E i \in DOMAIN q : /\ q[i].op = "index" /\ q[i].value = v
                                 /\ \A j \in DOMAIN q : i < j /\ Indexes(q, j, v.key) => q[j].value = v
    <3>1. PICK i \in DOMAIN q : /\ q[i].op = "index" /\ q[i].value = v
                                /\ \A j \in DOMAIN q : i < j /\ Indexes(q, j, v.key) => q[j].value = v
      BY <2>2
    <3>2. i \in Nat
      BY <1>1
    <3>3. CASE i = 1
      <4>1. w.op = "index" /\ w.value = v
        BY <1>1, <3>1, <3>3
      <4>2. v.key \in DOMAIN jx /\ jx[v.key] = v
        BY <4>1 DEF w, Reindexed
      <4>3. \A j \in DOMAIN t : Indexes(t, j, v.key) => t[j].value = v
        <5>1. \A j \in DOMAIN t : 1 < j + 1
          BY <1>0, <1>1
        <5> QED BY <1>1, <2>1, <3>1, <3>3, <5>1
      <4> QED BY <4>2, <4>3 DEF EndsWith
    <3>4. CASE i # 1
      <4>1. i - 1 \in DOMAIN t /\ t[i - 1] = q[i]
        BY <1>1, <3>4
      <4>2. \A j \in DOMAIN t : i - 1 < j => i < j + 1
        BY <1>1, <3>2
      <4>3. \A j \in DOMAIN t : i - 1 < j /\ Indexes(t, j, v.key) => t[j].value = v
        BY <1>1, <2>1, <3>1, <4>2
      <4> QED BY <3>1, <4>1, <4>3 DEF EndsWith
    <3> QED BY <3>3, <3>4
  <2>3. CASE v.key \in DOMAIN ix /\ ix[v.key] = v /\ \A j \in DOMAIN q : Indexes(q, j, v.key) => q[j].value = v
    <3>1. \A j \in DOMAIN t : Indexes(t, j, v.key) => t[j].value = v
      BY <1>1, <2>1, <2>3
    <3>2. v.key \in DOMAIN jx /\ jx[v.key] = v
      <4>1. CASE w.op # "index" /\ jx = ix
        BY <2>3, <4>1
      <4>2. CASE w.op = "index" /\ Reindexed(ix, jx, w.value)
        <5>1. w.value.key = v.key => w.value = v
          BY <1>1, <2>3, <4>2 DEF Indexes
        <5> QED BY <2>3, <4>2, <5>1 DEF Reindexed
      <4> QED BY <4>1, <4>2 DEF w
    <3> QED BY <3>1, <3>2 DEF EndsWith
  <2> QED BY <1>2, <2>2, <2>3 DEF EndsWith
<1>3. ASSUME NEW v \in ValuesOf(ch, c), v.key \in DOMAIN ix
      PROVE  \/ v.key \in DOMAIN jx /\ jx[v.key] = ix[v.key]
             \/ v \in Sp(ch, c + 1) /\ v.key \in DOMAIN jx /\ jx[v.key] \in Cr(ch, c + 1)
  <2>1. CASE w.op # "index" /\ jx = ix
    BY <1>3, <2>1
  <2>2. CASE w.value \in Cr(ch, c + 1) /\ Reindexed(ix, jx, w.value)
    <3>1. w.value.key = v.key => v \in Sp(ch, c + 1)
      <4>1. c < Len(ch)
        BY DEF IndexSpend
      <4> QED BY <2>2, <4>1, SameKey
    <3> QED BY <1>3, <2>2, <3>1 DEF Reindexed
  <2> QED BY <2>1, <2>2 DEF w
<1>4. c < Len(ch) /\ IndexAt(ch, ix, {}, c)
  BY DEF IndexSpend
<1>5. IndexAt(ch, jx, {}, c)
  BY <1>3, <1>4 DEF IndexAt
<1>6. \A v \in ValuesOf(ch, c) : v \notin Sp(ch, c + 1) => v.key \in DOMAIN jx /\ jx[v.key] = v
  BY <1>3 DEF IndexSpend
<1>7. \A v \in Net(ch, c + 1) : EndsWith(jx, t, v)
  BY <1>2 DEF IndexSpend
<1> QED BY <1>4, <1>5, <1>6, <1>7 DEF IndexSpend, t

\* When the writes of a spend are done, the index is as good one coin further.
LEMMA IndexSpendDone ==
    ASSUME NEW ch, History(ch), NEW c \in Nat, NEW ix, IndexSpend(ch, ix, <<>>, c)
    PROVE  IndexAt(ch, ix, {}, c + 1)
<1>1. c < Len(ch) /\ Len(ch) \in Nat
  BY DEF IndexSpend, History
<1>2. ValuesOf(ch, c + 1) = (ValuesOf(ch, c) \ Sp(ch, c + 1)) \cup (Cr(ch, c + 1) \ Sp(ch, c + 1))
  BY ValuesOfNext
<1>3. ASSUME NEW v \in ValuesOf(ch, c + 1) PROVE v.key \in DOMAIN ix /\ ix[v.key] = v
  <2>1. CASE v \in ValuesOf(ch, c) /\ v \notin Sp(ch, c + 1)
    BY <2>1 DEF IndexSpend
  <2>2. CASE v \in Net(ch, c + 1)
    <3>1. EndsWith(ix, <<>>, v)
      BY <2>2 DEF IndexSpend
    <3> QED BY <3>1 DEF EndsWith
  <2> QED BY <1>2, <2>1, <2>2 DEF Net
<1> QED BY <1>1, <1>3 DEF IndexAt

\* One statement of a walk.
LEMMA IndexWalkNext ==
    ASSUME NEW ch, History(ch), NEW c \in Nat, NEW ix, NEW jx, NEW Q, NEW rest, NEW w, Q \subseteq rest \cup {w},
           IndexAt(ch, ix, Q, c),
           \/ w.op # "index" /\ jx = ix
           \/ c = 0 /\ w.value \in {EndSlot(Lo), EndSlot(Hi)} /\ Reindexed(ix, jx, w.value)
    PROVE  IndexAt(ch, jx, rest, c)
<1>1. CASE w.op # "index" /\ jx = ix
  <2>1. \A v : W("index", v, Eve) \in Q => W("index", v, Eve) \in rest
    BY <1>1, PartsOf
  <2> QED BY <1>1, <2>1 DEF IndexAt
<1>2. CASE c = 0 /\ w.value \in {EndSlot(Lo), EndSlot(Hi)} /\ Reindexed(ix, jx, w.value)
  <2> DEFINE u == w.value
  <2>1. u \in ValuesOf(ch, 0) /\ c = 0
    BY <1>2, ValuesOfNext
  <2>2. \A v \in ValuesOf(ch, 0) : v.key = u.key => v = u
    <3>1. 0 \in 0 .. Len(ch)
      BY DEF History
    <3> QED BY <2>1, <3>1 DEF History, Good, ListInv, OneSlotPerKey
  <2>3. \A v : W("index", v, Eve) \in Q => W("index", v, Eve) \in rest \/ v = u
    BY PartsOf
  <2> HIDE DEF u
  <2>4. ASSUME NEW v \in ValuesOf(ch, 0)
        PROVE  \/ v.key \in DOMAIN jx /\ jx[v.key] = v
               \/ W("index", v, Eve) \in rest
               \/ 0 < Len(ch) /\ v.key \in DOMAIN jx /\ jx[v.key] \in Cr(ch, 0 + 1)
    <3>1. CASE v = u
      BY <1>2, <3>1 DEF u, Reindexed
    <3>2. CASE v # u
      <4>1. v.key # u.key
        BY <2>2, <3>2
      <4> QED BY <1>2, <2>1, <2>3, <3>2, <4>1 DEF IndexAt, u, Reindexed
    <3> QED BY <3>1, <3>2
  <2> QED BY <2>1, <2>4 DEF IndexAt
<1> QED BY <1>1, <1>2

-----------------------------------------------------------------------------
\* Steps of the one process: the index.

\* What a step of a process has to establish.
LEMMA IndexStep ==
    ASSUME IndexInv, Single, NEW p \in use.procs, UNCHANGED <<use, chain>>,
           \A k \in DOMAIN index' : index'[k] \in Known(chain, Len(chain)),
           \A t \in Tips' : IndexAt(chain, index', {}, t),
           IndexProgress(chain, index', proc'[p])
    PROVE  IndexInv'
<1>1. IndexKnown' /\ (\A c \in 1 .. Len(chain) : Rising(chain[c].created))'
  BY DEF IndexKnown, IndexInv
<1>2. (\A t \in Tips : IndexAt(chain, index, {}, t))'
  OBVIOUS
<1>3. (\A q \in use.procs : IndexProgress(chain, index, proc[q]))'
  <2>1. \A q \in use.procs : q = p
    BY DEF Single
  <2> QED BY <2>1
<1> QED BY <1>1, <1>2, <1>3 DEF IndexInv

\* What a step of a process that leaves the index alone has to establish.
LEMMA SameIndex ==
    ASSUME IndexInv, Single, NEW p \in use.procs, UNCHANGED <<use, chain, index>>, Tips' = Tips,
           IndexProgress(chain, index, proc'[p])
    PROVE  IndexInv'
<1>1. \A k \in DOMAIN index' : index'[k] \in Known(chain, Len(chain))
  BY DEF IndexInv, IndexKnown
<1>2. \A t \in Tips' : IndexAt(chain, index', {}, t)
  BY DEF IndexInv
<1>3. IndexProgress(chain, index', proc'[p])
  OBVIOUS
<1> QED BY <1>1, <1>2, <1>3, IndexStep

\* Nothing is indexed in the beginning.
LEMMA IndexInit ==
    ASSUME Init
    PROVE  IndexInv
<1>1. chain = <<>> /\ index = <<>> /\ Tips = {} /\ \A p \in Procs : proc[p] = Idle
  BY DEF Init, Tips
<1>2. use.procs \subseteq Procs
  BY BaseInit, NamesAreNumbers DEF Base
<1>3. \A p \in use.procs : IndexProgress(chain, index, proc[p])
  BY <1>1, <1>2 DEF IndexProgress, Idle
<1> QED BY <1>1, <1>3 DEF IndexInv, IndexKnown

\* The registry is spent.
LEMMA IndexGrow ==
    ASSUME Base, Base', IndexInv, Grow
    PROVE  IndexInv'
<1>1. PICK a \in Spends(ValuesAt(Len(chain))) : chain' = Append(chain, a)
  BY DEF Grow
<1>2. /\ a \in Spend /\ chain \in Seq(Spend) /\ Len(chain) \in Nat /\ Rising(a.created)
      /\ Typed /\ History(chain) /\ History(chain')
  <2>1. ValuesAt(Len(chain)) = ValuesOf(chain, Len(chain))
    BY DEF ValuesAt, ValuesOf, SlotsAt, SlotsOf
  <2>2. Good(ValuesOf(chain, Len(chain)))
    BY DEF Base, History
  <2> QED BY <2>1, <2>2, HistoryGrows, SpendRising DEF Base, History
<1>3. use' = use /\ index' = index /\ coins' = coins /\ proc' = proc /\ Tips' = Tips
  BY DEF Grow, db, Tips
<1>4. Len(chain') = Len(chain) + 1 /\ \A c \in 1 .. Len(chain) : chain'[c] = chain[c]
  BY <1>1, <1>2
<1>5. \A c \in 1 .. Len(chain') : Rising(chain'[c].created)
  <2>1. chain'[Len(chain) + 1] = a
    BY <1>1, <1>2
  <2>2. \A c \in 1 .. Len(chain') : c \in 1 .. Len(chain) \/ c = Len(chain) + 1
    BY <1>2, <1>4
  <2> QED BY <1>2, <1>4, <2>1, <2>2 DEF IndexInv
<1>6. IndexKnown'
  <2>1. Known(chain', Len(chain)) = Known(chain, Len(chain))
    <3>1. ValuesOf(chain', Len(chain)) = ValuesOf(chain, Len(chain))
      <4>1. Len(chain) \in 0 .. Len(chain)
        BY <1>2
      <4> QED BY <1>1, <1>2, <4>1, LongerChain
    <3> QED BY <3>1 DEF Known
  <2>2. Known(chain', Len(chain)) \subseteq Known(chain', Len(chain'))
    <3>1. Len(chain') \in Nat /\ Len(chain) <= Len(chain')
      BY <1>2, <1>4
    <3> QED BY <1>2, <3>1, KnownGrows
  <2> QED BY <1>3, <2>1, <2>2 DEF IndexInv, IndexKnown
<1>7. \A t \in Tips : t \in Nat
  BY <1>2 DEF Tips, Typed
<1>8. (\A t \in Tips : IndexAt(chain, index, {}, t))'
  BY <1>1, <1>2, <1>3, <1>7, StillIndexed DEF IndexInv
<1>9. ASSUME NEW q \in use.procs
      PROVE  IndexProgress(chain', index, proc[q])
  <2>1. proc[q].at \in Nat
    BY <1>2, NamesAreNumbers DEF Typed, Process
  <2>2. IndexProgress(chain, index, proc[q])
    BY DEF IndexInv
  <2> QED BY <1>1, <1>2, <2>1, <2>2, StillIndexed DEF IndexProgress
<1>10. (\A q \in use.procs : IndexProgress(chain, index, proc[q]))'
  BY <1>3, <1>9
<1> QED BY <1>5, <1>6, <1>8, <1>10 DEF IndexInv

\* A walk starts.
LEMMA IndexStart ==
    ASSUME Base, IndexInv, Single, NEW p \in use.procs, Start(p)
    PROVE  IndexInv'
<1>1. p \in Procs /\ Typed /\ UNCHANGED <<use, chain, index>> /\ Tips' = Tips
  BY NamesAreNumbers DEF Base, Start, db, Tips
<1> DEFINE new == proc'[p]
<1>2. CASE \E c \in Tips : proc' = [proc EXCEPT ![p] =
                [pc |-> "walk", at |-> c, save |-> TRUE, spent |-> FALSE, todo |-> ConfigWrites]]
  <2>1. PICK c \in Tips : new = [pc |-> "walk", at |-> c, save |-> TRUE, spent |-> FALSE, todo |-> ConfigWrites]
    BY <1>1, <1>2 DEF Typed
  <2>2. IndexAt(chain, index, {}, c)
    BY DEF IndexInv
  <2>3. IndexAt(chain, index, Elements(ConfigWrites), c)
    BY <2>2 DEF IndexAt
  <2>4. IndexProgress(chain, index, new)
    BY <2>1, <2>3 DEF IndexProgress
  <2> QED BY <1>1, <2>4, SameIndex
<1>3. CASE proc' = [proc EXCEPT ![p] =
                [pc |-> "walk", at |-> 0, save |-> FALSE, spent |-> FALSE, todo |-> ColdWrites \o ConfigWrites]]
  <2>1. new = [pc |-> "walk", at |-> 0, save |-> FALSE, spent |-> FALSE, todo |-> ColdWrites \o ConfigWrites]
    BY <1>1, <1>3 DEF Typed
  <2> DEFINE Q == Elements(ColdWrites \o ConfigWrites)
  <2>2. \A v \in {EndSlot(Lo), EndSlot(Hi)} : W("index", v, Eve) \in Q
    BY <1>1, ColdWritesAre
  <2>3. Len(chain) \in Nat
    BY <1>1 DEF Typed
  <2> HIDE DEF Q
  <2>4. IndexAt(chain, index, Q, 0)
    BY <2>2, <2>3, ValuesOfNext DEF IndexAt
  <2>5. IndexProgress(chain, index, new)
    BY <2>1, <2>4 DEF IndexProgress, Q
  <2> QED BY <1>1, <2>5, SameIndex
<1> QED BY <1>2, <1>3 DEF Start

\* A walk looks at a coin.
LEMMA IndexFetch ==
    ASSUME Base, IndexInv, Single, NEW p \in use.procs, Fetch(p)
    PROVE  IndexInv'
<1>1. /\ p \in Procs /\ Typed /\ History(chain) /\ UNCHANGED <<use, chain, index>> /\ Tips' = Tips
      /\ proc[p].pc = "walk" /\ proc[p].todo = <<>>
  BY NamesAreNumbers DEF Base, Fetch, db, Tips
<1> DEFINE c == proc[p].at
           a == Saving(p)
           b == Spending(p)
           r == [pc |-> "write", at |-> c, save |-> TRUE, spent |-> c < Len(chain), todo |-> a \o b]
<1>2. c \in Nat /\ Len(chain) \in Nat /\ c <= Len(chain) /\ IndexAt(chain, index, {}, c)
  <2>1. c \in Nat /\ Len(chain) \in Nat
    BY <1>1 DEF Typed, Process
  <2>2. IndexAt(chain, index, Elements(<<>>), c)
    BY <1>1 DEF IndexInv, IndexProgress
  <2>3. Elements(<<>>) = {}
    BY DEF Elements
  <2> QED BY <2>1, <2>2, <2>3 DEF IndexAt
<1>3. proc'[p] = r /\ a \in Seq(Statement)
  <2>1. proc' = [proc EXCEPT ![p] = r] /\ a \in Seq(Statement)
    BY <1>1, FetchDoes
  <2> HIDE DEF r, a
  <2> QED BY <1>1, <2>1 DEF Typed
<1>4. r.pc = "write" /\ r.at = c /\ (r.spent <=> c < Len(chain)) /\ r.todo = a \o b
  OBVIOUS
<1>5. \A w \in Elements(a) : w.op # "index"
  <2>1. a = <<>> \/ \E op \in {"spent", "coin"} : a = <<W("parent", EndSlot(Lo), c), W(op, EndSlot(Lo), c)>>
    BY DEF Saving
  <2>2. \A w \in Elements(<<>>) : w.op # "index"
    BY DEF Elements
  <2>3. ASSUME NEW op \in {"spent", "coin"}
        PROVE  \A w \in Elements(<<W("parent", EndSlot(Lo), c), W(op, EndSlot(Lo), c)>>) : w.op # "index"
    <3> DEFINE x == W("parent", EndSlot(Lo), c)
               y == W(op, EndSlot(Lo), c)
    <3>1. x.op # "index" /\ y.op # "index"
      BY PartsOf
    <3>2. x \in {x, y} /\ y \in {x, y}
      OBVIOUS
    <3> HIDE DEF x, y
    <3>3. Elements(<<x, y>>) = {x, y}
      BY <3>2, ShortElements
    <3> QED BY <3>1, <3>3 DEF x, y
  <2> HIDE DEF a
  <2> QED BY <2>1, <2>2, <2>3
<1> HIDE DEF r, a
<1>6. CASE c < Len(chain)
  <2>1. Rising(chain[c + 1].created)
    <3>1. c + 1 \in 1 .. Len(chain)
      BY <1>2, <1>6
    <3> QED BY <3>1 DEF IndexInv
  <2>2. IndexSpend(chain, index, a \o SpendWrites(c), c)
    BY <1>1, <1>2, <1>3, <1>5, <1>6, <2>1, SpendIndexed
  <2>3. r.todo = a \o SpendWrites(c)
    BY <1>4, <1>6 DEF Spending
  <2>4. IndexProgress(chain, index, r)
    BY <1>4, <1>6, <2>2, <2>3 DEF IndexProgress
  <2> QED BY <1>1, <1>3, <2>4, SameIndex
<1>7. CASE ~ (c < Len(chain))
  <2>1. c = Len(chain)
    BY <1>2, <1>7
  <2>2. \A k \in DOMAIN index : index[k] \in Known(chain, Len(chain)) /\ index[k].key = k
    BY <1>1 DEF IndexInv, IndexKnown, Typed
  <2>3. IndexEnd(chain, index, c)
    BY <1>1, <1>2, <2>1, <2>2, IndexedAtEnd
  <2>4. IndexProgress(chain, index, r)
    BY <1>4, <1>7, <2>3 DEF IndexProgress
  <2> QED BY <1>1, <1>3, <2>4, SameIndex
<1> QED BY <1>6, <1>7

\* A walk goes on to the next coin, or comes to its end.
LEMMA IndexAdvance ==
    ASSUME Base, IndexInv, Single, NEW p \in use.procs, Advance(p)
    PROVE  IndexInv'
<1>1. /\ p \in Procs /\ Typed /\ History(chain) /\ UNCHANGED <<use, chain, index>> /\ Tips' = Tips
      /\ proc[p].pc = "write" /\ proc[p].todo = <<>> /\ proc[p] \in Process /\ proc[p].at \in Nat
  BY NamesAreNumbers DEF Base, Advance, db, Tips, Typed, Process
<1> DEFINE old == proc[p]
           new == proc'[p]
<1>2. new = IF old.spent THEN [old EXCEPT !.pc = "walk", !.at = old.at + 1] ELSE [old EXCEPT !.pc = "done"]
  BY <1>1, ProcessSteps DEF Typed
<1>3. IndexProgress(chain, index, old)
  BY DEF IndexInv
<1>4. CASE old.spent
  <2>1. new.pc = "walk" /\ new.at = old.at + 1 /\ new.todo = <<>>
    BY <1>1, <1>2, <1>4 DEF Process
  <2>2. IndexAt(chain, index, {}, old.at + 1)
    BY <1>1, <1>3, <1>4, IndexSpendDone DEF IndexProgress
  <2>3. Elements(<<>>) = {}
    BY DEF Elements
  <2>4. IndexProgress(chain, index, new)
    BY <2>1, <2>2, <2>3 DEF IndexProgress
  <2> QED BY <1>1, <2>4, SameIndex
<1>5. CASE ~ old.spent
  <2>1. new.pc = "done" /\ new.at = old.at
    BY <1>1, <1>2, <1>5 DEF Process
  <2>2. IndexProgress(chain, index, new)
    BY <1>1, <1>3, <1>5, <2>1 DEF IndexProgress
  <2> QED BY <1>1, <2>2, SameIndex
<1> QED BY <1>4, <1>5

\* A process stops, or clears the cache.
LEMMA IndexCrashOrClear ==
    ASSUME Base, IndexInv, Single, NEW p \in use.procs, Crash(p) \/ ClearCache(p)
    PROVE  IndexInv'
<1>1. p \in Procs /\ Typed /\ UNCHANGED <<use, chain, index>>
  BY NamesAreNumbers DEF Base, Crash, ClearCache, db
<1>2. CASE Crash(p)
  <2>1. proc'[p].pc = "crashed"
    <3>1. proc'[p] = [Idle EXCEPT !.pc = "crashed"]
      BY <1>1, <1>2, ProcessSteps DEF Typed
    <3> QED BY <3>1 DEF Idle
  <2>2. Tips' = Tips
    BY <1>2 DEF Crash, db, Tips
  <2>3. IndexProgress(chain, index, proc'[p])
    BY <2>1 DEF IndexProgress
  <2> QED BY <1>1, <2>2, <2>3, SameIndex
<1>3. CASE ClearCache(p)
  <2>1. Tips' = Tips
    BY <1>1, <1>3, ClearLive
  <2>2. IndexProgress(chain, index, proc'[p])
    BY <1>3 DEF ClearCache, IndexInv
  <2> QED BY <1>1, <2>1, <2>2, SameIndex
<1> QED BY <1>2, <1>3

\* What a statement does to what is indexed, where it indexes a known value.
LEMMA KnownAfter ==
    ASSUME IndexKnown, NEW v, index' = index \/ (Reindexed(index, index', v) /\ v \in Known(chain, Len(chain)))
    PROVE  \A k \in DOMAIN index' : index'[k] \in Known(chain, Len(chain))
<1>1. CASE index' = index
  BY <1>1 DEF IndexKnown
<1>2. CASE Reindexed(index, index', v) /\ v \in Known(chain, Len(chain))
  BY <1>2 DEF IndexKnown, Reindexed
<1> QED BY <1>1, <1>2

\* Before the first coin.
LEMMA IndexWriteWalk ==
    ASSUME Base, CoinInv, SyncInv, IndexInv, Single, NEW p \in use.procs, Write(p), proc[p].pc = "walk"
    PROVE  IndexInv'
<1> DEFINE old == proc[p]
           new == proc'[p]
           w == Head(old.todo)
<1>1. /\ p \in Procs /\ Typed /\ History(chain) /\ w \in Statement /\ Execute(w) /\ UNCHANGED <<use, chain>>
      /\ new.at = old.at /\ new.pc = "walk" /\ old.at \in Nat /\ w \in Elements(old.todo)
      /\ Elements(old.todo) \subseteq Elements(new.todo) \cup {w}
  BY SyncWriteDoes DEF Base
<1>2. \/ w.op = "config"
      \/ old.at = 0 /\ w.op \in {"slot", "index"} /\ w.value \in {EndSlot(Lo), EndSlot(Hi)}
  BY <1>1 DEF SyncInv, Progress, WalkQueue
<1>3. Tips' = Tips
  <2>1. w.op \notin CoinOps
    BY <1>2 DEF CoinOps
  <2> QED BY <1>1, <2>1, TipsAfter
<1>4. w.op # "index" => index' = index
  BY <1>1, StatementLive
<1>5. w.op = "index" => Reindexed(index, index', w.value)
  BY <1>1, StatementLive
<1>6. IndexAt(chain, index, Elements(old.todo), old.at)
  BY DEF IndexInv, IndexProgress
<1> HIDE DEF w, old, new
<1>7. IndexAt(chain, index', Elements(new.todo), old.at)
  BY <1>1, <1>2, <1>4, <1>5, <1>6, IndexWalkNext
<1>8. IndexProgress(chain, index', new)
  BY <1>1, <1>7 DEF IndexProgress
<1>9. \A t \in Tips' : IndexAt(chain, index', {}, t)
  <2> SUFFICES ASSUME NEW t \in Tips PROVE IndexAt(chain, index', {}, t)
    BY <1>3
  <2>1. old.at # 0
    BY TipOf DEF old
  <2>2. index' = index
    BY <1>2, <1>4, <2>1
  <2> QED BY <2>2 DEF IndexInv
<1>10. \A k \in DOMAIN index' : index'[k] \in Known(chain, Len(chain))
  <2>1. w.value \in {EndSlot(Lo), EndSlot(Hi)} => w.value \in Known(chain, Len(chain))
    <3>1. 0 \in 0 .. Len(chain)
      BY <1>1 DEF Typed
    <3> QED BY <1>1, <3>1, AllKnown, ValuesOfNext
  <2>2. index' = index \/ (Reindexed(index, index', w.value) /\ w.value \in Known(chain, Len(chain)))
    BY <1>2, <1>4, <1>5, <2>1
  <2> QED BY <2>2, KnownAfter DEF IndexInv
<1> QED BY <1>1, <1>8, <1>9, <1>10, IndexStep DEF new

\* In the work on a spend.
LEMMA IndexWriteSpend ==
    ASSUME Base, CoinInv, SyncInv, IndexInv, Single, NEW p \in use.procs, Write(p), proc[p].pc = "write", proc[p].spent
    PROVE  IndexInv'
<1> DEFINE old == proc[p]
           new == proc'[p]
           w == Head(old.todo)
           c == old.at
<1>1. /\ p \in Procs /\ Typed /\ History(chain) /\ w \in Statement /\ Execute(w) /\ UNCHANGED <<use, chain>>
      /\ new.at = c /\ new.pc = "write" /\ new.spent /\ new.todo = Tail(old.todo) /\ old.todo # <<>>
      /\ c \in Nat /\ w \in Elements(old.todo) /\ old.todo \in Seq(Statement)
  BY SyncWriteDoes DEF Base, Process
<1>2. IndexSpend(chain, index, old.todo, c)
  BY DEF IndexInv, IndexProgress
<1>3. /\ w.op # "coin"
      /\ w.op = "index" => w.value \in Cr(chain, c + 1)
  <2>1. SpendQueue(chain, old)
    BY DEF SyncInv, Progress
  <2> QED BY <1>1, <2>1 DEF SpendQueue, Saves, Net, MarkOp
<1>4. w.op # "index" => index' = index
  BY <1>1, StatementLive
<1>5. w.op = "index" => Reindexed(index, index', w.value)
  BY <1>1, StatementLive
<1>6. \A t \in Tips' : t \in Tips
  BY <1>1, <1>3, TipsAfter
<1>7. IndexSpend(chain, index', new.todo, c)
  <2> HIDE DEF old, new, c
  <2> QED BY <1>1, <1>2, <1>3, <1>4, <1>5, IndexSpendNext
<1>8. IndexProgress(chain, index', new)
  <2> HIDE DEF new
  <2> QED BY <1>1, <1>7 DEF IndexProgress
<1>9. \A t \in Tips' : IndexAt(chain, index', {}, t)
  <2> SUFFICES ASSUME NEW t \in Tips PROVE IndexAt(chain, index', {}, t)
    BY <1>6
  <2>1. CASE w.op # "index"
    BY <1>4, <2>1 DEF IndexInv
  <2>2. CASE w.op = "index"
    <3>1. c = t
      BY <1>1, <2>2, TipOf
    <3> QED BY <1>7, <3>1 DEF IndexSpend
  <2> QED BY <2>1, <2>2
<1>10. \A k \in DOMAIN index' : index'[k] \in Known(chain, Len(chain))
  <2>1. w.op = "index" => w.value \in Known(chain, Len(chain))
    <3>1. c + 1 \in 1 .. Len(chain)
      BY <1>1, <1>2 DEF IndexSpend, Typed
    <3> QED BY <1>1, <1>3, <3>1, AllKnown
  <2>2. index' = index \/ (Reindexed(index, index', w.value) /\ w.value \in Known(chain, Len(chain)))
    BY <1>4, <1>5, <2>1
  <2> QED BY <2>2, KnownAfter DEF IndexInv
<1> QED BY <1>1, <1>8, <1>9, <1>10, IndexStep

\* At an unspent coin.
LEMMA IndexWriteEnd ==
    ASSUME Base, CoinInv, SyncInv, IndexInv, Single, NEW p \in use.procs, Write(p), proc[p].pc = "write", ~ proc[p].spent
    PROVE  IndexInv'
<1> DEFINE old == proc[p]
           new == proc'[p]
           w == Head(old.todo)
<1>1. /\ p \in Procs /\ Typed /\ w \in Statement /\ Execute(w) /\ UNCHANGED <<use, chain>>
      /\ new.at = old.at /\ new.pc = "write" /\ ~ new.spent /\ old.at \in Nat
      /\ w \in Elements(old.todo) /\ (w.op \in CoinOps => w.n = old.at)
  BY SyncWriteDoes DEF Base
<1>2. w.op \in CoinOps
  BY <1>1 DEF SyncInv, Progress, EndQueue
<1>3. index' = index
  BY <1>1, <1>2, StatementLive DEF CoinOps
<1>4. IndexEnd(chain, index, old.at)
  BY DEF IndexInv, IndexProgress
<1>5. IndexProgress(chain, index', new)
  <2> HIDE DEF new
  <2> QED BY <1>1, <1>3, <1>4 DEF IndexProgress
<1>6. \A t \in Tips' : IndexAt(chain, index', {}, t)
  <2>1. \A t \in Tips' : t \in Tips \/ t = old.at
    BY <1>1, <1>2, TipsAfter
  <2>2. IndexAt(chain, index, {}, old.at)
    BY <1>4 DEF IndexEnd, IndexAt
  <2> QED BY <1>3, <2>1, <2>2 DEF IndexInv
<1>7. \A k \in DOMAIN index' : index'[k] \in Known(chain, Len(chain))
  BY <1>3 DEF IndexInv, IndexKnown
<1> QED BY <1>1, <1>5, <1>6, <1>7, IndexStep

\* Every step of a process that has the database to itself keeps the index as
\* good as that.
LEMMA IndexNext ==
    ASSUME Base, Base', CoinInv, SyncInv, IndexInv, Single, [Next]_vars
    PROVE  IndexInv'
<1>1. CASE Grow
  BY <1>1, IndexGrow
<1>2. ASSUME NEW p \in use.procs, Start(p) \/ Fetch(p) \/ Advance(p) \/ Crash(p) \/ ClearCache(p)
      PROVE  IndexInv'
  BY <1>2, IndexStart, IndexFetch, IndexAdvance, IndexCrashOrClear
<1>3. ASSUME NEW p \in use.procs, Write(p)
      PROVE  IndexInv'
  <2>1. proc[p].pc \in {"walk", "write"}
    BY <1>3 DEF Write
  <2> QED BY <1>3, <2>1, IndexWriteWalk, IndexWriteSpend, IndexWriteEnd
<1>4. CASE UNCHANGED vars
  <2>1. UNCHANGED <<use, chain, index, coins, proc>> /\ Tips' = Tips
    BY <1>4 DEF vars, db, Tips
  <2> QED BY <2>1 DEF IndexInv, IndexKnown
<1> QED BY <1>1, <1>2, <1>3, <1>4 DEF Next

\* In a list, the pair around a free key are the nearest keys on both sides.
LEMMA NearestKeys ==
    ASSUME NEW S, Good(S), Lo \in Int, Hi \in Int, NEW k \in Int, Lo < k, k < Hi, k \notin Keys(S)
    PROVE  \E l, r \in S :
               /\ Brackets(l, r, k)
               /\ \A v \in S : v.key < k => v = l \/ v.key < l.key
               /\ \A v \in S : k < v.key => v = r \/ r.key < v.key
<1>1. S \subseteq Value /\ ListInv(S, Lo, Hi) /\ Numbered(S)
  BY DEF Good, Numbered, Value
<1>2. PICK l \in S, r \in S : Brackets(l, r, k)
  BY <1>1, GapExists
<1>3. /\ \A v \in S : v.key \in Int /\ v.left \in Int /\ v.right \in Int
      /\ l.key < k /\ k < r.key /\ l.right = r.key /\ r.left = l.key
  BY <1>1, <1>2 DEF Brackets, Value
<1>4. OneSlotPerKey(S) /\ NothingInGaps(S)
  BY <1>1 DEF ListInv
<1>5. ASSUME NEW v \in S, v.key < k PROVE v = l \/ v.key < l.key
  <2>1. ~ (l.key < v.key)
    BY <1>3, <1>4, <1>5 DEF NothingInGaps
  <2> QED BY <1>3, <1>4, <2>1 DEF OneSlotPerKey
<1>6. ASSUME NEW v \in S, k < v.key PROVE v = r \/ r.key < v.key
  <2>1. ~ (v.key < r.key)
    BY <1>3, <1>4, <1>6 DEF NothingInGaps
  <2> QED BY <1>3, <1>4, <2>1 DEF OneSlotPerKey
<1> QED BY <1>2, <1>5, <1>6

\* When the walk has come to its end, the nearest indexed keys are a pair.
LEMMA NeighborsBracketFrom ==
    ASSUME Base, CoinInv, SyncInv, IndexInv, Single
    PROVE  NeighborsBracket
<1> SUFFICES ASSUME Quiet, Synced # {}, NEW k \in use.names \ Keys(ValuesAt(Max(Synced)))
             PROVE  /\ Left(k) # {} /\ Right(k) # {}
                    /\ \A l \in Left(k), r \in Right(k) : Brackets(l, r, k)
  BY DEF NeighborsBracket
<1>1. PICK p \in use.procs : proc[p].pc = "done" /\ proc[p].at \in Nat /\ Max(Synced) = proc[p].at
  BY SyncedAt
<1> DEFINE c == proc[p].at
           S == ValuesOf(chain, c)
           U == {r.value : r \in {x \in rows : x.spentAt = 0}}
<1>2. ValuesAt(c) = S /\ SlotsAt(c) = SlotsOf(chain, c)
  BY DEF ValuesAt, ValuesOf, SlotsAt, SlotsOf
<1>3. Typed /\ IndexEnd(chain, index, c) /\ Good(S)
  <2>1. IndexEnd(chain, index, c)
    BY <1>1 DEF IndexInv, IndexProgress
  <2>2. c \in 0 .. Len(chain)
    BY <1>1, <2>1 DEF IndexEnd, Base, Typed
  <2> QED BY <2>1, <2>2 DEF Base, History
<1>4. U = S
  <2>1. Live = SlotsOf(chain, c)
    BY <1>1, <1>2, SyncedRowsFrom DEF SyncedRows, Live
  <2>2. {s.value : s \in Live} = U
    <3>1. \A r \in rows : [value |-> r.value, parent |-> r.parent].value = r.value
      OBVIOUS
    <3>2. U \subseteq {s.value : s \in Live}
      BY <3>1 DEF Live
    <3>3. {s.value : s \in Live} \subseteq U
      BY <3>1 DEF Live
    <3> QED BY <3>2, <3>3
  <2> QED BY <2>1, <2>2 DEF ValuesOf
<1>5. /\ \A v \in S : v.key \in DOMAIN index /\ index[v.key] = v
      /\ \A j \in DOMAIN index : index[j] \in S /\ index[j].key = j /\ j \in Int
  <2>1. \A v \in S : v.key \in DOMAIN index /\ index[v.key] = v
    BY <1>3 DEF IndexEnd
  <2>2. DOMAIN index \subseteq Keys(S) /\ DOMAIN index \subseteq Int
    BY <1>3 DEF IndexEnd, Typed
  <2> HIDE DEF S
  <2> QED BY <2>1, <2>2 DEF Keys
<1>6. k \in Int /\ Lo < k /\ k < Hi /\ Lo \in Int /\ Hi \in Int /\ k \notin Keys(S)
  BY <1>1, <1>2, <1>3, NamesAreNumbers
<1>7. S \subseteq Value
  BY <1>3 DEF Good
<1> HIDE DEF S, c
<1>8. PICK l \in S, r \in S :
               /\ Brackets(l, r, k)
               /\ \A v \in S : v.key < k => v = l \/ v.key < l.key
               /\ \A v \in S : k < v.key => v = r \/ r.key < v.key
  BY <1>3, <1>6, <1>7, NearestKeys
<1>9. /\ l.key \in Int /\ r.key \in Int /\ l.key < k /\ k < r.key
      /\ l.key \in DOMAIN index /\ index[l.key] = l
      /\ r.key \in DOMAIN index /\ index[r.key] = r
  BY <1>5, <1>8 DEF Brackets
<1>10. Left(k) = {l}
  <2>1. \A i \in DOMAIN index : ~ (l.key < i /\ i < k)
    <3> SUFFICES ASSUME NEW i \in DOMAIN index, l.key < i, i < k PROVE FALSE
      OBVIOUS
    <3>1. index[i] \in S /\ index[i].key = i /\ i \in Int
      BY <1>5
    <3> QED BY <1>8, <1>9, <3>1
  <2>2. l \in Left(k)
    <3>1. PICK x \in rows : x.spentAt = 0 /\ x.value = l
      BY <1>4
    <3> QED BY <1>9, <2>1, <3>1 DEF Left
  <2>3. ASSUME NEW v \in Left(k) PROVE v = l
    <3>1. PICK j \in DOMAIN index : v = index[j] /\ j < k /\ \A i \in DOMAIN index : ~ (j < i /\ i < k)
      BY DEF Left
    <3>2. v \in S /\ v.key = j
      BY <1>5, <3>1
    <3>3. ~ (j < l.key)
      BY <1>9, <3>1
    <3> QED BY <1>8, <3>1, <3>2, <3>3
  <2> QED BY <2>2, <2>3
<1>11. Right(k) = {r}
  <2>1. \A i \in DOMAIN index : ~ (k < i /\ i < r.key)
    <3> SUFFICES ASSUME NEW i \in DOMAIN index, k < i, i < r.key PROVE FALSE
      OBVIOUS
    <3>1. index[i] \in S /\ index[i].key = i /\ i \in Int
      BY <1>5
    <3> QED BY <1>8, <1>9, <3>1
  <2>2. r \in Right(k)
    <3>1. PICK x \in rows : x.spentAt = 0 /\ x.value = r
      BY <1>4
    <3> QED BY <1>9, <2>1, <3>1 DEF Right
  <2>3. ASSUME NEW v \in Right(k) PROVE v = r
    <3>1. PICK j \in DOMAIN index : v = index[j] /\ k < j /\ \A i \in DOMAIN index : ~ (k < i /\ i < j)
      BY DEF Right
    <3>2. v \in S /\ v.key = j
      BY <1>5, <3>1
    <3>3. ~ (r.key < j)
      BY <1>9, <3>1
    <3> QED BY <1>8, <3>1, <3>2, <3>3
  <2> QED BY <2>2, <2>3
<1> QED BY <1>8, <1>10, <1>11

\* For any chain, however often the process stops, starts again and clears the
\* cache: when a walk of a process that has the database to itself has come to
\* its end, the neighbours that the database has for a free key are a pair that
\* register.rue accepts for it.
THEOREM NeighborsBracketAlone ==
    ASSUME \A u \in Uses : \A p, q \in u.procs : p = q
    PROVE  Spec => []NeighborsBracket
<1>0. Base => Single
  BY DEF Base, Typed, Single
<1>1. Init => Base /\ CoinInv /\ SyncInv /\ IndexInv
  BY BaseInit, CoinInit, SyncInit, IndexInit
<1>2. (Base /\ CoinInv /\ SyncInv /\ IndexInv) /\ [Next]_vars => (Base /\ CoinInv /\ SyncInv /\ IndexInv)'
  BY <1>0, AloneNext, IndexNext
<1>3. Base /\ CoinInv /\ SyncInv /\ IndexInv => NeighborsBracket
  BY <1>0, NeighborsBracketFrom
<1> QED BY <1>1, <1>2, <1>3, PTL DEF Spec
=============================================================================
