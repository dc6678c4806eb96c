---------------------------- MODULE CatalogProofs ----------------------------
(***************************************************************************)
(* For every set of assets, precommits and states: the CATalog slots form  *)
(* the sorted list, an asset gets one NFT, and the registry implements     *)
(* UniqueRegistry.  The second part is about several actions in one spend  *)
(* of a registry (SpendBundle).                                            *)
(***************************************************************************)
EXTENDS CatalogRegistry, SpendBundle, CommonLemmas

\* A precommit coin commits to an asset id between the two ends of the list
\* (register.rue compares it with both neighbours).
LEMMA PrecommitKey ==
    ASSUME NEW p \in Offers
    PROVE  /\ Precommit[p].key \in AssetIds
           /\ Precommit[p].owner \in Owners
           /\ Precommit[p].key \in Int
           /\ Precommit[p].key # Lo /\ Precommit[p].key # Hi
<1>1. Precommit[p].key \in AssetIds /\ Precommit[p].owner \in Owners
  BY ParameterAssumption DEF PrecommitSpec
<1>2. \A i \in AssetIds : i \in Int /\ i # Lo /\ i # Hi
  BY KeyAssumption
<1> QED BY <1>1, <1>2

\* A relinked slot is a slot.
LEMMA RelinkType ==
    ASSUME NEW s \in Slot, NEW k \in Int
    PROVE  RelinkRight(s, k) \in Slot /\ RelinkLeft(s, k) \in Slot /\ Touched(s) \in Slot
<1>1. s.counter + 1 \in Nat
  BY DEF Slot
<1>2. RelinkRight(s, k) \in Slot
  BY <1>1 DEF Slot, RelinkRight
<1>3. RelinkLeft(s, k) \in Slot
  BY <1>1 DEF Slot, RelinkLeft
<1>4. Touched(s) \in Slot
  BY <1>1 DEF Slot, Touched
<1> QED BY <1>2, <1>3, <1>4

\* Every step keeps every variable in its type.
THEOREM CatalogTypeCorrect == Spec => []TypeOK
<1> USE KeyAssumption, ParameterAssumption DEF PrecommitSpec
<1>1. Init => TypeOK
  BY DEF Init, TypeOK, EndSlot, Slot
<1>2. TypeOK /\ [Next]_vars => TypeOK'
  <2> SUFFICES ASSUME TypeOK, [Next]_vars PROVE TypeOK'
    OBVIOUS
  <2> USE DEF TypeOK
  <2>1. ASSUME NEW p \in Offers, NEW l \in slots, NEW r \in slots, Register(p, l, r)
        PROVE  TypeOK'
    <3> DEFINE k == Precommit[p].key
               n == [key |-> k, left |-> l.key, right |-> r.key, counter |-> 0]
    <3>1. k \in AssetIds /\ k \in Int /\ Precommit[p].owner \in Owners
      BY PrecommitKey
    <3>2. n \in Slot /\ RelinkRight(l, n.key) \in Slot /\ RelinkLeft(r, n.key) \in Slot
      <4>1. l \in Slot /\ r \in Slot
        OBVIOUS
      <4>2. n \in Slot /\ n.key = k
        BY <3>1, <4>1 DEF Slot
      <4> QED BY <3>1, <4>1, <4>2, RelinkType
    <3>3. slots' = Splice(slots, l, r, n)
      BY <2>1 DEF Register
    <3>4. slots' \subseteq Slot
      BY <3>2, <3>3 DEF Splice
    <3>5. nfts' \subseteq Nft
      BY <2>1, <3>1 DEF Register, Nft
    <3> QED BY <2>1, <3>4, <3>5 DEF Register
  <2>2. ASSUME NEW p \in Offers, Refund(p) PROVE TypeOK'
    <3>1. \A s \in slots : Touched(s) \in Slot
      BY RelinkType
    <3>2. slots' \subseteq Slot
      BY <2>2, <3>1 DEF Refund
    <3> QED BY <2>2, <3>2 DEF Refund
  <2>3. ASSUME NEW new \in States, DelegatedState(new) PROVE TypeOK'
    BY <2>3 DEF DelegatedState
  <2>4. ASSUME NEW p \in Offers, CreatePrecommit(p) PROVE TypeOK'
    BY <2>4 DEF CreatePrecommit
  <2>5. CASE Block
    BY <2>5 DEF Block
  <2>6. CASE UNCHANGED vars
    BY <2>6 DEF vars
  <2> QED BY <2>1, <2>2, <2>3, <2>4, <2>5, <2>6 DEF Next
<1> QED BY <1>1, <1>2, PTL DEF Spec

\* What the induction needs beside the type: the list, and that an NFT exists
\* exactly for the keys in it.
IInv == TypeOK /\ AssetList /\ OneNftPerAsset

\* The registry is launched with the two end slots and no NFT.
LEMMA InitIInv == Init => IInv
<1> SUFFICES ASSUME Init PROVE IInv
  OBVIOUS
<1> USE KeyAssumption, ParameterAssumption DEF Init, EndSlot
<1>1. TypeOK
  BY DEF TypeOK, Slot
<1>2. OneNftPerAsset
  BY DEF OneNftPerAsset
<1>3. Keys(slots) = {Lo, Hi}
  BY DEF Keys
<1>4. ListInv(slots, Lo, Hi)
  <2> DEFINE a == EndSlot(Lo)
             b == EndSlot(Hi)
  <2>1. /\ a.key = Lo /\ a.left = Lo /\ a.right = Hi
        /\ b.key = Hi /\ b.left = Lo /\ b.right = Hi
        /\ slots = {a, b}
    OBVIOUS
  <2> HIDE DEF a, b
  <2>2. OneSlotPerKey(slots)
    BY <2>1 DEF OneSlotPerKey
  <2>3. NothingInGaps(slots)
    BY <2>1 DEF NothingInGaps
  <2>4. Mirrored(slots, Lo, Hi)
    BY <2>1 DEF Mirrored
  <2>5. Ascending(slots, Lo, Hi)
    BY <2>1 DEF Ascending
  <2>6. Bounded(slots, Lo, Hi)
    <3>1. \A s \in slots : Lo <= s.key /\ s.key <= Hi
      BY <2>1
    <3> QED BY <3>1, <1>3 DEF Bounded
  <2> QED BY <2>2, <2>3, <2>4, <2>5, <2>6 DEF ListInv
<1> QED BY <1>1, <1>2, <1>3, <1>4 DEF IInv, AssetList

\* A registration splices the key between the pair it was shown, a key that
\* no slot and so no NFT has.
LEMMA RegisterStep ==
    ASSUME TypeOK, AssetList, NEW p \in Offers, NEW l \in slots, NEW r \in slots,
           Register(p, l, r)
    PROVE  /\ Precommit[p].key \notin {n.key : n \in nfts}
           /\ ListInv(slots', Lo, Hi)
           /\ Keys(slots') = Keys(slots) \cup {Precommit[p].key}
<1> USE KeyAssumption, ParameterAssumption DEF PrecommitSpec
<1> DEFINE k  == Precommit[p].key
           n  == [key |-> k, left |-> l.key, right |-> r.key, counter |-> 0]
           l2 == RelinkRight(l, k)
           r2 == RelinkLeft(r, k)
<1>1. slots' = (slots \ {l, r}) \cup {n, l2, r2}
  BY DEF Register, Splice
<1>2. Brackets(l, r, k)
  BY DEF Register, CanRegister
<1>3. Numbered(slots)
  BY DEF TypeOK, Slot, Numbered
<1>9. k \in Int /\ k # Lo /\ k # Hi
  BY PrecommitKey
<1>4. /\ l2.key = l.key /\ l2.left = l.left /\ l2.right = k
      /\ r2.key = r.key /\ r2.left = k /\ r2.right = r.right
  BY DEF RelinkRight, RelinkLeft, TypeOK, Slot
<1>5. n.key = k /\ n.left = l.key /\ n.right = r.key
  OBVIOUS
<1>6. ListInv(slots, Lo, Hi)
  BY DEF AssetList
<1> HIDE DEF n, l2, r2, k
<1>7. /\ n.key \notin Keys(slots)
      /\ ListInv((slots \ {l, r}) \cup {n, l2, r2}, Lo, Hi)
      /\ Keys((slots \ {l, r}) \cup {n, l2, r2}) = Keys(slots) \cup {n.key}
  <2>1. SpliceCase(slots, Lo, Hi, l, r, n, l2, r2)
    BY <1>2, <1>3, <1>4, <1>5, <1>6, <1>9 DEF SpliceCase
  <2> QED BY <2>1, SpliceKeepsList
<1>10. k \notin {m.key : m \in nfts}
  BY <1>5, <1>7, <1>9 DEF AssetList
<1> QED BY <1>1, <1>5, <1>7, <1>10 DEF k

\* A refund re-creates the slot it was shown under the next counter, or touches
\* no slot: the list keeps its shape.
LEMMA RefundStep ==
    ASSUME TypeOK, AssetList, NEW p \in Offers, Refund(p)
    PROVE  ListInv(slots', Lo, Hi) /\ Keys(slots') = Keys(slots)
<1>1. CASE slots' = slots
  BY <1>1 DEF AssetList
<1>2. ASSUME NEW s \in slots, slots' = (slots \ {s}) \cup {Touched(s)}
      PROVE  ListInv(slots', Lo, Hi) /\ Keys(slots') = Keys(slots)
  <2> DEFINE t == Touched(s)
  <2>1. t.key = s.key /\ t.left = s.left /\ t.right = s.right
    BY DEF Touched, TypeOK, Slot
  <2> HIDE DEF t
  <2>2. /\ ListInv((slots \ {s}) \cup {t}, Lo, Hi)
        /\ Keys((slots \ {s}) \cup {t}) = Keys(slots)
    BY <2>1, ReplaceKeepsList DEF AssetList
  <2> QED BY <1>2, <2>2 DEF t
<1> QED BY <1>1, <1>2 DEF Refund

\* Every action keeps the inductive invariant: only register changes the keys
\* of the list, and it mints the NFT of the key it adds.
LEMMA NextIInv == IInv /\ TypeOK' /\ [Next]_vars => IInv'
<1> SUFFICES ASSUME IInv, TypeOK', [Next]_vars PROVE AssetList' /\ OneNftPerAsset'
  BY DEF IInv
<1> USE DEF IInv
<1>1. ASSUME NEW p \in Offers, NEW l \in slots, NEW r \in slots, Register(p, l, r)
      PROVE  AssetList' /\ OneNftPerAsset'
  <2> DEFINE k == Precommit[p].key
             m == [key |-> k, owner |-> Precommit[p].owner, offer |-> p]
  <2>1. nfts' = nfts \cup {m} /\ m.key = k
    BY <1>1 DEF Register
  <2>2. /\ k \notin {n.key : n \in nfts}
        /\ ListInv(slots', Lo, Hi)
        /\ Keys(slots') = Keys(slots) \cup {k}
    BY <1>1, RegisterStep
  <2>3. k # Lo /\ k # Hi
    BY KeyAssumption, ParameterAssumption DEF PrecommitSpec
  <2> HIDE DEF m, k
  <2>4. {n.key : n \in nfts'} = {n.key : n \in nfts} \cup {k}
    BY <2>1
  <2>5. AssetList'
    BY <2>2, <2>3, <2>4 DEF AssetList
  <2>6. OneNftPerAsset'
    BY <2>1, <2>2 DEF OneNftPerAsset
  <2> QED BY <2>5, <2>6
<1>2. ASSUME NEW p \in Offers, Refund(p) PROVE AssetList' /\ OneNftPerAsset'
  <2>1. nfts' = nfts
    BY <1>2 DEF Refund
  <2>2. ListInv(slots', Lo, Hi) /\ Keys(slots') = Keys(slots)
    BY <1>2, RefundStep
  <2> QED BY <2>1, <2>2 DEF AssetList, OneNftPerAsset
<1>3. CASE UNCHANGED <<slots, nfts>>
  BY <1>3 DEF AssetList, OneNftPerAsset
<1> QED BY <1>1, <1>2, <1>3 DEF Next, DelegatedState, CreatePrecommit, Block, vars

\* The slots always form the sorted list and its keys are the assets with an
\* NFT, for every instance.
THEOREM CatalogList == Spec => []AssetList
<1>1. IInv => AssetList
  BY DEF IInv
<1> QED BY InitIInv, NextIInv, CatalogTypeCorrect, <1>1, PTL DEF Spec

\* No asset ever gets a second NFT.
THEOREM CatalogUnique == Spec => []OneNftPerAsset
<1>1. IInv => OneNftPerAsset
  BY DEF IInv
<1> QED BY InitIInv, NextIInv, CatalogTypeCorrect, <1>1, PTL DEF Spec

\* Every behaviour of the registry is a behaviour of UniqueRegistry.
THEOREM CatalogImplementsUnique == Spec => ImplementsUnique
<1> DEFINE C(S) == {[key |-> n.key, owner |-> n.owner] : n \in S}
<1>1. Init => UR!Init
  BY DEF Init, UR!Init
<1>2. IInv /\ [Next]_vars => [UR!Next]_(C(nfts))
  <2> SUFFICES ASSUME IInv, [Next]_vars, ~ UNCHANGED C(nfts) PROVE UR!Next
    OBVIOUS
  <2>1. ASSUME NEW p \in Offers, NEW l \in slots, NEW r \in slots, Register(p, l, r)
        PROVE  UR!Next
    <3> DEFINE k == Precommit[p].key
               o == Precommit[p].owner
               m == [key |-> k, owner |-> o, offer |-> p]
    <3>1. nfts' = nfts \cup {m}
      BY <2>1 DEF Register
    <3>2. k \notin {n.key : n \in nfts}
      BY <2>1, RegisterStep DEF IInv
    <3>3. k \in AssetIds /\ o \in Owners
      BY ParameterAssumption DEF PrecommitSpec
    <3>4. \A c \in C(nfts) : c.key # k
      BY <3>2
    <3>5. C(nfts') = C(nfts) \cup {[key |-> k, owner |-> o]}
      BY <3>1
    <3> QED BY <3>3, <3>4, <3>5 DEF UR!Next, UR!Claim
  <2>2. nfts' # nfts
    OBVIOUS
  <2> QED BY <2>1, <2>2 DEF Next, Refund, DelegatedState, CreatePrecommit, Block, vars
<1> QED BY <1>1, <1>2, InitIInv, NextIInv, CatalogTypeCorrect, PTL
        DEF Spec, ImplementsUnique, UR!Spec

-----------------------------------------------------------------------------
\* An asset id is registrable through the list exactly while it is not in it.
LEMMA PairIffFree ==
    ASSUME TypeOK, AssetList, NEW p \in Offers
    PROVE  (\E l, r \in slots : Brackets(l, r, Precommit[p].key))
               <=> Precommit[p].key \notin Keys(slots)
<1> DEFINE k == Precommit[p].key
<1>1. k \in Int /\ Lo \in Int /\ Hi \in Int /\ Lo < k /\ k < Hi
  BY PrecommitKey, KeyAssumption
<1>2. Numbered(slots) /\ ListInv(slots, Lo, Hi)
  BY DEF TypeOK, Slot, Numbered, AssetList
<1> HIDE DEF k
<1>3. k \notin Keys(slots) => \E l, r \in slots : Brackets(l, r, k)
  BY <1>1, <1>2, GapExists
<1>4. \A l, r \in slots : Brackets(l, r, k) => k \notin Keys(slots)
  BY <1>1, <1>2, BracketedIsFree
<1> QED BY <1>3, <1>4 DEF k

\* A matured precommit coin can be spent by register or by refund and never by
\* both, however the list, the state and the height developed.
THEOREM CatalogRegisterOrRefund == Spec => []RegisterOrRefund
<1>1. IInv => RegisterOrRefund
  <2> SUFFICES ASSUME IInv, NEW p \in Offers, Matured(p)
               PROVE  Usable(p) <=> ~ CanRefund(p)
    BY DEF RegisterOrRefund
  <2>1. Usable(p) <=> LooksValid(p) /\ \E l, r \in slots : Brackets(l, r, Precommit[p].key)
    BY DEF Usable, CanRegister
  <2> QED BY <2>1, PairIffFree DEF CanRefund, IInv
<1> QED BY InitIInv, NextIInv, CatalogTypeCorrect, <1>1, PTL DEF Spec

-----------------------------------------------------------------------------
(***************************************************************************)
(* A spend that the chain accepts could have run its actions one by one    *)
(* (AcceptedIsSerial), and leaves the sorted list (ListBetweenSpends).     *)
(*                                                                         *)
(* The argument is about any list b and any set A of actions whose reads   *)
(* are covered by b and by what A itself writes.  Followed backwards       *)
(* through the actions that wrote it, a value keeps its key and loses a    *)
(* count each time, and its right pointer never gets nearer; a new key     *)
(* comes from a slot further left.  So every chain ends in a slot of b     *)
(* (FromBase), no action registers a key that is in b (NotInBase) and none *)
(* writes a slot of b again.  Among the actions that read slots of b one   *)
(* reads nothing else (Source): the action that reads the rightmost slot   *)
(* used as a left neighbour, or the one that reads the leftmost slot.  It  *)
(* can run first, and what is left is the same situation with one action   *)
(* less.                                                                   *)
(***************************************************************************)
Slots == [key : Int, left : Int, right : Int, counter : Nat]

TouchAct(v) == [reads |-> {v}, writes |-> {Touched(v)}]

NewSlot(k, l, r) == [key |-> k, left |-> l.key, right |-> r.key, counter |-> 0]

RegisterAct(k, l, r) ==
    [reads |-> {l, r}, writes |-> {NewSlot(k, l, r), RelinkRight(l, k), RelinkLeft(r, k)}]

\* a is the registration of k between l and r.
Registers(a, k, l, r) ==
    /\ a = RegisterAct(k, l, r)
    /\ k \in Names /\ l \in Values /\ r \in Values /\ Brackets(l, r, k)

IsAct(a) ==
    \/ \E v \in Values : a = TouchAct(v)
    \/ \E k \in Names, l, r \in Values : Registers(a, k, l, r)

Reads(A) == UNION {a.reads : a \in A}
Writes(A) == UNION {a.writes : a \in A}

\* The reads of the actions A are covered by the list b and their own writes.
Covered(b, A) ==
    /\ \A a \in A : IsAct(a)
    /\ b \subseteq Slots /\ ListInv(b, LowEnd, HighEnd)
    /\ Reads(A) \subseteq b \cup Writes(A)

ReadOnce(A) == \A a, c \in A : a # c => a.reads \cap c.reads = {}
WrittenOnce(A) == \A a, c \in A : a # c => a.writes \cap c.writes = {}

-----------------------------------------------------------------------------
\* What one action reads and writes.

LEMMA ValueType ==
    ASSUME NEW v \in Values
    PROVE  v \in Slots /\ LowEnd <= v.key /\ v.key <= HighEnd
<1>1. \A k \in AllKeys : k \in Int /\ LowEnd <= k /\ k <= HighEnd
  BY BundleAssumption DEF AllKeys
<1> QED BY <1>1 DEF Values, Slots

\* A value written carries on one that was read, or is a new key's.
CarriesOn(u, w) ==
    u.key = w.key /\ w.counter = u.counter + 1 /\ w.left >= u.left /\ w.right <= u.right

LEMMA RegisterFacts ==
    ASSUME NEW a, NEW k, NEW l, NEW r, Registers(a, k, l, r)
    PROVE  /\ k \in Int /\ LowEnd < k /\ k < HighEnd
           /\ l \in Slots /\ r \in Slots /\ l \in Values /\ r \in Values
           /\ LowEnd <= l.key /\ l.key < k /\ k < r.key /\ r.key <= HighEnd
           /\ l.right = r.key /\ r.left = l.key
           /\ a.reads = {l, r}
           /\ a.writes = {NewSlot(k, l, r), RelinkRight(l, k), RelinkLeft(r, k)}
           /\ NewSlot(k, l, r) \in Slots /\ RelinkRight(l, k) \in Slots /\ RelinkLeft(r, k) \in Slots
           /\ RelinkRight(l, k).key = l.key /\ RelinkRight(l, k).left = l.left
           /\ RelinkRight(l, k).right = k /\ RelinkRight(l, k).counter = l.counter + 1
           /\ RelinkLeft(r, k).key = r.key /\ RelinkLeft(r, k).left = k
           /\ RelinkLeft(r, k).right = r.right /\ RelinkLeft(r, k).counter = r.counter + 1
           /\ NewSlot(k, l, r).key = k /\ NewSlot(k, l, r).left = l.key
           /\ NewSlot(k, l, r).right = r.key
<1>1. l \in Values /\ r \in Values /\ k \in Names /\ Brackets(l, r, k)
  BY DEF Registers
<1>2. l \in Slots /\ r \in Slots /\ LowEnd <= l.key /\ r.key <= HighEnd
  BY <1>1, ValueType
<1>3. k \in Int /\ LowEnd < k /\ k < HighEnd
  BY <1>1, BundleAssumption
<1>4. a.reads = {l, r} /\ a.writes = {NewSlot(k, l, r), RelinkRight(l, k), RelinkLeft(r, k)}
  BY DEF Registers, RegisterAct
<1>5. l.counter + 1 \in Nat /\ r.counter + 1 \in Nat
  BY <1>2 DEF Slots
<1>6. RelinkRight(l, k) \in Slots
  BY <1>2, <1>3, <1>5 DEF Slots, RelinkRight
<1>7. RelinkLeft(r, k) \in Slots
  BY <1>2, <1>3, <1>5 DEF Slots, RelinkLeft
<1>8. /\ RelinkRight(l, k).key = l.key /\ RelinkRight(l, k).left = l.left
      /\ RelinkRight(l, k).right = k /\ RelinkRight(l, k).counter = l.counter + 1
  BY <1>2 DEF Slots, RelinkRight
<1>9. /\ RelinkLeft(r, k).key = r.key /\ RelinkLeft(r, k).left = k
      /\ RelinkLeft(r, k).right = r.right /\ RelinkLeft(r, k).counter = r.counter + 1
  BY <1>2 DEF Slots, RelinkLeft
<1>10. NewSlot(k, l, r) \in Slots
  BY <1>2, <1>3 DEF Slots, NewSlot
<1> QED BY <1>1, <1>2, <1>3, <1>4, <1>6, <1>7, <1>8, <1>9, <1>10 DEF Brackets, NewSlot

LEMMA TouchFacts ==
    ASSUME NEW v \in Values
    PROVE  /\ v \in Slots /\ Touched(v) \in Slots
           /\ Touched(v).key = v.key /\ Touched(v).left = v.left /\ Touched(v).right = v.right
           /\ Touched(v).counter = v.counter + 1
           /\ TouchAct(v).reads = {v} /\ TouchAct(v).writes = {Touched(v)}
<1>1. v \in Slots
  BY ValueType
<1>2. v.counter + 1 \in Nat
  BY <1>1 DEF Slots
<1>3. Touched(v) = [key |-> v.key, left |-> v.left, right |-> v.right, counter |-> v.counter + 1]
  BY <1>1 DEF Slots, Touched
<1> QED BY <1>1, <1>2, <1>3 DEF Slots, TouchAct

LEMMA ActFacts ==
    ASSUME NEW a, IsAct(a)
    PROVE  /\ a.reads \subseteq Slots /\ a.writes \subseteq Slots
           /\ a.reads # {} /\ a.writes # {}
           /\ \A v \in a.reads : LowEnd <= v.key /\ v.key <= HighEnd
           /\ \A w \in a.writes :
                 \/ \E u \in a.reads : CarriesOn(u, w)
                 \/ \E k, l, r : Registers(a, k, l, r) /\ w = NewSlot(k, l, r)
<1>1. ASSUME NEW v \in Values, a = TouchAct(v)
      PROVE  /\ a.reads \subseteq Slots /\ a.writes \subseteq Slots
             /\ a.reads # {} /\ a.writes # {}
             /\ \A x \in a.reads : LowEnd <= x.key /\ x.key <= HighEnd
             /\ \A w \in a.writes : \E u \in a.reads : CarriesOn(u, w)
  <2>1. CarriesOn(v, Touched(v))
    BY TouchFacts DEF CarriesOn, Slots
  <2> QED BY <1>1, <2>1, TouchFacts, ValueType
<1>2. ASSUME NEW k, NEW l, NEW r, Registers(a, k, l, r)
      PROVE  /\ a.reads \subseteq Slots /\ a.writes \subseteq Slots
             /\ a.reads # {} /\ a.writes # {}
             /\ \A v \in a.reads : LowEnd <= v.key /\ v.key <= HighEnd
             /\ \A w \in a.writes :
                   (\E u \in a.reads : CarriesOn(u, w)) \/ w = NewSlot(k, l, r)
  <2>1. CarriesOn(l, RelinkRight(l, k)) /\ CarriesOn(r, RelinkLeft(r, k))
    BY <1>2, RegisterFacts DEF CarriesOn, Slots
  <2> QED BY <1>2, <2>1, RegisterFacts, ValueType
<1> QED BY <1>1, <1>2 DEF IsAct

\* The same for a set of actions.
LEMMA ReadsWrites ==
    ASSUME NEW A, \A a \in A : IsAct(a)
    PROVE  /\ Reads(A) \subseteq Slots /\ Writes(A) \subseteq Slots
           /\ \A v \in Reads(A) : LowEnd <= v.key /\ v.key <= HighEnd
           /\ \A w \in Writes(A) :
                 \/ \E u \in Reads(A) : CarriesOn(u, w)
                 \/ \E a \in A : \E k, l, r : Registers(a, k, l, r) /\ w = NewSlot(k, l, r)
           /\ \A a \in A : \A k, l, r : Registers(a, k, l, r) => l \in Reads(A) /\ r \in Reads(A)
<1>1. \A a \in A : a.reads \subseteq Reads(A) /\ a.writes \subseteq Writes(A)
  BY DEF Reads, Writes
<1>2. \A a \in A : \A k, l, r : Registers(a, k, l, r) => l \in Reads(A) /\ r \in Reads(A)
  BY <1>1, RegisterFacts
<1>3. Reads(A) \subseteq Slots /\ Writes(A) \subseteq Slots
  BY ActFacts DEF Reads, Writes
<1>4. \A v \in Reads(A) : LowEnd <= v.key /\ v.key <= HighEnd
  BY ActFacts DEF Reads
<1>5. ASSUME NEW w \in Writes(A)
      PROVE  \/ \E u \in Reads(A) : CarriesOn(u, w)
             \/ \E a \in A : \E k, l, r : Registers(a, k, l, r) /\ w = NewSlot(k, l, r)
  <2>1. PICK a \in A : w \in a.writes
    BY DEF Writes
  <2> QED BY <1>1, <2>1, ActFacts
<1> QED BY <1>2, <1>3, <1>4, <1>5

\* Where an argument would follow values backwards: among the values of a
\* nonempty set of reads there is one of the least key, and among those of one
\* key one of the least counter.
LEMMA LeastKey ==
    ASSUME NEW T, T # {}, \A v \in T : v \in Slots /\ LowEnd <= v.key
    PROVE  \E v \in T : \A u \in T : v.key <= u.key
<1> DEFINE D == {v.key - LowEnd : v \in T}
<1>1. D \subseteq Nat /\ D # {}
  <2>1. \A v \in T : v.key - LowEnd \in Nat
    BY BundleAssumption DEF Slots
  <2> QED BY <2>1
<1>2. PICK d \in D : \A e \in D : d <= e
  <2> HIDE DEF D
  <2> QED BY <1>1, LeastNat
<1>3. PICK v \in T : d = v.key - LowEnd
  OBVIOUS
<1>4. ASSUME NEW u \in T PROVE v.key <= u.key
  <2>1. v.key - LowEnd <= u.key - LowEnd
    BY <1>2, <1>3
  <2> QED BY <2>1, BundleAssumption DEF Slots
<1> QED BY <1>4

LEMMA GreatestKey ==
    ASSUME NEW T, T # {}, \A v \in T : v \in Slots /\ v.key <= HighEnd
    PROVE  \E v \in T : \A u \in T : u.key <= v.key
<1> DEFINE D == {HighEnd - v.key : v \in T}
<1>1. D \subseteq Nat /\ D # {}
  <2>1. \A v \in T : HighEnd - v.key \in Nat
    BY BundleAssumption DEF Slots
  <2> QED BY <2>1
<1>2. PICK d \in D : \A e \in D : d <= e
  <2> HIDE DEF D
  <2> QED BY <1>1, LeastNat
<1>3. PICK v \in T : d = HighEnd - v.key
  OBVIOUS
<1>4. ASSUME NEW u \in T PROVE u.key <= v.key
  <2>1. HighEnd - v.key <= HighEnd - u.key
    BY <1>2, <1>3
  <2> QED BY <2>1, BundleAssumption DEF Slots
<1> QED BY <1>4

LEMMA LeastCounter ==
    ASSUME NEW T, T # {}, T \subseteq Slots
    PROVE  \E v \in T : \A u \in T : v.counter <= u.counter
<1> DEFINE D == {v.counter : v \in T}
<1>1. D \subseteq Nat /\ D # {}
  BY DEF Slots
<1>2. PICK d \in D : \A e \in D : d <= e
  <2> HIDE DEF D
  <2> QED BY <1>1, LeastNat
<1> QED BY <1>2

-----------------------------------------------------------------------------
\* Values followed backwards.

\* No right pointer that is read jumps over a key of the list.
LEMMA NoJump ==
    ASSUME NEW b, NEW A, Covered(b, A), NEW v \in Reads(A), NEW y \in b
    PROVE  ~ (v.key < y.key /\ y.key < v.right)
<1> DEFINE Bad == {x \in Reads(A) : \E z \in b : x.key < z.key /\ z.key < x.right}
<1> SUFFICES ASSUME Bad # {} PROVE FALSE
  OBVIOUS
<1>1. /\ \A a \in A : IsAct(a)
      /\ b \subseteq Slots /\ NothingInGaps(b)
      /\ Reads(A) \subseteq b \cup Writes(A)
  BY DEF Covered, ListInv
<1>2. \A x \in Bad : x \in Slots /\ LowEnd <= x.key
  BY <1>1, ReadsWrites
<1>3. PICK x \in Bad : \A u \in Bad : x.key <= u.key
  <2> HIDE DEF Bad
  <2> QED BY <1>2, LeastKey
<1> DEFINE Same == {u \in Bad : u.key = x.key}
<1>4. PICK w \in Same : \A u \in Same : w.counter <= u.counter
  <2>1. x \in Same
    BY <1>3
  <2>2. Same \subseteq Slots
    BY <1>2
  <2> HIDE DEF Same
  <2> QED BY <2>1, <2>2, LeastCounter
<1>5. w \in Bad /\ w.key = x.key /\ w \in Slots /\ w \in Reads(A)
  BY <1>4, <1>2
<1>6. PICK z \in b : w.key < z.key /\ z.key < w.right
  BY <1>5
<1>7. z \in Slots
  BY <1>1
<1>8. w \notin b
  BY <1>1, <1>5, <1>6, <1>7 DEF NothingInGaps, Slots
<1>9. w \in Writes(A)
  BY <1>1, <1>5, <1>8
<1>10. CASE \E u \in Reads(A) : CarriesOn(u, w)
  <2>1. PICK u \in Reads(A) : CarriesOn(u, w)
    BY <1>10
  <2>2. u \in Slots
    BY <1>1, ReadsWrites
  <2>3. u.key = w.key /\ u.counter < w.counter /\ w.right <= u.right
    BY <1>5, <2>1, <2>2 DEF CarriesOn, Slots
  <2>4. z.key < u.right
    BY <1>5, <1>6, <1>7, <2>2, <2>3 DEF Slots
  <2>5. u \in Same
    BY <1>5, <1>6, <2>3, <2>4
  <2>6. w.counter <= u.counter
    BY <1>4, <2>5
  <2> QED BY <1>5, <2>2, <2>3, <2>6 DEF Slots
<1>11. CASE \E a \in A : \E k, l, r : Registers(a, k, l, r) /\ w = NewSlot(k, l, r)
  <2>p. PICK a \in A : \E k, l, r : Registers(a, k, l, r) /\ w = NewSlot(k, l, r)
    BY <1>11
  <2>1. PICK k, l, r : a \in A /\ Registers(a, k, l, r) /\ w = NewSlot(k, l, r)
    BY <2>p
  <2>2. l \in Reads(A) /\ l \in Slots
    BY <1>1, <2>1, ReadsWrites
  <2>3. l.key < w.key /\ w.right = l.right
    BY <2>1, RegisterFacts
  <2>4. l.key < z.key /\ z.key < l.right
    BY <1>5, <1>6, <1>7, <2>2, <2>3 DEF Slots
  <2>5. l \in Bad
    BY <2>2, <2>4
  <2>6. x.key <= l.key
    BY <1>3, <2>5
  <2> QED BY <1>5, <2>2, <2>3, <2>6 DEF Slots
<1> QED BY <1>1, <1>9, <1>10, <1>11, ReadsWrites

\* No action registers a key of the list.
LEMMA NotInBase ==
    ASSUME NEW b, NEW A, Covered(b, A), NEW a \in A, NEW k, NEW l, NEW r,
           Registers(a, k, l, r), NEW y \in b
    PROVE  y.key # k
<1>1. \A c \in A : IsAct(c)
  BY DEF Covered
<1>2. l \in Reads(A)
  BY <1>1, ReadsWrites
<1>3. l.key < k /\ k < l.right
  BY RegisterFacts
<1> QED BY <1>2, <1>3, NoJump

\* If a key of the list is read at all, its slot in the list is, and any other
\* value read of that key was made later.
LEMMA FromBase ==
    ASSUME NEW b, NEW A, Covered(b, A), NEW v \in Reads(A), NEW y \in b, v.key = y.key
    PROVE  y \in Reads(A) /\ (v = y \/ (v \notin b /\ y.counter < v.counter))
<1> DEFINE T == {x \in Reads(A) : x.key = y.key}
<1>1. /\ \A a \in A : IsAct(a)
      /\ b \subseteq Slots /\ OneSlotPerKey(b)
      /\ Reads(A) \subseteq b \cup Writes(A)
      /\ Reads(A) \subseteq Slots
  BY ReadsWrites DEF Covered, ListInv
<1>2. PICK w \in T : \A u \in T : w.counter <= u.counter
  <2>1. v \in T /\ T \subseteq Slots
    BY <1>1
  <2> HIDE DEF T
  <2> QED BY <2>1, LeastCounter
\* A value of that key that is not the list's was written from another one.
<1>3. ASSUME NEW x \in T, x \notin b
      PROVE  \E u \in T : u.counter < x.counter
  <2>1. x \in Writes(A)
    BY <1>1, <1>3
  <2>2. CASE \E u \in Reads(A) : CarriesOn(u, x)
    <3>1. PICK u \in Reads(A) : CarriesOn(u, x)
      BY <2>2
    <3>2. u \in T /\ u.counter < x.counter
      BY <1>1, <3>1 DEF CarriesOn, Slots
    <3> QED BY <3>2
  <2>3. CASE \E a \in A : \E k, l, r : Registers(a, k, l, r) /\ x = NewSlot(k, l, r)
    <3>p. PICK a \in A : \E k, l, r : Registers(a, k, l, r) /\ x = NewSlot(k, l, r)
      BY <2>3
    <3>1. PICK k, l, r : a \in A /\ Registers(a, k, l, r) /\ x = NewSlot(k, l, r)
      BY <3>p
    <3>2. y.key = k
      BY <3>1, RegisterFacts
    <3> QED BY <3>1, <3>2, NotInBase
  <2> QED BY <1>1, <2>1, <2>2, <2>3, ReadsWrites
<1>4. w \in b
  <2> SUFFICES ASSUME w \notin b PROVE FALSE
    OBVIOUS
  <2>1. PICK u \in T : u.counter < w.counter
    BY <1>3
  <2>2. w.counter <= u.counter
    BY <1>2
  <2> QED BY <1>1, <2>1, <2>2 DEF Slots
<1>5. w = y
  BY <1>1, <1>4 DEF OneSlotPerKey
<1>6. v \in b => v = y
  BY <1>1 DEF OneSlotPerKey
<1>7. ASSUME v \notin b PROVE y.counter < v.counter
  <2>1. PICK u \in T : u.counter < v.counter
    BY <1>3, <1>7
  <2>2. y.counter <= u.counter
    BY <1>2, <1>5
  <2> QED BY <1>1, <2>1, <2>2 DEF Slots
<1> QED BY <1>5, <1>6, <1>7

\* No action writes a slot of the list again.
LEMMA BaseNotWritten ==
    ASSUME NEW b, NEW A, Covered(b, A)
    PROVE  b \cap Writes(A) = {}
<1> SUFFICES ASSUME NEW y \in b, y \in Writes(A) PROVE FALSE
  OBVIOUS
<1>1. (\A a \in A : IsAct(a)) /\ b \subseteq Slots /\ Reads(A) \subseteq Slots
  BY ReadsWrites DEF Covered
<1>2. CASE \E u \in Reads(A) : CarriesOn(u, y)
  <2>1. PICK u \in Reads(A) : CarriesOn(u, y)
    BY <1>2
  <2>2. u.key = y.key /\ u.counter < y.counter
    BY <1>1, <2>1 DEF CarriesOn, Slots
  <2>3. u = y \/ y.counter < u.counter
    BY <2>2, FromBase
  <2> QED BY <1>1, <2>2, <2>3 DEF Slots
<1>3. CASE \E a \in A : \E k, l, r : Registers(a, k, l, r) /\ y = NewSlot(k, l, r)
  <2>p. PICK a \in A : \E k, l, r : Registers(a, k, l, r) /\ y = NewSlot(k, l, r)
    BY <1>3
  <2>1. PICK k, l, r : a \in A /\ Registers(a, k, l, r) /\ y = NewSlot(k, l, r)
    BY <2>p
  <2>2. y.key = k
    BY <2>1, RegisterFacts
  <2> QED BY <2>1, <2>2, NotInBase
<1> QED BY <1>1, <1>2, <1>3, ReadsWrites

\* Once a key is registered to the right of x, no value of x's key reaches as
\* far as x did.
LEMMA ShorterAfter ==
    ASSUME NEW b, NEW A, Covered(b, A), ReadOnce(A), NEW x \in b,
           NEW a \in A, NEW k, NEW r, Registers(a, k, x, r),
           NEW v \in Reads(A), v.key = x.key, v # x
    PROVE  v.right < x.right
<1> DEFINE T == {u \in Reads(A) : u.key = x.key /\ u # x /\ x.right <= u.right}
<1>1. /\ \A c \in A : IsAct(c)
      /\ b \subseteq Slots
      /\ Reads(A) \subseteq b \cup Writes(A)
      /\ Reads(A) \subseteq Slots
  BY ReadsWrites DEF Covered
<1> SUFFICES ASSUME ~ (v.right < x.right) PROVE FALSE
  OBVIOUS
<1>2. PICK w \in T : \A u \in T : w.counter <= u.counter
  <2>1. v \in T /\ T \subseteq Slots
    BY <1>1 DEF Slots
  <2> HIDE DEF T
  <2> QED BY <2>1, LeastCounter
<1>3. w \in Writes(A)
  BY <1>1, FromBase
<1>4. PICK c \in A : w \in c.writes
  BY <1>3 DEF Writes
<1>5. IsAct(c) /\ c.reads \subseteq Reads(A)
  BY <1>1 DEF Reads
<1>6. CASE \E u \in c.reads : CarriesOn(u, w)
  <2>1. PICK u \in c.reads : CarriesOn(u, w)
    BY <1>6
  <2>2. u \in Reads(A) /\ u.key = x.key /\ u.counter < w.counter /\ x.right <= u.right
    BY <1>1, <1>5, <2>1 DEF CarriesOn, Slots
  <2>3. u = x
    <3>1. ASSUME u # x PROVE FALSE
      <4>1. w.counter <= u.counter
        BY <1>2, <2>2, <3>1
      <4> QED BY <1>1, <2>2, <4>1 DEF Slots
    <3> QED BY <3>1
  <2>4. c = a
    <3>1. x \in a.reads
      BY RegisterFacts
    <3> QED BY <2>1, <2>3, <3>1 DEF ReadOnce
  <2>5. w \in {NewSlot(k, x, r), RelinkRight(x, k), RelinkLeft(r, k)}
    BY <1>4, <2>4, RegisterFacts
  <2>6. w.key # k /\ w.key # r.key /\ k < x.right
    <3>1. x.key < k /\ k < r.key /\ x.right = r.key /\ k \in Int /\ r \in Slots
      BY RegisterFacts
    <3> QED BY <1>1, <3>1 DEF Slots
  <2>7. w.right = k
    BY <2>5, <2>6, RegisterFacts
  <2>8. k \in Int
    BY RegisterFacts
  <2> QED BY <1>1, <2>6, <2>7, <2>8 DEF Slots
<1>7. CASE \E m, l, s : Registers(c, m, l, s) /\ w = NewSlot(m, l, s)
  <2>1. PICK m, l, s : Registers(c, m, l, s) /\ w = NewSlot(m, l, s)
    BY <1>7
  <2>2. x.key = m
    BY <2>1, RegisterFacts
  <2> QED BY <2>1, <2>2, NotInBase
<1> QED BY <1>4, <1>5, <1>6, <1>7, ActFacts

-----------------------------------------------------------------------------
\* One action can run first.

\* Some action reads a slot of the list: the least key that is read was not
\* registered by the actions, nor its least counter written by them.
LEMMA SomeBaseRead ==
    ASSUME NEW b, NEW A, Covered(b, A), A # {}
    PROVE  \E x \in b : x \in Reads(A)
<1>1. /\ \A a \in A : IsAct(a)
      /\ Reads(A) \subseteq b \cup Writes(A)
      /\ Reads(A) \subseteq Slots
      /\ \A x \in Reads(A) : x \in Slots /\ LowEnd <= x.key
  BY ReadsWrites DEF Covered
<1>2. Reads(A) # {}
  BY <1>1, ActFacts DEF Reads
<1>3. PICK x \in Reads(A) : \A u \in Reads(A) : x.key <= u.key
  BY <1>1, <1>2, LeastKey
<1> DEFINE T == {u \in Reads(A) : u.key = x.key}
<1>4. PICK w \in T : \A u \in T : w.counter <= u.counter
  <2>1. x \in T /\ T \subseteq Slots
    BY <1>1, <1>3
  <2> HIDE DEF T
  <2> QED BY <2>1, LeastCounter
<1>5. w \in Reads(A) /\ w.key = x.key /\ w \in Slots
  BY <1>1, <1>4
<1>6. ASSUME NEW u \in Reads(A), CarriesOn(u, w) PROVE FALSE
  <2>1. u \in Slots /\ u.key = x.key /\ u.counter < w.counter
    BY <1>1, <1>5, <1>6 DEF CarriesOn, Slots
  <2>2. w.counter <= u.counter
    BY <1>4, <2>1
  <2> QED BY <1>5, <2>1, <2>2 DEF Slots
<1>7. ASSUME NEW a \in A, NEW k, NEW l, NEW r, Registers(a, k, l, r), w = NewSlot(k, l, r) PROVE FALSE
  <2>1. l \in Reads(A) /\ l.key < w.key
    BY <1>1, <1>7, ReadsWrites, RegisterFacts
  <2> QED BY <1>1, <1>3, <1>5, <2>1 DEF Slots
<1>8. w \notin Writes(A)
  BY <1>1, <1>6, <1>7, ReadsWrites
<1> QED BY <1>1, <1>5, <1>8

\* If the right neighbour of a slot x of the list is not at hand for the
\* registration that reads x, then another action reads that neighbour of the
\* list, alone or as the left one of its pair.
LEMMA NextToTheRight ==
    ASSUME NEW b, NEW A, Covered(b, A), ReadOnce(A), NEW x \in b,
           NEW a \in A, NEW k, NEW r, Registers(a, k, x, r), r \notin b
    PROVE  \E y \in b : \E c \in A : /\ x.key < y.key
                                     /\ \/ c.reads = {y}
                                        \/ \E m, s : Registers(c, m, y, s)
<1>1. /\ \A c \in A : IsAct(c)
      /\ b \subseteq Slots /\ Mirrored(b, LowEnd, HighEnd)
      /\ Reads(A) \subseteq Slots
  BY ReadsWrites DEF Covered, ListInv
<1>2. /\ x.key < k /\ k < r.key /\ r.key <= HighEnd /\ x.right = r.key
      /\ k \in Int /\ r \in Slots /\ x \in a.reads
  BY RegisterFacts
<1>3. x.key # HighEnd /\ x.key < r.key
  BY <1>1, <1>2, BundleAssumption DEF Slots
<1>4. PICK y \in b : y.key = x.right /\ y.left = x.key
  BY <1>1, <1>3 DEF Mirrored
<1>5. r \in Reads(A) /\ r # y
  BY <1>1, <1>4, ReadsWrites
<1>6. y \in Reads(A)
  BY <1>2, <1>4, <1>5, FromBase
<1>7. PICK c \in A : y \in c.reads
  BY <1>6 DEF Reads
<1>8. CASE \E v \in Values : c = TouchAct(v)
  <2>1. c.reads = {y}
    BY <1>7, <1>8, TouchFacts
  <2> QED BY <1>2, <1>3, <1>4, <2>1
<1>9. CASE \E m \in Names, l, s \in Values : Registers(c, m, l, s)
  <2>1. PICK m \in Names, l, s \in Values : Registers(c, m, l, s)
    BY <1>9
  <2>2. y = l \/ y = s
    BY <1>7, <2>1, RegisterFacts
  <2>3. CASE y = l
    BY <1>2, <1>3, <1>4, <2>1, <2>3
  <2>4. CASE y = s
    <3>1. l.key = x.key /\ l.right = x.right /\ l \in Reads(A) /\ l \in c.reads /\ c.reads = {l, y}
      BY <1>1, <1>4, <2>1, <2>4, RegisterFacts, ReadsWrites
    <3>2. l = x
      <4>1. ASSUME l # x PROVE FALSE
        <5>1. l.right < x.right
          BY <3>1, <4>1, ShorterAfter
        <5> QED BY <1>1, <3>1, <5>1 DEF Slots
      <4> QED BY <4>1
    <3>3. c = a
      BY <1>2, <3>1, <3>2 DEF ReadOnce
    <3>4. a.reads = {x, r}
      BY RegisterFacts
    <3>5. x # r /\ x # y
      BY <1>1, <1>2, <1>3, <1>4 DEF Slots
    <3> QED BY <1>5, <3>1, <3>3, <3>4, <3>5
  <2> QED BY <2>2, <2>3, <2>4
<1> QED BY <1>1, <1>8, <1>9 DEF IsAct

LEMMA Source ==
    ASSUME NEW b, NEW A, Covered(b, A), ReadOnce(A), A # {}
    PROVE  \E a \in A : a.reads \subseteq b
<1> SUFFICES ASSUME \A a \in A : ~ (a.reads \subseteq b) PROVE FALSE
  OBVIOUS
<1> DEFINE X == {x \in b : x \in Reads(A)}
           L == {x \in b : \E a \in A : \E k, r : Registers(a, k, x, r)}
<1>1. /\ \A a \in A : IsAct(a)
      /\ b \subseteq Slots /\ Mirrored(b, LowEnd, HighEnd) /\ Bounded(b, LowEnd, HighEnd)
  BY DEF Covered, ListInv
<1>2. \A x \in b : x \in Slots /\ LowEnd <= x.key /\ x.key <= HighEnd
  BY <1>1 DEF Bounded
<1>3. \A y \in b, a \in A : a.reads # {y}
  OBVIOUS
<1>4. CASE L # {}
  <2>1. \A u \in L : u \in Slots /\ u.key <= HighEnd
    BY <1>2
  <2>2. PICK x \in L : \A u \in L : u.key <= x.key
    <3> HIDE DEF L
    <3> QED BY <1>4, <2>1, GreatestKey
  <2>p. PICK a \in A : \E k, r : Registers(a, k, x, r)
    BY <2>2
  <2>3. PICK k, r : a \in A /\ Registers(a, k, x, r)
    BY <2>p
  <2>4. x \in b /\ a.reads = {x, r}
    BY <2>2, <2>3, RegisterFacts
  <2>5. r \notin b
    BY <2>4
  <2>6. PICK y \in b, c \in A : x.key < y.key /\ (c.reads = {y} \/ \E m, s : Registers(c, m, y, s))
    BY <2>3, <2>4, <2>5, NextToTheRight
  <2>7. y \in L
    BY <1>3, <2>6
  <2>8. y.key <= x.key
    BY <2>2, <2>7
  <2> QED BY <1>2, <2>4, <2>6, <2>8 DEF Slots
<1>5. CASE L = {}
  <2>1. X # {}
    BY SomeBaseRead
  <2>2. \A u \in X : u \in Slots /\ LowEnd <= u.key
    BY <1>2
  <2>3. PICK x \in X : \A u \in X : x.key <= u.key
    <3> HIDE DEF X
    <3> QED BY <2>1, <2>2, LeastKey
  <2>4. x \in b /\ x \in Slots
    BY <1>2, <2>3
  <2>5. PICK a \in A : x \in a.reads
    BY <2>3 DEF Reads
  <2>6. \A v \in Values : a # TouchAct(v)
    BY <1>3, <2>4, <2>5, TouchFacts
  <2>7. PICK k \in Names, l, r \in Values : Registers(a, k, l, r)
    BY <1>1, <2>6 DEF IsAct
  <2>8. x = r
    BY <1>5, <2>4, <2>5, <2>7, RegisterFacts
  <2>9. /\ l \in Reads(A) /\ l \in Slots /\ l.key = x.left /\ LowEnd <= l.key /\ l.key < x.key
    <3>1. l.key < k /\ k < r.key /\ k \in Int /\ l \in Slots /\ r \in Slots
      BY <2>7, RegisterFacts
    <3>2. l.key < r.key
      BY <3>1 DEF Slots
    <3> QED BY <1>1, <2>7, <2>8, <3>2, RegisterFacts, ReadsWrites
  <2>10. x.key # LowEnd
    BY <2>4, <2>9, BundleAssumption DEF Slots
  <2>11. PICK w \in b : w.key = x.left
    BY <1>1, <2>4, <2>10 DEF Mirrored
  <2>12. w \in X
    BY <2>9, <2>11, FromBase
  <2>13. x.key <= w.key
    BY <2>3, <2>12
  <2> QED BY <2>4, <2>9, <2>11, <2>13 DEF Slots
<1> QED BY <1>4, <1>5

-----------------------------------------------------------------------------
\* Running it leaves the same situation.

\* The slots after action a has run on the slots b.
Run(b, a) == (b \ a.reads) \cup a.writes

LEMMA RunKeepsList ==
    ASSUME NEW b, NEW a, IsAct(a), b \subseteq Slots, ListInv(b, LowEnd, HighEnd), a.reads \subseteq b
    PROVE  Run(b, a) \subseteq Slots /\ ListInv(Run(b, a), LowEnd, HighEnd)
<1>1. Run(b, a) \subseteq Slots
  BY ActFacts DEF Run
<1>2. ASSUME NEW v \in Values, a = TouchAct(v) PROVE ListInv(Run(b, a), LowEnd, HighEnd)
  <2>1. /\ v \in b /\ Touched(v).key = v.key
        /\ Touched(v).left = v.left /\ Touched(v).right = v.right
        /\ Run(b, a) = (b \ {v}) \cup {Touched(v)}
    BY <1>2, TouchFacts DEF Run
  <2> QED BY <2>1, ReplaceKeepsList
<1>3. ASSUME NEW k \in Names, NEW l \in Values, NEW r \in Values, Registers(a, k, l, r)
      PROVE  ListInv(Run(b, a), LowEnd, HighEnd)
  <2> DEFINE n == NewSlot(k, l, r)
  <2>1. Run(b, a) = (b \ {l, r}) \cup {n, RelinkRight(l, k), RelinkLeft(r, k)}
    BY <1>3, RegisterFacts DEF Run
  <2>2. l \in b /\ r \in b
    BY <1>3, RegisterFacts
  <2>3. Numbered(b)
    BY DEF Numbered, Slots
  <2>4. Brackets(l, r, k) /\ k \in Int /\ n.key = k /\ n.left = l.key /\ n.right = r.key
    BY <1>3, RegisterFacts DEF Registers
  <2>5. /\ RelinkRight(l, k).key = l.key /\ RelinkRight(l, k).left = l.left
        /\ RelinkRight(l, k).right = k
        /\ RelinkLeft(r, k).key = r.key /\ RelinkLeft(r, k).left = k
        /\ RelinkLeft(r, k).right = r.right
    BY <1>3, RegisterFacts
  <2>6. SpliceCase(b, LowEnd, HighEnd, l, r, n, RelinkRight(l, k), RelinkLeft(r, k))
    <3> HIDE DEF n
    <3> QED BY <2>2, <2>3, <2>4, <2>5, BundleAssumption DEF SpliceCase
  <2> HIDE DEF n
  <2>7. ListInv((b \ {l, r}) \cup {n, RelinkRight(l, k), RelinkLeft(r, k)}, LowEnd, HighEnd)
    BY ONLY <2>6, SpliceKeepsList, Zenon
  <2> QED BY <2>1, <2>7
<1> QED BY <1>1, <1>2, <1>3 DEF IsAct

\* All that the rest of the proof says about a set A of actions that is to run
\* on the list b and to leave the slots p.
Ready(b, A, p) ==
    /\ Covered(b, A) /\ ReadOnce(A) /\ WrittenOnce(A)
    /\ p = (b \cup Writes(A)) \ Reads(A)

LEMMA RunOne ==
    ASSUME NEW b, NEW A, NEW p, Ready(b, A, p), NEW a \in A, a.reads \subseteq b
    PROVE  Ready(Run(b, a), A \ {a}, p)
<1> DEFINE B == A \ {a}
<1>1. /\ \A c \in A : IsAct(c)
      /\ b \subseteq Slots /\ ListInv(b, LowEnd, HighEnd)
      /\ Reads(A) \subseteq b \cup Writes(A)
      /\ ReadOnce(A) /\ WrittenOnce(A)
      /\ p = (b \cup Writes(A)) \ Reads(A)
      /\ b \cap Writes(A) = {}
  BY BaseNotWritten DEF Ready, Covered
<1>2. Reads(A) = Reads(B) \cup a.reads /\ Writes(A) = Writes(B) \cup a.writes
  BY DEF Reads, Writes
<1>3. Reads(B) \cap a.reads = {}
  BY <1>1 DEF Reads, ReadOnce
<1>4. Run(b, a) \subseteq Slots /\ ListInv(Run(b, a), LowEnd, HighEnd)
  BY <1>1, RunKeepsList
<1>5. Reads(B) \subseteq Run(b, a) \cup Writes(B)
  BY <1>1, <1>2, <1>3 DEF Run
<1>6. ReadOnce(B) /\ WrittenOnce(B)
  BY <1>1 DEF ReadOnce, WrittenOnce
<1>7. p = (Run(b, a) \cup Writes(B)) \ Reads(B)
  BY <1>1, <1>2 DEF Run
<1>8. \A c \in B : IsAct(c)
  BY <1>1
<1> HIDE DEF B
<1>9. Covered(Run(b, a), B)
  BY <1>4, <1>5, <1>8 DEF Covered
<1>10. Ready(Run(b, a), B, p)
  BY <1>6, <1>7, <1>9 DEF Ready
<1> QED BY <1>10 DEF B

LEMMA RunNone ==
    ASSUME NEW b, NEW p, Ready(b, {}, p)
    PROVE  p = b /\ ListInv(p, LowEnd, HighEnd)
<1>1. Reads({}) = {} /\ Writes({}) = {}
  BY DEF Reads, Writes
<1> QED BY <1>1 DEF Ready, Covered

-----------------------------------------------------------------------------
\* A serial order.

\* g is the table of the slots after each of the first n actions of order f.
IsTable(g, f, n) ==
    g = [i \in 0 .. n |-> IF i = 0 THEN base ELSE (g[i - 1] \ f[i].reads) \cup f[i].writes]

LEMMA TableExists ==
    ASSUME NEW f, NEW n \in Nat
    PROVE  \E g : IsTable(g, f, n)
<1> DEFINE T == {m \in Nat : \E g : IsTable(g, f, m)}
<1>1. 0 \in T
  <2> DEFINE g == [i \in 0 .. 0 |-> base]
  <2>1. IsTable(g, f, 0)
    BY DEF IsTable
  <2> QED BY <2>1
<1>2. ASSUME NEW m \in Nat, m \in T PROVE m + 1 \in T
  <2>1. PICK g : IsTable(g, f, m)
    BY <1>2
  <2> DEFINE At(h, i) == IF i = 0 THEN base ELSE (h[i - 1] \ f[i].reads) \cup f[i].writes
             h == [i \in 0 .. m + 1 |-> At(g, i)]
  <2>2. g = [i \in 0 .. m |-> At(g, i)]
    BY <2>1 DEF IsTable
  <2>3. \A i \in 0 .. m : h[i] = g[i]
    <3> HIDE DEF At
    <3> QED BY <2>2
  <2>4. \A i \in 0 .. m + 1 : At(g, i) = At(h, i)
    <3> HIDE DEF h
    <3> QED BY <2>3
  <2>5. h = [i \in 0 .. m + 1 |-> At(h, i)]
    <3> HIDE DEF At
    <3> QED BY <2>4
  <2>6. IsTable(h, f, m + 1)
    <3> HIDE DEF h
    <3> QED BY <2>5 DEF IsTable
  <2> QED BY <2>6
<1>3. Nat \subseteq T
  <2> HIDE DEF T
  <2> QED BY <1>1, <1>2, AllNat
<1> QED BY <1>3

\* The slots after n actions, as any longer table has them.
LEMMA AfterIs ==
    ASSUME NEW f, NEW m \in Nat, NEW n \in 0 .. m, NEW g, IsTable(g, f, m)
    PROVE  After(f, n) = g[n]
<1> DEFINE h == CHOOSE e : IsTable(e, f, n)
<1>1. IsTable(h, f, n)
  BY TableExists
<1>2. After(f, n) = h[n]
  BY DEF After, IsTable
<1> HIDE DEF h
<1> DEFINE T == {i \in Nat : i <= n => h[i] = g[i]}
<1>3. 0 \in T
  BY <1>1 DEF IsTable
<1>4. ASSUME NEW i \in Nat, i \in T PROVE i + 1 \in T
  <2> SUFFICES ASSUME i + 1 <= n PROVE h[i + 1] = g[i + 1]
    OBVIOUS
  <2>1. h[i] = g[i]
    BY <1>4
  <2>2. i + 1 \in 0 .. n /\ i + 1 \in 0 .. m /\ i + 1 # 0 /\ (i + 1) - 1 = i
    OBVIOUS
  <2>3. h[i + 1] = (h[i] \ f[i + 1].reads) \cup f[i + 1].writes
    BY <1>1, <2>2 DEF IsTable
  <2>4. g[i + 1] = (g[i] \ f[i + 1].reads) \cup f[i + 1].writes
    BY <2>2 DEF IsTable
  <2> QED BY <2>1, <2>3, <2>4
<1>5. Nat \subseteq T
  <2> HIDE DEF T
  <2> QED BY <1>3, <1>4, AllNat
<1> QED BY <1>2, <1>5

LEMMA AfterStep ==
    ASSUME NEW f, NEW n \in Nat
    PROVE  After(f, 0) = base /\ After(f, n + 1) = Run(After(f, n), f[n + 1])
<1>1. PICK g : IsTable(g, f, n + 1)
  BY TableExists
<1>2. n + 1 \in Nat /\ 0 \in 0 .. n + 1 /\ n \in 0 .. n + 1 /\ n + 1 \in 0 .. n + 1 /\ (n + 1) - 1 = n /\ n + 1 # 0
  OBVIOUS
<1>3. After(f, 0) = g[0] /\ After(f, n) = g[n] /\ After(f, n + 1) = g[n + 1]
  BY <1>1, <1>2, AfterIs
<1>4. g[0] = base /\ g[n + 1] = (g[n] \ f[n + 1].reads) \cup f[n + 1].writes
  BY <1>1, <1>2 DEF IsTable
<1> QED BY <1>3, <1>4 DEF Run

LEMMA AfterSame ==
    ASSUME NEW f, NEW g, NEW n \in Nat, \A i \in 1 .. n : f[i] = g[i]
    PROVE  \A i \in 0 .. n : After(f, i) = After(g, i)
<1> DEFINE T == {i \in Nat : i <= n => After(f, i) = After(g, i)}
<1>1. 0 \in T
  BY AfterStep
<1>2. ASSUME NEW i \in Nat, i \in T PROVE i + 1 \in T
  <2> SUFFICES ASSUME i + 1 <= n PROVE After(f, i + 1) = After(g, i + 1)
    OBVIOUS
  <2>1. After(f, i) = After(g, i) /\ f[i + 1] = g[i + 1]
    BY <1>2
  <2> QED BY <2>1, AfterStep
<1>3. Nat \subseteq T
  <2> HIDE DEF T
  <2> QED BY <1>1, <1>2, AllNat
<1> QED BY <1>3

\* f runs the first n actions of the spend, each on slots that exist.
Runs(f, n) ==
    /\ f \in [1 .. n -> acts]
    /\ \A i, j \in 1 .. n : i # j => f[i] # f[j]
    /\ \A i \in 1 .. n : f[i].reads \subseteq After(f, i - 1)

\* Those it has not run.
Rest(f, n) == {a \in acts : \A i \in 1 .. n : f[i] # a}

LEMMA RunOneMore ==
    ASSUME NEW f, NEW n \in Nat, Runs(f, n), IsFiniteSet(Rest(f, n)),
           Rest(f, n) # {}, Ready(After(f, n), Rest(f, n), pool)
    PROVE  \E g : /\ Runs(g, n + 1) /\ Ready(After(g, n + 1), Rest(g, n + 1), pool)
                  /\ IsFiniteSet(Rest(g, n + 1))
                  /\ Cardinality(Rest(g, n + 1)) = Cardinality(Rest(f, n)) - 1
<1>1. PICK a \in Rest(f, n) : a.reads \subseteq After(f, n)
  BY Source DEF Ready
<1> DEFINE g == [i \in 1 .. n + 1 |-> IF i = n + 1 THEN a ELSE f[i]]
<1>2. a \in acts /\ \A i \in 1 .. n : f[i] # a
  BY DEF Rest
<1>3. g[n + 1] = a /\ \A i \in 1 .. n : g[i] = f[i]
  OBVIOUS
<1>4. \A i \in 0 .. n : After(g, i) = After(f, i)
  <2> HIDE DEF g
  <2> QED BY <1>3, AfterSame
<1>5. After(g, n + 1) = Run(After(f, n), a)
  <2> HIDE DEF g
  <2> QED BY <1>3, <1>4, AfterStep
<1>6. Rest(g, n + 1) = Rest(f, n) \ {a}
  <2> HIDE DEF g
  <2>1. \A i \in 1 .. n + 1 : i \in 1 .. n \/ i = n + 1
    OBVIOUS
  <2>2. n + 1 \in 1 .. n + 1 /\ \A i \in 1 .. n : i \in 1 .. n + 1
    OBVIOUS
  <2> QED BY <1>3, <2>1, <2>2 DEF Rest
<1>7. Runs(g, n + 1)
  <2>1. g \in [1 .. n + 1 -> acts]
    BY <1>2 DEF Runs
  <2>2. \A i, j \in 1 .. n + 1 : i # j => g[i] # g[j]
    BY <1>2 DEF Runs
  <2>3. ASSUME NEW i \in 1 .. n + 1 PROVE g[i].reads \subseteq After(g, i - 1)
    <3>1. i - 1 \in 0 .. n
      OBVIOUS
    <3>2. After(g, i - 1) = After(f, i - 1)
      <4> HIDE DEF g
      <4> QED BY <1>4, <3>1
    <3>3. CASE i = n + 1
      <4>1. g[i] = a /\ i - 1 = n
        BY <3>3
      <4> HIDE DEF g
      <4> QED BY <1>1, <3>2, <4>1
    <3>4. CASE i \in 1 .. n
      <4>1. g[i] = f[i]
        BY <3>4
      <4> HIDE DEF g
      <4> QED BY <3>2, <3>4, <4>1 DEF Runs
    <3> QED BY <3>3, <3>4
  <2> HIDE DEF g
  <2> QED BY <2>1, <2>2, <2>3 DEF Runs
<1>8. Ready(After(g, n + 1), Rest(g, n + 1), pool)
  <2> HIDE DEF g
  <2> QED BY <1>1, <1>5, <1>6, RunOne
<1>9. IsFiniteSet(Rest(f, n) \ {a}) /\ Cardinality(Rest(f, n) \ {a}) = Cardinality(Rest(f, n)) - 1
  BY FS_RemoveElement
<1> HIDE DEF g
<1> QED BY <1>6, <1>7, <1>8, <1>9

\* The actions of a covered spend have a serial order.
LEMMA SerialOrder ==
    ASSUME IsFiniteSet(acts), Ready(base, acts, pool)
    PROVE  \E f \in Orders : /\ \A i \in DOMAIN f : f[i].reads \subseteq After(f, i - 1)
                             /\ After(f, Cardinality(acts)) = pool
                             /\ ListInv(pool, LowEnd, HighEnd)
<1> DEFINE N == Cardinality(acts)
           Good(f, n) == /\ Runs(f, n) /\ Ready(After(f, n), Rest(f, n), pool)
                         /\ IsFiniteSet(Rest(f, n)) /\ Cardinality(Rest(f, n)) = N - n
           T == {n \in Nat : n <= N => \E f : Good(f, n)}
<1>1. N \in Nat
  BY FS_CardinalityType
<1>2. 0 \in T
  <2> DEFINE f == [i \in 1 .. 0 |-> i]
  <2>1. Rest(f, 0) = acts
    BY DEF Rest
  <2>2. Runs(f, 0)
    BY DEF Runs
  <2>3. After(f, 0) = base
    BY AfterStep
  <2>4. Good(f, 0)
    <3> HIDE DEF f
    <3> QED BY <1>1, <2>1, <2>2, <2>3
  <2> HIDE DEF Good
  <2> QED BY <2>4
<1>3. ASSUME NEW n \in Nat, n \in T PROVE n + 1 \in T
  <2> SUFFICES ASSUME n + 1 <= N PROVE \E f : Good(f, n + 1)
    OBVIOUS
  <2>1. n <= N
    BY <1>1
  <2>2. PICK f : Good(f, n)
    <3> HIDE DEF Good
    <3> QED BY <1>3, <2>1
  <2>3. Rest(f, n) # {}
    <3>1. Cardinality(Rest(f, n)) # 0
      <4> HIDE DEF N
      <4> QED BY <1>1, <2>2
    <3> QED BY <3>1, FS_EmptySet
  <2>4. PICK g : /\ Runs(g, n + 1) /\ Ready(After(g, n + 1), Rest(g, n + 1), pool)
                 /\ IsFiniteSet(Rest(g, n + 1))
                 /\ Cardinality(Rest(g, n + 1)) = Cardinality(Rest(f, n)) - 1
    BY <2>2, <2>3, RunOneMore
  <2>5. Cardinality(Rest(g, n + 1)) = N - (n + 1)
    <3> HIDE DEF N
    <3> QED BY <1>1, <2>2, <2>4
  <2> QED BY <2>4, <2>5
<1>4. Nat \subseteq T
  <2> HIDE DEF T
  <2> QED BY <1>2, <1>3, AllNat
<1>5. PICK f : Good(f, N)
  <2> HIDE DEF Good
  <2> QED BY <1>1, <1>4
<1>6. Rest(f, N) = {}
  <2>1. Cardinality(Rest(f, N)) = 0
    <3> HIDE DEF N
    <3> QED BY <1>1, <1>5
  <2> QED BY <1>5, <2>1, FS_EmptySet
<1>7. pool = After(f, N) /\ ListInv(pool, LowEnd, HighEnd)
  BY <1>5, <1>6, RunNone
<1>8. f \in Orders
  BY <1>5 DEF Orders, Runs
<1>9. \A i \in DOMAIN f : f[i].reads \subseteq After(f, i - 1)
  BY <1>5 DEF Runs
<1> QED BY <1>7, <1>8, <1>9

-----------------------------------------------------------------------------
\* The spend under construction.

\* Two actions both read v.
ReadTwice(v) == \E a, c \in acts : a # c /\ v \in a.reads /\ v \in c.reads

\* What pool and debts say of the base and of what the actions read and write.
Accounts ==
    /\ pool \subseteq base \cup Writes(acts)
    /\ \A v \in pool \cap Reads(acts) : v \in base /\ v \in Writes(acts) /\ ~ ReadTwice(v)
    /\ base \cup Writes(acts) \subseteq pool \cup debts \cup Reads(acts)
    /\ debts \subseteq Reads(acts)
    /\ Reads(acts) \subseteq base \cup Writes(acts) \cup debts
    /\ \A v \in Reads(acts) :
          ReadTwice(v) => IF v \in debts THEN v \in base \cup Writes(acts)
                          ELSE v \in base /\ v \in Writes(acts)

BundleInv ==
    /\ IsFiniteSet(acts) /\ \A a \in acts : IsAct(a)
    /\ base \subseteq Slots /\ ListInv(base, LowEnd, HighEnd)
    /\ pool \cap debts = {}
    /\ WrittenOnce(acts)
    /\ Accounts

LEMMA BundleInitInv == BundleInit => BundleInv
<1> SUFFICES ASSUME BundleInit PROVE BundleInv
  OBVIOUS
<1>1. base = {EndValue(LowEnd), EndValue(HighEnd)} /\ pool = base /\ debts = {} /\ acts = {}
  BY DEF BundleInit
<1>2. base \subseteq Slots
  BY <1>1, BundleAssumption DEF EndValue, Slots
<1>3. ListInv(base, LowEnd, HighEnd)
  BY <1>1, BundleAssumption DEF EndValue, ListInv, OneSlotPerKey, NothingInGaps, Mirrored, Ascending, Bounded, Keys
<1>4. Reads(acts) = {} /\ Writes(acts) = {}
  BY <1>1 DEF Reads, Writes
<1>5. IsFiniteSet(acts)
  BY <1>1, FS_EmptySet
<1>6. Accounts
  BY <1>1, <1>4 DEF Accounts
<1> QED BY <1>1, <1>2, <1>3, <1>5, <1>6 DEF BundleInv, WrittenOnce

\* What Add does to the accounts, value by value.
LEMMA AddKeeps ==
    ASSUME BundleInv, NEW a, IsAct(a), a = [reads |-> a.reads, writes |-> a.writes],
           Add(a.reads, a.writes)
    PROVE  BundleInv'
<1> DEFINE R == a.reads
           W == a.writes
<1>1. /\ acts' = acts \cup {a} /\ base' = base
      /\ debts' = (debts \cup (R \ pool)) \ W
      /\ pool' = (pool \ R) \cup (W \ (debts \cup (R \ pool)))
      /\ R \cap debts = {}
      /\ \A c \in acts : c.writes \cap W = {}
  BY DEF Add
<1>2. IsFiniteSet(acts')
  BY <1>1, FS_AddElement DEF BundleInv
<1>3. \A c \in acts' : IsAct(c)
  BY <1>1 DEF BundleInv
<1>4. Reads(acts)' = Reads(acts) \cup R /\ Writes(acts)' = Writes(acts) \cup W
  BY <1>1 DEF Reads, Writes
<1>5. W \cap Writes(acts) = {}
  BY <1>1 DEF Writes
<1>6. WrittenOnce(acts)'
  BY <1>1 DEF BundleInv, WrittenOnce
<1>7. pool' \cap debts' = {}
  BY <1>1 DEF BundleInv
<1>8. a \notin acts
  <2>1. W # {}
    BY ActFacts
  <2> QED BY <1>1, <2>1
<1>9. ASSUME NEW v PROVE ReadTwice(v)' <=> ReadTwice(v) \/ (v \in R /\ v \in Reads(acts))
  BY <1>1, <1>8 DEF ReadTwice, Reads
<1>10. \A v : ReadTwice(v) => v \in Reads(acts)
  BY DEF ReadTwice, Reads
<1> DEFINE P == Reads(acts)
           Q == Writes(acts)
<1>11. Accounts'
  <2> SUFFICES /\ pool' \subseteq base \cup (Q \cup W)
               /\ \A v \in pool' \cap (P \cup R) : v \in base /\ v \in Q \cup W /\ ~ (ReadTwice(v)')
               /\ base \cup (Q \cup W) \subseteq pool' \cup debts' \cup (P \cup R)
               /\ debts' \subseteq P \cup R
               /\ P \cup R \subseteq base \cup (Q \cup W) \cup debts'
               /\ \A v \in P \cup R : ReadTwice(v)' =>
                     IF v \in debts' THEN v \in base \cup (Q \cup W) ELSE v \in base /\ v \in Q \cup W
    BY <1>1, <1>4 DEF Accounts
  <2>0. /\ pool \subseteq base \cup Q
        /\ \A v \in pool \cap P : v \in base /\ v \in Q /\ ~ ReadTwice(v)
        /\ base \cup Q \subseteq pool \cup debts \cup P
        /\ debts \subseteq P
        /\ P \subseteq base \cup Q \cup debts
        /\ \A v \in P : ReadTwice(v) => IF v \in debts THEN v \in base \cup Q ELSE v \in base /\ v \in Q
        /\ pool \cap debts = {}
    BY DEF BundleInv, Accounts
  <2> HIDE DEF P, Q, R, W
  <2>1. pool' \subseteq base \cup (Q \cup W)
    BY <1>1, <2>0
  <2>2. ASSUME NEW v \in pool' \cap (P \cup R) PROVE v \in base /\ v \in Q \cup W /\ ~ (ReadTwice(v)')
    BY <1>1, <1>5, <1>9, <1>10, <2>0, <2>2 DEF P, Q, R, W
  <2>3. base \cup (Q \cup W) \subseteq pool' \cup debts' \cup (P \cup R)
    BY <1>1, <2>0
  <2>4. debts' \subseteq P \cup R
    BY <1>1, <2>0
  <2>5. P \cup R \subseteq base \cup (Q \cup W) \cup debts'
    BY <1>1, <2>0
  <2>6. ASSUME NEW v \in P \cup R, ReadTwice(v)'
        PROVE  IF v \in debts' THEN v \in base \cup (Q \cup W) ELSE v \in base /\ v \in Q \cup W
    BY <1>1, <1>5, <1>9, <1>10, <2>0, <2>6 DEF P, Q, R, W
  <2> QED BY <2>1, <2>2, <2>3, <2>4, <2>5, <2>6
<1> QED BY <1>1, <1>2, <1>3, <1>6, <1>7, <1>11 DEF BundleInv

\* A spend without debts is covered, and each value is read once: a value
\* read twice would be one of the base that is written again.
LEMMA AcceptedReady ==
    ASSUME BundleInv, debts = {}
    PROVE  Ready(base, acts, pool)
<1>1. Covered(base, acts)
  BY DEF Covered, BundleInv, Accounts
<1>2. base \cap Writes(acts) = {}
  BY <1>1, BaseNotWritten
<1>3. ReadOnce(acts)
  <2> SUFFICES ASSUME NEW a \in acts, NEW c \in acts, a # c, NEW v \in a.reads \cap c.reads PROVE FALSE
    BY DEF ReadOnce
  <2>1. ReadTwice(v) /\ v \in Reads(acts)
    BY DEF ReadTwice, Reads
  <2> QED BY <1>2, <2>1 DEF BundleInv, Accounts
<1>4. pool = (base \cup Writes(acts)) \ Reads(acts)
  BY <1>2 DEF BundleInv, Accounts
<1> QED BY <1>1, <1>3, <1>4 DEF Ready, BundleInv

LEMMA EndSpendKeeps ==
    ASSUME BundleInv, EndSpend
    PROVE  BundleInv'
<1>1. base' = pool /\ acts' = {} /\ pool' = pool /\ debts' = debts /\ debts = {}
  BY DEF EndSpend, Accepted
<1>2. ListInv(pool, LowEnd, HighEnd)
  BY <1>1, AcceptedReady, SerialOrder DEF BundleInv
<1>3. pool \subseteq Slots
  BY ReadsWrites DEF BundleInv, Accounts
<1>4. Reads(acts)' = {} /\ Writes(acts)' = {}
  BY <1>1 DEF Reads, Writes
<1>5. IsFiniteSet(acts)' /\ WrittenOnce(acts)'
  BY <1>1, FS_EmptySet DEF WrittenOnce
<1>6. Accounts'
  BY <1>1, <1>4 DEF Accounts
<1> QED BY <1>1, <1>2, <1>3, <1>5, <1>6 DEF BundleInv

LEMMA BundleNextInv ==
    ASSUME BundleInv, [BundleNext]_bundleVars
    PROVE  BundleInv'
<1>1. ASSUME NEW v \in Values, Touch(v) PROVE BundleInv'
  <2>1. /\ IsAct(TouchAct(v)) /\ TouchAct(v) = [reads |-> TouchAct(v).reads, writes |-> TouchAct(v).writes]
        /\ Add(TouchAct(v).reads, TouchAct(v).writes)
    BY <1>1 DEF IsAct, TouchAct, Touch
  <2> QED BY <2>1, AddKeeps
<1>2. ASSUME NEW x \in Registrations, Insert(x.name, x.left, x.right) PROVE BundleInv'
  <2> DEFINE a == RegisterAct(x.name, x.left, x.right)
  <2>1. x.name \in Names /\ x.left \in Values /\ x.right \in Values /\ Brackets(x.left, x.right, x.name)
    BY DEF Registrations
  <2>2. IsAct(a)
    BY <2>1 DEF IsAct, Registers
  <2>3. a = [reads |-> a.reads, writes |-> a.writes] /\ Add(a.reads, a.writes)
    BY <1>2 DEF RegisterAct, Insert, NewSlot
  <2> HIDE DEF a
  <2> QED BY <2>2, <2>3, AddKeeps
<1>3. CASE EndSpend
  BY <1>3, EndSpendKeeps
<1>4. CASE UNCHANGED bundleVars
  BY <1>4 DEF bundleVars, BundleInv, Accounts, ReadTwice, Reads, Writes, WrittenOnce
<1> QED BY <1>1, <1>2, <1>3, <1>4 DEF BundleNext

\* The invariant that the two theorems rest on.
THEOREM BundleInvariant == BundleSpec => []BundleInv
BY BundleInitInv, BundleNextInv, PTL DEF BundleSpec

\* A spend that the chain accepts is equivalent to running its actions one
\* after the other on slots that exist, for any number of keys and actions
\* (singleton/action.rue: the conditions of all actions are output at once).
THEOREM SpendAcceptedIsSerial == BundleSpec => []AcceptedIsSerial
<1>1. BundleInv => AcceptedIsSerial
  <2> SUFFICES ASSUME BundleInv, Accepted PROVE AcceptedIsSerial
    BY DEF AcceptedIsSerial
  <2>1. Ready(base, acts, pool) /\ IsFiniteSet(acts)
    BY AcceptedReady DEF Accepted, BundleInv
  <2> QED BY <2>1, SerialOrder DEF AcceptedIsSerial
<1> QED BY <1>1, BundleInvariant, PTL

\* Between spends the slots are the sorted list, so that the registries may be
\* modelled one action at a time (XchandlesRegistry, CatalogRegistry).
THEOREM SpendListBetweenSpends == BundleSpec => []ListBetweenSpends
<1>1. BundleInv => ListBetweenSpends
  <2> SUFFICES ASSUME BundleInv, Accepted PROVE ListBetweenSpends
    BY DEF ListBetweenSpends
  <2>1. Ready(base, acts, pool) /\ IsFiniteSet(acts)
    BY AcceptedReady DEF Accepted, BundleInv
  <2> QED BY <2>1, SerialOrder DEF ListBetweenSpends
<1> QED BY <1>1, BundleInvariant, PTL
=============================================================================
