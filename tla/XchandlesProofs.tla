--------------------------- MODULE XchandlesProofs ---------------------------
(***************************************************************************)
(* Results about the XCHandles registry for every set of handles, owners,  *)
(* precommits and states, and for every value of the bounds: the list of   *)
(* slots stays in order, money is not stranded except by expiry, and the   *)
(* registry implements HandleLease.                                        *)
(***************************************************************************)
EXTENDS XchandlesRegistry, CommonLemmas

\* What the assumption on Precommit says of one precommit coin.
LEMMA PrecommitFacts ==
    ASSUME NEW p \in Offers
    PROVE  /\ Precommit[p].key \in Handles
           /\ Precommit[p].key \in Int
           /\ Precommit[p].key # Lo /\ Precommit[p].key # Hi
           /\ Precommit[p].owner \in Owners /\ Precommit[p].resolved \in Owners
           /\ Precommit[p].buyTime + Precommit[p].time \in Nat
<1>1. /\ Precommit[p].key \in Handles
      /\ Precommit[p].owner \in Owners /\ Precommit[p].resolved \in Owners
      /\ Precommit[p].buyTime \in Nat /\ Precommit[p].time \in Nat
  BY ParameterAssumption DEF PrecommitSpec
<1>2. \A i \in Handles : i \in Int /\ i # Lo /\ i # Hi
  BY KeyAssumption
<1> QED BY <1>1, <1>2

\* The values the actions write are slots with the fields one expects.
LEMMA TouchedSlot ==
    ASSUME NEW s \in Slot
    PROVE  /\ Touched(s) \in Slot
           /\ Touched(s).key = s.key
           /\ Touched(s).left = s.left
           /\ Touched(s).right = s.right
           /\ Touched(s).expiration = s.expiration
           /\ Touched(s).owner = s.owner
           /\ Touched(s).resolved = s.resolved
<1>1. s.counter + 1 \in Nat
  BY DEF Slot
<1> QED BY <1>1 DEF Touched, Slot

\* The two neighbours that a registration re-creates are slots with the
\* pointers one expects.
LEMMA RelinkedSlot ==
    ASSUME NEW s \in Slot, NEW k \in Int
    PROVE  /\ RelinkRight(s, k) \in Slot
           /\ RelinkRight(s, k).key = s.key
           /\ RelinkRight(s, k).left = s.left
           /\ RelinkRight(s, k).right = k
           /\ RelinkRight(s, k).owner = s.owner
           /\ RelinkRight(s, k).resolved = s.resolved
           /\ RelinkLeft(s, k) \in Slot
           /\ RelinkLeft(s, k).key = s.key
           /\ RelinkLeft(s, k).left = k
           /\ RelinkLeft(s, k).right = s.right
           /\ RelinkLeft(s, k).owner = s.owner
           /\ RelinkLeft(s, k).resolved = s.resolved
<1>1. s.counter + 1 \in Nat
  BY DEF Slot
<1>2. /\ RelinkRight(s, k) \in Slot
      /\ RelinkRight(s, k).key = s.key
      /\ RelinkRight(s, k).left = s.left
      /\ RelinkRight(s, k).right = k
      /\ RelinkRight(s, k).owner = s.owner
      /\ RelinkRight(s, k).resolved = s.resolved
  BY <1>1 DEF RelinkRight, Slot
<1>3. /\ RelinkLeft(s, k) \in Slot
      /\ RelinkLeft(s, k).key = s.key
      /\ RelinkLeft(s, k).left = k
      /\ RelinkLeft(s, k).right = s.right
      /\ RelinkLeft(s, k).owner = s.owner
      /\ RelinkLeft(s, k).resolved = s.resolved
  BY <1>1 DEF RelinkLeft, Slot
<1> QED BY <1>2, <1>3

\* The slot a registration creates.
NewSlot(p, l, r) ==
    [key |-> Precommit[p].key, left |-> l.key, right |-> r.key, counter |-> 0,
     expiration |-> Precommit[p].buyTime + Precommit[p].time,
     owner |-> Precommit[p].owner, resolved |-> Precommit[p].resolved]

\* t re-creates s: a slot with the same key and the same pointers.
Recreates(t, s) ==
    t \in Slot /\ t.key = s.key /\ t.left = s.left /\ t.right = s.right

\* A slot with new holders is a slot.
LEMMA RehomedSlot ==
    ASSUME NEW s \in Slot, NEW o \in Owners \cup {Nobody}, NEW r \in Owners \cup {Nobody}
    PROVE  LET t == [s EXCEPT !.owner = o, !.resolved = r]
           IN  t \in Slot /\ t.key = s.key /\ t.left = s.left /\ t.right = s.right
BY DEF Slot

\* Every step splices one new slot in, re-creates one slot, or leaves the
\* slots alone.
SlotStep ==
    \/ \E p \in Offers, l, r \in slots :
           Register(p, l, r) /\ slots' = Splice(slots, l, r, NewSlot(p, l, r))
    \/ \E s \in slots : \E t \in Slot :
           Recreates(t, s) /\ slots' = (slots \ {s}) \cup {t}
    \/ slots' = slots

\* Every action changes the handle slots in one of the three ways of SlotStep: a splice,
\* a slot re-created with its key and pointers, or none.
LEMMA SlotSteps ==
    ASSUME TypeOK, [Next]_vars
    PROVE  SlotStep
<1>0. \A s \in slots : s \in Slot /\ Touched(s) \in Slot /\ Recreates(Touched(s), s)
  BY TouchedSlot DEF TypeOK, Recreates
<1>1. ASSUME NEW p \in Offers, NEW l \in slots, NEW r \in slots, Register(p, l, r)
      PROVE  SlotStep
  <2>1. slots' = Splice(slots, l, r, NewSlot(p, l, r))
    BY <1>1 DEF Register, NewSlot
  <2> QED BY <1>1, <2>1 DEF SlotStep
<1>2. ASSUME NEW p \in Offers, NEW s \in slots, Expire(p, s) PROVE SlotStep
  <2> DEFINE t == [Touched(s) EXCEPT
                     !.expiration = Precommit[p].buyTime + Precommit[p].time,
                     !.owner = Precommit[p].owner, !.resolved = Precommit[p].resolved]
  <2>1. slots' = (slots \ {s}) \cup {t}
    BY <1>2 DEF Expire
  <2>2. t \in Slot /\ t.key = s.key /\ t.left = s.left /\ t.right = s.right
    BY <1>0, PrecommitFacts, TouchedSlot DEF Slot
  <2> QED BY <2>1, <2>2 DEF Recreates, SlotStep
<1>3. ASSUME NEW s \in slots, Extend(s) PROVE SlotStep
  <2> DEFINE t == [Touched(s) EXCEPT !.expiration = @ + Period]
  <2>1. slots' = (slots \ {s}) \cup {t}
    BY <1>3 DEF Extend
  <2>2. Touched(s).expiration + Period \in Nat
    BY <1>0, ParameterAssumption DEF Slot
  <2>3. t \in Slot /\ t.key = s.key /\ t.left = s.left /\ t.right = s.right
    BY <1>0, <2>2, TouchedSlot DEF Slot
  <2> QED BY <2>1, <2>3 DEF Recreates, SlotStep
<1>4. ASSUME NEW s \in slots, slots' = (slots \ {s}) \cup {Touched(s)} PROVE SlotStep
  BY <1>0, <1>4 DEF SlotStep
<1>5. ASSUME NEW s \in slots, NEW u \in updates, ExecuteUpdate(s, u) PROVE SlotStep
  <2> DEFINE t == [Touched(s) EXCEPT !.owner = u.owner, !.resolved = u.resolved]
  <2>1. slots' = (slots \ {s}) \cup {t}
    BY <1>5 DEF ExecuteUpdate
  <2>2. u.owner \in Owners \cup {Nobody} /\ u.resolved \in Owners \cup {Nobody}
    BY DEF TypeOK, Update
  <2>3. t \in Slot /\ t.key = s.key /\ t.left = s.left /\ t.right = s.right
    <3> DEFINE x == Touched(s)
    <3>1. x \in Slot /\ x.key = s.key /\ x.left = s.left /\ x.right = s.right
      BY <1>0, TouchedSlot
    <3> HIDE DEF x
    <3>2. LET y == [x EXCEPT !.owner = u.owner, !.resolved = u.resolved]
          IN  y \in Slot /\ y.key = x.key /\ y.left = x.left /\ y.right = x.right
      BY <2>2, <3>1, RehomedSlot
    <3> QED BY <3>1, <3>2 DEF x
  <2> QED BY <2>1, <2>3 DEF Recreates, SlotStep
<1>9. CASE UNCHANGED slots
  BY <1>9 DEF SlotStep
<1>6. ASSUME NEW p \in Offers, Refund(p) PROVE SlotStep
  <2>1. slots' = slots \/ \E s \in slots : slots' = (slots \ {s}) \cup {Touched(s)}
    BY <1>6 DEF Refund
  <2> QED BY <2>1, <1>4, <1>9
<1>7. ASSUME NEW s \in slots, Oracle(s) PROVE SlotStep
  BY <1>7, <1>4 DEF Oracle
<1>8. ASSUME NEW s \in slots, NEW d \in Leads, NEW o \in Owners, NEW r \in Owners,
             InitiateUpdate(s, d, o, r)
      PROVE  SlotStep
  BY <1>8, <1>4 DEF InitiateUpdate
<1>10. CASE Next
  <2>1. CASE \E p \in Offers, l, r \in slots : Register(p, l, r) BY <2>1, <1>1
  <2>2. CASE \E p \in Offers, s \in slots : Expire(p, s) BY <2>2, <1>2
  <2>3. CASE \E s \in slots : Extend(s) BY <2>3, <1>3
  <2>4. CASE \E s \in slots, d \in Leads, o, r \in Owners : InitiateUpdate(s, d, o, r)
    BY <2>4, <1>8
  <2>5. CASE \E s \in slots, u \in updates : ExecuteUpdate(s, u) BY <2>5, <1>5
  <2>6. CASE \E s \in slots : Oracle(s) BY <2>6, <1>7
  <2>7. CASE \E p \in Offers : Refund(p) BY <2>7, <1>6
  <2>8. CASE \/ \E new \in States : DelegatedState(new)
             \/ \E p \in Offers : CreatePrecommit(p)
             \/ \E o \in Owners : OwnerSpend(o)
             \/ EndSpend
             \/ \E dt \in BlockTimes : Block(dt)
    BY <2>8, <1>9 DEF DelegatedState, CreatePrecommit, OwnerSpend, EndSpend, Block
  <2> QED BY <1>10, <2>1, <2>2, <2>3, <2>4, <2>5, <2>6, <2>7, <2>8 DEF Next
<1>11. CASE UNCHANGED vars
  BY <1>11, <1>9 DEF vars
<1> QED BY <1>10, <1>11

\* The slot a registration creates is a slot.
LEMMA NewSlotType ==
    ASSUME TypeOK, NEW p \in Offers, NEW l \in slots, NEW r \in slots
    PROVE  NewSlot(p, l, r) \in Slot
<1>1. l.key \in Int /\ r.key \in Int
  BY DEF TypeOK, Slot
<1> QED BY <1>1, PrecommitFacts DEF NewSlot, Slot

\* The slots stay slots.
LEMMA SlotsType == TypeOK /\ [Next]_vars => slots' \subseteq Slot
<1> SUFFICES ASSUME TypeOK, [Next]_vars PROVE slots' \subseteq Slot
  OBVIOUS
<1>0. slots \subseteq Slot
  BY DEF TypeOK
<1>1. ASSUME NEW p \in Offers, NEW l \in slots, NEW r \in slots,
             slots' = Splice(slots, l, r, NewSlot(p, l, r))
      PROVE  slots' \subseteq Slot
  <2>1. NewSlot(p, l, r) \in Slot
    BY NewSlotType
  <2>2. NewSlot(p, l, r).key \in Int
    BY <2>1 DEF Slot
  <2>3. l \in Slot /\ r \in Slot
    BY <1>0
  <2>4. /\ RelinkRight(l, NewSlot(p, l, r).key) \in Slot
        /\ RelinkLeft(r, NewSlot(p, l, r).key) \in Slot
    BY <2>2, <2>3, RelinkedSlot
  <2> QED BY <1>0, <1>1, <2>1, <2>4 DEF Splice
<1> QED BY <1>0, <1>1, SlotSteps DEF SlotStep

\* Every step keeps every variable in its type.
THEOREM XchandlesTypeCorrect == Spec => []TypeOK
<1>1. Init => TypeOK
  <2> SUFFICES ASSUME Init PROVE TypeOK
    OBVIOUS
  <2>1. EndSlot(Lo) \in Slot /\ EndSlot(Hi) \in Slot
    BY KeyAssumption, ParameterAssumption DEF EndSlot, Slot
  <2> QED BY <2>1, ParameterAssumption DEF Init, TypeOK
<1>2. TypeOK /\ [Next]_vars => TypeOK'
  <2> SUFFICES ASSUME TypeOK, [Next]_vars PROVE TypeOK'
    OBVIOUS
  <2>0. slots' \subseteq Slot
    BY SlotsType
  <2>1. ASSUME NEW p \in Offers, NEW l \in slots, NEW r \in slots, Register(p, l, r)
        PROVE  TypeOK'
    BY <2>0, <2>1, PrecommitFacts DEF TypeOK, Register, Approve
  <2>2. ASSUME NEW p \in Offers, NEW s \in slots, Expire(p, s) PROVE TypeOK'
    BY <2>0, <2>2, PrecommitFacts DEF TypeOK, Expire, Approve
  <2>3. ASSUME NEW s \in slots, Extend(s) PROVE TypeOK'
    BY <2>0, <2>3 DEF TypeOK, Extend
  <2>4. ASSUME NEW s \in slots, NEW d \in Leads, NEW o \in Owners, NEW r \in Owners,
               InitiateUpdate(s, d, o, r)
        PROVE  TypeOK'
    <3> DEFINE u == [key |-> s.key,
                     initiator |-> [singleton |-> s.owner, coin |-> coin[s.owner]],
                     minExec |-> height + d + RelHeight,
                     owner |-> o, resolved |-> r, at |-> height]
    <3>1. updates' = updates \cup {u}
      BY <2>4 DEF InitiateUpdate
    <3>2. s.owner \in Owners /\ s.key \in Int
      BY <2>4 DEF InitiateUpdate, TypeOK, Slot
    <3>3. height + d + RelHeight \in Nat /\ height \in Nat
      BY ParameterAssumption DEF TypeOK
    <3>4. coin[s.owner] \in Nat
      BY <3>2 DEF TypeOK
    <3>5. u \in Update
      BY <3>2, <3>3, <3>4 DEF Update
    <3> QED BY <2>0, <2>4, <3>1, <3>2, <3>5 DEF TypeOK, InitiateUpdate, Approve
  <2>5. ASSUME NEW s \in slots, NEW u \in updates, ExecuteUpdate(s, u) PROVE TypeOK'
    <3>1. u.owner \in Owners /\ u.resolved \in Owners
      BY DEF TypeOK, Update
    <3> QED BY <2>0, <2>5, <3>1 DEF TypeOK, ExecuteUpdate, Approve
  <2>6. ASSUME NEW s \in slots, Oracle(s) PROVE TypeOK'
    BY <2>0, <2>6 DEF TypeOK, Oracle
  <2>7. ASSUME NEW p \in Offers, Refund(p) PROVE TypeOK'
    BY <2>0, <2>7 DEF TypeOK, Refund
  <2>8. ASSUME NEW new \in States, DelegatedState(new) PROVE TypeOK'
    BY <2>8 DEF TypeOK, DelegatedState
  <2>9. ASSUME NEW p \in Offers, CreatePrecommit(p) PROVE TypeOK'
    BY <2>9 DEF TypeOK, CreatePrecommit
  <2>10. ASSUME NEW o \in Owners, OwnerSpend(o) PROVE TypeOK'
    BY <2>10 DEF TypeOK, OwnerSpend, Approve
  <2>11. CASE EndSpend
    BY <2>11 DEF TypeOK, EndSpend
  <2>12. ASSUME NEW dt \in BlockTimes, Block(dt) PROVE TypeOK'
    BY <2>12, ParameterAssumption DEF TypeOK, Block
  <2>13. CASE UNCHANGED vars
    BY <2>13 DEF TypeOK, vars
  <2> QED BY <2>1, <2>2, <2>3, <2>4, <2>5, <2>6, <2>7, <2>8, <2>9, <2>10, <2>11,
             <2>12, <2>13 DEF Next
<1> QED BY <1>1, <1>2, PTL DEF Spec

-----------------------------------------------------------------------------
\* Beside the type and the list, the induction carries the delay of every
\* update that is waiting: the initiator chose a height in the future.
UpdatesDelayed == \A u \in updates : u.minExec > u.at + RelHeight

IInv == TypeOK /\ HandleList /\ UpdatesDelayed

\* The registry is launched with the two end slots and no update slot.
LEMMA InitIInv == Init => IInv
<1> SUFFICES ASSUME Init PROVE IInv
  OBVIOUS
<1> USE KeyAssumption, ParameterAssumption
<1>1. TypeOK
  <2>1. EndSlot(Lo) \in Slot /\ EndSlot(Hi) \in Slot
    BY DEF EndSlot, Slot
  <2> QED BY <2>1 DEF Init, TypeOK
<1>2. UpdatesDelayed
  BY DEF Init, UpdatesDelayed
<1>3. HandleList
  <2> DEFINE a == EndSlot(Lo)
             b == EndSlot(Hi)
  <2>1. /\ a.key = Lo /\ a.left = Lo /\ a.right = Hi
        /\ b.key = Hi /\ b.left = Lo /\ b.right = Hi
        /\ slots = {a, b}
    BY DEF EndSlot, Init
  <2> HIDE DEF a, b
  <2>2. OneSlotPerKey(slots)
    BY <2>1 DEF OneSlotPerKey
  <2>3. NothingInGaps(slots)
    BY <2>1 DEF NothingInGaps
  <2>4. Mirrored(slots, Lo, Hi)
    BY <2>1 DEF Mirrored
  <2>5. Ascending(slots, Lo, Hi)
    BY <2>1 DEF Ascending
  <2>6. Bounded(slots, Lo, Hi)
    <3>1. \A s \in slots : Lo <= s.key /\ s.key <= Hi
      BY <2>1
    <3>2. Keys(slots) = {Lo, Hi}
      BY <2>1 DEF Keys
    <3> QED BY <3>1, <3>2 DEF Bounded
  <2> QED BY <2>2, <2>3, <2>4, <2>5, <2>6 DEF HandleList, ListInv
<1> QED BY <1>1, <1>2, <1>3 DEF IInv

\* A registration adds a handle that no slot has: the pair it is shown is
\* enough to exclude it from the whole list.
LEMMA RegisterStep ==
    ASSUME TypeOK, HandleList, NEW p \in Offers, NEW l \in slots, NEW r \in slots,
           CanRegister(p, l, r)
    PROVE  /\ Precommit[p].key \notin Keys(slots)
           /\ ListInv(Splice(slots, l, r, NewSlot(p, l, r)), Lo, Hi)
<1> DEFINE k  == Precommit[p].key
           n  == NewSlot(p, l, r)
           l2 == RelinkRight(l, k)
           r2 == RelinkLeft(r, k)
<1>1. Brackets(l, r, k)
  BY DEF CanRegister
<1>2. Numbered(slots)
  BY DEF TypeOK, Slot, Numbered
<1>3. k \in Int
  BY PrecommitFacts
<1>4. l \in Slot /\ r \in Slot
  BY DEF TypeOK
<1>5. /\ l2.key = l.key /\ l2.left = l.left /\ l2.right = k
      /\ r2.key = r.key /\ r2.left = k /\ r2.right = r.right
  BY <1>3, <1>4, RelinkedSlot
<1>6. n.key = k /\ n.left = l.key /\ n.right = r.key
  BY DEF NewSlot
<1>7. Splice(slots, l, r, n) = (slots \ {l, r}) \cup {n, l2, r2}
  BY <1>6 DEF Splice
<1> HIDE DEF n, l2, r2, k
<1>8. SpliceCase(slots, Lo, Hi, l, r, n, l2, r2)
  BY <1>1, <1>2, <1>3, <1>5, <1>6, KeyAssumption DEF SpliceCase, HandleList
<1>9. /\ n.key \notin Keys(slots)
      /\ ListInv((slots \ {l, r}) \cup {n, l2, r2}, Lo, Hi)
  BY <1>8, SpliceKeepsList
<1> QED BY <1>6, <1>7, <1>9 DEF k, n

\* Every action keeps the handle list.
LEMMA ListStep == TypeOK /\ HandleList /\ [Next]_vars => HandleList'
<1> SUFFICES ASSUME TypeOK, HandleList, [Next]_vars PROVE HandleList'
  OBVIOUS
<1>1. ASSUME NEW p \in Offers, NEW l \in slots, NEW r \in slots, Register(p, l, r),
             slots' = Splice(slots, l, r, NewSlot(p, l, r))
      PROVE  HandleList'
  BY <1>1, RegisterStep DEF HandleList, Register
<1>2. ASSUME NEW s \in slots, NEW t \in Slot, Recreates(t, s),
             slots' = (slots \ {s}) \cup {t}
      PROVE  HandleList'
  <2>1. ListInv((slots \ {s}) \cup {t}, Lo, Hi)
    BY <1>2, ReplaceKeepsList DEF HandleList, Recreates
  <2> QED BY <1>2, <2>1 DEF HandleList
<1>3. CASE slots' = slots
  BY <1>3 DEF HandleList
<1> QED BY <1>1, <1>2, <1>3, SlotSteps DEF SlotStep

\* initiate_update is the only action that creates update slots, and its
\* minimum execution height lies more than RelHeight ahead.
LEMMA DelayStep == TypeOK /\ UpdatesDelayed /\ [Next]_vars => UpdatesDelayed'
<1> SUFFICES ASSUME TypeOK, UpdatesDelayed, [Next]_vars PROVE UpdatesDelayed'
  OBVIOUS
<1>1. ASSUME NEW s \in slots, NEW d \in Leads, NEW o \in Owners, NEW r \in Owners,
             InitiateUpdate(s, d, o, r)
      PROVE  UpdatesDelayed'
  <2> DEFINE u == [key |-> s.key,
                   initiator |-> [singleton |-> s.owner, coin |-> coin[s.owner]],
                   minExec |-> height + d + RelHeight,
                   owner |-> o, resolved |-> r, at |-> height]
  <2>1. updates' = updates \cup {u}
    BY <1>1 DEF InitiateUpdate
  <2>2. u.minExec > u.at + RelHeight
    BY ParameterAssumption DEF TypeOK
  <2> HIDE DEF u
  <2> QED BY <2>1, <2>2 DEF UpdatesDelayed
<1>2. CASE updates' \subseteq updates
  BY <1>2 DEF UpdatesDelayed
<1>3. CASE Next
  <2>1. CASE \E s \in slots, d \in Leads, o, r \in Owners : InitiateUpdate(s, d, o, r)
    BY <2>1, <1>1
  <2>2. CASE \E s \in slots, u \in updates : ExecuteUpdate(s, u)
    BY <2>2, <1>2 DEF ExecuteUpdate
  <2> QED BY <1>2, <1>3, <2>1, <2>2
          DEF Next, Register, Expire, Extend, Oracle, Refund, DelegatedState,
              CreatePrecommit, OwnerSpend, EndSpend, Block
<1>4. CASE UNCHANGED vars
  BY <1>2, <1>4 DEF vars
<1> QED BY <1>3, <1>4

\* The inductive invariant holds in every reachable state.
THEOREM XchandlesInvariant == Spec => []IInv
<1>1. IInv /\ TypeOK' /\ [Next]_vars => IInv'
  BY ListStep, DelayStep DEF IInv
<1> QED BY <1>1, InitIInv, XchandlesTypeCorrect, PTL DEF Spec

\* The unspent handle slots always form one sorted, doubly linked list with
\* one slot per handle.
THEOREM XchandlesList == Spec => []HandleList
<1>1. IInv => HandleList
  BY DEF IInv
<1> QED BY <1>1, XchandlesInvariant, PTL

-----------------------------------------------------------------------------
\* A handle that can be registered now has no slot at all, one that can be
\* taken over now has exactly the lapsed one.
LEMMA UsableMeansFree ==
    ASSUME TypeOK, HandleList, NEW p \in Offers, Usable(p)
    PROVE  ~ \E x \in slots : Registered(p, x)
<1>1. ASSUME NEW l \in slots, NEW r \in slots, CanRegister(p, l, r)
      PROVE  ~ \E x \in slots : Registered(p, x)
  <2>1. Precommit[p].key \notin Keys(slots)
    BY <1>1, RegisterStep
  <2> QED BY <2>1 DEF Keys, Registered
<1>2. ASSUME NEW s \in slots, CanExpire(p, s)
      PROVE  ~ \E x \in slots : Registered(p, x)
  BY <1>2 DEF CanExpire, Registered, HandleList, ListInv, OneSlotPerKey
<1> QED BY <1>1, <1>2 DEF Usable

\* A precommit coin is paid out by register and expire, refunded by refund,
\* and left alone by everything else.
LEMMA OfferSteps ==
    ASSUME TypeOK, [Next]_vars, NEW p \in Offers, offer[p].status = "live",
           offer'[p].status \in {"paid", "refunded"}
    PROVE  \/ offer'[p].status = "paid" /\ Usable(p)
           \/ offer'[p].status = "refunded" /\ CanRefund(p)
<1>0. offer \in [Offers -> [status : {"none", "live", "paid", "refunded"}, height : Nat]]
  BY DEF TypeOK
<1>1. CASE \E q \in Offers, l, r \in slots : Register(q, l, r)
  <2>1. PICK q \in Offers, l \in slots, r \in slots : Register(q, l, r)
    BY <1>1
  <2>2. q = p /\ offer'[p].status = "paid"
    BY <1>0, <2>1 DEF Register
  <2> QED BY <2>1, <2>2 DEF Register, Usable
<1>2. CASE \E q \in Offers, s \in slots : Expire(q, s)
  <2>1. PICK q \in Offers, s \in slots : Expire(q, s)
    BY <1>2
  <2>2. q = p /\ offer'[p].status = "paid"
    BY <1>0, <2>1 DEF Expire
  <2> QED BY <2>1, <2>2 DEF Expire, Usable
<1>3. CASE \E q \in Offers : Refund(q)
  <2>1. PICK q \in Offers : Refund(q)
    BY <1>3
  <2>2. q = p /\ offer'[p].status = "refunded"
    BY <1>0, <2>1 DEF Refund
  <2> QED BY <2>1, <2>2 DEF Refund
<1>4. CASE \E q \in Offers : CreatePrecommit(q)
  BY <1>0, <1>4 DEF CreatePrecommit
<1>5. CASE UNCHANGED offer
  BY <1>5
<1> QED BY <1>1, <1>2, <1>3, <1>4, <1>5
        DEF Next, Extend, InitiateUpdate, ExecuteUpdate, Oracle, DelegatedState,
            OwnerSpend, EndSpend, Block, vars

\* The money of a precommit coin is taken only for a handle nobody holds.
THEOREM XchandlesPaidOnlyForFreeHandle == Spec => PaidOnlyForFreeHandle
<1> DEFINE A == \A p \in Offers :
                   offer[p].status = "live" /\ offer'[p].status = "paid"
                       => ~ \E s \in slots : Registered(p, s)
<1>1. IInv /\ [Next]_vars => [A]_vars
  BY OfferSteps, UsableMeansFree DEF IInv
<1> QED BY <1>1, XchandlesInvariant, PTL DEF Spec, PaidOnlyForFreeHandle

\* Refund never returns a coin that register or expire would accept now.
THEOREM XchandlesRefundOnlyUnusable == Spec => RefundOnlyUnusable
<1> DEFINE A == \A p \in Offers :
                   offer[p].status = "live" /\ offer'[p].status = "refunded" => ~ Usable(p)
<1>1. IInv /\ [Next]_vars => [A]_vars
  <2> SUFFICES ASSUME IInv, [Next]_vars, NEW p \in Offers,
                      offer[p].status = "live", offer'[p].status = "refunded"
               PROVE  ~ Usable(p)
    OBVIOUS
  <2>1. CanRefund(p)
    BY OfferSteps DEF IInv
  <2>2. Usable(p) => LooksValid(p)
    BY DEF Usable, CanRegister, CanExpire, LooksValid
  <2>3. Usable(p) => \E s \in slots : Registered(p, s)
    BY <2>1, <2>2 DEF CanRefund
  <2> QED BY <2>3, UsableMeansFree DEF IInv
<1> QED BY <1>1, XchandlesInvariant, PTL DEF Spec, RefundOnlyUnusable

\* An active handle changes hands only through an update its owner started
\* more than RelHeight blocks before, in the owner coin's previous spend.
THEOREM XchandlesTransfersAreDelayed == Spec => TransfersAreDelayed
<1> DEFINE Old(s, t) == \E u \in updates \ updates' :
                           /\ u.key = s.key
                           /\ u.initiator = [singleton |-> s.owner, coin |-> coin[s.owner] - 1]
                           /\ height > u.at + RelHeight
                           /\ s.owner \in signing'
           A == \A s \in slots, t \in slots' :
                   /\ s.key = t.key
                   /\ Active(s)
                   /\ <<s.owner, s.resolved>> # <<t.owner, t.resolved>>
                   => Old(s, t)
<1>1. IInv /\ [Next]_vars => [A]_vars
  <2> SUFFICES ASSUME IInv, [Next]_vars, NEW s \in slots, NEW t \in slots',
                      s.key = t.key, Active(s),
                      s.owner # t.owner \/ s.resolved # t.resolved
               PROVE  Old(s, t)
    OBVIOUS
  <2>0. OneSlotPerKey(slots) /\ slots \subseteq Slot /\ TypeOK
    BY DEF IInv, HandleList, ListInv, TypeOK
  <2>1. t \notin slots
    BY <2>0 DEF OneSlotPerKey
  <2>2. \A x \in slots : x.key = t.key => x = s
    BY <2>0 DEF OneSlotPerKey
  <2>3. CASE \E p \in Offers, l, r \in slots : Register(p, l, r)
    <3>1. PICK p \in Offers, l \in slots, r \in slots : Register(p, l, r)
      BY <2>3
    <3>2. slots' = Splice(slots, l, r, NewSlot(p, l, r))
      BY <3>1 DEF Register, NewSlot
    <3>3. NewSlot(p, l, r).key \notin Keys(slots) /\ NewSlot(p, l, r).key \in Int
      BY <3>1, <2>0, RegisterStep, PrecommitFacts DEF Register, NewSlot, IInv
    <3>4. t # NewSlot(p, l, r)
      BY <3>3 DEF Keys
    <3>5. t \in {RelinkRight(l, NewSlot(p, l, r).key), RelinkLeft(r, NewSlot(p, l, r).key)}
      BY <2>1, <3>2, <3>4 DEF Splice
    <3> QED BY <3>3, <3>5, <2>0, <2>2, RelinkedSlot
  <2>4. CASE \E p \in Offers, x \in slots : Expire(p, x)
    <3>1. PICK p \in Offers, x \in slots : Expire(p, x)
      BY <2>4
    <3>2. x = s
      <4> DEFINE y == [Touched(x) EXCEPT
                         !.expiration = Precommit[p].buyTime + Precommit[p].time,
                         !.owner = Precommit[p].owner, !.resolved = Precommit[p].resolved]
      <4>1. y.key = x.key
        BY <2>0, TouchedSlot DEF Slot
      <4>2. t = y
        BY <2>1, <3>1 DEF Expire
      <4> QED BY <2>2, <4>1, <4>2
    <3> QED BY <3>1, <3>2 DEF Expire, CanExpire
  <2>5. CASE \E x \in slots : Extend(x)
    <3>1. PICK x \in slots : Extend(x)
      BY <2>5
    <3> DEFINE y == [Touched(x) EXCEPT !.expiration = @ + Period]
    <3>2. t = y
      BY <2>1, <3>1 DEF Extend
    <3>3. y.key = x.key /\ y.owner = x.owner /\ y.resolved = x.resolved
      BY <2>0, TouchedSlot DEF Slot
    <3> QED BY <3>2, <3>3, <2>2
  <2>6. ASSUME NEW x \in slots, slots' = (slots \ {x}) \cup {Touched(x)} PROVE Old(s, t)
    <3>1. t = Touched(x)
      BY <2>1, <2>6
    <3> QED BY <3>1, <2>0, <2>2, TouchedSlot
  <2>7. CASE \E x \in slots, u \in updates : ExecuteUpdate(x, u)
    <3>1. PICK x \in slots, u \in updates : ExecuteUpdate(x, u)
      BY <2>7
    <3> DEFINE y == [Touched(x) EXCEPT !.owner = u.owner, !.resolved = u.resolved]
    <3>2. t = y
      BY <2>1, <3>1 DEF ExecuteUpdate
    <3>3. y.key = x.key
      BY <2>0, TouchedSlot DEF Slot
    <3>4. x = s
      BY <3>2, <3>3, <2>2
    <3>5. u \in updates \ updates' /\ u.key = s.key /\ s.owner \in signing'
      BY <3>1, <3>4 DEF ExecuteUpdate, Approve
    <3>6. u \in Update /\ s.owner \in Owners
      BY <2>0, <3>1, <3>4 DEF TypeOK, ExecuteUpdate
    <3>7. u.initiator = [singleton |-> s.owner, coin |-> coin[s.owner] - 1]
      <4>1. u.initiator \in [singleton : Owners \cup {Nobody}, coin : Nat]
        BY <3>6 DEF Update
      <4>2. u.initiator.singleton = s.owner /\ coin[s.owner] = u.initiator.coin + 1
        BY <3>1, <3>4 DEF ExecuteUpdate
      <4>3. u.initiator.coin = coin[s.owner] - 1
        BY <4>1, <4>2
      <4> QED BY <4>1, <4>2, <4>3
    <3>8. height > u.at + RelHeight
      <4>1. u.minExec \in Nat /\ u.at \in Nat /\ height \in Nat /\ RelHeight \in Nat
        BY <3>6, <2>0, ParameterAssumption DEF Update, TypeOK
      <4>2. height >= u.minExec /\ u.minExec > u.at + RelHeight
        BY <3>1 DEF ExecuteUpdate, IInv, UpdatesDelayed
      <4> QED BY <4>1, <4>2
    <3> QED BY <3>5, <3>7, <3>8
  <2>8. CASE UNCHANGED slots
    BY <2>1, <2>8
  <2>9. \/ UNCHANGED slots
        \/ \E x \in slots : slots' = (slots \ {x}) \cup {Touched(x)}
        \/ \E p \in Offers, l, r \in slots : Register(p, l, r)
        \/ \E p \in Offers, x \in slots : Expire(p, x)
        \/ \E x \in slots : Extend(x)
        \/ \E x \in slots, u \in updates : ExecuteUpdate(x, u)
    BY DEF Next, InitiateUpdate, Oracle, Refund, DelegatedState, CreatePrecommit,
           OwnerSpend, EndSpend, Block, vars
  <2> HIDE DEF Old
  <2> QED BY <2>3, <2>4, <2>5, <2>6, <2>7, <2>8, <2>9
<1> QED BY <1>1, XchandlesInvariant, PTL DEF Spec, TransfersAreDelayed

-----------------------------------------------------------------------------
\* A handle without a slot can be registered: the list has a pair around it.
LEMMA FreeHandleHasPair ==
    ASSUME TypeOK, HandleList, NEW p \in Offers, Precommit[p].key \notin Keys(slots)
    PROVE  \E l, r \in slots : Brackets(l, r, Precommit[p].key)
<1> DEFINE k == Precommit[p].key
<1>1. k \in Handles /\ k \in Int
  BY PrecommitFacts
<1>2. Lo \in Int /\ Hi \in Int /\ Lo < k /\ k < Hi
  BY <1>1, KeyAssumption
<1>3. Numbered(slots) /\ ListInv(slots, Lo, Hi)
  BY DEF TypeOK, Slot, Numbered, HandleList
<1> HIDE DEF k
<1> QED BY <1>1, <1>2, <1>3, GapExists DEF k

\* A matured registration is stranded between register.rue and refund.rue only
\* while the registration of its handle has lapsed.
THEOREM XchandlesStrandedOnlyByExpiry == Spec => []StrandedOnlyByExpiry
<1>1. IInv => StrandedOnlyByExpiry
  <2> SUFFICES ASSUME IInv, NEW p \in Offers, Matured(p),
                      Precommit[p].price # "raises",
                      Precommit[p].pricing = state.pricing,
                      Precommit[p].curExp = 0, Precommit[p].buyTime <= now,
                      ~ Usable(p), ~ CanRefund(p)
               PROVE  \E s \in slots : s.key = Precommit[p].key /\ ~ Active(s)
    BY DEF StrandedOnlyByExpiry
  <2>1. LooksValid(p) /\ \A s \in slots : ~ Registered(p, s)
    BY DEF CanRefund
  <2>2. \A l, r \in slots : ~ Brackets(l, r, Precommit[p].key)
    BY <2>1 DEF LooksValid, Usable, CanRegister
  <2>3. Precommit[p].key \in Keys(slots)
    BY <2>2, FreeHandleHasPair DEF IInv
  <2>4. PICK s \in slots : s.key = Precommit[p].key
    BY <2>3 DEF Keys
  <2> QED BY <2>1, <2>4 DEF Registered
<1> QED BY <1>1, XchandlesInvariant, PTL

-----------------------------------------------------------------------------
\* The refinement: the registry implements the lease contract of HandleLease,
\* for every instance.  A lease is read off the slot of its handle, so the
\* proof follows each action's effect on one slot and shows that no other
\* handle's terms move, the two re-linked neighbours of a registration
\* included.

\* What a slot says of the lease of its handle.
TermsOf(s) == [owner |-> s.owner, resolved |-> s.resolved, until |-> s.expiration]

\* Every slot between the ends is held by owners, never by the zero launcher
\* id of the end slots.
HeldByOwners ==
    \A s \in slots :
        s.key \notin {Lo, Hi} => s.owner \in Owners /\ s.resolved \in Owners

\* What a step does to the slots, as far as the holder of a lease can tell.
LeaseStep ==
    \/ \E p \in Offers, l, r \in slots :
           /\ CanRegister(p, l, r)
           /\ slots' = Splice(slots, l, r, NewSlot(p, l, r))
    \/ \E s \in slots : \E t \in Slot :
           /\ Recreates(t, s)
           /\ slots' = (slots \ {s}) \cup {t}
           /\ \/ TermsOf(t) = TermsOf(s)
              \/ /\ t.owner \in Owners /\ t.resolved \in Owners
                 /\ s.key \notin {Lo, Hi} /\ ~ Active(s)
              \/ /\ TermsOf(t) = [TermsOf(s) EXCEPT !.until = s.expiration + Period]
                 /\ Active(s)
              \/ /\ t.owner \in Owners /\ t.resolved \in Owners
                 /\ t.expiration = s.expiration /\ Active(s)
    \/ slots' = slots

\* The four ways in which a re-created slot can differ from the one it
\* replaces: not at all for its holder (oracle, refund, initiate_update),
\* taken over after its deadline (expire), lengthened (extend), or handed over
\* before its deadline (execute_update).  Time stands still in all of them.
LEMMA LeaseSteps ==
    ASSUME TypeOK, [Next]_vars
    PROVE  \/ LeaseStep /\ now' = now
           \/ slots' = slots /\ now' \in Nat /\ now < now'
<1>0. \A s \in slots :
          /\ s \in Slot /\ Touched(s) \in Slot
          /\ Recreates(Touched(s), s) /\ TermsOf(Touched(s)) = TermsOf(s)
  BY TouchedSlot DEF TypeOK, Recreates, TermsOf
<1>1. ASSUME NEW p \in Offers, NEW l \in slots, NEW r \in slots, Register(p, l, r)
      PROVE  LeaseStep /\ now' = now
  <2>1. slots' = Splice(slots, l, r, NewSlot(p, l, r))
    BY <1>1 DEF Register, NewSlot
  <2> QED BY <1>1, <2>1 DEF Register, LeaseStep
<1>2. ASSUME NEW p \in Offers, NEW s \in slots, Expire(p, s)
      PROVE  LeaseStep /\ now' = now
  <2> DEFINE t == [Touched(s) EXCEPT
                     !.expiration = Precommit[p].buyTime + Precommit[p].time,
                     !.owner = Precommit[p].owner, !.resolved = Precommit[p].resolved]
  <2>1. slots' = (slots \ {s}) \cup {t} /\ now' = now
    BY <1>2 DEF Expire
  <2>2. /\ t \in Slot /\ Recreates(t, s)
        /\ t.owner \in Owners /\ t.resolved \in Owners
    BY <1>0, PrecommitFacts, TouchedSlot DEF Slot, Recreates
  <2>3. s.key \notin {Lo, Hi} /\ ~ Active(s)
    BY <1>2, PrecommitFacts DEF Expire, CanExpire
  <2> HIDE DEF t
  <2> QED BY <2>1, <2>2, <2>3 DEF LeaseStep
<1>3. ASSUME NEW s \in slots, Extend(s) PROVE LeaseStep /\ now' = now
  <2> DEFINE t == [Touched(s) EXCEPT !.expiration = @ + Period]
  <2>1. slots' = (slots \ {s}) \cup {t} /\ now' = now /\ Active(s)
    BY <1>3 DEF Extend
  <2>2. s.expiration + Period \in Nat /\ Touched(s).expiration = s.expiration
    BY <1>0, ParameterAssumption, TouchedSlot DEF Slot
  <2>3. t \in Slot /\ Recreates(t, s)
    BY <1>0, <2>2, TouchedSlot DEF Slot, Recreates
  <2>4. t.owner = s.owner /\ t.resolved = s.resolved /\ t.expiration = s.expiration + Period
    BY <1>0, <2>2, TouchedSlot DEF Slot
  <2>5. TermsOf(t) = [TermsOf(s) EXCEPT !.until = s.expiration + Period]
    BY <2>4 DEF TermsOf
  <2> HIDE DEF t
  <2> QED BY <2>1, <2>3, <2>5 DEF LeaseStep
<1>4. ASSUME NEW s \in slots, slots' = (slots \ {s}) \cup {Touched(s)}, now' = now
      PROVE  LeaseStep /\ now' = now
  BY <1>0, <1>4 DEF LeaseStep
<1>5. ASSUME NEW s \in slots, NEW u \in updates, ExecuteUpdate(s, u)
      PROVE  LeaseStep /\ now' = now
  <2> DEFINE x == Touched(s)
             t == [x EXCEPT !.owner = u.owner, !.resolved = u.resolved]
  <2>1. slots' = (slots \ {s}) \cup {t} /\ now' = now /\ Active(s)
    BY <1>5 DEF ExecuteUpdate
  <2>2. u.owner \in Owners /\ u.resolved \in Owners
    BY DEF TypeOK, Update
  <2>3. /\ x \in Slot /\ x.key = s.key /\ x.left = s.left /\ x.right = s.right
        /\ x.expiration = s.expiration
    BY <1>0, TouchedSlot
  <2> HIDE DEF x
  <2>4. /\ t \in Slot /\ Recreates(t, s) /\ t.expiration = s.expiration
        /\ t.owner \in Owners /\ t.resolved \in Owners
    BY <2>2, <2>3 DEF Slot, Recreates
  <2> HIDE DEF t
  <2> QED BY <2>1, <2>4 DEF LeaseStep
<1>6. CASE UNCHANGED <<slots, now>>
  BY <1>6 DEF LeaseStep
<1>7. ASSUME NEW p \in Offers, Refund(p) PROVE LeaseStep /\ now' = now
  <2>1. /\ now' = now
        /\ slots' = slots \/ \E s \in slots : slots' = (slots \ {s}) \cup {Touched(s)}
    BY <1>7 DEF Refund
  <2> QED BY <2>1, <1>4, <1>6
<1>8. ASSUME NEW s \in slots, Oracle(s) PROVE LeaseStep /\ now' = now
  BY <1>8, <1>4 DEF Oracle
<1>9. ASSUME NEW s \in slots, NEW d \in Leads, NEW o \in Owners, NEW r \in Owners,
             InitiateUpdate(s, d, o, r)
      PROVE  LeaseStep /\ now' = now
  BY <1>9, <1>4 DEF InitiateUpdate
<1>10. ASSUME NEW dt \in BlockTimes, Block(dt)
       PROVE  slots' = slots /\ now' \in Nat /\ now < now'
  BY <1>10, ParameterAssumption DEF Block, TypeOK
<1>11. CASE UNCHANGED vars
  BY <1>11, <1>6 DEF vars
<1>12. CASE Next
  <2>1. CASE \/ \E new \in States : DelegatedState(new)
             \/ \E p \in Offers : CreatePrecommit(p)
             \/ \E o \in Owners : OwnerSpend(o)
             \/ EndSpend
    BY <2>1, <1>6 DEF DelegatedState, CreatePrecommit, OwnerSpend, EndSpend
  <2>2. CASE \/ \E p \in Offers, l, r \in slots : Register(p, l, r)
             \/ \E p \in Offers, s \in slots : Expire(p, s)
             \/ \E s \in slots : Extend(s)
    BY <2>2, <1>1, <1>2, <1>3
  <2>3. CASE \/ \E s \in slots, d \in Leads, o, r \in Owners : InitiateUpdate(s, d, o, r)
             \/ \E s \in slots, u \in updates : ExecuteUpdate(s, u)
    BY <2>3, <1>5, <1>9
  <2>4. CASE \/ \E s \in slots : Oracle(s)
             \/ \E p \in Offers : Refund(p)
    BY <2>4, <1>7, <1>8
  <2>5. CASE \E dt \in BlockTimes : Block(dt)
    BY <2>5, <1>10
  <2> QED BY <1>12, <2>1, <2>2, <2>3, <2>4, <2>5 DEF Next
<1> QED BY <1>11, <1>12

-----------------------------------------------------------------------------
\* Read without CHOOSE: the lease of a handle is what its only slot says.
LeaseFacts ==
    /\ \A s \in slots : s.key \notin {Lo, Hi} =>
           s.key \in DOMAIN LeaseOf /\ LeaseOf[s.key] = TermsOf(s)
    /\ \A k \in DOMAIN LeaseOf :
           k \notin {Lo, Hi} /\ \E s \in slots : s.key = k /\ LeaseOf[k] = TermsOf(s)
    /\ LeaseOf = [k \in DOMAIN LeaseOf |-> LeaseOf[k]]

\* With one slot per handle the refinement mapping is well defined.
LEMMA LeaseOfSlot == OneSlotPerKey(slots) => LeaseFacts
<1> SUFFICES ASSUME OneSlotPerKey(slots) PROVE LeaseFacts
  OBVIOUS
<1>1. \A s \in slots : SlotOf(s.key) = s
  BY DEF OneSlotPerKey, SlotOf
<1>2. DOMAIN LeaseOf = Keys(slots) \ {Lo, Hi}
  BY DEF LeaseOf
<1>3. ASSUME NEW s \in slots, s.key \notin {Lo, Hi}
      PROVE  s.key \in DOMAIN LeaseOf /\ LeaseOf[s.key] = TermsOf(s)
  <2>1. s.key \in Keys(slots) \ {Lo, Hi}
    BY <1>3 DEF Keys
  <2> QED BY <1>1, <1>2, <2>1 DEF LeaseOf, TermsOf
<1>4. ASSUME NEW k \in DOMAIN LeaseOf
      PROVE  k \notin {Lo, Hi} /\ \E s \in slots : s.key = k /\ LeaseOf[k] = TermsOf(s)
  <2>1. k \in Keys(slots) /\ k \notin {Lo, Hi}
    BY <1>2
  <2>2. PICK s \in slots : s.key = k
    BY <2>1 DEF Keys
  <2> QED BY <1>3, <2>1, <2>2
<1>5. LeaseOf = [k \in DOMAIN LeaseOf |-> LeaseOf[k]]
  BY DEF LeaseOf
<1> QED BY <1>3, <1>4, <1>5 DEF LeaseFacts

\* The same in the state after a step.
LEMMA LeaseOfSlotNext == OneSlotPerKey(slots)' => LeaseFacts'
BY LeaseOfSlot, PTL

-----------------------------------------------------------------------------
\* No action puts the zero launcher id, or anything but owners, on a handle.
LEMMA HeldStep == TypeOK /\ HeldByOwners /\ [Next]_vars => HeldByOwners'
<1> SUFFICES ASSUME TypeOK, HeldByOwners, [Next]_vars, NEW x \in slots',
                    x.key \notin {Lo, Hi}
             PROVE  x.owner \in Owners /\ x.resolved \in Owners
  BY DEF HeldByOwners
<1>0. slots \subseteq Slot
  BY DEF TypeOK
<1>1. CASE x \in slots
  BY <1>1 DEF HeldByOwners
<1>2. ASSUME NEW p \in Offers, NEW l \in slots, NEW r \in slots,
             slots' = Splice(slots, l, r, NewSlot(p, l, r))
      PROVE  x.owner \in Owners /\ x.resolved \in Owners
  <2> DEFINE n == NewSlot(p, l, r)
  <2>1. n.owner \in Owners /\ n.resolved \in Owners /\ n.key \in Int
    BY PrecommitFacts DEF NewSlot
  <2> HIDE DEF n
  <2>2. x \in slots \/ x = n \/ x = RelinkRight(l, n.key) \/ x = RelinkLeft(r, n.key)
    BY <1>2 DEF n, Splice
  <2>3. CASE x = RelinkRight(l, n.key)
    BY <1>0, <2>1, <2>3, RelinkedSlot DEF HeldByOwners
  <2>4. CASE x = RelinkLeft(r, n.key)
    BY <1>0, <2>1, <2>4, RelinkedSlot DEF HeldByOwners
  <2> QED BY <1>1, <2>1, <2>2, <2>3, <2>4
<1>3. ASSUME NEW s \in slots, NEW t \in Slot, Recreates(t, s), slots' = (slots \ {s}) \cup {t},
             \/ TermsOf(t) = TermsOf(s)
             \/ TermsOf(t) = [TermsOf(s) EXCEPT !.until = s.expiration + Period]
             \/ t.owner \in Owners /\ t.resolved \in Owners
      PROVE  x.owner \in Owners /\ x.resolved \in Owners
  <2>1. x \in slots \/ x = t
    BY <1>3
  <2>2. CASE x = t /\ t.owner = s.owner /\ t.resolved = s.resolved
    BY <1>3, <2>2 DEF HeldByOwners, Recreates
  <2>3. \/ t.owner = s.owner /\ t.resolved = s.resolved
        \/ t.owner \in Owners /\ t.resolved \in Owners
    BY <1>3 DEF TermsOf
  <2> QED BY <1>1, <2>1, <2>2, <2>3
<1>4. CASE slots' = slots
  BY <1>1, <1>4
<1>5. CASE LeaseStep
  BY <1>2, <1>3, <1>4, <1>5 DEF LeaseStep
<1> QED BY <1>4, <1>5, LeaseSteps

\* A handle is held by owners from its registration on.
LEMMA HeldByOwnersAlways == Spec => []HeldByOwners
<1>1. Init => HeldByOwners
  BY DEF Init, HeldByOwners, EndSlot
<1> QED BY <1>1, HeldStep, XchandlesTypeCorrect, PTL DEF Spec

-----------------------------------------------------------------------------
\* A registration claims a handle nobody leases and moves no other lease.
LEMMA RegisterClaims ==
    ASSUME IInv, LeaseFacts, LeaseFacts', NEW p \in Offers, NEW l \in slots, NEW r \in slots,
           CanRegister(p, l, r), slots' = Splice(slots, l, r, NewSlot(p, l, r)), now' = now
    PROVE  HL!Claim(Precommit[p].key)
<1> DEFINE n == NewSlot(p, l, r)
           h == Precommit[p].key
<1>1. h \notin Keys(slots)
  BY RegisterStep DEF IInv
<1>2. /\ n.key = h /\ h \in Int /\ h \notin {Lo, Hi}
      /\ n.owner \in Owners /\ n.resolved \in Owners /\ n.expiration \in Nat
  BY PrecommitFacts DEF NewSlot
<1>3. l \in Slot /\ r \in Slot /\ slots \subseteq Slot
  BY DEF IInv, TypeOK
<1> HIDE DEF n, h
<1>4. /\ RelinkRight(l, h).key = l.key /\ TermsOf(RelinkRight(l, h)) = TermsOf(l)
      /\ RelinkLeft(r, h).key = r.key /\ TermsOf(RelinkLeft(r, h)) = TermsOf(r)
  BY <1>2, <1>3 DEF RelinkRight, RelinkLeft, Slot, TermsOf
<1>5. slots' = (slots \ {l, r}) \cup {n, RelinkRight(l, h), RelinkLeft(r, h)}
  BY <1>2 DEF Splice, n
<1>6. \A s \in slots : \E t \in slots' : t.key = s.key /\ TermsOf(t) = TermsOf(s)
  BY <1>4, <1>5
<1>7. \A t \in slots' : t = n \/ \E s \in slots : t.key = s.key /\ TermsOf(t) = TermsOf(s)
  BY <1>4, <1>5
<1>8. h \notin DOMAIN LeaseOf
  BY <1>1 DEF LeaseFacts, Keys
<1>9. h \in DOMAIN LeaseOf' /\ LeaseOf'[h] = TermsOf(n)
  BY <1>2, <1>5 DEF LeaseFacts
<1>10. \A k \in DOMAIN LeaseOf : k \in DOMAIN LeaseOf' /\ LeaseOf'[k] = LeaseOf[k]
  <2> SUFFICES ASSUME NEW k \in DOMAIN LeaseOf
               PROVE  k \in DOMAIN LeaseOf' /\ LeaseOf'[k] = LeaseOf[k]
    OBVIOUS
  <2>1. PICK s \in slots : s.key = k /\ LeaseOf[k] = TermsOf(s) /\ k \notin {Lo, Hi}
    BY DEF LeaseFacts
  <2>2. PICK t \in slots' : t.key = s.key /\ TermsOf(t) = TermsOf(s)
    BY <1>6
  <2> QED BY <2>1, <2>2 DEF LeaseFacts
<1>11. \A k \in DOMAIN LeaseOf' : k = h \/ k \in DOMAIN LeaseOf
  <2> SUFFICES ASSUME NEW k \in DOMAIN LeaseOf', k # h PROVE k \in DOMAIN LeaseOf
    OBVIOUS
  <2>1. PICK t \in slots' : t.key = k /\ k \notin {Lo, Hi}
    BY DEF LeaseFacts
  <2>2. PICK s \in slots : t.key = s.key
    BY <1>2, <1>7, <2>1
  <2> QED BY <2>1, <2>2 DEF LeaseFacts
<1>12. TermsOf(n) \in HL!Terms
  BY <1>2 DEF TermsOf, HL!Terms
<1> QED BY <1>8, <1>9, <1>10, <1>11, <1>12 DEF HL!Claim, HL!OthersKeep, h

\* Re-creating one slot moves the terms of its handle and of no other.
LEMMA RecreateMovesOne ==
    ASSUME LeaseFacts, LeaseFacts', NEW s \in slots, NEW t,
           t.key = s.key, slots' = (slots \ {s}) \cup {t}, OneSlotPerKey(slots)
    PROVE  /\ DOMAIN LeaseOf' = DOMAIN LeaseOf
           /\ \A k \in DOMAIN LeaseOf \ {s.key} : LeaseOf'[k] = LeaseOf[k]
           /\ s.key \in DOMAIN LeaseOf <=> s.key \notin {Lo, Hi}
           /\ s.key \notin {Lo, Hi} =>
                  LeaseOf[s.key] = TermsOf(s) /\ LeaseOf'[s.key] = TermsOf(t)
<1>1. \A x \in slots : x.key # s.key => x \in slots'
  OBVIOUS
<1>2. \A x \in slots' : x = t \/ (x \in slots /\ x.key # s.key)
  BY DEF OneSlotPerKey
<1>3. t \in slots'
  OBVIOUS
<1>4. DOMAIN LeaseOf' = DOMAIN LeaseOf
  <2>1. \A k \in DOMAIN LeaseOf : k \in DOMAIN LeaseOf'
    BY <1>1, <1>3 DEF LeaseFacts
  <2>2. \A k \in DOMAIN LeaseOf' : k \in DOMAIN LeaseOf
    BY <1>2 DEF LeaseFacts
  <2> QED BY <2>1, <2>2
<1>5. ASSUME NEW k \in DOMAIN LeaseOf, k # s.key PROVE LeaseOf'[k] = LeaseOf[k]
  <2>1. PICK x \in slots : x.key = k /\ k \notin {Lo, Hi} /\ LeaseOf[k] = TermsOf(x)
    BY DEF LeaseFacts
  <2>2. x \in slots'
    BY <1>1, <1>5, <2>1
  <2> QED BY <2>1, <2>2 DEF LeaseFacts
<1>6. s.key \notin {Lo, Hi} =>
          LeaseOf[s.key] = TermsOf(s) /\ LeaseOf'[s.key] = TermsOf(t)
  BY <1>3 DEF LeaseFacts
<1>7. s.key \in DOMAIN LeaseOf <=> s.key \notin {Lo, Hi}
  BY DEF LeaseFacts
<1> QED BY <1>4, <1>5, <1>6, <1>7

\* Re-creating a slot is a takeover, a renewal, a hand-over, or invisible.
LEMMA RecreateImplements ==
    ASSUME IInv, HeldByOwners, LeaseFacts, LeaseFacts', now' = now,
           NEW s \in slots, NEW t \in Slot, Recreates(t, s),
           slots' = (slots \ {s}) \cup {t},
           \/ TermsOf(t) = TermsOf(s)
           \/ /\ t.owner \in Owners /\ t.resolved \in Owners
              /\ s.key \notin {Lo, Hi} /\ ~ Active(s)
           \/ /\ TermsOf(t) = [TermsOf(s) EXCEPT !.until = s.expiration + Period]
              /\ Active(s)
           \/ /\ t.owner \in Owners /\ t.resolved \in Owners
              /\ t.expiration = s.expiration /\ Active(s)
    PROVE  HL!Next \/ UNCHANGED HL!vars
<1> DEFINE h == s.key
<1>1. /\ DOMAIN LeaseOf' = DOMAIN LeaseOf
      /\ \A k \in DOMAIN LeaseOf \ {h} : LeaseOf'[k] = LeaseOf[k]
      /\ h \in DOMAIN LeaseOf <=> h \notin {Lo, Hi}
      /\ h \notin {Lo, Hi} =>
             LeaseOf[h] = TermsOf(s) /\ LeaseOf'[h] = TermsOf(t)
  BY RecreateMovesOne DEF Recreates, IInv, HandleList, ListInv
<1>2. s \in Slot /\ s.expiration \in Nat /\ t.expiration \in Nat /\ now \in Nat
  BY DEF IInv, TypeOK, Slot
<1>3. LeaseOf' = [k \in DOMAIN LeaseOf' |-> LeaseOf'[k]] /\
      LeaseOf = [k \in DOMAIN LeaseOf |-> LeaseOf[k]]
  BY DEF LeaseFacts
<1>4. CASE h \in {Lo, Hi} \/ TermsOf(t) = TermsOf(s)
  <2>1. \A k \in DOMAIN LeaseOf : LeaseOf'[k] = LeaseOf[k]
    BY <1>1, <1>4
  <2>2. LeaseOf' = LeaseOf
    BY <1>1, <1>3, <2>1
  <2> QED BY <2>2 DEF HL!vars
<1>5. CASE h \notin {Lo, Hi} /\ TermsOf(t) # TermsOf(s)
  <2>1. h \in DOMAIN LeaseOf /\ LeaseOf[h] = TermsOf(s) /\ LeaseOf'[h] = TermsOf(t)
    BY <1>1, <1>5
  <2>2. TermsOf(t) \in HL!Terms => HL!OthersKeep(h)
    BY <1>1, <2>1 DEF HL!OthersKeep
  <2>3. t.owner \in Owners /\ t.resolved \in Owners => TermsOf(t) \in HL!Terms
    BY <1>2 DEF TermsOf, HL!Terms
  <2>4. ASSUME t.owner \in Owners, t.resolved \in Owners, ~ Active(s)
        PROVE  HL!Next
    <3>1. LeaseOf[h].until <= now
      BY <1>2, <2>1, <2>4 DEF TermsOf, Active
    <3> QED BY <2>1, <2>2, <2>3, <2>4, <3>1 DEF HL!Takeover, HL!Next
  <2>5. ASSUME TermsOf(t) = [TermsOf(s) EXCEPT !.until = s.expiration + Period], Active(s)
        PROVE  HL!Next
    <3>1. t.owner = s.owner /\ t.resolved = s.resolved
          /\ t.expiration = s.expiration + Period
      BY <2>5 DEF TermsOf
    <3>2. HL!OthersKeep(h)
      BY <1>5, <2>2, <2>3, <3>1 DEF HeldByOwners
    <3>3. now < LeaseOf[h].until /\ LeaseOf[h].until < LeaseOf'[h].until
      BY <1>2, <2>1, <2>5, <3>1, ParameterAssumption DEF TermsOf, Active
    <3>4. LeaseOf'[h] = [LeaseOf[h] EXCEPT !.until = LeaseOf'[h].until]
      BY <2>1, <3>1 DEF TermsOf
    <3> QED BY <2>1, <3>2, <3>3, <3>4 DEF HL!Renew, HL!Next
  <2>6. ASSUME t.owner \in Owners, t.resolved \in Owners,
               t.expiration = s.expiration, Active(s)
        PROVE  HL!Next
    <3>1. now < LeaseOf[h].until /\ LeaseOf'[h].until = LeaseOf[h].until
      BY <2>1, <2>6 DEF TermsOf, Active
    <3> QED BY <2>1, <2>2, <2>3, <2>6, <3>1 DEF HL!HandOver, HL!Next
  <2> QED BY <1>5, <2>4, <2>5, <2>6
<1> QED BY <1>4, <1>5

\* No lease exists at launch.
LEMMA InitImplements == Init => HL!Init
<1> SUFFICES ASSUME Init PROVE HL!Init
  OBVIOUS
<1>1. Keys(slots) \ {Lo, Hi} = {}
  BY DEF Init, EndSlot, Keys
<1>2. LeaseOf = [k \in {} |-> 0]
  BY <1>1 DEF LeaseOf
<1> QED BY <1>2 DEF Init, HL!Init

\* Every action of the registry is an action of the lease contract on the
\* mapped state, or leaves the mapped state alone.
LEMMA NextImplements ==
    ASSUME IInv, HeldByOwners, LeaseFacts, LeaseFacts', [Next]_vars
    PROVE  [HL!Next]_HL!vars
<1>1. CASE slots' = slots
  <2>1. LeaseOf' = LeaseOf
    BY <1>1 DEF LeaseOf, SlotOf
  <2>2. now' = now \/ (now' \in Nat /\ now < now')
    BY LeaseSteps DEF IInv
  <2> QED BY <2>1, <2>2 DEF HL!Next, HL!Tick, HL!vars
<1>2. CASE LeaseStep /\ now' = now
  <2>1. ASSUME NEW p \in Offers, NEW l \in slots, NEW r \in slots,
               CanRegister(p, l, r), slots' = Splice(slots, l, r, NewSlot(p, l, r))
        PROVE  HL!Next
    BY <1>2, <2>1, RegisterClaims, PrecommitFacts DEF HL!Next
  <2>2. CASE \E s \in slots : \E t \in Slot :
             /\ Recreates(t, s)
             /\ slots' = (slots \ {s}) \cup {t}
             /\ \/ TermsOf(t) = TermsOf(s)
                \/ /\ t.owner \in Owners /\ t.resolved \in Owners
                   /\ s.key \notin {Lo, Hi} /\ ~ Active(s)
                \/ /\ TermsOf(t) = [TermsOf(s) EXCEPT !.until = s.expiration + Period]
                   /\ Active(s)
                \/ /\ t.owner \in Owners /\ t.resolved \in Owners
                   /\ t.expiration = s.expiration /\ Active(s)
    BY <1>2, <2>2, RecreateImplements
  <2> QED BY <1>1, <1>2, <2>1, <2>2 DEF LeaseStep
<1> QED BY <1>1, <1>2, LeaseSteps DEF IInv

\* Every behaviour of the registry is a behaviour of HandleLease.
THEOREM XchandlesImplementsLease == Spec => ImplementsLease
<1>1. IInv => OneSlotPerKey(slots)
  BY DEF IInv, HandleList, ListInv
<1>2. IInv /\ IInv' /\ HeldByOwners /\ [Next]_vars => [HL!Next]_HL!vars
  BY <1>1, NextImplements, LeaseOfSlot, LeaseOfSlotNext DEF IInv, HandleList, ListInv
<1> QED BY <1>2, InitImplements, XchandlesInvariant, HeldByOwnersAlways, PTL
        DEF Spec, ImplementsLease, HL!Spec
=============================================================================
