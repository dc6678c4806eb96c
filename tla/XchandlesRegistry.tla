-------------------------- MODULE XchandlesRegistry --------------------------
(***************************************************************************)
(* The XCHandles registry as its on-chain action puzzles define it: every  *)
(* action of src/rue-puzzles/actions/xchandles, the delegated-state        *)
(* action, precommit coins, and the owner singletons whose coins approve   *)
(* changes.                                                                *)
(*                                                                         *)
(* One step is one action of one registry spend.  Several actions may run  *)
(* in one spend bundle; `signing` holds the owner singletons whose current *)
(* coin is spent by the bundle being assembled, so one coin may approve    *)
(* several actions.  EndSpend closes the bundle: those coins are replaced  *)
(* by their children.  Block advances the chain's height and time, which   *)
(* is all that absolute and relative timelocks can see.                    *)
(***************************************************************************)
EXTENDS SlotList, FiniteSets

CONSTANTS
    Handles,      \* handle hashes that can be registered
    Lo, Hi,       \* the two end slots' values
    Owners,       \* launcher ids of the NFT/singletons that own or resolve
    Nobody,       \* the zero launcher id of the end slots
    States,       \* registry states the price singleton may install
    InitState,
    Offers,       \* identifiers of precommit coins users may create
    Precommit,    \* Offers -> what that coin commits to
    Period,       \* registered_time of one extension
    Forever,      \* expiration of the end slots
    RelHeight,    \* RELATIVE_BLOCK_HEIGHT of precommits and of updates
    Leads,        \* how far in the future an initiator sets min_height
    BlockTimes,   \* seconds a block may add to the clock
    MaxTime, MaxExpiration, MaxCoin, MaxCounter, MaxUpdates,  \* bounds
    MaxOracle, MaxOwnSpend   \* counters up to which oracles / own spends happen

PrecommitSpec ==
    [key : Handles, pricedKey : Handles, maker : STRING, pricing : STRING,
     buyTime : Nat, curExp : Nat, time : Nat \ {0},
     owner : Owners, resolved : Owners, price : {"exact", "other", "raises"}]

RegistryState == [maker : STRING, pricing : STRING, expired : STRING]

ASSUME KeyAssumption ==
    /\ Lo \in Int /\ Hi \in Int /\ Lo < Hi
    /\ \A i \in Handles : i \in Int /\ Lo < i /\ i < Hi
    /\ Nobody \notin Owners

ASSUME ParameterAssumption ==
    /\ Period \in Nat \ {0} /\ RelHeight \in Nat /\ Forever \in Nat
    /\ Leads \subseteq Nat \ {0} /\ BlockTimes \subseteq Nat \ {0}
    /\ MaxTime \in Nat /\ MaxExpiration \in Nat /\ MaxCoin \in Nat /\ MaxCounter \in Nat /\ MaxUpdates \in Nat
    /\ MaxOracle \in Nat /\ MaxOwnSpend \in Nat
    /\ InitState \in States /\ States \subseteq RegistryState
    /\ Precommit \in [Offers -> PrecommitSpec]

VARIABLES
    slots,      \* unspent handle slots (values)
    updates,    \* unspent update slots
    state,      \* the registry singleton's state
    offer,      \* per precommit coin: its status and confirmation height
    coin,       \* per owner singleton: how many times it has been spent
    signing,    \* owner singletons spent by the bundle being assembled
    height, now

vars == <<slots, updates, state, offer, coin, signing, height, now>>

Slot == [key : Int, left : Int, right : Int, counter : Nat, expiration : Nat,
         owner : Owners \cup {Nobody}, resolved : Owners \cup {Nobody}]

\* `at` is the height of initiation: a history field no guard reads.
Update == [key : Int, initiator : [singleton : Owners \cup {Nobody}, coin : Nat],
           minExec : Nat, owner : Owners, resolved : Owners, at : Nat]

EndSlot(k) ==
    [key |-> k, left |-> Lo, right |-> Hi, counter |-> 0, expiration |-> Forever,
     owner |-> Nobody, resolved |-> Nobody]

Init ==
    /\ slots = {EndSlot(Lo), EndSlot(Hi)}
    /\ updates = {}
    /\ state = InitState
    /\ offer = [p \in Offers |-> [status |-> "none", height |-> 0]]
    /\ coin = [o \in Owners |-> 0]
    /\ signing = {}
    /\ height = 0
    /\ now = 0

-----------------------------------------------------------------------------
\* What the guards of several actions share.

Active(s) == now < s.expiration

Matured(p) == offer[p].status = "live" /\ height >= offer[p].height + RelHeight

\* The registry reveals the pricing program the coin committed to, and the
\* coin holds the price that program returns for it.
PaysExactly(p) ==
    Precommit[p].price = "exact" /\ Precommit[p].key = Precommit[p].pricedKey

CanRegister(p, l, r) ==
    /\ Matured(p)
    /\ PaysExactly(p)
    /\ Precommit[p].maker = state.maker
    /\ Precommit[p].pricing = state.pricing
    /\ Precommit[p].curExp = 0
    /\ Precommit[p].buyTime <= now
    /\ Brackets(l, r, Precommit[p].key)

\* Mutant: the handle is not required to have expired.
CanExpire_early(p, s) ==
    /\ Matured(p) /\ PaysExactly(p)
    /\ Precommit[p].maker = state.maker
    /\ Precommit[p].pricing = state.expired
    /\ Precommit[p].key = s.key
    /\ Precommit[p].curExp = s.expiration
    /\ Precommit[p].buyTime <= now + 1

CanExpire(p, s) ==
    /\ Matured(p)
    /\ PaysExactly(p)
    /\ Precommit[p].maker = state.maker
    /\ Precommit[p].pricing = state.expired
    /\ Precommit[p].key = s.key
    /\ Precommit[p].curExp = s.expiration
    /\ Precommit[p].buyTime <= now
    /\ ~ Active(s)

\* Mutant: a bid on an expired handle is not recognised as valid.
LooksValid_registrationOnly(p) ==
    /\ PaysExactly(p)
    /\ Precommit[p].maker = state.maker
    /\ Precommit[p].pricing = state.pricing

\* refund.rue's conditions (a), (b) and (c) are all false.
LooksValid(p) ==
    /\ PaysExactly(p)
    /\ Precommit[p].maker = state.maker
    /\ Precommit[p].pricing \in {state.pricing, state.expired}

\* Condition (d): the handle is registered and the registration is active.
Registered(p, s) == s.key = Precommit[p].key /\ Active(s)

CanRefund(p) ==
    /\ Matured(p)
    /\ Precommit[p].price # "raises"
    /\ LooksValid(p) => \E s \in slots : Registered(p, s)

Approve(singletons) == signing' = signing \cup singletons
-----------------------------------------------------------------------------
Register(p, l, r) ==
    /\ CanRegister(p, l, r)
    /\ l.counter < MaxCounter /\ r.counter < MaxCounter
    /\ LET pc  == Precommit[p]
           new == [key |-> pc.key, left |-> l.key, right |-> r.key, counter |-> 0,
                   expiration |-> pc.buyTime + pc.time,
                   owner |-> pc.owner, resolved |-> pc.resolved]
       IN  /\ slots' = Splice(slots, l, r, new)
           /\ Approve({pc.owner, pc.resolved})
    /\ offer' = [offer EXCEPT ![p].status = "paid"]
    /\ UNCHANGED <<updates, state, coin, height, now>>

Expire(p, s) ==
    /\ CanExpire(p, s)
    /\ s.counter < MaxCounter
    /\ LET pc == Precommit[p]
       IN  /\ slots' = (slots \ {s}) \cup
                 {[Touched(s) EXCEPT !.expiration = pc.buyTime + pc.time,
                                     !.owner = pc.owner, !.resolved = pc.resolved]}
           /\ Approve({pc.owner, pc.resolved})
    /\ offer' = [offer EXCEPT ![p].status = "paid"]
    /\ UNCHANGED <<updates, state, coin, height, now>>

\* Mutant: the new term starts now instead of at the old expiration.
Extend_fromNow(s) ==
    /\ Active(s) /\ s.key \in Handles /\ s.counter < MaxCounter
    /\ s.expiration + Period <= MaxExpiration
    /\ slots' = (slots \ {s}) \cup {[Touched(s) EXCEPT !.expiration = now + Period]}
    /\ UNCHANGED <<updates, state, offer, coin, signing, height, now>>

\* Anyone may pay for an extension; the offer's payment is asserted, not
\* precommitted.  The end slots cannot be extended: no handle hashes to them.
Extend(s) ==
    /\ Active(s)
    /\ s.key \in Handles
    /\ s.expiration + Period <= MaxExpiration
    /\ s.counter < MaxCounter
    /\ slots' = (slots \ {s}) \cup {[Touched(s) EXCEPT !.expiration = @ + Period]}
    /\ UNCHANGED <<updates, state, offer, coin, signing, height, now>>

InitiateUpdate(s, lead, newOwner, newResolved) ==
    /\ Active(s)
    /\ s.owner \in Owners
    /\ s.counter < MaxCounter
    /\ Cardinality(updates) < MaxUpdates
    /\ slots' = (slots \ {s}) \cup {Touched(s)}
    /\ updates' = updates \cup
          {[key |-> s.key, initiator |-> [singleton |-> s.owner, coin |-> coin[s.owner]],
            minExec |-> height + lead + RelHeight,
            owner |-> newOwner, resolved |-> newResolved, at |-> height]}
    /\ Approve({s.owner})
    /\ UNCHANGED <<state, offer, coin, height, now>>

\* Mutant: any later coin of the owner may execute the update.
ExecuteUpdate_anyCoin(s, u) ==
    /\ Active(s) /\ u.key = s.key /\ height >= u.minExec
    /\ s.owner \in Owners
    /\ s.counter < MaxCounter
    /\ slots' = (slots \ {s}) \cup
          {[Touched(s) EXCEPT !.owner = u.owner, !.resolved = u.resolved]}
    /\ updates' = updates \ {u}
    /\ Approve({s.owner, u.owner, u.resolved})
    /\ UNCHANGED <<state, offer, coin, height, now>>

\* The update slot must name the parent of the owner's current coin.
ExecuteUpdate(s, u) ==
    /\ Active(s)
    /\ u.key = s.key
    /\ height >= u.minExec
    /\ s.owner \in Owners
    /\ u.initiator.singleton = s.owner
    /\ coin[s.owner] = u.initiator.coin + 1
    /\ s.counter < MaxCounter
    /\ slots' = (slots \ {s}) \cup
          {[Touched(s) EXCEPT !.owner = u.owner, !.resolved = u.resolved]}
    /\ updates' = updates \ {u}
    /\ Approve({s.owner, u.owner, u.resolved})
    /\ UNCHANGED <<state, offer, coin, height, now>>

Oracle(s) ==
    /\ s.counter < MaxOracle
    /\ slots' = (slots \ {s}) \cup {Touched(s)}
    /\ UNCHANGED <<updates, state, offer, coin, signing, height, now>>

Refund(p) ==
    /\ CanRefund(p)
    /\ IF LooksValid(p)
       THEN \E s \in slots :
                /\ Registered(p, s)
                /\ s.counter < MaxCounter
                /\ slots' = (slots \ {s}) \cup {Touched(s)}
       ELSE slots' = slots
    /\ offer' = [offer EXCEPT ![p].status = "refunded"]
    /\ UNCHANGED <<updates, state, coin, signing, height, now>>

\* The price singleton (the state scheduler) dictates the next state.
DelegatedState(new) ==
    /\ state' = new
    /\ UNCHANGED <<slots, updates, offer, coin, signing, height, now>>

-----------------------------------------------------------------------------
\* Anyone may create a precommit coin.
CreatePrecommit(p) ==
    /\ offer[p].status = "none"
    /\ offer' = [offer EXCEPT ![p] = [status |-> "live", height |-> height]]
    /\ UNCHANGED <<slots, updates, state, coin, signing, height, now>>

\* An owner spends the singleton for reasons of its own.
OwnerSpend(o) ==
    /\ coin[o] < MaxOwnSpend
    /\ Approve({o})
    /\ UNCHANGED <<slots, updates, state, offer, coin, height, now>>

EndSpend ==
    /\ signing # {}
    /\ \A o \in signing : coin[o] < MaxCoin
    /\ coin' = [o \in Owners |-> IF o \in signing THEN coin[o] + 1 ELSE coin[o]]
    /\ signing' = {}
    /\ UNCHANGED <<slots, updates, state, offer, height, now>>

Block(dt) ==
    /\ signing = {}
    /\ now + dt <= MaxTime
    /\ height' = height + 1
    /\ now' = now + dt
    /\ UNCHANGED <<slots, updates, state, offer, coin, signing>>

Next ==
    \/ \E p \in Offers, l, r \in slots : Register(p, l, r)
    \/ \E p \in Offers, s \in slots : Expire(p, s)
    \/ \E s \in slots : Extend(s)
    \/ \E s \in slots, lead \in Leads, o, r \in Owners : InitiateUpdate(s, lead, o, r)
    \/ \E s \in slots, u \in updates : ExecuteUpdate(s, u)
    \/ \E s \in slots : Oracle(s)
    \/ \E p \in Offers : Refund(p)
    \/ \E new \in States : DelegatedState(new)
    \/ \E p \in Offers : CreatePrecommit(p)
    \/ \E o \in Owners : OwnerSpend(o)
    \/ EndSpend
    \/ \E dt \in BlockTimes : Block(dt)

Spec == Init /\ [][Next]_vars

-----------------------------------------------------------------------------
\* Every variable holds a value of its kind.
TypeOK ==
    /\ slots \subseteq Slot
    /\ updates \subseteq Update
    /\ state \in States
    /\ offer \in [Offers -> [status : {"none", "live", "paid", "refunded"}, height : Nat]]
    /\ coin \in [Owners -> Nat]
    /\ signing \subseteq Owners
    /\ height \in Nat /\ now \in Nat

\* Whatever order actions run in, the unspent handle slots form one sorted
\* doubly linked list from Lo to Hi with one slot per handle: register.rue
\* checks only the two slots it is shown, never the whole list.
HandleList == ListInv(slots, Lo, Hi)

Usable(p) ==
    \/ \E l, r \in slots : CanRegister(p, l, r)
    \/ \E s \in slots : CanExpire(p, s)

\* A precommit coin is a commitment: refund.rue gives the money back only at
\* a moment when neither register.rue nor expire.rue would accept the coin.
RefundOnlyUnusable ==
    [][\A p \in Offers :
          offer[p].status = "live" /\ offer'[p].status = "refunded" => ~ Usable(p)]_vars

\* The money of a precommit coin is taken only for a handle nobody actively
\* holds, although no register.rue guard looks for the handle itself.
PaidOnlyForFreeHandle ==
    [][\A p \in Offers :
          offer[p].status = "live" /\ offer'[p].status = "paid"
              => ~ \E s \in slots : Registered(p, s)]_vars

\* The owner or the target of an active handle changes only through an update
\* that its owner initiated more than RelHeight blocks earlier, in the owner
\* singleton's previous spend, and that the owner's coin approves again now.
TransfersAreDelayed ==
    [][\A s \in slots, t \in slots' :
          /\ s.key = t.key
          /\ Active(s)
          /\ <<s.owner, s.resolved>> # <<t.owner, t.resolved>>
          => \E u \in updates \ updates' :
                /\ u.key = s.key
                /\ u.initiator = [singleton |-> s.owner, coin |-> coin[s.owner] - 1]
                /\ height > u.at + RelHeight
                /\ s.owner \in signing']_vars

\* A matured coin that was a proper registration when it was made is always
\* either accepted by register.rue or given back by refund.rue, except while
\* its handle's registration has lapsed: then it waits for the next holder.
\* Rests on the list being complete: a free handle always has a pair of
\* adjacent slots around it.
StrandedOnlyByExpiry ==
    \A p \in Offers :
        /\ Matured(p)
        /\ Precommit[p].price # "raises"
        /\ Precommit[p].pricing = state.pricing
        /\ Precommit[p].curExp = 0
        /\ Precommit[p].buyTime <= now
        /\ ~ Usable(p)
        /\ ~ CanRefund(p)
        => \E s \in slots : s.key = Precommit[p].key /\ ~ Active(s)

\* The registry implements the lease contract.
SlotOf(k) == CHOOSE s \in slots : s.key = k

LeaseOf ==
    [k \in Keys(slots) \ {Lo, Hi} |->
        [owner |-> SlotOf(k).owner, resolved |-> SlotOf(k).resolved,
         until |-> SlotOf(k).expiration]]

HL == INSTANCE HandleLease WITH lease <- LeaseOf

\* Each action of the registry is a claim, a takeover, a renewal, a hand-over
\* or invisible to the holder of a lease.
ImplementsLease == HL!Spec
=============================================================================
