--------------------------- MODULE CatalogRegistry ---------------------------
(***************************************************************************)
(* The CATalog registry as its on-chain actions define it: register,       *)
(* refund and delegated state (src/rue-puzzles/actions/catalog), precommit *)
(* coins, and the NFT that a registration mints through the uniqueness     *)
(* prelauncher.  One step is one action of one registry spend.  An NFT is  *)
(* identified by the precommit coin that paid for it: each registration    *)
(* launches its own (the launcher id derives from the registry coin).      *)
(***************************************************************************)
EXTENDS SlotList

CONSTANTS
    AssetIds,     \* TAIL hashes that can be registered
    Lo, Hi,       \* the two end slots' values
    Owners,       \* puzzle hashes NFTs are minted to
    States,       \* [maker, price] states the price singleton may install
    InitState,
    Offers,       \* identifiers of precommit coins users may create
    Precommit,    \* Offers -> what that coin commits to, and its amount
    RelHeight,    \* RELATIVE_BLOCK_HEIGHT of precommits
    MaxHeight, MaxCounter   \* bounds

PrecommitSpec == [key : AssetIds, maker : STRING, amount : Nat, owner : Owners]

ASSUME KeyAssumption ==
    /\ Lo \in Int /\ Hi \in Int /\ Lo < Hi
    /\ \A i \in AssetIds : i \in Int /\ Lo < i /\ i < Hi

ASSUME ParameterAssumption ==
    /\ RelHeight \in Nat /\ MaxHeight \in Nat /\ MaxCounter \in Nat
    /\ InitState \in States
    /\ States \subseteq [maker : STRING, price : Nat]
    /\ Precommit \in [Offers -> PrecommitSpec]

VARIABLES
    slots,   \* unspent slots (values)
    nfts,    \* NFTs minted so far
    state,   \* the registry singleton's state
    offer,   \* per precommit coin: its status and confirmation height
    height

vars == <<slots, nfts, state, offer, height>>

Slot == [key : Int, left : Int, right : Int, counter : Nat]

Nft == [key : AssetIds, owner : Owners, offer : Offers]

EndSlot(k) == [key |-> k, left |-> Lo, right |-> Hi, counter |-> 0]

Init ==
    /\ slots = {EndSlot(Lo), EndSlot(Hi)}
    /\ nfts = {}
    /\ state = InitState
    /\ offer = [p \in Offers |-> [status |-> "none", height |-> 0]]
    /\ height = 0

-----------------------------------------------------------------------------
Matured(p) == offer[p].status = "live" /\ height >= offer[p].height + RelHeight

\* The coin commits to the CAT maker of the state and holds its price.
LooksValid(p) ==
    Precommit[p].maker = state.maker /\ Precommit[p].amount = state.price

CanRegister(p, l, r) ==
    /\ Matured(p)
    /\ LooksValid(p)
    /\ Brackets(l, r, Precommit[p].key)

\* Mutant: only the amount decides whether a coin is still valid.
CanRefund_amountOnly(p) ==
    /\ Matured(p)
    /\ Precommit[p].amount # state.price \/ Precommit[p].key \in Keys(slots)

CanRefund(p) ==
    /\ Matured(p)
    /\ LooksValid(p) => Precommit[p].key \in Keys(slots)

-----------------------------------------------------------------------------
Register(p, l, r) ==
    /\ CanRegister(p, l, r)
    /\ l.counter < MaxCounter /\ r.counter < MaxCounter
    /\ LET k == Precommit[p].key
       IN  /\ slots' = Splice(slots, l, r, [key |-> k, left |-> l.key,
                                            right |-> r.key, counter |-> 0])
           /\ nfts' = nfts \cup {[key |-> k, owner |-> Precommit[p].owner,
                                  offer |-> p]}
    /\ offer' = [offer EXCEPT ![p].status = "paid"]
    /\ UNCHANGED <<state, height>>

\* Mutant: the slot that proves the registration is consumed, not re-created.
Refund_losesSlot(p) ==
    /\ CanRefund(p)
    /\ IF LooksValid(p)
       THEN \E s \in slots : s.key = Precommit[p].key /\ slots' = slots \ {s}
       ELSE slots' = slots
    /\ offer' = [offer EXCEPT ![p].status = "refunded"]
    /\ UNCHANGED <<nfts, state, height>>

Refund(p) ==
    /\ CanRefund(p)
    /\ IF LooksValid(p)
       THEN \E s \in slots :
                /\ s.key = Precommit[p].key
                /\ s.counter < MaxCounter
                /\ slots' = (slots \ {s}) \cup {Touched(s)}
       ELSE slots' = slots
    /\ offer' = [offer EXCEPT ![p].status = "refunded"]
    /\ UNCHANGED <<nfts, state, height>>

\* The price singleton (the state scheduler) dictates the next state.
DelegatedState(new) ==
    /\ state' = new
    /\ UNCHANGED <<slots, nfts, offer, height>>

CreatePrecommit(p) ==
    /\ offer[p].status = "none"
    /\ offer' = [offer EXCEPT ![p] = [status |-> "live", height |-> height]]
    /\ UNCHANGED <<slots, nfts, state, height>>

Block ==
    /\ height < MaxHeight
    /\ height' = height + 1
    /\ UNCHANGED <<slots, nfts, state, offer>>

Next ==
    \/ \E p \in Offers, l, r \in slots : Register(p, l, r)
    \/ \E p \in Offers : Refund(p)
    \/ \E new \in States : DelegatedState(new)
    \/ \E p \in Offers : CreatePrecommit(p)
    \/ Block

Spec == Init /\ [][Next]_vars

-----------------------------------------------------------------------------
\* Every variable holds a value of its kind.
TypeOK ==
    /\ slots \subseteq Slot
    /\ nfts \subseteq Nft
    /\ state \in States
    /\ offer \in [Offers -> [status : {"none", "live", "paid", "refunded"}, height : Nat]]
    /\ height \in Nat

\* The unspent slots always form one sorted doubly linked list from Lo to Hi
\* with one slot per asset, and exactly the assets in it have an NFT.
AssetList ==
    /\ ListInv(slots, Lo, Hi)
    /\ Keys(slots) \ {Lo, Hi} = {n.key : n \in nfts}

\* One NFT per asset id for ever, whichever precommits race for it and
\* whatever the state was when they matured.
OneNftPerAsset == \A m, n \in nfts : m.key = n.key => m = n

Usable(p) == \E l, r \in slots : CanRegister(p, l, r)

\* A matured precommit coin is never stuck and never has a choice: register
\* accepts it or refund does, exactly one of the two, at every moment.
RegisterOrRefund ==
    \A p \in Offers : Matured(p) => (Usable(p) <=> ~ CanRefund(p))

UR == INSTANCE UniqueRegistry
        WITH claimed <- {[key |-> n.key, owner |-> n.owner] : n \in nfts}

\* The registry implements the uniqueness contract.
ImplementsUnique == UR!Spec
=============================================================================
