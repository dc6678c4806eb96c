-------------------------- MODULE RegistrationClient --------------------------
(***************************************************************************)
(* The registration commands as their users run them: register and expire  *)
(* of XCHandles and register of CATalog, each run twice or more (pay a     *)
(* precommit coin, wait until it matures, spend it or take it back), and   *)
(* the extend, initiate-update and execute-update commands.  A run reads   *)
(* the registry first, may wait many blocks, and only then pushes its      *)
(* spend; meanwhile prices change, rivals want the same name, the registry *)
(* is spent by others, and a run may be stopped anywhere.                  *)
(*                                                                         *)
(* A second run finds the coin of the first one only by computing the same *)
(* puzzle hash and amount from its arguments, so what a run recomputes     *)
(* from the chain decides whether the money can be found again.            *)
(*                                                                         *)
(* One name is contested.  What the action puzzles accept is modelled in   *)
(* XchandlesRegistry and CatalogRegistry; here it is the condition of a    *)
(* push, which is included at once or refused.  A unit of time is 18       *)
(* seconds, what a block is expected to take.                              *)
(***************************************************************************)
EXTENDS Integers, FiniteSets, FiniteSetsExt

CONSTANTS
    Clients,      \* people with a wallet; each has two NFTs, <<c, 1>> and <<c, 2>>
    Workloads,    \* [kind, price (given to the commands), named (is --payment-cat-amount given?),
                  \* lease (expiration of the name at the start, 0 if it is free), owner (its NFT),
                  \* asks (clients that want the name), pace (units of time a block may take),
                  \* and the bounds blocks, moves, reprices, payments]
    Prices,       \* what a state of the registry asks for: payment asset and price
    Period,       \* length of a lease
    RelHeight,    \* relative_block_height
    Slack,        \* blocks CATalog's command waits beyond it (7)
    Lead          \* blocks the initiate-update command allows itself (8)

Kinds == {"register", "expire", "catalog"}
Nfts == Clients \X {1, 2}
Forever == 99     \* a CATalog entry does not lapse

ASSUME ClientAssumption ==
    /\ {RelHeight, Slack, Lead} \subseteq Nat /\ Period \in Nat \ {0}
    /\ \A w \in Workloads :
          /\ w.kind \in Kinds /\ w.price \in Prices /\ w.owner \in Nfts
          /\ w.asks \subseteq Clients /\ w.pace \subseteq Nat
          /\ {w.lease, w.blocks, w.moves, w.reprices, w.payments} \subseteq Nat

VARIABLES
    work,     \* the workload
    chain,    \* [n (coin of the registry), price, lease ([owner, exp], exp 0 if the name is free),
              \* now, height, coins (unspent precommit coins), sent (payments not yet in a block),
              \* nft (number of the latest coin of each NFT), updates (unspent update slots)]
    cmd,      \* the run of each client
    paid,     \* payments of each client
    moves, reprices,   \* how often others acted
    unaware,  \* history variable: clients whose run was stopped while its payment was not in a block
    repriced  \* history variable: clients that were about to pay or had paid when the price changed

vars == <<work, chain, cmd, paid, moves, reprices, unaware, repriced>>
world == <<work, moves, reprices, unaware, repriced>>

Idle == [pc |-> "idle"]
kind == work.kind
Active(lease) == chain.now < lease.exp

-----------------------------------------------------------------------------
\* What a run computes.

\* The registry as synced at the start of a run.
Synced == [n |-> chain.n, price |-> chain.price]

\* The payments a client still has out: it repeats their arguments.
Outstanding(c) == {x \in chain.coins \cup chain.sent : x.who = c}

\* --start-time or --expire-time: 18 seconds per block ahead, then given.
BuyTime(c) ==
    IF kind = "catalog" THEN 0
    ELSE IF Outstanding(c) = {} THEN chain.now + RelHeight
    ELSE (CHOOSE x \in Outstanding(c) : TRUE).buy

\* --committed-expiration: that of the slot, then given.
CommittedExpiration(c) ==
    IF kind # "expire" THEN 0
    ELSE IF Outstanding(c) = {} THEN chain.lease.exp
    ELSE (CHOOSE x \in Outstanding(c) : TRUE).cexp

\* The price of a lapsed name falls with the time since it lapsed.
ExpiredPrice(p, exp, buy) == <<p, buy - exp>>

Any == <<"any", 0>>

\* Mutant: register pays what the registry asks for now.
Amount_current(c, refund) ==
    CASE kind = "expire" -> IF refund /\ chain.lease.exp > BuyTime(c) THEN Any
                            ELSE ExpiredPrice(work.price, chain.lease.exp, BuyTime(c))
      [] OTHER -> <<chain.price, 0>>

\* Mutant: a refund of expire computes the amount, too.
Amount_exact(c, refund) ==
    CASE kind = "register" -> <<work.price, 0>>
      [] kind = "catalog" -> <<IF work.named THEN work.price ELSE chain.price, 0>>
      [] OTHER -> ExpiredPrice(work.price, chain.lease.exp, BuyTime(c))

\* The amount a run looks for or pays: XCHandles' register takes the price of
\* its arguments; CATalog's the registry's price unless one is given; expire
\* computes it from the slot as it is now, and takes a coin of any amount for
\* a refund once the slot does not lapse before the time committed to.
Amount(c, refund) ==
    CASE kind = "register" -> <<work.price, 0>>
      [] kind = "catalog" -> <<IF work.named THEN work.price ELSE chain.price, 0>>
      [] OTHER -> IF refund /\ chain.lease.exp > BuyTime(c) THEN Any
                  ELSE ExpiredPrice(work.price, chain.lease.exp, BuyTime(c))

\* The slot exists, and the pricing program does not fail.
Computable(c, refund) ==
    kind = "expire" =>
        /\ chain.lease.exp > 0
        /\ Amount(c, refund) = Any \/ chain.lease.exp <= BuyTime(c)

\* Confirmed coins of that puzzle hash and amount.
precommit_coins(c, refund) ==
    {x \in chain.coins :
        /\ x.who = c /\ x.buy = BuyTime(c) /\ x.cexp = CommittedExpiration(c)
        /\ Amount(c, refund) \in {Any, x.amount}}

\* The wait is longer than the puzzle's.
target_block_height(x) == x.born + RelHeight + (IF kind = "catalog" THEN Slack ELSE RelHeight \div 4)

\* The newest coins of NFTs, all of one wallet.
fetch_nft_from_wallet(nfts) == {<<t, chain.nft[t]>> : t \in nfts}

\* Mutant: any update slot of the name.
find_xchandles_update_slot_any(t) == chain.updates

\* The unspent update slot of the name whose initiator is the parent of the
\* owner NFT's coin.
find_xchandles_update_slot(t) == {u \in chain.updates : u.initiator = <<t, chain.nft[t] - 1>>}

-----------------------------------------------------------------------------
\* What the action puzzles accept.

Matured(x) == chain.height >= x.born + RelHeight

\* The amount is the price of what the coin commits to.
Consistent(x) == x.amount = (IF kind = "expire" THEN ExpiredPrice(x.price, x.cexp, x.buy) ELSE <<x.price, 0>>)

LooksValid(x) == x.price = chain.price /\ Consistent(x)

Registers(x) == Matured(x) /\ LooksValid(x) /\ x.buy <= chain.now /\ chain.lease.exp = 0

Expires(x) ==
    /\ Matured(x) /\ LooksValid(x) /\ x.buy <= chain.now
    /\ x.cexp = chain.lease.exp /\ ~ Active(chain.lease)

\* A refund that names the slot of the name spends it, and only a coin that
\* looks valid needs it.
Refunds(x, slot) ==
    /\ Matured(x) /\ slot = LooksValid(x)
    /\ slot => chain.lease.exp > 0 /\ Active(chain.lease)

\* Does a run that read the registry as s name the slot?
RefundSlot(s, x) == s.price = IF kind = "catalog" THEN x.amount[1] ELSE work.price

\* A bundle is refused when the registry or an NFT it spends is spent already,
\* or by the puzzle of its action.
Accepts(r) ==
    /\ r.seen.n = chain.n
    /\ r.nfts \subseteq fetch_nft_from_wallet(Nfts)
    /\ CASE r.what = "register" -> r.x \in chain.coins /\ (IF kind = "expire" THEN Expires(r.x) ELSE Registers(r.x))
         [] r.what = "refund"   -> r.x \in chain.coins /\ Refunds(r.x, RefundSlot(r.seen, r.x))
         [] r.what = "extend"   -> Active(chain.lease) /\ r.x.buy <= chain.now
         [] r.what = "initiate" -> Active(chain.lease) /\ chain.height < r.x.min - RelHeight
         [] r.what = "execute"  -> /\ Active(chain.lease) /\ chain.height >= r.x.min
                                   /\ r.x \in chain.updates
                                   /\ r.x.initiator = <<chain.lease.owner, chain.nft[chain.lease.owner] - 1>>
                                   /\ r.new = r.x.owner

-----------------------------------------------------------------------------
Init ==
    /\ work \in Workloads
    /\ chain = [n |-> 0, price |-> work.price, lease |-> [owner |-> work.owner, exp |-> work.lease],
                now |-> 1, height |-> 1, coins |-> {}, sent |-> {}, nft |-> [t \in Nfts |-> 1], updates |-> {}]
    /\ cmd = [c \in Clients |-> Idle] /\ paid = [c \in Clients |-> 0]
    /\ moves = 0 /\ reprices = 0 /\ unaware = {} /\ repriced = {}

Begin(c, r) == cmd[c] = Idle /\ cmd' = [cmd EXCEPT ![c] = r] /\ UNCHANGED <<chain, paid>>

\* A run that will push `what` made from x once the chain is at height h.
Wait(c, what, x, h, nfts) ==
    Begin(c, [pc |-> "wait", what |-> what, x |-> x, until |-> h, seen |-> Synced, nfts |-> nfts])

Precommit(c) ==
    [who |-> c, price |-> IF kind = "catalog" THEN Amount(c, FALSE)[1] ELSE work.price, buy |-> BuyTime(c),
     cexp |-> CommittedExpiration(c), amount |-> Amount(c, FALSE), born |-> 0, id |-> paid[c] + 1]

\* The three commands that precommit: sync, then look for the coin.  If there
\* is none, a refund fails and a registration offers to pay.
Run(c, refund) ==
    /\ c \in work.asks
    /\ Computable(c, refund)
    /\ \/ \E x \in precommit_coins(c, refund) :
             Wait(c, IF refund THEN "refund" ELSE "register", x, target_block_height(x), {})
       \/ /\ precommit_coins(c, refund) = {} /\ ~ refund /\ paid[c] < work.payments
          /\ Begin(c, [pc |-> "pay", coin |-> Precommit(c)])
    /\ UNCHANGED world

xchandles_register(c, refund) == kind = "register" /\ Run(c, refund)

xchandles_expire(c, refund) == kind = "expire" /\ Run(c, refund)

catalog_register(c, refund) == kind = "catalog" /\ Run(c, refund)

\* The user agrees and the wallet sends the payment.
send_cat(c) ==
    /\ cmd[c].pc = "pay"
    /\ paid' = [paid EXCEPT ![c] = @ + 1]
    /\ chain' = [chain EXCEPT !.sent = @ \cup {cmd[c].coin}]
    /\ cmd' = [cmd EXCEPT ![c] = [pc |-> "sent", coin |-> cmd[c].coin]]
    /\ UNCHANGED world

wait_for_coin(c) ==
    /\ cmd[c].pc = "sent" /\ cmd[c].coin \notin chain.sent
    /\ cmd' = [cmd EXCEPT ![c] = Idle]
    /\ UNCHANGED <<chain, paid, world>>

\* The height is reached.  A registration looks up its NFT now; the registry
\* is not synced again.
Matures(c) ==
    /\ cmd[c].pc = "wait" /\ chain.height >= cmd[c].until
    /\ cmd' = [cmd EXCEPT ![c].pc = "push",
                          ![c].nfts = IF cmd[c].what = "register" /\ kind # "catalog"
                                      THEN fetch_nft_from_wallet({<<c, 1>>}) ELSE @]
    /\ UNCHANGED <<chain, paid, world>>

\* Anyone may extend; the arguments must match the registry.
xchandles_extend(c) ==
    /\ kind # "catalog" /\ moves < work.moves
    /\ chain.price = work.price /\ chain.lease.exp > 0
    /\ Wait(c, "extend", [buy |-> chain.now - 1], chain.height, {})
    /\ moves' = moves + 1
    /\ UNCHANGED <<work, reprices, unaware, repriced>>

\* The owner's wallet; the update names the owner NFT's coin and the height
\* from which it can be executed.
xchandles_initiate_update(c, new) ==
    /\ kind # "catalog" /\ moves < work.moves
    /\ chain.lease.exp > 0
    /\ LET t == chain.lease.owner
       IN  /\ t[1] = c
           /\ Wait(c, "initiate", [initiator |-> <<t, chain.nft[t]>>, min |-> chain.height + Lead + RelHeight,
                                   owner |-> new], chain.height, fetch_nft_from_wallet({t}))
    /\ moves' = moves + 1
    /\ UNCHANGED <<work, reprices, unaware, repriced>>

\* Both NFTs are looked up before the wait.
xchandles_execute_update(c, new) ==
    /\ kind # "catalog" /\ chain.lease.exp > 0
    /\ LET t == chain.lease.owner
       IN  /\ t[1] = c /\ new[1] = c
           /\ \E u \in find_xchandles_update_slot(t) :
                 Begin(c, [pc |-> "wait", what |-> "execute", x |-> u, until |-> u.min, seen |-> Synced,
                           nfts |-> fetch_nft_from_wallet({t, new}), new |-> new])
    /\ UNCHANGED world

\* The NFTs approve and are recreated.
recreate_nft_in_wallet(nfts) ==
    [t \in Nfts |-> IF t \in {p[1] : p \in nfts} THEN chain.nft[t] + 1 ELSE chain.nft[t]]

\* The name after an accepted bundle of client c.
NewLease(c, r) ==
    CASE r.what = "register" -> [owner |-> <<c, 1>>, exp |-> IF kind = "catalog" THEN Forever ELSE r.x.buy + Period]
      [] r.what = "extend"   -> [chain.lease EXCEPT !.exp = @ + Period]
      [] r.what = "execute"  -> [chain.lease EXCEPT !.owner = r.new]
      [] OTHER -> chain.lease

\* The spend is built from what the run read, and pushed.
Push(c) ==
    /\ cmd[c].pc = "push"
    /\ LET r == cmd[c]
       IN  \/ /\ Accepts(r)
              /\ chain' = [chain EXCEPT !.n = @ + 1, !.coins = @ \ {r.x}, !.lease = NewLease(c, r),
                             !.nft = recreate_nft_in_wallet(r.nfts),
                             !.updates = (@ \ {r.x}) \cup (IF r.what = "initiate" THEN {r.x} ELSE {})]
           \/ ~ Accepts(r) /\ UNCHANGED chain
    /\ cmd' = [cmd EXCEPT ![c] = Idle]
    /\ UNCHANGED <<paid, world>>

-----------------------------------------------------------------------------
\* The user declines, or the run is stopped.
Stop(c) ==
    /\ cmd[c] # Idle
    /\ cmd' = [cmd EXCEPT ![c] = Idle]
    /\ unaware' = IF cmd[c].pc = "sent" /\ cmd[c].coin \in chain.sent THEN unaware \cup {c} ELSE unaware
    /\ UNCHANGED <<work, chain, paid, moves, reprices, repriced>>

Confirm(x) ==
    /\ chain' = [chain EXCEPT !.sent = @ \ {x}, !.coins = @ \cup {[x EXCEPT !.born = chain.height]}]
    /\ UNCHANGED <<cmd, paid, world>>

Tick(dt) ==
    /\ chain.height < work.blocks
    /\ chain' = [chain EXCEPT !.now = @ + dt, !.height = @ + 1]
    /\ UNCHANGED <<cmd, paid, world>>

PriceChange(p) ==
    /\ reprices < work.reprices /\ p # chain.price
    /\ chain' = [chain EXCEPT !.n = @ + 1, !.price = p]
    /\ reprices' = reprices + 1
    /\ repriced' = repriced \cup {c \in Clients : cmd[c].pc = "pay" \/ Outstanding(c) # {}}
    /\ UNCHANGED <<work, cmd, paid, moves, unaware>>

\* Somebody registers another name, or an owner uses an NFT elsewhere.
Others ==
    /\ moves < work.moves
    /\ \/ chain' = [chain EXCEPT !.n = @ + 1]
       \/ \E t \in Nfts : chain' = [chain EXCEPT !.nft[t] = @ + 1]
    /\ moves' = moves + 1
    /\ UNCHANGED <<work, cmd, paid, reprices, unaware, repriced>>

Next ==
    \/ \E c \in Clients :
          \/ \E refund \in BOOLEAN :
                xchandles_register(c, refund) \/ xchandles_expire(c, refund) \/ catalog_register(c, refund)
          \/ \E new \in Nfts : xchandles_initiate_update(c, new) \/ xchandles_execute_update(c, new)
          \/ xchandles_extend(c) \/ send_cat(c) \/ wait_for_coin(c) \/ Matures(c) \/ Push(c) \/ Stop(c)
    \/ \E x \in chain.sent : Confirm(x)
    \/ \E dt \in work.pace : Tick(dt)
    \/ \E p \in Prices : PriceChange(p)
    \/ Others

Spec == Init /\ [][Next]_vars

-----------------------------------------------------------------------------
\* A client never has two payments out for one name (catalog/register.rs:182,
\* xchandles/register.rs:320, expire.rs:199: a run pays only if it does not
\* find the coin of the run before).  Excepted: a run stopped before its
\* payment was in a block and repeated; CATalog's command without an amount
\* after a price change; and a take-over so late that the new lease had
\* lapsed by the time committed to.
OneOutstanding ==
    \A c \in Clients :
        Cardinality(Outstanding(c)) > 1 =>
            \/ c \in unaware
            \/ kind = "catalog" /\ ~ work.named /\ c \in repriced
            \/ kind = "expire" /\ \E x \in Outstanding(c) : ~ Consistent(x)

\* The name lapsed again: neither registration nor refund takes the coin
\* until somebody else takes the name (XchandlesRegistry!StrandedOnlyByExpiry).
Stranded(x) ==
    LooksValid(x) /\ chain.lease.exp > 0 /\ ~ Active(chain.lease) /\ ~ Expires(x)

\* Money is never out of reach: a coin that has matured can be turned into the
\* name or taken back by its owner, with the arguments the first run printed
\* and nothing else, whatever rivals, prices and the name did meanwhile.
\* Excepted are stranded coins, CATalog's command without an amount while the
\* price is another, and expire after a take-over as in OneOutstanding.
Recoverable ==
    \A x \in chain.coins :
        \/ ~ Matured(x) \/ x.buy > chain.now
        \/ Stranded(x)
        \/ kind = "catalog" /\ ~ work.named /\ x.price # chain.price
        \/ kind = "expire" /\ (~ Consistent(x) \/ (x.cexp < chain.lease.exp /\ chain.lease.exp <= x.buy))
        \/ \E refund \in BOOLEAN :
              /\ Computable(x.who, refund) /\ x \in precommit_coins(x.who, refund)
              /\ IF refund THEN Refunds(x, RefundSlot(Synced, x))
                 ELSE IF kind = "expire" THEN Expires(x) ELSE Registers(x)

\* What a run waited for has come: when a run pushes and neither the registry
\* nor an NFT was spent since it read them, its precommit coin is there and
\* has matured, and an update executed with the arguments it was initiated
\* with is accepted while the lease runs (execute_update.rs:91-112).
ReadyWhenPushed ==
    \A c \in Clients :
        cmd[c].pc = "push" =>
            LET r == cmd[c]
            IN  r.seen.n = chain.n /\ r.nfts \subseteq fetch_nft_from_wallet(Nfts) =>
                    CASE r.what \in {"register", "refund"} -> r.x \in chain.coins /\ Matured(r.x)
                      [] r.what = "execute" -> Active(chain.lease) /\ r.new = r.x.owner => Accepts(r)
                      [] OTHER -> TRUE

\* "To spend the precommitment coin, run the same command again"
\* (catalog/register.rs:466): the same command finds the coin.
SameCommandFinds ==
    \A x \in chain.coins : Cardinality(Outstanding(x.who)) = 1 => x \in precommit_coins(x.who, FALSE)
=============================================================================
