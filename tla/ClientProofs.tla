---------------------------- MODULE ClientProofs ----------------------------
(***************************************************************************)
(* For every set of clients and workloads, and without the bounds of the   *)
(* runs: a registration command does not pay twice, a payment can always   *)
(* be used or taken back by running the command again, and what a run      *)
(* waited for is there when it pushes.                                     *)
(*                                                                         *)
(* The proofs rest on what a client's coins have in common.  Every run     *)
(* after the first repeats the times the first one chose, so all payments  *)
(* a client has out are committed to the same time and the same            *)
(* expiration; what can differ is the amount, and it differs only because  *)
(* the price of the registry or the expiration of the slot moved.          *)
(***************************************************************************)
EXTENDS RegistrationClient, FiniteSetTheorems, TLAPS

Coin == [who : Clients, price : Prices, buy : Nat, cexp : Nat, amount : Prices \X Int, born : Nat, id : Nat]

Update == [initiator : Nfts \X Nat, min : Nat, owner : Nfts]

\* The types of the chain and of the clients' counters.
ChainOK ==
    /\ work \in Workloads
    /\ chain \in [n : Nat, price : Prices, lease : [owner : Nfts, exp : Nat], now : Nat, height : Nat,
                  coins : SUBSET Coin, sent : SUBSET Coin, nft : [Nfts -> Nat], updates : SUBSET Update]
    /\ paid \in [Clients -> Nat]

Seen == [n : Nat, price : Prices]

Paying == [pc : {"pay", "sent"}, coin : Coin]
Spending == [pc : {"wait", "push"}, what : {"register", "refund"}, x : Coin, until : Nat, seen : Seen,
             nfts : SUBSET (Nfts \X Nat)]
Extending == [pc : {"wait", "push"}, what : {"extend"}, x : [buy : Int], until : Nat, seen : Seen,
              nfts : SUBSET (Nfts \X Nat)]
Initiating == [pc : {"wait", "push"}, what : {"initiate"}, x : Update, until : Nat, seen : Seen,
               nfts : SUBSET (Nfts \X Nat)]
Executing == [pc : {"wait", "push"}, what : {"execute"}, x : Update, until : Nat, seen : Seen,
              nfts : SUBSET (Nfts \X Nat), new : Nfts]

\* The forms a client's run has.
RunsOK ==
    cmd \in [Clients -> {Idle} \cup Paying \cup Spending \cup Extending \cup Initiating \cup Executing]

\* Coins a client has out or is asked to agree to.
Offered(c) == Outstanding(c) \cup (IF cmd[c].pc = "pay" THEN {cmd[c].coin} ELSE {})

\* What a payment was computed from.
GoodCoin(x) ==
    CASE kind = "register" -> x.cexp = 0 /\ x.price = work.price /\ x.amount = <<x.price, 0>>
      [] kind = "catalog" -> /\ x.cexp = 0 /\ x.buy = 0 /\ x.amount = <<x.price, 0>>
                             /\ work.named => x.price = work.price
      [] OTHER -> /\ x.price = work.price
                  /\ 0 < x.cexp /\ x.cexp <= x.buy /\ x.cexp <= chain.lease.exp
                  /\ ~ Consistent(x) => x.cexp < chain.lease.exp

\* All payments of a client repeat the times of the first.
GoodOffers ==
    \A c \in Clients :
        /\ \A x \in Offered(c) : x.who = c /\ GoodCoin(x)
        /\ \A x, y \in Offered(c) : x.buy = y.buy /\ x.cexp = y.cexp

\* A payment that no block has yet is one its client waits for.
Awaited ==
    \A x \in chain.sent : x.who \in unaware \/ (cmd[x.who].pc = "sent" /\ cmd[x.who].coin = x)

\* The price did not change since.
PricedNow ==
    kind = "catalog" /\ ~ work.named =>
        \A c \in Clients \ repriced : \A x \in Offered(c) : x.price = chain.price

\* The run looks at the amounts that its client's other payments have.
ByAmount(c) == c \notin unaware /\ ~ (kind = "catalog" /\ ~ work.named /\ c \in repriced)

\* Two payments of a client differ because the slot's expiration moved.
OneConsistent ==
    \A c \in Clients :
        ByAmount(c) =>
            /\ \A x, y \in Outstanding(c) : x # y => kind = "expire" /\ (~ Consistent(x) \/ ~ Consistent(y))
            /\ cmd[c].pc = "pay" /\ Outstanding(c) # {} => kind = "expire" /\ ~ Consistent(cmd[c].coin)

\* What a run waits for or has waited for.
GoodWait(c, r) ==
    /\ r.seen.n <= chain.n
    /\ r.what \in {"register", "refund"} =>
          /\ r.x.who = c /\ r.until >= r.x.born + RelHeight
          /\ r.seen.n = chain.n => r.x \in chain.coins
    /\ r.what = "execute" =>
          /\ r.until = r.x.min
          /\ r.seen.n = chain.n =>
                /\ r.x \in chain.updates
                /\ \E p \in r.nfts : p[1] = chain.lease.owner /\ r.x.initiator = <<p[1], p[2] - 1>>
    /\ r.pc = "push" => chain.height >= r.until

GoodWaits == \A c \in Clients : cmd[c].pc \in {"wait", "push"} => GoodWait(c, cmd[c])

\* A payment that no block has yet is not one of the coins.
Births ==
    /\ chain.height > 0
    /\ \A x \in chain.sent : x.born = 0
    /\ \A x \in chain.coins : x.born > 0
    /\ \A c \in Clients : cmd[c].pc = "pay" => cmd[c].coin.born = 0

IInv ==
    /\ ChainOK /\ RunsOK /\ Births
    /\ GoodOffers /\ Awaited /\ PricedNow /\ OneConsistent
    /\ GoodWaits

-----------------------------------------------------------------------------
(* What a run of each form holds. *)

\* What a run holds goes with where it is and with its command.
LEMMA RunForms ==
    ASSUME RunsOK, NEW c \in Clients
    PROVE  /\ cmd[c].pc \in {"pay", "sent"} => cmd[c] \in Paying
           /\ cmd[c].pc \in {"wait", "push"} =>
                 /\ cmd[c] \in Spending \cup Extending \cup Initiating \cup Executing
                 /\ cmd[c].what \in {"register", "refund"} => cmd[c] \in Spending
                 /\ cmd[c].what = "extend" => cmd[c] \in Extending
                 /\ cmd[c].what = "initiate" => cmd[c] \in Initiating
                 /\ cmd[c].what = "execute" => cmd[c] \in Executing
           /\ cmd[c].pc \in {"idle", "pay", "sent", "wait", "push"}
           /\ cmd[c].pc = "idle" => cmd[c] = Idle
<1> DEFINE r == cmd[c]
<1>1. r \in {Idle} \cup Paying \cup Spending \cup Extending \cup Initiating \cup Executing
  BY DEF RunsOK
<1> HIDE DEF r
<1>2. /\ r = Idle => r.pc = "idle"
      /\ r \in Paying => r.pc \in {"pay", "sent"}
      /\ r \in Spending => r.pc \in {"wait", "push"} /\ r.what \in {"register", "refund"}
      /\ r \in Extending => r.pc \in {"wait", "push"} /\ r.what = "extend"
      /\ r \in Initiating => r.pc \in {"wait", "push"} /\ r.what = "initiate"
      /\ r \in Executing => r.pc \in {"wait", "push"} /\ r.what = "execute"
  BY DEF Idle, Paying, Spending, Extending, Initiating, Executing
<1>3. /\ r.pc \in {"pay", "sent"} => r \in Paying
      /\ r.pc \in {"wait", "push"} =>
            /\ r \in Spending \cup Extending \cup Initiating \cup Executing
            /\ r.what \in {"register", "refund"} => r \in Spending
            /\ r.what = "extend" => r \in Extending
            /\ r.what = "initiate" => r \in Initiating
            /\ r.what = "execute" => r \in Executing
      /\ r.pc \in {"idle", "pay", "sent", "wait", "push"}
      /\ r.pc = "idle" => r = Idle
  BY <1>1, <1>2
<1> QED BY <1>3 DEF r

\* What every run reads is of its type.
LEMMA ChainForms ==
    ASSUME ChainOK
    PROVE  /\ chain.n \in Nat /\ chain.price \in Prices /\ chain.now \in Nat /\ chain.height \in Nat
           /\ chain.lease \in [owner : Nfts, exp : Nat] /\ chain.lease.owner \in Nfts /\ chain.lease.exp \in Nat
           /\ chain.coins \subseteq Coin /\ chain.sent \subseteq Coin
           /\ chain.nft \in [Nfts -> Nat] /\ chain.updates \subseteq Update
           /\ work \in Workloads /\ kind \in Kinds /\ work.price \in Prices
           /\ {RelHeight, Slack, Lead} \subseteq Nat /\ Period \in Nat \ {0} /\ work.pace \subseteq Nat
<1>1. /\ {RelHeight, Slack, Lead} \subseteq Nat /\ Period \in Nat \ {0}
      /\ \A w \in Workloads : w.kind \in Kinds /\ w.price \in Prices /\ w.pace \subseteq Nat
  BY ClientAssumption
<1>2. work \in Workloads
  BY DEF ChainOK
<1>3. chain \in [n : Nat, price : Prices, lease : [owner : Nfts, exp : Nat], now : Nat, height : Nat,
                 coins : SUBSET Coin, sent : SUBSET Coin, nft : [Nfts -> Nat], updates : SUBSET Update]
  BY DEF ChainOK
<1>4. /\ chain.n \in Nat /\ chain.price \in Prices /\ chain.now \in Nat /\ chain.height \in Nat
      /\ chain.lease \in [owner : Nfts, exp : Nat]
      /\ chain.coins \subseteq Coin /\ chain.sent \subseteq Coin
      /\ chain.nft \in [Nfts -> Nat] /\ chain.updates \subseteq Update
  BY <1>3
<1>5. chain.lease.owner \in Nfts /\ chain.lease.exp \in Nat
  BY <1>4
<1> QED BY <1>1, <1>2, <1>4, <1>5 DEF kind

\* All coins of a client were committed to the time that a repeated run takes.
LEMMA SameTimes ==
    ASSUME ChainOK, GoodOffers, NEW c \in Clients, Outstanding(c) # {}
    PROVE  \A x \in Outstanding(c) : /\ kind # "catalog" => BuyTime(c) = x.buy
                                     /\ kind = "expire" => CommittedExpiration(c) = x.cexp
<1> DEFINE y == CHOOSE x \in Outstanding(c) : TRUE
<1>1. y \in Outstanding(c)
  OBVIOUS
<1>2. /\ kind # "catalog" => BuyTime(c) = y.buy
      /\ kind = "expire" => CommittedExpiration(c) = y.cexp
  BY DEF BuyTime, CommittedExpiration
<1> HIDE DEF y
<1>3. \A x \in Outstanding(c) : x.buy = y.buy /\ x.cexp = y.cexp
  BY <1>1 DEF GoodOffers, Offered
<1> QED BY <1>2, <1>3

\* The times of a run are of their type.
LEMMA TimesType ==
    ASSUME ChainOK, NEW c \in Clients
    PROVE  BuyTime(c) \in Nat /\ CommittedExpiration(c) \in Nat
<1>1. Outstanding(c) \subseteq Coin
  BY ChainForms DEF Outstanding
<1>2. ASSUME Outstanding(c) # {}
      PROVE  (CHOOSE x \in Outstanding(c) : TRUE) \in Coin
  BY <1>1, <1>2
<1>3. \A x \in Coin : x.buy \in Nat /\ x.cexp \in Nat
  BY DEF Coin
<1>4. CASE Outstanding(c) = {}
  BY <1>4, ChainForms DEF BuyTime, CommittedExpiration
<1>5. CASE Outstanding(c) # {}
  BY <1>5, <1>2, <1>3, ChainForms DEF BuyTime, CommittedExpiration
<1> QED BY <1>4, <1>5

-----------------------------------------------------------------------------
(* Types. *)

RunSet == {Idle} \cup Paying \cup Spending \cup Extending \cup Initiating \cup Executing

\* One client's run changes.
LEMMA OneRun ==
    ASSUME RunsOK, NEW c \in Clients, NEW r \in RunSet, cmd' = [cmd EXCEPT ![c] = r]
    PROVE  /\ RunsOK'
           /\ cmd'[c] = r /\ \A d \in Clients \ {c} : cmd'[d] = cmd[d]
BY DEF RunsOK, RunSet

\* The payment a run offers is a coin.
LEMMA PrecommitType ==
    ASSUME ChainOK, NEW c \in Clients
    PROVE  /\ Amount(c, FALSE) \in Prices \X Int
           /\ Precommit(c) \in Coin
           /\ Precommit(c).who = c /\ Precommit(c).buy = BuyTime(c)
           /\ Precommit(c).cexp = CommittedExpiration(c) /\ Precommit(c).amount = Amount(c, FALSE)
           /\ Precommit(c).price = (IF kind = "catalog" THEN Amount(c, FALSE)[1] ELSE work.price)
<1>1. /\ work.price \in Prices /\ chain.price \in Prices /\ chain.lease.exp \in Nat
      /\ BuyTime(c) \in Nat /\ CommittedExpiration(c) \in Nat /\ paid[c] + 1 \in Nat
  BY ChainForms, TimesType DEF ChainOK
<1>2. Amount(c, FALSE) \in Prices \X Int
  BY <1>1 DEF Amount, ExpiredPrice
<1>3. Amount(c, FALSE)[1] \in Prices
  BY <1>2
<1> QED BY <1>1, <1>2, <1>3 DEF Precommit, Coin

\* NFTs as a run sees them.
LEMMA FetchType ==
    ASSUME ChainOK, NEW S, S \subseteq Nfts
    PROVE  fetch_nft_from_wallet(S) \subseteq Nfts \X Nat
BY ChainForms DEF fetch_nft_from_wallet

\* What a command reads when it syncs is the registry of that moment.
LEMMA SyncedType ==
    ASSUME ChainOK
    PROVE  Synced \in Seen /\ Synced.n = chain.n /\ Synced.price = chain.price
BY ChainForms DEF Synced, Seen

\* The height a run waits for is one at which its coin has matured.
LEMMA TargetType ==
    ASSUME ChainOK, NEW x \in Coin
    PROVE  target_block_height(x) \in Nat /\ target_block_height(x) >= x.born + RelHeight
<1>1. x.born \in Nat
  BY DEF Coin
<1>2. RelHeight \in Nat /\ Slack \in Nat
  BY ChainForms
<1>3. RelHeight \div 4 \in Nat
  BY <1>2
<1> QED BY <1>1, <1>2, <1>3 DEF target_block_height

\* A command that starts to register, expire or take a payment back keeps the forms.
LEMMA RunTypes ==
    ASSUME ChainOK, RunsOK, NEW c \in Clients, NEW refund \in BOOLEAN, Run(c, refund)
    PROVE  ChainOK' /\ RunsOK'
<1>1. UNCHANGED <<chain, paid, work>>
  BY DEF Run, Wait, Begin, world
<1>2. CASE \E x \in precommit_coins(c, refund) :
              Wait(c, IF refund THEN "refund" ELSE "register", x, target_block_height(x), {})
  <2>1. PICK x \in precommit_coins(c, refund) :
            Wait(c, IF refund THEN "refund" ELSE "register", x, target_block_height(x), {})
    BY <1>2
  <2> DEFINE r == [pc |-> "wait", what |-> IF refund THEN "refund" ELSE "register", x |-> x,
                   until |-> target_block_height(x), seen |-> Synced, nfts |-> {}]
  <2>2. x \in Coin
    BY ChainForms DEF precommit_coins
  <2>3. r \in RunSet
    BY <2>2, TargetType, SyncedType DEF Spending, RunSet
  <2>4. cmd' = [cmd EXCEPT ![c] = r]
    BY <2>1 DEF Wait, Begin
  <2> HIDE DEF r
  <2> QED BY <1>1, <2>3, <2>4, OneRun DEF ChainOK
<1>3. CASE Begin(c, [pc |-> "pay", coin |-> Precommit(c)])
  <2>1. [pc |-> "pay", coin |-> Precommit(c)] \in RunSet
    BY PrecommitType DEF Paying, RunSet
  <2>2. cmd' = [cmd EXCEPT ![c] = [pc |-> "pay", coin |-> Precommit(c)]]
    BY <1>3 DEF Begin
  <2> QED BY <1>1, <2>1, <2>2, OneRun DEF ChainOK
<1> QED BY <1>2, <1>3 DEF Run

\* So do the commands that extend a handle or update its owner.
LEMMA UpdateTypes ==
    ASSUME ChainOK, RunsOK, NEW c \in Clients,
           \/ xchandles_extend(c)
           \/ \E new \in Nfts : xchandles_initiate_update(c, new) \/ xchandles_execute_update(c, new)
    PROVE  ChainOK' /\ RunsOK'
<1>1. UNCHANGED <<chain, paid, work>>
  BY DEF xchandles_extend, xchandles_initiate_update, xchandles_execute_update, Wait, Begin, world
<1>2. CASE xchandles_extend(c)
  <2> DEFINE r == [pc |-> "wait", what |-> "extend", x |-> [buy |-> chain.now - 1], until |-> chain.height,
                   seen |-> Synced, nfts |-> {}]
  <2>1. r \in RunSet
    BY ChainForms, SyncedType DEF Extending, RunSet
  <2>2. cmd' = [cmd EXCEPT ![c] = r]
    BY <1>2 DEF xchandles_extend, Wait, Begin
  <2> HIDE DEF r
  <2> QED BY <1>1, <2>1, <2>2, OneRun DEF ChainOK
<1>3. ASSUME NEW new \in Nfts, xchandles_initiate_update(c, new)
      PROVE  ChainOK' /\ RunsOK'
  <2> DEFINE t == chain.lease.owner
             x == [initiator |-> <<t, chain.nft[t]>>, min |-> chain.height + Lead + RelHeight, owner |-> new]
             r == [pc |-> "wait", what |-> "initiate", x |-> x, until |-> chain.height, seen |-> Synced,
                   nfts |-> fetch_nft_from_wallet({t})]
  <2>1. x \in Update
    BY ChainForms DEF Update
  <2>2. r \in RunSet
    BY <2>1, ChainForms, SyncedType, FetchType DEF Initiating, RunSet
  <2>3. cmd' = [cmd EXCEPT ![c] = r]
    BY <1>3 DEF xchandles_initiate_update, Wait, Begin
  <2> HIDE DEF r
  <2> QED BY <1>1, <2>2, <2>3, OneRun DEF ChainOK
<1>4. ASSUME NEW new \in Nfts, xchandles_execute_update(c, new)
      PROVE  ChainOK' /\ RunsOK'
  <2> DEFINE t == chain.lease.owner
  <2>1. PICK u \in find_xchandles_update_slot(t) :
            Begin(c, [pc |-> "wait", what |-> "execute", x |-> u, until |-> u.min, seen |-> Synced,
                      nfts |-> fetch_nft_from_wallet({t, new}), new |-> new])
    BY <1>4 DEF xchandles_execute_update
  <2> DEFINE r == [pc |-> "wait", what |-> "execute", x |-> u, until |-> u.min, seen |-> Synced,
                   nfts |-> fetch_nft_from_wallet({t, new}), new |-> new]
  <2>2. u \in Update /\ u.min \in Nat
    BY <2>1, ChainForms DEF find_xchandles_update_slot, Update
  <2>3. fetch_nft_from_wallet({t, new}) \subseteq Nfts \X Nat
    BY ChainForms, FetchType
  <2>4. r \in RunSet
    BY <2>2, <2>3, SyncedType DEF Executing, RunSet
  <2>5. cmd' = [cmd EXCEPT ![c] = r]
    BY <2>1 DEF Begin
  <2> HIDE DEF r
  <2> QED BY <1>1, <2>4, <2>5, OneRun DEF ChainOK
<1> QED BY <1>2, <1>3, <1>4

\* So do the two steps of a payment: sending it and seeing its coin confirmed.
LEMMA PaymentTypes ==
    ASSUME ChainOK, RunsOK, NEW c \in Clients, send_cat(c) \/ wait_for_coin(c)
    PROVE  ChainOK' /\ RunsOK'
<1>1. CASE send_cat(c)
  <2>1. cmd[c] \in Paying /\ cmd[c].coin \in Coin
    BY <1>1, RunForms DEF send_cat, Paying
  <2>2. [pc |-> "sent", coin |-> cmd[c].coin] \in RunSet
    BY <2>1 DEF Paying, RunSet
  <2>3. RunsOK'
    BY <1>1, <2>2, OneRun DEF send_cat
  <2>4. /\ chain' = [chain EXCEPT !.sent = @ \cup {cmd[c].coin}]
        /\ paid' = [paid EXCEPT ![c] = @ + 1] /\ work' = work
    BY <1>1 DEF send_cat, world
  <2>5. ChainOK'
    BY <2>1, <2>4 DEF ChainOK
  <2> QED BY <2>3, <2>5
<1>2. CASE wait_for_coin(c)
  <2>1. Idle \in RunSet
    BY DEF RunSet
  <2>2. RunsOK'
    BY <1>2, <2>1, OneRun DEF wait_for_coin
  <2> QED BY <1>2, <2>2 DEF wait_for_coin, ChainOK, world
<1> QED BY <1>1, <1>2

\* A run whose wait ends goes on to push with what it waited for; a registration
\* looks for its NFTs only now.
LEMMA MaturesTypes ==
    ASSUME ChainOK, RunsOK, NEW c \in Clients, Matures(c)
    PROVE  /\ ChainOK' /\ RunsOK'
           /\ cmd'[c].pc = "push" /\ cmd'[c].what = cmd[c].what /\ cmd'[c].x = cmd[c].x
           /\ cmd'[c].until = cmd[c].until /\ cmd'[c].seen = cmd[c].seen
           /\ cmd[c].what # "register" => cmd'[c].nfts = cmd[c].nfts
           /\ \A d \in Clients \ {c} : cmd'[d] = cmd[d]
<1> DEFINE nfts == IF cmd[c].what = "register" /\ kind # "catalog"
                   THEN fetch_nft_from_wallet({<<c, 1>>}) ELSE cmd[c].nfts
           r == [cmd[c] EXCEPT !.pc = "push", !.nfts = nfts]
<1>1. cmd' = [cmd EXCEPT ![c] = r]
  BY DEF Matures, RunsOK
<1>2. cmd[c] \in Spending \cup Extending \cup Initiating \cup Executing
  BY RunForms DEF Matures
<1>3. fetch_nft_from_wallet({<<c, 1>>}) \subseteq Nfts \X Nat
  BY FetchType DEF Nfts
<1>4. cmd[c].nfts \subseteq Nfts \X Nat
  BY <1>2 DEF Spending, Extending, Initiating, Executing
<1>5. nfts \in SUBSET (Nfts \X Nat) /\ (cmd[c].what # "register" => nfts = cmd[c].nfts)
  BY <1>3, <1>4
<1> HIDE DEF nfts
<1>6. r \in Spending \cup Extending \cup Initiating \cup Executing
  BY <1>2, <1>5 DEF Spending, Extending, Initiating, Executing
<1>7. /\ r.pc = "push" /\ r.what = cmd[c].what /\ r.x = cmd[c].x
      /\ r.until = cmd[c].until /\ r.seen = cmd[c].seen
      /\ r.nfts = nfts
  BY <1>2 DEF Spending, Extending, Initiating, Executing
<1> HIDE DEF r
<1>8. /\ RunsOK' /\ cmd'[c] = r
      /\ \A d \in Clients \ {c} : cmd'[d] = cmd[d]
  BY <1>1, <1>6, OneRun DEF RunSet
<1>9. ChainOK'
  BY DEF Matures, ChainOK, world
<1> QED BY <1>5, <1>7, <1>8, <1>9

\* What the puzzles accept from a run: they take its coin, and the registry
\* moves on.
LEMMA PushTypes ==
    ASSUME ChainOK, RunsOK, NEW c \in Clients, Push(c)
    PROVE  /\ ChainOK' /\ RunsOK'
           /\ cmd'[c] = Idle /\ \A d \in Clients \ {c} : cmd'[d] = cmd[d]
           /\ UNCHANGED <<paid, world>>
           /\ \/ chain' = chain
              \/ /\ Accepts(cmd[c])
                 /\ chain'.n = chain.n + 1 /\ chain'.lease = NewLease(c, cmd[c])
                 /\ chain'.coins \subseteq chain.coins
                 /\ chain'.price = chain.price /\ chain'.now = chain.now /\ chain'.height = chain.height
                 /\ chain'.sent = chain.sent
<1> DEFINE r == cmd[c]
<1>1. r \in Spending \cup Extending \cup Initiating \cup Executing
  BY RunForms DEF Push
<1>2. Idle \in RunSet
  BY DEF RunSet
<1>3. /\ RunsOK' /\ cmd'[c] = Idle /\ \A d \in Clients \ {c} : cmd'[d] = cmd[d]
  BY <1>2, OneRun DEF Push
<1>4. UNCHANGED <<paid, world>>
  BY DEF Push
<1>5. CASE chain' = chain
  BY <1>3, <1>4, <1>5 DEF ChainOK, world
<1>6. CASE Accepts(r)
  <2> DEFINE upd == (chain.updates \ {r.x}) \cup (IF r.what = "initiate" THEN {r.x} ELSE {})
             nft == recreate_nft_in_wallet(r.nfts)
             lease == NewLease(c, r)
  <2>1. CASE chain' = chain
    BY <1>5, <2>1
  <2>2. CASE chain' = [chain EXCEPT !.n = @ + 1, !.coins = @ \ {r.x}, !.lease = lease, !.nft = nft,
                                    !.updates = upd]
    <3>1. lease \in [owner : Nfts, exp : Nat]
      <4>1. CASE r.what = "register"
        <5>1. r.x.buy \in Nat
          BY <4>1, <1>1, RunForms DEF Push, Spending, Coin
        <5> QED BY <4>1, <5>1, ChainForms DEF NewLease, Nfts, Forever
      <4>2. CASE r.what = "extend"
        BY <4>2, ChainForms DEF NewLease
      <4>3. CASE r.what = "execute"
        <5>1. r.new \in Nfts
          BY <4>3, RunForms DEF Push, Executing
        <5> QED BY <4>3, <5>1, ChainForms DEF NewLease
      <4>4. CASE r.what \notin {"register", "extend", "execute"}
        BY <4>4, ChainForms DEF NewLease
      <4> QED BY <4>1, <4>2, <4>3, <4>4
    <3>2. nft \in [Nfts -> Nat]
      BY ChainForms DEF recreate_nft_in_wallet
    <3>3. upd \in SUBSET Update
      <4>1. r.what = "initiate" => r.x \in Update
        BY RunForms DEF Push, Initiating
      <4> QED BY <4>1, ChainForms
    <3> HIDE DEF lease, nft, upd
    <3>4. ChainOK'
      <4>1. chain.n + 1 \in Nat /\ chain.coins \ {r.x} \in SUBSET Coin
        BY ChainForms
      <4>2. chain' = [chain EXCEPT !.n = chain.n + 1, !.coins = chain.coins \ {r.x}, !.lease = lease,
                                   !.nft = nft, !.updates = upd]
        BY <2>2
      <4>3. work' = work /\ paid' = paid
        BY <1>4 DEF world
      <4> HIDE DEF r
      <4> QED BY <3>1, <3>2, <3>3, <4>1, <4>2, <4>3 DEF ChainOK
    <3>5. /\ chain'.n = chain.n + 1 /\ chain'.lease = lease
          /\ chain'.coins \subseteq chain.coins
          /\ chain'.price = chain.price /\ chain'.now = chain.now /\ chain'.height = chain.height
          /\ chain'.sent = chain.sent
      BY <2>2 DEF ChainOK
    <3> QED BY <1>3, <1>4, <1>6, <3>4, <3>5 DEF lease
  <2> QED BY <2>1, <2>2, <1>6 DEF Push
<1> QED BY <1>5, <1>6 DEF Push

\* So does a run that is killed.
LEMMA StopTypes ==
    ASSUME ChainOK, RunsOK, NEW c \in Clients, Stop(c)
    PROVE  ChainOK' /\ RunsOK'
<1>1. Idle \in RunSet
  BY DEF RunSet
<1>2. RunsOK'
  BY <1>1, OneRun DEF Stop
<1> QED BY <1>2 DEF Stop, ChainOK

\* What the world does leaves the runs alone.
LEMMA WorldTypes ==
    ASSUME ChainOK, RunsOK,
           \/ \E x \in chain.sent : Confirm(x)
           \/ \E dt \in work.pace : Tick(dt)
           \/ \E p \in Prices : PriceChange(p)
           \/ Others
    PROVE  ChainOK' /\ RunsOK'
<1>1. UNCHANGED <<cmd, paid, work>>
  BY DEF Confirm, Tick, PriceChange, Others, world
<1>2. RunsOK'
  BY <1>1 DEF RunsOK
<1>3. ASSUME NEW x \in chain.sent, Confirm(x) PROVE ChainOK'
  <2>1. [x EXCEPT !.born = chain.height] \in Coin
    BY ChainForms DEF Coin
  <2> QED BY <1>1, <1>3, <2>1 DEF Confirm, ChainOK
<1>4. ASSUME NEW dt \in work.pace, Tick(dt) PROVE ChainOK'
  <2>1. dt \in Nat
    BY ChainForms
  <2>2. chain' = [chain EXCEPT !.now = chain.now + dt, !.height = chain.height + 1]
    BY <1>4 DEF Tick
  <2>3. chain.now + dt \in Nat /\ chain.height + 1 \in Nat
    BY <2>1, ChainForms
  <2> QED BY <1>1, <2>2, <2>3 DEF ChainOK
<1>5. ASSUME NEW p \in Prices, PriceChange(p) PROVE ChainOK'
  <2>1. chain' = [chain EXCEPT !.n = chain.n + 1, !.price = p]
    BY <1>5 DEF PriceChange
  <2>2. chain.n + 1 \in Nat
    BY ChainForms
  <2> QED BY <1>1, <2>1, <2>2 DEF ChainOK
<1>6. CASE Others
  <2>1. ASSUME chain' = [chain EXCEPT !.n = @ + 1]
        PROVE  ChainOK'
    BY <1>1, <2>1, ChainForms DEF ChainOK
  <2>2. ASSUME NEW t \in Nfts, chain' = [chain EXCEPT !.nft[t] = @ + 1]
        PROVE  ChainOK'
    <3>1. [chain.nft EXCEPT ![t] = @ + 1] \in [Nfts -> Nat]
      BY ChainForms
    <3>2. chain' = [chain EXCEPT !.nft = [chain.nft EXCEPT ![t] = @ + 1]]
      BY <2>2
    <3> QED BY <1>1, <3>1, <3>2 DEF ChainOK
  <2> QED BY <1>6, <2>1, <2>2, <1>2 DEF Others
<1> QED BY <1>2, <1>3, <1>4, <1>5, <1>6

\* Every step keeps the types of the chain and the forms of the runs.
LEMMA TypesStep ==
    ASSUME ChainOK, RunsOK, Next
    PROVE  ChainOK' /\ RunsOK'
<1>1. ASSUME NEW c \in Clients, NEW refund \in BOOLEAN,
             xchandles_register(c, refund) \/ xchandles_expire(c, refund) \/ catalog_register(c, refund)
      PROVE  ChainOK' /\ RunsOK'
  BY <1>1, RunTypes DEF xchandles_register, xchandles_expire, catalog_register
<1>2. ASSUME NEW c \in Clients,
             \/ \E new \in Nfts : xchandles_initiate_update(c, new) \/ xchandles_execute_update(c, new)
             \/ xchandles_extend(c)
      PROVE  ChainOK' /\ RunsOK'
  BY <1>2, UpdateTypes
<1>3. ASSUME NEW c \in Clients, send_cat(c) \/ wait_for_coin(c) \/ Matures(c) \/ Push(c) \/ Stop(c)
      PROVE  ChainOK' /\ RunsOK'
  BY <1>3, PaymentTypes, MaturesTypes, PushTypes, StopTypes
<1> QED BY <1>1, <1>2, <1>3, WorldTypes DEF Next

-----------------------------------------------------------------------------
(* Steps that pay nothing. *)

\* Nothing is paid or offered, no price changes, and the slot's expiration
\* only grows.
Calm ==
    /\ work' = work /\ chain'.price = chain.price /\ chain.lease.exp <= chain'.lease.exp
    /\ chain'.coins \subseteq chain.coins /\ chain'.sent \subseteq chain.sent
    /\ unaware \subseteq unaware' /\ repriced \subseteq repriced'
    /\ \A c \in Clients : cmd'[c].pc = "pay" => cmd'[c] = cmd[c]

\* What a payment was computed from stays so: the expiration only grows.
LEMMA GoodCoinKept ==
    ASSUME ChainOK, ChainOK', work' = work, chain.lease.exp <= chain'.lease.exp,
           NEW x \in Coin, GoodCoin(x)
    PROVE  GoodCoin(x)'
<1>1. chain.lease.exp \in Nat /\ chain'.lease.exp \in Nat
  <2>1. chain'.lease \in [owner : Nfts, exp : Nat]
    BY DEF ChainOK
  <2> QED BY <2>1, ChainForms
<1>2. kind' = kind
  BY DEF kind
<1>3. Consistent(x)' <=> Consistent(x)
  BY <1>2 DEF Consistent, ExpiredPrice
<1>4. x.cexp \in Nat
  BY DEF Coin
<1>5. CASE kind = "register"
  BY <1>2, <1>5 DEF GoodCoin
<1>6. CASE kind = "catalog"
  BY <1>2, <1>6 DEF GoodCoin
<1>7. CASE kind \notin {"register", "catalog"}
  BY <1>1, <1>2, <1>3, <1>4, <1>7 DEF GoodCoin
<1> QED BY <1>5, <1>6, <1>7

\* Every coin that is out or offered is a coin.
LEMMA OfferedType ==
    ASSUME ChainOK, RunsOK, NEW c \in Clients
    PROVE  Offered(c) \subseteq Coin /\ Outstanding(c) \subseteq Offered(c)
<1>1. cmd[c].pc = "pay" => cmd[c].coin \in Coin
  BY RunForms DEF Paying
<1> QED BY <1>1, ChainForms DEF Offered, Outstanding

\* A step that adds no payment and moves no price keeps what is known of payments.
LEMMA CalmStep ==
    ASSUME ChainOK, RunsOK, ChainOK', Calm, GoodOffers, PricedNow, OneConsistent
    PROVE  GoodOffers' /\ PricedNow' /\ OneConsistent'
<1>1. ASSUME NEW c \in Clients
      PROVE  /\ Outstanding(c)' \subseteq Outstanding(c)
             /\ Offered(c)' \subseteq Offered(c)
             /\ Offered(c) \subseteq Coin /\ Outstanding(c) \subseteq Offered(c)
  BY <1>1, OfferedType DEF Calm, Outstanding, Offered
<1>2. GoodOffers'
  <2>1. ASSUME NEW c \in Clients, NEW x \in Offered(c)'
        PROVE  x.who = c /\ GoodCoin(x)'
    <3>1. x \in Offered(c) /\ x \in Coin
      BY <1>1
    <3>2. x.who = c /\ GoodCoin(x)
      BY <3>1 DEF GoodOffers
    <3> QED BY <3>1, <3>2, GoodCoinKept DEF Calm
  <2>2. ASSUME NEW c \in Clients, NEW x \in Offered(c)', NEW y \in Offered(c)'
        PROVE  x.buy = y.buy /\ x.cexp = y.cexp
    BY <1>1 DEF GoodOffers
  <2> QED BY <2>1, <2>2 DEF GoodOffers
<1>3. PricedNow'
  <2>1. kind' = kind /\ work'.named = work.named
    BY DEF kind, Calm
  <2>2. chain'.price = chain.price /\ repriced \subseteq repriced'
    BY DEF Calm
  <2> QED BY <1>1, <2>1, <2>2 DEF PricedNow
<1>4. OneConsistent'
  <2>1. ASSUME NEW c \in Clients, ByAmount(c)'
        PROVE  ByAmount(c)
    BY <2>1 DEF ByAmount, Calm, kind
  <2>2. kind' = kind
    BY DEF kind, Calm
  <2>3. \A x : Consistent(x)' <=> Consistent(x)
    BY <2>2 DEF Consistent, ExpiredPrice
  <2>4. ASSUME NEW c \in Clients, ByAmount(c)', NEW x \in Outstanding(c)', NEW y \in Outstanding(c)', x # y
        PROVE  kind' = "expire" /\ (~ Consistent(x)' \/ ~ Consistent(y)')
    BY <1>1, <2>1, <2>2, <2>3, <2>4 DEF OneConsistent
  <2>5. ASSUME NEW c \in Clients, ByAmount(c)', cmd'[c].pc = "pay", Outstanding(c)' # {}
        PROVE  kind' = "expire" /\ ~ Consistent(cmd[c].coin)'
    <3>1. cmd'[c] = cmd[c] /\ Outstanding(c) # {}
      BY <1>1, <2>5 DEF Calm
    <3>2. kind = "expire" /\ ~ Consistent(cmd[c].coin)
      BY <3>1, <2>1, <2>5 DEF OneConsistent
    <3> QED BY <3>1, <3>2, <2>2 DEF Consistent, ExpiredPrice
  <2> HIDE DEF Consistent
  <2> QED BY <2>4, <2>5 DEF OneConsistent
<1> QED BY <1>2, <1>3, <1>4

\* A payment that no block has yet is still waited for, or its run was stopped.
LEMMA AwaitedKept ==
    ASSUME ChainOK, Awaited, chain'.sent \subseteq chain.sent, unaware \subseteq unaware',
           \A c \in Clients : \/ cmd'[c] = cmd[c] \/ cmd[c].pc # "sent"
                              \/ cmd[c].coin \notin chain'.sent \/ c \in unaware'
    PROVE  Awaited'
<1>1. ASSUME NEW x \in chain'.sent, x.who \notin unaware'
      PROVE  cmd'[x.who].pc = "sent" /\ cmd'[x.who].coin = x
  <2>1. x.who \in Clients
    BY ChainForms DEF Coin
  <2>2. cmd[x.who].pc = "sent" /\ cmd[x.who].coin = x
    BY <1>1 DEF Awaited
  <2> QED BY <1>1, <2>1, <2>2
<1> QED BY <1>1 DEF Awaited

\* The registry is as a run read it, or its number has grown.
Onward ==
    /\ chain'.n \in Nat /\ chain.n <= chain'.n /\ chain'.height \in Nat /\ chain.height <= chain'.height
    /\ chain'.n = chain.n => /\ chain.coins \subseteq chain'.coins /\ chain.updates \subseteq chain'.updates
                             /\ chain'.lease.owner = chain.lease.owner

\* What a run waits for stays true while the registry does not move; when it has
\* moved the run will be refused, and nothing is claimed.
LEMMA WaitsKept ==
    ASSUME ChainOK, RunsOK, GoodWaits, Onward,
           NEW c \in Clients, cmd'[c] = cmd[c], cmd[c].pc \in {"wait", "push"}
    PROVE  GoodWait(c, cmd[c])'
<1> DEFINE r == cmd[c]
<1>1. r \in Spending \cup Extending \cup Initiating \cup Executing
  BY RunForms
<1>2. r.seen.n \in Nat /\ r.until \in Nat /\ chain.n \in Nat /\ chain.height \in Nat
  BY <1>1, ChainForms DEF Spending, Extending, Initiating, Executing, Seen
<1>3. GoodWait(c, r)
  BY DEF GoodWaits
<1> HIDE DEF r
<1>4. r.seen.n <= chain'.n /\ (r.seen.n = chain'.n => r.seen.n = chain.n /\ chain'.n = chain.n)
  BY <1>2, <1>3 DEF Onward, GoodWait
<1>5. r.what \in {"register", "refund"} =>
          /\ r.x.who = c /\ r.until >= r.x.born + RelHeight
          /\ r.seen.n = chain'.n => r.x \in chain'.coins
  BY <1>3, <1>4 DEF Onward, GoodWait
<1>6. r.what = "execute" =>
          /\ r.until = r.x.min
          /\ r.seen.n = chain'.n =>
                /\ r.x \in chain'.updates
                /\ \E p \in r.nfts : p[1] = chain'.lease.owner /\ r.x.initiator = <<p[1], p[2] - 1>>
  BY <1>3, <1>4 DEF Onward, GoodWait
<1>7. r.pc = "push" => chain'.height >= r.until
  BY <1>2, <1>3 DEF Onward, GoodWait
<1>8. cmd'[c] = r
  BY DEF r
<1> QED BY <1>4, <1>5, <1>6, <1>7, <1>8 DEF GoodWait

-----------------------------------------------------------------------------
(* The runs. *)

Rest == GoodOffers /\ Awaited /\ PricedNow /\ OneConsistent /\ GoodWaits

\* A run that will push something starts to wait.
LEMMA BeginsToWait ==
    ASSUME IInv, ChainOK', NEW c \in Clients, NEW r \in RunSet, cmd[c] = Idle, cmd' = [cmd EXCEPT ![c] = r],
           r.pc = "wait", GoodWait(c, r), UNCHANGED <<chain, work, unaware, repriced>>
    PROVE  Rest'
<1>1. cmd'[c] = r /\ \A d \in Clients \ {c} : cmd'[d] = cmd[d]
  BY OneRun DEF IInv
<1>2. cmd[c].pc = "idle"
  BY DEF Idle
<1>3. Calm
  BY <1>1, ChainForms DEF Calm, IInv
<1>4. GoodOffers' /\ PricedNow' /\ OneConsistent'
  BY <1>3, CalmStep DEF IInv
<1>5. Awaited'
  BY <1>1, <1>2, AwaitedKept DEF IInv
<1>6. GoodWaits'
  <2>1. Onward
    BY ChainForms DEF Onward, IInv
  <2>2. ASSUME NEW d \in Clients, d # c, cmd'[d].pc \in {"wait", "push"}
        PROVE  GoodWait(d, cmd[d])'
    BY <1>1, <2>1, <2>2, WaitsKept DEF IInv
  <2>3. GoodWait(c, cmd[c])'
    BY <1>1 DEF GoodWait
  <2> QED BY <2>2, <2>3 DEF GoodWaits
<1> QED BY <1>4, <1>5, <1>6 DEF Rest

\* What a run offers to pay, and what it says of the payments it did not find.
LEMMA PayFacts ==
    ASSUME IInv, NEW c \in Clients, cmd[c] = Idle, Computable(c, FALSE), precommit_coins(c, FALSE) = {}
    PROVE  LET x == Precommit(c)
           IN  /\ GoodCoin(x) /\ x.who = c
               /\ \A y \in Outstanding(c) : y.buy = x.buy /\ y.cexp = x.cexp
               /\ kind = "catalog" /\ ~ work.named => x.price = chain.price
               /\ ByAmount(c) /\ Outstanding(c) # {} => kind = "expire" /\ ~ Consistent(x)
<1> DEFINE x == Precommit(c)
<1>1. /\ x \in Coin /\ x.who = c /\ x.buy = BuyTime(c) /\ x.cexp = CommittedExpiration(c)
      /\ x.amount = Amount(c, FALSE)
      /\ x.price = (IF kind = "catalog" THEN Amount(c, FALSE)[1] ELSE work.price)
  BY PrecommitType DEF IInv
<1>2. BuyTime(c) \in Nat /\ CommittedExpiration(c) \in Nat /\ chain.lease.exp \in Nat /\ kind \in Kinds
  BY TimesType, ChainForms DEF IInv
<1> HIDE DEF x
<1>3. \A y \in Outstanding(c) : /\ y \in Coin /\ y.who = c /\ GoodCoin(y)
                                /\ kind # "catalog" => BuyTime(c) = y.buy
                                /\ kind = "expire" => CommittedExpiration(c) = y.cexp
  BY SameTimes, OfferedType DEF IInv, GoodOffers
<1>4. kind = "expire" =>
        /\ 0 < chain.lease.exp /\ chain.lease.exp <= BuyTime(c)
        /\ Amount(c, FALSE) = <<work.price, BuyTime(c) - chain.lease.exp>>
  <2>1. ASSUME kind = "expire"
        PROVE  Amount(c, FALSE) = <<work.price, BuyTime(c) - chain.lease.exp>>
    BY <2>1 DEF Amount, ExpiredPrice
  <2>2. ASSUME kind = "expire", Amount(c, FALSE) = Any
        PROVE  BuyTime(c) - chain.lease.exp = 0
    <3>1. <<work.price, BuyTime(c) - chain.lease.exp>> = <<"any", 0>>
      BY <2>1, <2>2 DEF Any
    <3> QED BY <3>1
  <2>3. ASSUME kind = "expire"
        PROVE  chain.lease.exp > 0 /\ (Amount(c, FALSE) = Any \/ chain.lease.exp <= BuyTime(c))
    BY <2>3, Zenon DEF Computable
  <2>4. ASSUME kind = "expire"
        PROVE  0 < chain.lease.exp /\ chain.lease.exp <= BuyTime(c)
    <3>1. BuyTime(c) - chain.lease.exp = 0 \/ chain.lease.exp <= BuyTime(c)
      BY <2>2, <2>3, <2>4
    <3> QED BY <1>2, <2>3, <2>4, <3>1
  <2> QED BY <2>1, <2>4
<1>5. \A y \in Outstanding(c) : y.buy = x.buy /\ y.cexp = x.cexp
  <2>1. CASE kind = "register"
    BY <1>1, <1>3, <2>1 DEF GoodCoin, CommittedExpiration
  <2>2. CASE kind = "catalog"
    BY <1>1, <1>3, <2>2 DEF GoodCoin, CommittedExpiration, BuyTime
  <2>3. CASE kind = "expire"
    BY <1>1, <1>3, <2>3
  <2> QED BY <1>2, <2>1, <2>2, <2>3 DEF Kinds
<1>6. (Outstanding(c) = {} /\ kind = "expire") => x.cexp = chain.lease.exp
  BY <1>1 DEF CommittedExpiration
<1>7. GoodCoin(x)
  <2>1. CASE kind = "register"
    BY <1>1, <2>1 DEF GoodCoin, CommittedExpiration, Amount
  <2>2. CASE kind = "catalog"
    <3>1. Amount(c, FALSE) = <<IF work.named THEN work.price ELSE chain.price, 0>>
      BY <2>2 DEF Amount
    <3>2. x.price = <<IF work.named THEN work.price ELSE chain.price, 0>>[1]
      BY <1>1, <2>2, <3>1, Zenon
    <3>3. x.price = IF work.named THEN work.price ELSE chain.price
      BY <3>2
    <3>4. x.amount = <<x.price, 0>>
      BY <1>1, <3>1, <3>3
    <3>5. x.cexp = 0 /\ x.buy = 0
      BY <1>1, <2>2 DEF CommittedExpiration, BuyTime
    <3> QED BY <2>2, <3>3, <3>4, <3>5 DEF GoodCoin
  <2>3. CASE kind = "expire"
    <3>1. 0 < x.cexp /\ x.cexp <= x.buy /\ x.cexp <= chain.lease.exp
      <4>1. CASE Outstanding(c) = {}
        BY <1>1, <1>2, <1>4, <1>6, <2>3, <4>1
      <4>2. CASE Outstanding(c) # {}
        <5>1. PICK y \in Outstanding(c) : TRUE
          BY <4>2
        <5>2. 0 < y.cexp /\ y.cexp <= y.buy /\ y.cexp <= chain.lease.exp
          BY <1>3, <5>1, <2>3 DEF GoodCoin
        <5> QED BY <1>5, <5>1, <5>2
      <4> QED BY <4>1, <4>2
    <3>2. ~ Consistent(x) => x.cexp # chain.lease.exp
      BY <1>1, <1>4, <2>3 DEF Consistent, ExpiredPrice
    <3> QED BY <1>1, <1>2, <2>3, <3>1, <3>2 DEF GoodCoin
  <2> QED BY <1>2, <2>1, <2>2, <2>3 DEF Kinds
<1>8. ASSUME kind = "catalog", ~ work.named
      PROVE  x.price = chain.price
  <2>1. Amount(c, FALSE) = <<chain.price, 0>>
    BY <1>8 DEF Amount
  <2>2. x.price = <<chain.price, 0>>[1]
    BY <1>1, <1>8, <2>1, Zenon
  <2> QED BY <2>2
<1>9. ASSUME ByAmount(c), Outstanding(c) # {}
      PROVE  kind = "expire" /\ ~ Consistent(x)
  <2>1. PICK y \in Outstanding(c) : TRUE
    BY <1>9
  <2>2. y \in chain.coins
    <3>1. cmd[c].pc # "sent"
      BY DEF Idle
    <3> QED BY <3>1, <2>1, <1>3, <1>9 DEF Outstanding, IInv, Awaited, ByAmount
  <2>3. y.buy = BuyTime(c) /\ y.cexp = CommittedExpiration(c) /\ y.who = c
    BY <1>1, <1>3, <1>5, <2>1
  <2>4. Amount(c, FALSE) # y.amount
    BY <2>2, <2>3 DEF precommit_coins
  <2>5. GoodCoin(y)
    BY <1>3, <2>1
  <2>6. kind # "register"
    BY <2>4, <2>5 DEF GoodCoin, Amount
  <2>7. kind # "catalog"
    <3>1. ASSUME kind = "catalog", work.named
          PROVE  FALSE
      BY <3>1, <2>4, <2>5 DEF GoodCoin, Amount
    <3>2. ASSUME kind = "catalog", ~ work.named
          PROVE  FALSE
      <4>1. y.price = chain.price
        BY <3>2, <1>9, <2>1, OfferedType DEF IInv, PricedNow, ByAmount
      <4> QED BY <4>1, <3>2, <2>4, <2>5 DEF GoodCoin, Amount
    <3> QED BY <3>1, <3>2
  <2>8. kind = "expire"
    BY <1>2, <2>6, <2>7 DEF Kinds
  <2>9. ASSUME Consistent(x)
        PROVE  FALSE
    <3>1. x.amount = <<work.price, x.buy - x.cexp>> /\ x.amount = <<work.price, x.buy - chain.lease.exp>>
      BY <1>1, <1>4, <2>8, <2>9 DEF Consistent, ExpiredPrice
    <3>2. x.cexp = chain.lease.exp
      <4>1. x.buy - x.cexp = x.buy - chain.lease.exp
        BY <3>1
      <4> QED BY <4>1, <1>1, <1>2
    <3>3. y.cexp = chain.lease.exp /\ chain.lease.exp \in Nat
      BY <1>1, <1>2, <2>3, <3>2
    <3>4. Consistent(y) /\ y.price = work.price
      BY <2>5, <2>8, <3>3 DEF GoodCoin
    <3>5. y.amount = <<work.price, y.buy - y.cexp>>
      BY <2>8, <3>4 DEF Consistent, ExpiredPrice
    <3> QED BY <1>4, <2>3, <2>4, <2>8, <3>3, <3>5
  <2> QED BY <2>8, <2>9
<1> QED BY <1>1, <1>5, <1>7, <1>8, <1>9 DEF x

\* The start of a registration, an expiry or a refund keeps the invariant: it waits
\* for a payment that matches or offers one like those already out.
LEMMA RunStep ==
    ASSUME IInv, NEW c \in Clients, NEW refund \in BOOLEAN, Run(c, refund)
    PROVE  Rest'
<1>1. /\ cmd[c] = Idle /\ UNCHANGED <<chain, paid, work, unaware, repriced>>
      /\ ChainOK' /\ RunsOK'
  BY RunTypes DEF Run, Wait, Begin, world, IInv
<1>2. ASSUME NEW x \in precommit_coins(c, refund),
             Wait(c, IF refund THEN "refund" ELSE "register", x, target_block_height(x), {})
      PROVE  Rest'
  <2> DEFINE r == [pc |-> "wait", what |-> IF refund THEN "refund" ELSE "register", x |-> x,
                   until |-> target_block_height(x), seen |-> Synced, nfts |-> {}]
  <2>1. x \in Coin /\ x \in chain.coins /\ x.who = c
    BY ChainForms DEF precommit_coins, IInv
  <2>2. target_block_height(x) \in Nat /\ target_block_height(x) >= x.born + RelHeight
    BY <2>1, TargetType DEF IInv
  <2>3. Synced \in Seen /\ Synced.n = chain.n /\ chain.n \in Nat
    BY SyncedType, ChainForms DEF IInv
  <2>4. r \in RunSet
    BY <2>1, <2>2, <2>3 DEF Spending, RunSet
  <2>5. GoodWait(c, r) /\ r.pc = "wait"
    BY <2>1, <2>2, <2>3 DEF GoodWait
  <2>6. cmd' = [cmd EXCEPT ![c] = r]
    BY <1>2 DEF Wait, Begin
  <2> HIDE DEF r
  <2> QED BY <1>1, <2>4, <2>5, <2>6, BeginsToWait
<1>3. ASSUME precommit_coins(c, refund) = {}, ~ refund, Begin(c, [pc |-> "pay", coin |-> Precommit(c)]),
             Computable(c, refund)
      PROVE  Rest'
  <2> DEFINE x == Precommit(c)
             r == [pc |-> "pay", coin |-> x]
  <2>1. /\ GoodCoin(x) /\ x.who = c
        /\ \A y \in Outstanding(c) : y.buy = x.buy /\ y.cexp = x.cexp
        /\ kind = "catalog" /\ ~ work.named => x.price = chain.price
        /\ ByAmount(c) /\ Outstanding(c) # {} => kind = "expire" /\ ~ Consistent(x)
    BY <1>1, <1>3, PayFacts
  <2>2. x \in Coin
    BY PrecommitType DEF IInv
  <2> HIDE DEF x
  <2>3. r \in RunSet
    BY <2>2 DEF Paying, RunSet
  <2>4. cmd' = [cmd EXCEPT ![c] = r]
    BY <1>3 DEF Begin, x
  <2>5. cmd'[c] = r /\ \A d \in Clients \ {c} : cmd'[d] = cmd[d]
    BY <2>3, <2>4, OneRun DEF IInv
  <2>6. /\ \A d \in Clients : Outstanding(d)' = Outstanding(d)
        /\ Offered(c)' = Outstanding(c) \cup {x}
        /\ \A d \in Clients \ {c} : Offered(d)' = Offered(d)
    BY <1>1, <2>5 DEF Outstanding, Offered
  <2>7. \A y : (GoodCoin(y)' <=> GoodCoin(y)) /\ (Consistent(y)' <=> Consistent(y))
    BY <1>1 DEF GoodCoin, Consistent, kind, ExpiredPrice
  <2>8. kind' = kind
    BY <1>1 DEF kind
  <2>9. GoodOffers'
    <3>1. \A y \in Outstanding(c) : y.who = c /\ GoodCoin(y)
      BY OfferedType DEF IInv, GoodOffers
    <3>2. \A y, z \in Outstanding(c) : y.buy = z.buy /\ y.cexp = z.cexp
      BY OfferedType DEF IInv, GoodOffers
    <3>3. \A y \in Offered(c)' : y.who = c /\ GoodCoin(y)'
      <4> HIDE DEF GoodCoin
      <4> QED BY <2>1, <2>6, <2>7, <3>1
    <3>4. \A y, z \in Offered(c)' : y.buy = z.buy /\ y.cexp = z.cexp
      BY <2>1, <2>6, <3>2
    <3>5. ASSUME NEW d \in Clients \ {c}
          PROVE  /\ \A y \in Offered(d)' : y.who = d /\ GoodCoin(y)'
                 /\ \A y, z \in Offered(d)' : y.buy = z.buy /\ y.cexp = z.cexp
      BY <2>6, <2>7 DEF IInv, GoodOffers
    <3> QED BY <3>3, <3>4, <3>5 DEF GoodOffers
  <2>10. Awaited'
    <3>1. cmd[c].pc # "sent"
      BY <1>1 DEF Idle
    <3> QED BY <1>1, <2>5, <3>1, AwaitedKept DEF IInv
  <2>11. PricedNow'
    <3>1. ASSUME kind = "catalog", ~ work.named, NEW d \in Clients \ repriced, NEW y \in Offered(d)'
          PROVE  y.price = chain.price
      <4>1. CASE d = c
        <5>1. y = x \/ y \in Offered(c)
          BY <2>6, <4>1, OfferedType DEF IInv
        <5> QED BY <5>1, <3>1, <4>1, <2>1 DEF IInv, PricedNow
      <4>2. CASE d # c
        BY <4>2, <2>6, <3>1 DEF IInv, PricedNow
      <4> QED BY <4>1, <4>2
    <3> QED BY <3>1, <1>1, <2>8 DEF PricedNow
  <2>12. OneConsistent'
    <3>1. ASSUME NEW d \in Clients PROVE ByAmount(d)' <=> ByAmount(d)
      BY <1>1, <2>8 DEF ByAmount
    <3>2. ASSUME NEW d \in Clients, ByAmount(d)', NEW y \in Outstanding(d)', NEW z \in Outstanding(d)', y # z
          PROVE  kind' = "expire" /\ (~ Consistent(y)' \/ ~ Consistent(z)')
      BY <3>1, <3>2, <2>6, <2>7, <2>8 DEF IInv, OneConsistent
    <3>3. ASSUME NEW d \in Clients, ByAmount(d)', cmd'[d].pc = "pay", Outstanding(d)' # {}
          PROVE  kind' = "expire" /\ ~ Consistent(cmd[d].coin)'
      <4>1. CASE d = c
        <5>1. cmd'[c].coin = x
          BY <2>5
        <5>2. kind = "expire" /\ ~ Consistent(x)
          BY <2>1, <2>6, <3>1, <3>3, <4>1
        <5> QED BY <4>1, <5>1, <5>2, <2>8 DEF Consistent, ExpiredPrice
      <4>2. CASE d # c
        <5>1. cmd'[d] = cmd[d]
          BY <2>5, <4>2
        <5>2. kind = "expire" /\ ~ Consistent(cmd[d].coin)
          BY <5>1, <2>6, <3>1, <3>3 DEF IInv, OneConsistent
        <5> QED BY <5>1, <5>2, <2>8 DEF Consistent, ExpiredPrice
      <4> QED BY <4>1, <4>2
    <3> HIDE DEF Consistent
    <3> QED BY <3>2, <3>3 DEF OneConsistent
  <2>13. GoodWaits'
    <3>1. Onward
      BY <1>1, ChainForms DEF Onward, IInv
    <3>2. ASSUME NEW d \in Clients, cmd'[d].pc \in {"wait", "push"}
          PROVE  GoodWait(d, cmd[d])'
      <4>1. d # c
        BY <2>5, <3>2
      <4> QED BY <2>5, <3>1, <3>2, <4>1, WaitsKept DEF IInv
    <3> QED BY <3>2 DEF GoodWaits
  <2> QED BY <2>9, <2>10, <2>11, <2>12, <2>13 DEF Rest
<1> QED BY <1>2, <1>3 DEF Run

\* Sending a payment keeps the invariant: the client now waits for its coin.
LEMMA SendStep ==
    ASSUME IInv, NEW c \in Clients, send_cat(c)
    PROVE  Rest'
<1> DEFINE x == cmd[c].coin
<1>1. cmd[c].pc = "pay" /\ x \in Coin
  BY RunForms DEF send_cat, Paying, IInv
<1>2. /\ ChainOK' /\ RunsOK' /\ UNCHANGED world
      /\ chain' = [chain EXCEPT !.sent = @ \cup {x}]
  BY PaymentTypes DEF send_cat, IInv
<1>3. cmd'[c] = [pc |-> "sent", coin |-> x] /\ \A d \in Clients \ {c} : cmd'[d] = cmd[d]
  BY DEF send_cat, IInv, RunsOK
<1>4. /\ chain'.sent = chain.sent \cup {x} /\ chain'.coins = chain.coins /\ chain'.price = chain.price
      /\ chain'.lease = chain.lease /\ chain'.n = chain.n /\ chain'.height = chain.height
      /\ chain'.updates = chain.updates
  BY <1>2 DEF IInv, ChainOK
<1>5. work' = work /\ unaware' = unaware /\ repriced' = repriced /\ kind' = kind
  BY <1>2 DEF world, kind
<1>6. x \in Offered(c) /\ x.who = c
  BY <1>1 DEF Offered, IInv, GoodOffers
<1> HIDE DEF x
<1>7. /\ \A d \in Clients : Offered(d)' = Offered(d)
      /\ Outstanding(c)' = Outstanding(c) \cup {x}
      /\ \A d \in Clients \ {c} : Outstanding(d)' = Outstanding(d)
  <2>1. \A d \in Clients : Outstanding(d)' = Outstanding(d) \cup {y \in {x} : y.who = d}
    BY <1>4 DEF Outstanding
  <2>2. Outstanding(c)' = Outstanding(c) \cup {x} /\ \A d \in Clients \ {c} : Outstanding(d)' = Outstanding(d)
    BY <2>1, <1>6
  <2>3. Offered(c) = Outstanding(c) \cup {x} /\ Offered(c)' = Outstanding(c) \cup {x}
    BY <1>1, <1>3, <2>2 DEF Offered, x
  <2>4. \A d \in Clients \ {c} : Offered(d)' = Offered(d)
    BY <1>3, <2>2 DEF Offered
  <2> QED BY <2>2, <2>3, <2>4
<1>8. \A y : (GoodCoin(y)' <=> GoodCoin(y)) /\ (Consistent(y)' <=> Consistent(y))
  BY <1>4, <1>5 DEF GoodCoin, Consistent, ExpiredPrice
<1>9. GoodOffers'
  <2> HIDE DEF GoodCoin
  <2> QED BY <1>7, <1>8 DEF IInv, GoodOffers
<1>10. PricedNow'
  BY <1>4, <1>5, <1>7 DEF IInv, PricedNow
<1>11. Awaited'
  <2>1. ASSUME NEW y \in chain'.sent
        PROVE  y.who \in unaware' \/ (cmd'[y.who].pc = "sent" /\ cmd'[y.who].coin = y)
    <3>1. CASE y = x
      BY <3>1, <1>3, <1>6
    <3>2. CASE y \in chain.sent
      <4>1. y.who \in Clients
        BY <3>2, ChainForms DEF IInv, Coin
      <4>2. y.who \in unaware \/ (cmd[y.who].pc = "sent" /\ cmd[y.who].coin = y)
        BY <3>2 DEF IInv, Awaited
      <4> QED BY <4>1, <4>2, <1>1, <1>3, <1>5
    <3> QED BY <3>1, <3>2, <1>4
  <2> QED BY <2>1 DEF Awaited
<1>12. OneConsistent'
  <2>1. \A d \in Clients : ByAmount(d)' <=> ByAmount(d)
    BY <1>5 DEF ByAmount
  <2>2. ASSUME ByAmount(c), Outstanding(c) # {}
        PROVE  kind = "expire" /\ ~ Consistent(x)
    BY <2>2, <1>1 DEF IInv, OneConsistent, x
  <2>3. ASSUME NEW d \in Clients, ByAmount(d)', NEW y \in Outstanding(d)', NEW z \in Outstanding(d)', y # z
        PROVE  kind' = "expire" /\ (~ Consistent(y)' \/ ~ Consistent(z)')
    <3>1. CASE y \in Outstanding(d) /\ z \in Outstanding(d)
      BY <3>1, <2>1, <2>3, <1>5, <1>8 DEF IInv, OneConsistent
    <3>2. CASE ~ (y \in Outstanding(d) /\ z \in Outstanding(d))
      <4>1. d = c /\ Outstanding(c) # {} /\ x \in {y, z}
        BY <3>2, <2>3, <1>7
      <4> QED BY <4>1, <2>1, <2>2, <2>3, <1>5, <1>8
    <3> QED BY <3>1, <3>2
  <2>4. ASSUME NEW d \in Clients, ByAmount(d)', cmd'[d].pc = "pay", Outstanding(d)' # {}
        PROVE  kind' = "expire" /\ ~ Consistent(cmd[d].coin)'
    <3>1. d # c
      BY <1>3, <2>4
    <3>2. cmd'[d] = cmd[d] /\ kind = "expire" /\ ~ Consistent(cmd[d].coin)
      BY <3>1, <2>1, <2>4, <1>3, <1>7 DEF IInv, OneConsistent
    <3> QED BY <3>2, <1>5 DEF Consistent, ExpiredPrice
  <2> HIDE DEF Consistent
  <2> QED BY <2>3, <2>4 DEF OneConsistent
<1>13. GoodWaits'
  <2>1. Onward
    BY <1>4, ChainForms DEF Onward, IInv
  <2>2. ASSUME NEW d \in Clients, cmd'[d].pc \in {"wait", "push"}
        PROVE  GoodWait(d, cmd[d])'
    <3>1. d # c
      BY <1>3, <2>2
    <3> QED BY <1>3, <2>1, <2>2, <3>1, WaitsKept DEF IInv
  <2> QED BY <2>2 DEF GoodWaits
<1> QED BY <1>9, <1>10, <1>11, <1>12, <1>13 DEF Rest

\* A run ends, by itself or because somebody stops it.
LEMMA EndStep ==
    ASSUME IInv, NEW c \in Clients, wait_for_coin(c) \/ Stop(c)
    PROVE  Rest'
<1>1. ChainOK' /\ cmd' = [cmd EXCEPT ![c] = Idle] /\ UNCHANGED <<chain, work, repriced>>
  BY PaymentTypes, StopTypes DEF wait_for_coin, Stop, IInv, world
<1>2. cmd'[c] = Idle /\ \A d \in Clients \ {c} : cmd'[d] = cmd[d]
  BY <1>1 DEF IInv, RunsOK
<1>3. /\ unaware \subseteq unaware'
      /\ cmd[c].pc = "sent" /\ cmd[c].coin \in chain.sent => c \in unaware'
  BY DEF wait_for_coin, Stop, world
<1>4. cmd'[c].pc = "idle"
  BY <1>2 DEF Idle
<1>5. Calm
  BY <1>1, <1>2, <1>3, <1>4, ChainForms DEF Calm, IInv
<1>6. GoodOffers' /\ PricedNow' /\ OneConsistent'
  BY <1>1, <1>5, CalmStep DEF IInv
<1>7. Awaited'
  BY <1>1, <1>2, <1>3, AwaitedKept DEF IInv
<1>8. GoodWaits'
  <2>1. Onward
    BY <1>1, ChainForms DEF Onward, IInv
  <2>2. ASSUME NEW d \in Clients, cmd'[d].pc \in {"wait", "push"}
        PROVE  GoodWait(d, cmd[d])'
    BY <1>2, <1>4, <2>1, <2>2, WaitsKept DEF IInv
  <2> QED BY <2>2 DEF GoodWaits
<1> QED BY <1>6, <1>7, <1>8 DEF Rest

\* The end of a wait keeps the invariant: the height waited for is reached.
LEMMA MaturesStep ==
    ASSUME IInv, NEW c \in Clients, Matures(c)
    PROVE  Rest'
<1>1. /\ ChainOK' /\ RunsOK'
      /\ cmd'[c].pc = "push" /\ cmd'[c].what = cmd[c].what /\ cmd'[c].x = cmd[c].x
      /\ cmd'[c].until = cmd[c].until /\ cmd'[c].seen = cmd[c].seen
      /\ cmd[c].what # "register" => cmd'[c].nfts = cmd[c].nfts
      /\ \A d \in Clients \ {c} : cmd'[d] = cmd[d]
  BY MaturesTypes DEF IInv
<1>2. UNCHANGED <<chain, work, unaware, repriced>> /\ cmd[c].pc = "wait" /\ chain.height >= cmd[c].until
  BY DEF Matures, world
<1>3. Calm
  BY <1>1, <1>2, ChainForms DEF Calm, IInv
<1>4. GoodOffers' /\ PricedNow' /\ OneConsistent'
  BY <1>1, <1>3, CalmStep DEF IInv
<1>5. Awaited'
  BY <1>1, <1>2, AwaitedKept DEF IInv
<1>6. GoodWaits'
  <2>1. Onward
    BY <1>2, ChainForms DEF Onward, IInv
  <2>2. ASSUME NEW d \in Clients, d # c, cmd'[d].pc \in {"wait", "push"}
        PROVE  GoodWait(d, cmd[d])'
    BY <1>1, <2>1, <2>2, WaitsKept DEF IInv
  <2>3. GoodWait(c, cmd[c])
    BY <1>2 DEF IInv, GoodWaits
  <2>4. GoodWait(c, cmd[c])'
    <3>1. cmd'[c].what = "execute" => cmd'[c].nfts = cmd[c].nfts
      BY <1>1
    <3> QED BY <1>1, <1>2, <2>3, <3>1 DEF GoodWait
  <2> QED BY <2>2, <2>4 DEF GoodWaits
<1> QED BY <1>4, <1>5, <1>6 DEF Rest

\* The start of an extension or an update keeps the invariant: no payment changes.
LEMMA UpdateStep ==
    ASSUME IInv, NEW c \in Clients,
           \/ xchandles_extend(c)
           \/ \E new \in Nfts : xchandles_initiate_update(c, new) \/ xchandles_execute_update(c, new)
    PROVE  Rest'
<1>1. /\ cmd[c] = Idle /\ UNCHANGED <<chain, work, unaware, repriced>>
      /\ ChainOK'
  BY UpdateTypes DEF xchandles_extend, xchandles_initiate_update, xchandles_execute_update, Wait, Begin, world, IInv
<1>2. Synced \in Seen /\ Synced.n = chain.n /\ chain.n \in Nat
  BY SyncedType, ChainForms DEF IInv
<1>3. CASE xchandles_extend(c)
  <2> DEFINE r == [pc |-> "wait", what |-> "extend", x |-> [buy |-> chain.now - 1], until |-> chain.height,
                   seen |-> Synced, nfts |-> {}]
  <2>1. r \in RunSet
    BY <1>2, ChainForms DEF Extending, RunSet, IInv
  <2>2. cmd' = [cmd EXCEPT ![c] = r]
    BY <1>3 DEF xchandles_extend, Wait, Begin
  <2>3. GoodWait(c, r) /\ r.pc = "wait"
    BY <1>2 DEF GoodWait
  <2> HIDE DEF r
  <2> QED BY <1>1, <2>1, <2>2, <2>3, BeginsToWait
<1>4. ASSUME NEW new \in Nfts, xchandles_initiate_update(c, new)
      PROVE  Rest'
  <2> DEFINE t == chain.lease.owner
             x == [initiator |-> <<t, chain.nft[t]>>, min |-> chain.height + Lead + RelHeight, owner |-> new]
             r == [pc |-> "wait", what |-> "initiate", x |-> x, until |-> chain.height, seen |-> Synced,
                   nfts |-> fetch_nft_from_wallet({t})]
  <2>1. x \in Update
    BY ChainForms DEF Update, IInv
  <2>2. fetch_nft_from_wallet({t}) \subseteq Nfts \X Nat
    BY ChainForms, FetchType DEF IInv
  <2>3. r \in RunSet
    BY <1>2, <2>1, <2>2, ChainForms DEF Initiating, RunSet, IInv
  <2>4. cmd' = [cmd EXCEPT ![c] = r]
    BY <1>4 DEF xchandles_initiate_update, Wait, Begin
  <2>5. GoodWait(c, r) /\ r.pc = "wait"
    BY <1>2 DEF GoodWait
  <2> HIDE DEF r
  <2> QED BY <1>1, <2>3, <2>4, <2>5, BeginsToWait
<1>5. ASSUME NEW new \in Nfts, xchandles_execute_update(c, new)
      PROVE  Rest'
  <2> DEFINE t == chain.lease.owner
  <2>1. PICK u \in find_xchandles_update_slot(t) :
            Begin(c, [pc |-> "wait", what |-> "execute", x |-> u, until |-> u.min, seen |-> Synced,
                      nfts |-> fetch_nft_from_wallet({t, new}), new |-> new])
    BY <1>5 DEF xchandles_execute_update
  <2> DEFINE nfts == fetch_nft_from_wallet({t, new})
             r == [pc |-> "wait", what |-> "execute", x |-> u, until |-> u.min, seen |-> Synced,
                   nfts |-> nfts, new |-> new]
  <2>2. u \in Update /\ u.min \in Nat /\ u \in chain.updates /\ u.initiator = <<t, chain.nft[t] - 1>>
    BY <2>1, ChainForms DEF find_xchandles_update_slot, Update, IInv
  <2>3. nfts \subseteq Nfts \X Nat
    BY ChainForms, FetchType DEF IInv
  <2>4. <<t, chain.nft[t]>> \in nfts
    BY DEF fetch_nft_from_wallet
  <2>5. cmd' = [cmd EXCEPT ![c] = r]
    BY <2>1 DEF Begin
  <2> HIDE DEF nfts
  <2>6. r \in RunSet
    BY <1>2, <2>2, <2>3 DEF Executing, RunSet
  <2>7. \E p \in nfts : p[1] = chain.lease.owner /\ u.initiator = <<p[1], p[2] - 1>>
    <3>1. <<t, chain.nft[t]>>[1] = t /\ <<t, chain.nft[t]>>[2] = chain.nft[t]
      OBVIOUS
    <3> QED BY <2>2, <2>4, <3>1
  <2>8. GoodWait(c, r) /\ r.pc = "wait"
    BY <1>2, <2>2, <2>7 DEF GoodWait
  <2> HIDE DEF r
  <2> QED BY <1>1, <2>5, <2>6, <2>8, BeginsToWait
<1> QED BY <1>3, <1>4, <1>5

\* A bundle that is accepted takes a coin, which only makes the expiration of
\* the slot grow: a lease that is taken over ends after the one before it.
LEMMA PushStep ==
    ASSUME IInv, NEW c \in Clients, Push(c)
    PROVE  Rest'
<1>1. /\ ChainOK' /\ RunsOK'
      /\ cmd'[c] = Idle /\ \A d \in Clients \ {c} : cmd'[d] = cmd[d]
      /\ UNCHANGED <<paid, world>>
      /\ \/ chain' = chain
         \/ /\ Accepts(cmd[c])
            /\ chain'.n = chain.n + 1 /\ chain'.lease = NewLease(c, cmd[c])
            /\ chain'.coins \subseteq chain.coins
            /\ chain'.price = chain.price /\ chain'.now = chain.now /\ chain'.height = chain.height
            /\ chain'.sent = chain.sent
  BY PushTypes DEF IInv
<1>2. work' = work /\ unaware' = unaware /\ repriced' = repriced
  BY <1>1 DEF world
<1>3. cmd'[c].pc = "idle"
  BY <1>1 DEF Idle
<1>4. chain.lease.exp \in Nat /\ chain.n \in Nat /\ chain.height \in Nat /\ Period \in Nat /\ kind \in Kinds
  BY ChainForms DEF IInv
<1>5. chain.lease.exp <= chain'.lease.exp
  <2>1. CASE chain' = chain
    BY <2>1, <1>4
  <2>2. CASE Accepts(cmd[c]) /\ chain'.lease = NewLease(c, cmd[c])
    <3> DEFINE r == cmd[c]
    <3>1. CASE r.what = "register"
      <4>1. r.x \in chain.coins /\ (IF kind = "expire" THEN Expires(r.x) ELSE Registers(r.x))
        BY <2>2, <3>1 DEF Accepts
      <4>2. r.x \in Coin /\ r.x.who \in Clients /\ r.x.buy \in Nat /\ r.x.cexp \in Nat
        BY <4>1, ChainForms DEF IInv, Coin
      <4>3. GoodCoin(r.x)
        BY <4>1, <4>2 DEF IInv, GoodOffers, Offered, Outstanding
      <4>4. CASE kind = "expire"
        <5>1. chain'.lease.exp = r.x.buy + Period
          BY <2>2, <3>1, <4>4 DEF NewLease
        <5>2. chain.lease.exp <= r.x.buy
          BY <4>1, <4>3, <4>4 DEF Expires, GoodCoin
        <5> QED BY <5>1, <5>2, <4>2, <1>4
      <4>5. CASE kind # "expire"
        <5>1. chain.lease.exp = 0
          BY <4>1, <4>5 DEF Registers
        <5>2. chain'.lease.exp \in Nat
          BY <1>1 DEF ChainOK
        <5> QED BY <5>1, <5>2
      <4> QED BY <4>4, <4>5
    <3>2. CASE r.what = "extend"
      BY <2>2, <3>2, <1>4, ChainForms DEF NewLease, IInv
    <3>3. CASE r.what = "execute"
      BY <2>2, <3>3, <1>4, ChainForms DEF NewLease, IInv
    <3>4. CASE r.what \notin {"register", "extend", "execute"}
      BY <2>2, <3>4, <1>4 DEF NewLease
    <3> QED BY <3>1, <3>2, <3>3, <3>4
  <2> QED BY <1>1, <2>1, <2>2
<1>6. Calm
  BY <1>1, <1>2, <1>3, <1>5 DEF Calm
<1>7. GoodOffers' /\ PricedNow' /\ OneConsistent'
  BY <1>1, <1>6, CalmStep DEF IInv
<1>8. Awaited'
  <2>1. cmd[c].pc # "sent"
    BY DEF Push
  <2> QED BY <1>1, <1>2, <1>6, <2>1, AwaitedKept DEF IInv, Calm
<1>9. GoodWaits'
  <2>1. Onward
    BY <1>1, <1>4 DEF Onward
  <2>2. ASSUME NEW d \in Clients, cmd'[d].pc \in {"wait", "push"}
        PROVE  GoodWait(d, cmd[d])'
    BY <1>1, <1>3, <2>1, <2>2, WaitsKept DEF IInv
  <2> QED BY <2>2 DEF GoodWaits
<1> QED BY <1>7, <1>8, <1>9 DEF Rest

-----------------------------------------------------------------------------
(* The world. *)

\* A payment gets its height in the block that confirms it, and not before.
LEMMA BirthsStep ==
    ASSUME IInv, Next
    PROVE  Births'
<1>1. ChainOK' /\ RunsOK'
  BY TypesStep DEF IInv
<1>2. chain.height \in Nat /\ chain.height > 0
  BY ChainForms DEF IInv, Births
<1>3. ASSUME chain'.height = chain.height, chain'.sent \subseteq chain.sent, chain'.coins \subseteq chain.coins,
             \A c \in Clients : cmd'[c].pc = "pay" => cmd'[c].coin.born = 0
      PROVE  Births'
  BY <1>3, <1>2 DEF IInv, Births
<1>4. ASSUME NEW c \in Clients, NEW refund \in BOOLEAN, Run(c, refund)
      PROVE  Births'
  <2>1. chain' = chain
    BY <1>4 DEF Run, Wait, Begin
  <2>2. \A d \in Clients \ {c} : cmd'[d] = cmd[d]
    BY <1>4 DEF Run, Wait, Begin, IInv, RunsOK
  <2>3. cmd'[c].pc = "pay" => cmd'[c].coin.born = 0
    <3>1. Precommit(c).born = 0
      BY DEF Precommit
    <3>2. cmd'[c] = [pc |-> "pay", coin |-> Precommit(c)] \/ cmd'[c].pc = "wait"
      BY <1>4 DEF Run, Wait, Begin, IInv, RunsOK
    <3> HIDE DEF Precommit
    <3> QED BY <3>1, <3>2
  <2> QED BY <2>1, <2>2, <2>3, <1>3 DEF IInv, Births
<1>5. ASSUME NEW c \in Clients,
             \/ \E new \in Nfts : xchandles_initiate_update(c, new) \/ xchandles_execute_update(c, new)
             \/ xchandles_extend(c)
      PROVE  Births'
  <2>1. chain' = chain
    BY <1>5 DEF xchandles_initiate_update, xchandles_execute_update, xchandles_extend, Wait, Begin
  <2>2. cmd'[c].pc = "wait" /\ \A d \in Clients \ {c} : cmd'[d] = cmd[d]
    <3>1. CASE xchandles_extend(c)
      BY <3>1 DEF xchandles_extend, Wait, Begin, IInv, RunsOK
    <3>2. ASSUME NEW new \in Nfts, xchandles_initiate_update(c, new)
          PROVE  cmd'[c].pc = "wait" /\ \A d \in Clients \ {c} : cmd'[d] = cmd[d]
      BY <3>2 DEF xchandles_initiate_update, Wait, Begin, IInv, RunsOK
    <3>3. ASSUME NEW new \in Nfts, xchandles_execute_update(c, new)
          PROVE  cmd'[c].pc = "wait" /\ \A d \in Clients \ {c} : cmd'[d] = cmd[d]
      BY <3>3 DEF xchandles_execute_update, Begin, IInv, RunsOK
    <3> QED BY <1>5, <3>1, <3>2, <3>3
  <2>3. cmd'[c].pc # "pay" /\ \A d \in Clients \ {c} : cmd'[d] = cmd[d]
    BY <2>2
  <2> QED BY <2>1, <2>3, <1>3 DEF IInv, Births
<1>6. ASSUME NEW c \in Clients, send_cat(c)
      PROVE  Births'
  <2>1. cmd[c].pc = "pay" /\ cmd[c].coin.born = 0
    BY <1>6 DEF send_cat, IInv, Births
  <2>2. cmd'[c] = [pc |-> "sent", coin |-> cmd[c].coin] /\ \A d \in Clients \ {c} : cmd'[d] = cmd[d]
    BY <1>6 DEF send_cat, IInv, RunsOK
  <2>3. /\ chain'.height = chain.height /\ chain'.sent = chain.sent \cup {cmd[c].coin}
        /\ chain'.coins = chain.coins
    BY <1>6 DEF send_cat, IInv, ChainOK
  <2>4. \A d \in Clients : cmd'[d].pc = "pay" => cmd'[d].coin.born = 0
    BY <2>2 DEF IInv, Births
  <2> QED BY <2>1, <2>3, <2>4 DEF IInv, Births
<1>7. ASSUME NEW c \in Clients, wait_for_coin(c) \/ Stop(c)
      PROVE  Births'
  <2>1. chain' = chain /\ cmd' = [cmd EXCEPT ![c] = Idle]
    BY <1>7 DEF wait_for_coin, Stop
  <2>2. \A d \in Clients : cmd'[d].pc = "pay" => cmd'[d].coin.born = 0
    BY <2>1 DEF IInv, Births, RunsOK, Idle
  <2> QED BY <2>1, <2>2, <1>3
<1>8. ASSUME NEW c \in Clients, Matures(c)
      PROVE  Births'
  <2>1. chain' = chain
    BY <1>8 DEF Matures
  <2>2. \A d \in Clients : cmd'[d].pc = "pay" => cmd'[d].coin.born = 0
    <3>1. cmd'[c].pc = "push" /\ \A d \in Clients \ {c} : cmd'[d] = cmd[d]
      BY <1>8, MaturesTypes DEF IInv
    <3> QED BY <3>1 DEF IInv, Births
  <2> QED BY <2>1, <2>2, <1>3
<1>9. ASSUME NEW c \in Clients, Push(c)
      PROVE  Births'
  <2>1. /\ chain'.height = chain.height /\ chain'.sent \subseteq chain.sent /\ chain'.coins \subseteq chain.coins
        /\ cmd'[c] = Idle /\ \A d \in Clients \ {c} : cmd'[d] = cmd[d]
    BY <1>9, PushTypes DEF IInv
  <2>2. \A d \in Clients : cmd'[d].pc = "pay" => cmd'[d].coin.born = 0
    BY <2>1 DEF IInv, Births, Idle
  <2> QED BY <2>1, <2>2, <1>3
<1>10. ASSUME NEW x \in chain.sent, Confirm(x)
       PROVE  Births'
  <2> DEFINE y == [x EXCEPT !.born = chain.height]
  <2>1. /\ cmd' = cmd /\ chain'.height = chain.height /\ chain'.sent = chain.sent \ {x}
        /\ chain'.coins = chain.coins \cup {y}
    BY <1>10 DEF Confirm, IInv, ChainOK
  <2>2. y.born = chain.height
    BY <1>10, ChainForms DEF IInv, Coin
  <2> HIDE DEF y
  <2> QED BY <2>1, <2>2, <1>2 DEF IInv, Births
<1>11. ASSUME NEW dt \in work.pace, Tick(dt)
       PROVE  Births'
  <2>1. /\ cmd' = cmd /\ chain'.height = chain.height + 1 /\ chain'.sent = chain.sent
        /\ chain'.coins = chain.coins
    BY <1>11 DEF Tick, IInv, ChainOK
  <2> QED BY <2>1, <1>2 DEF IInv, Births
<1>12. ASSUME NEW p \in Prices, PriceChange(p)
       PROVE  Births'
  <2>1. /\ cmd' = cmd /\ chain'.height = chain.height /\ chain'.sent = chain.sent
        /\ chain'.coins = chain.coins
    BY <1>12 DEF PriceChange, IInv, ChainOK
  <2> QED BY <2>1, <1>3 DEF IInv, Births
<1>13. ASSUME Others
       PROVE  Births'
  <2>1. cmd' = cmd
    BY <1>13 DEF Others
  <2>2. chain'.height = chain.height /\ chain'.sent = chain.sent /\ chain'.coins = chain.coins
    BY <1>13 DEF Others, IInv, ChainOK
  <2> QED BY <2>1, <2>2, <1>3 DEF IInv, Births
<1> QED BY <1>4, <1>5, <1>6, <1>7, <1>8, <1>9, <1>10, <1>11, <1>12, <1>13
        DEF Next, xchandles_register, xchandles_expire, catalog_register

\* A block includes a payment: it becomes a coin, and nothing else changes.
LEMMA ConfirmStep ==
    ASSUME IInv, NEW x \in chain.sent, Confirm(x)
    PROVE  Rest'
<1> DEFINE y == [x EXCEPT !.born = chain.height]
           c == x.who
<1>1. ChainOK' /\ RunsOK'
  BY WorldTypes DEF IInv
<1>2. /\ cmd' = cmd /\ chain'.sent = chain.sent \ {x} /\ chain'.coins = chain.coins \cup {y}
      /\ chain'.price = chain.price /\ chain'.lease = chain.lease /\ chain'.n = chain.n
      /\ chain'.height = chain.height /\ chain'.updates = chain.updates
  BY DEF Confirm, IInv, ChainOK
<1>3. work' = work /\ unaware' = unaware /\ repriced' = repriced /\ kind' = kind
  BY DEF Confirm, world, kind
<1>4. /\ x \in Coin /\ c \in Clients
      /\ y.who = c /\ y.buy = x.buy /\ y.cexp = x.cexp /\ y.price = x.price /\ y.amount = x.amount
  BY ChainForms DEF IInv, Coin
<1>5. x \in Outstanding(c) /\ x \notin chain.coins
  BY <1>4 DEF Outstanding, IInv, Births
<1> HIDE DEF y, c
<1>6. \A z : (GoodCoin(z)' <=> GoodCoin(z)) /\ (Consistent(z)' <=> Consistent(z))
  BY <1>2, <1>3 DEF GoodCoin, Consistent, ExpiredPrice
<1>7. (GoodCoin(y) <=> GoodCoin(x)) /\ (Consistent(y) <=> Consistent(x))
  BY <1>4 DEF GoodCoin, Consistent
<1>8. /\ Outstanding(c)' = (Outstanding(c) \ {x}) \cup {y}
      /\ \A d \in Clients \ {c} : Outstanding(d)' = Outstanding(d)
  <2>1. \A d : Outstanding(d)' = {z \in (chain.coins \cup {y}) \cup (chain.sent \ {x}) : z.who = d}
    BY <1>2 DEF Outstanding
  <2>2. \A d \in Clients \ {c} : Outstanding(d)' = Outstanding(d)
    BY <2>1, <1>4 DEF Outstanding, c
  <2>3. Outstanding(c)' = (Outstanding(c) \ {x}) \cup {y}
    BY <2>1, <1>4, <1>5 DEF Outstanding
  <2> QED BY <2>2, <2>3
\* The coin that z was before.
<1> DEFINE Was(z) == IF z = y THEN x ELSE z
<1>9. /\ \A z \in Offered(c)' : Was(z) \in Offered(c)
      /\ \A z \in Outstanding(c)' : Was(z) \in Outstanding(c)
      /\ \A d \in Clients \ {c} : Offered(d)' = Offered(d)
  BY <1>2, <1>5, <1>8 DEF Offered
<1>10. \A z : /\ Was(z).who = z.who /\ Was(z).buy = z.buy /\ Was(z).cexp = z.cexp /\ Was(z).price = z.price
              /\ (GoodCoin(Was(z)) <=> GoodCoin(z)) /\ (Consistent(Was(z)) <=> Consistent(z))
  BY <1>4, <1>7 DEF c
<1>11. \A z, w \in Outstanding(c)' : z # w => Was(z) # Was(w)
  BY <1>8
<1> HIDE DEF Was
<1>12. GoodOffers'
  <2>1. \A z \in Offered(c)' : z.who = c /\ GoodCoin(z)'
    <3> HIDE DEF GoodCoin
    <3> QED BY <1>4, <1>6, <1>9, <1>10 DEF IInv, GoodOffers
  <2>2. \A z, w \in Offered(c)' : z.buy = w.buy /\ z.cexp = w.cexp
    <3>1. \A z, w \in Offered(c) : z.buy = w.buy /\ z.cexp = w.cexp
      BY <1>4 DEF IInv, GoodOffers
    <3> QED BY <3>1, <1>9, <1>10
  <2>3. ASSUME NEW d \in Clients \ {c}
        PROVE  /\ \A z \in Offered(d)' : z.who = d /\ GoodCoin(z)'
               /\ \A z, w \in Offered(d)' : z.buy = w.buy /\ z.cexp = w.cexp
    BY <1>6, <1>9 DEF IInv, GoodOffers
  <2> QED BY <2>1, <2>2, <2>3 DEF GoodOffers
<1>13. Awaited'
  BY <1>1, <1>2, <1>3, AwaitedKept DEF IInv
<1>14. PricedNow'
  <2>1. ASSUME kind = "catalog", ~ work.named, NEW d \in Clients \ repriced, NEW z \in Offered(d)'
        PROVE  z.price = chain.price
    <3>1. CASE d = c
      BY <3>1, <2>1, <1>9, <1>10 DEF IInv, PricedNow
    <3>2. CASE d # c
      BY <3>2, <2>1, <1>9 DEF IInv, PricedNow
    <3> QED BY <3>1, <3>2
  <2> QED BY <2>1, <1>2, <1>3 DEF PricedNow
<1>15. OneConsistent'
  <2>1. \A d \in Clients : ByAmount(d)' <=> ByAmount(d)
    BY <1>3 DEF ByAmount
  <2>2. ASSUME NEW d \in Clients, ByAmount(d)', NEW z \in Outstanding(d)', NEW w \in Outstanding(d)', z # w
        PROVE  kind' = "expire" /\ (~ Consistent(z)' \/ ~ Consistent(w)')
    <3>1. CASE d = c
      <4>1. Was(z) \in Outstanding(c) /\ Was(w) \in Outstanding(c) /\ Was(z) # Was(w)
        BY <2>2, <3>1, <1>9, <1>11
      <4>2. kind = "expire" /\ (~ Consistent(Was(z)) \/ ~ Consistent(Was(w)))
        BY <4>1, <2>1, <2>2, <3>1 DEF IInv, OneConsistent
      <4> QED BY <4>2, <1>3, <1>6, <1>10
    <3>2. CASE d # c
      BY <3>2, <2>1, <2>2, <1>3, <1>6, <1>8 DEF IInv, OneConsistent
    <3> QED BY <3>1, <3>2
  <2>3. ASSUME NEW d \in Clients, ByAmount(d)', cmd'[d].pc = "pay", Outstanding(d)' # {}
        PROVE  kind' = "expire" /\ ~ Consistent(cmd[d].coin)'
    <3>1. Outstanding(d) # {}
      BY <1>5, <1>8, <2>3
    <3>2. kind = "expire" /\ ~ Consistent(cmd[d].coin)
      BY <3>1, <2>1, <2>3, <1>2 DEF IInv, OneConsistent
    <3> QED BY <3>2, <1>2, <1>3 DEF Consistent, ExpiredPrice
  <2> HIDE DEF Consistent
  <2> QED BY <2>2, <2>3 DEF OneConsistent
<1>16. GoodWaits'
  <2>1. Onward
    BY <1>2, ChainForms DEF Onward, IInv
  <2> QED BY <1>2, <2>1, WaitsKept DEF IInv, GoodWaits
<1> QED BY <1>12, <1>13, <1>14, <1>15, <1>16 DEF Rest

\* Time passes, or others use the registry or an NFT.
LEMMA OthersStep ==
    ASSUME IInv, Others \/ \E dt \in work.pace : Tick(dt)
    PROVE  Rest'
<1>1. ChainOK' /\ RunsOK'
  BY WorldTypes DEF IInv
<1>2. cmd' = cmd /\ work' = work /\ unaware' = unaware /\ repriced' = repriced
  BY DEF Others, Tick, world
<1>3. /\ chain'.coins = chain.coins /\ chain'.sent = chain.sent /\ chain'.price = chain.price
      /\ chain'.lease = chain.lease /\ chain'.updates = chain.updates
      /\ chain'.n \in {chain.n, chain.n + 1} /\ chain'.height \in {chain.height, chain.height + 1}
  <2> DEFINE Same == /\ chain'.coins = chain.coins /\ chain'.sent = chain.sent /\ chain'.price = chain.price
                     /\ chain'.lease = chain.lease /\ chain'.updates = chain.updates
                     /\ chain'.n \in {chain.n, chain.n + 1} /\ chain'.height \in {chain.height, chain.height + 1}
  <2>1. ASSUME Others PROVE Same
    BY <2>1 DEF Others, IInv, ChainOK
  <2>2. ASSUME NEW dt \in work.pace, Tick(dt) PROVE Same
    BY <2>2 DEF Tick, IInv, ChainOK
  <2> QED BY <2>1, <2>2
<1>4. chain.n \in Nat /\ chain.height \in Nat /\ chain.lease.exp \in Nat
  BY ChainForms DEF IInv
<1>5. Calm
  BY <1>2, <1>3, <1>4 DEF Calm
<1>6. GoodOffers' /\ PricedNow' /\ OneConsistent'
  BY <1>1, <1>5, CalmStep DEF IInv
<1>7. Awaited'
  BY <1>2, <1>3, AwaitedKept DEF IInv
<1>8. Onward
  BY <1>3, <1>4 DEF Onward
<1>9. GoodWaits'
  BY <1>2, <1>8, WaitsKept DEF IInv, GoodWaits
<1> QED BY <1>6, <1>7, <1>9 DEF Rest

\* The price changes for those who paid or are about to.
LEMMA PriceStep ==
    ASSUME IInv, NEW p \in Prices, PriceChange(p)
    PROVE  Rest'
<1>1. cmd' = cmd /\ work' = work /\ unaware' = unaware /\ kind' = kind
  BY DEF PriceChange, kind
<1>2. repriced' = repriced \cup {c \in Clients : cmd[c].pc = "pay" \/ Outstanding(c) # {}}
  BY DEF PriceChange
<1>3. /\ chain'.coins = chain.coins /\ chain'.sent = chain.sent /\ chain'.lease = chain.lease
      /\ chain'.updates = chain.updates /\ chain'.n = chain.n + 1 /\ chain'.height = chain.height
  BY DEF PriceChange, IInv, ChainOK
<1>4. chain.n \in Nat /\ chain.height \in Nat
  BY ChainForms DEF IInv
<1>5. \A c \in Clients : Outstanding(c)' = Outstanding(c) /\ Offered(c)' = Offered(c)
  BY <1>1, <1>3 DEF Outstanding, Offered
<1>6. \A y : (GoodCoin(y)' <=> GoodCoin(y)) /\ (Consistent(y)' <=> Consistent(y))
  BY <1>1, <1>3 DEF GoodCoin, Consistent, ExpiredPrice
<1>7. GoodOffers'
  <2> HIDE DEF GoodCoin
  <2> QED BY <1>5, <1>6 DEF IInv, GoodOffers
<1>8. Awaited'
  BY <1>1, <1>3, AwaitedKept DEF IInv
<1>9. PricedNow'
  <2>1. ASSUME NEW c \in Clients \ repriced'
        PROVE  Offered(c)' = {}
    BY <2>1, <1>2, <1>5 DEF Offered
  <2> QED BY <2>1 DEF PricedNow
<1>10. OneConsistent'
  <2>1. \A c \in Clients : ByAmount(c)' => ByAmount(c)
    BY <1>1, <1>2 DEF ByAmount
  <2>2. ASSUME NEW c \in Clients, ByAmount(c)', NEW x \in Outstanding(c)', NEW y \in Outstanding(c)', x # y
        PROVE  kind' = "expire" /\ (~ Consistent(x)' \/ ~ Consistent(y)')
    <3> HIDE DEF Consistent
    <3> QED BY <2>1, <2>2, <1>1, <1>5, <1>6 DEF IInv, OneConsistent
  <2>3. ASSUME NEW c \in Clients, ByAmount(c)', cmd'[c].pc = "pay", Outstanding(c)' # {}
        PROVE  kind' = "expire" /\ ~ Consistent(cmd[c].coin)'
    <3>1. kind = "expire" /\ ~ Consistent(cmd[c].coin)
      BY <2>1, <2>3, <1>1, <1>5 DEF IInv, OneConsistent
    <3> QED BY <3>1, <1>1 DEF Consistent, ExpiredPrice
  <2> HIDE DEF Consistent
  <2> QED BY <2>2, <2>3 DEF OneConsistent
<1>11. Onward
  BY <1>3, <1>4 DEF Onward
<1>12. GoodWaits'
  BY <1>1, <1>11, WaitsKept DEF IInv, GoodWaits
<1> QED BY <1>7, <1>8, <1>9, <1>10, <1>12 DEF Rest

-----------------------------------------------------------------------------
(* The theorems. *)

\* The invariant holds at first.
LEMMA InitIInv ==
    ASSUME Init
    PROVE  IInv
<1>1. /\ work \in Workloads /\ work.price \in Prices /\ work.owner \in Nfts /\ work.lease \in Nat
  BY ClientAssumption DEF Init
<1>2. /\ chain = [n |-> 0, price |-> work.price, lease |-> [owner |-> work.owner, exp |-> work.lease],
                  now |-> 1, height |-> 1, coins |-> {}, sent |-> {}, nft |-> [t \in Nfts |-> 1], updates |-> {}]
      /\ cmd = [c \in Clients |-> Idle] /\ paid = [c \in Clients |-> 0]
  BY DEF Init
<1>3. ChainOK
  BY <1>1, <1>2 DEF ChainOK
<1>4. RunsOK
  BY <1>2 DEF RunsOK
<1>5. \A c \in Clients : cmd[c].pc = "idle" /\ Outstanding(c) = {} /\ Offered(c) = {}
  BY <1>2 DEF Idle, Outstanding, Offered
<1>6. GoodOffers /\ Awaited /\ PricedNow /\ OneConsistent /\ GoodWaits /\ Births
  BY <1>2, <1>5 DEF GoodOffers, Awaited, PricedNow, OneConsistent, GoodWaits, Births
<1> QED BY <1>3, <1>4, <1>6 DEF IInv

\* Every step keeps the invariant.
LEMMA NextIInv ==
    ASSUME IInv, [Next]_vars
    PROVE  IInv'
<1>1. ASSUME Next
      PROVE  Rest'
  <2>1. ASSUME NEW c \in Clients, NEW refund \in BOOLEAN,
               xchandles_register(c, refund) \/ xchandles_expire(c, refund) \/ catalog_register(c, refund)
        PROVE  Rest'
    BY <2>1, RunStep DEF xchandles_register, xchandles_expire, catalog_register
  <2>2. ASSUME NEW c \in Clients,
               \/ \E new \in Nfts : xchandles_initiate_update(c, new) \/ xchandles_execute_update(c, new)
               \/ xchandles_extend(c)
        PROVE  Rest'
    BY <2>2, UpdateStep
  <2>3. ASSUME NEW c \in Clients, send_cat(c) \/ wait_for_coin(c) \/ Matures(c) \/ Push(c) \/ Stop(c)
        PROVE  Rest'
    BY <2>3, SendStep, EndStep, MaturesStep, PushStep
  <2>4. ASSUME NEW x \in chain.sent, Confirm(x) PROVE Rest'
    BY <2>4, ConfirmStep
  <2>5. ASSUME NEW p \in Prices, PriceChange(p) PROVE Rest'
    BY <2>5, PriceStep
  <2>6. ASSUME Others \/ \E dt \in work.pace : Tick(dt) PROVE Rest'
    BY <2>6, OthersStep
  <2> QED BY <1>1, <2>1, <2>2, <2>3, <2>4, <2>5, <2>6 DEF Next
<1>2. CASE Next
  BY <1>1, <1>2, TypesStep, BirthsStep DEF IInv, Rest
<1>3. CASE UNCHANGED vars
  <2>1. UNCHANGED <<work, chain, cmd, paid, unaware, repriced>>
    BY <1>3 DEF vars
  <2> QED BY <2>1 DEF IInv, ChainOK, RunsOK, Births, GoodOffers, Awaited, PricedNow, OneConsistent, GoodWaits,
                      Offered, Outstanding, GoodCoin, Consistent, ByAmount, GoodWait, kind
<1> QED BY <1>2, <1>3

\* What a client's coins and runs have in common, in every state.
THEOREM ClientInvariant == Spec => []IInv
<1>1. Init => IInv
  BY InitIInv
<1>2. IInv /\ [Next]_vars => IInv'
  BY NextIInv
<1> QED BY <1>1, <1>2, PTL DEF Spec

\* A client never has two payments out for one name (the search for the coin
\* of the run before, xchandles/register.rs, expire.rs, catalog/register.rs),
\* but for the three exceptions that OneOutstanding names.
THEOREM ClientOneOutstanding == Spec => []OneOutstanding
<1>1. IInv => OneOutstanding
  <2>1. SUFFICES ASSUME IInv, NEW c \in Clients, Cardinality(Outstanding(c)) > 1,
                        c \notin unaware, ~ (kind = "catalog" /\ ~ work.named /\ c \in repriced)
                 PROVE  kind = "expire" /\ \E x \in Outstanding(c) : ~ Consistent(x)
    BY DEF OneOutstanding
  <2>2. PICK x \in Outstanding(c), y \in Outstanding(c) : x # y
    <3>1. Outstanding(c) # {}
      BY <2>1, FS_EmptySet
    <3>2. PICK x \in Outstanding(c) : TRUE
      BY <3>1
    <3>3. Outstanding(c) # {x}
      BY <2>1, FS_Singleton
    <3> QED BY <3>2, <3>3
  <2> QED BY <2>1, <2>2 DEF IInv, OneConsistent, ByAmount
<1> QED BY <1>1, ClientInvariant, PTL

\* When a run pushes and neither the registry nor an NFT was spent since it
\* read them, its coin is there and has matured, and an update can be executed
\* (the waits of the register, expire, refund and execute-update commands).
THEOREM ClientReadyWhenPushed == Spec => []ReadyWhenPushed
<1>1. IInv => ReadyWhenPushed
  <2>1. SUFFICES ASSUME IInv, NEW c \in Clients, cmd[c].pc = "push", cmd[c].seen.n = chain.n,
                        cmd[c].nfts \subseteq fetch_nft_from_wallet(Nfts)
                 PROVE  CASE cmd[c].what \in {"register", "refund"} ->
                                cmd[c].x \in chain.coins /\ Matured(cmd[c].x)
                          [] cmd[c].what = "execute" ->
                                Active(chain.lease) /\ cmd[c].new = cmd[c].x.owner => Accepts(cmd[c])
                          [] OTHER -> TRUE
    BY Zenon DEF ReadyWhenPushed
  <2> DEFINE r == cmd[c]
  <2>2. GoodWait(c, r) /\ chain.height \in Nat /\ RelHeight \in Nat
    BY <2>1, ChainForms DEF IInv, GoodWaits
  <2>3. CASE r.what \in {"register", "refund"}
    <3>1. r.x \in chain.coins /\ chain.height >= r.until /\ r.until >= r.x.born + RelHeight
      BY <2>1, <2>2, <2>3 DEF GoodWait
    <3>2. r.until \in Nat /\ r.x.born \in Nat
      BY <2>1, <2>3, RunForms DEF IInv, Spending, Coin
    <3>3. r.x \in chain.coins /\ Matured(r.x)
      BY <2>2, <3>1, <3>2 DEF Matured
    <3> QED BY <2>3, <3>3
  <2>4. CASE r.what = "execute"
    <3>1. /\ r.x \in chain.updates /\ chain.height >= r.x.min
          /\ \E p \in r.nfts : p[1] = chain.lease.owner /\ r.x.initiator = <<p[1], p[2] - 1>>
      BY <2>1, <2>2, <2>4 DEF GoodWait
    <3>2. PICK p \in r.nfts : p[1] = chain.lease.owner /\ r.x.initiator = <<p[1], p[2] - 1>>
      BY <3>1
    <3>3. PICK t \in Nfts : p = <<t, chain.nft[t]>>
      BY <2>1, <3>2 DEF fetch_nft_from_wallet
    <3>4. p[1] = t /\ p[2] = chain.nft[t]
      BY <3>3
    <3>5. r.x.initiator = <<chain.lease.owner, chain.nft[chain.lease.owner] - 1>>
      BY <3>2, <3>4
    <3>6. Active(chain.lease) /\ r.new = r.x.owner => Accepts(r)
      BY <2>1, <2>4, <3>1, <3>5 DEF Accepts
    <3> QED BY <2>4, <3>6
  <2>5. CASE r.what \notin {"register", "refund", "execute"}
    BY <2>5
  <2> QED BY <2>3, <2>4, <2>5
<1> QED BY <1>1, ClientInvariant, PTL

\* The same arguments find a coin, and what they compute for it.
LEMMA FindsCoin ==
    ASSUME IInv, NEW x \in chain.coins, NEW refund \in BOOLEAN,
           Amount(x.who, refund) \in {Any, x.amount}
    PROVE  x \in precommit_coins(x.who, refund)
<1> DEFINE c == x.who
<1>1. c \in Clients /\ x \in Outstanding(c)
  BY ChainForms DEF IInv, Coin, Outstanding
<1>2. GoodCoin(x) /\ kind \in Kinds
  BY <1>1, OfferedType, ChainForms DEF IInv, GoodOffers
<1>3. /\ kind # "catalog" => BuyTime(c) = x.buy
      /\ kind = "expire" => CommittedExpiration(c) = x.cexp
  BY <1>1, SameTimes DEF IInv
<1>4. BuyTime(c) = x.buy
  BY <1>2, <1>3 DEF BuyTime, GoodCoin
<1>5. CommittedExpiration(c) = x.cexp
  <2>1. CASE kind = "expire"
    BY <2>1, <1>3
  <2>2. CASE kind # "expire"
    BY <2>2, <1>2 DEF CommittedExpiration, GoodCoin, Kinds
  <2> QED BY <2>1, <2>2
<1> QED BY <1>4, <1>5 DEF precommit_coins

\* A refund that names the slot exactly when the coin looks valid is accepted.
LEMMA RefundAccepted ==
    ASSUME NEW x, Matured(x), RefundSlot(Synced, x) <=> LooksValid(x),
           LooksValid(x) => chain.lease.exp > 0 /\ Active(chain.lease)
    PROVE  Refunds(x, RefundSlot(Synced, x))
<1>1. RefundSlot(Synced, x) = LooksValid(x)
  BY DEF RefundSlot, LooksValid
<1>2. RefundSlot(Synced, x) => chain.lease.exp > 0 /\ Active(chain.lease)
  OBVIOUS
<1> QED BY <1>1, <1>2, Zenon DEF Refunds

\* Money is never out of reach: a coin that has matured can be turned into the
\* name or taken back with the arguments of the first run, but for the
\* exceptions that Recoverable names (the refund branch of the three commands).
THEOREM ClientRecoverable == Spec => []Recoverable
<1>1. IInv => Recoverable
  <2>1. SUFFICES ASSUME IInv, NEW x \in chain.coins, Matured(x), ~ (x.buy > chain.now), ~ Stranded(x),
                        ~ (kind = "catalog" /\ ~ work.named /\ x.price # chain.price),
                        ~ (kind = "expire" /\ (~ Consistent(x) \/ (x.cexp < chain.lease.exp /\ chain.lease.exp <= x.buy)))
                 PROVE  \E refund \in BOOLEAN :
                           /\ Computable(x.who, refund) /\ x \in precommit_coins(x.who, refund)
                           /\ IF refund THEN Refunds(x, RefundSlot(Synced, x))
                              ELSE IF kind = "expire" THEN Expires(x) ELSE Registers(x)
    BY DEF Recoverable
  <2> DEFINE c == x.who
  <2>2. c \in Clients /\ x \in Outstanding(c) /\ x \in Coin /\ x.buy \in Nat /\ x.cexp \in Nat
    BY ChainForms, <2>1 DEF IInv, Coin, Outstanding
  <2>3. GoodCoin(x) /\ kind \in Kinds /\ chain.now \in Nat /\ chain.lease.exp \in Nat
    BY <2>2, OfferedType, ChainForms, <2>1 DEF IInv, GoodOffers
  <2>4. x.buy <= chain.now
    BY <2>1, <2>2, <2>3
  <2>5. Synced.price = chain.price
    BY DEF Synced
  <2>6. ASSUME NEW refund \in BOOLEAN, Amount(c, refund) \in {Any, x.amount}
        PROVE  x \in precommit_coins(c, refund)
    BY <2>1, <2>6, FindsCoin
  <2> HIDE DEF c
  <2>7. CASE kind \in {"register", "catalog"}
    <3>1. Amount(c, TRUE) = x.amount /\ Amount(c, FALSE) = x.amount /\ x.amount = <<x.price, 0>>
      BY <2>1, <2>3, <2>7 DEF Amount, GoodCoin
    <3>2. \A refund \in BOOLEAN : Computable(c, refund) /\ x \in precommit_coins(c, refund)
      <4>1. \A refund \in BOOLEAN : Computable(c, refund)
        BY <2>7 DEF Computable
      <4>2. x \in precommit_coins(c, TRUE) /\ x \in precommit_coins(c, FALSE)
        BY <2>6, <3>1
      <4> QED BY <4>1, <4>2
    <3>3. Consistent(x) /\ (LooksValid(x) <=> x.price = chain.price)
      BY <2>7, <3>1 DEF Consistent, LooksValid
    <3>4. RefundSlot(Synced, x) <=> LooksValid(x)
      <4>1. CASE kind = "register"
        BY <4>1, <2>3, <2>5, <3>3 DEF RefundSlot, GoodCoin
      <4>2. CASE kind = "catalog"
        <5>1. x.amount[1] = x.price
          BY <3>1
        <5> QED BY <5>1, <4>2, <2>5, <3>3 DEF RefundSlot
      <4> QED BY <2>7, <4>1, <4>2
    <3>5. CASE LooksValid(x) /\ chain.lease.exp = 0
      <4>1. Registers(x)
        BY <2>1, <2>4, <3>5 DEF Registers
      <4> QED BY <4>1, <3>2, <2>7 DEF c
    <3>6. CASE ~ LooksValid(x) \/ (chain.lease.exp > 0 /\ Active(chain.lease))
      <4>1. Refunds(x, RefundSlot(Synced, x))
        BY <2>1, <3>4, <3>6, RefundAccepted
      <4> QED BY <4>1, <3>2 DEF c
    <3>7. CASE LooksValid(x) /\ chain.lease.exp > 0 /\ ~ Active(chain.lease)
      <4>1. ~ Expires(x)
        BY <2>3, <2>7, <3>7 DEF Expires, GoodCoin
      <4> QED BY <4>1, <2>1, <3>7 DEF Stranded
    <3> QED BY <2>3, <3>5, <3>6, <3>7
  <2>8. CASE kind = "expire"
    <3>1. /\ Consistent(x) /\ x.price = work.price
          /\ 0 < x.cexp /\ x.cexp <= x.buy /\ x.cexp <= chain.lease.exp
          /\ ~ (x.cexp < chain.lease.exp /\ chain.lease.exp <= x.buy)
      BY <2>1, <2>3, <2>8 DEF GoodCoin
    <3>2. BuyTime(c) = x.buy
      BY <2>1, <2>2, <2>8, SameTimes DEF IInv
    <3>3. x.amount = <<work.price, x.buy - x.cexp>>
      BY <2>8, <3>1 DEF Consistent, ExpiredPrice
    <3>4. RefundSlot(Synced, x) <=> LooksValid(x)
      BY <2>5, <2>8, <3>1 DEF RefundSlot, LooksValid
    <3>5. CASE chain.lease.exp <= x.buy
      <4>1. x.cexp = chain.lease.exp
        BY <2>2, <2>3, <3>1, <3>5
      <4>2. ~ (chain.lease.exp > x.buy)
        BY <2>2, <2>3, <3>5
      <4>3. Amount(c, TRUE) = x.amount /\ Amount(c, FALSE) = x.amount
        BY <2>8, <3>2, <3>3, <4>1, <4>2 DEF Amount, ExpiredPrice
      <4>4. x \in precommit_coins(c, TRUE) /\ x \in precommit_coins(c, FALSE)
        BY <2>6, <4>3
      <4>5. \A refund \in BOOLEAN : Computable(c, refund)
        BY <2>2, <2>3, <3>1, <3>2, <3>5, <4>1 DEF Computable
      <4>6. CASE LooksValid(x)
        <5>1. Expires(x)
          BY <2>1, <2>2, <2>3, <2>4, <3>5, <4>1, <4>6 DEF Expires, Active
        <5> QED BY <5>1, <2>8, <4>4, <4>5 DEF c
      <4>7. CASE ~ LooksValid(x)
        <5>1. Refunds(x, RefundSlot(Synced, x))
          BY <2>1, <3>4, <4>7, RefundAccepted
        <5> QED BY <5>1, <4>4, <4>5 DEF c
      <4> QED BY <4>6, <4>7
    <3>6. CASE chain.lease.exp > x.buy
      <4>1. Amount(c, TRUE) = Any
        BY <2>8, <3>2, <3>6 DEF Amount
      <4>2. x \in precommit_coins(c, TRUE)
        BY <2>6, <4>1
      <4>3. Computable(c, TRUE)
        <5>1. chain.lease.exp > 0
          BY <2>2, <2>3, <3>6
        <5> QED BY <4>1, <5>1, Zenon DEF Computable
      <4>4. ~ Expires(x)
        BY <2>2, <2>3, <3>1, <3>6 DEF Expires
      <4>5. LooksValid(x) => chain.lease.exp > 0 /\ Active(chain.lease)
        BY <2>1, <2>2, <2>3, <3>6, <4>4 DEF Stranded
      <4>6. Refunds(x, RefundSlot(Synced, x))
        BY <2>1, <3>4, <4>5, RefundAccepted
      <4> QED BY <4>2, <4>3, <4>6 DEF c
    <3> QED BY <2>2, <2>3, <3>5, <3>6
  <2> QED BY <2>3, <2>7, <2>8 DEF Kinds
<1> QED BY <1>1, ClientInvariant, PTL
=============================================================================
