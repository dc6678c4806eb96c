-------------------------- MODULE DistributorProofs --------------------------
(***************************************************************************)
(* For every set of holders, assets and requests, and without the bounds   *)
(* of the runs: a holder's shares are the weights of what it has locked,   *)
(* what is locked can be taken out by its owner unless two commands raced  *)
(* to make its first entry, and only a command given an epoch that never   *)
(* comes searches for ever.                                                *)
(*                                                                         *)
(* The proofs rest on one observation about every view of the distributor: *)
(* the confirmed state, the pending one, and those that commands took a    *)
(* snapshot of.  Each of them is good by itself (balanced, its slots       *)
(* distinct, its epochs on the grid), a slot's number says whose it is in  *)
(* all of them, and the number of the slot that a command would make is in *)
(* none of them.  So a bundle that is put together from a snapshot and from *)
(* slots read later is still about the same holder.  A holder has one entry *)
(* in every view unless two of its commands raced, and a weight was read   *)
(* through a coin of the data store, which the bundle spends as well.      *)
(*                                                                         *)
(* Sums are those of CommonLemmas: the model folds over sets, and what is  *)
(* proved of a fold comes from the equation of its recursion.              *)
(***************************************************************************)
EXTENDS RewardDistributor, CommonLemmas

-----------------------------------------------------------------------------
\* The records the state is made of.

Slot == [who : Holders, shares : Nat, id : Nat]
Lock == [who : Holders \cup {Nobody}, shares : Nat]
Commitment == [who : Holders \cup Deposits, epoch : Int]
Coin == {"store", "vault"} \X Nat

DState ==
    [n : Int, last : Int, end : Int, top : Int, entries : SUBSET Slot, locked : [Assets -> Lock],
     commits : SUBSET Commitment, deposits : SUBSET Deposits, root : DOMAIN Listed,
     coin : [{"store", "vault"} -> Nat], done : SUBSET Nat]

OnGrid(e) == First <= e /\ (e - First) % EpochLen = 0

\* A state of the distributor that a bundle may lead to, for a distributor of type k.
Distinct(d) == \A e, f \in d.entries : e.id = f.id => e = f
Balanced(d) == \A w \in Holders : SharesOf(d, w) = LockedBy(d, w)
GoodState(k, d) ==
    /\ d \in DState
    /\ First <= d.last /\ d.last <= d.end /\ First <= d.top /\ OnGrid(d.end)
    /\ \A c \in d.commits : OnGrid(c.epoch)
    /\ IsFiniteSet(d.entries) /\ Distinct(d)
    /\ \A a \in Assets : d.locked[a].who = Nobody => d.locked[a] = Unlocked
    /\ k # "managed" => Balanced(d)

\* A bundle in the mempool, after n commands have started.
GoodItem(k, n, i) ==
    /\ GoodState(k, i.after)
    /\ i.base \in Nat /\ i.until \in Int /\ i.coins \subseteq Coin
    /\ i.txs # {} /\ i.txs \subseteq 1 .. n

\* What a command knows before it looks for slots (rs: the requests, m: the
\* number of the confirmed coin), and what it asks for then.
GoodAsk(k, rs, n, m, c) ==
    /\ c.t \in 1 .. n /\ c.req \in rs
    /\ c.base \in Nat /\ c.base <= m
    /\ GoodState(k, c.snap) /\ (c.item # NoItem => GoodItem(k, n, c.item))
    /\ c.sync \in Int /\ First <= c.sync /\ c.sync <= c.snap.end
    /\ c.req.cmd \in Staking => k # "managed"
    /\ c.req.cmd = "refresh" => k = "curated"
    /\ c.req.cmd \in EntryUpdates => k = "managed"

GoodUse(k, n, c) ==
    /\ c.use.entry \in 0 .. n /\ c.use.assets \subseteq Assets
    /\ c.use.shares \in Nat /\ c.use.coins \subseteq Coin /\ c.use.commit \subseteq Commitment
    /\ c.seen \in [Assets -> Lock]
    /\ c.req.cmd = "stake" => c.use.assets = {c.req.asset} /\ c.seen[c.req.asset] = Unlocked
    /\ c.req.cmd \in {"unstake", "refresh"} =>
         c.use.entry # 0 /\ \A a \in c.use.assets : c.seen[a].who = c.req.who
    /\ c.req.cmd \in {"stake", "refresh"} /\ k = "curated" =>
         /\ c.req.csv \in DOMAIN Listed /\ c.use.assets \subseteq DOMAIN Listed[c.req.csv]
         /\ c.req.cmd = "stake" => c.use.shares = Listed[c.req.csv][c.req.asset]
    /\ c.req.cmd \in {"commit_rewards", "commit_available"} =>
         c.use.commit # {} /\ \A x \in c.use.commit : OnGrid(x.epoch)

-----------------------------------------------------------------------------
\* The invariant.

ChainOK ==
    /\ work \in Workloads /\ now \in First .. MaxTime /\ cached \in BOOLEAN
    /\ started \in 0 .. MaxCommands /\ lost \subseteq 1 .. started /\ raced \subseteq Holders
    /\ GoodState(kind, chain) /\ -1 <= chain.n /\ chain.last <= now /\ chain.done \subseteq 1 .. started

\* The pending bundle spends the coins of the confirmed state, and the pending
\* update of the whitelist is none of its conflicts.
PoolOK ==
    /\ pool # NoItem => /\ GoodItem(kind, started, pool) /\ pool.after.last <= now
                        /\ pool.base = chain.n /\ Current(pool.coins)
    /\ store # NoItem => /\ kind = "curated" /\ store.txs # {} /\ store.txs \subseteq 1 .. started
                         /\ store.root \in DOMAIN Listed
                         /\ pool # NoItem => \A x \in pool.coins : x[1] # "store"

GoodCmd(k, rs, n, m, c) ==
    \/ c = Idle
    \/ c.pc = "find" /\ "pc" \in DOMAIN c /\ GoodAsk(k, rs, n, m, c)
    \/ c.pc = "push" /\ GoodAsk(k, rs, n, m, c) /\ GoodUse(k, n, c)
    \/ c.pc = "searching"
    \/ /\ c.pc = "publish" /\ k = "curated" /\ c.t \in 1 .. n /\ c.coin \in Nat
       /\ c.req.csv + 1 \in DOMAIN Listed
    \/ c.pc = "wait" /\ c.t \in 1 .. n
CmdOK ==
    /\ DOMAIN cmd = Procs
    /\ \A p \in Procs : GoodCmd(kind, work.requests, started, chain.n, cmd[p])

\* The slots of the states commands see: the confirmed one, the pending one,
\* and those they have taken a snapshot of.
Asking == {p \in Procs : cmd[p].pc \in {"find", "push"}}
Ledgers ==
    {chain.entries} \cup (IF pool = NoItem THEN {} ELSE {pool.after.entries})
    \cup {cmd[p].snap.entries : p \in Asking}

\* A slot's number says whose it is, in every ledger.
Owns(own) ==
    /\ \A E \in Ledgers : \A e \in E : own[e.id] = e.who
    /\ \A p \in Asking : own[cmd[p].t] = cmd[p].req.who
    /\ \A p \in Asking : cmd[p].pc = "push" /\ cmd[p].use.entry # 0 => own[cmd[p].use.entry] = cmd[p].req.who
Owned == \E own \in [Nat -> Holders \cup {Nobody}] : Owns(own)

\* The slot a command would make is not there yet.
Fresh ==
    /\ \A E \in Ledgers : \A e \in E : e.id \in 1 .. started
    /\ \A p \in Asking : \A E \in Ledgers : \A e \in E : e.id # cmd[p].t
    /\ \A p, q \in Asking : p # q => cmd[p].t # cmd[q].t

\* One entry a holder, but for the races.
Single1(E, w) == \A e, f \in E : e.who = w /\ f.who = w => e = f
OneEntry ==
    kind # "managed" =>
        /\ \A E \in Ledgers : \A w \in Holders \ raced : Single1(E, w)
        /\ \A p \in Asking : cmd[p].pc = "push" /\ cmd[p].req.cmd = "stake" /\ cmd[p].use.entry = 0
                               /\ cmd[p].base = chain.n => Entries(chain, cmd[p].req.who) = {}

\* What changed an asset's weight read the whitelist through a data store
\* coin, and is right as long as that coin is the last one.
AtRoot(l, a) == a \in DOMAIN Listed[chain.root] /\ l[a].shares = Listed[chain.root][a]
ReadThrough(coins, l) ==
    \A a \in Assets : l[a] # chain.locked[a] /\ l[a].who # Nobody =>
        \E x \in coins : x[1] = "store" /\ (x[2] = chain.coin["store"] => AtRoot(l, a))
CoinsOf(i) == IF i = NoItem THEN {} ELSE i.coins
Weighed ==
    kind = "curated" =>
        /\ \A a \in Assets : chain.locked[a].who # Nobody => a \in DOMAIN Listed[chain.root]
        /\ pool # NoItem => ReadThrough(pool.coins, pool.after.locked)
        /\ store # NoItem => DOMAIN Listed[chain.root] \subseteq DOMAIN Listed[store.root]
        /\ \A p \in Asking :
             /\ \A x \in CoinsOf(cmd[p].item) : x[2] <= chain.coin[x[1]]
             /\ cmd[p].base = chain.n => ReadThrough(CoinsOf(cmd[p].item), cmd[p].snap.locked)
        /\ \A p \in Asking : cmd[p].pc = "push" /\ cmd[p].req.cmd \in {"stake", "refresh"} =>
             \E x \in cmd[p].use.coins : /\ x[1] = "store" /\ x[2] <= chain.coin["store"]
                                         /\ x[2] = chain.coin["store"] => cmd[p].req.csv = chain.root
        /\ \A p \in Procs : cmd[p].pc = "publish" =>
             /\ cmd[p].coin <= chain.coin["store"]
             /\ cmd[p].coin = chain.coin["store"] =>
                  DOMAIN Listed[chain.root] \subseteq DOMAIN Listed[cmd[p].req.csv + 1]

IInv == ChainOK /\ PoolOK /\ CmdOK /\ Owned /\ Fresh /\ OneEntry /\ Weighed /\ SearchEnds

-----------------------------------------------------------------------------
\* Numbers.

\* The larger of two numbers.
LEMMA MaxPair ==
    ASSUME NEW x \in Int, NEW y \in Int
    PROVE  Max({x, y}) \in {x, y} /\ x <= Max({x, y}) /\ y <= Max({x, y})
<1>1. \E m \in {x, y} : \A n \in {x, y} : m >= n
  OBVIOUS
<1> QED BY <1>1 DEF Max

\* The smaller of two numbers.
LEMMA MinPair ==
    ASSUME NEW x \in Int, NEW y \in Int
    PROVE  Min({x, y}) \in {x, y} /\ Min({x, y}) <= x /\ Min({x, y}) <= y
<1>1. \E m \in {x, y} : \A n \in {x, y} : m <= n
  OBVIOUS
<1> QED BY <1>1 DEF Min

\* The ends of the first epoch are on the grid of epochs.
LEMMA Grid0 ==
    ASSUME NEW L \in Nat \ {0}
    PROVE  0 % L = 0 /\ L % L = 0
OBVIOUS

\* A multiple of L leaves no remainder.
LEMMA Multiple ==
    ASSUME NEW L \in Nat \ {0}, NEW q \in Int
    PROVE  (L * q) % L = 0
OBVIOUS

\* What leaves no remainder is a multiple of L.
LEMMA Quotient ==
    ASSUME NEW L \in Nat \ {0}, NEW x \in Int, x % L = 0
    PROVE  \E q \in Int : x = L * q
<1>1. x \div L \in Int
  OBVIOUS
<1>2. x = L * (x \div L) + (x % L)
  OBVIOUS
<1> QED BY <1>1, <1>2

\* The multiples of L are closed under addition, so that an epoch after one on the
\* grid is on the grid.
LEMMA Grid ==
    ASSUME NEW L \in Nat \ {0}, NEW x \in Int, NEW y \in Int, x % L = 0, y % L = 0
    PROVE  (x + y) % L = 0
<1>1. PICK q \in Int : x = L * q
  BY Quotient
<1>2. PICK r \in Int : y = L * r
  BY Quotient
<1>3. x + y = L * (q + r)
  BY <1>1, <1>2
<1> QED BY <1>3, Multiple

-----------------------------------------------------------------------------
\* The sums of the model are sums of functions: of the shares of slots, and of
\* the weights of assets.

Shares == [e \in Slot |-> e.shares]
Weights(l) == [a \in Assets |-> l[a].shares]
ListedAs(csv) == [a \in DOMAIN Listed[csv] |-> Listed[csv][a]]

\* The shares of a holder's entries.
LEMMA SharesAre ==
    ASSUME NEW d, IsFiniteSet(d.entries), d.entries \subseteq Slot, NEW w
    PROVE  SharesOf(d, w) = Sum(Shares, Entries(d, w))
<1> DEFINE S == Entries(d, w)
           f == Shares
           Step(g, s) == IF s = {} THEN 0 ELSE Pick(s).shares + g[s \ {Pick(s)}]
<1>0. IsFiniteSet(S) /\ \A x \in S : f[x] = x.shares /\ f[x] \in Int
  BY FS_Subset DEF Entries, Slot, Shares
<1> HIDE DEF S, f
<1>1. PICK g : IsSum(g, f, S)
  BY <1>0, SumTable
<1>2. \A k : [s \in SUBSET S |-> IF s = {} THEN 0 ELSE f[Pick(s)] + k[s \ {Pick(s)}]]
             = [s \in SUBSET S |-> Step(k, s)]
  <2>1. \A s \in SUBSET S : s # {} => f[Pick(s)] = Pick(s).shares
    <3>1. \A s \in SUBSET S : s # {} => Pick(s) \in S
      BY PickIn
    <3> QED BY <1>0, <3>1
  <2> QED BY <2>1
<1> DEFINE h == CHOOSE k : k = [s \in SUBSET S |-> Step(k, s)]
<1>3. h = [s \in SUBSET S |-> Step(h, s)]
  <2>1. g = [s \in SUBSET S |-> Step(g, s)]
    <3> HIDE DEF Step
    <3> QED BY <1>1, <1>2 DEF IsSum
  <2> HIDE DEF Step
  <2> QED BY <2>1
<1>4. SharesOf(d, w) = h[S]
  BY DEF SharesOf, MapThenSumSet, MapThenFoldSet, Pick, S
<1> HIDE DEF h
<1>5. IsSum(h, f, S)
  <2> HIDE DEF Step
  <2> QED BY <1>2, <1>3 DEF IsSum
<1>6. h[S] = Sum(f, S)
  BY <1>0, <1>5, SumIs
<1> QED BY <1>4, <1>6 DEF S, f

\* The weight locked for a holder.
LEMMA LockedAre ==
    ASSUME NEW d, d.locked \in [Assets -> Lock], IsFiniteSet(Assets), NEW w
    PROVE  LockedBy(d, w) = Sum(Weights(d.locked), Locks(d, w))
<1> DEFINE S == Locks(d, w)
           f == Weights(d.locked)
           Step(g, s) == IF s = {} THEN 0 ELSE d.locked[Pick(s)].shares + g[s \ {Pick(s)}]
<1>0. IsFiniteSet(S) /\ \A x \in S : f[x] = d.locked[x].shares /\ f[x] \in Int
  BY FS_Subset DEF Locks, Lock, Weights
<1> HIDE DEF S, f
<1>1. PICK g : IsSum(g, f, S)
  BY <1>0, SumTable
<1>2. \A k : [s \in SUBSET S |-> IF s = {} THEN 0 ELSE f[Pick(s)] + k[s \ {Pick(s)}]]
             = [s \in SUBSET S |-> Step(k, s)]
  <2>1. \A s \in SUBSET S : s # {} => f[Pick(s)] = d.locked[Pick(s)].shares
    <3>1. \A s \in SUBSET S : s # {} => Pick(s) \in S
      BY PickIn
    <3> QED BY <1>0, <3>1
  <2> QED BY <2>1
<1> DEFINE h == CHOOSE k : k = [s \in SUBSET S |-> Step(k, s)]
<1>3. h = [s \in SUBSET S |-> Step(h, s)]
  <2>1. g = [s \in SUBSET S |-> Step(g, s)]
    <3> HIDE DEF Step
    <3> QED BY <1>1, <1>2 DEF IsSum
  <2> HIDE DEF Step
  <2> QED BY <2>1
<1>4. LockedBy(d, w) = h[S]
  BY DEF LockedBy, MapThenSumSet, MapThenFoldSet, Pick, S
<1> HIDE DEF h
<1>5. IsSum(h, f, S)
  <2> HIDE DEF Step
  <2> QED BY <1>2, <1>3 DEF IsSum
<1>6. h[S] = Sum(f, S)
  BY <1>0, <1>5, SumIs
<1> QED BY <1>4, <1>6 DEF S, f

\* The weight of the assets a command uses.
LEMMA SeenIs ==
    ASSUME NEW c, c.seen \in [Assets -> Lock], IsFiniteSet(Assets), c.use.assets \subseteq Assets
    PROVE  Seen(c) = Sum(Weights(c.seen), c.use.assets)
<1> DEFINE S == c.use.assets
           f == Weights(c.seen)
           Step(g, s) == IF s = {} THEN 0 ELSE c.seen[Pick(s)].shares + g[s \ {Pick(s)}]
<1>0. IsFiniteSet(S) /\ \A x \in S : f[x] = c.seen[x].shares /\ f[x] \in Int
  BY FS_Subset DEF Lock, Weights
<1> HIDE DEF S, f
<1>1. PICK g : IsSum(g, f, S)
  BY <1>0, SumTable
<1>2. \A k : [s \in SUBSET S |-> IF s = {} THEN 0 ELSE f[Pick(s)] + k[s \ {Pick(s)}]]
             = [s \in SUBSET S |-> Step(k, s)]
  <2>1. \A s \in SUBSET S : s # {} => f[Pick(s)] = c.seen[Pick(s)].shares
    <3>1. \A s \in SUBSET S : s # {} => Pick(s) \in S
      BY PickIn
    <3> QED BY <1>0, <3>1
  <2> QED BY <2>1
<1> DEFINE h == CHOOSE k : k = [s \in SUBSET S |-> Step(k, s)]
<1>3. h = [s \in SUBSET S |-> Step(h, s)]
  <2>1. g = [s \in SUBSET S |-> Step(g, s)]
    <3> HIDE DEF Step
    <3> QED BY <1>1, <1>2 DEF IsSum
  <2> HIDE DEF Step
  <2> QED BY <2>1
<1>4. Seen(c) = h[S]
  BY DEF Seen, MapThenSumSet, MapThenFoldSet, Pick, S
<1> HIDE DEF h
<1>5. IsSum(h, f, S)
  <2> HIDE DEF Step
  <2> QED BY <1>2, <1>3 DEF IsSum
<1>6. h[S] = Sum(f, S)
  BY <1>0, <1>5, SumIs
<1> QED BY <1>4, <1>6 DEF S, f

\* The weights a command read in the CSV.
LEMMA RereadIs ==
    ASSUME NEW c, IsFiniteSet(Assets), c.use.assets \subseteq Assets, c.req.csv \in DOMAIN Listed,
           c.use.assets \subseteq DOMAIN Listed[c.req.csv], \A a \in c.use.assets : Listed[c.req.csv][a] \in Nat
    PROVE  Reread(c) = Sum(ListedAs(c.req.csv), c.use.assets)
<1> DEFINE S == c.use.assets
           f == ListedAs(c.req.csv)
           Step(g, s) == IF s = {} THEN 0 ELSE merkle_proof_for_nft(c.req, Pick(s)) + g[s \ {Pick(s)}]
<1>0. IsFiniteSet(S) /\ \A x \in S : f[x] = merkle_proof_for_nft(c.req, x) /\ f[x] \in Int
  BY FS_Subset DEF ListedAs, merkle_proof_for_nft
<1> HIDE DEF S, f
<1>1. PICK g : IsSum(g, f, S)
  BY <1>0, SumTable
<1>2. \A k : [s \in SUBSET S |-> IF s = {} THEN 0 ELSE f[Pick(s)] + k[s \ {Pick(s)}]]
             = [s \in SUBSET S |-> Step(k, s)]
  <2>1. \A s \in SUBSET S : s # {} => f[Pick(s)] = merkle_proof_for_nft(c.req, Pick(s))
    <3>1. \A s \in SUBSET S : s # {} => Pick(s) \in S
      BY PickIn
    <3> QED BY <1>0, <3>1
  <2> QED BY <2>1
<1> DEFINE h == CHOOSE k : k = [s \in SUBSET S |-> Step(k, s)]
<1>3. h = [s \in SUBSET S |-> Step(h, s)]
  <2>1. g = [s \in SUBSET S |-> Step(g, s)]
    <3> HIDE DEF Step
    <3> QED BY <1>1, <1>2 DEF IsSum
  <2> HIDE DEF Step
  <2> QED BY <2>1
<1>4. Reread(c) = h[S]
  BY DEF Reread, MapThenSumSet, MapThenFoldSet, Pick, S
<1> HIDE DEF h
<1>5. IsSum(h, f, S)
  <2> HIDE DEF Step
  <2> QED BY <1>2, <1>3 DEF IsSum
<1>6. h[S] = Sum(f, S)
  BY <1>0, <1>5, SumIs
<1> QED BY <1>4, <1>6 DEF S, f

-----------------------------------------------------------------------------
\* Slots and locks.

SharesIn(E, w) == Sum(Shares, {e \in E : e.who = w})
WeightOn(l, U, w) == Sum(Weights(l), {a \in U : l[a].who = w})
WeightIn(l, w) == WeightOn(l, Assets, w)

\* Balanced, said of the two parts it compares.
LEMMA BalancedIs ==
    ASSUME NEW d \in DState, IsFiniteSet(d.entries), IsFiniteSet(Assets)
    PROVE  Balanced(d) <=> \A w \in Holders : SharesIn(d.entries, w) = WeightIn(d.locked, w)
<1>1. d.entries \subseteq Slot /\ d.locked \in [Assets -> Lock]
  BY DEF DState
<1>2. ASSUME NEW w \in Holders
      PROVE  SharesOf(d, w) = SharesIn(d.entries, w) /\ LockedBy(d, w) = WeightIn(d.locked, w)
  <2>1. SharesOf(d, w) = Sum(Shares, Entries(d, w)) /\ LockedBy(d, w) = Sum(Weights(d.locked), Locks(d, w))
    BY <1>1, SharesAre, LockedAre
  <2> QED BY <2>1 DEF SharesIn, WeightIn, WeightOn, Entries, Locks
<1> QED BY <1>2 DEF Balanced

\* Values of shares and weights.
LEMMA Values ==
    /\ \A e \in Slot : Shares[e] = e.shares /\ Shares[e] \in Nat
    /\ \A l \in [Assets -> Lock] : \A a \in Assets : Weights(l)[a] = l[a].shares /\ Weights(l)[a] \in Nat
BY DEF Shares, Slot, Weights, Lock

\* A new slot adds its shares to its holder's.
LEMMA AddSlot ==
    ASSUME NEW E, IsFiniteSet(E), E \subseteq Slot, NEW e \in Slot, e \notin E, NEW w
    PROVE  /\ IsFiniteSet(E \cup {e}) /\ SharesIn(E, w) \in Nat
           /\ SharesIn(E \cup {e}, w) = SharesIn(E, w) + (IF e.who = w THEN e.shares ELSE 0)
<1> DEFINE S == {x \in E : x.who = w}
<1>1. IsFiniteSet(S) /\ IsFiniteSet(E \cup {e}) /\ S \subseteq Slot /\ e \notin S
  BY FS_Subset, FS_AddElement
<1>2. Sum(Shares, S) \in Nat
  <2> HIDE DEF S
  <2>1. \A x \in S : Shares[x] \in Nat
    BY <1>1, Values
  <2> QED BY <1>1, <2>1, SumBounds
<1>3. CASE e.who = w
  <2>1. {x \in E \cup {e} : x.who = w} = S \cup {e}
    BY <1>3
  <2>2. Sum(Shares, S \cup {e}) = Sum(Shares, S) + Shares[e]
    <3> HIDE DEF S
    <3>1. \A x \in S \cup {e} : Shares[x] \in Int
      BY <1>1, Values
    <3> QED BY <1>1, <3>1, SumAdd
  <2>3. Shares[e] = e.shares
    BY Values
  <2> QED BY <1>1, <1>2, <1>3, <2>1, <2>2, <2>3 DEF SharesIn
<1>4. CASE e.who # w
  <2>1. {x \in E \cup {e} : x.who = w} = S
    BY <1>4
  <2>2. SharesIn(E \cup {e}, w) = SharesIn(E, w) /\ SharesIn(E, w) \in Nat
    BY <1>2, <2>1 DEF SharesIn
  <2> QED BY <1>1, <1>4, <2>2
<1> QED BY <1>3, <1>4

\* A slot removed takes its shares from its holder's.
LEMMA RemoveSlot ==
    ASSUME NEW E, IsFiniteSet(E), E \subseteq Slot, NEW e \in E, NEW w
    PROVE  /\ IsFiniteSet(E \ {e}) /\ SharesIn(E \ {e}, w) \in Nat
           /\ SharesIn(E \ {e}, w) = SharesIn(E, w) - (IF e.who = w THEN e.shares ELSE 0)
<1>1. IsFiniteSet(E \ {e})
  BY FS_RemoveElement
<1>2. /\ SharesIn(E \ {e}, w) \in Nat
      /\ SharesIn((E \ {e}) \cup {e}, w) = SharesIn(E \ {e}, w) + (IF e.who = w THEN e.shares ELSE 0)
  <2>1. e \in Slot /\ e \notin E \ {e} /\ E \ {e} \subseteq Slot
    OBVIOUS
  <2> QED BY <1>1, <2>1, AddSlot
<1>3. (E \ {e}) \cup {e} = E
  OBVIOUS
<1>4. e.shares \in Nat
  BY DEF Slot
<1> QED BY <1>1, <1>2, <1>3, <1>4

\* A slot made again with other shares.
Remade(S, e, n) == (S \ {e}) \cup {[e EXCEPT !.shares = n]}

\* Making a slot again changes its shares only: the same holder, the same number, no
\* second slot of that number, and a sum that differs by the change.
LEMMA ReplaceSlot ==
    ASSUME NEW d \in DState, IsFiniteSet(d.entries), Distinct(d), NEW e \in d.entries, NEW n \in Nat
    PROVE  /\ Remade(d.entries, e, n) \subseteq Slot /\ IsFiniteSet(Remade(d.entries, e, n))
           /\ \A x, y \in Remade(d.entries, e, n) : x.id = y.id => x = y
           /\ \A x \in Remade(d.entries, e, n) : \E y \in d.entries : y.id = x.id /\ y.who = x.who
           /\ \A w : SharesIn(Remade(d.entries, e, n), w) = SharesIn(d.entries, w) + (IF e.who = w THEN n - e.shares ELSE 0)
           /\ \A w : Single1(d.entries, w) => Single1(Remade(d.entries, e, n), w)
<1> DEFINE f == [e EXCEPT !.shares = n]
           R == d.entries \ {e}
           E == R \cup {f}
<1>1. d.entries \subseteq Slot
  BY DEF DState
<1>2. f \in Slot /\ f.who = e.who /\ f.id = e.id /\ f.shares = n /\ e.shares \in Nat
  BY <1>1 DEF Slot
<1>3. \A x \in R : x.id # e.id
  BY DEF Distinct
<1>4. f \notin R
  BY <1>2, <1>3
<1> HIDE DEF f
<1>5. E \subseteq Slot /\ \A x, y \in E : x.id = y.id => x = y
  BY <1>1, <1>2, <1>3 DEF f, Distinct
<1>6. \A x \in E : \E y \in d.entries : y.id = x.id /\ y.who = x.who
  BY <1>2 DEF f
<1>7. IsFiniteSet(R) /\ IsFiniteSet(E)
  BY FS_RemoveElement, FS_AddElement
<1>8. ASSUME NEW w
      PROVE  SharesIn(E, w) = SharesIn(d.entries, w) + (IF e.who = w THEN n - e.shares ELSE 0)
  <2>1. SharesIn(R, w) \in Nat /\ SharesIn(R, w) = SharesIn(d.entries, w) - (IF e.who = w THEN e.shares ELSE 0)
    BY <1>1, RemoveSlot
  <2>2. SharesIn(R \cup {f}, w) = SharesIn(R, w) + (IF f.who = w THEN f.shares ELSE 0)
    <3>1. R \subseteq Slot
      BY <1>1
    <3> HIDE DEF R
    <3> QED BY <1>2, <1>4, <1>7, <3>1, AddSlot
  <2>3. SharesIn(d.entries, w) \in Int
    <3>1. IsFiniteSet(d.entries)
      OBVIOUS
    <3>2. IsFiniteSet({x \in d.entries : x.who = w}) /\ {x \in d.entries : x.who = w} \subseteq Slot
      BY <1>1, FS_Subset
    <3>3. \A x \in {z \in d.entries : z.who = w} : Shares[x] \in Int
      BY <3>2, Values
    <3> QED BY <3>2, <3>3, SumInt DEF SharesIn
  <2>4. E = R \cup {f}
    BY DEF f
  <2> DEFINE I == SharesIn(d.entries, w)
             J == SharesIn(R, w)
             K == SharesIn(E, w)
  <2>5. K = J + (IF e.who = w THEN n ELSE 0)
    BY <1>2, <2>2, <2>4
  <2> HIDE DEF I, J, K
  <2>6. J \in Int /\ I \in Int /\ J = I - (IF e.who = w THEN e.shares ELSE 0)
    BY <2>1, <2>3 DEF I, J
  <2>7. K = I + (IF e.who = w THEN n - e.shares ELSE 0)
    BY <1>2, <2>5, <2>6
  <2> QED BY <2>7 DEF I, K
<1>9. ASSUME NEW w, Single1(d.entries, w) PROVE Single1(E, w)
  BY <1>2, <1>9 DEF Single1, f
<1>10. Remade(d.entries, e, n) = E
  BY DEF Remade, f
<1> HIDE DEF E
<1> QED BY <1>5, <1>6, <1>7, <1>8, <1>9, <1>10

\* Locks changed on some assets only: what the others weigh for a holder stays.
LEMMA Relock ==
    ASSUME IsFiniteSet(Assets), NEW l \in [Assets -> Lock], NEW m \in [Assets -> Lock],
           NEW U \in SUBSET Assets, \A a \in Assets \ U : m[a] = l[a], NEW w
    PROVE  /\ WeightIn(l, w) \in Nat /\ WeightIn(m, w) \in Nat
           /\ WeightOn(l, U, w) \in Nat /\ WeightOn(m, U, w) \in Nat
           /\ WeightIn(m, w) - WeightOn(m, U, w) = WeightIn(l, w) - WeightOn(l, U, w)
<1>1. ASSUME NEW k \in [Assets -> Lock]
      PROVE  /\ WeightIn(k, w) \in Nat /\ WeightOn(k, U, w) \in Nat /\ WeightOn(k, Assets \ U, w) \in Nat
             /\ WeightIn(k, w) = WeightOn(k, U, w) + WeightOn(k, Assets \ U, w)
  <2> DEFINE S == {a \in Assets : k[a].who = w}
             V == {a \in U : k[a].who = w}
             R == {a \in Assets \ U : k[a].who = w}
  <2>1. IsFiniteSet(S) /\ IsFiniteSet(V) /\ IsFiniteSet(R)
    BY FS_Subset
  <2>2. V \subseteq S /\ R = S \ V
    OBVIOUS
  <2>3. /\ \A a \in S : Weights(k)[a] \in Nat
        /\ \A a \in V : Weights(k)[a] \in Nat
        /\ \A a \in R : Weights(k)[a] \in Nat
    BY Values
  <2> HIDE DEF S, V, R
  <2>4. Sum(Weights(k), S) = Sum(Weights(k), V) + Sum(Weights(k), R)
    BY <2>1, <2>2, <2>3, SumSplit
  <2>5. Sum(Weights(k), S) \in Nat /\ Sum(Weights(k), V) \in Nat /\ Sum(Weights(k), R) \in Nat
    BY <2>1, <2>3, SumBounds
  <2> QED BY <2>4, <2>5 DEF S, V, R, WeightIn, WeightOn
<1>2. WeightOn(m, Assets \ U, w) = WeightOn(l, Assets \ U, w)
  <2> DEFINE R == {a \in Assets \ U : l[a].who = w}
  <2>1. {a \in Assets \ U : m[a].who = w} = R
    OBVIOUS
  <2>2. IsFiniteSet(R)
    BY FS_Subset
  <2>3. \A a \in R : Weights(m)[a] \in Int /\ Weights(m)[a] = Weights(l)[a]
    BY Values
  <2> HIDE DEF R
  <2>4. Sum(Weights(m), R) = Sum(Weights(l), R)
    BY <2>2, <2>3, SumSame
  <2> QED BY <2>1, <2>4 DEF R, WeightOn
<1> QED BY <1>1, <1>2

\* The grid of epochs.
LEMMA GridNext ==
    ASSUME NEW e \in Int, OnGrid(e)
    PROVE  OnGrid(e + EpochLen)
<1> DEFINE L == EpochLen
<1>1. L \in Nat \ {0} /\ First \in Nat
  BY DistributorAssumption
<1>2. L % L = 0 /\ e - First \in Int /\ (e - First) % L = 0 /\ L \in Int
  BY <1>1, Grid0 DEF OnGrid
<1> HIDE DEF L
<1>3. ((e - First) + L) % L = 0
  BY <1>1, <1>2, Grid
<1>4. (e - First) + L = (e + L) - First /\ First <= e + L
  BY <1>1 DEF OnGrid
<1> QED BY <1>3, <1>4 DEF OnGrid, L

\* An epoch at a whole number of epochs from one on the grid is on the grid.
LEMMA GridUp ==
    ASSUME NEW e \in Int, First <= e, (e - First) % EpochLen = 0,
           NEW epoch \in Int, e <= epoch, (epoch - e) % EpochLen = 0
    PROVE  OnGrid(epoch)
<1>1. EpochLen \in Nat \ {0} /\ First \in Nat
  BY DistributorAssumption
<1>2. e - First \in Int /\ epoch - e \in Int
  BY <1>1
<1>3. ((e - First) + (epoch - e)) % EpochLen = 0
  BY <1>1, <1>2, Grid
<1>4. (e - First) + (epoch - e) = epoch - First /\ First <= epoch
  BY <1>1
<1> QED BY <1>3, <1>4 DEF OnGrid

-----------------------------------------------------------------------------
\* What a bundle makes of the state it is built on.

Ids(d) == {e.id : e \in d.entries}

\* A command that is about to push, and whose slot and assets are still there.
Ready(c) ==
    /\ work \in Workloads /\ GoodAsk(kind, work.requests, started, chain.n, c) /\ GoodUse(kind, started, c) /\ HasEntry(c)
    /\ \A a \in c.use.assets : c.snap.locked[a] = c.seen[a]
    /\ c.t \notin Ids(c.snap)
    /\ \A e \in c.snap.entries : e.id = c.use.entry => e.who = c.req.who

\* The slots of a state come from the state before, or are the command's own.
Inherits(c, d) ==
    \A e \in d.entries : \/ \E f \in c.snap.entries : f.id = e.id /\ f.who = e.who
                         \/ e.id = c.t /\ e.who = c.req.who

KeepsSingle(c, d) ==
    \A w : /\ Single1(c.snap.entries, w)
           /\ c.req.cmd = "stake" /\ c.use.entry = 0 /\ w = c.req.who => Entries(c.snap, w) = {}
           => Single1(d.entries, w)

KeepsWeights(c, d) ==
    \A a \in Assets : d.locked[a] # c.snap.locked[a] /\ d.locked[a].who # Nobody =>
        /\ c.req.cmd \in {"stake", "refresh"}
        /\ kind = "curated" => /\ a \in DOMAIN Listed[c.req.csv]
                               /\ d.locked[a].shares = Listed[c.req.csv][a]

Follows(c, d) ==
    /\ d \in DState /\ GoodState(kind, [d EXCEPT !.last = c.sync])
    /\ Inherits(c, d) /\ KeepsWeights(c, d) /\ (kind # "managed" => KeepsSingle(c, d))

\* What the assumption says of a request.
LEMMA RequestType ==
    ASSUME work \in Workloads, NEW r \in work.requests
    PROVE  /\ kind \in Kinds /\ r.who \in Holders /\ r.who # Nobody /\ r.asset \in Assets /\ r.epoch \in Nat
           /\ kind \in {"cat", "managed"} => r.asset \in DOMAIN Listed[1]
BY DistributorAssumption DEF kind

\* What the proofs use of the constants.
LEMMA Constants ==
    /\ \A w \in Holders : w # Nobody
    /\ IsFiniteSet(Assets)
    /\ First \in Nat /\ EpochLen \in Nat \ {0} /\ Slack \in Nat /\ MaxOffset \in Nat
    /\ 1 \in DOMAIN Listed
BY DistributorAssumption

\* A listed asset is an asset and its weight is a number of shares.
LEMMA ListedNat ==
    ASSUME NEW v \in DOMAIN Listed, NEW a \in DOMAIN Listed[v]
    PROVE  a \in Assets /\ Listed[v][a] \in Nat
BY DistributorAssumption

\* The sum over one element.
LEMMA SumOne ==
    ASSUME NEW f, NEW x, f[x] \in Int
    PROVE  Sum(f, {x}) = f[x]
<1>1. Sum(f, {x}) = f[x] + Sum(f, {x} \ {x})
  BY FS_Singleton, SumRemove
<1>2. {x} \ {x} = {}
  OBVIOUS
<1> QED BY <1>1, <1>2, SumEmpty

\* The slot a command uses.
LEMMA EntryIs ==
    ASSUME NEW c, Ready(c), c.use.entry # 0
    PROVE  /\ Entry(c) \in c.snap.entries /\ Entry(c).id = c.use.entry /\ Entry(c).who = c.req.who
           /\ Entry(c) \in Slot
<1>1. Entry(c) \in c.snap.entries /\ Entry(c).id = c.use.entry
  BY DEF Ready, HasEntry, Entry
<1>2. c.snap.entries \subseteq Slot
  BY DEF Ready, GoodAsk, GoodState, DState
<1> QED BY <1>1, <1>2 DEF Ready

\* A state whose parts are in order and whose other parts are those of s.
LEMMA GoodChange ==
    ASSUME NEW s, GoodState(kind, s), NEW d \in DState, NEW n \in Int, First <= n, n <= s.end,
           d.end = s.end, d.top = s.top, d.commits = s.commits,
           IsFiniteSet(d.entries), Distinct(d),
           \A a \in Assets : d.locked[a].who = Nobody => d.locked[a] = Unlocked,
           kind # "managed" => \A w \in Holders : SharesIn(d.entries, w) = WeightIn(d.locked, w)
    PROVE  GoodState(kind, [d EXCEPT !.last = n])
<1> DEFINE e == [d EXCEPT !.last = n]
<1>1. /\ e \in DState /\ e.last = n /\ e.end = s.end /\ e.top = s.top /\ e.commits = s.commits
      /\ e.entries = d.entries /\ e.locked = d.locked
  BY DEF DState
<1> HIDE DEF e
<1>2. kind # "managed" => Balanced(e)
  BY <1>1, BalancedIs, Constants
<1>3. Distinct(e)
  BY <1>1 DEF Distinct
<1> SUFFICES GoodState(kind, e)
  BY DEF e
<1> QED BY <1>1, <1>2, <1>3 DEF GoodState

\* A good state is balanced part by part.
LEMMA GoodParts ==
    ASSUME NEW s, GoodState(kind, s)
    PROVE  /\ s \in DState /\ s.entries \subseteq Slot /\ IsFiniteSet(s.entries) /\ Distinct(s)
           /\ s.locked \in [Assets -> Lock] /\ First <= s.end /\ s.end \in Int
           /\ \A a \in Assets : s.locked[a].who = Nobody => s.locked[a] = Unlocked
           /\ kind # "managed" => \A w \in Holders : SharesIn(s.entries, w) = WeightIn(s.locked, w)
           /\ \A w : SharesIn(s.entries, w) \in Nat /\ WeightIn(s.locked, w) \in Nat
<1>1. s \in DState /\ s.entries \subseteq Slot /\ IsFiniteSet(s.entries) /\ s.locked \in [Assets -> Lock]
  BY DEF GoodState, DState
<1>2. kind # "managed" => \A w \in Holders : SharesIn(s.entries, w) = WeightIn(s.locked, w)
  BY <1>1, BalancedIs, Constants DEF GoodState
<1>3. First <= s.end /\ s.end \in Int
  BY DistributorAssumption DEF GoodState, OnGrid, DState
<1>4. ASSUME NEW w PROVE SharesIn(s.entries, w) \in Nat /\ WeightIn(s.locked, w) \in Nat
  <2>1. WeightIn(s.locked, w) \in Nat
    BY <1>1, Relock, Constants
  <2> DEFINE S == {e \in s.entries : e.who = w}
  <2>2. IsFiniteSet(S) /\ S \subseteq Slot
    BY <1>1, FS_Subset
  <2> HIDE DEF S
  <2>3. \A e \in S : Shares[e] \in Nat
    BY <2>2, Values
  <2>4. Sum(Shares, S) \in Nat
    BY <2>2, <2>3, SumBounds
  <2> QED BY <2>1, <2>4 DEF SharesIn, S
<1> QED BY <1>1, <1>2, <1>3, <1>4 DEF GoodState

\* What is locked on a set of assets that are all one holder's.
LEMMA AllOf ==
    ASSUME NEW l, NEW U, NEW w, \A a \in U : l[a].who = w
    PROVE  /\ WeightOn(l, U, w) = Sum(Weights(l), U)
           /\ \A v : w # v => WeightOn(l, U, v) = 0
<1>1. {a \in U : l[a].who = w} = U
  OBVIOUS
<1>2. ASSUME NEW v, w # v PROVE WeightOn(l, U, v) = 0
  <2>1. {a \in U : l[a].who = v} = {}
    BY <1>2
  <2> QED BY <2>1, SumEmpty DEF WeightOn
<1> QED BY <1>1, <1>2 DEF WeightOn

\* The lock of one asset for a holder adds its weight to the holder's.
LEMMA StakeWeight ==
    ASSUME IsFiniteSet(Assets), NEW l \in [Assets -> Lock], NEW a \in Assets, l[a] = Unlocked,
           NEW w \in Holders, NEW x \in Nat, NEW m,
           m = [l EXCEPT ![a] = [who |-> w, shares |-> x]], NEW v \in Holders
    PROVE  WeightIn(m, v) = WeightIn(l, v) + (IF w = v THEN x ELSE 0)
<1> DEFINE U == {a}
<1>1. m \in [Assets -> Lock] /\ m[a].who = w /\ m[a].shares = x /\ \A b \in Assets \ U : m[b] = l[b]
  BY DEF Lock
<1>2. U \in SUBSET Assets /\ (\A b \in U : m[b].who = w) /\ \A b \in U : l[b].who = Nobody
  BY <1>1 DEF Unlocked
<1>3. Sum(Weights(m), U) = x
  <2>1. Weights(m)[a] = x
    BY <1>1, Values
  <2> QED BY <2>1, SumOne
<1> HIDE DEF U
<1>4. /\ WeightIn(l, v) \in Nat /\ WeightIn(m, v) \in Nat
      /\ WeightIn(m, v) - WeightOn(m, U, v) = WeightIn(l, v) - WeightOn(l, U, v)
  <2>1. U \in SUBSET Assets /\ IsFiniteSet(Assets) /\ l \in [Assets -> Lock]
    BY <1>2
  <2> QED BY ONLY <1>1, <2>1, Relock
<1>5. WeightOn(l, U, v) = 0
  <2>1. Nobody # v /\ \A b \in U : l[b].who = Nobody
    BY <1>2, Constants
  <2> QED BY <2>1, AllOf
<1>6. WeightOn(m, U, v) = IF w = v THEN x ELSE 0
  BY <1>2, <1>3, AllOf
<1> QED BY <1>4, <1>5, <1>6

\* The assets of one holder unlocked take their weight from the holder's.
LEMMA UnstakeWeight ==
    ASSUME IsFiniteSet(Assets), NEW l \in [Assets -> Lock], NEW U \in SUBSET Assets, NEW w \in Holders,
           \A a \in U : l[a].who = w, NEW m,
           m = [a \in Assets |-> IF a \in U THEN Unlocked ELSE l[a]], NEW v \in Holders
    PROVE  WeightIn(m, v) = WeightIn(l, v) - (IF w = v THEN Sum(Weights(l), U) ELSE 0)
<1>1. m \in [Assets -> Lock] /\ (\A b \in Assets \ U : m[b] = l[b]) /\ \A b \in U : m[b].who = Nobody
  BY DEF Lock, Unlocked
<1>2. /\ WeightIn(l, v) \in Nat /\ WeightIn(m, v) \in Nat
      /\ WeightIn(m, v) - WeightOn(m, U, v) = WeightIn(l, v) - WeightOn(l, U, v)
      /\ WeightOn(l, U, v) \in Nat
  BY <1>1, Relock
<1>3. WeightOn(m, U, v) = 0
  <2>1. Nobody # v /\ \A b \in U : m[b].who = Nobody
    BY <1>1, Constants
  <2> QED BY ONLY <2>1, AllOf
<1>4. WeightOn(l, U, v) = IF w = v THEN Sum(Weights(l), U) ELSE 0
  BY AllOf
<1> QED BY <1>2, <1>3, <1>4

\* Locks with the weights of some assets replaced.
Reweighed(l, U, f) ==
    [a \in Assets |-> IF a \in U THEN [l[a] EXCEPT !.shares = f[a]] ELSE l[a]]

\* New weights for assets of one holder replace the old ones in the holder's.
LEMMA RefreshWeight ==
    ASSUME IsFiniteSet(Assets), NEW l \in [Assets -> Lock], NEW U \in SUBSET Assets, NEW w \in Holders,
           \A a \in U : l[a].who = w, NEW f, \A a \in U : f[a] \in Nat, NEW v \in Holders
    PROVE  WeightIn(Reweighed(l, U, f), v) = WeightIn(l, v) + (IF w = v THEN Sum(f, U) - Sum(Weights(l), U) ELSE 0)
<1> DEFINE m == Reweighed(l, U, f)
<1>1. /\ m \in [Assets -> Lock] /\ \A b \in Assets \ U : m[b] = l[b]
      /\ \A b \in U : m[b].who = w /\ m[b].shares = f[b]
  BY DEF Lock, Reweighed
<1> HIDE DEF m
<1>2. /\ WeightIn(l, v) \in Nat /\ WeightIn(m, v) \in Nat
      /\ WeightIn(m, v) - WeightOn(m, U, v) = WeightIn(l, v) - WeightOn(l, U, v)
      /\ WeightOn(l, U, v) \in Nat /\ WeightOn(m, U, v) \in Nat
  BY <1>1, Relock
<1>3. Sum(Weights(m), U) = Sum(f, U)
  <2>1. \A b \in U : Weights(m)[b] \in Nat /\ Weights(m)[b] = m[b].shares
    BY <1>1, Values
  <2>2. \A b \in U : Weights(m)[b] \in Int /\ Weights(m)[b] = f[b]
    BY <1>1, <2>1
  <2>3. IsFiniteSet(U)
    BY FS_Subset
  <2> QED BY <2>2, <2>3, SumSame
<1>4. WeightOn(l, U, v) = IF w = v THEN Sum(Weights(l), U) ELSE 0
  BY AllOf
<1>5. WeightOn(m, U, v) = IF w = v THEN Sum(f, U) ELSE 0
  <2>1. \A b \in U : m[b].who = w
    BY <1>1
  <2> QED BY ONLY <1>3, <2>1, AllOf
<1> DEFINE A == WeightIn(m, v)
           B == WeightIn(l, v)
<1> HIDE DEF A, B
<1>6. A - WeightOn(m, U, v) = B - WeightOn(l, U, v) /\ A \in Nat /\ B \in Nat
  BY <1>2 DEF A, B
<1>7. A = B + (IF w = v THEN Sum(f, U) - Sum(Weights(l), U) ELSE 0)
  BY <1>2, <1>4, <1>5, <1>6
<1> QED BY <1>7 DEF A, B, m

\* The slots after a command has changed the shares of the slot it uses.
LEMMA WithSharesIs ==
    ASSUME NEW c, Ready(c), c.use.entry # 0, NEW n \in Nat
    PROVE  /\ WithShares(c, n) \subseteq Slot /\ IsFiniteSet(WithShares(c, n))
           /\ \A y, z \in WithShares(c, n) : y.id = z.id => y = z
           /\ \A y \in WithShares(c, n) : \E z \in c.snap.entries : z.id = y.id /\ z.who = y.who
           /\ \A v : SharesIn(WithShares(c, n), v)
                      = SharesIn(c.snap.entries, v) + (IF c.req.who = v THEN n - Entry(c).shares ELSE 0)
           /\ \A v : Single1(c.snap.entries, v) => Single1(WithShares(c, n), v)
<1> DEFINE s == c.snap
           e == Entry(c)
<1>1. WithShares(c, n) = Remade(s.entries, e, n)
  BY DEF WithShares, Remade
<1>2. s \in DState /\ IsFiniteSet(s.entries) /\ Distinct(s) /\ e \in s.entries /\ n \in Nat
  BY EntryIs, GoodParts DEF Ready, GoodAsk
<1>7. e.who = c.req.who
  BY EntryIs
<1> HIDE DEF s, e
<1>3. /\ Remade(s.entries, e, n) \subseteq Slot /\ IsFiniteSet(Remade(s.entries, e, n))
      /\ \A y, z \in Remade(s.entries, e, n) : y.id = z.id => y = z
  BY ONLY <1>2, ReplaceSlot
<1>4. \A y \in Remade(s.entries, e, n) : \E z \in s.entries : z.id = y.id /\ z.who = y.who
  BY ONLY <1>2, ReplaceSlot
<1>5. \A v : SharesIn(Remade(s.entries, e, n), v) = SharesIn(s.entries, v) + (IF e.who = v THEN n - e.shares ELSE 0)
  BY ONLY <1>2, ReplaceSlot
<1>6. \A v : Single1(s.entries, v) => Single1(Remade(s.entries, e, n), v)
  BY ONLY <1>2, ReplaceSlot
<1> QED BY <1>1, <1>3, <1>4, <1>5, <1>6, <1>7 DEF s, e

\* A stake: shares for the holder's entry, and the asset locked for them.
LEMMA StakeFollows ==
    ASSUME NEW c, Ready(c), c.req.cmd = "stake", NEW d \in AfterStake(c)
    PROVE  Follows(c, d)
<1> DEFINE s == c.snap
           w == c.req.who
           a == c.req.asset
           x == c.use.shares
<1>1. /\ work \in Workloads /\ GoodState(kind, s) /\ c.sync \in Int /\ First <= c.sync /\ c.sync <= s.end
      /\ w \in Holders /\ w # Nobody /\ a \in Assets /\ x \in Nat /\ c.t \in Nat
      /\ c.use.assets = {a} /\ s.locked[a] = Unlocked /\ c.t \notin Ids(s)
  BY RequestType DEF Ready, GoodAsk, GoodUse
<1>2. /\ s \in DState /\ s.entries \subseteq Slot /\ IsFiniteSet(s.entries) /\ Distinct(s)
      /\ s.locked \in [Assets -> Lock]
      /\ \A b \in Assets : s.locked[b].who = Nobody => s.locked[b] = Unlocked
      /\ kind # "managed" => \A v \in Holders : SharesIn(s.entries, v) = WeightIn(s.locked, v)
      /\ \A v : SharesIn(s.entries, v) \in Nat
  BY <1>1, GoodParts
<1> DEFINE new == [who |-> w, shares |-> x, id |-> c.t]
           E == IF c.use.entry = 0 THEN s.entries \cup {new} ELSE WithShares(c, Entry(c).shares + x)
           l == [s.locked EXCEPT ![a] = [who |-> w, shares |-> x]]
<1>3. d = [s EXCEPT !.entries = E, !.locked = l]
  BY <1>2 DEF AfterStake, DState
<1>4. /\ E \subseteq Slot /\ IsFiniteSet(E) /\ \A y, z \in E : y.id = z.id => y = z
      /\ \A v : SharesIn(E, v) = SharesIn(s.entries, v) + (IF w = v THEN x ELSE 0)
      /\ \A e \in E : (\E f \in s.entries : f.id = e.id /\ f.who = e.who) \/ (e.id = c.t /\ e.who = w)
      /\ \A v : Single1(s.entries, v) /\ (c.use.entry = 0 /\ v = w => Entries(s, v) = {}) => Single1(E, v)
  <2>1. CASE c.use.entry = 0
    <3>1. E = s.entries \cup {new} /\ new \in Slot /\ new.who = w /\ new.id = c.t /\ new.shares = x
      BY <1>1, <2>1 DEF Slot
    <3>2. new \notin s.entries /\ \A f \in s.entries : f.id # new.id
      BY <1>1, <3>1 DEF Ids
    <3>3. \A v : SharesIn(E, v) = SharesIn(s.entries, v) + (IF w = v THEN x ELSE 0)
      <4> HIDE DEF new, E, s, w, x
      <4>1. \A v : SharesIn(s.entries \cup {new}, v) = SharesIn(s.entries, v) + (IF new.who = v THEN new.shares ELSE 0)
        BY ONLY <1>2, <3>1, <3>2, AddSlot
      <4> QED BY <3>1, <4>1
    <3>4. \A v : Single1(s.entries, v) /\ (v = w => Entries(s, v) = {}) => Single1(E, v)
      BY <3>1 DEF Single1, Entries
    <3>5. IsFiniteSet(E)
      <4> HIDE DEF new, E, s
      <4> QED BY ONLY <1>2, <3>1, FS_AddElement
    <3> HIDE DEF new, E
    <3> QED BY <1>2, <2>1, <3>1, <3>2, <3>3, <3>4, <3>5 DEF Distinct
  <2>2. CASE c.use.entry # 0
    <3>1. Entry(c) \in Slot
      BY <2>2, EntryIs
    <3> DEFINE n == Entry(c).shares + x
    <3>2. n \in Nat /\ n - Entry(c).shares = x
      BY <1>1, <3>1 DEF Slot
    <3>3. E = WithShares(c, n)
      BY <2>2
    <3> HIDE DEF n, E, s, w, x
    <3>4. /\ E \subseteq Slot /\ IsFiniteSet(E) /\ \A y, z \in E : y.id = z.id => y = z
          /\ \A y \in E : \E z \in c.snap.entries : z.id = y.id /\ z.who = y.who
          /\ \A v : Single1(c.snap.entries, v) => Single1(E, v)
      BY <2>2, <3>2, <3>3, WithSharesIs
    <3>5. \A v : SharesIn(E, v) = SharesIn(c.snap.entries, v) + (IF c.req.who = v THEN n - Entry(c).shares ELSE 0)
      BY <2>2, <3>2, <3>3, WithSharesIs
    <3> QED BY <3>2, <3>4, <3>5 DEF s, w
  <2> QED BY <2>1, <2>2
<1>5. \A v \in Holders : WeightIn(l, v) = WeightIn(s.locked, v) + (IF w = v THEN x ELSE 0)
  BY <1>1, <1>2, StakeWeight, Constants
<1>6. /\ l \in [Assets -> Lock] /\ l[a].who = w /\ l[a].shares = x /\ \A b \in Assets \ {a} : l[b] = s.locked[b]
  BY <1>1, <1>2 DEF Lock
<1>7. /\ d \in DState /\ d.entries = E /\ d.locked = l /\ d.end = s.end /\ d.top = s.top /\ d.commits = s.commits
  <2> HIDE DEF E, l, s
  <2> QED BY <1>2, <1>3, <1>4, <1>6 DEF DState
<1> HIDE DEF E, l
<1>8. GoodState(kind, [d EXCEPT !.last = c.sync])
  <2>1. Distinct(d)
    BY <1>4, <1>7 DEF Distinct
  <2>2. \A b \in Assets : d.locked[b].who = Nobody => d.locked[b] = Unlocked
    BY <1>1, <1>2, <1>6, <1>7
  <2>3. kind # "managed" => \A v \in Holders : SharesIn(d.entries, v) = WeightIn(d.locked, v)
    <3> SUFFICES ASSUME kind # "managed", NEW v \in Holders PROVE SharesIn(d.entries, v) = WeightIn(d.locked, v)
      OBVIOUS
    <3>1. SharesIn(E, v) = SharesIn(s.entries, v) + (IF w = v THEN x ELSE 0)
      BY <1>4
    <3>2. WeightIn(l, v) = WeightIn(s.locked, v) + (IF w = v THEN x ELSE 0)
      BY <1>5
    <3>3. SharesIn(s.entries, v) = WeightIn(s.locked, v)
      BY <1>2
    <3> QED BY <1>7, <3>1, <3>2, <3>3
  <2> HIDE DEF s
  <2> QED BY <1>1, <1>4, <1>7, <2>1, <2>2, <2>3, GoodChange
<1>9. KeepsWeights(c, d)
  <2>1. kind = "curated" => a \in DOMAIN Listed[c.req.csv] /\ x = Listed[c.req.csv][a]
    BY <1>1 DEF Ready, GoodUse
  <2> QED BY <1>6, <1>7, <2>1 DEF KeepsWeights
<1>10. Inherits(c, d) /\ KeepsSingle(c, d)
  BY <1>4, <1>7 DEF Inherits, KeepsSingle
<1> QED BY <1>7, <1>8, <1>9, <1>10 DEF Follows

\* What the assets of the holder weigh is what the command saw.
LEMMA SeenWeight ==
    ASSUME NEW c, Ready(c)
    PROVE  Seen(c) = Sum(Weights(c.snap.locked), c.use.assets) /\ Seen(c) \in Nat
<1> DEFINE U == c.use.assets
<1>1. U \subseteq Assets /\ c.seen \in [Assets -> Lock] /\ c.snap.locked \in [Assets -> Lock] /\ IsFiniteSet(U)
  BY FS_Subset, Constants DEF Ready, GoodAsk, GoodUse, GoodState, DState
<1>2. \A a \in U : Weights(c.seen)[a] \in Nat /\ Weights(c.seen)[a] = Weights(c.snap.locked)[a]
  <2>1. \A a \in U : c.snap.locked[a] = c.seen[a]
    BY DEF Ready
  <2>2. \A a \in U : /\ Weights(c.seen)[a] = c.seen[a].shares /\ Weights(c.seen)[a] \in Nat
                     /\ Weights(c.snap.locked)[a] = c.snap.locked[a].shares
    BY <1>1, Values
  <2> QED BY <2>1, <2>2
<1>3. Seen(c) = Sum(Weights(c.seen), U)
  BY <1>1, SeenIs, Constants
<1> HIDE DEF U
<1>4. Sum(Weights(c.seen), U) = Sum(Weights(c.snap.locked), U)
  BY <1>1, <1>2, SumSame
<1>5. Sum(Weights(c.seen), U) \in Nat
  BY <1>1, <1>2, SumBounds
<1> QED BY <1>3, <1>4, <1>5 DEF U

\* An unstake: the assets' shares leave the entry, and the assets the vault.
LEMMA UnstakeFollows ==
    ASSUME NEW c, Ready(c), c.req.cmd = "unstake", NEW d \in AfterUnstake(c)
    PROVE  Follows(c, d)
<1> DEFINE s == c.snap
           w == c.req.who
           U == c.use.assets
           x == Seen(c)
           rest == Entry(c).shares - x
<1>1. /\ work \in Workloads /\ GoodState(kind, s) /\ c.sync \in Int /\ First <= c.sync /\ c.sync <= s.end
      /\ w \in Holders /\ w # Nobody /\ U \in SUBSET Assets /\ c.use.entry # 0 /\ \A a \in U : s.locked[a].who = w
  BY RequestType DEF Ready, GoodAsk, GoodUse
<1>2. /\ s \in DState /\ s.entries \subseteq Slot /\ IsFiniteSet(s.entries) /\ Distinct(s)
      /\ s.locked \in [Assets -> Lock]
      /\ \A b \in Assets : s.locked[b].who = Nobody => s.locked[b] = Unlocked
      /\ kind # "managed" => \A v \in Holders : SharesIn(s.entries, v) = WeightIn(s.locked, v)
      /\ \A v : SharesIn(s.entries, v) \in Nat /\ WeightIn(s.locked, v) \in Nat
  BY <1>1, GoodParts
<1>3. x = Sum(Weights(s.locked), U) /\ x \in Nat
  BY SeenWeight
<1>4. Entry(c) \in s.entries /\ Entry(c) \in Slot /\ Entry(c).who = w /\ Entry(c).shares \in Nat
  BY <1>1, EntryIs DEF Slot
<1> DEFINE l == [a \in Assets |-> IF a \in U THEN Unlocked ELSE s.locked[a]]
<1>5. PICK E : /\ rest >= 0 /\ d = [s EXCEPT !.entries = E, !.locked = l]
               /\ E = WithShares(c, rest) \/ (rest = 0 /\ E = s.entries \ {Entry(c)})
  <2> DEFINE slots == {WithShares(c, rest)}
                      \cup (IF rest = 0 THEN {s.entries \ {Entry(c)}} ELSE {})
  <2>1. PICK es \in IF rest < 0 THEN {} ELSE slots :
          d = [s EXCEPT !.entries = es,
                        !.locked = [a \in Assets |-> IF a \in U THEN Unlocked ELSE s.locked[a]]]
    BY DEF AfterUnstake
  <2>2. ~ (rest < 0) /\ es \in slots
    BY <2>1
  <2>3. rest >= 0
    <3> HIDE DEF x
    <3> QED BY <1>3, <1>4, <2>2
  <2> QED BY <2>1, <2>2, <2>3
<1>6. rest \in Nat
  <2> HIDE DEF x
  <2> QED BY <1>3, <1>4, <1>5
<1>7. /\ E \subseteq Slot /\ IsFiniteSet(E) /\ \A y, z \in E : y.id = z.id => y = z
      /\ \A v : SharesIn(E, v) = SharesIn(s.entries, v) - (IF w = v THEN x ELSE 0)
      /\ \A e \in E : \E f \in s.entries : f.id = e.id /\ f.who = e.who
      /\ \A v : Single1(s.entries, v) => Single1(E, v)
  <2>1. CASE E = WithShares(c, rest)
    <3> DEFINE n == rest
    <3>1. n \in Nat /\ n - Entry(c).shares = 0 - x
      <4> HIDE DEF x
      <4> QED BY <1>3, <1>4, <1>6
    <3>0. E = WithShares(c, n)
      BY <2>1
    <3> HIDE DEF n, s, w, x
    <3>2. /\ E \subseteq Slot /\ IsFiniteSet(E) /\ \A y, z \in E : y.id = z.id => y = z
          /\ \A y \in E : \E z \in c.snap.entries : z.id = y.id /\ z.who = y.who
          /\ \A v : Single1(c.snap.entries, v) => Single1(E, v)
      BY <1>1, <3>0, <3>1, WithSharesIs
    <3>3. \A v : SharesIn(E, v) = SharesIn(c.snap.entries, v) + (IF c.req.who = v THEN n - Entry(c).shares ELSE 0)
      BY <1>1, <3>0, <3>1, WithSharesIs
    <3>4. \A v : SharesIn(E, v) = SharesIn(s.entries, v) - (IF w = v THEN x ELSE 0)
      <4> SUFFICES ASSUME NEW v PROVE SharesIn(E, v) = SharesIn(s.entries, v) - (IF w = v THEN x ELSE 0)
        OBVIOUS
      <4>1. SharesIn(E, v) = SharesIn(s.entries, v) + (IF w = v THEN 0 - x ELSE 0) /\ SharesIn(s.entries, v) \in Nat
        BY <1>2, <3>1, <3>3 DEF s, w
      <4> QED BY <1>3, <4>1
    <3> QED BY <3>2, <3>4 DEF s
  <2>2. CASE rest = 0 /\ E = s.entries \ {Entry(c)}
    <3>1. Entry(c).shares = x
      <4> HIDE DEF x
      <4> QED BY <1>3, <1>4, <2>2
    <3> DEFINE e == Entry(c)
    <3>2. s.entries \subseteq Slot /\ IsFiniteSet(s.entries) /\ e \in s.entries
      BY <1>2, <1>4
    <3>3. e.who = w /\ e.shares = x /\ E = s.entries \ {e}
      BY <1>4, <2>2, <3>1
    <3> HIDE DEF s, w, x, e
    <3>4. \A v : /\ IsFiniteSet(s.entries \ {e})
                 /\ SharesIn(s.entries \ {e}, v) = SharesIn(s.entries, v) - (IF e.who = v THEN e.shares ELSE 0)
      BY ONLY <3>2, RemoveSlot
    <3>5. \A y, z \in E : y.id = z.id => y = z
      BY <1>2, <3>3 DEF Distinct
    <3> QED BY <3>2, <3>3, <3>4, <3>5 DEF Single1
  <2> QED BY <1>5, <2>1, <2>2
<1>8. \A v \in Holders : WeightIn(l, v) = WeightIn(s.locked, v) - (IF w = v THEN x ELSE 0)
  <2> HIDE DEF s, w, x, U
  <2> QED BY <1>1, <1>2, <1>3, UnstakeWeight, Constants
<1>9. l \in [Assets -> Lock] /\ \A b \in Assets : l[b] = Unlocked \/ l[b] = s.locked[b]
  BY <1>2 DEF Lock, Unlocked
<1>10. /\ d \in DState /\ d.entries = E /\ d.locked = l /\ d.end = s.end /\ d.top = s.top /\ d.commits = s.commits
  <2> HIDE DEF l, s
  <2> QED BY <1>2, <1>5, <1>7, <1>9 DEF DState
<1> HIDE DEF l, s, w, x
<1>11. GoodState(kind, [d EXCEPT !.last = c.sync])
  <2>1. Distinct(d)
    BY <1>7, <1>10 DEF Distinct
  <2>2. \A b \in Assets : d.locked[b].who = Nobody => d.locked[b] = Unlocked
    BY <1>2, <1>9, <1>10
  <2>3. kind # "managed" => \A v \in Holders : SharesIn(d.entries, v) = WeightIn(d.locked, v)
    <3> SUFFICES ASSUME kind # "managed", NEW v \in Holders PROVE SharesIn(d.entries, v) = WeightIn(d.locked, v)
      OBVIOUS
    <3>1. SharesIn(E, v) = SharesIn(s.entries, v) - (IF w = v THEN x ELSE 0)
      BY <1>7
    <3>2. WeightIn(l, v) = WeightIn(s.locked, v) - (IF w = v THEN x ELSE 0)
      BY <1>8
    <3>3. SharesIn(s.entries, v) = WeightIn(s.locked, v)
      BY <1>2
    <3> QED BY <1>10, <3>1, <3>2, <3>3
  <2> QED BY <1>1, <1>7, <1>10, <2>1, <2>2, <2>3, GoodChange
<1>12. KeepsWeights(c, d)
  BY <1>9, <1>10 DEF KeepsWeights, Unlocked, s
<1>13. Inherits(c, d) /\ KeepsSingle(c, d)
  BY <1>7, <1>10 DEF Inherits, KeepsSingle, s
<1> QED BY <1>10, <1>11, <1>12, <1>13 DEF Follows

\* A refresh: the assets' weights, and the entry's shares by the difference.
LEMMA RefreshFollows ==
    ASSUME NEW c, Ready(c), c.req.cmd = "refresh", NEW d \in AfterRefresh(c)
    PROVE  Follows(c, d)
<1> DEFINE s == c.snap
           w == c.req.who
           U == c.use.assets
           f == ListedAs(c.req.csv)
           x == Seen(c)
           y == Reread(c)
           n == Entry(c).shares + y - x
           E == WithShares(c, n)
           l == [a \in Assets |-> IF a \in U THEN [s.locked[a] EXCEPT !.shares = f[a]] ELSE s.locked[a]]
<1>1. /\ work \in Workloads /\ GoodState(kind, s) /\ c.sync \in Int /\ First <= c.sync /\ c.sync <= s.end
      /\ w \in Holders /\ w # Nobody /\ U \in SUBSET Assets /\ c.use.entry # 0 /\ \A a \in U : s.locked[a].who = w
      /\ c.req.csv \in DOMAIN Listed /\ U \subseteq DOMAIN Listed[c.req.csv]
  BY RequestType DEF Ready, GoodAsk, GoodUse
<1>2. /\ s \in DState /\ s.entries \subseteq Slot /\ IsFiniteSet(s.entries) /\ Distinct(s)
      /\ s.locked \in [Assets -> Lock]
      /\ \A b \in Assets : s.locked[b].who = Nobody => s.locked[b] = Unlocked
      /\ kind # "managed" => \A v \in Holders : SharesIn(s.entries, v) = WeightIn(s.locked, v)
      /\ \A v : SharesIn(s.entries, v) \in Nat /\ WeightIn(s.locked, v) \in Nat
  BY <1>1, GoodParts
<1>3. x = Sum(Weights(s.locked), U) /\ x \in Nat
  BY SeenWeight
<1>4. /\ y = Sum(f, U) /\ y \in Nat
      /\ \A a \in U : f[a] \in Nat /\ f[a] = merkle_proof_for_nft(c.req, a) /\ f[a] = Listed[c.req.csv][a]
  <2>1. \A a \in U : f[a] \in Nat /\ f[a] = merkle_proof_for_nft(c.req, a) /\ f[a] = Listed[c.req.csv][a]
    BY <1>1, ListedNat DEF ListedAs, merkle_proof_for_nft
  <2>2. IsFiniteSet(U) /\ IsFiniteSet(Assets)
    BY <1>1, FS_Subset, Constants
  <2>3. y = Sum(f, U)
    BY <1>1, <2>1, <2>2, RereadIs
  <2> HIDE DEF f, U
  <2>4. Sum(f, U) \in Nat
    BY <2>1, <2>2, SumBounds
  <2> QED BY <2>1, <2>3, <2>4
<1>5. Entry(c) \in Slot /\ Entry(c).who = w /\ Entry(c).shares \in Nat
  BY <1>1, EntryIs DEF Slot
<1>6. n \in Nat /\ n - Entry(c).shares = y - x /\ d = [s EXCEPT !.entries = E, !.locked = l]
  <2> DEFINE m == [a \in Assets |-> IF a \in U THEN [s.locked[a] EXCEPT !.shares = merkle_proof_for_nft(c.req, a)]
                                    ELSE s.locked[a]]
  <2>1. m = l
    BY <1>4
  <2>2. ~ (n < 0) /\ d = [s EXCEPT !.entries = E, !.locked = m]
    <3> HIDE DEF n
    <3> QED BY DEF AfterRefresh, n
  <2> HIDE DEF m, l, x, y, E, s
  <2> QED BY <1>3, <1>4, <1>5, <2>1, <2>2
<1> HIDE DEF n, s, w, x, y, l, f
<1>7. /\ E \subseteq Slot /\ IsFiniteSet(E) /\ \A p, q \in E : p.id = q.id => p = q
      /\ \A e \in E : \E g \in s.entries : g.id = e.id /\ g.who = e.who
      /\ \A v : Single1(s.entries, v) => Single1(E, v)
  BY <1>1, <1>6, WithSharesIs DEF s
<1>8. ASSUME NEW v PROVE SharesIn(E, v) = SharesIn(s.entries, v) + (IF w = v THEN y - x ELSE 0)
  <2>1. SharesIn(E, v) = SharesIn(c.snap.entries, v) + (IF c.req.who = v THEN n - Entry(c).shares ELSE 0)
    BY <1>1, <1>6, WithSharesIs
  <2> QED BY <1>6, <2>1 DEF s, w
<1> HIDE DEF E
<1>9. \A v \in Holders : WeightIn(l, v) = WeightIn(s.locked, v) + (IF w = v THEN y - x ELSE 0)
  <2> HIDE DEF U
  <2>1. l = Reweighed(s.locked, U, f)
    BY DEF l, Reweighed
  <2>2. IsFiniteSet(Assets) /\ s.locked \in [Assets -> Lock] /\ U \in SUBSET Assets /\ w \in Holders
        /\ (\A a \in U : s.locked[a].who = w) /\ \A a \in U : f[a] \in Nat
    BY <1>1, <1>2, <1>4, Constants
  <2>3. \A v \in Holders : WeightIn(l, v) = WeightIn(s.locked, v)
                                          + (IF w = v THEN Sum(f, U) - Sum(Weights(s.locked), U) ELSE 0)
    <3>1. \A v \in Holders : WeightIn(Reweighed(s.locked, U, f), v)
                           = WeightIn(s.locked, v) + (IF w = v THEN Sum(f, U) - Sum(Weights(s.locked), U) ELSE 0)
      <4> DEFINE k == s.locked
      <4>1. IsFiniteSet(Assets) /\ k \in [Assets -> Lock] /\ U \in SUBSET Assets /\ w \in Holders
            /\ (\A a \in U : k[a].who = w) /\ \A a \in U : f[a] \in Nat
        BY <2>2
      <4> HIDE DEF k
      <4>2. ASSUME NEW v \in Holders
            PROVE  WeightIn(Reweighed(k, U, f), v) = WeightIn(k, v) + (IF w = v THEN Sum(f, U) - Sum(Weights(k), U) ELSE 0)
        BY ONLY <4>1, v \in Holders, RefreshWeight
      <4> QED BY <4>2 DEF k
    <3> QED BY <2>1, <3>1
  <2> QED BY <1>3, <1>4, <2>3
<1>10. /\ l \in [Assets -> Lock]
       /\ \A b \in Assets : b \notin U => l[b] = s.locked[b]
       /\ \A b \in U : l[b].who = w /\ l[b].shares = Listed[c.req.csv][b]
  BY <1>1, <1>2, <1>4 DEF Lock, l
<1>11. /\ d \in DState /\ d.entries = E /\ d.locked = l /\ d.end = s.end /\ d.top = s.top /\ d.commits = s.commits
  BY <1>2, <1>6, <1>7, <1>10 DEF DState
<1>12. GoodState(kind, [d EXCEPT !.last = c.sync])
  <2>1. Distinct(d)
    BY <1>7, <1>11 DEF Distinct
  <2>2. \A b \in Assets : d.locked[b].who = Nobody => d.locked[b] = Unlocked
    BY <1>1, <1>2, <1>10, <1>11
  <2>3. kind # "managed" => \A v \in Holders : SharesIn(d.entries, v) = WeightIn(d.locked, v)
    <3> SUFFICES ASSUME kind # "managed", NEW v \in Holders PROVE SharesIn(d.entries, v) = WeightIn(d.locked, v)
      OBVIOUS
    <3>1. SharesIn(E, v) = SharesIn(s.entries, v) + (IF w = v THEN y - x ELSE 0)
      BY <1>8
    <3>2. WeightIn(l, v) = WeightIn(s.locked, v) + (IF w = v THEN y - x ELSE 0)
      BY <1>9
    <3>3. SharesIn(s.entries, v) = WeightIn(s.locked, v)
      BY <1>2
    <3> QED BY <1>11, <3>1, <3>2, <3>3
  <2> HIDE DEF U
  <2> QED BY <1>1, <1>7, <1>11, <2>1, <2>2, <2>3, GoodChange
<1>13. KeepsWeights(c, d)
  BY <1>1, <1>10, <1>11 DEF KeepsWeights, s
<1>14. Inherits(c, d) /\ KeepsSingle(c, d)
  BY <1>7, <1>11 DEF Inherits, KeepsSingle, s
<1> QED BY <1>11, <1>12, <1>13, <1>14 DEF Follows

\* A change that leaves slots and locks alone.
LEMMA OthersFollow ==
    ASSUME NEW c, Ready(c), NEW d \in DState, d.entries = c.snap.entries, d.locked = c.snap.locked,
           c.snap.end <= d.end, OnGrid(d.end), First <= d.top, \A x \in d.commits : OnGrid(x.epoch)
    PROVE  Follows(c, d)
<1> DEFINE s == c.snap
           e == [d EXCEPT !.last = c.sync]
<1>1. GoodState(kind, s) /\ c.sync \in Int /\ First <= c.sync /\ c.sync <= s.end /\ s \in DState
  BY DEF Ready, GoodAsk, GoodState
<1>2. /\ e \in DState /\ e.last = c.sync /\ e.end = d.end /\ e.top = d.top /\ e.commits = d.commits
      /\ e.entries = s.entries /\ e.locked = s.locked
  BY <1>1 DEF DState
<1>3. e.last <= e.end
  BY <1>1, <1>2, Constants DEF DState
<1> HIDE DEF e
<1>4. kind # "managed" => Balanced(e)
  <2>1. Balanced(s) <=> \A w \in Holders : SharesIn(s.entries, w) = WeightIn(s.locked, w)
    BY <1>1, BalancedIs, Constants DEF GoodState
  <2>2. Balanced(e) <=> \A w \in Holders : SharesIn(e.entries, w) = WeightIn(e.locked, w)
    BY <1>1, <1>2, BalancedIs, Constants DEF GoodState
  <2> QED BY <1>1, <1>2, <2>1, <2>2 DEF GoodState
<1>5. IsFiniteSet(e.entries) /\ Distinct(e) /\ \A a \in Assets : e.locked[a].who = Nobody => e.locked[a] = Unlocked
  BY <1>1, <1>2 DEF GoodState, Distinct
<1>6. GoodState(kind, e)
  BY <1>1, <1>2, <1>3, <1>4, <1>5 DEF GoodState
<1>7. Inherits(c, d) /\ KeepsSingle(c, d) /\ KeepsWeights(c, d)
  BY DEF Inherits, KeepsSingle, KeepsWeights
<1> QED BY <1>6, <1>7 DEF Follows, e

\* An entry update: the manager's distributors keep no balance.
LEMMA EntryUpdateFollows ==
    ASSUME NEW c, Ready(c), c.req.cmd \in EntryUpdates, NEW d \in AfterEntryUpdate(c)
    PROVE  Follows(c, d)
<1> DEFINE s == c.snap
           E == IF c.req.cmd = "add_entry"
                THEN s.entries \cup {[who |-> c.req.who, shares |-> Listed[1][c.req.asset], id |-> c.t]}
                ELSE s.entries \ {Entry(c)}
<1>1. /\ work \in Workloads /\ GoodState(kind, s) /\ c.sync \in Int /\ First <= c.sync /\ c.sync <= s.end
      /\ kind = "managed" /\ c.req.who \in Holders /\ c.t \in Nat /\ c.t \notin Ids(s)
      /\ c.req.asset \in DOMAIN Listed[1]
  BY RequestType DEF Ready, GoodAsk
<1>2. s \in DState /\ s.entries \subseteq Slot /\ IsFiniteSet(s.entries) /\ Distinct(s) /\ s.locked \in [Assets -> Lock]
  BY <1>1, GoodParts
<1>3. Listed[1][c.req.asset] \in Nat
  BY <1>1, ListedNat, Constants
<1>4. /\ E \subseteq Slot /\ IsFiniteSet(E) /\ \A x, y \in E : x.id = y.id => x = y
      /\ \A e \in E : (\E f \in s.entries : f.id = e.id /\ f.who = e.who) \/ (e.id = c.t /\ e.who = c.req.who)
  <2>1. CASE c.req.cmd = "add_entry"
    <3> DEFINE new == [who |-> c.req.who, shares |-> Listed[1][c.req.asset], id |-> c.t]
    <3>1. E = s.entries \cup {new} /\ new \in Slot /\ new.id = c.t /\ new.who = c.req.who
      BY <1>1, <1>3, <2>1 DEF Slot
    <3>2. \A f \in s.entries : f.id # c.t
      BY <1>1 DEF Ids
    <3> HIDE DEF new, E
    <3>3. IsFiniteSet(E)
      BY <1>2, <3>1, FS_AddElement
    <3> QED BY <1>2, <3>1, <3>2, <3>3 DEF Distinct
  <2>2. CASE c.req.cmd # "add_entry"
    <3>1. E \subseteq s.entries
      BY <2>2
    <3> HIDE DEF E
    <3> QED BY <1>2, <3>1, FS_Subset DEF Distinct
  <2> QED BY <2>1, <2>2
<1>5. d = [s EXCEPT !.entries = E]
  BY DEF AfterEntryUpdate
<1> HIDE DEF E
<1>6. /\ d \in DState /\ d.entries = E /\ d.locked = s.locked /\ d.end = s.end /\ d.top = s.top /\ d.commits = s.commits
  BY <1>2, <1>4, <1>5 DEF DState
<1>7. GoodState(kind, [d EXCEPT !.last = c.sync])
  <2>1. Distinct(d) /\ \A b \in Assets : d.locked[b].who = Nobody => d.locked[b] = Unlocked
    BY <1>1, <1>4, <1>6 DEF Distinct, GoodState
  <2> QED BY <1>1, <1>4, <1>6, <2>1, GoodChange
<1>8. Inherits(c, d) /\ KeepsWeights(c, d)
  BY <1>4, <1>6 DEF Inherits, KeepsWeights
<1> QED BY <1>1, <1>6, <1>7, <1>8 DEF Follows

\* Every bundle leads from a good state to a good state.
LEMMA EffectFollows ==
    ASSUME NEW c, GoodAsk(kind, work.requests, started, chain.n, c), GoodUse(kind, started, c), work \in Workloads, c.t \notin Ids(c.snap),
           \A e \in c.snap.entries : e.id = c.use.entry => e.who = c.req.who,
           NEW d \in Effect(c)
    PROVE  Follows(c, d)
<1> DEFINE s == c.snap
<1>1. Ready(c)
  BY DEF Ready, Effect
<1>2. s \in DState /\ GoodState(kind, s) /\ OnGrid(s.end) /\ First <= s.top /\ \A x \in s.commits : OnGrid(x.epoch)
  BY DEF GoodAsk, GoodState
<1>3. CASE c.req.cmd = "stake"
  <2>1. d \in AfterStake(c)
    BY <1>3 DEF Effect, EntryUpdates
  <2> QED BY <1>1, <1>3, <2>1, StakeFollows
<1>4. CASE c.req.cmd = "unstake"
  <2>1. d \in AfterUnstake(c)
    BY <1>4 DEF Effect, EntryUpdates
  <2> QED BY <1>1, <1>4, <2>1, UnstakeFollows
<1>5. CASE c.req.cmd = "refresh"
  <2>1. d \in AfterRefresh(c)
    BY <1>5 DEF Effect, EntryUpdates
  <2> QED BY <1>1, <1>5, <2>1, RefreshFollows
<1>6. CASE c.req.cmd \in EntryUpdates
  <2>1. d \in AfterEntryUpdate(c)
    BY <1>6 DEF Effect, EntryUpdates
  <2> QED BY <1>1, <1>6, <2>1, EntryUpdateFollows
<1>7. CASE c.req.cmd \in {"commit_rewards", "commit_available"}
  <2> DEFINE x == CHOOSE x \in c.use.commit : TRUE
             coins == {z.who : z \in c.use.commit} \cap Deposits
  <2>1. x \in c.use.commit /\ c.use.commit \subseteq Commitment /\ \A z \in c.use.commit : OnGrid(z.epoch)
    BY <1>1, <1>7 DEF Ready, GoodUse
  <2> HIDE DEF x
  <2>2. d \in AfterCommit(c)
    BY <1>7 DEF Effect, EntryUpdates
  <2>3. d = [s EXCEPT !.top = Max({s.top, x.epoch}), !.commits = s.commits \cup c.use.commit,
                      !.deposits = s.deposits \ coins]
    BY <2>2 DEF AfterCommit, x
  <2>4. x.epoch \in Int /\ s.top \in Int /\ First <= x.epoch
    BY <1>2, <2>1 DEF DState, Commitment, OnGrid
  <2>5. Max({s.top, x.epoch}) \in Int /\ s.top <= Max({s.top, x.epoch})
    BY <2>4, MaxPair
  <2> DEFINE m == Max({s.top, x.epoch})
  <2> HIDE DEF m, coins
  <2>6. d \in DState /\ d.entries = s.entries /\ d.locked = s.locked /\ d.end = s.end /\ d.top = m
        /\ d.commits = s.commits \cup c.use.commit
    BY <1>2, <2>1, <2>3, <2>5 DEF DState, m
  <2>7. First <= d.top /\ s.end <= d.end
    BY <1>2, <2>4, <2>5, <2>6, Constants DEF m, DState
  <2>8. OnGrid(d.end) /\ \A z \in d.commits : OnGrid(z.epoch)
    BY <1>2, <2>1, <2>6
  <2> QED BY <1>1, <2>6, <2>7, <2>8, OthersFollow
<1>8. CASE c.req.cmd = "clawback"
  <2>1. d \in AfterClawback(c)
    BY <1>8 DEF Effect, EntryUpdates
  <2>2. d = [s EXCEPT !.commits = s.commits \ c.use.commit]
    BY <2>1 DEF AfterClawback
  <2>3. d \in DState /\ d.entries = s.entries /\ d.locked = s.locked /\ d.end = s.end /\ d.top = s.top
        /\ d.commits \subseteq s.commits /\ s.end <= d.end
    BY <1>2, <2>2 DEF DState
  <2>4. OnGrid(d.end) /\ First <= d.top /\ \A z \in d.commits : OnGrid(z.epoch)
    BY <1>2, <2>3
  <2> QED BY <1>1, <2>3, <2>4, OthersFollow
<1>9. CASE c.req.cmd = "new_epoch"
  <2>1. d \in AfterNewEpoch(c)
    BY <1>9 DEF Effect, EntryUpdates
  <2>2. d = [s EXCEPT !.end = s.end + EpochLen, !.top = Max({s.top, s.end})]
    BY <2>1 DEF AfterNewEpoch
  <2>3. s.end \in Int /\ s.top \in Int
    BY <1>2 DEF DState
  <2> DEFINE m == Max({s.top, s.end})
  <2>4. m \in Int /\ s.top <= m
    BY <2>3, MaxPair
  <2>8. d = [s EXCEPT !.end = s.end + EpochLen, !.top = m]
    BY <2>2
  <2>9. s.end + EpochLen \in Int
    BY <2>3, Constants
  <2> HIDE DEF m
  <2>5. d \in DState /\ d.entries = s.entries /\ d.locked = s.locked /\ d.end = s.end + EpochLen /\ d.top = m
        /\ d.commits = s.commits
    BY <1>2, <2>4, <2>8, <2>9 DEF DState
  <2>6. OnGrid(s.end + EpochLen)
    BY <1>2, <2>3, GridNext
  <2>7. First <= d.top /\ s.end <= d.end /\ OnGrid(d.end) /\ \A z \in d.commits : OnGrid(z.epoch)
    BY <1>2, <2>3, <2>4, <2>5, <2>6, Constants
  <2> QED BY <1>1, <2>5, <2>7, OthersFollow
<1>10. CASE c.req.cmd \notin {"stake", "unstake", "refresh", "commit_rewards", "commit_available", "clawback", "new_epoch"}
                             \cup EntryUpdates
  <2>1. d = s
    BY <1>10 DEF Effect
  <2>2. s.end <= s.end
    BY <1>2 DEF DState
  <2> QED BY <1>1, <1>2, <2>1, <2>2, OthersFollow
<1> QED BY <1>3, <1>4, <1>5, <1>6, <1>7, <1>8, <1>9, <1>10

-----------------------------------------------------------------------------
\* What a step keeps of what it does not touch.

\* What was good stays good as commands start and blocks are made.
LEMMA ItemMono ==
    ASSUME NEW k, NEW n \in Nat, NEW n2 \in Nat, n <= n2, NEW i, GoodItem(k, n, i)
    PROVE  GoodItem(k, n2, i)
BY DEF GoodItem

\* What is known of a command stays known when others start and the coin moves on.
LEMMA CmdMono ==
    ASSUME NEW k, NEW rs, NEW n \in Nat, NEW n2 \in Nat, n <= n2, NEW m \in Int, NEW m2 \in Int, m <= m2,
           NEW c, GoodCmd(k, rs, n, m, c)
    PROVE  GoodCmd(k, rs, n2, m2, c)
<1>1. GoodAsk(k, rs, n, m, c) => GoodAsk(k, rs, n2, m2, c)
  <2> SUFFICES ASSUME GoodAsk(k, rs, n, m, c) PROVE GoodAsk(k, rs, n2, m2, c)
    OBVIOUS
  <2>1. c.item # NoItem => GoodItem(k, n2, c.item)
    BY ItemMono DEF GoodAsk
  <2>2. c.t \in 1 .. n2 /\ c.base <= m2
    BY DEF GoodAsk
  <2> QED BY <2>1, <2>2 DEF GoodAsk
<1>2. GoodUse(k, n, c) => GoodUse(k, n2, c)
  BY DEF GoodUse
<1>3. c.t \in 1 .. n => c.t \in 1 .. n2
  OBVIOUS
<1> QED BY <1>1, <1>2, <1>3 DEF GoodCmd

\* The commands: those that did not move, and those that are good now.
LEMMA CmdStep ==
    ASSUME CmdOK, work' = work, started \in Nat, started' \in Nat, started <= started',
           chain.n \in Int, chain'.n \in Int, chain.n <= chain'.n, DOMAIN cmd' = Procs,
           \A q \in Procs : cmd'[q] = cmd[q] \/ GoodCmd(kind, work.requests, started', chain'.n, cmd'[q])
    PROVE  CmdOK'
<1>1. kind' = kind
  BY DEF kind
<1>2. ASSUME NEW q \in Procs PROVE GoodCmd(kind, work.requests, started', chain'.n, cmd'[q])
  <2>1. GoodCmd(kind, work.requests, started, chain.n, cmd[q])
    BY DEF CmdOK
  <2>2. GoodCmd(kind, work.requests, started', chain'.n, cmd[q])
    BY <2>1, CmdMono
  <2> QED BY <2>2
<1> QED BY <1>1, <1>2 DEF CmdOK

\* What an asking command has.
LEMMA AskingOK ==
    ASSUME CmdOK, NEW p \in Asking
    PROVE  /\ p \in Procs /\ GoodAsk(kind, work.requests, started, chain.n, cmd[p])
           /\ cmd[p].pc = "find" => "pc" \in DOMAIN cmd[p]
           /\ cmd[p].pc = "push" => GoodUse(kind, started, cmd[p])
<1>1. p \in Procs /\ cmd[p].pc \in {"find", "push"}
  BY DEF Asking
<1>2. GoodCmd(kind, work.requests, started, chain.n, cmd[p])
  BY <1>1 DEF CmdOK
<1> QED BY <1>1, <1>2 DEF GoodCmd, Idle

\* Slots: no new ones, and no command that starts to ask.
LEMMA LedgerStep ==
    ASSUME CmdOK, Owned, Fresh, OneEntry, work' = work,
           started \in Nat, started' \in Nat, started <= started', raced \subseteq raced',
           chain.n \in Int, chain'.n \in Int,
           (chain'.n = chain.n /\ chain'.entries = chain.entries) \/ chain.n < chain'.n,
           chain'.entries \in Ledgers, pool' # NoItem => pool'.after.entries \in Ledgers,
           \A q \in Procs : cmd'[q] = cmd[q] \/ cmd'[q].pc \notin {"find", "push"}
    PROVE  Owned' /\ Fresh' /\ OneEntry'
<1>1. ASSUME NEW q \in Asking' PROVE q \in Asking /\ cmd'[q] = cmd[q] /\ q \in Procs
  BY DEF Asking
<1>2. Ledgers' \subseteq Ledgers
  <2> SUFFICES ASSUME NEW E \in Ledgers' PROVE E \in Ledgers
    OBVIOUS
  <2>1. CASE E = chain'.entries
    BY <2>1
  <2>2. CASE pool' # NoItem /\ E = pool'.after.entries
    BY <2>2
  <2>3. ASSUME NEW q \in Asking', E = cmd'[q].snap.entries PROVE E \in Ledgers
    <3>1. q \in Asking /\ E = cmd[q].snap.entries
      BY <1>1, <2>3
    <3> QED BY <3>1 DEF Ledgers
  <2>4. E \in {chain'.entries} \cup (IF pool' = NoItem THEN {} ELSE {pool'.after.entries})
             \cup {cmd'[q].snap.entries : q \in Asking'}
    BY DEF Ledgers
  <2> QED BY <2>1, <2>2, <2>3, <2>4
<1>3. kind' = kind
  BY DEF kind
<1>4. Owned'
  <2>1. PICK own \in [Nat -> Holders \cup {Nobody}] : Owns(own)
    BY DEF Owned
  <2>2. Owns(own)'
    BY <1>1, <1>2, <2>1 DEF Owns
  <2> QED BY <2>2 DEF Owned
<1>5. Fresh'
  <2>1. \A E \in Ledgers' : \A e \in E : e.id \in 1 .. started'
    BY <1>2 DEF Fresh
  <2>2. /\ \A p \in Asking' : \A E \in Ledgers' : \A e \in E : e.id # cmd'[p].t
        /\ \A p, q \in Asking' : p # q => cmd'[p].t # cmd'[q].t
    BY <1>1, <1>2 DEF Fresh
  <2> QED BY <2>1, <2>2 DEF Fresh
<1>6. OneEntry'
  <2> SUFFICES ASSUME kind # "managed" PROVE OneEntry'
    BY <1>3 DEF OneEntry
  <2>1. \A E \in Ledgers' : \A w \in Holders \ raced' : Single1(E, w)
    BY <1>2 DEF OneEntry
  <2>2. ASSUME NEW p \in Asking', cmd'[p].pc = "push", cmd'[p].req.cmd = "stake", cmd'[p].use.entry = 0,
               cmd'[p].base = chain'.n
        PROVE  Entries(chain', cmd'[p].req.who) = {}
    <3>1. p \in Asking /\ cmd'[p] = cmd[p]
      BY <1>1
    <3>2. cmd[p].base \in Int /\ cmd[p].base <= chain.n
      BY <3>1, AskingOK DEF GoodAsk
    <3>3. chain'.n = chain.n /\ chain'.entries = chain.entries
      BY <2>2, <3>1, <3>2
    <3>4. Entries(chain, cmd[p].req.who) = {}
      BY <2>2, <3>1, <3>3 DEF OneEntry
    <3> QED BY <3>1, <3>3, <3>4 DEF Entries
  <2>3. \A p \in Asking' : cmd'[p].pc = "push" /\ cmd'[p].req.cmd = "stake" /\ cmd'[p].use.entry = 0
                              /\ cmd'[p].base = chain'.n => Entries(chain', cmd'[p].req.who) = {}
    BY <2>2
  <2> QED BY <2>1, <2>3 DEF OneEntry, Entries
<1> QED BY <1>4, <1>5, <1>6

\* Weights: nothing confirmed but perhaps the launch, nothing pushed.
LEMMA WeighedStep ==
    ASSUME CmdOK, Weighed, work' = work, chain.n \in Int, chain'.n \in Int, chain.n <= chain'.n,
           chain'.root = chain.root, chain'.coin = chain.coin, chain'.locked = chain.locked,
           pool' \in {pool, NoItem},
           store' # NoItem => \/ store' = store
                              \/ DOMAIN Listed[chain.root] \subseteq DOMAIN Listed[store'.root],
           \A q \in Procs : cmd'[q] = cmd[q] \/
             /\ cmd'[q].pc \notin {"find", "push"}
             /\ cmd'[q].pc = "publish" =>
                  cmd'[q].coin <= chain.coin["store"] /\
                    (cmd'[q].coin = chain.coin["store"] =>
                        DOMAIN Listed[chain.root] \subseteq DOMAIN Listed[cmd'[q].req.csv + 1])
    PROVE  Weighed'
<1>1. ASSUME NEW q \in Asking' PROVE q \in Asking /\ cmd'[q] = cmd[q] /\ q \in Procs
  BY DEF Asking
<1>2. kind' = kind
  BY DEF kind
<1> SUFFICES ASSUME kind = "curated" PROVE Weighed'
  BY <1>2 DEF Weighed
<1>3. \A coins, l : ReadThrough(coins, l) =>
        \A a \in Assets : l[a] # chain'.locked[a] /\ l[a].who # Nobody =>
            \E x \in coins : x[1] = "store" /\ (x[2] = chain'.coin["store"] =>
                a \in DOMAIN Listed[chain'.root] /\ l[a].shares = Listed[chain'.root][a])
  BY DEF ReadThrough, AtRoot
<1>4. \A a \in Assets : chain'.locked[a].who # Nobody => a \in DOMAIN Listed[chain'.root]
  BY DEF Weighed
<1>5. pool' # NoItem => ReadThrough(pool.coins, pool.after.locked)
  BY DEF Weighed
<1>6. store' # NoItem => DOMAIN Listed[chain'.root] \subseteq DOMAIN Listed[store'.root]
  BY DEF Weighed
<1>7. \A p \in Asking' :
        /\ \A x \in CoinsOf(cmd'[p].item) : x[2] <= chain'.coin[x[1]]
        /\ cmd'[p].base = chain'.n => ReadThrough(CoinsOf(cmd[p].item), cmd[p].snap.locked)
  <2> TAKE p \in Asking'
  <2>1. p \in Asking /\ cmd'[p] = cmd[p]
    BY <1>1
  <2>2. cmd[p].base \in Int /\ cmd[p].base <= chain.n
    BY <2>1, AskingOK DEF GoodAsk
  <2>3. cmd'[p].base = chain'.n => cmd[p].base = chain.n
    BY <2>1, <2>2
  <2> QED BY <2>1, <2>3 DEF Weighed
<1>8. \A p \in Asking' : cmd'[p].pc = "push" /\ cmd'[p].req.cmd \in {"stake", "refresh"} =>
             \E x \in cmd'[p].use.coins : /\ x[1] = "store" /\ x[2] <= chain'.coin["store"]
                                          /\ x[2] = chain'.coin["store"] => cmd'[p].req.csv = chain'.root
  BY <1>1 DEF Weighed
<1>9. \A p \in Procs : cmd'[p].pc = "publish" =>
             /\ cmd'[p].coin <= chain'.coin["store"]
             /\ cmd'[p].coin = chain'.coin["store"] =>
                  DOMAIN Listed[chain'.root] \subseteq DOMAIN Listed[cmd'[p].req.csv + 1]
  BY DEF Weighed
<1>10. pool' # NoItem => ReadThrough(pool.coins, pool.after.locked)' 
  BY <1>3, <1>5 DEF ReadThrough, AtRoot
<1>11. \A p \in Asking' : cmd'[p].base = chain'.n => ReadThrough(CoinsOf(cmd[p].item), cmd[p].snap.locked)'
  BY <1>1, <1>3, <1>7 DEF ReadThrough, AtRoot, CoinsOf
<1> QED BY <1>1, <1>4, <1>6, <1>7, <1>8, <1>9, <1>10, <1>11 DEF Weighed

\* What the confirmed state says of the numbers.
LEMMA Numbers ==
    ASSUME ChainOK
    PROVE  /\ started \in Nat /\ MaxCommands \in Nat /\ MaxTime \in Nat /\ now \in Nat
           /\ chain \in DState /\ chain.n \in Int /\ kind \in Kinds /\ work \in Workloads
<1>1. work \in Workloads /\ now \in First .. MaxTime /\ started \in 0 .. MaxCommands /\ chain \in DState
  BY DEF ChainOK, GoodState
<1>2. kind \in Kinds /\ MaxTime \in Nat /\ MaxCommands \in Nat
  BY <1>1, DistributorAssumption DEF kind, MaxTime, MaxCommands
<1>3. now \in Nat /\ started \in Nat
  BY <1>1, <1>2, Constants
<1> QED BY <1>1, <1>2, <1>3 DEF DState

\* Only the launch changes the confirmed state, nothing is pushed, and a
\* command that moves asks for nothing.
LEMMA QuietStep ==
    ASSUME IInv, work' = work,
           \/ chain' = chain
           \/ chain.n = -1 /\ chain' = [chain EXCEPT !.n = 0],
           pool' \in {pool, NoItem}, now' \in now .. MaxTime, cached' \in BOOLEAN, raced' = raced,
           started' \in started .. MaxCommands, lost' \subseteq 1 .. started,
           store' # NoItem => \/ store' = store
                              \/ /\ kind = "curated" /\ store'.txs # {} /\ store'.txs \subseteq 1 .. started
                                 /\ store'.root \in DOMAIN Listed
                                 /\ pool' # NoItem => \A x \in pool.coins : x[1] # "store"
                                 /\ DOMAIN Listed[chain.root] \subseteq DOMAIN Listed[store'.root],
           DOMAIN cmd' = Procs,
           \A q \in Procs : cmd'[q] = cmd[q] \/
             /\ GoodCmd(kind, work.requests, started', chain'.n, cmd'[q])
             /\ cmd'[q].pc \notin {"find", "push"}
             /\ cmd'[q].pc = "publish" =>
                  cmd'[q].coin <= chain.coin["store"] /\
                    (cmd'[q].coin = chain.coin["store"] =>
                        DOMAIN Listed[chain.root] \subseteq DOMAIN Listed[cmd'[q].req.csv + 1])
             /\ cmd'[q].pc = "searching" =>
                  /\ cmd'[q].req.cmd = "commit_rewards"
                  /\ cmd'[q].req.epoch < First \/ (cmd'[q].req.epoch - First) % EpochLen # 0
    PROVE  IInv'
<1> USE DEF IInv
<1>0. kind' = kind /\ MaxTime' = MaxTime /\ MaxCommands' = MaxCommands
  BY DEF kind, MaxTime, MaxCommands
<1>1. /\ started \in Nat /\ MaxCommands \in Nat /\ MaxTime \in Nat /\ now \in Nat
      /\ chain \in DState /\ chain.n \in Int
  BY Numbers
<1>2. /\ chain' \in DState /\ chain'.n \in Int /\ chain.n <= chain'.n /\ -1 <= chain'.n
      /\ chain'.last = chain.last /\ chain'.end = chain.end /\ chain'.top = chain.top
      /\ chain'.entries = chain.entries /\ chain'.locked = chain.locked /\ chain'.commits = chain.commits
      /\ chain'.root = chain.root /\ chain'.coin = chain.coin /\ chain'.done = chain.done
  BY <1>1 DEF DState, ChainOK
<1>3. GoodState(kind, chain')
  <2>1. GoodState(kind, chain)
    BY DEF ChainOK
  <2>2. kind # "managed" => Balanced(chain')
    <3>1. Balanced(chain) => Balanced(chain')
      <4>1. IsFiniteSet(chain.entries) /\ IsFiniteSet(Assets)
        BY <2>1, Constants DEF GoodState
      <4>2. Balanced(chain) <=> \A w \in Holders : SharesIn(chain.entries, w) = WeightIn(chain.locked, w)
        BY <1>1, <4>1, BalancedIs
      <4>3. Balanced(chain') <=> \A w \in Holders : SharesIn(chain.entries, w) = WeightIn(chain.locked, w)
        <5>1. \A d \in DState : IsFiniteSet(d.entries) =>
                (Balanced(d) <=> \A w \in Holders : SharesIn(d.entries, w) = WeightIn(d.locked, w))
          BY <4>1, BalancedIs
        <5> QED BY <1>2, <4>1, <5>1
      <4> QED BY <4>2, <4>3
    <3> QED BY <2>1, <3>1 DEF GoodState
  <2> QED BY <1>2, <2>1, <2>2 DEF GoodState, Distinct
<1>4. ChainOK'
  <2>1. now' \in First .. MaxTime /\ chain.last <= now'
    <3>1. First \in Nat /\ First <= now /\ chain.last <= now /\ chain.last \in Int
      BY <1>1, Constants DEF ChainOK, DState
    <3> QED BY <1>1, <3>1
  <2>2. started' \in 0 .. MaxCommands /\ lost' \subseteq 1 .. started' /\ chain.done \subseteq 1 .. started'
    BY <1>1 DEF ChainOK
  <2> QED BY <1>0, <1>2, <1>3, <2>1, <2>2 DEF ChainOK
<1>5. PoolOK'
  <2>1. pool' # NoItem => /\ GoodItem(kind, started', pool) /\ pool.after.last <= now'
                          /\ pool.base = chain.n /\ Current(pool.coins) /\ chain' = chain
    <3> SUFFICES ASSUME pool' # NoItem
                 PROVE  /\ GoodItem(kind, started', pool) /\ pool.after.last <= now'
                        /\ pool.base = chain.n /\ Current(pool.coins) /\ chain' = chain
      OBVIOUS
    <3>1. GoodItem(kind, started, pool) /\ pool.after.last <= now /\ pool.base = chain.n /\ Current(pool.coins)
      BY DEF PoolOK
    <3>2. GoodItem(kind, started', pool)
      BY <1>1, <3>1, ItemMono
    <3>3. pool.base \in Nat /\ pool.after.last \in Int
      BY <3>1 DEF GoodItem, GoodState, DState
    <3> QED BY <1>1, <3>1, <3>2, <3>3
  <2>2. Current(pool.coins) /\ chain' = chain => \A x \in pool.coins : chain'.coin[x[1]] = x[2]
    BY DEF Current
  <2>3. pool' # NoItem => pool' = pool
    OBVIOUS
  <2>4. store' # NoItem => /\ kind = "curated" /\ store'.txs # {} /\ store'.txs \subseteq 1 .. started'
                           /\ store'.root \in DOMAIN Listed
                           /\ pool' # NoItem => \A x \in pool.coins : x[1] # "store"
    BY <1>1 DEF PoolOK
  <2> QED BY <1>0, <2>1, <2>2, <2>3, <2>4 DEF PoolOK, Current
<1>6. CmdOK'
  BY <1>1, <1>2, CmdStep
<1>7. Owned' /\ Fresh' /\ OneEntry'
  <2>1. chain'.entries \in Ledgers /\ (pool' # NoItem => pool'.after.entries \in Ledgers)
    BY <1>2 DEF Ledgers
  <2>2. (chain'.n = chain.n /\ chain'.entries = chain.entries) \/ chain.n < chain'.n
    BY <1>1, <1>2
  <2> QED BY ONLY <1>1, <1>2, <2>1, <2>2, IInv, work' = work, raced' = raced, started' \in started .. MaxCommands,
                  \A q \in Procs : cmd'[q] = cmd[q] \/ cmd'[q].pc \notin {"find", "push"}, LedgerStep DEF IInv
<1>8. Weighed'
  BY <1>1, <1>2, WeighedStep
<1>9. SearchEnds'
  BY DEF SearchEnds
<1> QED BY <1>4, <1>5, <1>6, <1>7, <1>8, <1>9

-----------------------------------------------------------------------------
\* The invariant holds initially.

\* A distributor without entries and without locked assets is good.
LEMMA EmptyIsGood ==
    ASSUME NEW k, NEW d \in DState, d.entries = {}, d.locked = [a \in Assets |-> Unlocked],
           d.last = First, d.top = First, d.commits = {}, OnGrid(d.end), First <= d.end
    PROVE  GoodState(k, d)
<1>1. First \in Nat /\ IsFiniteSet(Assets) /\ \A w \in Holders : w # Nobody
  BY Constants
<1>2. IsFiniteSet(d.entries) /\ Distinct(d)
  BY FS_EmptySet DEF Distinct
<1>3. Balanced(d)
  <2>1. ASSUME NEW w \in Holders PROVE SharesIn(d.entries, w) = 0 /\ WeightIn(d.locked, w) = 0
    <3>1. {e \in d.entries : e.who = w} = {}
      OBVIOUS
    <3>2. SharesIn(d.entries, w) = 0
      BY <3>1, SumEmpty DEF SharesIn
    <3>3. \A a \in Assets : d.locked[a].who = Nobody
      BY DEF Unlocked
    <3>4. WeightOn(d.locked, Assets, w) = 0
      BY <1>1, <3>3, AllOf
    <3> QED BY <3>2, <3>4 DEF WeightIn
  <2> QED BY <1>1, <1>2, <2>1, BalancedIs
<1> QED BY <1>1, <1>2, <1>3 DEF GoodState

\* The invariant holds at first.
LEMMA InvInit ==
    ASSUME Init
    PROVE  IInv
<1> USE DEF Init
<1>0. /\ First \in Nat /\ EpochLen \in Nat \ {0} /\ 1 \in DOMAIN Listed
      /\ MaxTime \in Nat /\ First <= MaxTime /\ MaxCommands \in Nat
  BY Constants, DistributorAssumption DEF MaxTime, MaxCommands
<1>1. OnGrid(First) /\ OnGrid(First + EpochLen)
  <2>1. OnGrid(First)
    BY <1>0, Grid0 DEF OnGrid
  <2> QED BY <1>0, <2>1, GridNext
<1>2. /\ chain \in DState /\ chain.entries = {} /\ chain.locked = [a \in Assets |-> Unlocked]
      /\ chain.last = First /\ chain.top = First /\ chain.commits = {} /\ chain.done = {}
      /\ chain.n \in {-1, 1} /\ chain.end \in {First, First + EpochLen}
  <2>1. [a \in Assets |-> Unlocked] \in [Assets -> Lock]
    BY DEF Unlocked, Lock
  <2>2. Unlaunched \in DState
    BY <1>0, <2>1 DEF Unlaunched, DState
  <2>3. Opened = [Unlaunched EXCEPT !.n = 1, !.end = First + EpochLen]
    BY DEF Opened, Launched, Unlaunched
  <2>4. Opened \in DState
    <3>1. First + EpochLen \in Int
      BY <1>0
    <3>2. [Unlaunched EXCEPT !.n = 1] \in DState
      BY <2>2 DEF DState
    <3>3. [[Unlaunched EXCEPT !.n = 1] EXCEPT !.end = First + EpochLen] \in DState
      BY <3>1, <3>2 DEF DState
    <3> QED BY <2>3, <3>3
  <2> QED BY <2>2, <2>3, <2>4 DEF Unlaunched
<1>3. GoodState(kind, chain) /\ chain.last <= chain.end
  BY <1>0, <1>1, <1>2, EmptyIsGood
<1>4. ChainOK
  <2>1. work \in Workloads /\ now \in First .. MaxTime /\ cached \in BOOLEAN /\ started \in 0 .. MaxCommands
    <3>1. now = First /\ started = 0
      OBVIOUS
    <3>2. work \in Workloads /\ cached \in BOOLEAN
      OBVIOUS
    <3>3. First \in First .. MaxTime /\ 0 \in 0 .. MaxCommands
      BY <1>0
    <3> QED BY <3>1, <3>2, <3>3
  <2>2. lost \subseteq 1 .. started /\ raced \subseteq Holders /\ chain.done \subseteq 1 .. started
    BY <1>2
  <2>3. -1 <= chain.n /\ chain.last <= now
    BY <1>0, <1>2
  <2> QED BY <1>3, <2>1, <2>2, <2>3 DEF ChainOK
<1>5. PoolOK
  BY DEF PoolOK
<1>6. CmdOK
  BY DEF CmdOK, GoodCmd
<1>7. Asking = {} /\ Ledgers = {{}}
  BY <1>2 DEF Asking, Ledgers, Idle
<1>8. Owned
  <2>1. [i \in Nat |-> Nobody] \in [Nat -> Holders \cup {Nobody}]
    OBVIOUS
  <2>2. Owns([i \in Nat |-> Nobody])
    BY <1>7 DEF Owns
  <2> QED BY <2>1, <2>2 DEF Owned
<1>9. Fresh /\ OneEntry
  BY <1>7 DEF Fresh, OneEntry, Single1
<1>10. Weighed
  BY <1>2, <1>7 DEF Weighed, Idle, Unlocked
<1>11. SearchEnds
  BY DEF SearchEnds, Idle
<1> QED BY <1>4, <1>5, <1>6, <1>8, <1>9, <1>10, <1>11 DEF IInv

-----------------------------------------------------------------------------
\* The steps that push nothing and make no block.

\* How QuietStep reads for a step of one command.
LEMMA QuietCommand ==
    ASSUME IInv, NEW p \in Procs, NEW c, cmd' = [cmd EXCEPT ![p] = c],
           work' = work, chain' = chain, pool' = pool, store' = store, now' = now,
           cached' = cached, raced' = raced, lost' = lost, started' \in {started, started + 1},
           started' <= MaxCommands,
           GoodCmd(kind, work.requests, started', chain.n, c),
           c.pc \in {"idle", "wait", "publish", "searching"},
           c.pc = "publish" => c.coin <= chain.coin["store"] /\
                 (c.coin = chain.coin["store"] => DOMAIN Listed[chain.root] \subseteq DOMAIN Listed[c.req.csv + 1]),
           c.pc = "searching" => /\ c.req.cmd = "commit_rewards"
                                 /\ c.req.epoch < First \/ (c.req.epoch - First) % EpochLen # 0
    PROVE  IInv'
<1>1. ChainOK /\ DOMAIN cmd = Procs
  BY DEF IInv, CmdOK
<1>2. started \in Nat /\ MaxCommands \in Nat /\ MaxTime \in Nat /\ now \in Nat /\ now <= MaxTime
  BY <1>1, Numbers DEF ChainOK
<1>3. started' \in started .. MaxCommands /\ now' \in now .. MaxTime
  BY <1>2
<1>4. DOMAIN cmd' = Procs /\ cmd'[p] = c /\ \A q \in Procs : q # p => cmd'[q] = cmd[q]
  BY <1>1
<1>5. lost' \subseteq 1 .. started /\ cached' \in BOOLEAN
  BY <1>1 DEF ChainOK
<1>6. \A q \in Procs : cmd'[q] = cmd[q] \/
             /\ GoodCmd(kind, work.requests, started', chain'.n, cmd'[q])
             /\ cmd'[q].pc \notin {"find", "push"}
             /\ cmd'[q].pc = "publish" =>
                  cmd'[q].coin <= chain.coin["store"] /\
                    (cmd'[q].coin = chain.coin["store"] =>
                        DOMAIN Listed[chain.root] \subseteq DOMAIN Listed[cmd'[q].req.csv + 1])
             /\ cmd'[q].pc = "searching" =>
                  /\ cmd'[q].req.cmd = "commit_rewards"
                  /\ cmd'[q].req.epoch < First \/ (cmd'[q].req.epoch - First) % EpochLen # 0
  BY <1>4
<1>7. (chain' = chain \/ (chain.n = -1 /\ chain' = [chain EXCEPT !.n = 0])) /\ pool' \in {pool, NoItem}
  OBVIOUS
<1>8. store' # NoItem => \/ store' = store
                         \/ /\ kind = "curated" /\ store'.txs # {} /\ store'.txs \subseteq 1 .. started
                            /\ store'.root \in DOMAIN Listed
                            /\ pool' # NoItem => \A x \in pool.coins : x[1] # "store"
                            /\ DOMAIN Listed[chain.root] \subseteq DOMAIN Listed[store'.root]
  OBVIOUS
<1> QED BY ONLY IInv, work' = work, raced' = raced, <1>3, <1>4, <1>5, <1>6, <1>7, <1>8, QuietStep

\* What a command's record says, by where the command is.
LEMMA CmdFacts ==
    ASSUME CmdOK, NEW p \in Procs
    PROVE  /\ cmd[p].pc \in {"find", "push"} => p \in Asking /\ cmd[p].t \in 1 .. started
           /\ cmd[p].pc = "publish" => /\ kind = "curated" /\ cmd[p].t \in 1 .. started
                                       /\ cmd[p].req.csv + 1 \in DOMAIN Listed
<1>1. GoodCmd(kind, work.requests, started, chain.n, cmd[p])
  BY DEF CmdOK
<1> QED BY <1>1 DEF GoodCmd, GoodAsk, Asking, Idle

\* Launching the distributor: the confirmed state changes in nothing but its number.
LEMMA InvLaunch ==
    ASSUME IInv, NEW p \in Procs, Launch(p)
    PROVE  IInv'
<1>1. ChainOK /\ DOMAIN cmd = Procs
  BY DEF IInv, CmdOK
<1>2. started \in Nat /\ MaxCommands \in Nat /\ MaxTime \in Nat /\ now \in Nat /\ now <= MaxTime /\ started <= MaxCommands
  BY <1>1, Numbers DEF ChainOK
<1>3. started' \in started .. MaxCommands /\ now' \in now .. MaxTime /\ lost' \subseteq 1 .. started /\ cached' \in BOOLEAN
  BY <1>1, <1>2 DEF Launch, ChainOK
<1>4. /\ work' = work /\ raced' = raced /\ cmd' = cmd /\ pool' \in {pool, NoItem} /\ store' = store
      /\ chain' = chain \/ (chain.n = -1 /\ chain' = [chain EXCEPT !.n = 0])
  BY DEF Launch, Unlaunched, Launched
<1> QED BY ONLY IInv, <1>1, <1>3, <1>4, QuietStep

\* A command that gives up forgets all it knew.
LEMMA InvRejected ==
    ASSUME IInv, NEW p \in Procs, Rejected(p)
    PROVE  IInv'
<1>1. ChainOK /\ started <= MaxCommands
  BY Numbers DEF IInv, ChainOK
<1>2. GoodCmd(kind, work.requests, started', chain.n, Idle) /\ Idle.pc = "idle"
  BY DEF GoodCmd, Idle
<1>3. /\ cmd' = [cmd EXCEPT ![p] = Idle] /\ work' = work /\ chain' = chain /\ pool' = pool /\ store' = store
      /\ now' = now /\ cached' = cached /\ raced' = raced /\ lost' = lost /\ started' = started
  BY DEF Rejected, environment
<1> QED BY <1>1, <1>2, <1>3, QuietCommand

\* A command whose bundle is confirmed forgets all it knew.
LEMMA InvConfirm ==
    ASSUME IInv, NEW p \in Procs, Confirm(p)
    PROVE  IInv'
<1>1. ChainOK /\ started <= MaxCommands
  BY Numbers DEF IInv, ChainOK
<1>2. GoodCmd(kind, work.requests, started', chain.n, Idle) /\ Idle.pc = "idle"
  BY DEF GoodCmd, Idle
<1>3. /\ cmd' = [cmd EXCEPT ![p] = Idle] /\ work' = work /\ chain' = chain /\ pool' = pool /\ store' = store
      /\ now' = now /\ cached' = cached /\ raced' = raced /\ lost' = lost /\ started' = started
  BY DEF Confirm, environment
<1> QED BY <1>1, <1>2, <1>3, QuietCommand

\* The CSV was checked against the published one.
LEMMA InvUpdateStore ==
    ASSUME IInv, NEW p \in Procs, NEW r \in work.requests, UpdateStore(p, r)
    PROVE  IInv'
<1> DEFINE c == [pc |-> "publish", t |-> started', req |-> r, coin |-> sync_datastore.coin]
<1>1. ChainOK
  BY DEF IInv
<1>2. started \in Nat /\ MaxCommands \in Nat /\ chain \in DState
  BY <1>1, Numbers
<1>3. /\ cmd' = [cmd EXCEPT ![p] = c] /\ work' = work /\ chain' = chain /\ pool' = pool /\ store' = store
      /\ now' = now /\ cached' = cached /\ raced' = raced /\ lost' = lost /\ started' = started + 1
      /\ started' <= MaxCommands
  BY <1>2 DEF UpdateStore, environment
<1>4. /\ c.pc = "publish" /\ c.t = started' /\ c.req = r /\ c.coin = chain.coin["store"]
      /\ c.coin \in Nat
  BY <1>2 DEF sync_datastore, DState
<1>5. /\ kind = "curated" /\ r.csv = chain.root /\ r.csv + 1 \in DOMAIN Listed
      /\ DOMAIN Listed[chain.root] \subseteq DOMAIN Listed[r.csv + 1]
  BY DEF UpdateStore, load_csv_matching_root, sync_datastore, validate_update_csvs
<1>6. started' \in 1 .. started'
  BY <1>2, <1>3
<1> HIDE DEF c
<1>7. GoodCmd(kind, work.requests, started', chain.n, c)
  BY <1>4, <1>5, <1>6 DEF GoodCmd
<1>8. c.pc = "publish" => c.coin <= chain.coin["store"] /\
        (c.coin = chain.coin["store"] => DOMAIN Listed[chain.root] \subseteq DOMAIN Listed[c.req.csv + 1])
  BY <1>4, <1>5
<1> QED BY <1>3, <1>4, <1>7, <1>8, QuietCommand

\* The coin that was read is still there, and with it the published whitelist.
LEMMA InvPublishStore ==
    ASSUME IInv, NEW p \in Procs, PublishStore(p)
    PROVE  IInv'
<1>1. ChainOK /\ CmdOK /\ DOMAIN cmd = Procs
  BY DEF IInv, CmdOK
<1>2. started \in Nat /\ MaxCommands \in Nat /\ MaxTime \in Nat /\ now \in Nat /\ now <= MaxTime /\ started <= MaxCommands
  BY <1>1, Numbers DEF ChainOK
<1>3. kind = "curated" /\ cmd[p].t \in 1 .. started /\ cmd[p].req.csv + 1 \in DOMAIN Listed /\ cmd[p].pc = "publish"
  BY <1>1, CmdFacts DEF PublishStore
<1>4. /\ cached' \in BOOLEAN /\ lost' \subseteq 1 .. started /\ started' = started /\ raced' = raced
      /\ work' = work /\ chain' = chain /\ pool' = pool /\ now' = now
  BY <1>1 DEF ChainOK, PublishStore
<1>5. \E c : /\ cmd' = [cmd EXCEPT ![p] = c] /\ c.pc \in {"idle", "wait"}
             /\ GoodCmd(kind, work.requests, started, chain.n, c)
  <2>1. GoodCmd(kind, work.requests, started, chain.n, Idle) /\ Idle.pc = "idle"
    BY DEF GoodCmd, Idle
  <2>2. GoodCmd(kind, work.requests, started, chain.n, [pc |-> "wait", t |-> cmd[p].t])
    BY <1>3 DEF GoodCmd
  <2> QED BY <2>1, <2>2 DEF PublishStore
<1>6. store' # store =>
        /\ store' = [txs |-> {cmd[p].t}, root |-> cmd[p].req.csv + 1]
        /\ cmd[p].coin = chain.coin["store"]
        /\ pool # NoItem => \A x \in pool.coins : x[1] # "store"
  BY DEF PublishStore
<1>7. cmd[p].coin = chain.coin["store"] => DOMAIN Listed[chain.root] \subseteq DOMAIN Listed[cmd[p].req.csv + 1]
  BY <1>3 DEF IInv, Weighed
<1>8. store' # NoItem => \/ store' = store
                         \/ /\ kind = "curated" /\ store'.txs # {} /\ store'.txs \subseteq 1 .. started
                            /\ store'.root \in DOMAIN Listed
                            /\ pool' # NoItem => \A x \in pool.coins : x[1] # "store"
                            /\ DOMAIN Listed[chain.root] \subseteq DOMAIN Listed[store'.root]
  BY <1>3, <1>4, <1>6, <1>7
<1>9. DOMAIN cmd' = Procs /\ \A q \in Procs : cmd'[q] = cmd[q] \/
             /\ GoodCmd(kind, work.requests, started', chain'.n, cmd'[q])
             /\ cmd'[q].pc \notin {"find", "push"}
             /\ cmd'[q].pc = "publish" =>
                  cmd'[q].coin <= chain.coin["store"] /\
                    (cmd'[q].coin = chain.coin["store"] =>
                        DOMAIN Listed[chain.root] \subseteq DOMAIN Listed[cmd'[q].req.csv + 1])
             /\ cmd'[q].pc = "searching" =>
                  /\ cmd'[q].req.cmd = "commit_rewards"
                  /\ cmd'[q].req.epoch < First \/ (cmd'[q].req.epoch - First) % EpochLen # 0
  BY <1>1, <1>4, <1>5
<1>10. started' \in started .. MaxCommands /\ now' \in now .. MaxTime
  BY <1>2, <1>4
<1>11. (chain' = chain \/ (chain.n = -1 /\ chain' = [chain EXCEPT !.n = 0])) /\ pool' \in {pool, NoItem}
  BY <1>4
<1> QED BY ONLY IInv, <1>4, <1>8, <1>9, <1>10, <1>11, QuietStep

\* A bundle leaves the mempool.
LEMMA InvLeaves ==
    ASSUME IInv, Drop \/ Tick \/ UNCHANGED vars
    PROVE  IInv'
<1>1. ChainOK /\ DOMAIN cmd = Procs /\ PoolOK
  BY DEF IInv, CmdOK
<1>2. started \in Nat /\ MaxCommands \in Nat /\ MaxTime \in Nat /\ now \in Nat /\ now <= MaxTime /\ started <= MaxCommands
  BY <1>1, Numbers DEF ChainOK
<1>3. /\ work' = work /\ chain' = chain /\ store' = store /\ cached' = cached /\ cmd' = cmd
      /\ started' = started /\ raced' = raced /\ pool' \in {pool, NoItem}
      /\ now' \in {now, now + 1} /\ (now' # now => now < MaxTime)
      /\ lost' = lost \/ (pool # NoItem /\ lost' = lost \cup pool.txs)
  BY DEF Drop, Tick, vars
<1>4. lost' \subseteq 1 .. started /\ cached' \in BOOLEAN
  BY <1>1, <1>3 DEF ChainOK, PoolOK, GoodItem
<1>5. started' \in started .. MaxCommands /\ now' \in now .. MaxTime
  BY <1>2, <1>3
<1> QED BY ONLY IInv, <1>1, <1>3, <1>4, <1>5, QuietStep

-----------------------------------------------------------------------------
\* A command starts.

\* The time a command syncs to is not past the end of the epoch.
LEMMA SyncIs ==
    ASSUME NEW d \in DState, First <= d.last, d.last <= d.end, now \in Nat, First <= now,
           NEW r, Admitted(r, d)
    PROVE  SyncTime(r, d) \in Int /\ First <= SyncTime(r, d) /\ SyncTime(r, d) <= d.end
<1>1. First \in Nat /\ d.last \in Int /\ d.end \in Int
  BY Constants DEF DState
<1>2. CASE r.cmd = "sync"
  <2>1. SyncTime(r, d) = Min({now, d.end}) /\ Min({now, d.end}) > d.last
    BY <1>2 DEF SyncTime, Admitted, SyncAdmitted, NeedEpoch, Staking, EntryUpdates
  <2>2. Min({now, d.end}) \in {now, d.end} /\ Min({now, d.end}) <= d.end
    <3>1. now \in Int /\ d.end \in Int
      BY <1>1
    <3> QED BY ONLY <3>1, MinPair
  <2> QED BY <1>1, <2>1, <2>2
<1>3. CASE r.cmd = "new_epoch"
  <2>1. SyncTime(r, d) = d.end
    BY <1>3 DEF SyncTime, NeedEpoch, EntryUpdates, Staking
  <2> QED BY <1>1, <2>1
<1>4. CASE r.cmd \in NeedEpoch \cup EntryUpdates
  <2>1. SyncTime(r, d) = IF AlsoSync(d) THEN now ELSE d.last
    BY <1>4 DEF SyncTime, NeedEpoch, EntryUpdates, Staking
  <2>2. AlsoSync(d) => now <= d.end
    BY <1>4 DEF Admitted, NeedEpoch, EntryUpdates, Staking, StakingAdmitted, RefreshAdmitted, PayoutAdmitted,
                EntryUpdateAdmitted, ensure_epoch_open, get_last_onchain_timestamp
  <2> QED BY <1>1, <2>1, <2>2
<1>5. CASE r.cmd \notin {"sync", "new_epoch"} \cup NeedEpoch \cup EntryUpdates
  <2>1. SyncTime(r, d) = d.last
    BY <1>5 DEF SyncTime
  <2> QED BY <1>1, <2>1
<1> QED BY <1>2, <1>3, <1>4, <1>5

\* The state a command sees: the pending one, or else the confirmed one.
LEMMA SnapshotIs ==
    ASSUME ChainOK, PoolOK
    PROVE  LET s == sync_distributor IN
             /\ s.base = chain.n /\ GoodState(kind, s.state)
             /\ \/ s.item = NoItem /\ pool = NoItem /\ s.state = chain
                \/ pool # NoItem /\ s.item = pool /\ s.state = pool.after
<1>1. pool # NoItem => pool.txs # {} /\ GoodState(kind, pool.after)
  BY DEF PoolOK, GoodItem
<1>2. NoItem.txs = {} /\ GoodState(kind, chain)
  BY DEF NoItem, ChainOK
<1> QED BY <1>1, <1>2 DEF sync_distributor

\* A command that starts syncs: it sees the confirmed state or the pending one, both
\* good, and its number is new.
LEMMA InvBegin ==
    ASSUME IInv, NEW p \in Procs, NEW r \in work.requests, Begin(p, r)
    PROVE  IInv'
<1> DEFINE s == sync_distributor
           c == [pc |-> "find", t |-> started', req |-> r, base |-> s.base, snap |-> s.state,
                 item |-> s.item, sync |-> SyncTime(r, s.state)]
<1>1. ChainOK /\ PoolOK /\ CmdOK /\ DOMAIN cmd = Procs
  BY DEF IInv, CmdOK
<1>2. /\ started \in Nat /\ MaxCommands \in Nat /\ MaxTime \in Nat /\ now \in Nat /\ now <= MaxTime
      /\ started <= MaxCommands /\ chain.n \in Int /\ -1 <= chain.n /\ First <= now
      /\ work \in Workloads
  BY <1>1, Numbers DEF ChainOK
<1>3. /\ work' = work /\ chain' = chain /\ store' = store /\ pool' = pool /\ now' = now /\ cached' \in BOOLEAN
      /\ raced' = raced /\ lost' = lost /\ chain.n # -1 /\ cmd[p] = Idle /\ started < MaxCommands
  BY <1>1 DEF Begin, environment, Unlaunched, ChainOK
<1>4. CASE ~ Admitted(r, s.state)
  <2>1. started' = started /\ cmd' = cmd
    BY <1>4 DEF Begin
  <2>2. started' \in started .. MaxCommands /\ now' \in now .. MaxTime /\ lost' \subseteq 1 .. started
    BY <1>1, <1>2, <1>3, <2>1 DEF ChainOK
  <2> QED BY ONLY IInv, <1>1, <1>3, <2>1, <2>2, QuietStep
<1>5. CASE Admitted(r, s.state)
  <2>1. started' = started + 1 /\ cmd' = [cmd EXCEPT ![p] = c]
    BY <1>5 DEF Begin
  <2>2. /\ c.pc = "find" /\ "pc" \in DOMAIN c /\ c.t = started + 1 /\ c.req = r /\ c.base = chain.n
        /\ c.snap = s.state /\ c.item = s.item /\ c.sync = SyncTime(r, s.state)
    BY <1>1, <2>1, SnapshotIs
  <2>3. /\ GoodState(kind, c.snap)
        /\ \/ c.item = NoItem /\ pool = NoItem /\ c.snap = chain
           \/ pool # NoItem /\ c.item = pool /\ c.snap = pool.after
    BY <1>1, <2>2, SnapshotIs
  <2> HIDE DEF c
  <2>4. kind' = kind /\ MaxTime' = MaxTime /\ MaxCommands' = MaxCommands
    BY <1>3 DEF kind, MaxTime, MaxCommands
  <2>5. started' \in Nat /\ started' \in 0 .. MaxCommands /\ started <= started' /\ started + 1 \in 1 .. started'
    BY <1>2, <1>3, <2>1
  <2>6. pool # NoItem => GoodItem(kind, started', pool)
    BY <1>1, <1>2, <2>5, ItemMono DEF PoolOK
  <2>7. c.sync \in Int /\ First <= c.sync /\ c.sync <= c.snap.end
    <3>1. c.snap \in DState /\ First <= c.snap.last /\ c.snap.last <= c.snap.end
      BY <2>3 DEF GoodState
    <3> QED BY <1>2, <1>5, <2>2, <3>1, SyncIs
  <2>8. GoodAsk(kind, work.requests, started', chain'.n, c)
    <3>1. /\ r.cmd \in Staking => kind # "managed"
          /\ r.cmd = "refresh" => kind = "curated"
          /\ r.cmd \in EntryUpdates => kind = "managed"
      BY <1>5 DEF Admitted, Staking, EntryUpdates, StakingAdmitted, RefreshAdmitted, EntryUpdateAdmitted
    <3>2. c.base \in Nat /\ c.base <= chain'.n
      BY <1>2, <1>3, <2>2
    <3> QED BY <2>2, <2>3, <2>5, <2>6, <2>7, <3>1, <3>2 DEF GoodAsk
  <2>9. DOMAIN cmd' = Procs /\ cmd'[p] = c /\ \A q \in Procs : q # p => cmd'[q] = cmd[q]
    BY <1>1, <2>1
  <2>10. CmdOK'
    <3>1. GoodCmd(kind, work.requests, started', chain'.n, c)
      BY <2>2, <2>8 DEF GoodCmd
    <3>2. \A q \in Procs : cmd'[q] = cmd[q] \/ GoodCmd(kind, work.requests, started', chain'.n, cmd'[q])
      BY <2>9, <3>1
    <3>3. chain'.n \in Int /\ chain.n <= chain'.n
      BY <1>2, <1>3
    <3> QED BY ONLY <1>1, <1>2, <1>3, <2>5, <2>9, <3>2, <3>3, CmdStep
  <2>11. ChainOK'
    <3>1. lost \subseteq 1 .. started' /\ chain.done \subseteq 1 .. started'
      BY <1>1, <1>2, <2>5 DEF ChainOK
    <3> QED BY <1>1, <1>3, <2>4, <2>5, <3>1 DEF ChainOK
  <2>12. PoolOK'
    <3>1. store # NoItem => store.txs \subseteq 1 .. started'
      BY <1>1, <1>2, <2>5 DEF PoolOK
    <3>2. Current(pool.coins) => Current(pool.coins)'
      BY <1>3 DEF Current
    <3> QED BY <1>1, <1>3, <2>4, <2>6, <3>1, <3>2 DEF PoolOK
  <2>13. /\ Asking' = Asking \cup {p} /\ p \notin Asking /\ Ledgers' \subseteq Ledgers
         /\ c.snap.entries \in Ledgers
    <3>1. Asking' = Asking \cup {p} /\ p \notin Asking
      BY <1>3, <2>2, <2>9 DEF Asking, Idle
    <3>2. c.snap.entries \in Ledgers
      BY <2>3 DEF Ledgers
    <3>3. Ledgers' \subseteq Ledgers \cup {c.snap.entries}
      BY <1>3, <2>9, <3>1 DEF Ledgers, Asking
    <3> QED BY <3>1, <3>2, <3>3
  <2>14. ASSUME NEW q \in Asking', q # p
         PROVE  /\ q \in Asking /\ q \in Procs /\ cmd'[q] = cmd[q] /\ cmd[q].t \in 1 .. started
                /\ cmd[q].pc = "push" => cmd[q].use.entry \in 0 .. started
    <3>1. q \in Asking /\ q \in Procs /\ cmd'[q] = cmd[q]
      BY <2>9, <2>13, <2>14 DEF Asking
    <3>2. cmd[q].t \in 1 .. started
      BY <1>1, <3>1, AskingOK DEF GoodAsk
    <3>3. cmd[q].pc = "push" => cmd[q].use.entry \in 0 .. started
      BY <1>1, <3>1, AskingOK DEF GoodUse
    <3> QED BY <3>1, <3>2, <3>3
  <2>15. Fresh'
    <3>1. \A E \in Ledgers' : \A e \in E : e.id \in 1 .. started
      BY <2>13 DEF IInv, Fresh
    <3>2. \A E \in Ledgers' : \A e \in E : e.id \in 1 .. started'
      BY <1>2, <2>5, <3>1
    <3>3. ASSUME NEW q \in Asking' PROVE \A E \in Ledgers' : \A e \in E : e.id # cmd'[q].t
      <4>1. CASE q = p
        <5>1. cmd'[q].t = started + 1
          BY <2>2, <2>9, <4>1
        <5> QED BY <1>2, <3>1, <5>1
      <4>2. CASE q # p
        <5>1. q \in Asking /\ cmd'[q] = cmd[q]
          BY <2>14, <4>2
        <5> QED BY <2>13, <5>1 DEF IInv, Fresh
      <4> QED BY <4>1, <4>2
    <3>4. ASSUME NEW q \in Asking', NEW u \in Asking', q # u PROVE cmd'[q].t # cmd'[u].t
      <4>0. cmd'[p].t = started + 1
        BY <2>2, <2>9
      <4>1. CASE q = p
        <5>1. cmd'[u].t \in 1 .. started
          BY <2>14, <3>4, <4>1
        <5> QED BY <1>2, <4>0, <4>1, <5>1
      <4>2. CASE u = p
        <5>1. cmd'[q].t \in 1 .. started
          BY <2>14, <3>4, <4>2
        <5> QED BY <1>2, <4>0, <4>2, <5>1
      <4>3. CASE q # p /\ u # p
        BY <2>14, <3>4, <4>3 DEF IInv, Fresh
      <4> QED BY <4>1, <4>2, <4>3
    <3> QED BY <3>2, <3>3, <3>4 DEF Fresh
  <2>16. Owned'
    <3>1. PICK own \in [Nat -> Holders \cup {Nobody}] : Owns(own)
      BY DEF IInv, Owned
    <3>2. PICK own2 \in [Nat -> Holders \cup {Nobody}] :
            own2[started + 1] = r.who /\ \A i \in 0 .. started : own2[i] = own[i]
      <4> DEFINE f == [own EXCEPT ![started + 1] = r.who]
      <4>1. r.who \in Holders /\ started + 1 \in Nat
        BY <1>2, RequestType
      <4>2. f \in [Nat -> Holders \cup {Nobody}] /\ f[started + 1] = r.who
        BY <4>1
      <4>3. \A i \in 0 .. started : f[i] = own[i]
        BY <1>2
      <4> HIDE DEF f
      <4> QED BY <4>2, <4>3
    <3>3. \A i \in 0 .. started : own2[i] = own[i]
      BY <3>2
    <3>4. \A E \in Ledgers' : \A e \in E : own2[e.id] = e.who
      <4>1. \A E \in Ledgers' : \A e \in E : e.id \in 0 .. started /\ own[e.id] = e.who
        BY <1>2, <2>13, <3>1 DEF IInv, Fresh, Owns
      <4> QED BY <3>3, <4>1
    <3>5. \A q \in Asking' : own2[cmd'[q].t] = cmd'[q].req.who
      <4>1. own2[cmd'[p].t] = cmd'[p].req.who
        BY <2>2, <2>9, <3>2
      <4>2. ASSUME NEW q \in Asking', q # p PROVE own2[cmd'[q].t] = cmd'[q].req.who
        <5>1. q \in Asking /\ cmd'[q] = cmd[q] /\ cmd[q].t \in 0 .. started
          BY <1>2, <2>14, <4>2
        <5>2. own[cmd[q].t] = cmd[q].req.who
          BY <3>1, <5>1 DEF Owns
        <5> QED BY <3>3, <5>1, <5>2
      <4> QED BY <4>1, <4>2
    <3>6. \A q \in Asking' : cmd'[q].pc = "push" /\ cmd'[q].use.entry # 0 => own2[cmd'[q].use.entry] = cmd'[q].req.who
      <4>1. cmd'[p].pc # "push"
        BY <2>2, <2>9
      <4>2. ASSUME NEW q \in Asking', q # p, cmd'[q].pc = "push", cmd'[q].use.entry # 0
            PROVE  own2[cmd'[q].use.entry] = cmd'[q].req.who
        <5>1. q \in Asking /\ cmd'[q] = cmd[q] /\ cmd[q].use.entry \in 0 .. started
          BY <2>14, <4>2
        <5>2. own[cmd[q].use.entry] = cmd[q].req.who
          BY <3>1, <4>2, <5>1 DEF Owns
        <5> QED BY <3>3, <5>1, <5>2
      <4> QED BY <4>1, <4>2
    <3>7. Owns(own2)'
      BY <3>4, <3>5, <3>6 DEF Owns
    <3> QED BY <3>2, <3>7 DEF Owned
  <2>17. OneEntry'
    <3> SUFFICES ASSUME kind # "managed" PROVE OneEntry'
      BY <2>4 DEF OneEntry
    <3>1. \A E \in Ledgers' : \A w \in Holders \ raced' : Single1(E, w)
      BY <1>3, <2>13 DEF IInv, OneEntry
    <3>2. ASSUME NEW q \in Asking', cmd'[q].pc = "push"
          PROVE  q \in Asking /\ cmd'[q] = cmd[q]
      <4>1. q # p
        BY <2>2, <2>9, <3>2
      <4> QED BY <2>14, <4>1
    <3>3. \A q \in Asking' : cmd'[q].pc = "push" /\ cmd'[q].req.cmd = "stake" /\ cmd'[q].use.entry = 0
                               /\ cmd'[q].base = chain'.n => Entries(chain', cmd'[q].req.who) = {}
      BY <1>3, <3>2 DEF IInv, OneEntry
    <3> QED BY <3>1, <3>3 DEF OneEntry
  <2>18. Weighed'
    <3> SUFFICES ASSUME kind = "curated" PROVE Weighed'
      BY <2>4 DEF Weighed
    <3>1. ASSUME NEW q \in Asking'
          PROVE  /\ \A x \in CoinsOf(cmd'[q].item) : x[2] <= chain.coin[x[1]]
                 /\ cmd'[q].base = chain.n => ReadThrough(CoinsOf(cmd'[q].item), cmd'[q].snap.locked)
      <4>1. CASE q # p
        BY <2>14, <4>1 DEF IInv, Weighed
      <4>2. CASE q = p /\ pool = NoItem
        BY <2>3, <2>9, <4>2 DEF CoinsOf, ReadThrough
      <4>3. CASE q = p /\ pool # NoItem
        <5>1. cmd'[q].item = pool /\ cmd'[q].snap.locked = pool.after.locked /\ CoinsOf(pool) = pool.coins
          BY <2>3, <2>9, <4>3 DEF CoinsOf
        <5>2. ReadThrough(pool.coins, pool.after.locked)
          BY <4>3 DEF IInv, Weighed
        <5>3. pool.coins \subseteq Coin /\ \A x \in pool.coins : chain.coin[x[1]] = x[2]
          BY <1>1, <4>3 DEF PoolOK, GoodItem, Current
        <5>4. \A x \in pool.coins : x[2] \in Nat
          BY <5>3 DEF Coin
        <5> QED BY <5>1, <5>2, <5>3, <5>4
      <4> QED BY <4>1, <4>2, <4>3
    <3>2. ASSUME NEW q \in Asking', cmd'[q].pc = "push"
          PROVE  q \in Asking /\ cmd'[q] = cmd[q]
      <4>1. q # p
        BY <2>2, <2>9, <3>2
      <4> QED BY <2>14, <4>1
    <3>3. \A q \in Procs : cmd'[q].pc = "publish" => cmd'[q] = cmd[q]
      BY <2>2, <2>9
    <3>4. \A coins, l : ReadThrough(coins, l) =>
            \A a \in Assets : l[a] # chain'.locked[a] /\ l[a].who # Nobody =>
              \E x \in coins : x[1] = "store" /\ (x[2] = chain'.coin["store"] =>
                  a \in DOMAIN Listed[chain'.root] /\ l[a].shares = Listed[chain'.root][a])
      BY <1>3 DEF ReadThrough, AtRoot
    <3>5. \A q \in Asking' : cmd'[q].base = chain'.n => ReadThrough(CoinsOf(cmd[q].item), cmd[q].snap.locked)'
      BY <1>3, <3>1, <3>4 DEF ReadThrough, AtRoot
    <3>6. pool' # NoItem => ReadThrough(pool.coins, pool.after.locked)'
      <4>1. pool # NoItem => ReadThrough(pool.coins, pool.after.locked)
        BY DEF IInv, Weighed
      <4> QED BY <1>3, <3>4, <4>1 DEF ReadThrough, AtRoot
    <3>7. /\ \A a \in Assets : chain'.locked[a].who # Nobody => a \in DOMAIN Listed[chain'.root]
          /\ store' # NoItem => DOMAIN Listed[chain'.root] \subseteq DOMAIN Listed[store'.root]
      BY <1>3 DEF IInv, Weighed
    <3>8. \A q \in Asking' : cmd'[q].pc = "push" /\ cmd'[q].req.cmd \in {"stake", "refresh"} =>
             \E x \in cmd'[q].use.coins : /\ x[1] = "store" /\ x[2] <= chain'.coin["store"]
                                          /\ x[2] = chain'.coin["store"] => cmd'[q].req.csv = chain'.root
      BY <1>3, <3>2 DEF IInv, Weighed
    <3>9. \A q \in Procs : cmd'[q].pc = "publish" =>
             /\ cmd'[q].coin <= chain'.coin["store"]
             /\ cmd'[q].coin = chain'.coin["store"] =>
                  DOMAIN Listed[chain'.root] \subseteq DOMAIN Listed[cmd'[q].req.csv + 1]
      BY <1>3, <3>3 DEF IInv, Weighed
    <3>10. \A q \in Asking' : \A x \in CoinsOf(cmd'[q].item) : x[2] <= chain'.coin[x[1]]
      BY <1>3, <3>1
    <3> QED BY <3>5, <3>6, <3>7, <3>8, <3>9, <3>10 DEF Weighed
  <2>19. SearchEnds'
    BY <2>2, <2>9 DEF IInv, SearchEnds
  <2> QED BY <2>10, <2>11, <2>12, <2>15, <2>16, <2>17, <2>18, <2>19 DEF IInv
<1> QED BY <1>4, <1>5

-----------------------------------------------------------------------------
\* A command looks for what it needs.

\* The parts of what a command asks for are of the right kind.
UseTyped(u) ==
    /\ u.entry \in 0 .. started /\ u.assets \subseteq Assets /\ u.shares \in Nat
    /\ u.coins \subseteq Coin /\ u.commit \subseteq Commitment

\* The entry is a confirmed one of the holder; a new one is asked for only if
\* there is none.
UseEntry(r, u) ==
    /\ u.entry # 0 => \E e \in chain.entries : e.id = u.entry /\ e.who = r.who
    /\ r.cmd = "stake" /\ u.entry = 0 => Entries(chain, r.who) = {}

\* What stake asks for: an asset nobody has locked, at the weight the whitelist gives
\* it, and the entry of the staker when there is one.
LEMMA StakeUse ==
    ASSUME ChainOK, Fresh, NEW r \in work.requests, r.cmd = "stake", kind # "managed", NEW u \in Stake(r)
    PROVE  /\ UseTyped(u) /\ UseEntry(r, u) /\ u.assets = {r.asset} /\ chain.locked[r.asset] = Unlocked
           /\ kind = "curated" =>
                /\ r.csv = chain.root /\ r.asset \in DOMAIN Listed[r.csv] /\ u.shares = Listed[r.csv][r.asset]
                /\ u.coins = {<<"store", chain.coin["store"]>>}
<1>1. started \in Nat /\ chain \in DState /\ kind \in Kinds /\ work \in Workloads
  BY Numbers
<1>2. /\ r.asset \in Assets /\ (kind = "cat" => r.asset \in DOMAIN Listed[1])
      /\ 1 \in DOMAIN Listed /\ chain.root \in DOMAIN Listed
  BY <1>1, RequestType, Constants DEF DState
<1> DEFINE ids == {e.id : e \in find_entry_slots(r.who, 0)}
<1>3. PICK i \in (IF ids = {} THEN {0} ELSE ids), w \in StakeShares(r) :
        chain.locked[r.asset] = Unlocked /\
        u = [Nothing EXCEPT !.entry = i, !.assets = {r.asset}, !.shares = w, !.coins = Oracle]
  <2>1. PICK i \in (IF ids = {} THEN {0} ELSE ids) :
          u \in {[Nothing EXCEPT !.entry = i, !.assets = {r.asset}, !.shares = w, !.coins = Oracle] :
                  w \in {v \in StakeShares(r) : chain.locked[r.asset] = Unlocked}}
    BY DEF Stake
  <2>2. PICK w \in StakeShares(r) :
          chain.locked[r.asset] = Unlocked /\
          u = [Nothing EXCEPT !.entry = i, !.assets = {r.asset}, !.shares = w, !.coins = Oracle]
    BY <2>1
  <2> HIDE DEF ids
  <2> QED BY <2>1, <2>2
<1>4. /\ u.entry = i /\ u.assets = {r.asset} /\ u.shares = w /\ u.coins = Oracle /\ u.commit = {}
  BY <1>3 DEF Nothing
<1>5. \A e \in chain.entries : e.id \in 1 .. started
  BY DEF Fresh, Ledgers
<1>6. ids = {e.id : e \in Entries(chain, r.who)}
  BY DEF find_entry_slots
<1>7. i \in 0 .. started /\ UseEntry(r, u)
  <2>1. CASE ids = {}
    <3>1. i = 0
      BY <1>3, <2>1
    <3>2. Entries(chain, r.who) = {}
      BY <1>6, <2>1
    <3> QED BY <1>1, <1>4, <3>1, <3>2 DEF UseEntry
  <2>2. CASE ids # {}
    <3>1. PICK e \in chain.entries : e.id = i /\ e.who = r.who
      BY <1>3, <1>6, <2>2 DEF Entries
    <3> QED BY <1>1, <1>4, <1>5, <3>1 DEF UseEntry
  <2> QED BY <2>1, <2>2
<1>8. /\ w \in Nat
      /\ kind = "curated" => /\ r.csv = chain.root /\ r.asset \in DOMAIN Listed[r.csv] /\ w = Listed[r.csv][r.asset]
  <2>1. CASE kind = "nft"
    BY <1>3, <2>1 DEF StakeShares, stake_nft_collection
  <2>2. CASE kind = "curated"
    <3>1. r.csv = chain.root /\ r.asset \in DOMAIN Listed[r.csv] /\ w = Listed[r.csv][r.asset]
      BY <1>3, <2>2 DEF StakeShares, stake_curated_nft, load_csv_matching_root, sync_datastore, merkle_proof_for_nft
    <3> QED BY <1>2, <3>1, ListedNat
  <2>3. CASE kind = "cat"
    <3>1. w = Listed[1][r.asset]
      BY <1>3, <2>3 DEF StakeShares, stake_cat
    <3> QED BY <1>2, <2>3, <3>1, ListedNat
  <2> QED BY <1>1, <2>1, <2>2, <2>3 DEF Kinds
<1>9. Oracle \subseteq Coin /\ (kind = "curated" => Oracle = {<<"store", chain.coin["store"]>>})
  BY <1>1 DEF Oracle, sync_datastore, Coin, DState
<1> HIDE DEF ids
<1> QED BY <1>2, <1>3, <1>4, <1>7, <1>8, <1>9 DEF UseTyped

\* What unstake asks for: an entry of the holder and an asset locked in its name.
LEMMA UnstakeUse ==
    ASSUME ChainOK, Fresh, NEW r \in work.requests, r.cmd = "unstake", NEW u \in Unstake(r)
    PROVE  /\ UseTyped(u) /\ UseEntry(r, u) /\ u.entry # 0
           /\ \A a \in u.assets : chain.locked[a].who = r.who
<1>1. started \in Nat
  BY Numbers
<1>2. PICK e \in find_entry_slots(r.who, 0) : u \in {[Nothing EXCEPT !.entry = e.id, !.assets = {a}] : a \in find_locked(r.who, e)}
  BY DEF Unstake
<1>3. PICK a \in find_locked(r.who, e) : u = [Nothing EXCEPT !.entry = e.id, !.assets = {a}]
  BY <1>2
<1>4. u.entry = e.id /\ u.assets = {a} /\ u.shares = 0 /\ u.coins = {} /\ u.commit = {}
  BY <1>3 DEF Nothing
<1>5. e \in chain.entries /\ e.who = r.who /\ e.id \in 1 .. started
  BY DEF Fresh, Ledgers, find_entry_slots, Entries
<1>6. a \in Assets /\ chain.locked[a].who = r.who
  BY DEF find_locked, find_locked_cats, find_locked_nfts, Locks
<1> QED BY <1>1, <1>4, <1>5, <1>6 DEF UseTyped, UseEntry

\* What refresh asks for: an entry of the holder, its assets, and the whitelist as the
\* data store has it now.
LEMMA RefreshUse ==
    ASSUME ChainOK, Fresh, Weighed, NEW r \in work.requests, r.cmd = "refresh", kind = "curated", NEW u \in Refresh(r)
    PROVE  /\ UseTyped(u) /\ UseEntry(r, u) /\ u.entry # 0
           /\ \A a \in u.assets : chain.locked[a].who = r.who
           /\ r.csv = chain.root /\ r.csv \in DOMAIN Listed /\ u.assets \subseteq DOMAIN Listed[r.csv]
           /\ u.coins = {<<"store", chain.coin["store"]>>}
<1>1. started \in Nat /\ chain \in DState /\ work \in Workloads
  BY Numbers
<1>2. PICK e \in find_entry_slots(r.who, 0) :
        load_csv_matching_root(r) /\ u = [Nothing EXCEPT !.entry = e.id, !.assets = Reweighted(r, e), !.coins = Oracle]
  BY DEF Refresh
<1>3. u.entry = e.id /\ u.assets = Reweighted(r, e) /\ u.shares = 0 /\ u.coins = Oracle /\ u.commit = {}
  BY <1>2 DEF Nothing
<1>4. e \in chain.entries /\ e.who = r.who /\ e.id \in 1 .. started
  BY DEF Fresh, Ledgers, find_entry_slots, Entries
<1>5. \A a \in Reweighted(r, e) : a \in Assets /\ chain.locked[a].who = r.who
  BY DEF Reweighted, find_locked_nfts, Locks
<1>6. r.csv = chain.root /\ r.csv \in DOMAIN Listed
  BY <1>1, <1>2 DEF load_csv_matching_root, sync_datastore, DState
<1>7. Reweighted(r, e) \subseteq DOMAIN Listed[r.csv]
  <2>1. r.who # Nobody
    BY <1>1, RequestType
  <2> QED BY <1>5, <1>6, <2>1 DEF Weighed
<1>8. Oracle \subseteq Coin /\ Oracle = {<<"store", chain.coin["store"]>>}
  BY <1>1 DEF Oracle, sync_datastore, Coin, DState
<1> QED BY <1>1, <1>3, <1>4, <1>5, <1>6, <1>7, <1>8 DEF UseTyped, UseEntry

\* Payouts and entry updates.
LEMMA EntryUse ==
    ASSUME ChainOK, Fresh, NEW r \in work.requests, r.cmd \in {"payout"} \cup EntryUpdates,
           NEW u \in InitiatePayout(r) \cup EntryUpdate(r)
    PROVE  UseTyped(u) /\ UseEntry(r, u)
<1>1. started \in Nat /\ chain \in DState
  BY Numbers
<1>2. \A w, n : \A e \in find_entry_slots(w, n) : e \in chain.entries /\ e.who = w /\ e.id \in 1 .. started
  BY DEF Fresh, Ledgers, find_entry_slots, Entries
<1>3. Vault \subseteq Coin
  BY <1>1 DEF Vault, Coin, DState
<1>4. /\ u.entry = 0 \/ \E w : w = r.who /\ \E n : \E e \in find_entry_slots(w, n) : u.entry = e.id
      /\ u.assets = {} /\ u.shares = 0 /\ u.coins \subseteq Coin /\ u.commit = {}
  <2>1. CASE u \in InitiatePayout(r)
    <3>1. PICK e \in find_entry_slots(r.who, 0) : u = [Nothing EXCEPT !.entry = e.id]
      BY <2>1 DEF InitiatePayout
    <3> QED BY <3>1 DEF Nothing
  <2>2. CASE u \in EntryUpdate(r) /\ r.cmd = "add_entry"
    BY <1>3, <2>2 DEF EntryUpdate, Nothing
  <2>3. CASE u \in EntryUpdate(r) /\ r.cmd # "add_entry"
    <3>1. PICK e \in find_entry_slots(r.who, Listed[1][r.asset]) : u = [Nothing EXCEPT !.entry = e.id, !.coins = Vault]
      BY <2>3 DEF EntryUpdate
    <3> QED BY <1>3, <3>1 DEF Nothing
  <2> QED BY <2>1, <2>2, <2>3
<1>5. u.entry # 0 => \E e \in chain.entries : e.id = u.entry /\ e.who = r.who
  BY <1>2, <1>4
<1>6. u.entry \in 0 .. started
  BY <1>1, <1>2, <1>4
<1> QED BY <1>4, <1>5, <1>6 DEF UseTyped, UseEntry, EntryUpdates

\* Commitments are made for epochs of the grid.
LEMMA CommitUse ==
    ASSUME ChainOK, NEW r \in work.requests, NEW d, GoodState(kind, d), ~ Endless(r, d),
           r.cmd \in {"commit_rewards", "commit_available"},
           NEW u \in IF r.cmd = "commit_rewards" THEN CommitRewards(r) ELSE CommitAvailable(d)
    PROVE  UseTyped(u) /\ UseEntry(r, u) /\ u.commit # {} /\ \A x \in u.commit : OnGrid(x.epoch)
<1>1. /\ started \in Nat /\ chain \in DState /\ work \in Workloads
      /\ r.who \in Holders /\ r.epoch \in Nat /\ OnGrid(d.end) /\ d.end \in Int
  BY Numbers, RequestType DEF GoodState, DState
<1>2. CASE r.cmd = "commit_rewards"
  <2>1. u = [Nothing EXCEPT !.slot = NewestSlot(r.epoch), !.commit = {[who |-> r.who, epoch |-> r.epoch]}]
    BY <1>2 DEF CommitRewards
  <2>2. u.entry = 0 /\ u.assets = {} /\ u.shares = 0 /\ u.coins = {} /\ u.commit = {[who |-> r.who, epoch |-> r.epoch]}
    BY <2>1 DEF Nothing
  <2>3. OnGrid(r.epoch)
    <3>1. find_reward_slot(chain, r.epoch) # {}
      BY <1>2 DEF Endless, Searched
    <3>2. PICK e \in RewardSlots(chain) : e <= r.epoch /\ (r.epoch - e) % EpochLen = 0
      BY <3>1 DEF find_reward_slot
    <3>3. e \in Int /\ First <= e /\ (e - First) % EpochLen = 0
      <4>1. e \in First .. chain.top /\ (e - First) % EpochLen = 0
        BY DEF RewardSlots
      <4>2. First \in Int /\ chain.top \in Int
        BY <1>1, Constants DEF DState
      <4> QED BY <4>1, <4>2
    <3>4. r.epoch \in Int
      BY <1>1
    <3> QED BY ONLY <3>2, <3>3, <3>4, GridUp
  <2> QED BY <1>1, <1>2, <2>2, <2>3 DEF UseTyped, UseEntry, Commitment
<1>3. CASE r.cmd = "commit_available"
  <2>1. PICK ds \in AvailableRewards :
          u = [Nothing EXCEPT !.slot = NewestSlot(d.end), !.commit = {[who |-> x, epoch |-> d.end] : x \in ds}]
    BY <1>3 DEF CommitAvailable
  <2>2. /\ u.entry = 0 /\ u.assets = {} /\ u.shares = 0 /\ u.coins = {}
        /\ u.commit = {[who |-> x, epoch |-> d.end] : x \in ds}
    BY <2>1 DEF Nothing
  <2>3. ds \subseteq Deposits /\ ds # {}
    BY <1>1 DEF AvailableRewards, DState
  <2>4. u.commit \subseteq Commitment /\ u.commit # {} /\ \A x \in u.commit : OnGrid(x.epoch)
    <3>1. ASSUME NEW x \in ds PROVE [who |-> x, epoch |-> d.end] \in Commitment
      BY <1>1, <2>3 DEF Commitment
    <3>2. \A y \in u.commit : \E x \in ds : y = [who |-> x, epoch |-> d.end]
      BY <2>2
    <3>3. u.commit \subseteq Commitment /\ \A y \in u.commit : OnGrid(y.epoch)
      BY <1>1, <3>1, <3>2
    <3>4. u.commit # {}
      BY <2>2, <2>3
    <3> QED BY <3>3, <3>4
  <2> QED BY <1>1, <1>3, <2>2, <2>4 DEF UseTyped, UseEntry
<1> QED BY <1>2, <1>3

\* The other commands.
LEMMA OtherUse ==
    ASSUME ChainOK, NEW r, NEW d, r.cmd # "stake", NEW u \in Clawback(r) \cup NewEpoch(d) \cup AddRewards \cup Sync
    PROVE  UseTyped(u) /\ UseEntry(r, u)
<1>1. started \in Nat /\ chain \in DState
  BY Numbers
<1>2. u.entry = 0 /\ u.assets = {} /\ u.shares = 0 /\ u.coins = {} /\ u.commit \subseteq Commitment
  <2>1. CASE u \in Clawback(r)
    <3>1. PICK c \in find_commitment_slots(r.who, r.epoch) : u = [Nothing EXCEPT !.slot = NewestSlot(c.epoch), !.commit = {c}]
      BY <2>1 DEF Clawback
    <3>2. c \in Commitment
      BY <1>1 DEF find_commitment_slots, DState
    <3> QED BY <3>1, <3>2 DEF Nothing
  <2>2. CASE u \in NewEpoch(d) \cup AddRewards \cup Sync
    BY <2>2 DEF NewEpoch, AddRewards, Sync, Nothing
  <2> QED BY <2>1, <2>2
<1> QED BY <1>1, <1>2 DEF UseTyped, UseEntry

\* What a command finds is what GoodUse says.
LEMMA LookUse ==
    ASSUME ChainOK, Fresh, Weighed, NEW c, GoodAsk(kind, work.requests, started, chain.n, c),
           ~ Endless(c.req, c.snap), NEW u \in Found(c.req, c.snap),
           NEW c2, c2.req = c.req, c2.use = u, c2.seen = chain.locked
    PROVE  /\ GoodUse(kind, started, c2) /\ UseEntry(c.req, u)
           /\ c.req.cmd \in {"stake", "refresh"} /\ kind = "curated" =>
                c.req.csv = chain.root /\ u.coins = {<<"store", chain.coin["store"]>>}
<1> DEFINE r == c.req
<1>1. /\ r \in work.requests /\ GoodState(kind, c.snap) /\ chain.locked \in [Assets -> Lock]
      /\ r.cmd \in Staking => kind # "managed"
      /\ r.cmd = "refresh" => kind = "curated"
  BY Numbers DEF GoodAsk, DState
<1> HIDE DEF r
<1>2. CASE r.cmd = "stake"
  <2>1. u \in Stake(r)
    BY <1>2 DEF Found, r, EntryUpdates
  <2>2. /\ UseTyped(u) /\ UseEntry(r, u) /\ u.assets = {r.asset} /\ chain.locked[r.asset] = Unlocked
        /\ kind = "curated" =>
             /\ r.csv = chain.root /\ r.asset \in DOMAIN Listed[r.csv] /\ u.shares = Listed[r.csv][r.asset]
             /\ u.coins = {<<"store", chain.coin["store"]>>}
    BY <1>1, <1>2, <2>1, StakeUse DEF Staking
  <2>3. kind = "curated" => r.csv \in DOMAIN Listed
    BY <2>2, Numbers DEF DState
  <2>4. GoodUse(kind, started, c2)
    BY <1>1, <1>2, <2>2, <2>3 DEF GoodUse, UseTyped, r
  <2> QED BY <2>2, <2>4 DEF r
<1>3. CASE r.cmd = "unstake"
  <2>1. u \in Unstake(r)
    BY <1>3 DEF Found, r, EntryUpdates
  <2>2. UseTyped(u) /\ UseEntry(r, u) /\ u.entry # 0 /\ \A a \in u.assets : chain.locked[a].who = r.who
    BY <1>1, <1>3, <2>1, UnstakeUse
  <2>3. GoodUse(kind, started, c2)
    BY <1>1, <1>3, <2>2 DEF GoodUse, UseTyped, r
  <2> QED BY <1>3, <2>2, <2>3 DEF r
<1>4. CASE r.cmd = "refresh"
  <2>1. u \in Refresh(r)
    BY <1>4 DEF Found, r, EntryUpdates
  <2>2. /\ UseTyped(u) /\ UseEntry(r, u) /\ u.entry # 0
        /\ \A a \in u.assets : chain.locked[a].who = r.who
        /\ r.csv = chain.root /\ r.csv \in DOMAIN Listed /\ u.assets \subseteq DOMAIN Listed[r.csv]
        /\ u.coins = {<<"store", chain.coin["store"]>>}
    BY <1>1, <1>4, <2>1, RefreshUse
  <2>3. GoodUse(kind, started, c2)
    BY <1>1, <1>4, <2>2 DEF GoodUse, UseTyped, r
  <2> QED BY <2>2, <2>3 DEF r
<1>5. CASE r.cmd \in {"commit_rewards", "commit_available"}
  <2>1. u \in IF r.cmd = "commit_rewards" THEN CommitRewards(r) ELSE CommitAvailable(c.snap)
    BY <1>5 DEF Found, r, EntryUpdates
  <2>2. UseTyped(u) /\ UseEntry(r, u) /\ u.commit # {} /\ \A x \in u.commit : OnGrid(x.epoch)
    BY <1>1, <1>5, <2>1, CommitUse DEF r
  <2>3. GoodUse(kind, started, c2)
    BY <1>1, <1>5, <2>2 DEF GoodUse, UseTyped, r
  <2> QED BY <1>5, <2>2, <2>3 DEF r
<1>6. CASE r.cmd \notin {"stake", "unstake", "refresh", "commit_rewards", "commit_available"}
  <2>1. UseTyped(u) /\ UseEntry(r, u)
    <3>1. CASE r.cmd \in {"payout"} \cup EntryUpdates
      <4>1. u \in InitiatePayout(r) \cup EntryUpdate(r)
        BY <3>1 DEF Found, r, EntryUpdates
      <4> QED BY <1>1, <3>1, <4>1, EntryUse
    <3>2. CASE r.cmd \notin {"payout"} \cup EntryUpdates
      <4>1. u \in Clawback(r) \cup NewEpoch(c.snap) \cup AddRewards \cup Sync
        BY <1>6, <3>2 DEF Found, r, EntryUpdates
      <4> QED BY <1>6, <4>1, OtherUse
    <3> QED BY <3>1, <3>2
  <2>2. GoodUse(kind, started, c2)
    BY <1>1, <1>6, <2>1 DEF GoodUse, UseTyped, r
  <2> QED BY <1>6, <2>1, <2>2 DEF r
<1> QED BY <1>2, <1>3, <1>4, <1>5, <1>6

\* On the grid the first slot is always found.
LEMMA EndlessOnly ==
    ASSUME ChainOK, NEW r, r.epoch \in Int, NEW d, GoodState(kind, d), Endless(r, d)
    PROVE  r.cmd = "commit_rewards" /\ (r.epoch < First \/ (r.epoch - First) % EpochLen # 0)
<1>1. First \in Nat /\ EpochLen \in Nat \ {0} /\ First <= chain.top /\ chain.top \in Int
  BY Constants DEF ChainOK, GoodState, DState
<1>2. \A e : OnGrid(e) => First \in find_reward_slot(chain, e)
  <2>1. First \in RewardSlots(chain)
    <3>1. First - First = 0 /\ 0 % EpochLen = 0
      BY <1>1, Grid0
    <3> QED BY <1>1, <3>1 DEF RewardSlots
  <2> QED BY <2>1 DEF find_reward_slot, OnGrid
<1>3. PICK e \in Searched(r, d) : find_reward_slot(chain, e) = {}
  BY DEF Endless
<1>4. ~ OnGrid(e)
  BY <1>2, <1>3
<1>5. OnGrid(d.end) /\ \A c \in chain.commits : OnGrid(c.epoch)
  BY DEF ChainOK, GoodState
<1>6. CASE r.cmd = "commit_rewards"
  <2>1. e = r.epoch
    BY <1>6 DEF Searched
  <2> QED BY <1>1, <1>4, <1>6, <2>1 DEF OnGrid
<1>7. CASE r.cmd = "clawback"
  BY <1>3, <1>4, <1>5, <1>7 DEF Searched, find_commitment_slots
<1>8. CASE r.cmd \notin {"commit_rewards", "clawback"}
  BY <1>3, <1>4, <1>5, <1>8 DEF Searched
<1> QED BY <1>6, <1>7, <1>8

\* Finding the slots: they are those of the confirmed state, read when it is looked
\* for and not when the command synced.
LEMMA InvLook ==
    ASSUME IInv, NEW p \in Procs, Look(p)
    PROVE  IInv'
<1> DEFINE c == cmd[p]
<1>1. ChainOK /\ PoolOK /\ CmdOK /\ DOMAIN cmd = Procs /\ Fresh /\ Weighed
  BY DEF IInv, CmdOK
<1>2. c.pc = "find" /\ p \in Asking
  BY DEF Look, Asking
<1>3. GoodAsk(kind, work.requests, started, chain.n, c) /\ "pc" \in DOMAIN c
  BY <1>1, <1>2, AskingOK
<1>4. /\ work' = work /\ chain' = chain /\ store' = store /\ pool' = pool /\ now' = now /\ cached' = cached
      /\ raced' = raced /\ lost' = lost /\ started' = started /\ started <= MaxCommands /\ started \in Nat
      /\ chain.n \in Int
  BY <1>1, Numbers DEF Look, environment, ChainOK
<1>5. CASE Endless(c.req, c.snap) /\ cmd' = [cmd EXCEPT ![p] = [c EXCEPT !.pc = "searching"]]
  <2> DEFINE d == [c EXCEPT !.pc = "searching"]
  <2>1. d.pc = "searching" /\ d.req = c.req
    BY <1>3
  <2>2. c.req.cmd = "commit_rewards" /\ (c.req.epoch < First \/ (c.req.epoch - First) % EpochLen # 0)
    <3>1. c.req \in work.requests /\ work \in Workloads /\ GoodState(kind, c.snap)
      BY <1>1, <1>3, Numbers DEF GoodAsk
    <3>2. c.req.epoch \in Int
      BY <3>1, RequestType
    <3> HIDE DEF c
    <3> QED BY <1>1, <1>5, <3>1, <3>2, EndlessOnly
  <2>3. cmd' = [cmd EXCEPT ![p] = d]
    BY <1>5
  <2> HIDE DEF c, d
  <2>4. GoodCmd(kind, work.requests, started', chain.n, d)
    BY <2>1 DEF GoodCmd
  <2> QED BY <1>4, <2>1, <2>2, <2>3, <2>4, QuietCommand
<1>6. CASE cmd' = [cmd EXCEPT ![p] = Idle]
  <2>1. GoodCmd(kind, work.requests, started', chain.n, Idle) /\ Idle.pc = "idle"
    BY DEF GoodCmd, Idle
  <2> QED BY <1>4, <1>6, <2>1, QuietCommand
<1>7. ASSUME ~ Endless(c.req, c.snap), NEW u \in Found(c.req, c.snap),
             cmd' = [cmd EXCEPT ![p] = [pc |-> "push", t |-> c.t, req |-> c.req, base |-> c.base,
                           snap |-> c.snap, item |-> c.item, sync |-> c.sync, use |-> u,
                           seen |-> chain.locked]]
      PROVE  IInv'
  <2> DEFINE d == [pc |-> "push", t |-> c.t, req |-> c.req, base |-> c.base,
                   snap |-> c.snap, item |-> c.item, sync |-> c.sync, use |-> u, seen |-> chain.locked]
  <2>1. /\ d.pc = "push" /\ d.t = c.t /\ d.req = c.req /\ d.base = c.base /\ d.snap = c.snap
        /\ d.item = c.item /\ d.sync = c.sync /\ d.use = u /\ d.seen = chain.locked
    OBVIOUS
  <2>2. cmd' = [cmd EXCEPT ![p] = d]
    BY <1>7
  <2> HIDE DEF d, c
  <2>3. DOMAIN cmd' = Procs /\ cmd'[p] = d /\ \A q \in Procs : q # p => cmd'[q] = cmd[q]
    BY <1>1, <2>2
  <2>4. /\ GoodUse(kind, started, d) /\ UseEntry(c.req, u)
        /\ c.req.cmd \in {"stake", "refresh"} /\ kind = "curated" =>
             c.req.csv = chain.root /\ u.coins = {<<"store", chain.coin["store"]>>}
    BY <1>1, <1>3, <1>7, <2>1, LookUse
  <2>5. GoodAsk(kind, work.requests, started, chain.n, d)
    BY <1>3, <2>1 DEF GoodAsk
  <2>6. kind' = kind /\ MaxTime' = MaxTime /\ MaxCommands' = MaxCommands
    BY <1>4 DEF kind, MaxTime, MaxCommands
  <2>7. ChainOK'
    BY <1>1, <1>4, <2>6 DEF ChainOK
  <2>8. PoolOK'
    <3>1. Current(pool.coins) => Current(pool.coins)'
      BY <1>4 DEF Current
    <3> QED BY <1>1, <1>4, <2>6, <3>1 DEF PoolOK
  <2>9. CmdOK'
    <3>1. GoodCmd(kind, work.requests, started', chain'.n, d)
      BY <1>4, <2>1, <2>4, <2>5 DEF GoodCmd
    <3>2. \A q \in Procs : cmd'[q] = cmd[q] \/ GoodCmd(kind, work.requests, started', chain'.n, cmd'[q])
      BY <2>3, <3>1
    <3>3. started' \in Nat /\ started <= started' /\ chain'.n \in Int /\ chain.n <= chain'.n
      BY <1>4
    <3> QED BY ONLY <1>1, <1>4, <2>3, <3>2, <3>3, CmdStep
  <2>10. /\ Asking' = Asking /\ Ledgers' = Ledgers
         /\ \A q \in Asking : q \in Procs /\ cmd'[q].t = cmd[q].t /\ cmd'[q].req = cmd[q].req
                              /\ cmd'[q].base = cmd[q].base /\ cmd'[q].snap = cmd[q].snap /\ cmd'[q].item = cmd[q].item
    <3>1. Asking' = Asking
      BY <1>2, <2>1, <2>3 DEF Asking
    <3>2. \A q \in Asking : q \in Procs /\ cmd'[q].t = cmd[q].t /\ cmd'[q].req = cmd[q].req
                  /\ cmd'[q].base = cmd[q].base /\ cmd'[q].snap = cmd[q].snap /\ cmd'[q].item = cmd[q].item
      BY <2>1, <2>3 DEF Asking, c
    <3>3. {cmd'[q].snap.entries : q \in Asking'} = {cmd[q].snap.entries : q \in Asking}
      BY <3>1, <3>2
    <3> QED BY <1>4, <3>1, <3>2, <3>3 DEF Ledgers
  <2>11. Owned'
    <3>1. PICK own \in [Nat -> Holders \cup {Nobody}] : Owns(own)
      BY DEF IInv, Owned
    <3>2. \A E \in Ledgers' : \A e \in E : own[e.id] = e.who
      BY <2>10, <3>1 DEF Owns
    <3>3. \A q \in Asking' : own[cmd'[q].t] = cmd'[q].req.who
      BY <2>10, <3>1 DEF Owns
    <3>4. ASSUME NEW q \in Asking', cmd'[q].pc = "push", cmd'[q].use.entry # 0
          PROVE  own[cmd'[q].use.entry] = cmd'[q].req.who
      <4>1. CASE q # p
        BY <2>3, <2>10, <3>1, <3>4, <4>1 DEF Owns
      <4>2. CASE q = p
        <5>1. PICK e \in chain.entries : e.id = u.entry /\ e.who = c.req.who
          BY <2>1, <2>3, <2>4, <3>4, <4>2 DEF UseEntry
        <5>2. own[e.id] = e.who
          BY <3>1 DEF Owns, Ledgers
        <5> QED BY <2>1, <2>3, <4>2, <5>1, <5>2
      <4> QED BY <4>1, <4>2
    <3>5. Owns(own)'
      BY <3>2, <3>3, <3>4 DEF Owns
    <3> QED BY <3>5 DEF Owned
  <2>12. Fresh'
    <3>1. \A E \in Ledgers' : \A e \in E : e.id \in 1 .. started'
      BY <1>1, <1>4, <2>10 DEF Fresh
    <3>2. /\ \A q \in Asking' : \A E \in Ledgers' : \A e \in E : e.id # cmd'[q].t
          /\ \A q, x \in Asking' : q # x => cmd'[q].t # cmd'[x].t
      BY <1>1, <2>10 DEF Fresh
    <3> QED BY <3>1, <3>2 DEF Fresh
  <2>13. OneEntry'
    <3> SUFFICES ASSUME kind # "managed" PROVE OneEntry'
      BY <2>6 DEF OneEntry
    <3>1. \A E \in Ledgers' : \A w \in Holders \ raced' : Single1(E, w)
      BY <1>4, <2>10 DEF IInv, OneEntry
    <3>2. ASSUME NEW q \in Asking', cmd'[q].pc = "push", cmd'[q].req.cmd = "stake", cmd'[q].use.entry = 0,
                 cmd'[q].base = chain'.n
          PROVE  Entries(chain, cmd'[q].req.who) = {}
      <4>1. CASE q # p
        BY <1>4, <2>3, <2>10, <3>2, <4>1 DEF IInv, OneEntry
      <4>2. CASE q = p
        BY <2>1, <2>3, <2>4, <3>2, <4>2 DEF UseEntry
      <4> QED BY <4>1, <4>2
    <3>3. \A q \in Asking' : cmd'[q].pc = "push" /\ cmd'[q].req.cmd = "stake" /\ cmd'[q].use.entry = 0
                               /\ cmd'[q].base = chain'.n => Entries(chain', cmd'[q].req.who) = {}
      BY <1>4, <3>2
    <3> QED BY <3>1, <3>3 DEF OneEntry
  <2>14. Weighed'
    <3> SUFFICES ASSUME kind = "curated" PROVE Weighed'
      BY <2>6 DEF Weighed
    <3>1. \A coins, l : ReadThrough(coins, l) =>
            \A a \in Assets : l[a] # chain'.locked[a] /\ l[a].who # Nobody =>
              \E x \in coins : x[1] = "store" /\ (x[2] = chain'.coin["store"] =>
                  a \in DOMAIN Listed[chain'.root] /\ l[a].shares = Listed[chain'.root][a])
      BY <1>4 DEF ReadThrough, AtRoot
    <3>2. \A q \in Asking' : cmd'[q].base = chain'.n => ReadThrough(CoinsOf(cmd[q].item), cmd[q].snap.locked)
      BY <1>1, <1>4, <2>10 DEF Weighed
    <3>3. \A q \in Asking' : cmd'[q].base = chain'.n => ReadThrough(CoinsOf(cmd[q].item), cmd[q].snap.locked)'
      <4> TAKE q \in Asking'
      <4>1. cmd'[q].item = cmd[q].item /\ cmd'[q].snap = cmd[q].snap
        BY <2>10
      <4>2. cmd'[q].base = chain'.n => ReadThrough(CoinsOf(cmd'[q].item), cmd'[q].snap.locked)
        BY <3>2, <4>1
      <4>3. cmd'[q].base = chain'.n =>
              \A a \in Assets : cmd'[q].snap.locked[a] # chain'.locked[a] /\ cmd'[q].snap.locked[a].who # Nobody =>
              \E x \in CoinsOf(cmd'[q].item) : x[1] = "store" /\ (x[2] = chain'.coin["store"] =>
                  a \in DOMAIN Listed[chain'.root] /\ cmd'[q].snap.locked[a].shares = Listed[chain'.root][a])
        BY <3>1, <4>2
      <4> QED BY <4>3 DEF ReadThrough, AtRoot
    <3>4. pool' # NoItem => ReadThrough(pool.coins, pool.after.locked)'
      <4>1. pool # NoItem => ReadThrough(pool.coins, pool.after.locked)
        BY <1>1 DEF Weighed
      <4> QED BY <1>4, <3>1, <4>1 DEF ReadThrough, AtRoot
    <3>5. /\ \A a \in Assets : chain'.locked[a].who # Nobody => a \in DOMAIN Listed[chain'.root]
          /\ store' # NoItem => DOMAIN Listed[chain'.root] \subseteq DOMAIN Listed[store'.root]
      BY <1>1, <1>4 DEF Weighed
    <3>6. ASSUME NEW q \in Asking', cmd'[q].pc = "push", cmd'[q].req.cmd \in {"stake", "refresh"}
          PROVE  \E x \in cmd'[q].use.coins : /\ x[1] = "store" /\ x[2] <= chain.coin["store"]
                                              /\ x[2] = chain.coin["store"] => cmd'[q].req.csv = chain.root
      <4>1. CASE q # p
        BY <1>1, <2>3, <2>10, <3>6, <4>1 DEF Weighed
      <4>2. CASE q = p
        <5>1. c.req.csv = chain.root /\ cmd'[q].use.coins = {<<"store", chain.coin["store"]>>} /\ cmd'[q].req = c.req
          BY <2>1, <2>3, <2>4, <3>6, <4>2
        <5>2. chain.coin["store"] \in Nat
          BY <1>1, Numbers DEF DState
        <5> QED BY <5>1, <5>2
      <4> QED BY <4>1, <4>2
    <3>7. \A q \in Asking' : cmd'[q].pc = "push" /\ cmd'[q].req.cmd \in {"stake", "refresh"} =>
             \E x \in cmd'[q].use.coins : /\ x[1] = "store" /\ x[2] <= chain'.coin["store"]
                                          /\ x[2] = chain'.coin["store"] => cmd'[q].req.csv = chain'.root
      BY <1>4, <3>6
    <3>8. \A q \in Procs : cmd'[q].pc = "publish" =>
             /\ cmd'[q].coin <= chain'.coin["store"]
             /\ cmd'[q].coin = chain'.coin["store"] =>
                  DOMAIN Listed[chain'.root] \subseteq DOMAIN Listed[cmd'[q].req.csv + 1]
      BY <1>1, <1>4, <2>1, <2>3 DEF Weighed
    <3>9. \A q \in Asking' : \A x \in CoinsOf(cmd'[q].item) : x[2] <= chain'.coin[x[1]]
      BY <1>1, <1>4, <2>10 DEF Weighed
    <3> QED BY <3>3, <3>4, <3>5, <3>7, <3>8, <3>9 DEF Weighed
  <2>15. SearchEnds'
    BY <2>1, <2>3 DEF IInv, SearchEnds
  <2> QED BY <2>7, <2>8, <2>9, <2>11, <2>12, <2>13, <2>14, <2>15 DEF IInv
<1> QED BY <1>5, <1>6, <1>7 DEF Look

-----------------------------------------------------------------------------
\* A command pushes its bundle.

\* The state its bundle leads to.
LEMMA PushFollows ==
    ASSUME IInv, NEW p \in Procs, cmd[p].pc = "push", NEW d \in Effect(cmd[p])
    PROVE  Follows(cmd[p], d)
<1> DEFINE c == cmd[p]
<1>1. ChainOK /\ CmdOK /\ Fresh /\ Owned
  BY DEF IInv
<1>2. p \in Asking
  BY DEF Asking
<1>3. GoodAsk(kind, work.requests, started, chain.n, c) /\ GoodUse(kind, started, c)
  BY <1>1, <1>2, AskingOK
<1>4. c.snap.entries \in Ledgers
  BY <1>2 DEF Ledgers
<1>5. c.t \notin Ids(c.snap)
  BY <1>1, <1>2, <1>4 DEF Fresh, Ids
<1>6. ASSUME NEW e \in c.snap.entries, e.id = c.use.entry PROVE e.who = c.req.who
  <2>1. PICK own \in [Nat -> Holders \cup {Nobody}] : Owns(own)
    BY <1>1 DEF Owned
  <2>2. own[e.id] = e.who
    BY <1>4, <2>1 DEF Owns
  <2>3. c.use.entry # 0
    BY <1>1, <1>4, <1>6 DEF Fresh
  <2>4. own[c.use.entry] = c.req.who
    BY <1>2, <2>1, <2>3 DEF Owns
  <2> QED BY <1>6, <2>2, <2>4
<1>7. work \in Workloads
  BY <1>1 DEF ChainOK
<1> QED BY <1>3, <1>5, <1>6, <1>7, EffectFollows

\* Pushing the bundle: the state it leads to is good, and the coins it spends, its own
\* and those of the pending bundle it replaces, are the current ones.
LEMMA InvPush ==
    ASSUME IInv, NEW p \in Procs, Push(p)
    PROVE  IInv'
<1> DEFINE c == cmd[p]
           k == [pc |-> "wait", t |-> c.t]
<1>1. ChainOK /\ PoolOK /\ CmdOK /\ DOMAIN cmd = Procs /\ Fresh /\ Owned /\ Weighed
  BY DEF IInv, CmdOK
<1>2. c.pc = "push" /\ p \in Asking
  BY DEF Push, Asking
<1>3. GoodAsk(kind, work.requests, started, chain.n, c) /\ GoodUse(kind, started, c)
  BY <1>1, <1>2, AskingOK
<1>4. /\ work' = work /\ chain' = chain /\ store' = store /\ now' = now /\ cached' = cached
      /\ started' = started /\ started \in Nat /\ chain.n \in Int /\ now \in Nat /\ MaxTime \in Nat
      /\ chain \in DState
  BY <1>1, Numbers DEF Push, environment
<1>5. PICK b \in Bundle(c) : Acceptable(c, b) /\ pool' = b
  BY DEF Push
<1>6. /\ lost' = lost \ pool'.txs /\ cmd' = [cmd EXCEPT ![p] = k]
      /\ raced' = IF /\ c.req.cmd = "stake" /\ Entries(chain, c.req.who) = {}
                     /\ Entries(c.snap, c.req.who) # {}
                  THEN raced \cup {c.req.who} ELSE raced
  BY DEF Push
<1>7. PICK d \in Effect(c) :
        b = [base  |-> c.base, after |-> [d EXCEPT !.last = c.sync], txs |-> c.item.txs \cup {c.t},
             coins |-> (IF c.item = NoItem THEN {} ELSE c.item.coins) \cup c.use.coins,
             until |-> IF c.item = NoItem THEN Until(c) ELSE Min({c.item.until, Until(c)})]
  BY DEF Bundle
<1>8. Follows(c, d)
  BY <1>2, PushFollows
<1>9. /\ b.base = c.base /\ b.after = [d EXCEPT !.last = c.sync] /\ b.txs = c.item.txs \cup {c.t}
      /\ b.coins = CoinsOf(c.item) \cup c.use.coins
      /\ b.until = IF c.item = NoItem THEN Until(c) ELSE Min({c.item.until, Until(c)})
  BY <1>7 DEF CoinsOf
<1>10. k.pc = "wait" /\ k.t = c.t
  OBVIOUS
<1> HIDE DEF c, k
<1>11. DOMAIN cmd' = Procs /\ cmd'[p] = k /\ \A q \in Procs : q # p => cmd'[q] = cmd[q]
  BY <1>1, <1>6
<1>12. /\ d \in DState /\ GoodState(kind, b.after) /\ b.after.last = c.sync
       /\ b.after.entries = d.entries /\ b.after.locked = d.locked
  BY <1>8, <1>9 DEF Follows, DState
<1>13. /\ chain.n = c.base /\ ~ SpendsTwice(c) /\ Current(b.coins) /\ c.sync <= now
       /\ store # NoItem => \A x \in b.coins : x[1] # "store"
  BY <1>5, <1>9 DEF Acceptable
<1>14. kind' = kind /\ MaxTime' = MaxTime /\ MaxCommands' = MaxCommands
  BY <1>4 DEF kind, MaxTime, MaxCommands
<1>15. c.req.who \in Holders /\ c.t \in 1 .. started
  <2>1. c.req \in work.requests /\ work \in Workloads /\ c.t \in 1 .. started
    BY <1>1, <1>3 DEF GoodAsk, ChainOK
  <2> QED BY <2>1, RequestType
<1>16. raced \subseteq raced' /\ raced' \subseteq Holders
  BY <1>1, <1>6, <1>15 DEF ChainOK
<1>17. ChainOK'
  <2>1. lost' \subseteq 1 .. started
    BY <1>1, <1>6 DEF ChainOK
  <2> QED BY <1>1, <1>4, <1>14, <1>16, <2>1 DEF ChainOK
<1>18. GoodItem(kind, started, b)
  <2>1. b.txs # {} /\ b.txs \subseteq 1 .. started
    <3>1. c.item.txs \subseteq 1 .. started
      <4>1. NoItem.txs = {}
        BY DEF NoItem
      <4> QED BY <1>3, <4>1 DEF GoodAsk, GoodItem
    <3> QED BY <1>9, <1>15, <3>1
  <2>2. b.coins \subseteq Coin
    <3>1. CoinsOf(c.item) \subseteq Coin
      BY <1>3 DEF GoodAsk, GoodItem, CoinsOf
    <3>2. c.use.coins \subseteq Coin
      BY <1>3 DEF GoodUse
    <3> QED BY <1>9, <3>1, <3>2
  <2>3. b.until \in Int
    <3>1. Until(c) \in Int
      BY <1>3, <1>4, Constants DEF Until, GoodAsk
    <3>2. c.item # NoItem => c.item.until \in Int
      BY <1>3 DEF GoodAsk, GoodItem
    <3>3. c.item # NoItem => Min({c.item.until, Until(c)}) \in Int
      BY <3>1, <3>2, MinPair
    <3> QED BY <1>9, <3>1, <3>3
  <2>4. b.base \in Nat
    BY <1>3, <1>9 DEF GoodAsk
  <2> QED BY <1>12, <2>1, <2>2, <2>3, <2>4 DEF GoodItem
<1>19. PoolOK'
  <2>1. \A x \in b.coins : chain'.coin[x[1]] = x[2]
    BY <1>4, <1>13 DEF Current
  <2>2. b.base = chain.n /\ b.after.last <= now
    BY <1>9, <1>12, <1>13
  <2>3. store # NoItem => /\ kind = "curated" /\ store.txs # {} /\ store.txs \subseteq 1 .. started
                          /\ store.root \in DOMAIN Listed
    BY <1>1 DEF PoolOK
  <2> QED BY <1>4, <1>5, <1>13, <1>14, <1>18, <2>1, <2>2, <2>3 DEF PoolOK, Current
<1>20. CmdOK'
  <2>1. GoodCmd(kind, work.requests, started', chain'.n, k)
    BY <1>4, <1>10, <1>15 DEF GoodCmd
  <2>2. \A q \in Procs : cmd'[q] = cmd[q] \/ GoodCmd(kind, work.requests, started', chain'.n, cmd'[q])
    BY <1>11, <2>1
  <2>3. started' \in Nat /\ started <= started' /\ chain'.n \in Int /\ chain.n <= chain'.n
    BY <1>4
  <2> QED BY ONLY <1>1, <1>4, <1>11, <2>2, <2>3, CmdStep
<1>21. ASSUME NEW q \in Asking' PROVE q \in Asking /\ q # p /\ cmd'[q] = cmd[q] /\ q \in Procs
  BY <1>10, <1>11 DEF Asking
<1>22. c.snap.entries \in Ledgers /\ \A E \in Ledgers' : E \in Ledgers \/ E = d.entries
  <2>1. c.snap.entries \in Ledgers
    BY <1>2 DEF Ledgers, c
  <2>2. ASSUME NEW q \in Asking' PROVE cmd'[q].snap.entries \in Ledgers
    <3>1. q \in Asking /\ cmd'[q] = cmd[q]
      BY <1>21, <2>2
    <3> QED BY <3>1 DEF Ledgers
  <2>3. pool'.after.entries = d.entries /\ chain'.entries \in Ledgers
    BY <1>4, <1>5, <1>12 DEF Ledgers
  <2> HIDE DEF Ledgers
  <2>4. \A E \in Ledgers' : E = chain'.entries \/ E = pool'.after.entries \/ \E q \in Asking' : E = cmd'[q].snap.entries
    BY DEF Ledgers
  <2> QED BY <2>1, <2>2, <2>3, <2>4
<1>23. Owned'
  <2>1. PICK own \in [Nat -> Holders \cup {Nobody}] : Owns(own)
    BY <1>1 DEF Owned
  <2>2. ASSUME NEW e \in d.entries PROVE own[e.id] = e.who
    <3>1. \/ \E f \in c.snap.entries : f.id = e.id /\ f.who = e.who
          \/ e.id = c.t /\ e.who = c.req.who
      BY <1>8 DEF Follows, Inherits
    <3>2. \A f \in c.snap.entries : own[f.id] = f.who
      BY <1>22, <2>1 DEF Owns
    <3>3. own[c.t] = c.req.who
      BY <1>2, <2>1 DEF Owns, c
    <3> QED BY <3>1, <3>2, <3>3
  <2>3. \A E \in Ledgers' : \A e \in E : own[e.id] = e.who
    BY <1>22, <2>1, <2>2 DEF Owns
  <2>4. /\ \A q \in Asking' : own[cmd'[q].t] = cmd'[q].req.who
        /\ \A q \in Asking' : cmd'[q].pc = "push" /\ cmd'[q].use.entry # 0 => own[cmd'[q].use.entry] = cmd'[q].req.who
    BY <1>21, <2>1 DEF Owns
  <2>5. Owns(own)'
    BY <2>3, <2>4 DEF Owns
  <2> QED BY <2>5 DEF Owned
<1>24. Fresh'
  <2>1. ASSUME NEW e \in d.entries
        PROVE  e.id \in 1 .. started /\ \A q \in Asking' : e.id # cmd[q].t
    <3>1. \/ \E f \in c.snap.entries : f.id = e.id /\ f.who = e.who
          \/ e.id = c.t /\ e.who = c.req.who
      BY <1>8 DEF Follows, Inherits
    <3>2. \A f \in c.snap.entries : f.id \in 1 .. started /\ \A q \in Asking : f.id # cmd[q].t
      BY <1>1, <1>22 DEF Fresh
    <3>3. \A q \in Asking' : c.t # cmd[q].t
      BY <1>1, <1>2, <1>21 DEF Fresh, c
    <3> QED BY <1>15, <1>21, <3>1, <3>2, <3>3
  <2>2. \A E \in Ledgers' : \A e \in E : e.id \in 1 .. started'
    BY <1>1, <1>4, <1>22, <2>1 DEF Fresh
  <2>3. ASSUME NEW q \in Asking', NEW E \in Ledgers', NEW e \in E PROVE e.id # cmd'[q].t
    BY <1>1, <1>21, <1>22, <2>1 DEF Fresh
  <2>4. \A q, x \in Asking' : q # x => cmd'[q].t # cmd'[x].t
    BY <1>1, <1>21 DEF Fresh
  <2> QED BY <2>2, <2>3, <2>4 DEF Fresh
<1>25. OneEntry'
  <2> SUFFICES ASSUME kind # "managed" PROVE OneEntry'
    BY <1>14 DEF OneEntry
  <2>1. ASSUME NEW w \in Holders \ raced' PROVE Single1(d.entries, w)
    <3>1. Single1(c.snap.entries, w)
      BY <1>16, <1>22 DEF IInv, OneEntry
    <3>2. c.req.cmd = "stake" /\ c.use.entry = 0 /\ w = c.req.who => Entries(c.snap, w) = {}
      <4>1. c.req.cmd = "stake" /\ c.use.entry = 0 => Entries(chain, c.req.who) = {}
        BY <1>2, <1>13 DEF IInv, OneEntry, c
      <4> QED BY <1>6, <4>1
    <3> QED BY <1>8, <3>1, <3>2 DEF Follows, KeepsSingle
  <2>2. \A E \in Ledgers' : \A w \in Holders \ raced' : Single1(E, w)
    BY <1>16, <1>22, <2>1 DEF IInv, OneEntry
  <2>3. \A q \in Asking' : cmd'[q].pc = "push" /\ cmd'[q].req.cmd = "stake" /\ cmd'[q].use.entry = 0
                              /\ cmd'[q].base = chain'.n => Entries(chain', cmd'[q].req.who) = {}
    BY <1>4, <1>21 DEF IInv, OneEntry
  <2> QED BY <2>2, <2>3 DEF OneEntry
<1>26. Weighed'
  <2> SUFFICES ASSUME kind = "curated" PROVE Weighed'
    BY <1>14 DEF Weighed
  <2>1. \A coins, l : ReadThrough(coins, l) =>
          \A a \in Assets : l[a] # chain'.locked[a] /\ l[a].who # Nobody =>
            \E x \in coins : x[1] = "store" /\ (x[2] = chain'.coin["store"] =>
                a \in DOMAIN Listed[chain'.root] /\ l[a].shares = Listed[chain'.root][a])
    BY <1>4 DEF ReadThrough, AtRoot
  <2>2. ASSUME NEW a \in Assets, d.locked[a] # chain.locked[a], d.locked[a].who # Nobody
        PROVE  \E x \in b.coins : x[1] = "store" /\ (x[2] = chain.coin["store"] =>
                  a \in DOMAIN Listed[chain.root] /\ d.locked[a].shares = Listed[chain.root][a])
    <3>1. CASE d.locked[a] = c.snap.locked[a]
      <4>1. ReadThrough(CoinsOf(c.item), c.snap.locked)
        BY <1>1, <1>2, <1>13 DEF Weighed, c
      <4>2. PICK x \in CoinsOf(c.item) : x[1] = "store" /\ (x[2] = chain.coin["store"] => AtRoot(c.snap.locked, a))
        BY <2>2, <3>1, <4>1 DEF ReadThrough
      <4>3. x \in b.coins
        BY <1>9
      <4> QED BY <3>1, <4>2, <4>3 DEF AtRoot
    <3>2. CASE d.locked[a] # c.snap.locked[a]
      <4>1. /\ c.req.cmd \in {"stake", "refresh"}
            /\ a \in DOMAIN Listed[c.req.csv] /\ d.locked[a].shares = Listed[c.req.csv][a]
        BY <1>8, <2>2, <3>2 DEF Follows, KeepsWeights
      <4>2. PICK x \in c.use.coins : x[1] = "store" /\ (x[2] = chain.coin["store"] => c.req.csv = chain.root)
        BY <1>1, <1>2, <4>1 DEF Weighed, c
      <4>3. x \in b.coins
        BY <1>9
      <4> QED BY <4>1, <4>2, <4>3
    <3> QED BY <3>1, <3>2
  <2>3. ReadThrough(pool.coins, pool.after.locked)'
    <3>1. pool'.coins = b.coins /\ pool'.after.locked = d.locked /\ chain' = chain
      BY <1>4, <1>5, <1>12
    <3>2. \A a \in Assets : pool'.after.locked[a] # chain'.locked[a] /\ pool'.after.locked[a].who # Nobody =>
            \E x \in pool'.coins : x[1] = "store" /\ (x[2] = chain'.coin["store"] =>
                a \in DOMAIN Listed[chain'.root] /\ pool'.after.locked[a].shares = Listed[chain'.root][a])
      BY <2>2, <3>1
    <3> QED BY <3>2 DEF ReadThrough, AtRoot
  <2>4. \A q \in Asking' : cmd'[q].base = chain'.n => ReadThrough(CoinsOf(cmd[q].item), cmd[q].snap.locked)'
    <3> TAKE q \in Asking'
    <3>1. q \in Asking /\ cmd'[q] = cmd[q]
      BY <1>21
    <3>2. cmd'[q].base = chain'.n => ReadThrough(CoinsOf(cmd'[q].item), cmd'[q].snap.locked)
      BY <1>1, <1>4, <3>1 DEF Weighed
    <3>3. cmd'[q].base = chain'.n =>
            \A a \in Assets : cmd'[q].snap.locked[a] # chain'.locked[a] /\ cmd'[q].snap.locked[a].who # Nobody =>
            \E x \in CoinsOf(cmd'[q].item) : x[1] = "store" /\ (x[2] = chain'.coin["store"] =>
                a \in DOMAIN Listed[chain'.root] /\ cmd'[q].snap.locked[a].shares = Listed[chain'.root][a])
      BY <2>1, <3>2
    <3> QED BY <3>3 DEF ReadThrough, AtRoot
  <2>5. /\ \A a \in Assets : chain'.locked[a].who # Nobody => a \in DOMAIN Listed[chain'.root]
        /\ store' # NoItem => DOMAIN Listed[chain'.root] \subseteq DOMAIN Listed[store'.root]
    BY <1>1, <1>4 DEF Weighed
  <2>6. \A q \in Asking' : cmd'[q].pc = "push" /\ cmd'[q].req.cmd \in {"stake", "refresh"} =>
             \E x \in cmd'[q].use.coins : /\ x[1] = "store" /\ x[2] <= chain'.coin["store"]
                                          /\ x[2] = chain'.coin["store"] => cmd'[q].req.csv = chain'.root
    BY <1>1, <1>4, <1>21 DEF Weighed
  <2>7. \A q \in Procs : cmd'[q].pc = "publish" =>
             /\ cmd'[q].coin <= chain'.coin["store"]
             /\ cmd'[q].coin = chain'.coin["store"] =>
                  DOMAIN Listed[chain'.root] \subseteq DOMAIN Listed[cmd'[q].req.csv + 1]
    BY <1>1, <1>4, <1>10, <1>11 DEF Weighed
  <2>8. \A q \in Asking' : \A x \in CoinsOf(cmd'[q].item) : x[2] <= chain'.coin[x[1]]
    BY <1>1, <1>4, <1>21 DEF Weighed
  <2> QED BY <2>3, <2>4, <2>5, <2>6, <2>7, <2>8 DEF Weighed
<1>27. SearchEnds'
  BY <1>10, <1>11 DEF IInv, SearchEnds
<1> QED BY <1>17, <1>19, <1>20, <1>23, <1>24, <1>25, <1>26, <1>27 DEF IInv

-----------------------------------------------------------------------------
\* Blocks.

\* The coins a bundle spends are replaced, one for one.
LEMMA SpentIs ==
    ASSUME chain.coin \in [{"store", "vault"} -> Nat], NEW coins \in SUBSET Coin, Current(coins)
    PROVE  /\ Spent(chain.coin, coins) \in [{"store", "vault"} -> Nat]
           /\ \A x \in {"store", "vault"} : chain.coin[x] <= Spent(chain.coin, coins)[x]
<1>1. ASSUME NEW x \in {"store", "vault"}
      PROVE  Cardinality({y \in coins : y[1] = x}) \in Nat
  <2>1. \A y \in coins : y[1] = x => y = <<x, chain.coin[x]>>
    BY DEF Current, Coin
  <2>2. {y \in coins : y[1] = x} \subseteq {<<x, chain.coin[x]>>}
    BY <2>1
  <2>3. IsFiniteSet({<<x, chain.coin[x]>>})
    BY FS_Singleton
  <2>4. IsFiniteSet({y \in coins : y[1] = x})
    BY <2>2, <2>3, FS_Subset
  <2> QED BY <2>4, FS_CardinalityType
<1>2. \A x \in {"store", "vault"} :
        Spent(chain.coin, coins)[x] = chain.coin[x] + Cardinality({y \in coins : y[1] = x})
  BY DEF Spent
<1>3. DOMAIN Spent(chain.coin, coins) = {"store", "vault"}
      /\ Spent(chain.coin, coins) = [x \in {"store", "vault"} |-> Spent(chain.coin, coins)[x]]
  BY DEF Spent
<1>4. \A x \in {"store", "vault"} : Spent(chain.coin, coins)[x] \in Nat /\ chain.coin[x] <= Spent(chain.coin, coins)[x]
  BY <1>1, <1>2
<1> QED BY <1>3, <1>4

\* What makes a state good does not depend on the coins around it.
LEMMA GoodAround ==
    ASSUME NEW k, NEW s, GoodState(k, s), NEW d \in DState, d.last = s.last, d.end = s.end, d.top = s.top,
           d.entries = s.entries, d.locked = s.locked, d.commits = s.commits
    PROVE  GoodState(k, d)
<1>1. s \in DState /\ IsFiniteSet(s.entries) /\ IsFiniteSet(Assets)
  BY Constants DEF GoodState
<1>2. \A x \in DState : IsFiniteSet(x.entries) =>
        (Balanced(x) <=> \A w \in Holders : SharesIn(x.entries, w) = WeightIn(x.locked, w))
  BY <1>1, BalancedIs
<1>3. Balanced(s) => Balanced(d)
  BY <1>1, <1>2
<1> QED BY <1>3 DEF GoodState, Distinct

\* A block with the pending bundle: its state becomes the confirmed one.
LEMMA InvInclude ==
    ASSUME IInv, Include
    PROVE  IInv'
<1>1. ChainOK /\ PoolOK /\ CmdOK /\ DOMAIN cmd = Procs /\ Fresh /\ Owned /\ OneEntry /\ Weighed
  BY DEF IInv, CmdOK
<1>2. /\ work' = work /\ store' = store /\ now' = now /\ cached' = cached /\ cmd' = cmd /\ started' = started
      /\ lost' = lost /\ raced' = raced /\ pool' = NoItem /\ pool # NoItem
      /\ started \in Nat /\ chain.n \in Int /\ chain \in DState /\ -1 <= chain.n
  BY <1>1, Numbers DEF Include, ChainOK
<1>3. /\ GoodItem(kind, started, pool) /\ pool.after.last <= now /\ Current(pool.coins)
  BY <1>1, <1>2 DEF PoolOK
<1>4. /\ Spent(chain.coin, pool.coins) \in [{"store", "vault"} -> Nat]
      /\ \A x \in {"store", "vault"} : chain.coin[x] <= Spent(chain.coin, pool.coins)[x]
  BY <1>2, <1>3, SpentIs DEF GoodItem, DState
<1>5. /\ pool.after \in DState /\ GoodState(kind, pool.after)
      /\ chain' = [pool.after EXCEPT !.n = chain.n + 1, !.done = chain.done \cup pool.txs,
                                     !.root = chain.root, !.coin = Spent(chain.coin, pool.coins)]
  BY <1>3 DEF Include, GoodItem, GoodState
<1> DEFINE done == chain.done \cup pool.txs
           coin == Spent(chain.coin, pool.coins)
<1>6. done \subseteq 1 .. started
  BY <1>1, <1>3 DEF ChainOK, GoodItem
<1>7. done \in SUBSET Nat /\ coin \in [{"store", "vault"} -> Nat] /\ chain.root \in DOMAIN Listed /\ chain.n + 1 \in Int
  BY <1>2, <1>4, <1>6 DEF DState
<1>8. chain' = [pool.after EXCEPT !.n = chain.n + 1, !.done = done, !.root = chain.root, !.coin = coin]
  BY <1>5
<1> HIDE DEF done, coin
<1>9. /\ chain'.n = chain.n + 1 /\ chain'.last = pool.after.last /\ chain'.end = pool.after.end
      /\ chain'.top = pool.after.top /\ chain'.entries = pool.after.entries /\ chain'.locked = pool.after.locked
      /\ chain'.commits = pool.after.commits /\ chain'.root = chain.root /\ chain'.coin = coin /\ chain'.done = done
  BY <1>5, <1>8 DEF DState
<1>10. chain' \in DState
  BY <1>5, <1>7, <1>8 DEF DState
<1>11. GoodState(kind, chain')
  <2>1. /\ chain'.last = pool.after.last /\ chain'.end = pool.after.end /\ chain'.top = pool.after.top
        /\ chain'.entries = pool.after.entries /\ chain'.locked = pool.after.locked /\ chain'.commits = pool.after.commits
    BY <1>9
  <2>2. GoodState(kind, pool.after)
    BY <1>5
  <2> QED BY ONLY <1>10, <2>1, <2>2, GoodAround
<1>12. kind' = kind /\ MaxTime' = MaxTime /\ MaxCommands' = MaxCommands
  BY <1>2 DEF kind, MaxTime, MaxCommands
<1>13. ChainOK'
  BY <1>1, <1>2, <1>3, <1>6, <1>9, <1>11, <1>12 DEF ChainOK
<1>14. PoolOK'
  BY <1>1, <1>2, <1>12 DEF PoolOK
<1>15. CmdOK'
  <2>1. /\ started' \in Nat /\ started <= started' /\ chain'.n \in Int /\ chain.n <= chain'.n /\ DOMAIN cmd' = Procs
        /\ \A q \in Procs : cmd'[q] = cmd[q] \/ GoodCmd(kind, work.requests, started', chain'.n, cmd'[q])
    BY <1>1, <1>2, <1>9
  <2> QED BY ONLY <1>1, <1>2, <2>1, CmdStep
<1>16. Owned' /\ Fresh' /\ OneEntry'
  <2>1. chain'.entries \in Ledgers
    BY <1>2, <1>9 DEF Ledgers
  <2>2. chain'.n \in Int /\ chain.n < chain'.n /\ started' \in Nat /\ started <= started' /\ raced \subseteq raced'
    BY <1>2, <1>9
  <2>3. \A q \in Procs : cmd'[q] = cmd[q] \/ cmd'[q].pc \notin {"find", "push"}
    BY <1>2
  <2>4. pool' # NoItem => pool'.after.entries \in Ledgers
    BY <1>2
  <2> QED BY ONLY <1>1, <1>2, <2>1, <2>2, <2>3, <2>4, LedgerStep
<1>17. Weighed'
  <2> SUFFICES ASSUME kind = "curated" PROVE Weighed'
    BY <1>12 DEF Weighed
  <2>0. Asking' = Asking
    BY <1>2 DEF Asking
  <2>1. chain.coin["store"] \in Nat /\ chain'.coin["store"] \in Nat /\ chain.coin["store"] <= chain'.coin["store"]
    BY <1>2, <1>4, <1>9 DEF DState, coin
  <2>2. ASSUME NEW a \in Assets, chain'.locked[a].who # Nobody PROVE a \in DOMAIN Listed[chain'.root]
    <3>1. CASE pool.after.locked[a] = chain.locked[a]
      BY <1>1, <1>9, <2>2, <3>1 DEF Weighed
    <3>2. CASE pool.after.locked[a] # chain.locked[a]
      <4>1. PICK x \in pool.coins : x[1] = "store" /\ (x[2] = chain.coin["store"] => AtRoot(pool.after.locked, a))
        BY <1>1, <1>2, <1>9, <2>2, <3>2 DEF Weighed, ReadThrough
      <4>2. x[2] = chain.coin["store"]
        BY <1>3, <4>1 DEF Current
      <4> QED BY <1>9, <4>1, <4>2 DEF AtRoot
    <3> QED BY <3>1, <3>2
  <2>3. ASSUME NEW q \in Asking
        PROVE  /\ q \in Procs /\ \A x \in CoinsOf(cmd[q].item) : x[2] <= chain'.coin[x[1]]
               /\ cmd[q].base # chain'.n
    <3>1. GoodAsk(kind, work.requests, started, chain.n, cmd[q]) /\ q \in Procs
      BY <1>1, AskingOK
    <3>2. cmd[q].base # chain'.n
      BY <1>2, <1>9, <3>1 DEF GoodAsk
    <3>3. ASSUME NEW x \in CoinsOf(cmd[q].item) PROVE x[2] <= chain'.coin[x[1]]
      <4>1. x[1] \in {"store", "vault"} /\ x[2] \in Nat
        BY <3>1 DEF GoodAsk, GoodItem, CoinsOf, Coin
      <4>2. x[2] <= chain.coin[x[1]]
        BY <1>1 DEF Weighed
      <4>3. chain.coin[x[1]] \in Nat /\ chain'.coin[x[1]] \in Nat /\ chain.coin[x[1]] <= chain'.coin[x[1]]
        BY <1>2, <1>4, <1>9, <4>1 DEF DState, coin
      <4> QED BY <4>1, <4>2, <4>3
    <3> QED BY <3>1, <3>2, <3>3
  <2>4. ASSUME NEW q \in Asking, cmd[q].pc = "push", cmd[q].req.cmd \in {"stake", "refresh"}
        PROVE  \E x \in cmd[q].use.coins : /\ x[1] = "store" /\ x[2] <= chain'.coin["store"]
                                           /\ x[2] = chain'.coin["store"] => cmd[q].req.csv = chain'.root
    <3>1. PICK x \in cmd[q].use.coins : /\ x[1] = "store" /\ x[2] <= chain.coin["store"]
                                        /\ x[2] = chain.coin["store"] => cmd[q].req.csv = chain.root
      BY <1>1, <2>4 DEF Weighed
    <3>2. x[2] \in Nat
      BY <1>1, <2>4, AskingOK DEF GoodUse, Coin
    <3>3. x[2] <= chain'.coin["store"] /\ (x[2] = chain'.coin["store"] => x[2] = chain.coin["store"])
      BY <2>1, <3>1, <3>2
    <3> QED BY <1>9, <3>1, <3>3
  <2>5. ASSUME NEW q \in Procs, cmd[q].pc = "publish"
        PROVE  /\ cmd[q].coin <= chain'.coin["store"]
               /\ cmd[q].coin = chain'.coin["store"] =>
                    DOMAIN Listed[chain'.root] \subseteq DOMAIN Listed[cmd[q].req.csv + 1]
    <3>1. cmd[q].coin \in Nat
      BY <1>1, <2>5 DEF CmdOK, GoodCmd, Idle
    <3>2. /\ cmd[q].coin <= chain.coin["store"]
          /\ cmd[q].coin = chain.coin["store"] =>
               DOMAIN Listed[chain.root] \subseteq DOMAIN Listed[cmd[q].req.csv + 1]
      BY <1>1, <2>5 DEF Weighed
    <3>3. cmd[q].coin <= chain'.coin["store"] /\ (cmd[q].coin = chain'.coin["store"] => cmd[q].coin = chain.coin["store"])
      BY <2>1, <3>1, <3>2
    <3> QED BY <1>9, <3>2, <3>3
  <2>6. store' # NoItem => DOMAIN Listed[chain'.root] \subseteq DOMAIN Listed[store'.root]
    BY <1>1, <1>2, <1>9 DEF Weighed
  <2> QED BY <1>2, <2>0, <2>2, <2>3, <2>4, <2>5, <2>6 DEF Weighed
<1>18. SearchEnds'
  BY <1>2 DEF IInv, SearchEnds
<1> QED BY <1>13, <1>14, <1>15, <1>16, <1>17, <1>18 DEF IInv

\* A block with the update of the data store: every bundle that read the old one is
\* now void.
LEMMA InvIncludeStore ==
    ASSUME IInv, IncludeStore
    PROVE  IInv'
<1>1. ChainOK /\ PoolOK /\ CmdOK /\ DOMAIN cmd = Procs /\ Fresh /\ Owned /\ OneEntry /\ Weighed
  BY DEF IInv, CmdOK
<1>2. /\ work' = work /\ pool' = pool /\ now' = now /\ cached' = cached /\ cmd' = cmd /\ started' = started
      /\ lost' = lost /\ raced' = raced /\ store' = NoItem /\ store # NoItem
      /\ started \in Nat /\ chain.n \in Int /\ chain \in DState
  BY <1>1, Numbers DEF IncludeStore
<1>3. /\ kind = "curated" /\ store.txs \subseteq 1 .. started /\ store.root \in DOMAIN Listed
      /\ pool # NoItem => \A x \in pool.coins : x[1] # "store"
  BY <1>1, <1>2 DEF PoolOK
<1> DEFINE done == chain.done \cup store.txs
<1>4. done \subseteq 1 .. started
  BY <1>1, <1>3 DEF ChainOK
<1>5. chain' = [chain EXCEPT !.root = store.root, !.coin["store"] = @ + 1, !.done = done]
  BY DEF IncludeStore
<1>6. done \in SUBSET Nat /\ chain.coin["store"] + 1 \in Nat
  BY <1>2, <1>4 DEF DState
<1> HIDE DEF done
<1>7. /\ chain'.n = chain.n /\ chain'.last = chain.last /\ chain'.end = chain.end
      /\ chain'.top = chain.top /\ chain'.entries = chain.entries /\ chain'.locked = chain.locked
      /\ chain'.commits = chain.commits /\ chain'.root = store.root /\ chain'.done = done
      /\ chain'.coin = [chain.coin EXCEPT !["store"] = @ + 1]
  BY <1>2, <1>5 DEF DState
<1>8. chain' \in DState
  <2>1. [chain.coin EXCEPT !["store"] = @ + 1] \in [{"store", "vault"} -> Nat]
    BY <1>2, <1>6 DEF DState
  <2>2. chain' = [chain EXCEPT !.root = store.root, !.coin = [chain.coin EXCEPT !["store"] = @ + 1], !.done = done]
    BY <1>2, <1>5 DEF DState
  <2> QED BY <1>2, <1>3, <1>6, <2>1, <2>2 DEF DState
<1>9. /\ chain'.coin["store"] = chain.coin["store"] + 1 /\ chain.coin["store"] \in Nat
      /\ \A x \in {"store", "vault"} : x # "store" => chain'.coin[x] = chain.coin[x]
      /\ \A x \in {"store", "vault"} : chain.coin[x] \in Nat /\ chain'.coin[x] \in Nat /\ chain.coin[x] <= chain'.coin[x]
  BY <1>2, <1>7 DEF DState
<1>10. GoodState(kind, chain')
  <2>1. /\ chain'.last = chain.last /\ chain'.end = chain.end /\ chain'.top = chain.top
        /\ chain'.entries = chain.entries /\ chain'.locked = chain.locked /\ chain'.commits = chain.commits
    BY <1>7
  <2>2. GoodState(kind, chain)
    BY <1>1 DEF ChainOK
  <2> QED BY ONLY <1>8, <2>1, <2>2, GoodAround
<1>11. kind' = kind /\ MaxTime' = MaxTime /\ MaxCommands' = MaxCommands
  BY <1>2 DEF kind, MaxTime, MaxCommands
<1>12. ChainOK'
  BY <1>1, <1>2, <1>4, <1>7, <1>10, <1>11 DEF ChainOK
<1>13. PoolOK'
  <2>1. pool # NoItem => \A x \in pool.coins : chain'.coin[x[1]] = x[2]
    <3> SUFFICES ASSUME pool # NoItem, NEW x \in pool.coins PROVE chain'.coin[x[1]] = x[2]
      OBVIOUS
    <3>1. pool.coins \subseteq Coin /\ chain.coin[x[1]] = x[2]
      BY <1>1 DEF PoolOK, GoodItem, Current
    <3>2. x[1] \in {"store", "vault"} /\ x[1] # "store"
      BY <1>3, <3>1 DEF Coin
    <3> QED BY <1>9, <3>1, <3>2
  <2> QED BY <1>1, <1>2, <1>7, <1>11, <2>1 DEF PoolOK, Current
<1>14. CmdOK'
  <2>1. /\ started' \in Nat /\ started <= started' /\ chain'.n \in Int /\ chain.n <= chain'.n /\ DOMAIN cmd' = Procs
        /\ \A q \in Procs : cmd'[q] = cmd[q] \/ GoodCmd(kind, work.requests, started', chain'.n, cmd'[q])
    BY <1>1, <1>2, <1>7
  <2> QED BY ONLY <1>1, <1>2, <2>1, CmdStep
<1>15. Owned' /\ Fresh' /\ OneEntry'
  <2>1. chain'.entries \in Ledgers /\ (pool' # NoItem => pool'.after.entries \in Ledgers)
    BY <1>2, <1>7 DEF Ledgers
  <2>2. /\ chain'.n \in Int /\ chain'.n = chain.n /\ chain'.entries = chain.entries
        /\ started' \in Nat /\ started <= started' /\ raced \subseteq raced'
    BY <1>2, <1>7
  <2>3. \A q \in Procs : cmd'[q] = cmd[q] \/ cmd'[q].pc \notin {"find", "push"}
    BY <1>2
  <2> QED BY ONLY <1>1, <1>2, <2>1, <2>2, <2>3, LedgerStep
<1>16. Weighed'
  <2>0. Asking' = Asking
    BY <1>2 DEF Asking
  <2>1. \A a \in Assets : chain'.locked[a].who # Nobody => a \in DOMAIN Listed[chain'.root]
    BY <1>1, <1>2, <1>3, <1>7 DEF Weighed
  <2>2. pool' # NoItem => ReadThrough(pool.coins, pool.after.locked)'
    <3>1. pool # NoItem => \A a \in Assets : ~ (pool.after.locked[a] # chain.locked[a] /\ pool.after.locked[a].who # Nobody)
      BY <1>1, <1>3 DEF Weighed, ReadThrough
    <3> QED BY <1>2, <1>7, <3>1 DEF ReadThrough
  <2>3. ASSUME NEW q \in Asking
        PROVE  /\ q \in Procs
               /\ \A x \in CoinsOf(cmd[q].item) : /\ x[2] <= chain'.coin[x[1]]
                                                  /\ x[1] = "store" => x[2] # chain'.coin["store"]
    <3>1. GoodAsk(kind, work.requests, started, chain.n, cmd[q]) /\ q \in Procs
      BY <1>1, AskingOK
    <3>2. ASSUME NEW x \in CoinsOf(cmd[q].item)
          PROVE  x[2] <= chain'.coin[x[1]] /\ (x[1] = "store" => x[2] # chain'.coin["store"])
      <4>1. x[1] \in {"store", "vault"} /\ x[2] \in Nat
        BY <3>1 DEF GoodAsk, GoodItem, CoinsOf, Coin
      <4>2. x[2] <= chain.coin[x[1]]
        BY <1>1, <1>3 DEF Weighed
      <4> QED BY <1>9, <4>1, <4>2
    <3> QED BY <3>1, <3>2
  <2>4. ASSUME NEW q \in Asking, cmd[q].base = chain'.n
        PROVE  ReadThrough(CoinsOf(cmd[q].item), cmd[q].snap.locked)'
    <3>1. ReadThrough(CoinsOf(cmd[q].item), cmd[q].snap.locked)
      BY <1>1, <1>3, <1>7, <2>4 DEF Weighed
    <3>2. \A a \in Assets : cmd'[q].snap.locked[a] # chain'.locked[a] /\ cmd'[q].snap.locked[a].who # Nobody =>
            \E x \in CoinsOf(cmd'[q].item) : x[1] = "store" /\ x[2] # chain'.coin["store"]
      BY <1>2, <1>7, <2>3, <3>1 DEF ReadThrough
    <3> QED BY <3>2 DEF ReadThrough
  <2>5. ASSUME NEW q \in Asking, cmd[q].pc = "push", cmd[q].req.cmd \in {"stake", "refresh"}
        PROVE  \E x \in cmd[q].use.coins : x[1] = "store" /\ x[2] <= chain'.coin["store"] /\ x[2] # chain'.coin["store"]
    <3>1. PICK x \in cmd[q].use.coins : x[1] = "store" /\ x[2] <= chain.coin["store"]
      BY <1>1, <1>3, <2>5 DEF Weighed
    <3>2. x[2] \in Nat
      BY <1>1, <2>5, AskingOK DEF GoodUse, Coin
    <3> QED BY <1>9, <3>1, <3>2
  <2>6. ASSUME NEW q \in Procs, cmd[q].pc = "publish"
        PROVE  cmd[q].coin <= chain'.coin["store"] /\ cmd[q].coin # chain'.coin["store"]
    <3>1. cmd[q].coin \in Nat
      BY <1>1, <2>6 DEF CmdOK, GoodCmd, Idle
    <3>2. cmd[q].coin <= chain.coin["store"]
      BY <1>1, <1>3, <2>6 DEF Weighed
    <3> QED BY <1>9, <3>1, <3>2
  <2>7. \A q \in Asking' : cmd'[q].base = chain'.n => ReadThrough(CoinsOf(cmd[q].item), cmd[q].snap.locked)'
    BY <1>2, <2>0, <2>4
  <2> QED BY <1>2, <2>0, <2>1, <2>2, <2>3, <2>5, <2>6, <2>7 DEF Weighed
<1>17. SearchEnds'
  BY <1>2 DEF IInv, SearchEnds
<1> QED BY <1>12, <1>13, <1>14, <1>15, <1>16, <1>17 DEF IInv

-----------------------------------------------------------------------------
\* The invariant and what follows from it.

\* Every step keeps the invariant.
LEMMA InvNext ==
    ASSUME IInv, [Next]_vars
    PROVE  IInv'
<1>1. CASE UNCHANGED vars
  BY <1>1, InvLeaves
<1>2. ASSUME NEW p \in Procs, NEW r \in work.requests, Begin(p, r) \/ UpdateStore(p, r)
      PROVE  IInv'
  BY <1>2, InvBegin, InvUpdateStore
<1>3. ASSUME NEW p \in Procs,
             Launch(p) \/ Look(p) \/ Push(p) \/ Rejected(p) \/ Confirm(p) \/ PublishStore(p)
      PROVE  IInv'
  BY <1>3, InvLaunch, InvLook, InvPush, InvRejected, InvConfirm, InvPublishStore
<1>4. CASE Include \/ IncludeStore \/ Drop \/ Tick
  BY <1>4, InvInclude, InvIncludeStore, InvLeaves
<1> QED BY <1>1, <1>2, <1>3, <1>4 DEF Next

\* Whatever the distributor's type, the requests, the number of processes and
\* the order of their reads, pushes and blocks, IInv holds.
THEOREM DistributorInvariant == Spec => []IInv
<1>1. Init => IInv
  BY InvInit
<1>2. IInv /\ [Next]_vars => IInv'
  BY InvNext
<1> QED BY <1>1, <1>2, PTL DEF Spec

\* The state stays well formed, and the distributor is never synced past the
\* end of its epoch.
THEOREM DistributorTypeOK == Spec => []TypeOK
<1>1. ASSUME IInv PROVE TypeOK
  <2>1. ChainOK /\ PoolOK /\ CmdOK
    BY <1>1 DEF IInv
  <2>2. started \in Nat /\ MaxCommands \in Nat /\ started <= MaxCommands /\ chain \in DState
    BY <2>1, Numbers DEF ChainOK
  <2>3. 1 .. started \subseteq Tickets
    BY <2>2 DEF Tickets
  <2>4. /\ work \in Workloads /\ now \in First .. MaxTime /\ cached \in BOOLEAN
        /\ started \in 0 .. MaxCommands /\ lost \subseteq Tickets /\ raced \subseteq Holders
        /\ First <= chain.last /\ chain.last <= chain.end /\ chain.last <= now /\ chain.done \subseteq Tickets
    BY <2>1, <2>3 DEF ChainOK, GoodState
  <2>5. \A e \in chain.entries : e.who \in Holders /\ e.shares \in Nat /\ e.id \in Tickets
    <3>1. \A e \in chain.entries : e.id \in 1 .. started
      BY <1>1 DEF IInv, Fresh, Ledgers
    <3> QED BY <2>2, <2>3, <3>1 DEF DState, Slot
  <2>6. /\ chain.n \in Int /\ chain.root \in DOMAIN Listed
        /\ \A a \in Assets : chain.locked[a].who \in Holders \cup {Nobody} /\ chain.locked[a].shares \in Nat
    BY <2>2 DEF DState, Lock
  <2>7. pool.txs \subseteq Tickets /\ store.txs \subseteq Tickets
    <3>1. NoItem.txs = {}
      BY DEF NoItem
    <3> QED BY <2>1, <2>3, <3>1 DEF PoolOK, GoodItem
  <2>8. \A p \in Procs : cmd[p].pc \in {"idle", "find", "searching", "push", "publish", "wait"}
    BY <2>1 DEF CmdOK, GoodCmd, Idle
  <2> QED BY <2>4, <2>5, <2>6, <2>7, <2>8 DEF TypeOK
<1> QED BY <1>1, DistributorInvariant, PTL

\* A holder's entries have exactly the shares of the assets locked for it,
\* however its commands overlap in the mempool.
THEOREM DistributorSharesMatchLocks == Spec => []SharesMatchLocks
<1>1. IInv => SharesMatchLocks
  BY DEF IInv, ChainOK, GoodState, Balanced, SharesMatchLocks
<1> QED BY <1>1, DistributorInvariant, PTL

\* What a holder has locked can be unstaked from one of its entries, unless it
\* staked on top of its own pending stake.
THEOREM DistributorRecoverable == Spec => []RecoverableUnlessRaced
<1>1. ASSUME IInv, kind # "managed", NEW a \in Assets, chain.locked[a].who \in Holders \ raced,
             chain.locked[a].shares > 0
      PROVE  \E e \in Entries(chain, chain.locked[a].who) :
               e.shares >= chain.locked[a].shares /\ a \in find_locked(chain.locked[a].who, e)
  <2> DEFINE w == chain.locked[a].who
             S == {e \in chain.entries : e.who = w}
             U == {x \in Assets : chain.locked[x].who = w}
  <2>1. GoodState(kind, chain) /\ IsFiniteSet(Assets) /\ chain.locked \in [Assets -> Lock]
    BY <1>1, Constants, GoodParts DEF IInv, ChainOK
  <2>2. SharesIn(chain.entries, w) = WeightIn(chain.locked, w) /\ chain.entries \subseteq Slot
    BY <1>1, <2>1, GoodParts
  <2>3. chain.locked[a].shares \in Nat /\ chain.locked[a].shares <= WeightIn(chain.locked, w)
    <3>1. IsFiniteSet(U) /\ a \in U
      BY <1>1, <2>1, FS_Subset
    <3>2. \A x \in U : Weights(chain.locked)[x] = chain.locked[x].shares /\ Weights(chain.locked)[x] \in Nat
      BY <2>1, Values
    <3>3. WeightIn(chain.locked, w) = Sum(Weights(chain.locked), U)
      BY DEF WeightIn, WeightOn
    <3> HIDE DEF U
    <3>4. Weights(chain.locked)[a] <= Sum(Weights(chain.locked), U)
      BY <3>1, <3>2, SumBounds
    <3> QED BY <3>1, <3>2, <3>3, <3>4
  <2>4. SharesIn(chain.entries, w) = Sum(Shares, S)
    BY DEF SharesIn
  <2>5. S # {}
    <3> HIDE DEF w, S
    <3>1. S = {} => Sum(Shares, S) = 0
      BY SumEmpty
    <3> QED BY <1>1, <2>2, <2>3, <2>4, <3>1
  <2>6. PICK e \in S : TRUE
    BY <2>5
  <2>7. S = {e}
    <3>1. Single1(chain.entries, w)
      BY <1>1 DEF IInv, OneEntry, Ledgers
    <3> QED BY <3>1 DEF Single1
  <2>8. Shares[e] = e.shares /\ e.shares \in Nat
    BY <2>2, Values
  <2>9. Sum(Shares, {e}) = e.shares
    BY <2>8, SumOne
  <2>10. e \in Entries(chain, w) /\ e.shares >= chain.locked[a].shares
    BY <2>2, <2>3, <2>4, <2>7, <2>8, <2>9 DEF Entries
  <2>11. chain.locked[a].shares <= Max({e.shares, 1})
    <3>1. e.shares \in Int /\ 1 \in Int
      BY <2>8
    <3>2. Max({e.shares, 1}) \in {e.shares, 1} /\ e.shares <= Max({e.shares, 1})
      BY ONLY <3>1, MaxPair
    <3> QED BY <2>3, <2>8, <2>10, <3>2
  <2>12. a \in find_locked(w, e)
    BY <2>11 DEF find_locked, find_locked_cats, find_locked_nfts, Locks
  <2> QED BY <2>10, <2>12
<1>2. IInv => RecoverableUnlessRaced
  BY <1>1 DEF RecoverableUnlessRaced
<1> QED BY <1>2, DistributorInvariant, PTL

\* Only an epoch before the first one or off the grid makes the search for a
\* reward slot endless.
THEOREM DistributorSearchEnds == Spec => []SearchEnds
<1>1. IInv => SearchEnds
  BY DEF IInv
<1> QED BY <1>1, DistributorInvariant, PTL

\* A curated NFT enters at the weight the published whitelist gives it in the
\* block that locks it.
THEOREM DistributorStakedAtListedWeight == Spec => StakedAtListedWeight
<1> DEFINE A == \A a \in Assets :
                  kind = "curated" /\ chain'.locked[a] # chain.locked[a] /\ chain'.locked[a].who # Nobody
                     => chain'.locked[a].shares = Listed[chain.root][a]
<1>1. ASSUME IInv, [Next]_vars, NEW a \in Assets, kind = "curated",
             chain'.locked[a] # chain.locked[a], chain'.locked[a].who # Nobody
      PROVE  chain'.locked[a].shares = Listed[chain.root][a]
  <2>1. chain \in DState
    BY <1>1, Numbers DEF IInv
  <2>2. Include
    <3>1. CASE \E p \in Procs : Launch(p)
      <4>1. chain'.locked = chain.locked
        BY <2>1, <3>1 DEF Launch, DState
      <4> QED BY <1>1, <4>1
    <3>2. CASE IncludeStore
      <4>1. chain'.locked = chain.locked
        BY <2>1, <3>2 DEF IncludeStore, DState
      <4> QED BY <1>1, <4>1
    <3>3. CASE \/ \E p \in Procs, r \in work.requests : Begin(p, r) \/ UpdateStore(p, r)
               \/ \E p \in Procs : Look(p) \/ Push(p) \/ Rejected(p) \/ Confirm(p) \/ PublishStore(p)
               \/ Drop \/ Tick \/ UNCHANGED vars
      <4>1. chain' = chain
        BY <3>3 DEF Begin, UpdateStore, Look, Push, Rejected, Confirm, PublishStore, Drop, Tick, vars, environment
      <4> QED BY <1>1, <4>1
    <3> QED BY <1>1, <3>1, <3>2, <3>3 DEF Next
  <2>3. pool # NoItem /\ GoodItem(kind, started, pool) /\ Current(pool.coins) /\ ReadThrough(pool.coins, pool.after.locked)
    BY <1>1, <2>2 DEF IInv, PoolOK, Weighed, Include
  <2>4. chain'.locked = pool.after.locked
    BY <2>2, <2>3 DEF Include, GoodItem, GoodState, DState
  <2>5. PICK x \in pool.coins : x[1] = "store" /\ (x[2] = chain.coin["store"] => AtRoot(pool.after.locked, a))
    BY <1>1, <2>3, <2>4 DEF ReadThrough
  <2>6. x[2] = chain.coin["store"]
    BY <2>3, <2>5 DEF Current
  <2> QED BY <2>4, <2>5, <2>6 DEF AtRoot
<1>2. IInv /\ [Next]_vars => [A]_vars
  BY <1>1
<1> QED BY <1>2, DistributorInvariant, PTL DEF Spec, StakedAtListedWeight

\* A bundle pushed on top of a pending one contains it: what was accepted
\* stays until it is included, expires or is evicted.
THEOREM DistributorPendingKept == Spec => PendingKept
<1> DEFINE A == pool.txs \subseteq pool'.txs \cup chain'.done \cup lost'
<1>1. ASSUME IInv, Next PROVE A
  <2>1. CASE \E p \in Procs : Push(p)
    <3>1. PICK p \in Procs : Push(p)
      BY <2>1
    <3>2. PICK b \in Bundle(cmd[p]) : Acceptable(cmd[p], b) /\ pool' = b
      BY <3>1 DEF Push
    <3>3. cmd[p].item.txs \subseteq b.txs
      BY DEF Bundle
    <3> QED BY <3>2, <3>3 DEF Acceptable
  <2>2. CASE Include
    <3>1. pool.after \in DState
      BY <1>1, <2>2 DEF IInv, PoolOK, GoodItem, GoodState, Include
    <3>2. chain'.done = chain.done \cup pool.txs
      BY <2>2, <3>1 DEF Include, DState
    <3> QED BY <3>2
  <2>3. CASE Drop \/ Tick
    BY <2>3 DEF Drop, Tick
  <2>4. CASE \/ \E p \in Procs, r \in work.requests : Begin(p, r) \/ UpdateStore(p, r)
             \/ \E p \in Procs : Launch(p) \/ Look(p) \/ Rejected(p) \/ Confirm(p) \/ PublishStore(p)
             \/ IncludeStore
    <3>1. pool' = pool
      BY <2>4 DEF Begin, UpdateStore, Launch, Look, Rejected, Confirm, PublishStore, IncludeStore
    <3> QED BY <3>1
  <2> QED BY <1>1, <2>1, <2>2, <2>3, <2>4 DEF Next
<1>2. IInv /\ [Next]_vars => [A]_vars
  BY <1>1
<1> QED BY <1>2, DistributorInvariant, PTL DEF Spec, PendingKept
=============================================================================
