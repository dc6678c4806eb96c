---------------------------- MODULE MultisigProofs ----------------------------
(***************************************************************************)
(* For every set of processes, keys and workloads: the price singleton     *)
(* only does what was scheduled or what enough of the current keys signed, *)
(* no signature is used twice, and what enough signers signed for the      *)
(* current vault coin can be executed, other coins with the launcher's     *)
(* hint and a distributor's refusals excepted.                             *)
(*                                                                         *)
(* A command acts on what it read some steps ago.  The invariant says what *)
(* that is still worth: a price coin number determines its keys for ever,  *)
(* because the log of spends only grows; whether the coin is still there   *)
(* is decided when the bundle is pushed, and decided again by every        *)
(* conflict of the mempool.                                                *)
(***************************************************************************)
EXTENDS Multisig, FiniteSetTheorems, TLAPS

\* The lemmas about naturals; the slot list they come with has names of its own.
Common == INSTANCE CommonLemmas

\* A command took another vault for the price singleton.
ForeignPrice(v) == v.coin = Foreign /\ v.phase = "vault"

\* A command read coin v.coin of the price singleton: its kind and, for a
\* vault, its keys are those of that coin.
OwnPrice(v) ==
    /\ v.coin \in Nat /\ v.coin <= chain.gen /\ v.coin < work.spends
    /\ v.phase = (IF v.coin < Len(schedule) THEN "scheduler" ELSE "vault")
    /\ v.phase = "vault" => v.config = ConfigAt(v.coin + 1)

GoodPrice(v) == OwnPrice(v) \/ ForeignPrice(v)

Admitted(thing) ==
    \/ thing.type # "rekey"
    \/ RekeyAdmitted(thing) /\ IsConfig(thing.config)

\* What a command is about to push: the scheduler's message, or something with
\* signatures whose indexes are in the list of keys it read.
GoodOrder(v, thing, ss) ==
    /\ Admitted(thing)
    /\ IF v.phase = "scheduler" THEN ss = {} /\ thing.type # "rekey"
       ELSE ss \subseteq sigs /\ \A s \in ss : s.index \in DOMAIN v.config.keys

GoodCmd(c) ==
    /\ c.pc \in {"idle", "price", "catalog", "receiver", "push", "wait"}
    /\ c.pc \in {"price", "push"} => c.reg.item.owners \subseteq Procs
    /\ c.pc \in {"catalog", "receiver", "push"} => GoodPrice(c.price)
    /\ c.pc = "catalog" => c.price.phase = "scheduler"
    /\ c.pc = "receiver" => c.price.phase = "vault"
    /\ c.pc \in {"receiver", "push"} => GoodOrder(c.price, c.thing, c.sigs)

\* A spend of the price singleton that the chain accepts or accepted.
GoodSpend(s) ==
    /\ s.coin \in Nat /\ s.coin <= chain.gen /\ s.coin < work.spends
    /\ Admitted(s.thing)
    /\ IF s.coin < Len(schedule)
       THEN s.thing = State(schedule[s.coin + 1].state) /\ s.sigs = {}
       ELSE /\ s.config = ConfigAt(s.coin + 1)
            /\ SignedBy([coin |-> s.coin, config |-> s.config], s.thing, s.sigs)
            /\ s.sigs \subseteq sigs
            /\ \A x \in s.sigs : x.index \in DOMAIN s.config.keys

\* A signature is for the vault coin of its time, and its index is the first
\* place of the signer among the keys of that coin; or for another vault, if the
\* signer could find one.
OwnSig(s) ==
    /\ s.message = <<s.at, s.thing>>
    /\ Index([config |-> ConfigAt(s.at + 1)], s.key) # {}
    /\ s.index = Min(Index([config |-> ConfigAt(s.at + 1)], s.key))

GoodSig(s) ==
    /\ s = [index |-> s.index, key |-> s.key, thing |-> s.thing, at |-> s.at, alone |-> s.alone,
            message |-> s.message]
    /\ s.key \in Keys /\ s.thing \in work.things /\ s.alone \in BOOLEAN
    /\ s.at \in Nat /\ Len(schedule) <= s.at /\ s.at <= chain.gen
    /\ OwnSig(s) \/ (s.message = <<Foreign, s.thing>> /\ s.alone = FALSE)

GoodItem(i) ==
    /\ DOMAIN i = {"reg", "moves", "epoch", "spends", "owners"}
    /\ i.reg \subseteq {chain.n} /\ i.owners \subseteq Procs
    /\ i.reg # {} \/ i.spends # {}
    /\ i.spends = {} \/ \E s : i.spends = {s}
    /\ \A s \in i.spends : s.coin = chain.gen /\ GoodSpend(s)

Disjoint(i, j) == SpentCoins(i) \cap SpentCoins(j) = {}

WorkOK ==
    /\ work \in Workloads /\ now \in 0 .. work.time
    /\ moves \in 0 .. work.moves /\ drops \in 0 .. work.drops

ChainOK ==
    /\ DOMAIN chain = {"gen", "config", "n", "state", "entries", "over", "done"}
    /\ \/ chain.gen = Len(log)
       \/ chain.gen = -1 /\ log = <<>> /\ schedule = <<>>
    /\ chain.gen <= work.spends
    /\ chain.n \in Nat /\ chain.done \subseteq Procs

PoolOK ==
    /\ \A i \in pool : GoodItem(i)
    /\ \A i, j \in pool : i # j => Disjoint(i, j)

SigsOK == IsFiniteSet(sigs) /\ \A s \in sigs : GoodSig(s)

CmdOK == DOMAIN cmd = Procs /\ \A p \in Procs : GoodCmd(cmd[p])

LogOK == \A i \in DOMAIN log : log[i].coin = i - 1 /\ GoodSpend(log[i])

LogIsSeq == \E X : log \in Seq(X)

\* The receiver's state and the vault's keys are those of the last spend of
\* their kind, its entries have been added, and no rekey made a vault that cannot
\* be spent.
InForce ==
    /\ chain.state = LET states == {i \in DOMAIN log : log[i].thing.type # "rekey"}
                     IN  IF states = {} THEN work.first ELSE log[Max(states)].thing.state
    /\ \A e \in chain.entries : e.by + 1 \in DOMAIN log /\ Adds(log[e.by + 1].thing, e.name)
    /\ chain.config = ConfigAt(Len(log) + 1)
    /\ work.config.m <= Len(work.config.keys) => chain.config.m <= Len(chain.config.keys)

IInv == WorkOK /\ ChainOK /\ PoolOK /\ SigsOK /\ CmdOK /\ LogOK /\ LogIsSeq /\ InForce

-----------------------------------------------------------------------------
\* The least and the greatest element are what Min and Max choose.
LEMMA MinIs ==
    ASSUME NEW S, NEW x \in S, x \in Int, \A y \in S : y \in Int /\ x <= y
    PROVE  Min(S) = x
<1>1. \A z \in S : (\A y \in S : z <= y) => z = x
  OBVIOUS
<1> QED BY <1>1 DEF Min

\* The greatest element is what Max chooses.
LEMMA MaxIs ==
    ASSUME NEW S, NEW x \in S, x \in Int, \A y \in S : y \in Int /\ y <= x
    PROVE  Max(S) = x
<1>1. \A z \in S : (\A y \in S : z >= y) => z = x
  OBVIOUS
<1> QED BY <1>1 DEF Max

\* A nonempty set of positions of a list has a last one.
LEMMA MaxOfPositions ==
    ASSUME NEW n \in Nat, NEW S, S \subseteq 1 .. n, S # {}
    PROVE  Max(S) \in S /\ \A y \in S : y <= Max(S)
<1>1. S \subseteq 0 .. n /\ \A y \in S : y \in Int
  OBVIOUS
<1>2. PICK m \in S : \A y \in S : y <= m
  BY <1>1, Common!GreatestNat
<1>3. Max(S) = m
  BY <1>1, <1>2, MaxIs
<1> QED BY <1>2, <1>3

\* What the assumption says of the workload that is running.
LEMMA WorkFacts ==
    ASSUME WorkOK
    PROVE  /\ Len(schedule) \in Nat /\ DOMAIN schedule = 1 .. Len(schedule)
           /\ work.spends \in Nat /\ Len(schedule) <= work.spends
           /\ \A i \in DOMAIN schedule : schedule[i].time \in 0 .. work.time
           /\ IsConfig(work.config)
           /\ work.time \in Nat /\ work.moves \in Nat /\ work.drops \in Nat
           /\ \A thing \in work.things : thing.type = "rekey" => IsConfig(thing.config)
<1>1. work \in Workloads
  BY DEF WorkOK
<1>2. schedule \in Seq([time : 0 .. work.time, state : STRING])
  BY <1>1, MultisigAssumption DEF schedule
<1>3. Len(schedule) \in Nat /\ DOMAIN schedule = 1 .. Len(schedule)
  BY <1>2
<1>4. \A i \in DOMAIN schedule : schedule[i].time \in 0 .. work.time
  <2> DEFINE X == [time : 0 .. work.time, state : STRING]
  <2>1. \A x \in X : x.time \in 0 .. work.time
    OBVIOUS
  <2>2. schedule \in Seq(X)
    BY <1>2
  <2> HIDE DEF X
  <2> QED BY <2>1, <2>2
<1>5. /\ work.spends \in Nat /\ Len(schedule) <= work.spends
      /\ work.time \in Nat /\ work.moves \in Nat /\ work.drops \in Nat
      /\ IsConfig(work.config)
      /\ \A thing \in work.things : thing.type = "rekey" => IsConfig(thing.config)
  BY <1>1, MultisigAssumption DEF schedule
<1> QED BY <1>3, <1>4, <1>5

\* The log counts the spends of the price singleton.
LEMMA LogFacts ==
    ASSUME ChainOK, LogIsSeq
    PROVE  /\ Len(log) \in Nat /\ DOMAIN log = 1 .. Len(log)
           /\ chain.gen \in Int
           /\ chain.gen = Len(log) \/ (chain.gen = -1 /\ Len(log) = 0 /\ schedule = <<>>)
<1>1. PICK X : log \in Seq(X)
  BY DEF LogIsSeq
<1>2. Len(log) \in Nat /\ DOMAIN log = 1 .. Len(log)
  BY <1>1
<1> QED BY <1>2 DEF ChainOK

\* The keys in force are the launch's or the last rekey's.
LEMMA ConfigFacts ==
    ASSUME ChainOK, LogIsSeq, NEW i \in 1 .. Len(log) + 1
    PROVE  \/ /\ ConfigAt(i) = work.config
              /\ \A j \in 1 .. i - 1 : log[j].thing.type # "rekey"
           \/ \E j \in 1 .. i - 1 :
                 log[j].thing.type = "rekey" /\ ConfigAt(i) = log[j].thing.config
<1> DEFINE rekeys == {j \in 1 .. i - 1 : log[j].thing.type = "rekey"}
<1>1. ConfigAt(i) = IF rekeys = {} THEN work.config ELSE log[Max(rekeys)].thing.config
  BY DEF ConfigAt
<1>2. CASE rekeys = {}
  BY <1>1, <1>2
<1>3. CASE rekeys # {}
  <2>1. i - 1 \in Nat /\ rekeys \subseteq 1 .. i - 1
    BY LogFacts
  <2>2. Max(rekeys) \in rekeys
    BY <1>3, <2>1, MaxOfPositions
  <2> QED BY <1>1, <1>3, <2>2
<1> QED BY <1>2, <1>3

\* Every list of keys that was ever in force is one.
LEMMA ConfigIsConfig ==
    ASSUME WorkOK, ChainOK, LogIsSeq, LogOK, NEW i \in 1 .. Len(log) + 1
    PROVE  IsConfig(ConfigAt(i))
<1>1. CASE ConfigAt(i) = work.config
  BY <1>1, WorkFacts
<1>2. ASSUME NEW j \in 1 .. i - 1, log[j].thing.type = "rekey",
             ConfigAt(i) = log[j].thing.config
      PROVE  IsConfig(ConfigAt(i))
  <2>1. j \in DOMAIN log
    BY LogFacts
  <2>2. Admitted(log[j].thing)
    BY <2>1 DEF LogOK, GoodSpend
  <2> QED BY <1>2, <2>2 DEF Admitted
<1> QED BY <1>1, <1>2, ConfigFacts

\* Scheduled spends are states: the vault starts with the keys of the launch.
LEMMA FirstConfig ==
    ASSUME WorkOK, ChainOK, LogIsSeq, LogOK, Len(log) >= Len(schedule)
    PROVE  ConfigAt(Len(schedule) + 1) = work.config
<1>1. Len(schedule) \in Nat /\ Len(log) \in Nat /\ DOMAIN log = 1 .. Len(log)
  BY WorkFacts, LogFacts
<1>2. \A j \in 1 .. Len(schedule) : log[j].thing.type # "rekey"
  <2> SUFFICES ASSUME NEW j \in 1 .. Len(schedule) PROVE log[j].thing.type # "rekey"
    OBVIOUS
  <2>1. j \in DOMAIN log
    BY <1>1
  <2>2. log[j].coin < Len(schedule) /\ GoodSpend(log[j])
    BY <1>1, <2>1 DEF LogOK
  <2> QED BY <2>2 DEF GoodSpend, State
<1>3. Len(schedule) + 1 \in 1 .. Len(log) + 1 /\ (Len(schedule) + 1) - 1 = Len(schedule)
  BY <1>1
<1> QED BY <1>2, <1>3, ConfigFacts

-----------------------------------------------------------------------------
\* Following the scheduler's coins leads to the first unspent one.
LEMMA SchedulerCoinIs ==
    ASSUME WorkOK, ChainOK, LogIsSeq
    PROVE  StateSchedulerCoin = IF chain.gen = -1 THEN 0
                                ELSE IF chain.gen < Len(schedule) THEN chain.gen
                                ELSE Len(schedule)
<1> DEFINE L == Len(schedule)
           x == IF chain.gen = -1 THEN 0 ELSE IF chain.gen < L THEN chain.gen ELSE L
           S == {g \in 0 .. L : g = L \/ ~ spent(g)}
<1>1. L \in Nat /\ chain.gen \in Int /\ chain.gen >= -1
  BY WorkFacts, LogFacts
<1>2. x \in S /\ x \in Int /\ \A y \in S : y \in Int /\ x <= y
  BY <1>1 DEF spent
<1>3. Min(S) = x
  <2> HIDE DEF S, x
  <2> QED BY <1>2, MinIs
<1> QED BY <1>3 DEF StateSchedulerCoin

\* The unspent vault of the launcher that carries its hint is the newest one.
LEMMA OwnVaultIs ==
    ASSUME WorkOK, ChainOK, LogIsSeq
    PROVE  OwnVault =
               IF chain.gen > Len(schedule)
               THEN {[phase |-> "vault", coin |-> chain.gen, config |-> chain.config]}
               ELSE {}
<1> DEFINE X == {x \in Len(schedule) + 1 .. chain.gen : ~ spent(x)}
<1>1. Len(schedule) \in Nat /\ chain.gen \in Int
  BY WorkFacts, LogFacts
<1>2. X = IF chain.gen > Len(schedule) THEN {chain.gen} ELSE {}
  BY <1>1 DEF spent
<1> HIDE DEF X
<1> QED BY <1>2 DEF OwnVault, X

\* A command that reads the price singleton sees its newest coin, of the right
\* kind and, if it is a vault, with the keys in force, or another vault that
\* carries the hint.
LEMMA SyncTip ==
    ASSUME WorkOK, ChainOK, LogIsSeq, LogOK, InForce, NEW v \in sync_multisig_singleton
    PROVE  /\ \/ hinted # {} /\ ForeignPrice(v)
              \/ v.phase = "scheduler" \/ chain.gen >= 0 =>
                     /\ v.coin = chain.gen /\ chain.gen >= 0
                     /\ v.phase = (IF chain.gen < Len(schedule) THEN "scheduler" ELSE "vault")
                     /\ v.phase = "vault" => v.config = chain.config
           /\ v.phase = "scheduler" \/ (chain.gen >= 0 /\ Bounded) => GoodPrice(v)
           /\ v.phase = "vault" /\ chain.gen >= 0 => Len(schedule) <= chain.gen
<1> DEFINE L == Len(schedule)
           Own == [phase |-> "vault", coin |-> chain.gen, config |-> chain.config]
<1>1. /\ L \in Nat /\ chain.gen \in Int /\ Len(log) \in Nat
      /\ work.spends \in Nat /\ L <= work.spends
      /\ chain.gen = Len(log) \/ (chain.gen = -1 /\ L = 0)
  BY WorkFacts, LogFacts
<1>2. CASE chain.gen >= 0 /\ chain.gen < L
  <2>1. StateSchedulerCoin = chain.gen
    BY <1>1, <1>2, SchedulerCoinIs
  <2>2. v.phase = "scheduler" /\ v.coin = chain.gen
    BY <1>2, <2>1 DEF sync_multisig_singleton, scheduler_phase
  <2> QED BY <1>1, <1>2, <2>2 DEF GoodPrice, OwnPrice
<1>3. CASE ~ (chain.gen >= 0 /\ chain.gen < L)
  <2>1. StateSchedulerCoin = L
    BY <1>1, <1>3, SchedulerCoinIs
  <2>2. (v = eve_vault /\ OwnVault = {}) \/ v \in LatestVaults
    BY <2>1 DEF sync_multisig_singleton
  <2>3. \/ v = eve_vault /\ OwnVault = {}
        \/ v \in OwnVault
        \/ \E h \in hinted : v = [phase |-> "vault", coin |-> Foreign, config |-> h.config]
    BY <2>2 DEF LatestVaults
  <2>4. chain.gen >= 0 => L <= chain.gen
    BY <1>1, <1>3
  <2>5. CASE \E h \in hinted : v = [phase |-> "vault", coin |-> Foreign, config |-> h.config]
    <3>1. hinted # {} /\ v.phase = "vault" /\ v.coin = Foreign
      BY <2>5
    <3> QED BY <2>4, <3>1 DEF ForeignPrice, GoodPrice
  <2>6. CASE v \in OwnVault
    <3>1. chain.gen > L /\ v = Own
      BY <2>6, OwnVaultIs
    <3>2. chain.config = ConfigAt(chain.gen + 1)
      <4>1. chain.gen = Len(log)
        BY <1>1, <3>1
      <4> QED BY <4>1 DEF InForce
    <3>3. v.phase = "vault" /\ v.coin = chain.gen /\ v.config = chain.config
      BY <3>1
    <3> QED BY <1>1, <3>1, <3>2, <3>3 DEF GoodPrice, OwnPrice, Bounded
  <2>7. CASE v = eve_vault /\ OwnVault = {}
    <3>1. v.phase = "vault" /\ v.coin = L /\ v.config = work.config
      BY <2>7 DEF eve_vault
    <3>2. CASE chain.gen >= 0
      <4>1. chain.gen = L /\ Len(log) = L
        <5>1. ~ (chain.gen > L)
          BY <2>7, OwnVaultIs
        <5> QED BY <1>1, <2>4, <3>2, <5>1
      <4>2. work.config = ConfigAt(L + 1) /\ chain.config = ConfigAt(L + 1)
        BY <1>1, <4>1, FirstConfig DEF InForce
      <4> QED BY <1>1, <3>1, <4>1, <4>2 DEF GoodPrice, OwnPrice, Bounded
    <3>3. CASE ~ (chain.gen >= 0)
      BY <3>1, <3>3
    <3> QED BY <3>2, <3>3
  <2> QED BY <2>3, <2>5, <2>6, <2>7
<1> QED BY <1>2, <1>3

\* Without foreign coins, a command finds something.
LEMMA SyncFinds ==
    ASSUME hinted = {}
    PROVE  sync_multisig_singleton # {}
BY DEF sync_multisig_singleton, LatestVaults

-----------------------------------------------------------------------------
\* What no step takes back: the workload, the signatures, the spends made and
\* with them the keys of every coin so far.
Grows ==
    /\ work' = work /\ sigs \subseteq sigs'
    /\ chain.gen <= chain'.gen /\ chain'.gen \in Int
    /\ \A i \in 1 .. Len(log) + 1 : ConfigAt(i)' = ConfigAt(i)

\* What a command read, what it is about to push and what the chain accepted
\* stay as good as they were.
LEMMA StaysGood ==
    ASSUME WorkOK, ChainOK, LogIsSeq, Grows
    PROVE  /\ \A v : GoodPrice(v) => GoodPrice(v)'
           /\ \A v, thing, ss : GoodOrder(v, thing, ss) => GoodOrder(v, thing, ss)'
           /\ \A c : GoodCmd(c) => GoodCmd(c)'
           /\ \A s : GoodSpend(s) => GoodSpend(s)'
           /\ \A s : GoodSig(s) => GoodSig(s)'
<1>1. /\ schedule' = schedule /\ Len(schedule) \in Nat /\ Len(log) \in Nat
      /\ chain.gen \in Int /\ chain.gen <= Len(log)
  BY WorkFacts, LogFacts DEF Grows, schedule
<1>2. \A g \in Nat : g <= chain.gen => g + 1 \in 1 .. Len(log) + 1 /\ g <= chain'.gen
  BY <1>1 DEF Grows
<1>3. ASSUME NEW v, GoodPrice(v) PROVE GoodPrice(v)'
  BY <1>1, <1>2, <1>3 DEF GoodPrice, OwnPrice, ForeignPrice, Grows
<1>4. ASSUME NEW v, NEW thing, NEW ss, GoodOrder(v, thing, ss)
      PROVE  GoodOrder(v, thing, ss)'
  BY <1>4 DEF GoodOrder, Grows
<1>5. ASSUME NEW c, GoodCmd(c) PROVE GoodCmd(c)'
  BY <1>3, <1>4, <1>5 DEF GoodCmd
<1>6. ASSUME NEW s, GoodSpend(s) PROVE GoodSpend(s)'
  BY <1>1, <1>2, <1>6 DEF GoodSpend, Grows
<1>7. ASSUME NEW s, GoodSig(s) PROVE GoodSig(s)'
  <2>1. ConfigAt(s.at + 1)' = ConfigAt(s.at + 1)
    BY <1>2, <1>7 DEF GoodSig, Grows
  <2>2. Index([config |-> ConfigAt(s.at + 1)], s.key)'
            = Index([config |-> ConfigAt(s.at + 1)], s.key)
    BY <2>1 DEF Index
  <2>3. OwnSig(s) => OwnSig(s)'
    BY <2>2 DEF OwnSig
  <2> QED BY <1>1, <1>2, <1>7, <2>3 DEF GoodSig, Grows
<1> QED BY <1>3, <1>4, <1>5, <1>6, <1>7

\* A step that spends no coin of the price singleton.
LEMMA QuietGrows ==
    ASSUME WorkOK, ChainOK, LogIsSeq, work' = work, sigs \subseteq sigs', log' = log,
           chain.gen <= chain'.gen, chain'.gen \in Int
    PROVE  Grows
BY DEF Grows, ConfigAt

\* Nothing is signed, pushed or executed at the start.
LEMMA InitIInv == Init => IInv
<1> SUFFICES ASSUME Init PROVE IInv
  OBVIOUS
<1> USE DEF Init
<1>1. work \in Workloads
  OBVIOUS
<1>2. /\ work.time \in Nat /\ work.moves \in Nat /\ work.drops \in Nat /\ work.spends \in Nat
      /\ Len(work.schedule) \in Nat
  <2>1. /\ work.time \in Nat /\ work.moves \in Nat /\ work.drops \in Nat /\ work.spends \in Nat
        /\ work.schedule \in Seq([time : 0 .. work.time, state : STRING])
    BY <1>1, MultisigAssumption
  <2> QED BY <2>1
<1>3. WorkOK
  BY <1>2 DEF WorkOK
<1>4. Len(log) = 0 /\ DOMAIN log = {}
  OBVIOUS
<1>5. ChainOK
  BY <1>2, <1>4 DEF ChainOK, schedule
<1>6. PoolOK /\ LogOK
  BY <1>4 DEF PoolOK, LogOK
<1>7. SigsOK
  BY FS_EmptySet DEF SigsOK
<1>8. CmdOK
  BY DEF CmdOK, GoodCmd, Idle
<1>9. LogIsSeq
  <2>1. log \in Seq({})
    OBVIOUS
  <2> QED BY <2>1 DEF LogIsSeq
<1>10. InForce
  <2>1. ConfigAt(Len(log) + 1) = work.config
    BY <1>4 DEF ConfigAt
  <2> QED BY <1>4, <2>1 DEF InForce
<1> QED BY <1>3, <1>5, <1>6, <1>7, <1>8, <1>9, <1>10 DEF IInv

\* What most steps leave alone carries over.
LEMMA LogUnchanged ==
    ASSUME IInv, UNCHANGED <<work, log>>, sigs \subseteq sigs',
           chain.gen <= chain'.gen, chain'.gen \in Int,
           chain'.state = chain.state, chain'.config = chain.config, chain'.entries = chain.entries
    PROVE  LogOK' /\ LogIsSeq' /\ InForce'
<1>1. Grows
  BY QuietGrows DEF IInv
<1>2. LogOK'
  BY <1>1, StaysGood DEF IInv, LogOK
<1>3. LogIsSeq'
  BY DEF IInv, LogIsSeq
<1>4. ConfigAt(Len(log) + 1)' = ConfigAt(Len(log) + 1)
  BY DEF ConfigAt
<1>5. InForce'
  BY <1>4 DEF IInv, InForce
<1> QED BY <1>2, <1>3, <1>5

\* A step of one process that only moves its command on.
LEMMA CommandStep ==
    ASSUME IInv, UNCHANGED world, NEW p \in Procs, NEW c,
           cmd' = [cmd EXCEPT ![p] = c], GoodCmd(c)
    PROVE  IInv'
<1> USE DEF IInv, world
<1>1. WorkOK' /\ ChainOK'
  BY DEF WorkOK, ChainOK, schedule
<1>2. chain.gen \in Int
  BY LogFacts
<1>3. Grows
  BY <1>2, QuietGrows
<1>4. LogOK' /\ LogIsSeq' /\ InForce'
  BY <1>2, LogUnchanged
<1>5. \A i : GoodItem(i) => GoodItem(i)'
  BY <1>3, StaysGood DEF GoodItem
<1>6. PoolOK'
  BY <1>5 DEF PoolOK, Disjoint
<1>7. SigsOK'
  BY <1>3, StaysGood DEF SigsOK
<1>8. CmdOK'
  <2>1. \A q \in Procs : GoodCmd(cmd[q])'
    BY <1>3, StaysGood DEF CmdOK
  <2>2. DOMAIN cmd' = Procs
    BY DEF CmdOK
  <2> QED BY <2>1, <2>2 DEF CmdOK
<1> QED BY <1>1, <1>4, <1>6, <1>7, <1>8

\* Reading the receiver, with the pending bundle to build on or without one.
LEMMA ReceiverReads ==
    ASSUME PoolOK
    PROVE  /\ sync_registry.item.owners \subseteq Procs
           /\ quick_sync_xchandles.item.owners \subseteq Procs
           /\ quick_sync_catalog.item.owners \subseteq Procs
<1>1. NoItem.owners \subseteq Procs
  BY DEF NoItem
<1>2. ASSUME Pending # {} PROVE (CHOOSE i \in Pending : TRUE) \in pool
  <2>1. (CHOOSE i \in Pending : TRUE) \in Pending
    BY <1>2
  <2> QED BY <2>1 DEF Pending
<1>3. sync_registry.item = NoItem \/ sync_registry.item \in pool
  BY <1>2 DEF sync_registry
<1>4. sync_registry.item.owners \subseteq Procs
  BY <1>1, <1>3 DEF PoolOK, GoodItem
<1> QED BY <1>1, <1>4 DEF quick_sync_xchandles, quick_sync_catalog

\* Starting and continuing the commands, up to the push.
LEMMA CommandsStep ==
    ASSUME IInv, NEW p \in Procs,
           \/ Bounded /\ UnrollStart(p)
           \/ Bounded /\ \E thing \in work.things, ss \in Quorums :
                multisig_broadcast_rekey(p, thing, ss) \/ BroadcastUpdate(p, thing, ss)
           \/ UnrollPrice(p) \/ UnrollCatalog(p)
           \/ rekey_create_coin(p) \/ xchandles_broadcast_state_update(p)
           \/ catalog_broadcast_state_update(p) \/ broadcast_entry_update(p)
           \/ Interrupt(p)
    PROVE  IInv'
<1> USE DEF IInv
<1>0. GoodCmd(cmd[p]) /\ GoodCmd(Idle) /\ p \in DOMAIN cmd
  BY DEF CmdOK, GoodCmd, Idle
<1>1. ASSUME NEW v, GoodPrice(v), v.phase = "scheduler", NEW reg, reg.item.owners \subseteq Procs
      PROVE  GoodCmd(Unroll(v, reg))
  BY <1>0, <1>1 DEF Unroll, GoodCmd, GoodOrder, Admitted, State
<1>2. ASSUME NEW reg \in {sync_registry, quick_sync_xchandles},
             xchandles_unroll_state_scheduler(p, reg)
      PROVE  IInv'
  <2> DEFINE c == [pc |-> "price", reg |-> reg]
  <2>1. GoodCmd(c)
    BY ReceiverReads DEF GoodCmd
  <2>2. cmd' = [cmd EXCEPT ![p] = c] /\ UNCHANGED world
    BY <1>2 DEF xchandles_unroll_state_scheduler
  <2> HIDE DEF c
  <2> QED BY <2>1, <2>2, CommandStep
<1>3. CASE catalog_unroll_state_scheduler(p)
  <2>1. PICK v \in sync_multisig_singleton :
          /\ v.phase = "scheduler" /\ cmd' = [cmd EXCEPT ![p] = [pc |-> "catalog", price |-> v]]
          /\ UNCHANGED world
    BY <1>3 DEF catalog_unroll_state_scheduler
  <2> DEFINE c == [pc |-> "catalog", price |-> v]
  <2>2. GoodCmd(c)
    BY <2>1, SyncTip DEF GoodCmd
  <2>3. cmd' = [cmd EXCEPT ![p] = c] /\ UNCHANGED world
    BY <2>1
  <2> HIDE DEF c
  <2> QED BY <2>2, <2>3, CommandStep
<1>4. CASE UnrollPrice(p)
  <2>1. CASE cmd' = [cmd EXCEPT ![p] = Idle]
    BY <1>0, <1>4, <2>1, CommandStep DEF UnrollPrice
  <2>2. ASSUME NEW v \in sync_multisig_singleton, cmd' = [cmd EXCEPT ![p] = Unroll(v, cmd[p].reg)]
        PROVE  IInv'
    <3> DEFINE c == Unroll(v, cmd[p].reg)
    <3>1. GoodCmd(c)
      <4>1. CASE v.phase = "scheduler"
        <5>1. GoodPrice(v)
          BY <4>1, SyncTip
        <5>2. cmd[p].reg.item.owners \subseteq Procs
          BY <1>0, <1>4 DEF UnrollPrice, GoodCmd
        <5> QED BY <1>1, <4>1, <5>1, <5>2
      <4>2. CASE v.phase # "scheduler"
        BY <1>0, <4>2 DEF Unroll
      <4> QED BY <4>1, <4>2
    <3>2. cmd' = [cmd EXCEPT ![p] = c] /\ UNCHANGED world
      BY <1>4, <2>2 DEF UnrollPrice
    <3> HIDE DEF c
    <3> QED BY <3>1, <3>2, CommandStep
  <2> QED BY <1>4, <2>1, <2>2 DEF UnrollPrice
<1>5. CASE UnrollCatalog(p)
  <2> DEFINE c == Unroll(cmd[p].price, sync_registry)
  <2>1. GoodPrice(cmd[p].price) /\ cmd[p].price.phase = "scheduler"
    BY <1>0, <1>5 DEF UnrollCatalog, GoodCmd
  <2>2. GoodCmd(c)
    BY <1>1, <2>1, ReceiverReads
  <2>3. cmd' = [cmd EXCEPT ![p] = c] /\ UNCHANGED world
    BY <1>5 DEF UnrollCatalog
  <2> HIDE DEF c
  <2> QED BY <2>2, <2>3, CommandStep
<1>6. ASSUME Bounded, NEW thing \in work.things, NEW ss \in Quorums,
             multisig_broadcast_rekey(p, thing, ss) \/ BroadcastUpdate(p, thing, ss)
      PROVE  IInv'
  <2>1. PICK v \in sync_multisig_singleton :
          /\ chain.gen >= 0 /\ broadcast_thing_start(v, ss) /\ UNCHANGED world
          /\ cmd' = [cmd EXCEPT ![p] = [pc |-> "receiver", price |-> v, thing |-> thing, sigs |-> ss]]
    BY <1>6 DEF multisig_broadcast_rekey, BroadcastUpdate, Broadcast
  <2> DEFINE c == [pc |-> "receiver", price |-> v, thing |-> thing, sigs |-> ss]
  <2>2. GoodPrice(v) /\ v.phase = "vault"
    BY <1>6, <2>1, SyncTip DEF broadcast_thing_start
  <2>3. Admitted(thing)
    BY <1>6, WorkFacts
       DEF multisig_broadcast_rekey, BroadcastUpdate, RekeyAdmitted, Admitted
  <2>4. ss \subseteq sigs
    BY <1>6 DEF Quorums
  <2>5. GoodOrder(v, thing, ss)
    BY <2>1, <2>2, <2>3, <2>4 DEF GoodOrder, broadcast_thing_start
  <2>6. GoodCmd(c)
    BY <2>2, <2>5 DEF GoodCmd
  <2>7. cmd' = [cmd EXCEPT ![p] = c] /\ UNCHANGED world
    BY <2>1
  <2> HIDE DEF c
  <2> QED BY <2>6, <2>7, CommandStep
<1>7. ASSUME NEW reg, reg.item.owners \subseteq Procs, cmd[p].pc = "receiver", ReceiverRead(p, reg)
      PROVE  IInv'
  <2> DEFINE c == [pc |-> "push", price |-> cmd[p].price, reg |-> reg,
                   thing |-> cmd[p].thing, sigs |-> cmd[p].sigs]
  <2>1. GoodPrice(cmd[p].price) /\ GoodOrder(cmd[p].price, cmd[p].thing, cmd[p].sigs)
    BY <1>0, <1>7 DEF GoodCmd
  <2>2. GoodCmd(c)
    BY <1>7, <2>1 DEF GoodCmd
  <2>3. cmd' = [cmd EXCEPT ![p] = c] /\ UNCHANGED world
    BY <1>7 DEF ReceiverRead
  <2> HIDE DEF c
  <2> QED BY <2>2, <2>3, CommandStep
<1>8. CASE \/ rekey_create_coin(p) \/ xchandles_broadcast_state_update(p)
           \/ catalog_broadcast_state_update(p) \/ broadcast_entry_update(p)
  <2>1. NoItem.owners \subseteq Procs
    BY DEF NoItem
  <2>2. CASE rekey_create_coin(p)
    <3> DEFINE reg == [n |-> chain.n, item |-> NoItem]
    <3>1. reg.item.owners \subseteq Procs
      BY <2>1
    <3>2. cmd[p].pc = "receiver" /\ ReceiverRead(p, reg)
      BY <2>2 DEF rekey_create_coin, Broadcasts
    <3> HIDE DEF reg
    <3> QED BY <1>7, <3>1, <3>2
  <2>3. CASE broadcast_entry_update(p)
    <3>1. CASE cmd' = [cmd EXCEPT ![p] = Idle] /\ UNCHANGED world
      BY <1>0, <3>1, CommandStep
    <3>2. CASE ReceiverRead(p, sync_registry)
      BY <1>7, <2>3, <3>2, ReceiverReads DEF Broadcasts, broadcast_entry_update
    <3> QED BY <2>3, <3>1, <3>2 DEF broadcast_entry_update
  <2> QED BY <1>7, <1>8, <2>2, <2>3, ReceiverReads
          DEF Broadcasts, xchandles_broadcast_state_update, catalog_broadcast_state_update
<1>9. CASE Interrupt(p)
  BY <1>0, <1>9, CommandStep DEF Interrupt
<1> QED BY <1>2, <1>3, <1>4, <1>5, <1>6, <1>8, <1>9 DEF UnrollStart

-----------------------------------------------------------------------------
\* Launching the vault: there is nothing to spend yet.
LEMMA LaunchStep == IInv /\ multisig_launch => IInv'
<1> SUFFICES ASSUME IInv, multisig_launch PROVE IInv'
  OBVIOUS
<1> USE DEF IInv, multisig_launch
<1>1. /\ DOMAIN chain' = DOMAIN chain /\ chain'.gen = 0 /\ chain'.n = chain.n
      /\ chain'.done = chain.done /\ chain'.state = chain.state
      /\ chain'.config = chain.config /\ chain'.entries = chain.entries
  BY DEF ChainOK
<1>2. chain.gen = -1 /\ Len(log) = 0 /\ work.spends \in Nat
  BY LogFacts, WorkFacts
<1>3. Grows
  BY <1>1, <1>2, QuietGrows
<1>4. WorkOK' /\ ChainOK'
  BY <1>1, <1>2 DEF WorkOK, ChainOK, schedule
<1>5. LogOK' /\ LogIsSeq' /\ InForce'
  BY <1>1, <1>2, LogUnchanged
<1>6. SigsOK' /\ CmdOK'
  BY <1>3, StaysGood DEF SigsOK, CmdOK
<1>7. \A i : GoodItem(i) => GoodItem(i)'
  <2> SUFFICES ASSUME NEW i, GoodItem(i) PROVE GoodItem(i)'
    OBVIOUS
  <2>1. i.spends = {}
    <3>1. \A s \in i.spends : GoodSpend(s) /\ s.coin = -1
      BY <1>2 DEF GoodItem
    <3>2. \A s \in i.spends : s.coin \in Nat
      BY <3>1 DEF GoodSpend
    <3>3. ~ (-1 \in Nat)
      OBVIOUS
    <3> QED BY <3>1, <3>2, <3>3
  <2> QED BY <1>1, <2>1 DEF GoodItem
<1>8. PoolOK'
  BY <1>7 DEF PoolOK, Disjoint
<1> QED BY <1>4, <1>5, <1>6, <1>8

\* Signing: the signer sees the newest vault coin and its keys, or another vault.
LEMMA SignStep ==
    ASSUME IInv, NEW k \in Keys, NEW thing \in work.things, Sign(k, thing)
    PROVE  IInv'
<1> USE DEF IInv
<1>0. PICK v \in sync_multisig_singleton :
        /\ v.phase = "vault" /\ Index(v, k) # {}
        /\ sigs' = sigs \cup {[index |-> Min(Index(v, k)), key |-> k, thing |-> thing, at |-> chain.gen,
                                alone |-> hinted = {}, message |-> delegated_puzzle(v, thing)]}
  BY DEF Sign
<1> DEFINE s == [index |-> Min(Index(v, k)), key |-> k, thing |-> thing, at |-> chain.gen,
                 alone |-> hinted = {}, message |-> delegated_puzzle(v, thing)]
<1>1. /\ chain.gen >= 0 /\ sigs' = sigs \cup {s}
      /\ UNCHANGED <<work, chain, pool, now, cmd, moves, drops, log>>
  BY <1>0 DEF Sign
<1>2. chain.gen \in Int /\ chain.gen = Len(log) /\ Len(log) \in Nat
  BY <1>1, LogFacts
<1>3. Len(schedule) <= chain.gen
  BY <1>0, <1>1, SyncTip
<1>4. OwnSig(s) \/ (s.message = <<Foreign, s.thing>> /\ s.alone = FALSE)
  <2>1. CASE hinted # {} /\ ForeignPrice(v)
    BY <2>1 DEF delegated_puzzle, ForeignPrice
  <2>2. CASE v.coin = chain.gen /\ v.config = chain.config
    <3>1. v.config = ConfigAt(chain.gen + 1)
      BY <1>2, <2>2 DEF InForce
    <3>2. Index(v, k) = Index([config |-> ConfigAt(chain.gen + 1)], k)
      BY <3>1 DEF Index
    <3> QED BY <1>0, <2>2, <3>2 DEF OwnSig, delegated_puzzle
  <2> QED BY <1>0, <1>1, <2>1, <2>2, SyncTip
<1>5. GoodSig(s)
  <2>1. /\ s.key = k /\ s.thing = thing /\ s.at = chain.gen /\ s.alone \in BOOLEAN
        /\ s = [index |-> s.index, key |-> s.key, thing |-> s.thing, at |-> s.at, alone |-> s.alone,
                message |-> s.message]
    OBVIOUS
  <2> HIDE DEF s
  <2> QED BY <1>1, <1>2, <1>3, <1>4, <2>1 DEF GoodSig
<1> HIDE DEF s
<1>6. Grows
  BY <1>1, <1>2, QuietGrows
<1>7. SigsOK'
  <2>1. IsFiniteSet(sigs')
    BY <1>1, FS_AddElement DEF SigsOK
  <2>2. \A x \in sigs' : GoodSig(x)
    BY <1>1, <1>5 DEF SigsOK
  <2>3. \A x \in sigs' : GoodSig(x)'
    BY <1>6, <2>2, StaysGood
  <2> QED BY <2>1, <2>3 DEF SigsOK
<1>8. WorkOK' /\ ChainOK'
  BY <1>1 DEF WorkOK, ChainOK, schedule
<1>9. LogOK' /\ LogIsSeq' /\ InForce'
  BY <1>1, <1>2, LogUnchanged
<1>10. CmdOK'
  BY <1>1, <1>6, StaysGood DEF CmdOK
<1>11. \A i : GoodItem(i) => GoodItem(i)'
  BY <1>1, <1>6, StaysGood DEF GoodItem
<1>12. PoolOK'
  BY <1>1, <1>11 DEF PoolOK, Disjoint
<1> QED BY <1>7, <1>8, <1>9, <1>10, <1>12

-----------------------------------------------------------------------------
\* Two bundles on the chain's newest coins can both be in the mempool only if
\* at most one spends the receiver and at most one the price singleton.
LEMMA DisjointIff ==
    ASSUME NEW i, NEW j, GoodItem(i), GoodItem(j)
    PROVE  Disjoint(i, j) <=> /\ i.reg = {} \/ j.reg = {}
                              /\ i.spends = {} \/ j.spends = {}
<1>1. i.reg \subseteq {chain.n} /\ j.reg \subseteq {chain.n}
  BY DEF GoodItem
<1>2. /\ \A s \in i.spends : s.coin = chain.gen
      /\ \A s \in j.spends : s.coin = chain.gen
  BY DEF GoodItem
<1> DEFINE r == <<"receiver", chain.n>>
           q == <<"price", chain.gen>>
<1>3. SpentCoins(i) = (IF i.reg = {} THEN {} ELSE {r}) \cup (IF i.spends = {} THEN {} ELSE {q})
  BY <1>1, <1>2 DEF SpentCoins
<1>4. SpentCoins(j) = (IF j.reg = {} THEN {} ELSE {r}) \cup (IF j.spends = {} THEN {} ELSE {q})
  BY <1>1, <1>2 DEF SpentCoins
<1>5. r # q
  OBVIOUS
<1> HIDE DEF r, q
<1> QED BY <1>3, <1>4, <1>5 DEF Disjoint

\* A bundle spends something.
LEMMA SpendsSomething ==
    ASSUME NEW i, GoodItem(i)
    PROVE  SpentCoins(i) # {}
<1>1. ASSUME NEW n \in i.reg PROVE <<"receiver", n>> \in SpentCoins(i)
  BY DEF SpentCoins
<1>2. ASSUME NEW s \in i.spends PROVE <<"price", s.coin>> \in SpentCoins(i)
  BY DEF SpentCoins
<1> QED BY <1>1, <1>2 DEF GoodItem

\* A bundle that the mempool takes carries one spend of the price singleton,
\* the command's own: a pending bundle to build on that had one, too, would
\* spend the same coin twice.
LEMMA PushedItem ==
    ASSUME IInv, NEW p \in Procs, cmd[p].pc = "push",
           ~ SpendsTwice(cmd[p]), Acceptable(Bundle(p, cmd[p]), cmd[p].reg.item)
    PROVE  GoodItem(Bundle(p, cmd[p]))
<1> DEFINE c == cmd[p]
           b == Bundle(p, c)
           o == [coin |-> c.price.coin, config |-> c.price.config, thing |-> c.thing,
                 sigs |-> c.sigs]
<1>1. /\ c.reg.item.owners \subseteq Procs /\ GoodPrice(c.price)
      /\ GoodOrder(c.price, c.thing, c.sigs)
  BY DEF IInv, CmdOK, GoodCmd
<1>2. /\ DOMAIN b = {"reg", "moves", "epoch", "spends", "owners"}
      /\ b.spends = c.reg.item.spends \cup {o} /\ b.owners = c.reg.item.owners \cup {p}
  BY DEF Bundle
<1>3. b.reg \subseteq {chain.n} /\ \A s \in b.spends : Valid(s)
  BY DEF Acceptable
<1>4. \A s \in b.spends : s.coin = chain.gen
  BY <1>3 DEF Valid
<1>5. o.coin = c.price.coin /\ o.config = c.price.config /\ o.thing = c.thing /\ o.sigs = c.sigs
  OBVIOUS
<1>6. o \in b.spends
  BY <1>2
<1>7. Valid(o) /\ c.price.coin = chain.gen /\ OwnPrice(c.price)
  <2>1. Valid(o) /\ c.price.coin = chain.gen
    BY <1>3, <1>4, <1>5, <1>6
  <2>2. ~ ForeignPrice(c.price)
    BY <2>1, LogFacts DEF IInv, ForeignPrice, Foreign
  <2> QED BY <1>1, <2>1, <2>2 DEF GoodPrice
<1> HIDE DEF o
<1>8. c.reg.item.spends = {}
  <2>1. \A s \in c.reg.item.spends : s.coin # c.price.coin
    BY DEF SpendsTwice
  <2> QED BY <1>2, <1>4, <1>7, <2>1
<1>9. GoodSpend(o)
  <2>1. o.coin \in Nat /\ o.coin <= chain.gen /\ o.coin < work.spends /\ Admitted(o.thing)
    BY <1>1, <1>5, <1>7 DEF OwnPrice, GoodOrder
  <2>2. CASE o.coin < Len(schedule)
    <3>1. o.thing = State(schedule[o.coin + 1].state)
      BY <1>7, <2>2 DEF Valid
    <3>2. o.sigs = {}
      BY <1>1, <1>5, <1>7, <2>2 DEF OwnPrice, GoodOrder
    <3> QED BY <2>1, <2>2, <3>1, <3>2 DEF GoodSpend
  <2>3. CASE ~ (o.coin < Len(schedule))
    <3>1. c.price.phase = "vault"
      BY <1>5, <1>7, <2>3 DEF OwnPrice
    <3>2. o.config = ConfigAt(o.coin + 1)
      BY <1>5, <1>7, <3>1 DEF OwnPrice
    <3>3. SignedBy([coin |-> o.coin, config |-> o.config], o.thing, o.sigs)
      BY <1>7, <2>3 DEF Valid
    <3>4. o.sigs \subseteq sigs /\ \A x \in o.sigs : x.index \in DOMAIN o.config.keys
      BY <1>1, <1>5, <3>1 DEF GoodOrder
    <3> QED BY <2>1, <2>3, <3>2, <3>3, <3>4 DEF GoodSpend
  <2> QED BY <2>2, <2>3
<1>10. b.spends = {o} /\ b.owners \subseteq Procs
  BY <1>1, <1>2, <1>8
<1> HIDE DEF b
<1> QED BY <1>2, <1>3, <1>4, <1>9, <1>10 DEF GoodItem, b

\* What the steps of the mempool and the clock leave alone.
LEMMA PoolStep ==
    ASSUME IInv, UNCHANGED <<work, chain, sigs, log>>, PoolOK', CmdOK',
           now' \in 0 .. work.time, moves' \in 0 .. work.moves, drops' \in 0 .. work.drops
    PROVE  IInv'
<1> USE DEF IInv
<1>1. chain.gen \in Int
  BY LogFacts
<1>2. Grows
  BY <1>1, QuietGrows
<1>3. LogOK' /\ LogIsSeq' /\ InForce'
  BY <1>1, LogUnchanged
<1>4. SigsOK'
  BY <1>2, StaysGood DEF SigsOK
<1>5. WorkOK' /\ ChainOK'
  BY DEF WorkOK, ChainOK, schedule
<1> QED BY <1>3, <1>4, <1>5

\* The same, with the processes left alone as well.
LEMMA CmdKept ==
    ASSUME IInv, UNCHANGED <<work, chain, sigs, log, cmd>>
    PROVE  CmdOK' /\ (\A i : GoodItem(i) => GoodItem(i)')
<1> USE DEF IInv
<1>1. chain.gen \in Int
  BY LogFacts
<1>2. Grows
  BY <1>1, QuietGrows
<1>3. CmdOK'
  BY <1>2, StaysGood DEF CmdOK
<1>4. \A i : GoodItem(i) => GoodItem(i)'
  BY <1>2, StaysGood DEF GoodItem
<1> QED BY <1>3, <1>4

\* push_tx: the bundle replaces what it conflicts with, or is refused.
LEMMA PushStep ==
    ASSUME IInv, NEW p \in Procs, Push(p)
    PROVE  IInv'
<1> DEFINE b == Bundle(p, cmd[p])
<1> USE DEF IInv
<1>0. UNCHANGED <<work, chain, hinted, now, sigs, moves, drops, log>> /\ cmd[p].pc = "push"
  BY DEF Push
<1>1. CASE UNCHANGED pool /\ cmd' = [cmd EXCEPT ![p] = Idle]
  <2>1. GoodCmd(Idle)
    BY DEF GoodCmd, Idle
  <2> QED BY <1>0, <1>1, <2>1, CommandStep DEF world
<1>2. CASE /\ ~ SpendsTwice(cmd[p]) /\ Acceptable(b, cmd[p].reg.item)
           /\ pool' = (pool \ Conflicts(b)) \cup {b}
           /\ cmd' = [cmd EXCEPT ![p] = [pc |-> "wait"]]
  <2>1. GoodItem(b)
    BY <1>0, <1>2, PushedItem
  <2> HIDE DEF b
  <2>2. Grows
    BY <1>0, LogFacts, QuietGrows
  <2>3. \A i \in pool' : GoodItem(i)
    BY <1>2, <2>1 DEF PoolOK
  <2>4. \A i \in pool' : GoodItem(i)'
    BY <1>0, <2>2, <2>3, StaysGood DEF GoodItem
  <2>5. \A i, j \in pool' : i # j => Disjoint(i, j)
    BY <1>2 DEF PoolOK, Disjoint, Conflicts
  <2>6. PoolOK'
    BY <2>4, <2>5 DEF PoolOK, Disjoint
  <2>7. GoodCmd([pc |-> "wait"])
    BY DEF GoodCmd
  <2>8. CmdOK'
    <3>1. \A q \in Procs : GoodCmd(cmd[q])'
      BY <1>2, <2>2, <2>7, StaysGood DEF CmdOK
    <3>2. DOMAIN cmd' = Procs
      BY <1>2 DEF CmdOK
    <3> QED BY <3>1, <3>2 DEF CmdOK
  <2> QED BY <1>0, <2>6, <2>8, PoolStep DEF WorkOK
<1> QED BY <1>1, <1>2 DEF Push

\* The security coin of a process is spent.
LEMMA ConfirmedStep ==
    ASSUME IInv, NEW p \in Procs, Confirmed(p)
    PROVE  IInv'
<1> USE DEF IInv, Confirmed
<1>1. /\ DOMAIN chain' = DOMAIN chain /\ chain'.gen = chain.gen /\ chain'.n = chain.n
      /\ chain'.done = chain.done \ {p} /\ chain'.state = chain.state
      /\ chain'.config = chain.config /\ chain'.entries = chain.entries
  BY DEF ChainOK
<1>2. chain.gen \in Int
  BY LogFacts
<1>3. Grows
  BY <1>1, <1>2, QuietGrows
<1>4. WorkOK' /\ ChainOK'
  BY <1>1 DEF WorkOK, ChainOK, schedule
<1>5. LogOK' /\ LogIsSeq' /\ InForce'
  BY <1>1, <1>2, LogUnchanged
<1>6. SigsOK'
  BY <1>3, StaysGood DEF SigsOK
<1>7. GoodCmd(Idle)
  BY DEF GoodCmd, Idle
<1>8. CmdOK'
  <2>1. \A q \in Procs : GoodCmd(cmd[q])'
    BY <1>3, <1>7, StaysGood DEF CmdOK
  <2>2. DOMAIN cmd' = Procs
    BY DEF CmdOK
  <2> QED BY <2>1, <2>2 DEF CmdOK
<1>9. \A i : GoodItem(i) => GoodItem(i)'
  BY <1>1, <1>3, StaysGood DEF GoodItem
<1>10. PoolOK'
  BY <1>9 DEF PoolOK, Disjoint
<1> QED BY <1>4, <1>5, <1>6, <1>8, <1>10

\* The epoch of the distributor ends.
LEMMA EpochEndsStep ==
    ASSUME IInv, EpochEnds
    PROVE  IInv'
<1> USE DEF IInv, EpochEnds
<1>1. /\ DOMAIN chain' = DOMAIN chain /\ chain'.gen = chain.gen /\ chain'.n = chain.n
      /\ chain'.done = chain.done /\ chain'.state = chain.state
      /\ chain'.config = chain.config /\ chain'.entries = chain.entries
      /\ UNCHANGED <<work, pool, now, sigs, cmd, moves, drops, log>>
  BY DEF ChainOK
<1>2. chain.gen \in Int
  BY LogFacts
<1>3. Grows
  BY <1>1, <1>2, QuietGrows
<1>4. WorkOK' /\ ChainOK'
  BY <1>1 DEF WorkOK, ChainOK, schedule
<1>5. LogOK' /\ LogIsSeq' /\ InForce'
  BY <1>1, <1>2, LogUnchanged
<1>6. SigsOK' /\ CmdOK'
  BY <1>1, <1>3, StaysGood DEF SigsOK, CmdOK
<1>7. \A i : GoodItem(i) => GoodItem(i)'
  BY <1>1, <1>3, StaysGood DEF GoodItem
<1>8. PoolOK'
  BY <1>1, <1>7 DEF PoolOK, Disjoint
<1> QED BY <1>4, <1>5, <1>6, <1>8

\* Another user's bundle takes the place of the pending one it builds on.
LEMMA OtherUserStep ==
    ASSUME IInv, OtherUser
    PROVE  IInv'
<1> DEFINE i == sync_registry.item
<1> USE DEF IInv
<1> PICK epoch : pool' = (pool \ {i}) \cup {[i EXCEPT !.reg = {chain.n}, !.moves = @ + 1, !.epoch = epoch]}
  BY DEF OtherUser
<1> DEFINE b == [i EXCEPT !.reg = {chain.n}, !.moves = @ + 1, !.epoch = epoch]
<1>0. /\ UNCHANGED <<work, chain, now, sigs, cmd, drops, log>>
      /\ moves < work.moves /\ moves' = moves + 1
      /\ pool' = (pool \ {i}) \cup {b}
  BY DEF OtherUser
<1>1. (i = NoItem /\ Pending = {}) \/ (i \in pool /\ i.reg = {chain.n})
  <2>1. CASE Pending = {}
    BY <2>1 DEF sync_registry
  <2>2. CASE Pending # {}
    <3>1. (CHOOSE x \in Pending : TRUE) \in Pending
      BY <2>2
    <3> QED BY <2>2, <3>1 DEF sync_registry, Pending
  <2> QED BY <2>1, <2>2
<1> HIDE DEF i
<1>2. /\ DOMAIN i = {"reg", "moves", "epoch", "spends", "owners"}
      /\ i.owners \subseteq Procs
      /\ i.spends = {} \/ \E s : i.spends = {s}
      /\ \A s \in i.spends : s.coin = chain.gen /\ GoodSpend(s)
  <2>1. CASE i = NoItem
    BY <2>1 DEF NoItem
  <2>2. CASE i \in pool
    <3>1. GoodItem(i)
      BY <2>2 DEF PoolOK
    <3> QED BY <3>1 DEF GoodItem
  <2> QED BY <1>1, <2>1, <2>2
<1>3. /\ DOMAIN b = DOMAIN i /\ b.reg = {chain.n}
      /\ b.spends = i.spends /\ b.owners = i.owners
  BY <1>2
<1> HIDE DEF b
<1>4. GoodItem(b)
  BY <1>2, <1>3 DEF GoodItem
<1>5. ASSUME NEW j \in pool, j # i PROVE Disjoint(j, b) /\ Disjoint(b, j)
  <2>1. GoodItem(j)
    BY DEF PoolOK
  <2>2. j.reg = {} /\ (j.spends = {} \/ i.spends = {})
    <3>1. CASE i = NoItem /\ Pending = {}
      <4>1. j.reg # {chain.n} /\ j.reg \subseteq {chain.n}
        BY <2>1, <3>1 DEF GoodItem, Pending
      <4> QED BY <3>1, <4>1 DEF NoItem
    <3>2. CASE i \in pool /\ i.reg = {chain.n}
      <4>1. GoodItem(i) /\ Disjoint(j, i)
        BY <1>5, <3>2 DEF PoolOK
      <4> QED BY <2>1, <3>2, <4>1, DisjointIff
    <3> QED BY <1>1, <3>1, <3>2
  <2> QED BY <1>3, <1>4, <2>1, <2>2, DisjointIff
<1>6. \A x \in pool' : GoodItem(x)
  BY <1>0, <1>4 DEF PoolOK
<1>7. \A x, y \in pool' : x # y => Disjoint(x, y)
  BY <1>0, <1>5 DEF PoolOK
<1>8. PoolOK' /\ CmdOK'
  BY <1>0, <1>6, <1>7, CmdKept DEF PoolOK, Disjoint
<1>9. moves' \in 0 .. work.moves
  BY <1>0, WorkFacts DEF WorkOK
<1> QED BY <1>0, <1>8, <1>9, PoolStep DEF WorkOK

\* A bundle is forgotten, time passes, or a coin with the hint comes or goes.
LEMMA DropTickStep ==
    ASSUME IInv, Drop \/ Tick \/ Hint
    PROVE  IInv'
<1> USE DEF IInv
<1>1. /\ UNCHANGED <<work, chain, sigs, cmd, moves, log>>
      /\ pool' \subseteq pool
      /\ now' = now \/ (now < work.time /\ now' = now + 1)
      /\ drops' = drops \/ (drops < work.drops /\ drops' = drops + 1)
  BY DEF Drop, Tick, Hint
<1>2. PoolOK' /\ CmdOK'
  BY <1>1, CmdKept DEF PoolOK, Disjoint
<1>3. now' \in 0 .. work.time /\ drops' \in 0 .. work.drops
  BY <1>1, WorkFacts DEF WorkOK
<1> QED BY <1>1, <1>2, <1>3, PoolStep DEF WorkOK

-----------------------------------------------------------------------------
\* The log grows at its end.
LEMMA AppendLog ==
    ASSUME ChainOK, LogIsSeq, NEW s, log' = Append(log, s)
    PROVE  /\ LogIsSeq' /\ Len(log') = Len(log) + 1
           /\ DOMAIN log' = 1 .. Len(log) + 1
           /\ log'[Len(log) + 1] = s
           /\ \A j \in 1 .. Len(log) : log'[j] = log[j]
<1>1. PICK X : log \in Seq(X)
  BY DEF LogIsSeq
<1> DEFINE Y == X \cup {s}
<1>2. log \in Seq(Y) /\ s \in Y
  BY <1>1
<1> HIDE DEF Y
<1>3. /\ Append(log, s) \in Seq(Y) /\ Len(Append(log, s)) = Len(log) + 1
      /\ Append(log, s)[Len(log) + 1] = s
      /\ \A j \in 1 .. Len(log) : Append(log, s)[j] = log[j]
  BY <1>2
<1>4. Len(log) \in Nat
  BY <1>2
<1> QED BY <1>3, <1>4 DEF LogIsSeq

\* Later spends do not change which keys an earlier coin had, and the newest
\* rekey, if it is one, is in force after it.
LEMMA AppendConfig ==
    ASSUME ChainOK, LogIsSeq, NEW s, log' = Append(log, s), work' = work
    PROVE  /\ \A i \in 1 .. Len(log) + 1 : ConfigAt(i)' = ConfigAt(i)
           /\ ConfigAt(Len(log) + 1)' =
                 IF s.thing.type = "rekey" THEN s.thing.config ELSE ConfigAt(Len(log) + 1)
<1> DEFINE n == Len(log)
           R(i) == {j \in 1 .. i - 1 : log[j].thing.type = "rekey"}
           Q(i) == {j \in 1 .. i - 1 : log'[j].thing.type = "rekey"}
<1>1. /\ n \in Nat /\ log'[n + 1] = s /\ \A j \in 1 .. n : log'[j] = log[j]
      /\ Len(log') = n + 1
  BY LogFacts, AppendLog
<1>2. \A i : ConfigAt(i) = IF R(i) = {} THEN work.config ELSE log[Max(R(i))].thing.config
  BY DEF ConfigAt
<1>3. \A i : ConfigAt(i)' = IF Q(i) = {} THEN work.config ELSE log'[Max(Q(i))].thing.config
  BY DEF ConfigAt
<1>4. ASSUME NEW i \in 1 .. n + 1, R(i) # {}
      PROVE  log'[Max(R(i))] = log[Max(R(i))]
  <2> DEFINE S == R(i)
  <2>1. i - 1 \in Nat /\ S \subseteq 1 .. i - 1 /\ S # {}
    BY <1>1, <1>4
  <2>2. Max(S) \in S
    <3> HIDE DEF S
    <3> QED BY <2>1, MaxOfPositions
  <2>3. \A j \in 1 .. i - 1 : j \in 1 .. n
    BY <1>1
  <2>4. Max(S) \in 1 .. n
    <3> HIDE DEF S
    <3> QED BY <2>1, <2>2, <2>3
  <2> HIDE DEF S
  <2>5. log'[Max(S)] = log[Max(S)]
    BY <1>1, <2>4
  <2> QED BY <2>5 DEF S
<1>5. ASSUME NEW i \in 1 .. n + 1 PROVE ConfigAt(i)' = ConfigAt(i)
  <2>1. Q(i) = R(i)
    BY <1>1
  <2>2. R(i) # {} => log'[Max(R(i))] = log[Max(R(i))]
    BY <1>4
  <2> HIDE DEF Q, R
  <2> QED BY <1>2, <1>3, <2>1, <2>2
<1>6. ConfigAt(Len(log) + 1)' =
          IF Q(n + 2) = {} THEN work.config ELSE log'[Max(Q(n + 2))].thing.config
  <2>1. Len(log') + 1 = n + 2
    BY <1>1
  <2> HIDE DEF Q, n
  <2> QED BY <1>3, <2>1
<1>7. ConfigAt(Len(log) + 1)' =
          IF s.thing.type = "rekey" THEN s.thing.config ELSE ConfigAt(Len(log) + 1)
  <2>1. CASE s.thing.type = "rekey"
    <3>1. n + 1 \in Q(n + 2) /\ \A y \in Q(n + 2) : y \in Int /\ y <= n + 1
      BY <1>1, <2>1
    <3>2. Max(Q(n + 2)) = n + 1
      <4> HIDE DEF Q
      <4> QED BY <1>1, <3>1, MaxIs
    <3> HIDE DEF Q
    <3> QED BY <1>1, <1>6, <2>1, <3>1, <3>2
  <2>2. CASE s.thing.type # "rekey"
    <3>1. Q(n + 2) = R(n + 1)
      BY <1>1, <2>2
    <3>2. n + 1 \in 1 .. n + 1
      BY <1>1
    <3>3. R(n + 1) # {} => log'[Max(R(n + 1))] = log[Max(R(n + 1))]
      <4> HIDE DEF R
      <4> QED BY <1>4, <3>2
    <3> HIDE DEF Q, R
    <3> QED BY <1>2, <1>6, <2>2, <3>1, <3>3
  <2> QED BY <2>1, <2>2
<1> HIDE DEF Q, R
<1> QED BY <1>5, <1>7

\* The block removes the bundles that spend a coin it spent: those that stay
\* are on the newest coins.
LEMMA IncludePool ==
    ASSUME IInv, NEW i \in pool, pool' = pool \ Conflicts(i), Grows,
           chain'.n = chain.n + Cardinality(i.reg),
           i.spends = {} => chain'.gen = chain.gen
    PROVE  PoolOK'
<1> USE DEF IInv
<1>1. GoodItem(i) /\ chain.n \in Nat
  BY DEF PoolOK, ChainOK
<1>2. i.reg = {} => chain'.n = chain.n
  BY <1>1, FS_EmptySet
<1>3. ASSUME NEW j \in pool' PROVE GoodItem(j)'
  <2>1. j \in pool /\ GoodItem(j) /\ Disjoint(j, i)
    BY DEF PoolOK, Conflicts, Disjoint
  <2>2. /\ j.reg = {} \/ i.reg = {}
        /\ j.spends = {} \/ i.spends = {}
    BY <1>1, <2>1, DisjointIff
  <2>3. j.reg \subseteq {chain'.n}
    BY <1>2, <2>1, <2>2 DEF GoodItem
  <2>4. \A s \in j.spends : s.coin = chain'.gen /\ GoodSpend(s)'
    BY <2>1, <2>2, StaysGood DEF GoodItem
  <2> QED BY <2>1, <2>3, <2>4 DEF GoodItem
<1>4. \A j, k \in pool' : j # k => Disjoint(j, k)'
  BY DEF PoolOK, Disjoint, SpentCoins
<1> QED BY <1>3, <1>4 DEF PoolOK

\* A block with a bundle: the receiver, the price singleton or both move on.
LEMMA IncludeStep ==
    ASSUME IInv, Include
    PROVE  IInv'
<1> USE DEF IInv
<1>0. PICK i \in pool :
        LET c == [chain EXCEPT !.n = @ + Cardinality(i.reg), !.done = @ \cup i.owners, !.over = @ /\ ~ i.epoch]
        IN  /\ chain' = IF i.spends = {} THEN c ELSE Executed(c, CHOOSE s \in i.spends : TRUE)
            /\ log' = IF i.spends = {} THEN log ELSE Append(log, CHOOSE s \in i.spends : TRUE)
            /\ pool' = pool \ Conflicts(i)
            /\ UNCHANGED <<work, now, sigs, cmd, moves, drops>>
  BY DEF Include
<1> DEFINE c == [chain EXCEPT !.n = @ + Cardinality(i.reg), !.done = @ \cup i.owners, !.over = @ /\ ~ i.epoch]
<1>1. GoodItem(i)
  BY DEF PoolOK
<1>2. /\ DOMAIN c = {"gen", "config", "n", "state", "entries", "over", "done"}
      /\ c.gen = chain.gen /\ c.config = chain.config /\ c.state = chain.state
      /\ c.entries = chain.entries
      /\ c.n = chain.n + Cardinality(i.reg) /\ c.done = chain.done \cup i.owners
  BY DEF ChainOK
<1>3. c.n \in Nat /\ c.done \subseteq Procs
  <2>1. i.reg = {} \/ i.reg = {chain.n}
    BY <1>1 DEF GoodItem
  <2>2. Cardinality(i.reg) \in Nat
    <3>1. Cardinality({}) = 0 /\ Cardinality({chain.n}) = 1
      BY FS_EmptySet, FS_Singleton
    <3> QED BY <2>1, <3>1
  <2> QED BY <1>1, <1>2, <2>2 DEF ChainOK, GoodItem
<1>4. WorkOK' /\ schedule' = schedule /\ chain.gen \in Int
  BY <1>0, LogFacts DEF WorkOK, schedule
<1> HIDE DEF c
<1>5. CASE i.spends = {}
  <2>1. chain' = c /\ UNCHANGED <<work, log, sigs, cmd>> /\ pool' = pool \ Conflicts(i)
    BY <1>0, <1>5 DEF c
  <2>2. Grows
    BY <1>2, <1>4, <2>1, QuietGrows
  <2>3. ChainOK'
    BY <1>2, <1>3, <1>4, <2>1 DEF ChainOK
  <2>4. LogOK' /\ LogIsSeq' /\ InForce'
    BY <1>2, <1>4, <2>1, LogUnchanged
  <2>5. SigsOK' /\ CmdOK'
    BY <2>1, <2>2, StaysGood DEF SigsOK, CmdOK
  <2>6. PoolOK'
    BY <1>2, <2>1, <2>2, IncludePool
  <2> QED BY <1>4, <2>3, <2>4, <2>5, <2>6
<1>6. CASE i.spends # {}
  <2>1. PICK s : i.spends = {s} /\ s.coin = chain.gen /\ GoodSpend(s)
    BY <1>1, <1>6 DEF GoodItem
  <2>2. (CHOOSE x \in i.spends : TRUE) = s
    BY <2>1
  <2>3. /\ chain' = Executed(c, s) /\ log' = Append(log, s) /\ pool' = pool \ Conflicts(i)
        /\ UNCHANGED <<work, now, sigs, cmd, moves, drops>>
    BY <1>0, <1>6, <2>2 DEF c
  <2>4. /\ chain.gen \in Nat /\ chain.gen < work.spends /\ work.spends \in Nat
        /\ chain.gen = Len(log) /\ Len(log) \in Nat /\ DOMAIN log = 1 .. Len(log)
        /\ Admitted(s.thing)
    BY <2>1, LogFacts, WorkFacts DEF GoodSpend
  <2>5. /\ DOMAIN chain' = {"gen", "config", "n", "state", "entries", "over", "done"}
        /\ chain'.gen = chain.gen + 1 /\ chain'.n = c.n /\ chain'.done = c.done
        /\ chain'.config = (IF s.thing.type = "rekey" THEN s.thing.config ELSE chain.config)
        /\ chain'.state = (IF s.thing.type = "rekey" THEN chain.state ELSE s.thing.state)
        /\ chain'.entries = (IF s.thing.type = "rekey" THEN chain.entries ELSE EntriesAfter(c, s.thing))
    BY <1>2, <2>3 DEF Executed
  <2>6. /\ LogIsSeq' /\ Len(log') = Len(log) + 1 /\ DOMAIN log' = 1 .. Len(log) + 1
        /\ log'[Len(log) + 1] = s /\ \A j \in 1 .. Len(log) : log'[j] = log[j]
    BY <2>3, AppendLog
  <2>7. /\ \A j \in 1 .. Len(log) + 1 : ConfigAt(j)' = ConfigAt(j)
        /\ ConfigAt(Len(log) + 1)' =
              IF s.thing.type = "rekey" THEN s.thing.config ELSE ConfigAt(Len(log) + 1)
    BY <2>3, AppendConfig
  <2>8. Grows
    BY <2>3, <2>4, <2>5, <2>7 DEF Grows
  <2>9. ChainOK'
    BY <1>3, <1>4, <2>3, <2>4, <2>5, <2>6 DEF ChainOK
  <2>10. LogOK'
    <3>1. GoodSpend(s)' /\ s.coin = (Len(log) + 1) - 1
      BY <2>1, <2>4, <2>8, StaysGood
    <3>2. \A j \in 1 .. Len(log) : log[j].coin = j - 1 /\ GoodSpend(log[j])
      BY <2>4 DEF LogOK
    <3>3. \A x : GoodSpend(x) => GoodSpend(x)'
      BY <2>8, StaysGood
    <3>4. ASSUME NEW j \in 1 .. Len(log) + 1 PROVE (log[j].coin = j - 1 /\ GoodSpend(log[j]))'
      <4>1. CASE j = Len(log) + 1
        BY <3>1, <2>6, <4>1 DEF GoodSpend, SignedBy, Admitted
      <4>2. CASE j \in 1 .. Len(log)
        BY <3>2, <3>3, <2>6, <4>2
      <4> QED BY <2>4, <4>1, <4>2
    <3> QED BY <2>6, <3>4 DEF LogOK
  <2>11. SigsOK' /\ CmdOK'
    BY <2>3, <2>8, StaysGood DEF SigsOK, CmdOK
  <2>12. PoolOK'
    BY <1>2, <1>6, <2>3, <2>5, <2>8, IncludePool
  <2>13. InForce'
    <3> DEFINE S == {j \in DOMAIN log : log[j].thing.type # "rekey"}
               T == {j \in DOMAIN log' : log'[j].thing.type # "rekey"}
    <3>1. chain'.state = IF T = {} THEN work.first ELSE log'[Max(T)].thing.state
      <4>0. chain.state = IF S = {} THEN work.first ELSE log[Max(S)].thing.state
        BY DEF InForce
      <4>1. CASE s.thing.type = "rekey"
        <5>1. T = S /\ S \subseteq 1 .. Len(log)
          BY <2>4, <2>6, <4>1
        <5>2. S # {} => Max(S) \in 1 .. Len(log)
          <6> HIDE DEF S
          <6> QED BY <2>4, <5>1, MaxOfPositions
        <5>3. S # {} => log'[Max(S)] = log[Max(S)]
          BY <2>6, <5>2
        <5> HIDE DEF S, T
        <5> QED BY <2>5, <4>0, <4>1, <5>1, <5>3
      <4>2. CASE s.thing.type # "rekey"
        <5>1. Len(log) + 1 \in T /\ \A y \in T : y \in Int /\ y <= Len(log) + 1
          BY <2>4, <2>6, <4>2
        <5>2. Max(T) = Len(log) + 1
          <6> HIDE DEF T
          <6> QED BY <2>4, <5>1, MaxIs
        <5> HIDE DEF S, T
        <5> QED BY <2>5, <2>6, <4>2, <5>1, <5>2
      <4> QED BY <4>1, <4>2
    <3>2. chain'.config = ConfigAt(Len(log) + 1)'
      BY <2>5, <2>7 DEF InForce
    <3>3. work.config.m <= Len(work.config.keys) => chain'.config.m <= Len(chain'.config.keys)
      BY <2>4, <2>5 DEF InForce, Admitted, RekeyAdmitted
    <3>4. \A e \in chain'.entries : e.by + 1 \in DOMAIN log' /\ Adds(log'[e.by + 1].thing, e.name)
      <4>1. ASSUME NEW e \in chain.entries
            PROVE  e.by + 1 \in DOMAIN log' /\ Adds(log'[e.by + 1].thing, e.name)
        <5>1. e.by + 1 \in 1 .. Len(log) /\ Adds(log[e.by + 1].thing, e.name)
          BY <2>4 DEF InForce
        <5>2. e.by + 1 \in 1 .. Len(log) + 1
          BY <2>4, <5>1
        <5> QED BY <2>6, <5>1, <5>2
      <4>2. CASE s.thing.type = "add"
        <5> DEFINE e == [name |-> s.thing.state, by |-> chain.gen]
        <5>1. chain'.entries = chain.entries \cup {e}
          BY <1>2, <2>5, <4>2 DEF EntriesAfter
        <5>2. Adds(s.thing, e.name)
          BY <4>2 DEF Adds
        <5>3. e.by + 1 \in DOMAIN log' /\ Adds(log'[e.by + 1].thing, e.name)
          BY <2>4, <2>6, <5>2
        <5> QED BY <4>1, <5>1, <5>3
      <4>3. CASE s.thing.type # "add"
        <5>1. chain'.entries \subseteq chain.entries
          BY <1>2, <2>5, <4>3 DEF EntriesAfter
        <5> QED BY <4>1, <5>1
      <4> QED BY <4>2, <4>3
    <3> QED BY <2>3, <3>1, <3>2, <3>3, <3>4 DEF InForce
  <2> QED BY <1>4, <2>6, <2>9, <2>10, <2>11, <2>12, <2>13
<1> QED BY <1>5, <1>6

-----------------------------------------------------------------------------
\* Every step of every process and of the environment keeps the invariant.
LEMMA NextIInv == IInv /\ [Next]_vars => IInv'
<1> SUFFICES ASSUME IInv, [Next]_vars PROVE IInv'
  OBVIOUS
<1>1. CASE multisig_launch
  BY <1>1, LaunchStep
<1>2. ASSUME NEW k \in Keys, NEW thing \in work.things,
             \/ xchandles_sign_state_update(k, thing) \/ catalog_sign_state_update(k, thing)
             \/ sign_entry_update(k, thing) \/ multisig_sign_rekey(k, thing)
      PROVE  IInv'
  BY <1>2, SignStep DEF xchandles_sign_state_update, catalog_sign_state_update,
                        sign_entry_update, multisig_sign_rekey
<1>3. ASSUME NEW p \in Procs,
             \/ Bounded /\ UnrollStart(p)
             \/ Bounded /\ \E thing \in work.things, ss \in Quorums :
                  multisig_broadcast_rekey(p, thing, ss) \/ BroadcastUpdate(p, thing, ss)
             \/ Continue(p)
      PROVE  IInv'
  BY <1>3, CommandsStep, PushStep, ConfirmedStep DEF Continue
<1>4. CASE OtherUser \/ Include \/ Drop \/ Tick \/ EpochEnds \/ Hint
  BY <1>4, OtherUserStep, IncludeStep, DropTickStep, EpochEndsStep
<1>5. CASE UNCHANGED vars
  <2>1. UNCHANGED <<work, chain, pool, now, sigs, cmd, moves, drops, log>>
    BY <1>5 DEF vars
  <2>2. CmdOK' /\ PoolOK'
    BY <2>1, CmdKept DEF IInv, PoolOK, Disjoint
  <2> QED BY <2>1, <2>2, PoolStep DEF IInv, WorkOK
<1> QED BY <1>1, <1>2, <1>3, <1>4, <1>5 DEF Next

\* The inductive invariant holds in every reachable state.
THEOREM MultisigInvariant == Spec => []IInv
BY InitIInv, NextIInv, PTL DEF Spec

\* The mempool never holds two bundles that spend the same coin nor one that
\* spends a spent coin, and no rekey leaves a vault that cannot be spent.
THEOREM MultisigTypeCorrect == Spec => []TypeOK
<1>1. IInv => TypeOK
  <2> SUFFICES ASSUME IInv PROVE TypeOK
    OBVIOUS
  <2>1. chain.gen \in -1 .. work.spends /\ chain.done \subseteq Procs
    BY LogFacts, WorkFacts DEF IInv, ChainOK
  <2>2. ASSUME NEW i \in pool
        PROVE  Conflicts(i) = {i} /\ i.reg \subseteq {chain.n} /\ \A s \in i.spends : s.coin = chain.gen
    <3>1. GoodItem(i) /\ \A j \in pool : j # i => SpentCoins(j) \cap SpentCoins(i) = {}
      BY DEF IInv, PoolOK, Disjoint
    <3>2. SpentCoins(i) # {}
      BY <3>1, SpendsSomething
    <3>3. Conflicts(i) = {i}
      BY <3>1, <3>2 DEF Conflicts
    <3> QED BY <3>1, <3>3 DEF GoodItem
  <2>3. \A s \in sigs : s.key \in Keys /\ s.thing \in work.things
    BY DEF IInv, SigsOK, GoodSig
  <2> QED BY <2>1, <2>2, <2>3 DEF IInv, WorkOK, InForce, TypeOK
<1> QED BY <1>1, MultisigInvariant, PTL

\* A signature is over the coin it is used for, and every spend has another
\* coin: no signature authorises two of them.
THEOREM MultisigNoReplay == Spec => []NoReplay
<1>1. IInv => NoReplay
  <2> SUFFICES ASSUME IInv, NEW i \in DOMAIN log, NEW j \in DOMAIN log,
                      NEW x \in log[i].sigs, x \in log[j].sigs
               PROVE  i = j
    BY DEF NoReplay
  <2>1. ASSUME NEW k \in DOMAIN log, x \in log[k].sigs
        PROVE  x.message = <<k - 1, log[k].thing>>
    <3>1. GoodSpend(log[k]) /\ log[k].coin = k - 1
      BY DEF IInv, LogOK
    <3>2. SignedBy([coin |-> log[k].coin, config |-> log[k].config], log[k].thing, log[k].sigs)
      BY <2>1, <3>1 DEF GoodSpend
    <3> QED BY <2>1, <3>1, <3>2 DEF SignedBy, verify_signature, delegated_puzzle
  <2>2. i \in Int /\ j \in Int
    BY LogFacts DEF IInv
  <2>3. x.message = <<i - 1, log[i].thing>> /\ x.message = <<j - 1, log[j].thing>>
    BY <2>1
  <2>4. i - 1 = j - 1
    BY <2>3
  <2> QED BY <2>2, <2>4
<1> QED BY <1>1, MultisigInvariant, PTL

-----------------------------------------------------------------------------
\* The index of a signer is its first place in the list of keys, also when the
\* list repeats a key: two signers never share one.
LEMMA SignerIndex ==
    ASSUME IInv, NEW s \in sigs, OwnSig(s)
    PROVE  LET c == ConfigAt(s.at + 1)
           IN  /\ s.index \in DOMAIN c.keys /\ DOMAIN c.keys = 1 .. Len(c.keys)
               /\ Len(c.keys) \in Nat
               /\ c.keys[s.index] = s.key
               /\ s.index = Min(Index([config |-> c], s.key))
<1> DEFINE c == ConfigAt(s.at + 1)
           I == Index([config |-> c], s.key)
<1> USE DEF IInv
<1>1. GoodSig(s)
  BY DEF SigsOK
<1>2. s.at + 1 \in 1 .. Len(log) + 1
  BY <1>1, LogFacts DEF GoodSig
<1>3. c.keys \in Seq(Keys)
  BY <1>2, ConfigIsConfig DEF IsConfig
<1>4. DOMAIN c.keys = 1 .. Len(c.keys) /\ Len(c.keys) \in Nat
  BY <1>3
<1>5. I = {i \in DOMAIN c.keys : c.keys[i] = s.key}
  BY DEF Index
<1>6. I # {} /\ I \subseteq Nat /\ s.index = Min(I)
  BY <1>4, <1>5 DEF OwnSig
<1> HIDE DEF I
<1>7. PICK m \in I : \A n \in I : m <= n
  BY <1>6, Common!LeastNat
<1>8. Min(I) = m
  <2>1. m \in Int /\ \A y \in I : y \in Int /\ m <= y
    BY <1>6, <1>7
  <2> QED BY <2>1, MinIs
<1>9. s.index \in I
  BY <1>6, <1>7, <1>8
<1> QED BY <1>4, <1>5, <1>6, <1>9 DEF I

\* Signatures for one coin: as many indexes as signers.
LEMMA AsManySigners ==
    ASSUME IInv, NEW g, NEW ss, ss \subseteq sigs, \A s \in ss : s.at = g /\ OwnSig(s)
    PROVE  Cardinality({s.key : s \in ss}) = Cardinality({s.index : s \in ss})
<1> DEFINE c == ConfigAt(g + 1)
           N == {s.index : s \in ss}
           K == {s.key : s \in ss}
           f == [n \in N |-> c.keys[n]]
<1>1. \A s \in ss : /\ s.index \in 1 .. Len(c.keys) /\ Len(c.keys) \in Nat
                    /\ c.keys[s.index] = s.key
                    /\ s.index = Min(Index([config |-> c], s.key))
  BY SignerIndex
<1>2. IsFiniteSet(N)
  <2>1. CASE ss = {}
    <3>1. N = {}
      BY <2>1
    <3> QED BY <3>1, FS_EmptySet
  <2>2. CASE ss # {}
    <3>1. N \subseteq 1 .. Len(c.keys) /\ Len(c.keys) \in Nat
      BY <1>1, <2>2
    <3>2. IsFiniteSet(1 .. Len(c.keys))
      BY <3>1, FS_Interval
    <3> QED BY <3>1, <3>2, FS_Subset
  <2> QED BY <2>1, <2>2
<1>3. \A s \in ss : f[s.index] = s.key
  BY <1>1
<1>4. f \in [N -> K]
  BY <1>3
<1>5. \A s, t \in ss : s.key = t.key => s.index = t.index
  BY <1>1
<1>6. f \in Injection(N, K)
  <2>1. \A a, b \in N : f[a] = f[b] => a = b
    BY <1>3, <1>5
  <2> HIDE DEF f
  <2> QED BY <1>4, <2>1 DEF Injection, IsInjective
<1>7. f \in Surjection(N, K)
  <2>1. \A k \in K : \E n \in N : f[n] = k
    BY <1>3
  <2> HIDE DEF f
  <2> QED BY <1>4, <2>1 DEF Surjection
<1>8. ExistsBijection(N, K)
  BY <1>6, <1>7 DEF ExistsBijection, Bijection
<1> HIDE DEF N, K
<1>9. Cardinality(K) = Cardinality(N)
  BY <1>2, <1>8, FS_Bijection
<1> QED BY <1>9 DEF N, K

\* The receiver is in the state, and the vault has the keys, that were agreed
\* to: scheduled, or signed by as many of the keys in force as they ask for.
THEOREM MultisigStateAsAgreed == Spec => []StateAsAgreed
<1>1. IInv => StateAsAgreed
  <2> SUFFICES ASSUME IInv PROVE StateAsAgreed
    OBVIOUS
  <2> USE DEF IInv
  <2>1. /\ chain.gen = (IF chain.gen = -1 THEN -1 ELSE Len(log))
        /\ Len(log) \in Nat /\ DOMAIN log = 1 .. Len(log) /\ Len(schedule) \in Nat
    BY LogFacts, WorkFacts
  <2>2. ASSUME NEW i \in DOMAIN log, i <= Len(schedule)
        PROVE  log[i].thing = State(schedule[i].state)
    <3>1. GoodSpend(log[i]) /\ log[i].coin = i - 1
      BY DEF LogOK
    <3>2. log[i].coin < Len(schedule) /\ log[i].coin + 1 = i
      BY <2>1, <2>2, <3>1
    <3> QED BY <3>1, <3>2 DEF GoodSpend
  <2>3. ASSUME NEW i \in DOMAIN log, ~ (i <= Len(schedule))
        PROVE  \E ks \in SUBSET {ConfigAt(i).keys[x] : x \in DOMAIN ConfigAt(i).keys} :
                   /\ Cardinality(ks) = ConfigAt(i).m
                   /\ \A k \in ks : \E s \in sigs : s.key = k /\ s.thing = log[i].thing
    <3> DEFINE ss == log[i].sigs
               ks == {s.key : s \in ss}
    <3>1. GoodSpend(log[i]) /\ log[i].coin = i - 1
      BY DEF LogOK
    <3>2. ~ (log[i].coin < Len(schedule)) /\ log[i].coin + 1 = i
      BY <2>1, <2>3, <3>1
    <3>3. /\ log[i].config = ConfigAt(i)
          /\ SignedBy([coin |-> log[i].coin, config |-> log[i].config], log[i].thing, ss)
          /\ ss \subseteq sigs /\ \A x \in ss : x.index \in DOMAIN ConfigAt(i).keys
      BY <3>1, <3>2 DEF GoodSpend
    <3>4. /\ Cardinality({s.index : s \in ss}) = ConfigAt(i).m
          /\ \A s \in ss : /\ s.key = ConfigAt(i).keys[s.index]
                           /\ s.message = <<i - 1, log[i].thing>>
      BY <3>1, <3>3 DEF SignedBy, verify_signature, pubkeys, delegated_puzzle
    <3>5. \A s \in ss : s.at = i - 1 /\ s.thing = log[i].thing /\ OwnSig(s)
      <4> SUFFICES ASSUME NEW s \in ss PROVE s.at = i - 1 /\ s.thing = log[i].thing /\ OwnSig(s)
        OBVIOUS
      <4>1. s.message = <<i - 1, log[i].thing>>
        BY <3>4
      <4>2. OwnSig(s) \/ s.message = <<Foreign, s.thing>>
        BY <3>3 DEF SigsOK, GoodSig
      <4>3. OwnSig(s)
        <5>1. i - 1 # Foreign
          BY <2>1 DEF Foreign
        <5> QED BY <4>1, <4>2, <5>1
      <4> QED BY <4>1, <4>3 DEF OwnSig
    <3>6. Cardinality(ks) = Cardinality({s.index : s \in ss})
      <4> HIDE DEF ss
      <4> QED BY <3>3, <3>5, AsManySigners
    <3>7. ks \in SUBSET {ConfigAt(i).keys[x] : x \in DOMAIN ConfigAt(i).keys}
      BY <3>3, <3>4
    <3>8. \A k \in ks : \E s \in sigs : s.key = k /\ s.thing = log[i].thing
      BY <3>3, <3>5
    <3> HIDE DEF ks
    <3> QED BY <3>4, <3>6, <3>7, <3>8
  <2> QED BY <2>1, <2>2, <2>3 DEF StateAsAgreed, InForce
<1> QED BY <1>1, MultisigInvariant, PTL

\* Enough signatures for the newest vault coin make a bundle the node takes,
\* unless another bundle was there first, another coin carries the launcher's
\* hint (when it was signed or now), or the distributor refuses the entry.
THEOREM MultisigSignedIsExecutable == Spec => []SignedIsExecutable
<1>1. IInv => SignedIsExecutable
  <2> SUFFICES ASSUME IInv, NEW thing \in work.things, NEW ss, ss \subseteq sigs,
                      \A s \in ss : s.at = chain.gen /\ s.thing = thing /\ s.alone,
                      pool = {}, ss # {}, Cardinality(ss) = chain.config.m, hinted = {},
                      NEW v \in sync_multisig_singleton
               PROVE  LET c == [price |-> v, reg |-> [n |-> chain.n, item |-> NoItem],
                                thing |-> thing, sigs |-> ss]
                      IN  /\ broadcast_thing_start(v, ss)
                          /\ Acceptable(Bundle(CHOOSE p \in Procs : TRUE, c), NoItem)
    BY SyncFinds DEF SignedIsExecutable
  <2> USE DEF IInv
  <2> DEFINE c == [price |-> v, reg |-> [n |-> chain.n, item |-> NoItem], thing |-> thing, sigs |-> ss]
             b == Bundle(CHOOSE p \in Procs : TRUE, c)
             o == [coin |-> v.coin, config |-> v.config, thing |-> thing, sigs |-> ss]
  <2>1. chain.gen \in Nat /\ Len(schedule) <= chain.gen /\ chain.gen = Len(log)
    <3>1. PICK s \in ss : TRUE
      OBVIOUS
    <3>2. GoodSig(s) /\ s.at = chain.gen
      BY DEF SigsOK
    <3> QED BY <3>2, LogFacts DEF GoodSig
  <2>2. /\ v.coin = chain.gen /\ v.phase = "vault" /\ v.config = chain.config
        /\ chain.config = ConfigAt(chain.gen + 1)
    BY <2>1, SyncTip, WorkFacts DEF InForce
  <2>3. \A s \in ss : /\ s.index \in DOMAIN v.config.keys
                      /\ v.config.keys[s.index] = s.key
                      /\ s.index = Min(Index([config |-> v.config], s.key))
                      /\ s.message = <<chain.gen, thing>>
                      /\ s = [index |-> s.index, key |-> s.key, thing |-> thing, at |-> chain.gen,
                              alone |-> s.alone, message |-> s.message]
                      /\ s.alone = TRUE
    <3> SUFFICES ASSUME NEW s \in ss
                 PROVE  /\ s.index \in DOMAIN v.config.keys
                        /\ v.config.keys[s.index] = s.key
                        /\ s.index = Min(Index([config |-> v.config], s.key))
                        /\ s.message = <<chain.gen, thing>>
                        /\ s = [index |-> s.index, key |-> s.key, thing |-> thing, at |-> chain.gen,
                                alone |-> s.alone, message |-> s.message]
                        /\ s.alone = TRUE
      OBVIOUS
    <3>1. GoodSig(s) /\ s.at = chain.gen /\ s.thing = thing /\ s.alone
      BY DEF SigsOK
    <3>2. s.alone = TRUE
      BY <3>1 DEF GoodSig
    <3>3. OwnSig(s)
      BY <3>1, <3>2 DEF GoodSig
    <3>4. s.message = <<chain.gen, thing>>
      BY <3>1, <3>3 DEF OwnSig
    <3>5. s = [index |-> s.index, key |-> s.key, thing |-> thing, at |-> chain.gen,
               alone |-> s.alone, message |-> s.message]
      BY <3>1 DEF GoodSig
    <3>6. /\ s.index \in DOMAIN v.config.keys
          /\ v.config.keys[s.index] = s.key
          /\ s.index = Min(Index([config |-> v.config], s.key))
      BY <2>2, <3>1, <3>3, SignerIndex
    <3> QED BY <3>2, <3>4, <3>5, <3>6
  <2>4. Cardinality({s.index : s \in ss}) = Cardinality(ss)
    <3> DEFINE N == {s.index : s \in ss}
               f == [s \in ss |-> s.index]
    <3>1. IsFiniteSet(ss)
      BY FS_Subset DEF SigsOK
    <3>2. \A s, t \in ss : f[s] = f[t] => s = t
      <4> SUFFICES ASSUME NEW s \in ss, NEW t \in ss, s.index = t.index PROVE s = t
        OBVIOUS
      <4>1. s.key = t.key /\ s.message = t.message /\ s.alone = t.alone
        BY <2>3
      <4>2. /\ s = [index |-> s.index, key |-> s.key, thing |-> thing, at |-> chain.gen,
                    alone |-> s.alone, message |-> s.message]
            /\ t = [index |-> t.index, key |-> t.key, thing |-> thing, at |-> chain.gen,
                    alone |-> t.alone, message |-> t.message]
        BY <2>3
      <4> QED BY ONLY <4>1, <4>2, s.index = t.index
    <3>3. \A n \in N : \E s \in ss : f[s] = n
      OBVIOUS
    <3>4. f \in [ss -> N]
      OBVIOUS
    <3> HIDE DEF f, N
    <3>5. ExistsBijection(ss, N)
      BY <3>2, <3>3, <3>4 DEF ExistsBijection, Bijection, Injection, IsInjective, Surjection
    <3>6. Cardinality(N) = Cardinality(ss)
      BY <3>1, <3>5, FS_Bijection
    <3> QED BY <3>6 DEF N
  <2>5. broadcast_thing_start(v, ss)
    BY <2>2, <2>3 DEF broadcast_thing_start
  <2>6. SignedBy([coin |-> v.coin, config |-> v.config], thing, ss)
    BY <2>2, <2>3, <2>4 DEF SignedBy, verify_signature, pubkeys, delegated_puzzle
  <2>7. Valid(o)
    BY <2>1, <2>2, <2>6, WorkFacts DEF Valid
  <2>8. b.reg \subseteq {chain.n} /\ b.spends = {o}
    BY DEF Bundle, NoItem
  <2>9. Conflicts(b) = {}
    BY DEF Conflicts
  <2> HIDE DEF o
  <2>10. Acceptable(b, NoItem)
    <3> HIDE DEF b
    <3> QED BY <2>7, <2>8, <2>9 DEF Acceptable
  <2> QED BY <2>5, <2>10
<1> QED BY <1>1, MultisigInvariant, PTL
=============================================================================
