------------------------------- MODULE Multisig -------------------------------
(***************************************************************************)
(* The price singleton: a state scheduler until its schedule is unrolled,  *)
(* an m-of-n vault after that.  The processes are command lines: signers   *)
(* who sign for the vault coin they see, and people who broadcast what     *)
(* was signed or unroll the next scheduled state.  A command reads the     *)
(* price singleton and the receiving singleton (a registry or a managed    *)
(* reward distributor) at two moments and pushes a bundle that spends both *)
(* while other users spend the receiver.                                   *)
(*                                                                         *)
(* The n-th coin of the price singleton is n: 0 .. Len(schedule) - 1 are   *)
(* schedulers, later ones are vaults.  Anybody may create coins that carry *)
(* its launcher's hint, other vaults among them; what is done to another   *)
(* vault by mistake is not followed.  The puzzles of the wallet library    *)
(* are external: a vault spend needs signatures of m distinct keys over    *)
(* its delegated puzzle, a scheduler spend waits for its time and sends    *)
(* its own message, a message sent must be received in the bundle, and a   *)
(* receiver takes messages of its own price singleton only.                *)
(***************************************************************************)
EXTENDS Integers, Sequences, FiniteSets, FiniteSetsExt

CONSTANTS
    Procs,        \* command line processes
    Keys,         \* signers
    Workloads     \* [receiver, schedule (sequence of [time, state]), config ([m, keys], keys
                  \* a sequence), first (initial state of the receiver), things (what signers
                  \* sign), hints (foreign coins that may carry the launcher's hint: [vault,
                  \* config], does its parent's spend parse as a vault, or fail to parse),
                  \* and the bounds time, moves (spends of the receiver by other users),
                  \* drops (bundles that leave the mempool), sigs, spends (price singleton
                  \* spends)]

Receivers == {"xchandles", "catalog", "distributor"}

IsConfig(c) == c.m \in Nat /\ c.keys \in Seq(Keys)

ASSUME MultisigAssumption ==
    \A w \in Workloads :
        /\ w.receiver \in Receivers /\ {w.time, w.moves, w.drops, w.sigs, w.spends} \subseteq Nat
        /\ w.schedule \in Seq([time : 0 .. w.time, state : STRING])
        /\ Len(w.schedule) <= w.spends
        /\ IsConfig(w.config)
        /\ \A thing \in w.things : thing.type = "rekey" => IsConfig(thing.config)

VARIABLES
    work,     \* the workload
    chain,    \* [gen (spends of the price singleton, -1 before the launch), config (of the
              \* vault), n (coin of the receiver), state (what it was told last), entries (of a
              \* distributor), over (has its epoch ended, with no sync since?), done (processes
              \* whose security coin is spent)]
    hinted,   \* foreign unspent coins with the launcher's hint
    pool,     \* mempool items
    now,      \* time of the latest transaction block
    sigs,     \* signatures given
    cmd,      \* the command of each process
    moves,    \* spends of the receiver by other users
    drops,    \* bundles lost
    log       \* history variable: executed spends of the price singleton

vars == <<work, chain, hinted, pool, now, sigs, cmd, moves, drops, log>>

Idle == [pc |-> "idle"]
NoItem == [reg |-> {}, moves |-> 0, epoch |-> FALSE, spends |-> {}, owners |-> {}]
Foreign == -2   \* the coin of a vault that is not the price singleton

schedule == work.schedule

-----------------------------------------------------------------------------
\* Reading the chain.

spent(g) == g < chain.gen

\* The scheduler's coins are followed from the launcher until one is unspent
\* or has no child scheduler.
StateSchedulerCoin == Min({g \in 0 .. Len(schedule) : g = Len(schedule) \/ ~ spent(g)})

\* Launched as a vault, or hinted by the scheduler's launcher.
eve_vault == [phase |-> "vault", coin |-> Len(schedule), config |-> work.config]

\* The price singleton among the unspent coins with the launcher's hint: one
\* that a vault spend created, with the configuration read from that spend.
OwnVault ==
    {[phase |-> "vault", coin |-> g, config |-> chain.config] :
        g \in {x \in Len(schedule) + 1 .. chain.gen : ~ spent(x)}}

\* The vaults that may be found: the first hinted coin whose parent's spend
\* parses as a vault, of whatever launcher, unless one before it fails to parse.
\* Nothing is known of the order.
LatestVaults ==
    OwnVault \cup {[phase |-> "vault", coin |-> Foreign, config |-> h.config] : h \in {x \in hinted : x.vault}}

scheduler_phase == [phase |-> "scheduler", coin |-> StateSchedulerCoin, config |-> work.config]

\* Mutant: the vault is not looked for.
sync_multisig_eve ==
    IF StateSchedulerCoin < Len(schedule) THEN {scheduler_phase} ELSE {eve_vault}

\* What a command may find; nothing when it can only end with an error.
sync_multisig_singleton ==
    IF StateSchedulerCoin < Len(schedule) THEN {scheduler_phase}
    ELSE IF OwnVault = {} /\ hinted = {} THEN {eve_vault}
    ELSE LatestVaults

\* The pending bundle that spends the receiver's newest coin.
Pending == {i \in pool : i.reg = {chain.n}}

\* The full syncs return the pending bundle for the command to build on.
sync_registry == [n |-> chain.n, item |-> IF Pending = {} THEN NoItem ELSE CHOOSE i \in Pending : TRUE]

\* The quick syncs look for bundles that spend the parent of the newest coin,
\* which is spent already: they find none.
quick_sync_xchandles == [n |-> chain.n, item |-> NoItem]
quick_sync_catalog == [n |-> chain.n, item |-> NoItem]

get_last_onchain_timestamp == now
scheduler_activation_reached(t) == get_last_onchain_timestamp >= t

-----------------------------------------------------------------------------
\* Signatures.

State(x) == [type |-> "state", state |-> x]
Entry(type, x) == [type |-> type, state |-> x]   \* "add" or "remove"
Rekey(c) == [type |-> "rekey", config |-> c]

delegated_puzzle_anyCoin(v, thing) == <<0, thing>>
delegated_puzzle_anyThing(v, thing) == <<v.coin, 0>>

\* The puzzle that is signed: what is agreed to and the vault coin it is for.
delegated_puzzle(v, thing) == <<v.coin, thing>>

Index(v, k) == {i \in DOMAIN v.config.keys : v.config.keys[i] = k}

verify_signature(s, key, message) == s.key = key /\ s.message = message

\* The signer's index in the list of keys (the command stops if there is none)
\* and the signature.  Kept with it, for the properties: the newest coin, and
\* whether the signer could only find that one.
Sign(k, thing) ==
    /\ chain.gen >= 0 /\ Cardinality(sigs) < work.sigs
    /\ \E v \in sync_multisig_singleton :
          /\ v.phase = "vault" /\ Index(v, k) # {}
          /\ sigs' = sigs \cup {[index |-> Min(Index(v, k)), key |-> k, thing |-> thing, at |-> chain.gen,
                                 alone |-> hinted = {}, message |-> delegated_puzzle(v, thing)]}
    /\ UNCHANGED <<work, chain, hinted, pool, now, cmd, moves, drops, log>>

\* The commands that sign.  The receiver is read only to show its state.
xchandles_sign_state_update(k, thing) == work.receiver = "xchandles" /\ thing.type = "state" /\ Sign(k, thing)
catalog_sign_state_update(k, thing) == work.receiver = "catalog" /\ thing.type = "state" /\ Sign(k, thing)
sign_entry_update(k, thing) == work.receiver = "distributor" /\ thing.type \in {"add", "remove"} /\ Sign(k, thing)

RekeyAdmitted_any(thing) == thing.type = "rekey"

\* A rekey to fewer keys than signatures is refused, and again when broadcast.
RekeyAdmitted(thing) == thing.type = "rekey" /\ thing.config.m <= Len(thing.config.keys)
multisig_sign_rekey(k, thing) == RekeyAdmitted(thing) /\ Sign(k, thing)

\* Each signature is given with an index into the current list of keys.
pubkeys(v, ss) == [s \in ss |-> v.config.keys[s.index]]
broadcast_thing_start(v, ss) ==
    /\ v.phase = "vault" /\ Cardinality(ss) = v.config.m
    /\ \A s \in ss : s.index \in DOMAIN v.config.keys

\* The vault accepts m distinct indexes of its own key list, each with a
\* signature over the puzzle it runs.
SignedBy(v, thing, ss) ==
    /\ Cardinality({s.index : s \in ss}) = v.config.m
    /\ \A s \in ss : verify_signature(s, pubkeys(v, ss)[s], delegated_puzzle(v, thing))

-----------------------------------------------------------------------------
\* Bundles: [reg (the receiver's coin, if it is spent), moves (by other
\* users), epoch (is a new one started?), spends (of the price singleton), owners (processes)].

\* The scheduled state the command asks the receiver for.
Scheduled_next(g) == schedule[IF g + 2 \in DOMAIN schedule THEN g + 2 ELSE g + 1]

Scheduled(g) == schedule[g + 1]

\* A state update spends the receiver it was built on, pending bundle
\* included; a rekey spends the vault only.  The security coin asserts the
\* spend of the price singleton.
Bundle(p, c) ==
    LET own == {[coin |-> c.price.coin, config |-> c.price.config, thing |-> c.thing, sigs |-> c.sigs]}
    IN  [reg |-> IF c.thing.type = "rekey" THEN {} ELSE {c.reg.n}, moves |-> c.reg.item.moves,
         epoch |-> c.reg.item.epoch,
         spends |-> c.reg.item.spends \cup own, owners |-> c.reg.item.owners \cup {p}]

\* The price singleton would be spent twice by one bundle.
SpendsTwice(c) == \E s \in c.reg.item.spends : s.coin = c.price.coin

\* Scheduler: its time has come, and the message it sends is the one that the
\* receiver is to receive.  Vault: signed.
Valid(s) ==
    /\ s.coin = chain.gen
    /\ IF s.coin < Len(schedule)
       THEN now >= schedule[s.coin + 1].time /\ s.thing = State(schedule[s.coin + 1].state)
       ELSE SignedBy([coin |-> s.coin, config |-> s.config], s.thing, s.sigs)

SpentCoins(b) == {<<"receiver", n>> : n \in b.reg} \cup {<<"price", s.coin>> : s \in b.spends}
Conflicts(b) == {i \in pool : SpentCoins(i) \cap SpentCoins(b) # {}}

\* A node takes a bundle of unspent coins that conflicts with nothing but
\* what it contains.
Acceptable(b, item) ==
    /\ b.reg \subseteq {chain.n} /\ \A s \in b.spends : Valid(s)
    /\ Conflicts(b) \subseteq {item}

-----------------------------------------------------------------------------
\* The commands.

\* The receiver has been spent before: the quick syncs recognise it by the
\* spend of its parent.
Init ==
    /\ work \in Workloads
    /\ chain = [gen |-> IF work.schedule = <<>> THEN -1 ELSE 0, config |-> work.config, n |-> 1,
                state |-> work.first, entries |-> {}, over |-> FALSE, done |-> {}]
    /\ hinted = {}
    /\ pool = {} /\ now = 0 /\ sigs = {} /\ cmd = [p \in Procs |-> Idle]
    /\ moves = 0 /\ drops = 0 /\ log = <<>>

\* A vault is launched with any m and any keys.
multisig_launch ==
    /\ chain.gen = -1 /\ chain' = [chain EXCEPT !.gen = 0]
    /\ UNCHANGED <<work, hinted, pool, now, sigs, cmd, moves, drops, log>>

world == <<work, chain, hinted, pool, now, sigs, moves, drops, log>>

\* XCHandles' unroll reads the registry first, by either sync.
xchandles_unroll_state_scheduler(p, reg) ==
    /\ cmd[p] = Idle /\ work.receiver = "xchandles"
    /\ cmd' = [cmd EXCEPT ![p] = [pc |-> "price", reg |-> reg]]
    /\ UNCHANGED world

\* The rest of an unroll: the state that is due, or an error.
Unroll(v, reg) ==
    IF v.phase = "scheduler" /\ scheduler_activation_reached(Scheduled(v.coin).time)
    THEN [pc |-> "push", price |-> v, reg |-> reg, thing |-> State(Scheduled(v.coin).state), sigs |-> {}]
    ELSE Idle

UnrollPrice(p) ==
    /\ cmd[p].pc = "price"
    /\ \/ \E v \in sync_multisig_singleton : cmd' = [cmd EXCEPT ![p] = Unroll(v, cmd[p].reg)]
       \/ sync_multisig_singleton = {} /\ cmd' = [cmd EXCEPT ![p] = Idle]
    /\ UNCHANGED world

\* CATalog's unroll reads the price singleton first and always syncs fully.
catalog_unroll_state_scheduler(p) ==
    /\ cmd[p] = Idle /\ work.receiver = "catalog"
    /\ \E v \in sync_multisig_singleton :
          v.phase = "scheduler" /\ cmd' = [cmd EXCEPT ![p] = [pc |-> "catalog", price |-> v]]
    /\ UNCHANGED world

UnrollCatalog(p) ==
    /\ cmd[p].pc = "catalog"
    /\ cmd' = [cmd EXCEPT ![p] = Unroll(cmd[p].price, sync_registry)]
    /\ UNCHANGED world

\* The vault and the signatures.
Broadcast(p, thing, ss) ==
    /\ cmd[p] = Idle /\ chain.gen >= 0
    /\ \E v \in sync_multisig_singleton :
          /\ broadcast_thing_start(v, ss)
          /\ cmd' = [cmd EXCEPT ![p] = [pc |-> "receiver", price |-> v, thing |-> thing, sigs |-> ss]]
    /\ UNCHANGED world

multisig_broadcast_rekey(p, thing, ss) == RekeyAdmitted(thing) /\ Broadcast(p, thing, ss)
BroadcastUpdate(p, thing, ss) == thing.type # "rekey" /\ Broadcast(p, thing, ss)

\* The rest of a broadcast: the receiver as the command reads it.
ReceiverRead(p, reg) ==
    /\ cmd' = [cmd EXCEPT ![p] = [pc |-> "push", price |-> cmd[p].price, reg |-> reg, thing |-> cmd[p].thing,
                                  sigs |-> cmd[p].sigs]]
    /\ UNCHANGED world

Broadcasts(p, types) == cmd[p].pc = "receiver" /\ cmd[p].thing.type \in types

rekey_create_coin(p) == Broadcasts(p, {"rekey"}) /\ ReceiverRead(p, [n |-> chain.n, item |-> NoItem])
xchandles_broadcast_state_update(p) ==
    /\ Broadcasts(p, {"state"}) /\ work.receiver = "xchandles" /\ ReceiverRead(p, quick_sync_xchandles)
catalog_broadcast_state_update(p) ==
    /\ Broadcasts(p, {"state"}) /\ work.receiver = "catalog" /\ ReceiverRead(p, quick_sync_catalog)

\* Entries are only changed after a new epoch has been started, if one is due in
\* the state synced to (pending bundle included); the entry to be removed is
\* looked for on the chain.
EpochOver(item) == chain.over /\ ~ item.epoch
find_entry_slots(name) == {e \in chain.entries : e.name = name}
Refused(thing, item) ==
    EpochOver(item) \/ (thing.type = "remove" /\ find_entry_slots(thing.state) = {})

broadcast_entry_update(p) ==
    /\ Broadcasts(p, {"add", "remove"}) /\ work.receiver = "distributor"
    /\ \/ ~ Refused(cmd[p].thing, sync_registry.item) /\ ReceiverRead(p, sync_registry)
       \/ /\ Refused(cmd[p].thing, sync_registry.item)
          /\ cmd' = [cmd EXCEPT ![p] = Idle] /\ UNCHANGED world

\* push_tx: the command waits for its security coin, or ends with an error.
Push(p) ==
    /\ cmd[p].pc = "push"
    /\ LET c == cmd[p]
           b == Bundle(p, c)
       IN  \/ /\ ~ SpendsTwice(c) /\ Acceptable(b, c.reg.item)
              /\ pool' = (pool \ Conflicts(b)) \cup {b}
              /\ cmd' = [cmd EXCEPT ![p] = [pc |-> "wait"]]
           \/ /\ SpendsTwice(c) \/ ~ Acceptable(b, c.reg.item)
              /\ cmd' = [cmd EXCEPT ![p] = Idle] /\ UNCHANGED pool
    /\ UNCHANGED <<work, chain, hinted, now, sigs, moves, drops, log>>

Confirmed(p) ==
    /\ cmd[p].pc = "wait" /\ p \in chain.done
    /\ cmd' = [cmd EXCEPT ![p] = Idle] /\ chain' = [chain EXCEPT !.done = @ \ {p}]
    /\ UNCHANGED <<work, hinted, pool, now, sigs, moves, drops, log>>

\* wait_for_coin has no limit: a process whose bundle was lost is stopped by
\* its user.
Interrupt(p) ==
    /\ cmd[p].pc = "wait" /\ p \notin chain.done /\ \A i \in pool : p \notin i.owners
    /\ cmd' = [cmd EXCEPT ![p] = Idle]
    /\ UNCHANGED world

-----------------------------------------------------------------------------
\* The environment.

\* Another user spends the receiver, on top of a pending bundle if there is one,
\* and may start the epoch that is due.
OtherUser ==
    /\ moves < work.moves /\ moves' = moves + 1
    /\ LET i == sync_registry.item
       IN  \E epoch \in {i.epoch, chain.over} :
              pool' = (pool \ {i}) \cup {[i EXCEPT !.reg = {chain.n}, !.moves = @ + 1, !.epoch = epoch]}
    /\ UNCHANGED <<work, chain, hinted, now, sigs, cmd, drops, log>>

\* The entries after an update.
EntriesAfter(c, thing) ==
    CASE thing.type = "add" -> c.entries \cup {[name |-> thing.state, by |-> c.gen]}
      [] thing.type = "remove" -> c.entries \ {CHOOSE e \in c.entries : e.name = thing.state}
      [] OTHER -> c.entries

\* What a spend of the price singleton does to the two singletons.
Executed(c, s) ==
    IF s.thing.type = "rekey" THEN [c EXCEPT !.gen = @ + 1, !.config = s.thing.config]
    ELSE [c EXCEPT !.gen = @ + 1, !.state = s.thing.state, !.entries = EntriesAfter(c, s.thing)]

\* A block includes an item; those that spend a coin it spent are removed.
Include ==
    \E i \in pool :
        LET c == [chain EXCEPT !.n = @ + Cardinality(i.reg), !.done = @ \cup i.owners, !.over = @ /\ ~ i.epoch]
        IN  /\ chain' = IF i.spends = {} THEN c ELSE Executed(c, CHOOSE s \in i.spends : TRUE)
            /\ log' = IF i.spends = {} THEN log ELSE Append(log, CHOOSE s \in i.spends : TRUE)
            /\ pool' = pool \ Conflicts(i)
            /\ UNCHANGED <<work, hinted, now, sigs, cmd, moves, drops>>

\* A node forgets a bundle.
Drop ==
    /\ drops < work.drops /\ drops' = drops + 1
    /\ \E i \in pool : pool' = pool \ {i}
    /\ UNCHANGED <<work, chain, hinted, now, sigs, cmd, moves, log>>

Tick ==
    /\ now < work.time /\ now' = now + 1
    /\ UNCHANGED <<work, chain, hinted, pool, sigs, cmd, moves, drops, log>>

\* The distributor's epoch ends, and three minutes pass without a sync.
EpochEnds ==
    /\ work.receiver = "distributor" /\ ~ chain.over
    /\ chain' = [chain EXCEPT !.over = TRUE]
    /\ UNCHANGED <<work, hinted, pool, now, sigs, cmd, moves, drops, log>>

\* A coin with the launcher's hint is created, or spent.
Hint ==
    /\ \E h \in work.hints : hinted' \in {hinted \cup {h}, hinted \ {h}}
    /\ UNCHANGED <<work, chain, pool, now, sigs, cmd, moves, drops, log>>

UnrollStart(p) ==
    \/ \E reg \in {sync_registry, quick_sync_xchandles} : xchandles_unroll_state_scheduler(p, reg)
    \/ catalog_unroll_state_scheduler(p)

Continue(p) ==
    \/ UnrollPrice(p) \/ UnrollCatalog(p)
    \/ rekey_create_coin(p) \/ xchandles_broadcast_state_update(p) \/ catalog_broadcast_state_update(p)
    \/ broadcast_entry_update(p)
    \/ Push(p) \/ Confirmed(p) \/ Interrupt(p)

Quorums == {ss \in SUBSET sigs : \E v \in sync_multisig_singleton : Cardinality(ss) = v.config.m}

Bounded == chain.gen < work.spends

Next ==
    \/ multisig_launch
    \/ \E k \in Keys, thing \in work.things :
         \/ xchandles_sign_state_update(k, thing) \/ catalog_sign_state_update(k, thing)
         \/ sign_entry_update(k, thing) \/ multisig_sign_rekey(k, thing)
    \/ \E p \in Procs :
         \/ Bounded /\ UnrollStart(p)
         \/ Bounded /\ \E thing \in work.things, ss \in Quorums :
              multisig_broadcast_rekey(p, thing, ss) \/ BroadcastUpdate(p, thing, ss)
         \/ Continue(p)
    \/ OtherUser \/ Include \/ Drop \/ Tick \/ EpochEnds \/ Hint

Spec == Init /\ [][Next]_vars

\* People keep running the unroll command and stop one that waits for a lost
\* bundle; a command goes on, blocks are made and time passes.
FairSpec ==
    /\ Spec /\ WF_vars(Include) /\ WF_vars(Tick)
    /\ \A p \in Procs : WF_vars(Bounded /\ UnrollStart(p)) /\ WF_vars(Continue(p))

-----------------------------------------------------------------------------
\* Properties.

\* Shape of the state.  The mempool never holds two bundles that spend the
\* same coin, nor one that spends a coin the chain has spent; no rekey leaves
\* a vault with fewer keys than the signatures it needs (multisig_sign_rekey,
\* multisig_broadcast_rekey), unless it was launched that way.
TypeOK ==
    /\ work \in Workloads /\ now \in 0 .. work.time /\ moves \in 0 .. work.moves /\ drops \in 0 .. work.drops
    /\ chain.gen \in -1 .. work.spends /\ chain.done \subseteq Procs
    /\ work.config.m <= Len(work.config.keys) => chain.config.m <= Len(chain.config.keys)
    /\ \A i \in pool : Conflicts(i) = {i} /\ i.reg \subseteq {chain.n} /\ \A s \in i.spends : s.coin = chain.gen
    /\ \A s \in sigs : s.key \in Keys /\ s.thing \in work.things

\* A signature authorises one spend: however often the signatures of an
\* executed update are broadcast again, by anyone and after any number of
\* later updates and rekeys, they do nothing ("secure - dependent on coin id &
\* network", multisig_sign_thing_finish).
NoReplay ==
    \A i, j \in DOMAIN log : i # j => log[i].sigs \cap log[j].sigs = {}

\* The keys in force before the i-th spend of the price singleton.
ConfigAt(i) ==
    LET rekeys == {j \in 1 .. i - 1 : log[j].thing.type = "rekey"}
    IN  IF rekeys = {} THEN work.config ELSE log[Max(rekeys)].thing.config

Adds(thing, name) == thing.type = "add" /\ thing.state = name

\* The receiver's state is the last one the price singleton agreed to: the
\* scheduled states come first, in their order, and every later spend does
\* what m of the keys in force signed, whichever of several proposals for the
\* same coin is broadcast with which signatures.  A distributor has no entry that
\* was not added in this way.
StateAsAgreed ==
    LET states == {i \in DOMAIN log : log[i].thing.type # "rekey"}
    IN  /\ chain.state = IF states = {} THEN work.first ELSE log[Max(states)].thing.state
        /\ \A e \in chain.entries : e.by + 1 \in DOMAIN log /\ Adds(log[e.by + 1].thing, e.name)
        /\ chain.config = ConfigAt(Len(log) + 1) /\ chain.gen = (IF chain.gen = -1 THEN -1 ELSE Len(log))
        /\ \A i \in DOMAIN log :
              IF i <= Len(schedule) THEN log[i].thing = State(schedule[i].state)
              ELSE \E ks \in SUBSET {ConfigAt(i).keys[x] : x \in DOMAIN ConfigAt(i).keys} :
                     /\ Cardinality(ks) = ConfigAt(i).m
                     /\ \A k \in ks : \E s \in sigs : s.key = k /\ s.thing = log[i].thing

\* What enough signers signed since the vault was last spent can be executed:
\* signing and broadcasting find the same vault coin, the same keys and the
\* same puzzle, however the receiver moves in between.  Excepted are other coins
\* with the launcher's hint, when it was signed or now (any of them that has to
\* do with a vault may be taken for the price singleton), a distributor whose
\* epoch is over, and the removal of an entry that it does not have.
SignedIsExecutable ==
    \A thing \in work.things :
        \A ss \in SUBSET {s \in sigs : s.at = chain.gen /\ s.thing = thing /\ s.alone} :
            /\ pool = {} /\ ss # {} /\ Cardinality(ss) = chain.config.m /\ hinted = {}
            /\ thing.type \in {"add", "remove"} => ~ Refused(thing, NoItem)
            => /\ sync_multisig_singleton # {}
               /\ \A v \in sync_multisig_singleton :
                    LET c == [price |-> v, reg |-> [n |-> chain.n, item |-> NoItem], thing |-> thing, sigs |-> ss]
                    IN  broadcast_thing_start(v, ss) /\ Acceptable(Bundle(CHOOSE p \in Procs : TRUE, c), NoItem)

\* Every scheduled state takes effect if people keep running the unroll
\* commands, although commands race each other and other users' bundles, and
\* bundles are lost.
UnrollCompletes == (chain.gen = 0) ~> (chain.gen >= Len(schedule))

=============================================================================
