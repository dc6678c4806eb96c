-------------------------- MODULE RewardDistributor --------------------------
(***************************************************************************)
(* The reward distributor commands: processes that read the chain and the  *)
(* mempool at different moments, build a spend of the distributor on top   *)
(* of what is pending, push it and wait.  sync_distributor merges the      *)
(* pending bundle into the snapshot; the slots and locked assets a command *)
(* needs are read from confirmed coins only; a pushed bundle contains the  *)
(* pending one and replaces it.                                            *)
(*                                                                         *)
(* The distributor's puzzles are external: an accepted bundle spends coins *)
(* that exist, an entry never has negative shares and a block is not       *)
(* earlier than the time it syncs to.  A node may refuse any bundle (fees).*)
(* Amounts of rewards are left out.                                        *)
(***************************************************************************)
EXTENDS Integers, FiniteSets, FiniteSetsExt

CONSTANTS
    Procs,        \* command line processes
    Workloads,    \* distributors and what is asked of them: [kind (the
                  \* reward_distributor_type), opened (is it launched, and has an
                  \* epoch begun?),
                  \* requests, time (bound on the clock), commands (bound)], where a
                  \* request is [cmd, who, asset, csv, epoch]
    Holders,      \* payout puzzle hashes (custody addresses)
    Assets,       \* NFTs, or coins of the staked CAT
    Wallet,       \* the holders whose addresses the active wallet owns
    Listed,       \* Listed[v][a]: weight of a in version v of the whitelist; for
                  \* other types DOMAIN Listed[1] is the collection, and Listed[1][a]
                  \* the amount of the CAT coin or the shares of the entry
    Deposits,     \* coins paid to the P2-next-epoch address
    Nobody,
    First, EpochLen,    \* first_epoch_start, epoch_seconds
    Slack,        \* a distributor synced less than this ago is not synced again (180 s)
    MaxOffset,    \* max_seconds_offset
    MaxCoins      \* --max-coins

Kinds == {"nft", "curated", "cat", "managed"}

ASSUME DistributorAssumption ==
    /\ Nobody \notin Holders /\ Wallet \subseteq Holders
    /\ {First, Slack, MaxOffset} \subseteq Nat
    /\ EpochLen \in Nat \ {0} /\ MaxCoins \in 1 .. 32
    /\ IsFiniteSet(Assets) /\ 1 \in DOMAIN Listed
    /\ \A v \in DOMAIN Listed : DOMAIN Listed[v] \subseteq Assets /\ \A a \in DOMAIN Listed[v] : Listed[v][a] \in Nat
    /\ \A w \in Workloads :
         /\ w.kind \in Kinds /\ {w.time, w.commands} \subseteq Nat /\ First <= w.time
         /\ \A r \in w.requests :
              /\ r.who \in Holders /\ r.asset \in Assets /\ r.epoch \in Nat
              /\ w.kind \in {"cat", "managed"} => r.asset \in DOMAIN Listed[1]

VARIABLES
    work,     \* the workload
    chain,    \* what is confirmed
    pool,     \* the mempool item that spends the distributor, or NoItem
    store,    \* the mempool item that updates the whitelist, or NoItem
    now,      \* time of the latest transaction block
    cached,   \* is the configuration in the database?
    cmd,      \* the command each process executes
    started,  \* commands started
    lost,     \* commands whose bundle left the mempool without being included
    raced     \* history variable: holders that staked on top of their own
              \* pending stake

vars == <<work, chain, pool, store, now, cached, cmd, started, lost, raced>>

-----------------------------------------------------------------------------
\* What the chain holds: number of the distributor's coin, round_time_info,
\* the newest reward slot, entry slots, locked assets, commitment slots,
\* deposits, the whitelist, the number of the data store's and the manager's
\* coin, and the commands included.

Unlocked == [who |-> Nobody, shares |-> 0]
Unlaunched ==
    [n |-> -1, last |-> First, end |-> First, top |-> First, entries |-> {},
     locked |-> [a \in Assets |-> Unlocked], commits |-> {}, deposits |-> Deposits,
     root |-> 1, coin |-> [x \in {"store", "vault"} |-> 0], done |-> {}]
Launched == [Unlaunched EXCEPT !.n = 0]
Opened == [Launched EXCEPT !.n = 1, !.end = First + EpochLen]

kind == work.kind
MaxTime == work.time
MaxCommands == work.commands

NoItem == [txs |-> {}]
Idle == [pc |-> "idle"]

Entries(d, w) == {e \in d.entries : e.who = w}
Locks(d, w) == {a \in Assets : d.locked[a].who = w}

-----------------------------------------------------------------------------
\* Reading the chain.

\* The pending bundle is part of the snapshot; otherwise the confirmed coin is.
sync_distributor ==
    IF pool.txs = {} THEN [state |-> chain, item |-> NoItem, base |-> chain.n]
    ELSE [state |-> pool.after, item |-> pool, base |-> chain.n]

\* Confirmed slots only, in no particular order.
find_entry_slots(w, shares) ==
    {e \in Entries(chain, w) : shares \in {0, e.shares}}

\* The newest confirmed slot at or below an epoch on the grid; the search
\* goes down without a bound, so it does not end below the first slot.
RewardSlots(d) == {e \in First .. d.top : (e - First) % EpochLen = 0}
find_reward_slot_earlier(d, epoch) ==
    {e \in RewardSlots(d) : e < epoch /\ (epoch - e) % EpochLen = 0}

find_reward_slot(d, epoch) ==
    {e \in RewardSlots(d) : e <= epoch /\ (epoch - e) % EpochLen = 0}

find_commitment_slots(w, epoch) ==
    {c \in chain.commits : c.who = w /\ epoch \in {0, c.epoch}}

\* An NFT's shares are found by trying every value up to those of the entry.
find_locked_nfts(w, e) ==
    {a \in Locks(chain, w) : chain.locked[a].shares <= Max({e.shares, 1})}
find_locked_cats(w) == Locks(chain, w)
find_locked(w, e) == IF kind = "cat" THEN find_locked_cats(w) ELSE find_locked_nfts(w, e)

\* A deposit is an unspent coin; at most MaxCoins are taken.
AvailableRewards ==
    {ds \in SUBSET chain.deposits :
        ds # {} /\ Cardinality(ds) = Min({MaxCoins, Cardinality(chain.deposits)})}

\* The time of the latest transaction block.
get_last_onchain_timestamp == now

ensure_epoch_open(d) == get_last_onchain_timestamp <= d.end
AlsoSync(d) == d.last + Slack < get_last_onchain_timestamp

\* Both find the key of an address among the wallet's derivations.
resolve_custody(r) == r.who \in Wallet
get_coin_public_key(r) == r.who \in Wallet

Staking == {"stake", "unstake", "refresh"}
EntryUpdates == {"add_entry", "remove_entry"}
NeedEpoch == Staking \cup {"add_rewards", "payout"}

\* What the commands refuse before they look for slots.
StakingAdmitted(r, d) == kind # "managed" /\ ensure_epoch_open(d) /\ resolve_custody(r)
RefreshAdmitted(r, d) == kind = "curated" /\ ensure_epoch_open(d) /\ resolve_custody(r)
PayoutAdmitted(r, d) == ensure_epoch_open(d) /\ resolve_custody(r)
EntryUpdateAdmitted(r, d) == kind = "managed" /\ cached /\ (AlsoSync(d) => ensure_epoch_open(d))
SyncAdmitted(r, d) == Min({now, d.end}) > d.last

Admitted(r, d) ==
    CASE r.cmd \in {"stake", "unstake"} -> StakingAdmitted(r, d)
      [] r.cmd = "refresh" -> RefreshAdmitted(r, d)
      [] r.cmd = "payout" -> PayoutAdmitted(r, d)
      [] r.cmd = "add_rewards" -> ensure_epoch_open(d)
      [] r.cmd \in EntryUpdates -> EntryUpdateAdmitted(r, d)
      [] r.cmd = "sync" -> SyncAdmitted(r, d)
      [] OTHER -> TRUE

SyncTime_unclamped(r, d) ==
    CASE r.cmd = "sync" -> now
      [] r.cmd = "new_epoch" -> d.end
      [] r.cmd \in NeedEpoch \cup EntryUpdates -> IF AlsoSync(d) THEN now ELSE d.last
      [] OTHER -> d.last

\* The time a command's bundle syncs the distributor to.
SyncTime(r, d) ==
    CASE r.cmd = "sync" -> Min({now, d.end})
      [] r.cmd = "new_epoch" -> d.end
      [] r.cmd \in NeedEpoch \cup EntryUpdates -> IF AlsoSync(d) THEN now ELSE d.last
      [] OTHER -> d.last

\* sync_datastore never returns the pending data store: the coin a mempool
\* spend creates is compared with the one it spends.
sync_datastore == [coin |-> chain.coin["store"], root |-> chain.root]

validate_update_csvs(old, new) == DOMAIN Listed[old] \subseteq DOMAIN Listed[new]
load_csv_matching_root(r) == r.csv = sync_datastore.root
merkle_proof_for_nft(r, a) == Listed[r.csv][a]

\* The shares an asset is staked for, if the command accepts it.
stake_nft_collection(r) == IF r.asset \in DOMAIN Listed[1] THEN {1} ELSE {}
stake_curated_nft(r) ==
    IF load_csv_matching_root(r) /\ r.asset \in DOMAIN Listed[r.csv]
    THEN {merkle_proof_for_nft(r, r.asset)} ELSE {}
stake_cat(r) == {Listed[1][r.asset]}
StakeShares(r) ==
    CASE kind = "nft" -> stake_nft_collection(r)
      [] kind = "curated" -> stake_curated_nft(r)
      [] OTHER -> stake_cat(r)

-----------------------------------------------------------------------------
\* What a command finds on the chain, and therefore asks of the distributor:
\* [entry, assets, shares, slot, commit, coins].  Several answers are possible where
\* it takes the first of a list or asks the user; none where it fails.  The
\* reads are one step: every coin they return is checked again by the push.

Nothing == [entry |-> 0, assets |-> {}, shares |-> 0, slot |-> 0, commit |-> {}, coins |-> {}]
Oracle_notSpent == {}

Oracle == IF kind = "curated" THEN {<<"store", sync_datastore.coin>>} ELSE {}
Vault == {<<"vault", chain.coin["vault"]>>}

Stake_newEntry(r) ==
    {[Nothing EXCEPT !.assets = {r.asset}, !.shares = w, !.coins = Oracle] :
        w \in {v \in StakeShares(r) : chain.locked[r.asset] = Unlocked}}

\* The wallet offers an asset it holds; the shares are added to an entry of
\* the same custody, if there is one.
Stake(r) ==
    LET ids == {e.id : e \in find_entry_slots(r.who, 0)}
    IN  UNION {{[Nothing EXCEPT !.entry = i, !.assets = {r.asset}, !.shares = w, !.coins = Oracle] :
                   w \in {v \in StakeShares(r) : chain.locked[r.asset] = Unlocked}} :
                   i \in IF ids = {} THEN {0} ELSE ids}

Unstake(r) ==
    UNION {{[Nothing EXCEPT !.entry = e.id, !.assets = {a}] : a \in find_locked(r.who, e)} :
              e \in find_entry_slots(r.who, 0)}

\* Every locked NFT it sees whose weight has changed.
Reweighted(r, e) ==
    {a \in find_locked_nfts(r.who, e) : merkle_proof_for_nft(r, a) # chain.locked[a].shares}
Refresh(r) ==
    {[Nothing EXCEPT !.entry = e.id, !.assets = Reweighted(r, e), !.coins = Oracle] :
        e \in {x \in find_entry_slots(r.who, 0) :
                  load_csv_matching_root(r) /\ Reweighted(r, x) # {}}}

InitiatePayout(r) ==
    {[Nothing EXCEPT !.entry = e.id] : e \in find_entry_slots(r.who, 0)}

\* An entry update needs the manager's vault coin; only remove_entry names an
\* entry, by its holder and shares.
EntryUpdate(r) ==
    IF r.cmd = "add_entry" THEN {[Nothing EXCEPT !.coins = Vault]}
    ELSE {[Nothing EXCEPT !.entry = e.id, !.coins = Vault] :
             e \in find_entry_slots(r.who, Listed[1][r.asset])}

\* Neither needs anything from the chain but the distributor.
AddRewards == {Nothing}
Sync == {Nothing}

NewestSlot(epoch) == Max(find_reward_slot(chain, epoch))

CommitRewards(r) ==
    {[Nothing EXCEPT !.slot = NewestSlot(r.epoch), !.commit = {[who |-> r.who, epoch |-> r.epoch]}]}

CommitAvailable(d) ==
    {[Nothing EXCEPT !.slot = NewestSlot(d.end), !.commit = {[who |-> x, epoch |-> d.end] : x \in ds}] :
        ds \in AvailableRewards}

Clawback(r) ==
    {[Nothing EXCEPT !.slot = NewestSlot(c.epoch), !.commit = {c}] :
        c \in {x \in find_commitment_slots(r.who, r.epoch) : get_coin_public_key(r)}}

NewEpoch(d) == {[Nothing EXCEPT !.slot = NewestSlot(d.end)]}

Found(r, d) ==
    CASE r.cmd = "stake" -> Stake(r)
      [] r.cmd = "unstake" -> Unstake(r)
      [] r.cmd = "refresh" -> Refresh(r)
      [] r.cmd = "payout" -> InitiatePayout(r)
      [] r.cmd \in EntryUpdates -> EntryUpdate(r)
      [] r.cmd = "commit_rewards" -> CommitRewards(r)
      [] r.cmd = "commit_available" -> CommitAvailable(d)
      [] r.cmd = "clawback" -> Clawback(r)
      [] r.cmd = "new_epoch" -> NewEpoch(d)
      [] r.cmd = "add_rewards" -> AddRewards
      [] OTHER -> Sync

\* The epochs whose reward slot a command searches.
Searched(r, d) ==
    CASE r.cmd = "commit_rewards" -> {r.epoch}
      [] r.cmd = "clawback" -> {c.epoch : c \in find_commitment_slots(r.who, r.epoch)}
      [] r.cmd = "commit_available" -> IF chain.deposits = {} THEN {} ELSE {d.end}
      [] r.cmd = "new_epoch" -> {d.end}
      [] OTHER -> {}

Endless(r, d) == \E e \in Searched(r, d) : find_reward_slot(chain, e) = {}

-----------------------------------------------------------------------------
\* What the actions do to the distributor they are built on: the states they
\* may lead to, none if the bundle is refused.  A slot found on the chain is
\* replaced by its pending version, if there is one.

Entry(c) == CHOOSE e \in c.snap.entries : e.id = c.use.entry
HasEntry(c) == c.use.entry = 0 \/ \E e \in c.snap.entries : e.id = c.use.entry
WithShares(c, shares) ==
    (c.snap.entries \ {Entry(c)}) \cup {[Entry(c) EXCEPT !.shares = shares]}

\* Shares of the assets a command uses: as they were when it looked, and as
\* the CSV it read has them.
Seen(c) == MapThenSumSet(LAMBDA a : c.seen[a].shares, c.use.assets)
Reread(c) == MapThenSumSet(LAMBDA a : merkle_proof_for_nft(c.req, a), c.use.assets)

AfterStake(c) ==
    {[c.snap EXCEPT
        !.entries = IF c.use.entry = 0
                    THEN @ \cup {[who |-> c.req.who, shares |-> c.use.shares, id |-> c.t]}
                    ELSE WithShares(c, Entry(c).shares + c.use.shares),
        !.locked[c.req.asset] = [who |-> c.req.who, shares |-> c.use.shares]]}

\* Whether an entry left without shares keeps its slot is the puzzle's choice.
AfterUnstake(c) ==
    LET rest == Entry(c).shares - Seen(c)
        slots == {WithShares(c, rest)}
                 \cup (IF rest = 0 THEN {c.snap.entries \ {Entry(c)}} ELSE {})
    IN  {[c.snap EXCEPT !.entries = es,
                        !.locked = [a \in Assets |-> IF a \in c.use.assets THEN Unlocked ELSE @[a]]] :
            es \in IF rest < 0 THEN {} ELSE slots}

AfterRefresh_addsWeight(c) ==
    {[c.snap EXCEPT !.entries = WithShares(c, Entry(c).shares + Reread(c)),
                    !.locked = [a \in Assets |-> IF a \in c.use.assets
                                  THEN [@[a] EXCEPT !.shares = merkle_proof_for_nft(c.req, a)] ELSE @[a]]]}

AfterRefresh(c) ==
    LET shares == Entry(c).shares + Reread(c) - Seen(c)
    IN  {[c.snap EXCEPT !.entries = WithShares(c, shares),
                        !.locked = [a \in Assets |-> IF a \in c.use.assets
                                      THEN [@[a] EXCEPT !.shares = merkle_proof_for_nft(c.req, a)] ELSE @[a]]] :
            x \in IF shares < 0 THEN {} ELSE {0}}

AfterEntryUpdate(c) ==
    {[c.snap EXCEPT !.entries =
        IF c.req.cmd = "add_entry"
        THEN @ \cup {[who |-> c.req.who, shares |-> Listed[1][c.req.asset], id |-> c.t]}
        ELSE @ \ {Entry(c)}]}

\* Committing to a later epoch makes the slots in between; the slot found must
\* be the newest one of the state the bundle is built on.
AfterCommit(c) ==
    LET epoch == (CHOOSE x \in c.use.commit : TRUE).epoch
        coins == {x.who : x \in c.use.commit} \cap Deposits
    IN  {[c.snap EXCEPT !.top = Max({@, epoch}), !.commits = @ \cup c.use.commit,
                        !.deposits = @ \ coins] :
            x \in IF /\ c.use.slot = Max(find_reward_slot(c.snap, epoch))
                     /\ coins \subseteq c.snap.deposits
                  THEN {0} ELSE {}}

AfterClawback(c) ==
    {[c.snap EXCEPT !.commits = @ \ c.use.commit] :
        x \in IF c.use.commit \subseteq c.snap.commits THEN {0} ELSE {}}

AfterNewEpoch(c) ==
    {[c.snap EXCEPT !.end = @ + EpochLen, !.top = Max({@, c.snap.end})]}

Effect(c) ==
    IF ~ HasEntry(c) \/ \E a \in c.use.assets : c.snap.locked[a] # c.seen[a] THEN {}
    ELSE CASE c.req.cmd = "stake" -> AfterStake(c)
           [] c.req.cmd = "unstake" -> AfterUnstake(c)
           [] c.req.cmd = "refresh" -> AfterRefresh(c)
           [] c.req.cmd \in EntryUpdates -> AfterEntryUpdate(c)
           [] c.req.cmd \in {"commit_rewards", "commit_available"} -> AfterCommit(c)
           [] c.req.cmd = "clawback" -> AfterClawback(c)
           [] c.req.cmd = "new_epoch" -> AfterNewEpoch(c)
           [] OTHER -> {c.snap}

\* The actions that use an entry's shares are valid only shortly after a sync.
Until(c) ==
    IF c.req.cmd \in Staking \cup EntryUpdates THEN c.sync + MaxOffset ELSE MaxTime

Bundle_alone(c) ==
    {[base |-> c.base, after |-> [d EXCEPT !.last = c.sync], txs |-> {c.t}, coins |-> c.use.coins,
      until |-> Until(c)] : d \in Effect(c)}

\* The bundle of a command: the pending one it was built on, and its own.
Bundle(c) ==
    {[base  |-> c.base,
      after |-> [d EXCEPT !.last = c.sync],
      txs   |-> c.item.txs \cup {c.t},
      coins |-> (IF c.item = NoItem THEN {} ELSE c.item.coins) \cup c.use.coins,
      until |-> IF c.item = NoItem THEN Until(c) ELSE Min({c.item.until, Until(c)})] :
        d \in Effect(c)}

\* The data store or the vault would be spent twice in one bundle.
SpendsTwice(c) ==
    c.item # NoItem /\ \E x \in c.item.coins, y \in c.use.coins : x[1] = y[1]

Current(coins) == \A x \in coins : chain.coin[x[1]] = x[2]

\* A node takes a bundle of unspent coins that conflicts with nothing but the
\* item it contains.
Acceptable(c, b) ==
    /\ chain.n = b.base /\ pool.txs \in {{}, c.item.txs}
    /\ ~ SpendsTwice(c) /\ Current(b.coins)
    /\ store # NoItem => \A x \in b.coins : x[1] # "store"
    /\ c.sync <= now /\ now <= b.until

-----------------------------------------------------------------------------
\* The commands.

Init ==
    /\ work \in Workloads /\ chain = (IF work.opened THEN Opened ELSE Unlaunched) /\ now = First
    /\ pool = NoItem /\ store = NoItem /\ cached = FALSE
    /\ cmd = [p \in Procs |-> Idle] /\ started = 0 /\ lost = {} /\ raced = {}

environment == <<work, chain, now, store>>

\* The configuration is saved before the launch is pushed, accepted or not.
Launch(p) ==
    /\ cmd[p] = Idle /\ chain.n = Unlaunched.n
    /\ cached' = TRUE /\ chain' \in {chain, [chain EXCEPT !.n = Launched.n]}
    /\ UNCHANGED <<work, now, store, pool, cmd, started, lost, raced>>

\* sync_distributor, the latest timestamp and the checks.
Begin(p, r) ==
    /\ cmd[p] = Idle /\ chain.n # Unlaunched.n /\ started < MaxCommands /\ r.cmd # "datastore_update"
    /\ LET s == sync_distributor
       IN  IF Admitted(r, s.state)
           THEN /\ started' = started + 1
                /\ cmd' = [cmd EXCEPT ![p] =
                     [pc |-> "find", t |-> started', req |-> r, base |-> s.base, snap |-> s.state,
                      item |-> s.item, sync |-> SyncTime(r, s.state)]]
           ELSE UNCHANGED <<started, cmd>>
    /\ cached' = (cached \/ r.cmd \notin EntryUpdates)
    /\ UNCHANGED <<pool, lost, raced, environment>>

\* The slots and assets; the command fails if they are not there.
Look(p) ==
    /\ cmd[p].pc = "find"
    /\ LET c == cmd[p] IN
         \/ /\ Endless(c.req, c.snap)
            /\ cmd' = [cmd EXCEPT ![p].pc = "searching"]
         \/ /\ ~ Endless(c.req, c.snap)
            /\ \E u \in Found(c.req, c.snap) :
                 cmd' = [cmd EXCEPT ![p] = [pc |-> "push", t |-> c.t, req |-> c.req, base |-> c.base,
                           snap |-> c.snap, item |-> c.item, sync |-> c.sync, use |-> u,
                           seen |-> chain.locked]]
         \/ /\ ~ Endless(c.req, c.snap) /\ Found(c.req, c.snap) = {}
            /\ cmd' = [cmd EXCEPT ![p] = Idle]
    /\ UNCHANGED <<pool, cached, started, lost, raced, environment>>

\* push_tx accepts the bundle, and the command waits for its security coin.
Push(p) ==
    /\ cmd[p].pc = "push"
    /\ LET c == cmd[p] IN
         /\ \E b \in Bundle(c) : Acceptable(c, b) /\ pool' = b
         /\ lost' = lost \ pool'.txs
         /\ raced' = IF /\ c.req.cmd = "stake" /\ Entries(chain, c.req.who) = {}
                       /\ Entries(c.snap, c.req.who) # {}
                     THEN raced \cup {c.req.who} ELSE raced
         /\ cmd' = [cmd EXCEPT ![p] = [pc |-> "wait", t |-> c.t]]
    /\ UNCHANGED <<cached, started, environment>>

Rejected_waits(p) ==
    /\ cmd[p].pc = "push" /\ cmd' = [cmd EXCEPT ![p] = [pc |-> "wait", t |-> @.t]]
    /\ UNCHANGED <<pool, cached, started, lost, raced, environment>>

\* push_tx answers with an error: the command ends.
Rejected(p) ==
    /\ cmd[p].pc = "push" /\ cmd' = [cmd EXCEPT ![p] = Idle]
    /\ UNCHANGED <<pool, cached, started, lost, raced, environment>>

\* wait_for_coin polls until the security coin is spent.
Confirm(p) ==
    /\ cmd[p].pc = "wait" /\ cmd[p].t \in chain.done
    /\ cmd' = [cmd EXCEPT ![p] = Idle]
    /\ UNCHANGED <<pool, cached, started, lost, raced, environment>>

\* datastore_update: the old CSV must be the published one; no NFT of it is
\* left out by the new one.
UpdateStore(p, r) ==
    /\ cmd[p] = Idle /\ started < MaxCommands /\ r.cmd = "datastore_update"
    /\ kind = "curated" /\ load_csv_matching_root(r) /\ r.csv + 1 \in DOMAIN Listed
    /\ validate_update_csvs(r.csv, r.csv + 1)
    /\ started' = started + 1
    /\ cmd' = [cmd EXCEPT ![p] = [pc |-> "publish", t |-> started', req |-> r,
                                  coin |-> sync_datastore.coin]]
    /\ UNCHANGED <<pool, cached, lost, raced, environment>>

PublishStore(p) ==
    /\ cmd[p].pc = "publish"
    /\ IF /\ cmd[p].coin = chain.coin["store"] /\ store = NoItem
          /\ pool = NoItem \/ \A x \in pool.coins : x[1] # "store"
       THEN /\ store' = [txs |-> {cmd[p].t}, root |-> cmd[p].req.csv + 1]
            /\ cmd' = [cmd EXCEPT ![p] = [pc |-> "wait", t |-> @.t]]
       ELSE cmd' = [cmd EXCEPT ![p] = Idle] /\ UNCHANGED store
    /\ UNCHANGED <<work, chain, now, pool, cached, started, lost, raced>>

-----------------------------------------------------------------------------
\* The network.

Spent(coin, coins) == [x \in DOMAIN coin |-> coin[x] + Cardinality({y \in coins : y[1] = x})]

Include ==
    /\ pool # NoItem
    /\ chain' = [pool.after EXCEPT !.n = chain.n + 1, !.done = chain.done \cup pool.txs,
                                   !.root = chain.root, !.coin = Spent(chain.coin, pool.coins)]
    /\ pool' = NoItem
    /\ UNCHANGED <<work, store, now, cached, cmd, started, lost, raced>>

IncludeStore ==
    /\ store # NoItem
    /\ chain' = [chain EXCEPT !.root = store.root, !.coin["store"] = @ + 1,
                              !.done = @ \cup store.txs]
    /\ store' = NoItem
    /\ UNCHANGED <<work, pool, now, cached, cmd, started, lost, raced>>

\* An item leaves the mempool when it cannot be included any more, or when
\* there is no room for it.
Drop ==
    /\ pool # NoItem /\ pool' = NoItem /\ lost' = lost \cup pool.txs
    /\ UNCHANGED <<work, chain, store, now, cached, cmd, started, raced>>

Tick ==
    /\ now < MaxTime /\ now' = now + 1
    /\ LET expired == pool # NoItem /\ now' > pool.until
       IN  /\ pool' = IF expired THEN NoItem ELSE pool
           /\ lost' = IF expired THEN lost \cup pool.txs ELSE lost
    /\ UNCHANGED <<work, chain, store, cached, cmd, started, raced>>

Next ==
    \/ \E p \in Procs, r \in work.requests : Begin(p, r) \/ UpdateStore(p, r)
    \/ \E p \in Procs : Launch(p) \/ Look(p) \/ Push(p) \/ Rejected(p) \/ Confirm(p) \/ PublishStore(p)
    \/ Include \/ IncludeStore \/ Drop \/ Tick

Spec == Init /\ [][Next]_vars

\* Blocks are made as long as the mempool has something to include, and a
\* process that waits keeps polling.
FairSpec ==
    /\ Spec /\ WF_vars(Include) /\ WF_vars(IncludeStore)
    /\ \A p \in Procs : WF_vars(Confirm(p))

-----------------------------------------------------------------------------
\* Properties.

Tickets == 1 .. MaxCommands

\* The state is well formed; time never runs past an epoch that is not over.
TypeOK ==
    /\ work \in Workloads /\ now \in First .. MaxTime /\ cached \in BOOLEAN
    /\ started \in 0 .. MaxCommands /\ lost \subseteq Tickets /\ raced \subseteq Holders
    /\ chain.n \in Int /\ First <= chain.last /\ chain.last <= chain.end /\ chain.last <= now
    /\ \A e \in chain.entries : e.who \in Holders /\ e.shares \in Nat /\ e.id \in Tickets
    /\ \A a \in Assets : chain.locked[a].who \in Holders \cup {Nobody} /\ chain.locked[a].shares \in Nat
    /\ chain.root \in DOMAIN Listed /\ chain.done \subseteq Tickets
    /\ pool.txs \subseteq Tickets /\ store.txs \subseteq Tickets
    /\ \A p \in Procs : cmd[p].pc \in {"idle", "find", "searching", "push", "publish", "wait"}

SharesOf(d, w) == MapThenSumSet(LAMBDA e : e.shares, Entries(d, w))
LockedBy(d, w) == MapThenSumSet(LAMBDA a : d.locked[a].shares, Locks(d, w))

\* However stakes, unstakes and refreshes of several processes overlap in the
\* mempool, a holder's entries have exactly the shares of the assets locked
\* for it, so that rewards are paid for what is staked and for nothing else.
SharesMatchLocks ==
    kind # "managed" => \A w \in Holders : SharesOf(chain, w) = LockedBy(chain, w)

\* What a holder has locked for shares can be taken back with the commands: it has an
\* entry large enough to unstake the asset from, and unstake finds the asset
\* with that entry.  The exception is a stake on top of the holder's own
\* pending stake: the entry it makes is not visible yet, so a second entry
\* splits the shares.
RecoverableUnlessRaced ==
    kind # "managed" =>
        \A a \in Assets : LET l == chain.locked[a] IN
            l.who \in Holders \ raced /\ l.shares > 0 =>
                \E e \in Entries(chain, l.who) : e.shares >= l.shares /\ a \in find_locked(l.who, e)

\* A curated NFT enters, or is refreshed to, the weight the published
\* whitelist gives it in that very block, although the command read the
\* whitelist long before and the data store may be updated meanwhile.
StakedAtListedWeight ==
    [][\A a \in Assets :
         kind = "curated" /\ chain'.locked[a] # chain.locked[a] /\ chain'.locked[a].who # Nobody
            => chain'.locked[a].shares = Listed[chain.root][a]]_vars

\* A bundle pushed on top of a pending one never takes the other command's
\* place: what was accepted stays until it is included, expires or is evicted.
PendingKept ==
    [][pool.txs \subseteq pool'.txs \cup chain'.done \cup lost']_vars

\* The search for a reward slot goes on for ever only if the user gave an
\* epoch before the first one or off the grid.
SearchEnds ==
    \A p \in Procs : cmd[p].pc = "searching" =>
        /\ cmd[p].req.cmd = "commit_rewards"
        /\ cmd[p].req.epoch < First \/ (cmd[p].req.epoch - First) % EpochLen # 0

\* A command whose bundle was accepted ends, unless the bundle leaves the
\* mempool: then it waits for a coin that nobody creates.
AcceptedCompletes ==
    \A p \in Procs : cmd[p].pc = "wait" ~> (cmd[p].pc = "idle" \/ cmd[p].t \in lost)

=============================================================================
