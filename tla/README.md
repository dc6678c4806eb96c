# TLA+ verification of slot-machine

slot-machine is the command line and the puzzles of three Chia dApps built on
slots and the action layer: CATalog (one NFT per CAT), XCHandles (names leased
to NFTs) and the Reward Distributor. This directory holds TLA+ models of its
core, the TLC runs that check them on small instances, and proofs of the most
important properties for every instance.

Paths below are relative to the repository.

## 1. Inventory

### Parts, state and operations

| Part | Code | State | Operations |
|---|---|---|---|
| XCHandles registry | `rue-puzzles/actions/xchandles`, `actions/shared` | handle slots (a sorted doubly linked list), update slots, pricing state, precommit coins, owner singletons | register, expire, extend, initiate_update, execute_update, oracle, refund, delegated_state |
| CATalog registry | `rue-puzzles/actions/catalog` | asset slots (the same list), price and CAT, precommit coins, minted NFTs | register, refund, delegated_state |
| Action layer | `rue-puzzles/singleton`, `rue-puzzles/slot.rue` | the registry coin; slot coins | run several actions in one spend, finalize, spend and create slots |
| Prices | `rue-puzzles/default_puzzles` | none | factor pricing, exponential premium, CAT makers |
| Local database | `src/cli/database.rs` | `data.db`: slots, indexed values, singleton coins, configurations, listener projections | single SQL statements, no transactions |
| Registry sync | `src/cli/{xchandles,catalog}/sync.rs` | none of its own | walk the registry's coins from the saved tip or the launcher and write the database |
| XCHandles listener | `src/cli/xchandles/listen.rs`, `listener/` | followed singletons with history, handle, registration and pending projections, 32 remembered peaks, freshness | handle a peak, detect a fork, roll back, follow blocks, project action logs, serve HTTP |
| CATalog listener | `src/cli/catalog/listen.rs` | the database | resync on a peak, clear the cache, serve neighbours |
| Client commands | `src/cli/xchandles/*.rs`, `src/cli/catalog/*.rs` | the database, the wallet | precommit, register, expire, extend, update, refund |
| Launch and verification | `*_launch.rs`, `verify_deployment.rs`, `continue-launch-loop.py` | the premine CSV, the chain | resumable premine, check of a deployment |
| Reward distributor commands | `src/cli/reward_distributor` | a configuration row; the distributor, its slots and locked assets on the chain | stake, unstake, refresh, entries, epochs, commitments, clawback, payout, sync |
| Multisig commands | `src/cli/multisig`, the registries' `*_state_update.rs` and `unroll_state_scheduler.rs` | the price singleton: a state scheduler, then a vault | sign, broadcast, re-key, unroll the schedule |
| Data store commands | `src/cli/datastore` | a DataStore singleton (a whitelist's root) | launch, update, view |

### How the parts interact

Users and the registries meet through coins: a user creates a precommit coin,
waits until it is mature, and a registry spend consumes it together with the
slots it reads. The price singleton installs a new state through the
delegated-state action. Owner singletons approve with messages from their
current coin. The commands and the listeners read the chain through an RPC
service that answers one call at a time (so the chain may move between two
calls) and share `data.db`. The listener is driven by `peak` messages of a web
socket; it may miss peaks, lose the connection and start again. The HTTP
handlers read what the listener wrote. The price singleton (a scheduler, later a
vault) and a registry or a managed distributor are spent in one bundle. Curated
distributors read the whitelist of a data store in the same block.

### What is hard here

* **Uniqueness from local checks.** Register looks at two slots; that the name
  is free is a property of the whole list, and all actions of one spend are
  settled at once.
* **Commitments that age.** A precommit is made against one state and used
  against another; rivals, expirations and price changes come in between.
* **Two-step transfers** that race with extensions, expirations, take-overs and
  the owner's own spends.
* **Crashes between SQL statements,** replays over a half-filled database, and
  two processes on one file.
* **Forks.** Detection from a bounded in-memory window, undo from a pruned
  history, missing records, skipped peaks, reconnects; four projections, counts
  and a saved walk position that are undone by different rules or not at all.
* **Commands in two runs.** Registering takes a payment and, many blocks later, a
  second run that finds it again only by computing the same puzzle hash; users
  stop, repeat and race these runs.
* **Building on the mempool.** A distributor command builds on the bundle that is
  pending and replaces it; the slots it uses are confirmed ones.
* **Signatures passed around by hand,** for a vault that moves.

`PROJECT.json` lists these as hazards, each at its line, with the properties
that watch it or the reason why none does yet.

## 2. Modules

| Module | Models | Source |
|---|---|---|
| `SlotList` | slot values, splicing, the list invariant | `register.rue`, `oracle.rue`, `slot.rue` |
| `XchandlesRegistry` | the XCHandles registry, precommits, owner coins, clock | `actions/xchandles/*.rue`, `delegated_state.rue`, `precommit.rue` |
| `HandleLease` | what XCHandles promises (abstract) | - |
| `CatalogRegistry` | the CATalog registry, precommits, NFTs | `actions/catalog/*.rue`, `delegated_state.rue`, `precommit.rue` |
| `UniqueRegistry` | what CATalog promises (abstract) | - |
| `SpendBundle` | several actions in one spend, any slot values | `action.rue`, `finalizer.rue`, `rue-puzzles/slot.rue` |
| `RegistrySync` | the walk over the registry and the database | `xchandles/sync.rs`, `catalog/sync.rs`, `database.rs` |
| `SingletonFollow` | a peak, a fork and a followed singleton, block by block | `listen.rs`, `listener/{index,store,discovery}.rs` |
| `ListenerIndex` | the listener's projections, reference counts and their rollback, with the walk that feeds them | `listen.rs`, `listener/{index,store,refs,handle_slot_store,registration_store,pending_store}.rs`, `xchandles/sync.rs` |
| `RegistrationClient` | the registration, extension and update commands | `xchandles/{register,expire,extend,initiate_update,execute_update}.rs`, `catalog/register.rs` |
| `Multisig` | signing, broadcasting, re-keying, unrolling | `multisig/*.rs`, `{xchandles,catalog}/*state*.rs`, `reward_distributor/*_entry_update.rs` |
| `RewardDistributor` | the distributor commands on chain and mempool | `reward_distributor/*.rs`, `datastore/*.rs` |
| `CommonLemmas` | lists of slots, least and greatest numbers, functions by recursion, sums over finite sets (lemmas) | - |
| `XchandlesProofs`, `ClientProofs`, `MultisigProofs`, `DistributorProofs`, `RegistrySyncProofs`, `SingletonFollowProofs` | proofs about the module of that name | - |
| `CatalogProofs` | proofs about `CatalogRegistry` and, in its second part, about `SpendBundle` | - |
| `MC*` | instances for TLC | - |

**XchandlesRegistry.** One step is one action. `slots` holds the values of the
unspent handle slots (key, neighbours, counter, expiration, owner, target),
`updates` the update slots, `offer` the status and birth height of each
precommit coin. What a coin commits to is the constant `Precommit`: the pricing
program, buy time, term, owner, and whether its amount is the price that
program returns (`exact`), is not (`other`), or the program fails (`raises`).
Coin ids of owner singletons are counted in `coin`; `signing` is the set of
singletons whose current coin the bundle under construction spends, so one coin
may approve several actions, and `EndSpend` replaces these coins by their
children. An absolute timelock compares with `now` and `height`, a relative one
with the birth height. `Update.at` is a history field used in one property.

**CatalogRegistry** has the same shape with fewer parts. An NFT is identified by
the precommit that paid for it.

**SpendBundle** drops the assumption, made by the two models above, that an
action reads slots that exist when it runs. Puzzles only emit conditions, and a
coin may be created and spent in one block, so an action may name *any* value;
a value read before it exists is a debt, and a spend with a debt is rejected.
`AcceptedIsSerial` says that an accepted spend is a serial execution, which is
what entitles the other modules to one action per step. Its constants and its
specification (`LowEnd`, `HighEnd`, `BundleSpec`, ...) have names of their own,
because one proof module extends both it and `CatalogRegistry`.

**RegistrySync.** A process is a queue of SQL statements. `Fetch` is the RPC
call that returns a coin record, `Write` executes one statement, `Advance` goes
to the child or ends the walk, `Crash` drops the queue (a kill, or an error that
leaves the function). `rows`, `index`, `coins` and `config` are the tables.
`chain` is the list of registry spends; `Grow` adds one at any moment. The
variable `use`, chosen at the start from the constant `Uses`, says which of the
two sync functions runs (`kind`), in which processes, and how often they may be
stopped.

**SingletonFollow.** The chain is a sequence of blocks, each with the spends of
one followed singleton; a header hash is the chain's prefix, so equal hashes
mean equal history. A connection goes through the sections of
`connect_websocket` in their order: `Walk` takes a block through `on_block`, as
the replay of the registries' spends and `catch_up_followed_nfts` do; `CatchUp`
ends when the current coin is unspent; `SeedCursor` reads the height to follow
from; `SeedRecord` or `SeedMiss` remembers its block, or no block at all. Then
come the peaks: `Peak` (`PeakMiss` if the service does not know its state),
`Check`, `Transition` (a registry's spend takes its block through `on_block`
first, any number of times and also above the peak that was read), `Synced`,
`Follow` and `Finish`. A missing record, a failing call and a failing `on_block`
are `CheckMiss`, `FollowMiss`, `FollowError` and `FollowFailed`; `Reconnect` ends
a connection anywhere. Between any two of these steps the chain may grow or
fork. `seen`, `skipped` and `trouble` are history variables the code does not
have. `trouble` is "rewind" after a lower peak, until the next one, and "lost"
from anything the code is known not to recover from until a catch-up has ended
with states that are an unbroken line of states of the chain (`Unbroken`); the
comment before `Tracks` lists the causes. Filtering and remembering are
functions by recursion over an index (`Keep`, `RememberAll`), which the provers
can unfold.

**ListenerIndex.** A block is one action of the registry, a spend of an owner
singleton, or nothing; `After(c)` is the state of registry and singletons on the
chain `c`. `index` holds, for every handle and launcher, a current entry and a
history (`slots`, `regs`, `pend`, `follow`) and the statistics; the operators
`push_*_replacement`, `rollback_*_to_before`, `bump_reference`, `drop_reference`,
`cleanup_finalized`, `project_*` carry the names of the code. `Connect` is the
walk at the start of a connection (`sync_xchandles_detailed`, which saves slots
and position before it returns), `Project` is one transition projected,
`CatchUp` the fallback to the saved slots and `catch_up_followed_nfts`, and
`Seed` reads the height to follow from and its record; blocks may come in
between.
`Peak` or `PeakReorg` (with the rollback) begins a peak, `Resync` is the walk
after a rollback whose transitions are not kept, `Process` the walk of
`process_spent_registry_records`, `Finish` follows the blocks and notes the
peak. `FinishPartly` misses one block: its record is missing, `on_block` fails
and the block counts all the same, or a call fails and the cursor stays; in each
case `note_peak` declares the index fresh. `WalkFails` is the walk from a saved coin this fork does not have; `Stop`
drops the walked transitions. Forks happen at any moment (`Reorg`). `late`
holds the launchers with a spend at or below the cursor that was not followed.
The calls within a peak for one singleton, block by block, a peak without a
record and registry spends above the peak are left to `SingletonFollow`.

**RegistrationClient.** `cmd[c]` is the run of client `c` between its awaits:
paying (`send_cat`), waiting for the payment (`wait_for_coin`) or for maturity
(`Matures`), pushing (`Push`, included at once or refused). `seen` is what it
read of the registry at its start. A coin is described by what its puzzle hash
and amount depend on: buyer, price, buy time and, for expire, the expiration of
the slot it was computed from; `precommit_coins` is the search by hint and
amount. `Tick` makes blocks of 0 to 2 units of time (a unit is 18 s), so blocks
may run ahead of the committed start time or lag behind it. Other users spend
the registry, change its price and take the name. Acceptance by the puzzles is
a condition on the push, in the terms of the registry modules.

**Multisig.** The coins of the price singleton are numbered: first the schedule's
states, then vaults. `sync_multisig_singleton`, `sync_registry`,
`quick_sync_*` are the reads; a command reads the price singleton, then the
receiver, then pushes, and the world moves in between. The vault is looked up
among all coins with the launcher's hint: `hinted` are those of others, each
either another vault or a coin whose parent's spend fails to parse, and
`sync_multisig_singleton` is the set of what may be found, since nothing is
known of the order of the answer (empty if the command can only end with an
error). A managed distributor has `entries`, and its epoch may be `over`;
`broadcast_entry_update` refuses an update then, and the removal of an entry
that is not there. A signature records the
key, the index and the message it signs, which is computed by
`delegated_puzzle` from coin and proposal. `pool` is the mempool with its
conflict rule (`Acceptable`: a bundle that contains the pending one replaces it).
`log` is the history of executed spends.

**RewardDistributor.** `Begin` syncs the distributor (chain plus pending bundle)
and checks what the command checks; `Look` reads slots and locked assets, from
confirmed coins; `Push` checks what the puzzles check and replaces the pending
bundle with one that contains it; `Confirm` is `wait_for_coin`. `UpdateStore`
and `PublishStore` republish the whitelist. `Include`, `Drop` and `Tick` are the
node. `lost` records bundles that left the mempool, `raced` the holders that
staked on top of their own pending stake.

## 3. Runs

Bounds are named in the `.cfg` files. Deadlock checking is off where the bounds
on counters, time or actions make a state without successor normal.

| Run | Instance | Checks |
|---|---|---|
| `xch_registry` | 2 handles, 4 precommits (two rivals, a later bid, a neighbour), 2 states, 3 seconds | `TypeOK`, `HandleList`, `StrandedOnlyByExpiry`, `RefundOnlyUnusable`, `PaidOnlyForFreeHandle`, `ImplementsLease` |
| `xch_updates` | 1 handle, 2 owners, 2 update slots, a take-over, oracle reads | `TransfersAreDelayed`, `ImplementsLease` |
| `catalog` | 3 assets, 5 precommits, 3 states | `TypeOK`, `AssetList`, `OneNftPerAsset`, `RegisterOrRefund`, `ImplementsUnique` |
| `spend_bundle` | 2 names, up to 3 actions per spend | `AcceptedIsSerial`, `ListBetweenSpends` |
| `sync` | either registry, 3 spends of 1-2 actions, one process stopped twice, or two processes on XCHandles; fairness | `SyncedRows`, `OneTip`, `NeighborsBracket`, `Converges` |
| `follow` | 4 blocks, two connections step by step, one fork up to 2 deep at any moment, a missing record or failing call, registry spends above the peak, two spends in one block | `Tracks`, `RollbackReady` |
| `index` | 2 neighbouring handles, 2 launchers, chains of up to 4 blocks of 6 kinds from two starts; one fork up to 2 deep, one stop, one missed record or failed follow, two of these three in a run | `ProjectionFollowsChain`, `FollowedWhileReferenced`, `NeverOvercounts`, `OfferedIsExecutable` |
| `client` | 2 clients, 7 jobs: rivals for a free name, a lapsing lease, CATalog with and without an amount, slow and fast blocks, an owner's updates | `OneOutstanding`, `Recoverable`, `ReadyWhenPushed` |
| `multisig` | 2 people, 3 keys, 6 jobs: a schedule of 2 states for either registry, competing proposals for a 2-of-2 vault, re-keying, entries of a distributor whose epochs end, a vault among other coins with its hint | `TypeOK`, `NoReplay`, `StateAsAgreed`, `SignedIsExecutable`, `UnrollCompletes` |
| `distributor` | 2 processes, 6 workloads over the 4 kinds of distributor, up to 5 commands | `TypeOK`, `SharesMatchLocks`, `RecoverableUnlessRaced`, `StakedAtListedWeight`, `PendingKept`, `SearchEnds`, `AcceptedCompletes` |
| `follow_gap` | 4 blocks | expected violation of `MissingAreRetried`, section 6 |
| `client_repeat` | 1 client, CATalog without an amount | expected violation of `SameCommandFinds`, section 6 |

Why these bounds are enough to see the interesting cases. CATalog has three
assets, the fewest with a registration between two registered neighbours;
XCHandles, whose slots carry more, has two, with the end slots as the other
neighbours (the same `Splice`, and the list is proved for any number). Two owners
suffice for a transfer, a take-over and a stale update. In the auction the clock
runs from before the first lease to its end and the bid after it, so both sides
of every `<` against an expiration are reached. Three actions per spend allow
a cycle of debts longer than a pair. Three spends and two crashes allow a
resumed walk, a walk from the launcher over a filled database, and a second
crash inside either. A window of 2 and 4 blocks, the first of them followed before the first
connection, push the oldest peak out of the
window and make `Prune` drop states; forks of 1 and 2 blocks leave from the tip,
from inside the window and from below it. In `index` the listener starts on a chain
where a handle was registered, or taken over, and up to two more blocks, and the
two a fork replaces, hold a second registration next to the first, a transfer in
two steps, a touch or an owner's spend; with a window and finality of two,
entries are pruned, launchers dropped and both brought back by the fork.
Stops, forks and misses are bounded separately (`MaxStops`, `MaxReorgs`,
`MaxMisses`) and together (`MaxFaults`). In `client` the
relative lock is one block, the lease three units, and each job has blocks for
two complete runs of each client, so that the second run comes too early, in
time and too late. In `multisig` the two scheduled states differ from the
initial one and the vault then goes back to the first, so a replay would be
visible; a bundle may be lost at any point. The distributor's vault adds an entry and removes
it, in either order, and the foreign vault has a key of the own one at another
index. In `distributor` two processes with
up to five commands stake, stake again and unstake while the other's bundle is
pending; epochs last two units of time. Every property of a passing run is
paired with a mutant of the code it rests on that makes it fail.

**Fairness.** In `sync`, for `Converges`: weak fairness of starting a walk and of
continuing one. The listeners run a walk again whenever their registry coin is
spent and reconnect after an error, and a command that failed is repeated by its
user. The number of crashes is bounded, so this is "the process is eventually
left alone for one walk". Nothing is assumed of the chain. In `multisig`, for
`UnrollCompletes`: the chain includes pending bundles and its clock advances,
people run the unroll command again, and a command continues (one that waits for
a lost bundle is stopped by its user, since it would wait for ever). The number
of lost bundles and of other users' spends is bounded. In `distributor`, for
`AcceptedCompletes`: pending bundles are included and a waiting command keeps
polling (`wait_for_coin` is a loop without a limit); evictions are not
restricted, which is why the property excepts them. `client`, `index` and
`follow` assume no fairness.

**What the properties mean.** `HandleList` and `AssetList`: one sorted list, one
slot per key, pointers mirrored, nothing hidden in a gap. `RefundOnlyUnusable`
and `RegisterOrRefund`: a commitment can be taken back exactly when it cannot be
honoured (for XCHandles only in one direction; a coin for a handle whose lease
has lapsed is in neither class until somebody takes the handle over,
`StrandedOnlyByExpiry`). `ImplementsLease`: whatever the coins do, a holder sees
claims, take-overs after the deadline, renewals and hand-overs.
`TransfersAreDelayed`: the hand-over of an active handle takes two spends of
consecutive owner coins more than `RelHeight` blocks apart. `SyncedRows`: after
a complete walk the unspent rows are the unspent slots, each with its true
parent. `NeighborsBracket`: the neighbours returned for a free key are accepted
by register. `Tracks` and `RollbackReady`: the followed state is canonical after
each peak, and the pruned history can undo any fork in the window.

`ProjectionFollowsChain`: a served slot is the registry's at the saved walk
position, except for handles with a transition the position has passed without
its being projected (`stale`); `FollowedWhileReferenced` and `NeverOvercounts`
are the two directions of the counts. `OfferedIsExecutable`: an offered transfer
can be executed although the record of pending updates keeps executed ones
after a rollback, because the coin of the initiator is compared; a spend of the
owner that has not been followed is excepted (`late`, and the blocks after a
failed follow until the next peak).
`OneOutstanding`, `Recoverable`: nobody pays twice, and a paid coin ends as the
name or as a refund by commands alone. Their exceptions are situations the runs
reach, listed in section 5. `NoReplay`, `StateAsAgreed`, `SignedIsExecutable`:
a signature has one effect, the state and the entries are what a quorum of the
keys in force or the schedule said, and a quorum's signatures suffice. `SharesMatchLocks`,
`RecoverableUnlessRaced`: shares are what is locked and what is locked can be
taken back. `PendingKept`: an accepted bundle is not displaced by another
command's.

## 4. Proofs

Checked with TLAPS for every set of keys, owners, precommits, people, assets and
workloads, and for every bound:

| Theorem | Says |
|---|---|
| `XchandlesTypeCorrect`, `CatalogTypeCorrect` | `Spec => []TypeOK` |
| `XchandlesList`, `CatalogList` | the slots are one sorted list (`HandleList`, `AssetList`) |
| `XchandlesPaidOnlyForFreeHandle` | a coin is paid only for a free handle |
| `XchandlesRefundOnlyUnusable` | a refunded coin was not usable |
| `XchandlesTransfersAreDelayed` | transfers are delayed and approved twice |
| `XchandlesStrandedOnlyByExpiry` | only a handle that has lapsed keeps a matured coin waiting |
| `XchandlesImplementsLease` | XchandlesRegistry implements HandleLease |
| `CatalogUnique` | one NFT per asset |
| `CatalogRegisterOrRefund` | a matured coin can be used or taken back at once |
| `CatalogImplementsUnique` | CatalogRegistry implements UniqueRegistry |
| `SpendAcceptedIsSerial`, `SpendListBetweenSpends` | `AcceptedIsSerial`, `ListBetweenSpends`, for any number of actions in a spend |
| `FollowTypeOK`, `FollowTracks`, `FollowRollbackReady` | `TypeOK`, `Tracks`, `RollbackReady`, for every window and any number of forks, misses and connections |
| `OneTipInTime` | `OneTip` for any number of processes, if none is late (`InTime`, below) |
| `OneTipBounded` | `OneTip` for one process, or for any number in `Keep + 2` spends |
| `SyncedRowsAlone`, `NeighborsBracketAlone` | `SyncedRows`, `NeighborsBracket` where at most one process uses a database |
| `ClientOneOutstanding`, `ClientRecoverable`, `ClientReadyWhenPushed` | `OneOutstanding`, `Recoverable`, `ReadyWhenPushed` |
| `MultisigTypeCorrect`, `MultisigNoReplay`, `MultisigStateAsAgreed`, `MultisigSignedIsExecutable` | `TypeOK`, `NoReplay`, `StateAsAgreed`, `SignedIsExecutable` |
| `DistributorTypeOK`, `DistributorSharesMatchLocks`, `DistributorRecoverable`, `DistributorSearchEnds` | `TypeOK`, `SharesMatchLocks`, `RecoverableUnlessRaced`, `SearchEnds` |
| `DistributorStakedAtListedWeight`, `DistributorPendingKept` | the action properties `StakedAtListedWeight`, `PendingKept` |

`FollowInvariant`, `ClientInvariant`, `MultisigInvariant` and
`DistributorInvariant` state the inductive invariants behind the rows of these
modules.

Assumptions, all named and evaluated by TLC in every run. In the registries
(`KeyAssumption`, `ParameterAssumption`) the end values are integers below and
above all keys, `Nobody` is no owner, leads and block times are positive, and
the constants have their types. `BundleAssumption` and `SyncAssumption` say the
same of the end values, the latter also what the sync is used for.
`FollowAssumption` says that a block holds spends, that the chain at the first
connection holds nothing after a melt, and that the window is not empty. `ClientAssumption`,
`MultisigAssumption` and `DistributorAssumption` say that a workload is one the program can be given:
prices, keys, owners and assets from their sets, configurations of a vault that
`IsConfig` accepts, times in reach, and for the distributor finitely many assets
and a whitelist that lists assets.

**The registries.** `CommonLemmas` shows that `ListInv` survives the two things
actions do to a list: re-creating a slot with the same key and pointers
(`ReplaceKeepsList`) and `Splice` between two slots that satisfy `Brackets`
(`SpliceKeepsList`); that `Brackets` on a list implies the key is not in it
(`BracketedIsFree`); and that around a key that is not in it a list always has
such a pair (`GapExists`: the slot with the least key above is one of the two,
its left neighbour the other). The second fact carries `PaidOnlyForFreeHandle`, `OneNftPerAsset`
and the refusal of a refund for a usable coin; the third carries
`StrandedOnlyByExpiry` and `RegisterOrRefund`. `HandleList` alone is not
inductive without types and `TransfersAreDelayed` needs to know something about
every update slot, so the XCHandles invariant is
`IInv = TypeOK /\ HandleList /\ UpdatesDelayed`, where `UpdatesDelayed` says that
each update slot's execution height lies more than `RelHeight` above the height
of its creation. For CATalog it is `TypeOK /\ AssetList /\ OneNftPerAsset`.

For the refinement of `HandleLease` the mapping picks the slot of a key with
CHOOSE. `LeaseFacts` replaces it by what a list with one slot per key makes of
it: the lease of a handle is the terms of its slot. Every registry action is
then one of three things (`LeaseSteps`): a splice, a slot re-created with other
terms, or no change of the slots, and each of them is a step of `HandleLease` or
a stutter.

**A spend of several actions.** The chain checks no order, so an action may read
what a later one writes; what has to be excluded is a set of actions that read
only each other's slots. `FromBase` follows a value backwards through the actions
that wrote it: it keeps its key, loses a count each time, and its right pointer
never gets nearer, and a new key comes from a slot further left, so the chain
ends in a slot that was there before the spend. Hence no action registers a key
that is in the list (`NotInBase`) and none writes a slot of the list again
(`BaseNotWritten`). Of the actions that read slots of the list one reads nothing
else (`Source`): the one that reads the rightmost slot used as a left neighbour,
or, if no slot is so used, the one that reads the leftmost slot. It can run first
and leaves a list (`RunOne`), and the rest is the same situation with one action
less, so the order exists by induction on their number. The invariant
`BundleInv` has only to keep account: the values in the pool and the debts are
those of the base and of the actions' writes that no action has read
(`Accounts`).

**The sync.** Of the chain the proofs need that every spend takes its values from
the unspent ones and leaves one list (`History`). So a value is made once, and
`SlotsOf(chain, c)` are the slots made before coin `c` and not spent before it
(`SlotsAre`).

*Coins* (`CoinInv`). A process marks the parent of a coin before it saves the
coin, so a saved tip is above every coin saved before (`Above`, `Alone`), and a
coin that was saved and spent recently still has its row (`Kept`). The exception
is a process that comes late: it has seen a coin unspent, and before it inserts
the row the registry is spent more than `Keep + 1` times and another process
clears the cache; the insertion then finds no row to conflict with and a second unspent
tip appears. With `Keep = 1` TLC finds this within four spends; the code keeps
128 blocks. `InTime` is the absence of it, a premise of `OneTipInTime` and a
consequence of the bounds in `OneTipBounded`.

*Rows* (`SyncInv`). After a crash the next walk starts at the tip, or at the
launcher if there is none, and the rows it finds are whatever the crash left.
The invariant says what they are good for at each point. `RowsMinted`: a row is
of a slot that existed, with its true parent. `AtOK`: at a coin at which a walk
may resume, no value spent up to that coin has an unspent row, and each slot of
the coin has one, unless the next spend spends it (a walk had begun to write
that). `SpendOK`: while the writes of a spend are queued, the queue turns the
rows into those of the next coin. `EndOK`: at the end they are the slots. The
order of statements is what makes it hold (`Sorted`): the XCHandles walk marks
after it has saved, and the CATalog walk marks through the index before it
indexes the successors.

*Index* (`IndexInv`). The neighbour queries look for the nearest indexed key, so
the index must have the last value of every key and no key that is not in the
list. A spend of two actions makes up to two values for a key, and both may be
indexed (`xchandles/sync.rs`): `Rising` says that the second has the higher
counter, `InOrder` that the queue keeps that order, and `EndsWith` that whatever
the index has now, once the queue is written it has the value the spend leaves.
`IndexAt`, `IndexSpend` and `IndexEnd` are the counterparts of `AtOK`, `SpendOK`
and `EndOK`: an interrupted walk may leave the index ahead of the saved tip, but
only by values of the next spend, which the next walk writes again. With
`IndexKnown` (only values of the chain are indexed) the indexed keys at the end
are those of the list, and `GapExists` and `NothingInGaps` make the nearest two
the pair that register wants (`NearestKeys`).

**The peak handler.** At rest (`Rest`) the listener holds what it had when it
followed some chain, the *old* chain, up to a height `at`: a window of that
chain's peaks from a height `lo` on, or none yet, and an unbroken line of its
states up to its end. The old chain is longer than `at` if a registry's spend
took a block above the peak. The line ends in `StateOn(old)`, so `Tracks` is that
the old chain is `seen`, and `RollbackReady` that an unbroken line which goes
back to below `lo` has, below any height of the window, a last state that is the
one there. To keep this, the invariant also says of the canonical chain that it
leaves the old one at `lo` or above, that it drops no block of the old chain
without one up to `at` (`Drops`: a peak remembered at or below `at` must change,
or the check sees nothing), and that its blocks which are not on the old chain
spend the singleton at most once. The check compares header hashes, which
determine the chain below, so the first remembered peak that differs is the
height of the fork: the rollback makes the shared part the old chain, with
a state restored from the history if the current one goes. A lower peak is a
rewind: it rolls back to a height of its own choice and the line is still one of
the old chain (`InRewind`); the next peak finds the fork. While blocks are
followed the line reaches up to a height `m`, which may be ahead of
the next block to follow and of the peak: a registry's spend takes one later
block before the others, and if that changed the state then none of the blocks in
between spends the singleton. Pruning drops states further below the block that is
followed than the window, except the last one of them, which is why a line goes
back to below `lo` or to below the start of the next window, and why the older
predecessor that `prune_history` keeps is needed; for a block two or more above
the peak that is not enough, which is an exception of the property. A connection
gets to rest when the catch-up ends with an unbroken line and no spend lies
between it and the height followed from, whatever came before; the window then
starts with that height, or empty.

**The client commands.** What a run computes depends on the slot and the price
at its start, and both move. The invariant says what a client's payments have
in common all the same (`GoodOffers`): every later run repeats the times the
first one chose, so all payments have one buy time and one expiration. Two of
them differ in the amount only, and only because the price or the expiration
moved in between (`PricedNow`, `OneConsistent`), which is when the properties'
exceptions apply. Leases only grow, so a payment computed from an earlier
expiration is one that the registry will refund. `GoodWaits` carries what a run
waits for to its push, as long as the registry was not spent; `Births` keeps
unconfirmed payments apart from coins.

**The vault.** A command acts on what it read some steps ago. A price coin's
number determines its phase and its keys for ever, because `log` only grows
(`ConfigAt`); whether that coin is still the current one is decided when the
bundle is pushed and again whenever the mempool resolves a conflict (`PoolOK`:
every pending spend is one of the current coin, signed by enough of its keys).
So every entry of the log was scheduled or signed for its own coin (`LogOK`),
which is `StateAsAgreed`; a signature names the coin, which is `NoReplay`; and
`SignedIsExecutable` is that the index a signer computed and the index the
broadcast looks up are the same position of the same list (`SigsOK`). What a
command or a signer takes from another launcher's vault (`ForeignPrice`) carries
that vault's coin: it is never a valid spend of this one, and no signature given
while no other coin carried the hint is for it (`alone`).

**The distributor.** A command is put together from a snapshot, which may be the
pending bundle's state, and from slots it reads later among confirmed coins. The
invariant describes all ledgers at once, the confirmed one, the pending one and
those in snapshots: each is balanced and has its epochs on the grid (`ChainOK`,
`PoolOK`, `CmdOK`), a slot's number says whose slot it is in all of them
(`Owned`, with the owners as an existential), the number of the slot a command
would make is in none of them (`Fresh`), and a holder that did not race has at
most one entry in each (`OneEntry`). A bundle's effect on a snapshot is then an
effect on the right holder, with the sum of what the entry gains equal to the
sum of what is locked. `Weighed` says that an asset's weight was read through a
coin of the data store which the bundle spends as well, so that it is the
published weight whenever the bundle can be confirmed. Sums in the model are
folds; `CommonLemmas` proves from the equation of the fold's recursion, by
induction on the size of a set as a least counterexample, that they are sums
(`SumRemove`, `SumAdd`, `SumSplit`, `SumBounds`).

The invariants were checked by TLC on the instances of the runs before they were
proved. Each proof that a step preserves one has a lemma per action.

Only model-checked: all liveness (fairness and ENABLED are outside the prover);
of `RegistrySync`, `SyncedRows` and `NeighborsBracket` with two processes; and
the four invariants of `ListenerIndex`, whose state is a registry, several
singletons, their projections and a walk at once.

## 5. What the runs showed

What holds only with an exception is named in the property. The exceptions are
situations the runs reach, and the property fails without them; one is not
reached within the bounds, the overflow of the feed of 50 events (`EventsMax` is
never filled in `index`), so `NeverOvercounts` says nothing of it.

**Sync.** With one process, `SyncedRows` holds however often a walk is
interrupted: a stop after a spent coin is saved leaves no unspent row, and the
next walk starts from the launcher and repeats every statement. With two
processes it holds for XCHandles as long as neither walk is interrupted. Two
variants that are not among the runs fail: two processes of which one stops part
way (the rows it revived stay unspent, because the other's tip lets the next
walk resume past them), and two CATalog walks at once (rows are marked through
the index, which the other walk has moved on). The repository does not claim
either use.

**Listener.** The saved walk position is a coin, and a coin's id does not depend
on what its parent's spend did. After a fork the walk therefore resumes past
spends that replaced those it had walked (`lost`, `stale`; the gap is also
described in `docs/research/xchandles-listen-production-reliability.md:36`). On
a fork with fewer registry spends the walk fails, and so does every connection
until the chain has as many again (`WalkFails`). The slots table is not rolled
back, so the fallback of a restart may bring back slots of an abandoned fork.
It records them at height 0, so that no later rollback undoes even one that was
right (`Restored`). That takes a second fork: `Index.cfg` with `MaxReorgs = 2`
and `MaxHeight = 3`, or with `MaxReorgs = 2` and no stop, finishes without an
error and is left out of the runs for its length. A lower peak returns a height
above the fork (`listen.rs:1029`: "First height that is no longer canonical, for
`indexer.rollback`"). A launcher that owns two neighbouring handles is counted
once (`refs.rs:66`; `store.rs:69` speaks of the "Number of canonical Handle
slots currently referencing this launcher"), so the removal of either reference
may end its following (`shared`). The cursor is seeded with a height read after the catch-up. The comment there
(`listen.rs:785`) says that "catch-up above already walked spent coins"; a spend
in a block between the two is behind the cursor and not followed until the next
connection, for a singleton already followed as for one the registries' spends
make known later (`late`; in `SingletonFollow`, `SeedCursor`). If the record of
that height is missing, no peak is remembered and a fork before the next one
passes unnoticed. A registry's spend is taken at its own height, which may be
above the peak that was read. `on_block` stops at the first record it cannot
follow, and the block counts as followed; after a failed call the cursor stays,
but `note_peak` declares the index fresh all the same, so that a spent owner coin
may be offered until the next peak (`FinishPartly`). The feed of 50 events
bounds what a rollback can undo of the count. Two spends of a singleton in one
block leave it at the intermediate coin (`store.rs:65`: "Current canonical state
when Active") until the next connection. The catch-up has no end while a followed
coin is spent by something that `on_block` cannot follow: it logs the error and
looks at the same coin again (`listen.rs:643`).

**Clients.** A run reads the registry before it waits for maturity, so its push is
refused whenever somebody used the registry meanwhile, and is repeated without
loss. A run stopped while its payment is not in a block and repeated pays twice;
both coins are recoverable (`unaware`). A precommit for a lapsed name is
stranded until somebody takes the name (`Stranded`). A take-over whose own new
lease has lapsed by the committed time makes expire compute another amount than
was paid, so it pays again or does not find the coin. An update is lost if its
owner NFT is spent for anything else between the two commands.

**Multisig.** Quick sync asks the mempool for spends of the coin whose spend
created the registry, which is spent already; it never sees a pending bundle,
and the command is refused until that bundle is in a block. Any spend of the
vault makes outstanding signatures useless, which is what `NoReplay` and
`StateAsAgreed` rest on. Any coin may carry the launcher's hint: the commands take
the first one whose parent's spend parses as a vault for the price singleton
(`sync.rs:186`), and end if one before it fails to parse. Then a signer signs for
another vault, or a broadcast is refused, until that coin is spent; nothing
wrong is executed (`StateAsAgreed` holds in these states, too). A quorum's
signatures for a distributor wait for a new epoch, and are void if the entry to
be removed is not there. A vault launched with more signatures required than keys
could never be spent: only the rekey commands compare the two.

**Reward distributor.** A stake built on the holder's own pending stake does not
see the entry that makes and creates a second one; the locked assets are then
worth more than either entry, and unstake may fail for them
(`RecoverableUnlessRaced`). `find_reward_slot` searches downwards without end for
an epoch off the grid. A command whose bundle is evicted waits for ever.

**Small observations** made while reading, outside the models: the launch of a
distributor saves its configuration before the bundle is pushed
(`launch.rs:127`); `locked_cats[0]` panics for a holder with nothing locked
(`unstake.rs:105`), as does a signature's index outside the list of keys
(`broadcast_thing.rs:56`); the mempool branch of the data store's sync compares
with a spent coin and never matches (`datastore/sync.rs:54`);
`peak.height - 128` of the CATalog listener is unsigned (`catalog/listen.rs:237`);
`/neighbors` is served without the
freshness gate of the other routes (`listen.rs:248`); the asset id minus one
borrows past zero bytes without setting them (`catalog/register.rs:327`).

## 6. Findings

* `follow_gap`: "Missing records are skipped so the next peak can retry them."
  (`src/cli/xchandles/listen.rs:411`). A missing record followed by a present
  one is passed by the cursor and not retried.
* `client_repeat`: "To spend the precommitment coin, run the same command again"
  (`src/cli/catalog/register.rs:466`). Without `--payment-cat-amount` the amount
  looked for is the registry's price of the moment: after a price change the
  same command does not find the coin and offers to pay again. With the amount
  given it is found, which is why `Recoverable` excepts only the command
  without it.

## 7. Not modelled

See `components` in `PROJECT.json`. In short: currying, tree hashes and merkle
proofs (a slot value is its hash); RPC transport, web sockets and the wallet;
HTTP formats; CSV and argument parsing; the Chialisp twins of the Rue puzzles;
the reward distributor's and the vault's puzzles, which live in another
repository and appear as what the commands here rely on; amounts of reward; of
the distributor commands the time a user may give `sync`, the curated type that
cannot be refreshed, and answers of `push_tx` other than success and error. Not
yet modelled: launch and verification of a deployment, the arithmetic of the
default prices, the freshness gate of the HTTP routes (of which `blocked` in
`ListenerIndex` keeps the two flags).

## 8. Plan

Done: the registries with their abstract specifications and proofs, both
refinements included; `RegistrySync`; `ListenerIndex`; `SpendBundle`,
`SingletonFollow`, `RegistrationClient`, `Multisig` and `RewardDistributor` with
proofs of every safety property their passing runs check; of `RegistrySync` the
proofs of `OneTip` and, for one process, `SyncedRows` and `NeighborsBracket`.

What a continuation would take up:

1. `RegistrySync`: `SyncedRows` and `NeighborsBracket` for two XCHandles walks
   without crashes, where a statement of one walk may repeat what the other
   wrote some coins ago.
2. `ListenerIndex`: `NeverOvercounts` first; its follow records rest on what
   `SingletonFollowProofs` shows of one singleton.
3. The resumable launch and `verify_deployment`; the default prices against a
   reference definition; the freshness gate.
