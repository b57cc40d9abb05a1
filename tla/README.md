# A verification of Shardus core

TLA+ modules that model the protocols of `shardus-core`, the TLC configurations that
check them on small networks, and proofs, checked by TLAPS, of theorems about them.
Paths below are relative to `src/src/` unless they start with `docs/`.

## The system

A Shardus network is a set of validators that agree, once per *cycle* of about a
minute, on a *cycle record*. The record holds everything the network agrees on: who
joined, became active, left or was lost, the mode of the network, network transactions.
Every validator digests the same records in the same order, so all validators derive
the same node list and the same queues from them. A cycle has four quarters: in Q1 and
Q2 the modules of `p2p/` gossip what they want in the record, in Q3 each active node
makes a record of what it received and votes for it with a certificate, and in Q4 the
nodes compare their best certificates. At the end of the cycle each digests the record
with the best ones. On top of this, `state-manager/` executes the application's sharded
transactions.

### Components

| Component (files) | State | Operations | Properties that make it correct | Modelled |
|---|---|---|---|---|
| Cycle creation (`p2p/CycleCreator.ts`, `p2p/Utils.ts`) | current cycle and quarter, best record, marker, certificates and scores, timers, fetch failures, cached certificates | `runQ1`..`runQ4`, `cycleCreator`, gossip and compare handlers, `fetchLatestRecord` | all nodes digest the same record; the best record is the best; a node votes once; a node that falls behind catches up or leaves | `CycleCert`, `CertTable` |
| Cycle chain and parsing (`CycleChain.ts`, `CycleParser.ts`) | the records digested so far | append, prepend, validate, parse, squash | the chain has no gap and is hash-linked | `CycleRecord`, `CycleLedger` |
| Sync of the chain (`Sync.ts`, `SyncV2/`) | none of its own | `syncNewCycles`, `digestCycle`, first sync from archivers | no gap or repetition while the peer goes on | `CycleCert` (not the first sync) |
| Network transactions (`ServiceQueue.ts`) | the sorted list, the additions and removals of the cycle, proposals, the walk's index | add, remove, gossip, `updateRecord`, `parseRecord`, `processNetworkTransactions` | all nodes hold the list the record's hash names; subqueues are executed in order; nothing leaves unexecuted | `ServiceQueue` |
| Lost nodes, apoptosis (`Lost.ts`, `Apoptosis.ts`) | reports made, checked and received, up/down caches, refutation due, proposals | report, check, gossip down/up, `getTxs`, `updateRecord`, `parseRecord`, `reset` | a node that works is never removed; one that does not is; a proposal to leave is acted on | `LostDetection` |
| Node list (`NodeList.ts`) | lists of nodes by id, key, state and time | add, update, remove | a node is in exactly one list of states | `Membership` |
| Joining (`Join/`) | standby map, queued requests, selected keys | join, unjoin, refresh, selection, sync started and finished | all validators make the same record; standby and node list are disjoint; whoever leaves or is late is dropped, whoever stays too long when its turn comes, and nobody else | `Membership` |
| Activation, rotation, refresh (`Active.ts`, `Rotation.ts`, `Refresh.ts`) | requests, sync times, nodes picked for removal | active request, expiry | never more removed than allowed; ready nodes become active in order | activation in `Membership`, how many in `NetworkMode` |
| Modes and scaling (`Modes.ts`, `ModeSystemFuncs.ts`, `CycleAutoScale.ts`, `SafetyMode.ts`) | mode, desired and target count, votes | mode transitions, add/remove counts | the network comes back to processing; rotation never takes it below | `NetworkMode` |
| Set-global receipts (`GlobalAccounts.ts`) | receipts, trackers, promises | `setGlobal`, `makeReceipt`, `processReceipt`, cleanup | put once for each state its callers expect, on all nodes or none, with a receipt that a majority signed | `GlobalReceipts` |
| Archivers (`Archivers.ts`, `LostArchivers/`) | archivers, lost archivers, recipients | join, leave, investigate, refute | certificates sent match the record; a live archiver is not removed | the certificates in `CycleCert` |
| Messages (`Comms.ts`, `Wrapper.ts`) | hashes seen | tell, ask, gossip | gossip reaches everyone | assumed, see below |
| Life cycle (`Self.ts`), problem nodes (`ProblemNodeHandler.ts`, `ProblematicNodeCache.ts`) | state of the process; refute history | start-up, standby polling, exit | | no |
| Transactions (`state-manager/TransactionQueue.ts`, `TransactionConsensus.ts`, `TransactionRepair.ts`) | queue entries, votes, receipts, account states | routing, queueing, voting, commit, late data, repair | receipts agree; an account's states are stored in order; every entry ends | `Transactions` |
| Shards and fact tells (`shardFunctions.ts`, `fastAggregatedCorrespondingTell.ts`) | none: computed each cycle, or for each transaction | who stores what, what changes, who tells whom | all ways to compute it agree; nothing a node newly stores is missed; everyone is told | `Shards`, `ShardStorage`, `FactTell` |
| Account patcher and cache (`AccountPatcher.ts`, `AccountCache.ts`, parts of `state-manager/index.ts`) | the hash trie, the cache, hash reports, bad accounts | report, vote, compare, repair, write | nodes that store an account come to store its newest state; only a repair that was overtaken takes data back | `Patcher` |
| Account sync (`AccountSync.ts`, `NodeSyncTracker.ts`, `DataSourceHelper.ts`) | sync trackers and their ranges, the page being asked for, retry counters | initial sync by ranges and by reports on global accounts, retries, resets | no account is missed while the network changes them; the sync ends | `AccountSync` |
| Fifo locks (parts of `state-manager/index.ts`) | per lock its owner, line and counter | lock, unlock, in bulk, forced unlock, clearing | two never work under one lock they still own; whoever waits is served | `FifoLocks` |
| The rest of `state-manager/` | statistics, caches, reports | statistics | | no |
| Application interface, network, storage, snapshots, monitoring, utilities | sockets, database, counters | I/O | | no |

How they interact. `CycleCreator` calls every module's `sendRequests` in Q1, its
`getTxs`, `dropInvalidTxs` and `updateRecord` in Q3, its `parseRecord` when a record is
digested and its `reset` before the next Q1. Nodes talk by gossip (`lost-down`,
`gossip-addtx`, `gossip-cert`, ...) and by requests (`compare-cert`, `lost-report`,
`apoptosize`). Modules share the node list and `currentCycle`/`currentQuarter`.

What is hard. Nothing but the record synchronises the nodes: between two records every
handler runs whenever its message comes, and every `await` (a verifier, a database
write, a request to a peer) lets other handlers run in between. Timers that are late are
skipped. Each module relies on three consecutive cycles lining up on all nodes.
`PROJECT.json` lists under `hazards` the places where this bites, each with the
properties that cover it or the reason why none does.

On top of agreed records, the parts of `state-manager/` synchronise even less: queue
entries on different nodes advance on their own timers, data may come late, twice or never,
and the patcher repairs accounts while transactions go on changing them.

## The modules

    CertTable    the list of best certificates per marker (pure)
      MarkerCerts        the list of one marker, as votes arrive in any order
    CycleRecord  records, markers, chains (pure)
      CycleLedger        abstract specification: one chain, everyone holds a prefix
      CycleCert          how nodes create and agree on records; implements CycleLedger
    ServiceQueue         network transactions, given agreement on records
    LostDetection        lost nodes and apoptosis, given agreement on records
    Membership           joining, selection, activation, given agreement on records
    NetworkMode          the size of the network and its mode, as counts
    GlobalReceipts       changes of global accounts
    Transactions         votes, receipts, commit and repair of sharded transactions
    Patcher              the account patcher, with transactions as abstract steps
    AccountSync          how a node that joins fetches its accounts
    FifoLocks            the locks of the state manager
    Shards               who stores which accounts (pure)
      ShardStorage       one node's range, as others join and leave
      FactTell           who tells whom about a transaction
    *Proofs              theorems and proofs; MC*  small instances for TLC

**CertTable, CycleRecord.** `Insert`, `Merge` and `TotalScore` are the loop of
`improveBestCert`: a list of at most three certificates, best first, one per owner. A
hash is the value it is of, so a marker `<<record>>` is equal to another exactly if the
records are.

**CycleCert.** Each node has the module variables of `CycleCreator.ts` under their
names. The callbacks scheduled for a cycle are the set `timers[n].pending`; `RunQ1` to
`RunQ4` and `CycleCreator` are the callbacks. `cycleCreator` awaits twice, so it is
split at the awaits: `CycleCreator` (or `StartCycles` when a node joins), then
`FetchLatestRecord` / `FetchError` if there is no best record, then `StoredCycle`, after the
write to the database. `runQ4` and `compareCycleCert` are `CompareAsk`, `CompareServe` (on
the peer), `CompareReply`, `CompareFail` and `CompareRetry`. `ReceiveGossip` is
`gossipHandlerCycleCert`. What the nodes put into a record is abstracted to a set of
transactions that each node may or may not have received (`TxChoices`). Time is counted in
quarters: `Tick` moves it on when nothing is left to do in the quarter, except what
the constants allow to last longer (`Lossy`: messages and requests, `Late`: a node's own
awaits). `digestCycle` changes the record in place; so does the model (`bestRecord` is
the patched record until `reset`).

**CycleLedger.** What cycle creation promises: `Decide` (the first node digests a new
record) and `Follow` (another digests the same). `ImplementsLedger` says that `CycleCert`
refines it, with the chains as the mapping.

**ServiceQueue.** One record of those made in a cycle is chosen and everyone digests it,
which is what `CycleCert` establishes. A node digests its own object, whose arrays the
module still writes to, or the equal copy a peer gossiped. The walk of
`processNetworkTransactions` is a loop with an await per entry: `WalkNext`, `WalkVerified`,
`WalkRemove`. The routes await the application too, between the look at the quarter and the push
into the arrays: an addition its `beforeAddVerifier` (`ReceiveAdd`, `AddVerified`), a removal its
`applyVerifier` (`ReceiveRemove`, `RemoveVerified`). `SlowAdd` and `SlowApply` are the nodes whose
verifiers may take longer than a quarter.

**LostDetection.** All nodes digest at the same time; `Digest` is `parseRecord` followed by
`reset`. `SendRequests` is the whole of `sendRequests` of both modules: reports that are
due, gossip about nodes found down, the own refutation, proposals. `CheckAnswered` is the
answer of `isDownCheck`, which may be wrong for the nodes in `Flaky`.

**Membership.** A candidate is on standby, in the node list as selected, syncing, ready or
active, or gone. `Join`, `Unjoin`, `AskRefresh` and `TellProgress` (sync started, sync
finished) are the routes, each with the validator that takes the request; `SendRequests`
and the gossip handlers (`Receive`) queue it everywhere; `MakeRecord` makes a record of the
queues (`updateRecord` of `Join`, `Active` and `Lost` for selected nodes) and `CycleCreator`
digests it: `ApplyChange` is `parseRecord` with the changes to `NodeList`, `DigestStandby`
those of the standby list. Selection takes at most `MaxAdd` of those on standby, which
stands for `calculateToAcceptV2`. A record scrubs at most `MaxScrub` (`standbyListMaxRemoveTTL`,
100 as shipped) of those on standby whose last refresh is too old (`Overdue`), in the order of
their keys (`Scrubbed`).

**NetworkMode.** Nodes are counted. `NextMode` is `updateRecord` of `Modes.ts`, `NextTarget`
is `setAndGetTargetCount`, `CalculateToAccept` is `calculateAddRemove` case by case. All three
read the newest record and the node list, as in the code: a record's target is used for
selection and rotation one record later. `Cycle` is a record, with any number of nodes lost,
and of selected nodes that join, ready nodes that become active and expired nodes that
are removed any number up to what the functions allow. The target is a fraction; it is
counted in hundredths of a node. `Restart` is a network that starts again from its last
record.

**GlobalReceipts.** What a node keeps of one change (receipt, tracker, timer, listener,
promise, queue entry) is one record; the functions of `GlobalAccounts.ts` are operators
on it (`MakeReceipt`, `ProcessReceipt`, `OnReceipt`, `Cleaned`), and the actions apply them.
A behaviour has one fault: none, one member that signs an outdated state hash, or lost
tells. Whatever the fault, each member calls `setGlobal` when it likes until `CallBy`, or never.

**Transactions.** One entry per node and transaction, with the states of the queue.
`Handle` is what a turn of the loop in `processTransactions` does with one entry, a `Pass`
action per state (`PassAging` to `PassRepair`); a turn is interrupted at its awaits only,
where the handlers (`ReceiveVote`, `ReceiveReceipt`, `ReceiveFinal`, ...) run. Votes, receipts and final data are
messages that stay in `msgs`. `Remote` nodes are seen through what they send: a vote for what
they compute from a copy that is current, or a receipt. The data of an account is the set of
transactions applied to it.

**Patcher.** `Report`, `Test`, `Compare`, `Fetch`, `Check`, `Patch` are
`processPreviousCycleSummaries` and the steps of `testAndPatchAccounts`, cut at their awaits;
`HandleRequest` and `WriteRepair` are `repairMissingAccountsBinary`. A transaction only makes
the next state of an account; who commits it, and when, is free. No lock is modelled since a repair
takes none: between its check and its write (`writing`) commits and other repairs of the account go on.

**AccountSync.** `initialSyncMain` is the loop over `trackers`; one action per await of
`NodeSyncTracker`: `StartRange` (`initByRange`), `SourceGone`, `AskFails`, `AskRefused` and
`Answer` are the ways a turn of the loop in `syncAccountData2` can go, `StartGlobals` to
`GlobalsReport` those of `syncStateDataGlobals`. An exception in a tracker is `TryRetry`
(`tryRetry`), which restarts the tracker or, as 'reset-sync-ranges', all of them
(`ResetRanges`). `Answer` includes what the answering node does
(`getAccountDataByRangeSmart`: two queries of the application under one lock) and the write of
the page (`checkAndSetAccountData`). Other nodes commit transactions meanwhile (`Commit`).

**FifoLocks.** A lock has the fields of `fifoLock` that decide who gets it. `LockOrWait` and
`Served` are `fifoLock` before and after its loop, `UnlockAll` is `bulkFifoUnlockAccounts` with
`fifoUnlock`, `ForceUnlockAll` is `forceUnlockAllFifoLocks`, called by `clearSyncData` and when a
transaction takes too long. A task runs on between two locks that are free (`NobodyRuns`), as
the code does. `MCAccountSync` checks both modules, each in a part of the states.

**Shards, ShardStorage, FactTell.** `Shards` has the pure functions over a circle of
partitions. `FactTell` has those over the group of a transaction, and one step: the storers of its
accounts tell (`TellAccounts`). `ShardStorage` follows one node from cycle to cycle: `lower` and `upper` count the active
nodes that come before and after it in the order of ids, `stocked` is the set of addresses whose data
it has, and `NextCycle` is `calculateChangeInCoverage`. It compares the ways in which the code
decides whether a node stores an address with one another. `MCAlgorithms` checks `MarkerCerts`,
`ShardStorage`, `FactTell` and `NetworkMode` side by side: the one that a behaviour exercises is
chosen by its initial state.

## The runs

| Run | Instance | Shows |
|---|---|---|
| `cert_join` | 2 voters that lose no message, a third node that joins at any time, 2 cycles | `ImplementsLedger`: one hash-linked chain; `CachedCertsMatch`: what is sent to archivers vouches for the digested record; `OneVotePerCycle`, `BestIsMax`, `TypeOK` |
| `cert_follow` | 1 voter, 1 follower that joins, gets late and loses messages, 2 cycles | `ChainContiguous`, and `CatchesUpOrLeaves` under fairness |
| `cert_latefork` | 2 voters, no loss, one gets late | violates `NoFork` (see Finding) |
| `queue` | 2 nodes, 1 transaction, lost and late gossip, 3 cycles; 1 node, 3 transactions in 2 subqueues, a slow `applyVerifier`, 5 cycles | `ListsAgree`: digesting the same records gives the same list; `SubQueueInOrder`, `RemovedOnlyApplied`, `BudgetUsed`; `TypeOK` says that the list stays sorted |
| `lost_reliable` | 3 nodes: one flaky and mortal, one leaving; 8 cycles | `NoLiveEviction`; `GoneInTime`: who is listed as lost and does not refute, or said that it leaves, is in the next record |
| `membership` | 2 candidates, 2 validators, 7 cycles | `RecordsAgree`, `NobodyOverstays`, `LeaversGone`, `OnlySilentDropped`; `ListsDisjoint` ties the lists to each node's status |
| `transactions_vote` | 1 transaction, 2 nodes and 4 remote ones, a copy that may be out of date, nodes that may be late | `ReceiptsAgree`: no two receipts of a transaction differ |
| `transactions_order` | 1 node, 5 remote ones, 2 transactions that share an account; the first is executed elsewhere | `StoredInOrder`, `VotesInOrder`, `PassedIsStored`; `Settles` under fairness: every transaction leaves the queue |
| `algorithms` | 4 voters for a marker; networks of up to 9 nodes, groups of 3 or 5, edges of 0 or 2, 135 addresses; a network of 10 to 11 nodes that loses 7 or is scaled | `BestThree`, `StorageAgrees`, `GrowthFetched`, `TellsArrive`, `RotationSafe`; `Recovers` under fairness |
| `patcher` | 3 nodes, one without the account at first, 1 transaction, 2 cycles; commits and repairs overlap | `OnlyOvertaken`: data goes back only by a repair in whose await a newer state was written; `TrieKeepsUp`; `Converges` under fairness, unless data went back |
| `globals` | a group of 3, whose members call in the first 40 seconds or never, and another node, 70 seconds | `OncePerHash`: a change is put at most once for each state that callers expect; `ReceiptComplete`, `AllOrNone` |
| `account_sync` | 2 transactions that lock two accounts in opposite order, 2 page requests, 1 forced unlock and 1 timeout; a node that fetches 3 accounts, one of them global, in one range or two, from at most 2 sources, with every counter of retries at 1 or 2 and one change | `Exclusive`; `OldDataSynced`: a finished tracker has missed nothing; `AllServed` and `SyncEnds` under fairness |

`LostDetection`, `Transactions` and `GlobalReceipts` also have a `TypeOK`, which holds in the same
runs when it is added to their configurations.

Each property of a passing run has a mutant: a plausible bug in one definition that
makes the same run fail.

### Bounds, and why they are enough

- `MaxClock` (quarters), `MaxCycle`: a cycle's result depends on the records before it
  only through the newest one, so two to three cycles reach every relation between
  consecutive cycles; lost detection spans a report, a gossip, a refutation and a removal
  cycle, and then pruning, hence 8; a candidate is asked, put on standby, selected, started,
  finished and activated in 7.
- Two voters already give every order of overtaking; three, with one cycle, were run once
  (below). Four in `CycleCert` exceed what can be explored.
- Scores: two patterns of weights, so that the best marker can change as certificates
  arrive; no two sums are equal (`NoTies`, evaluated as `WeightsDiffer`). (In the code scores are 32-bit numbers; equal sums are
  possible but never broken by anything, so two such markers are kept by order of arrival.)
- `Prune` is 1 (10 in the code), so that pruning happens within the run; reports are
  noticed in the cycles `ReportIn` only, `MaxFetchFails` is 1; `AskIn`, `Refreshing`,
  `Unjoining` say when and which candidates ask.
- In `ServiceQueue` a transaction is proposed once per node and cycle while it waits.
- `Membership`: `MaxScrub` is 1, so that the scrub takes one of two that are too old and leaves the
  other for the next record: the run reaches states in which a candidate stays one record longer
  (`Overstayed`). With more candidates than `MaxScrub * StandbyTTL` (400 as shipped) it may stay
  much longer, see "Joining" below.
- `Transactions`: the execution groups have six members, so that votes can be missing, late
  or differ and still reach a majority; `MaxClock` and `StuckAge` let a transaction be late,
  ask for its data and be repaired. `OneMissed`: at most one copy is out of date.
- `MCAlgorithms`: nine nodes with groups of up to five and two edge nodes give ranges that
  wrap, that cover the whole circle and that do neither. For `n` nodes `AddressSpace` must be at
  least `1.5 n (n + 1)` (`ShardLimits`), or the rounding of partitions leaves one without addresses
  of its own: 2^32 is enough for 53,508 nodes, 135 for nine.
- `NetworkMode`: the thresholds are 30%, 75%, 90% and 100% of `minNodes`; ten nodes are the
  least for which a rotation by one (`flexibleRotationDelta`) does not itself pass the
  threshold of 90%, and `MaxLost` takes it below every one of them. Either nodes are lost or
  the network is scaled, not both.
- `Patcher`: `MaxCycle` is the cycle that repeats for ever. One transaction and three nodes
  give a majority that is right, wrong, or split.
- `AccountSync`: two accounts with one timestamp and pages of two make pages end among equal
  timestamps; `MaxTime` lets the last page come before and after the window of `2 * Sit` moves
  past an account; each retry counter is at the least value at which the next one starts over.
- `FifoLocks`: one forced unlock (`MaxForced`) and one transaction in `MayTimeOut`, whose timeout is
  a second one.
- `GlobalReceipts`: `CallBy` 3 and `MaxClock` 7 are in units of ten seconds: `put` refuses what
  is more than 20 seconds old, a tracker is kept for 30 seconds, cleanup comes once a minute.
  The members are interchangeable, so their permutations are a symmetry of the run.

### What is assumed

- Gossip reaches every running node before the quarter ends, or, where a run says
  `Lossy`, may be late or lost. A node gossips to everyone; the code's gossip reaches
  nodes over several hops, which is the same set of arrival orders. Duplicates change
  nothing: every handler looks whether it has seen the message. Gossip that its receiver
  can only reject is dropped from the model.
- Callbacks run within the quarter they are scheduled for, unless a node in `Late` waits.
  A request times out in less than three quarters, so comparisons do not overlap.
- Signatures and hashes are perfect. Nodes follow the code.
- Verifiers of the application accept (a rejection is the same as gossip that was lost).
- `ServiceQueue`, `LostDetection` and `Membership` take from `CycleCert` that all nodes digest
  the same record, one of those that were made.
- `Transactions`: the configuration as shipped, but with `executeInOneShard`; an application
  that computes the same from the same data; the shard of the nodes does not change while a
  transaction is under way.
- `FactTell`: `executeInOneShard`, without `factv2` and `avoidOurIndexInFactTell`, with
  `concatCorrespondingTellUseUnwrapped`. `TellsArrive` is about the result only if no executor
  has its second place because of another account's group (`OwnPlaces`).
- `NetworkMode`: `baselineNodes` is `minNodes`, one node becomes active and one is rotated per
  cycle while processing (no `activeRecoveryEnabled`), no forced mode or shutdown.
- `ServiceQueue`, for `ListsAgree`: the verifiers of the pair answer within the quarter. Where they do
  not, the lists differ, see "Met with other constants".
- `AccountSync`: all nodes that answer hold the same accounts; the application's query returns
  accounts in the order of timestamp and address; a page holds more than one account
  (`MaxRecords`); a transaction is committed less than twice `queueSitTime` after its timestamp
  (`CommitLag`) - later ones are left to the patcher.
- `FifoLocks`: `fifoUnlockFix` is on and `fifoUnlockFix3` off, as shipped. A lock that nobody has used
  for ten minutes is one that nobody holds or waits for (`ClearStale`).
- Fairness. `LockFairness`: who waits for a lock polls it, and who has all its locks unlocks them.
  `SyncFairness`: the loop of `initialSyncMain` goes on after every sleep, answer and time-out,
  whichever it is; no source need ever answer. That `getRobustGlobalReport` answers or throws is
  part of this: it calls itself again without bound while the answer that wins is not ready
  (`AccountSync.ts:1118`-1124, 1138-1144), which takes a single active node that stays not ready.
  `CycleCert.FairSpec`: a node's timers fire and its awaits return or time out, a message under
  way is handled, and time passes; `Tick` needs strong fairness, because the
  retry of a comparison every 100 ms interrupts it again and again without stopping time.
  Nothing makes a node join or a comparison succeed. `Transactions.FairSpec`: the pass over the
  queue goes on (weak: it is a loop that is rescheduled), and timers fire and the messages for a
  waiting entry are handled (strong: an entry is looked at once per pass). `Patcher.FairSpec`:
  the steps of a test and of commits go on; of the voters that may be asked each is asked again
  and again, because `computeCoverage` shuffles them. `MCAlgorithms.Spec`: records go on being
  made and, if that remains possible, one comes in which all that are selected join, those
  that are ready become active and those that may be removed are; a network that is shut down
  is started again.

## The proofs

Every theorem is for any number of nodes, candidates, accounts, processes or locks, any bound
and any of the modelled losses and delays, unless its premise says otherwise. What they assume
of the constants is named in the modules (`CertAssumption`, `TxAssumption`, `StoreAssumption`, `QueueAssumption`, `GroupAssumption`,
`MembershipAssumption`, `LostAssumption`, `PatcherAssumption`, `PlanAssumption`, `SyncAssumption`,
`TimeAssumption`, `ScoreAssumption`, `ShardAssumption`, `TellAssumption`, `NetworkAssumption`) and evaluated by
TLC in every run. Each property was one of a run before it was proved, and so were most of the
inductive invariants below.

| Theorem | Premise | What it establishes |
|---|---|---|
| `LedgerSafe` (CycleCertProofs) | | the abstract chain never forks and stays linked |
| `TypeCorrect` (CycleCertProofs) | | every certificate list has at most three entries, sorted, one per owner |
| `BestStaysBest` (CycleCertProofs) | | `bestMarker` has a score that no other known marker exceeds, and no score is stale |
| `NoGaps` (CycleCertProofs) | | record `i` of a chain has counter `i - 1` |
| `OneVote` (CycleCertProofs) | | a node's certificates are never for two records of one cycle |
| `BestThreeKept` (CycleCertProofs) | | no three votes received for a marker have a greater total than those kept |
| `LedgerImplemented` (CycleCertProofs) | `Reliable` | `CycleCert` implements `CycleLedger` |
| `CacheMatches` (CycleCertProofs) | `Reliable` | the certificates for the archivers vouch for the digested record |
| `NoForkReliable` (CycleCertProofs) | `Reliable` | the chains agree and are linked: `LedgerImplemented` and `LedgerSafe` together |
| `QueueWellFormed` (ServiceQueueProofs) | | a queue stays sorted and holds a transaction once |
| `RemovedApplied` (ServiceQueueProofs) | | nothing leaves a queue before it was executed |
| `SubQueuesOrdered` (ServiceQueueProofs) | | a subqueue is executed in order |
| `BudgetSpent` (ServiceQueueProofs) | | waiting subqueues do not use up a walk |
| `QueuesAgree` (ServiceQueueProofs) | `SlowAdd = {}`, `SlowApply = {}` | nodes in the same cycle have the same queue |
| `LiveStay` (LostDetectionProofs) | no message lost, nobody late | a node that works is never removed |
| `GoneLeave` (LostDetectionProofs) | no message lost | who is gone, and was listed or said so, is removed in time |
| `ListsStayDisjoint`, `OnlySilentLeave` (MembershipProofs) | no candidate in `Forgetful` | the lists are disjoint; only silent nodes are dropped |
| `NobodyStaysTooLong` (MembershipProofs) | the same, at most `MaxScrub * StandbyTTL` candidates | whoever is too old for standby is dropped, or waits while `MaxScrub` others at a time are |
| `SameRecordMade` (MembershipProofs) | the same, no message lost | all validators make the same record |
| `LeaverIsGone` (MembershipProofs) | the same, one candidate leaves | it is gone with the record of the cycle in which its request goes out |
| `OneReceipt` (TransactionsProofs) | | no two receipts of a transaction differ |
| `VotesFollowQueue` (TransactionsProofs) | | a node votes on a transaction after all older ones that share an account |
| `CopiesInOrder` (TransactionsProofs) | `Faultless` | two copies of an account are moments of one history |
| `PassedStored` (TransactionsProofs) | `Faultless` | what has passed on a node is in its accounts, and stays |
| `ChangeOncePerHash` (GlobalReceiptsProofs) | | a change is put into a node's queue at most once for each state that callers expect |
| `ChangeOnAllOrNone` (GlobalReceiptsProofs) | | what one node has put all nodes put, if no gossip is lost and no member is outdated |
| `ForwardedComplete` (GlobalReceiptsProofs) | `CallBy < CleanEvery` | what goes to archivers has a majority's signatures |
| `TrieFollows` (PatcherProofs) | | the newest hash of an account is in the trie or on its way there |
| `RolledBackWhenOvertaken` (PatcherProofs) | | only a repair in whose await a newer state was written puts back older data |
| `LockSafety` (SmallerProofs) | | two never work under one lock, but for forced unlocks |
| `NoOldDataMissed` (SmallerProofs) | | a joining node has every account that did not change of late |
| `PartsAgree` (SmallerProofs) | | all parts of a node that compute who stores what agree |
| `GrowthIsListed` (SmallerProofs) | | what a node newly stores is among what it fetches |
| `TellingArrives` (SmallerProofs) | | who executes a transaction gets the data, everyone else the result (`OwnPlaces`) |
| `RotationKeepsSteady` (SmallerProofs) | `10 * Delta <= MinNodes` | only lost nodes take a processing network below what it processes with |

The premises are those under which the code keeps the promise. `Reliable` says that no message
is lost (`~Lossy`), no node is late (`Late = {}`), no two ballots have the same total (`NoTies`)
and that `undefined` is not a record. Without the second the nodes fork (`cert_latefork`), and
without the third they may, since each node keeps the marker of which it heard first. `LiveStay`, `GoneLeave`,
`SameRecordMade`, `LeaverIsGone`, `ListsStayDisjoint` and both premises of `QueuesAgree` are
needed: their properties fail without (below, "Met with other constants");
`NobodyOverstays` and `OnlySilentDropped` were not seen to fail with candidates in `Forgetful`, but
their invariant contains `ListsDisjoint`. With more than `MaxScrub * StandbyTTL` candidates those
with small keys can come back to standby in time to be scrubbed first again, and one with a great key
may wait for ever. `Faultless` says that of each execution group more than
the majority missed nothing (the remote nodes, as in `transactions_order`) and that no transaction
fails; a group that voted from old copies puts them into its receipt, and a failed transaction is
saved all the same (below). `CallBy < CleanEvery` is sharp: a member that calls `setGlobal` as late
as the cleanup comes finds its receipt deleted. `AllOrNone` and `ReceiptComplete` have in their
statement which of the faults they leave out.

### Cycle records

The invariant of `LedgerSafe` is `LedgerInv`, over `Ledger`, the instance of `CycleLedger` that
`CycleCert` refines: chains are well-formed sequences, two are prefixes
of one another, each is linked. `Decide` needs that the deciding node has a longest chain.

`TypeCorrect`, `BestStaysBest` and `NoGaps` are parts of one inductive invariant, `CertInv`.
None is inductive alone: `NoGaps` needs that what is about to be digested succeeds the newest
record (`BestNext`), which is true only because every certificate message carries a record that
was validated (`Messages`, `Compares`) and because `StoredCycle` resets before timers run again;
`BestStaysBest` needs certificates that arrived by every path (gossip, own vote, compare
request, compare reply) to go through `ImproveBestCert`, and the lists need the messages' owners
to be nodes. There is one lemma per action (`RunQ3Keeps`, `CompareReplyKeeps`, ...).
The first lemmas of the module are about the list of best certificates and about chains.

`BestThreeKept` is about one list, in `MarkerCerts`. Its invariant (`MarkerInv`) is that every vote that
came is in the list or the list is full of votes with at least its score (`Covers`): a vote that was
dropped is never missed, since lists only improve (`MergeCovers`, `CoversTotal`).

`OneVote` needs more (`VoteInv`): votes also travel in the requests and answers of the
comparison, from where they get into tables and gossip (`Voted`); a node's votes are for
records up to the one after its newest, and for that one only when `runQ3` is over
(`VotesUpToNext`). No action but `RunQ3` makes a vote (`NoNewVotes`), and none takes a node back to
before `runQ3` without a longer chain (`GoesOn`): `cycleCreator` goes on with a digested or
a fetched record only, so a node that falls behind, fetches and starts again does not vote a
second time.

`LedgerImplemented` needs to know, on top of both, who knows which votes when (`AgreeInv`). Its parts:

- `OnTimeInv`: where every node is in its cycle. A node that runs is at most one cycle behind the
  clock, and an active one never misses the `runQ2` that sets `prevMarkerCached`.
- `ScoreInv`: the votes that a node holds are scored against its own newest record; one that just
  joined and has no previous marker scores 0, and so has no best record.
- `MadeInv`: votes are made in Q3 only, for records that build on the newest one.
- `HeardInv`: the heart of it. If two nodes are in the same cycle, the second knows all the
  certificates of the first's best marker, or has better ones of its own in their place (`Covers`),
  or they are still under way. It holds because `improveBestCert` gossips the merged list
  and not the one received, and because merging never forgets a certificate for a worse one.
- `CompareInv`: comparisons run in Q4 only, carry the best lists, and find every peer `EQUAL`.
- `DecidedInv`: a node that has yet to digest what another has digested has that record for its
  best one. `CacheInv`: the cache is written when the best record can no longer change.

When no gossip is left (`Converge`), two nodes in the same cycle each have a list that covers the
other's best. A list that covers another has no smaller total, so both have the same total, and
`NoTies` makes the markers equal. Two ballots for different markers have no voter in common,
by `VoteInv`. So the first node whose `cycleCreator` runs decides (`Ledger!Decide`), and every
other one digests, fetches or syncs the same (`Ledger!Follow`): `CycleCreatorAgrees`,
`FetchLatestRecordAgrees`, `StartCyclesAgrees`.

### The queue of network transactions

`sortedInsert` and the loops of `parseRecord` are folds over a set of additions, whose order the
code does not fix. `FoldExists` and `FoldIn` prove, by a minimal counterexample over the set's
cardinality, that such a fold has a value and keeps what each of its steps keeps; so whatever
order a record's additions are taken in, the list stays sorted (`InsertNewKeeps`, `WithoutKeeps`,
`ParseKeeps`).

`QueueInv` is the invariant of the data: a transaction is collected once a cycle (`Collected`), the
records made and decided hold what was collected (`Made`, `Decided`), and whatever is proposed,
collected, made or decided for removal was executed (`RemovesApplied`); `RemovedApplied` follows
because `Decided` is what is digested. `WalkInv` is about the loop of
`processNetworkTransactions`, whose list may change at each of its awaits: there is a set of
positions passed (`Passed`), each one executed, asked for, or of a subqueue whose first entry
waits. `SubQueuesOrdered` is that the entries of a subqueue before the walk's position were executed
or block it; `BudgetSpent` counts `Passed` against the distinct lanes with FiniteSetTheorems.
`AgreeInv` is for `QueuesAgree`: no node is more than one cycle ahead of another, a node one
ahead has the other's list with the record applied (`NextList`), and from Q3 on nothing that a
node still collects gets into the record it shares its arrays with (`Settled`). That last part is
false for a node whose `beforeAddVerifier` or `applyVerifier` answers after its quarter (hence the
premises, see "Met with other constants"): with them no answer is awaited when Q3 begins, for
additions (`verifying`) and removals (`removing`, `RemoveVerifiedKeeps`).

### Lost nodes

`BaseInv` holds whatever is lost or late: only a node that has sent its requests in this cycle
has refuted in it (`Refutations`), so a refutation of an earlier cycle saves nobody, and only
nodes that left are said to leave (`Leavers`). `LiveStay` adds `LiveInv`: a node that works and
is listed by the newest record still owes its refutation (`Owes`), and from the moment it has
sent its requests every node has it or will get it in this quarter (`Spread`); nothing arrives
after Q2, so every record that is made spares the node (`MadeSpares`). `GoneLeave` adds
`TimelyInv`: every node has, or is about to get, the proposal of a node that left (`Knows`), so
all records made take it unless it was made in this very cycle (`MadeTakes`), and no proposal
gets older than the one cycle that the code accepts (`Recently`). Nothing is said of the
reports themselves: what the comments promise of them the code does not keep (below).

### Joining

`ListInv` ties the standby list, the lists of `NodeList` and what a candidate asked to its
status: who is on a list, that a record names only nodes which are where `parseRecord` expects
them (`LostOK`, `StandbyOK`), what a validator may still have queued about whom
(`RequestsOK`, `Asked`, `Told`). It holds whatever gossip is lost. `FloodInv` is for
`SameRecordMade`: in Q1 what one validator has queued every other has, or has seen, or gets
(`Flooded`, `MessagesOK`), and a validator that saw a key has kept a request for it (`SeenOK`,
`KeptOK`), so at the end of Q2 all queues are equal and so are the records.

`BehindInv` is for `NobodyStaysTooLong`. While a candidate is too old and still on standby, each record
scrubs `MaxScrub` others with smaller keys. None of them was scrubbed before in that time
(`Behind`): who was dropped must ask again and wait `StandbyTTL` records to be too old anew. So with
each record that passes it over `MaxScrub` more are behind it (`BehindCycle`), and those are fewer
than all candidates. That a record takes exactly `MaxScrub`, if there are as many, is a fact on the
first elements of a finite set of numbers (`Ranks`, `FirstOnes`).

`LeaveInv` is for `LeaverIsGone` and goes along with a request to leave: one that came in this
cycle carries its counter, one that goes out in this cycle the one before (`LeaveAt`), which is as old
as `validateUnjoinRequest` allows. If only one candidate leaves, the first request of a validator's list
is valid when `sendRequests` looks at it, or a request of that candidate is kept already. So from
then on the validator keeps one, and in Q3 its record drops the candidate from the node list if it
was selected in this record or the last, else from standby (`Caught`). With `RecordsAgree` that holds for whichever
record is digested, and the candidate is not put back on standby because it did not ask again in the last
cycle. The lists of
`NodeList` are sorted by status time: `Ascending` states a sorted sequence by the rank of each
element, which needs no induction.

### Transactions

`OneReceipt` rests on votes being final: a node has voted once (`VoteInv`), receipts are made of
votes that were cast, and two majorities of one group have a voter in common
(`GroupAssumption` says what a group and its majority are; that two majorities meet is proved by
counting, with FiniteSetTheorems). `VotesFollowQueue` needs `WalkInv`: the pass keeps in
`seenAccounts` the accounts of every older entry it has passed in this turn, though entries
come, go and change their states at each of its awaits.

`CopiesInOrder` and `PassedStored` are parts of one invariant, `StoreInv`. Under `Faultless` there
is one history of each account (`Upto`), every receipt says what it held after the transaction
(`OutcomeIs`), and each copy is a moment of it (`Copies`). A save or a repair compares timestamps
and so only goes forward (`SavedHasBoth`); a commit writes the vote whatever is stored, and would
take newer data back. It does not, for two reasons that the code relies on without a check: a
transaction that may still be committed here (`CanCommit`) keeps every newer one that
shares an account from being settled (`Turns`, by `seenAccounts`), and a transaction that enters
the queue after newer ones were walked is too old to be more than a receiver of final data
(`Inserted`: nine tenths of the sit time, where the walk starts at the whole). `ReadyInv`: what a pass
waits to save stays complete while handlers run.

### Patcher

`PatcherInv` has what `TrieKeepsUp` needs (`KeepsUp`): what waits in the queue of an account is no
newer than its cached state, which is there itself unless the queue is empty, and then the trie or
the update to come has it. That `processCacheUpdates` takes the newest last, and leaves nothing
older behind, is so because states are made in the order of the cycles (`WorldOK`).
`RolledBackWhenOvertaken` adds `RepairInv`: what a node stores is never newer than what its cache
says, and a repair that waits to be written is not older than the state (`seen`) which the cache
held when it was checked. So if its write takes data back, the cache has gone on from `seen`
meanwhile, by a commit or another repair. Commits compare with the cache when they write, and so never
take data back.

### Global receipts

`PutOnce`: whenever a node puts the change it marks one more hash as gossiped, and the marks are
forgotten only when `put` refuses the change anyway (20 seconds are less than 30). A receipt names only
a hash that some caller expects (`Asked`), so there are no more marks than such hashes. `SpreadInv`: as long as `put`
accepts it, who has not put a change that somebody put has its gossip still to come.
`CompleteInv`: when the messages of ten seconds have come, a member has the signatures of all
who called, and nobody puts anything before a majority called.

### Locks

`LockSafety` rests on `LockInv`: the number a process waits with or owns a lock by is nobody
else's and at most the counter, and a lock in `kept` has its holder's number in `lockOwner`
(`Owns`), so that `fifoUnlock` with an old number frees nothing; whoever waits has a number
(`WaitersNumbered`), and a process wants a lock of its plan that it does not hold yet (`InPlan`). A
forced unlock breaks `Exclusive` for what is in `held`, hence the invariant is about `kept`, the
locks that were not freed under their holder. `ClearStale` starts the numbers again, which is
sound because nobody has a number of that lock any more.

### Account sync

`NoOldDataMissed` rests on `SyncInv`. Of the range being fetched, whatever comes before the page
to ask for (`Passed`: a lower timestamp, or the same one and a lower address) is saved
(`PassedSynced`), and that page starts at most one past a timestamp, `low`, which lay
`2 * Sit` in the past when it was read (`PageNumbers`), so that a commit, which comes less than that
after its timestamp, never lands behind the page. A page is what comes first in the order of
timestamp and address: with an account it has all that precede it, and unless it is full it has
all there are (`PageRows`, from lemmas on the first `n` elements of a finite ordered set). The last
page reaches the window of `2 * Sit` before the present, and what it did not return lies inside.
Trackers finish in order (`OneAfterOther`), and after every reset the ranges hold all accounts
(`AllCovered`), so that whoever gets to the end has them all. That a page has more than one row
plays no part in the proof: with pages of one row the loop can stop advancing, but skips nothing.

### Network modes

`SmallerProofs` holds the theorems of `FifoLocks`, `AccountSync`, `NetworkMode`, `ShardStorage` and
`FactTell`. For
`RotationKeepsSteady` only the types of the counts and `MinNodes <= desired` have to be invariant
(`NetworkTypes`). A steady network stays in processing (`StaysProcessing`), and whatever branch of
`calculateAddRemove` it takes removes a twentieth of the active nodes (or one, of more than the
target has), no more than the active nodes are above the target, or one by rotation, if more
than `desired - Delta` are active (`RemovedFew`). Each leaves nine tenths of `minNodes`; the
rotation does because `Delta` is at most a tenth of it. `NetworkAssumption` says that the constants are
numbers, and that `MinNodes` is not 0 and at most `MaxNodes`. As shipped `flexibleRotationDelta` is 1
and `minNodes` 15 (`config/server.ts`, lines 72 and 60).

### Shards

`PartsAgree` and `GrowthIsListed` rest on two views of a range. Around the circle it is the set of partitions within a
radius of a home (`Near`), which is symmetric: that is why the nodes in our list of storing nodes are
those that have us in theirs (`InRangeIsNear`, `WalkIsNear`). As addresses, a run of partitions has
exactly the addresses whose home is in the run (`AtHome`). This needs that rounding the size of a
partition, `n` times over, moves the last one by less than a partition (`SizeFits`, from
`ShardLimits`). The invariant is only that the node is one of at most `MaxActive` (`CoverageType`).

For `GrowthIsListed` an address that is new lies beyond the old piece it is compared with
(`ExpansionHolds`) and stays when old pieces are taken away (`WithoutKeeps`), so it is fetched if
its piece is compared with an old piece at all, that is, if `computeCoverageChanges` pairs it with one
that it overlaps (`NewOverlapsOld`). Two split ranges overlap where the circle begins and ends. A range that
is split no more begins or ends there, because the home moved by one. Two ranges in one piece
overlap although the size of partitions changes with their number (`RangesMeet`): a range is at
least three partitions wide, and no boundary moves that far. With larger changes of
the list of nodes in one cycle they need not overlap, and then, as for a range split by
the change itself, addresses are missing (`NothingMissing`, below).

### Fact tells

The only invariant of `FactTell` is the layout of the queue entry (`Laid`). A consensus group is a run
of nodes around the circle (`ConsensusRun`). In the sorted group of the transaction it is a run of
places, which may continue at the start (`PlacesAround`), because between two of its nodes there is no
other. `TargetSpan` finds where it begins (`SpanAround`). All these groups have the same
size, and among as many successive numbers as that each rest of a division by it comes once
(`RestInRun`, `RestOnce`): some node of the account's consensus group has the rest that the place
of a receiver asks for, and by the second, unwrapped place also where the run wraps around.
The data go to one place per sender (`DataTold`). The result goes from each sender to every place that
is a multiple of the size of the execution group away (`ResultTold`, over the loop of
`getCorrespondingNodes`, whose function `place` exists by `StepFunction`). That the senders' indices
are successive numbers is what `OwnPlaces` is needed for.

### What stays with TLC

- Liveness (`CatchesUpOrLeaves`, `Settles`, `Recovers`, `Converges`, `AllServed`, `SyncEnds`):
  fairness and ENABLED are beyond the prover.
- What a recursive function computes for every input, in general: the induction rules of the library
  cannot be instantiated. Where a proof needed an induction it is over a set instead, whose least or
  greatest element contradicts the step (`SetInduction` in CycleCertProofs, for `Synced`, the
  loop over a peer's chain, and in SmallerProofs, for the loop of `getCorrespondingNodes`;
  `FoldExists` in ServiceQueueProofs).

Every invariant and every other action property of the runs has a theorem.

## Finding

`NoFork`, `cert_latefork`: a node that finishes a cycle late skips `runQ2`, the only place
that sets `prevMarkerCached`, scores certificates against an old marker and digests
another record than its peers, although no message is lost.

### Met with other constants

The definitions named here are in the modules; the runs above do not check them, or check
them under constants that avoid the case.

Cycle records
- `ChainLinked` fails with two voters and lost messages: after two nodes digested different
  records, the next record is accepted by its counter alone (`CycleCreator.ts:1051`;
  `previous` is never compared).
- `ImplementsLedger` and `CachedCertsMatch` hold with three voters for one cycle
  (`MaxClock` 4). `TypeOK`, `BestIsMax` and `OneVotePerCycle` hold with two voters that lose
  messages and get late.
- `CachedCertsMatch` fails with `Lossy`: `runQ4` caches the certificates although the
  comparison was aborted (`CycleCreator.ts:707`).

Network transactions and lost nodes
- `ListsAgree` fails with a node in `SlowAdd`: `gossip-addtx` checks the quarter before it
  awaits the verifier, and pushes into the array that is part of the node's own record. It fails
  in the same way with the pair's nodes in `SlowApply` and `PairCycles` 4 (35 states): `gossip-removetx`
  awaits the `applyVerifier` (`ServiceQueue.ts:166`) between its look at the quarter and the push (169).
- `HashMatches` fails with the constants of the pair in `queue` and two cycles: a transaction
  proposed again while its first proposal is being recorded is hashed twice but listed once
  (`ServiceQueue.ts:467`, against the comment at 348).
- `NoLiveEviction` fails with a node in `Late`: a refutation is sent only in the one cycle
  it is due (`Lost.ts:636`).
- `GoneInTime` fails with `Lossy`: a proposal that came too late stays and hides its node from
  lost detection (`Lost.ts:326`).
- `CheckedIsLost` fails with the constants of `lost_reliable`: `Lost.ts:997` says "At start of Q1
  of the next cycle sendRequests() will start a gossip if the node was found to be down", but a
  checker whose `runQ1` comes after the reporter's, and after the check, gossips in the cycle of
  the report. The others refuse that as "too new" (1016) and the report is marked as gossiped
  (610), so it is never sent again and nobody lists the target. A target also never lists itself
  (1014), so its own record may win without it.
- A finding that waits because its target is listed already (`Lost.ts:607`) is not pruned with
  it: `reset` (284) walks the received reports only. It is gossiped when `stopReporting` is
  pruned, ten cycles later, refused everywhere as too old, and in that cycle hides newer
  reports of the target in the checker's own record (340).
- `ReportedIsRemoved` fails: a checker that reported the target itself drops the report of
  the other node (`Lost.ts:984`, against the comments at 5, 727 and 983); when all nodes notice
  a death at once, none is checked and the node stays until it is reported again.

Joining
- `RefreshedStays` fails with one candidate that refreshes: the signer of a refresh, which is
  the node that gossips it, is looked up among the standby nodes (`Join/index.ts:306`, against
  the comment at 373).
- `RecordsAgree` and `ListsDisjoint` fail with a candidate in `Forgetful`, which asks again
  in the next cycle.
- `LeaversGone` fails with both candidates in `Unjoining` and `StandbyTTL` 5: the first request of
  a validator's queue is no longer valid because its node was scrubbed meanwhile, `sendRequests`
  returns there (`Join/index.ts:814`), and the request behind it is never sent, though its node
  was told that it was taken.
- With more than `MaxScrub * StandbyTTL` candidates the age scrub, which goes through the list in the order of
  keys and stops after `standbyListMaxRemoveTTL` (`Join/index.ts:374`-378), may pass over the same node
  again and again.
- A golden ticket, `MaxStandby` 1, `MaxAdd` 2, and three validators with one candidate (9 million
  states), change nothing.

Network modes
- `Recovers` leaves out networks with `syncFloorEnabled` that lost nodes: recovery then adds
  nodes up to `minNodes` only (`ModeSystemFuncs.ts:344`) while the mode waits for
  `extraNodesToAddInRestart` more (`Modes.ts:244`), so the network stays in recovery. The
  target that `CycleAutoScale.ts:412` sets for recovery is used by the other branch only.
- `ReachesDesired` fails after one vote up: the target follows the desired number by tenths
  of the difference and never reaches it (in the code until the numbers' precision ends, at
  15.999999999999993 for 16), the whole number below it is what `active` is compared with, and
  a node is removed though `active` is `desired`; `ModeSystemFuncs.ts:146` says "only remove the
  active nodes more than target". The network goes back and forth between `desired` - 1 and
  `desired`.
- `RotationSafe` leaves out a target below `minNodes`. The first record made while processing
  uses the last target of forming, which may be such; and with `minNodes` below 10 a rotation
  by one passes the threshold of safety mode by itself.

Set-global receipts
- A change is put twice (`OncePerHash` allows two) when an outdated member and another call first,
  their majority's entry commits, and the third member calls ten seconds later: the receipt now names
  the expected transaction, whose tracker is not yet gossiped (`GlobalAccounts.ts:406`-414), and the
  listener was kept.
- `AllOrNone` is stated for behaviours without an outdated member. With one, the first
  majority may name its transaction: it is processed and marked as gossiped though no other
  node accepts it (`GlobalAccounts.ts:377`, 406-414), so that the valid receipt that follows
  is not gossiped and only the group applies the change; the comment at 198 says "Gossip
  receipt to every node in network to apply to global account". `ReceiptValid` fails likewise.
- `ReceiptComplete` fails with `CallBy` 6 and `MaxClock` 7: of a member that calls `setGlobal` a
  minute after the others, cleanup has deleted the receipt by then, and its signature makes a
  new one with one signature, which is forwarded. It is
  not stated for lost tells: a node whose own request comes after another's has no promise to
  wait for (`GlobalAccounts.ts:307`).

Transactions, shards, patcher
- `FailedNotStored` and `StoredInOrder` fail with `Failing` = {t1}: a late node writes the final
  data of a transaction whose receipt says that it failed, and reports it as passed
  (`TransactionQueue.ts:7424`-7470, against the comment at 7439-7445).
- `MajorityGivesReceipt` fails: `TransactionConsensus.ts:2188` takes a hash with more than
  `majorityCount` votes, where the guard before it (2171, "we need more votes") and the check of a
  receipt at 1670 are content with that many.
- `transactions_vote` holds with three followed voters of which one has a stale copy (103,000
  states). Two followed nodes with both transactions are too many states.
- `NothingMissing` fails when the new range of a node is split and the old one was not
  (`shardFunctions.ts:1030`-1034, "If no overlap then entire value is a difference.";
  called at `state-manager/index.ts:783`): what it newly stores is fetched only in part.
- Without `OwnPlaces`, `ResultArrives` fails for two accounts on four nodes: one wrapped place
  of a sender is used only (`TransactionQueue.ts:5145`), while
  `fastAggregatedCorrespondingTell.test.ts:170` expects every receiver to be covered.
- `ConsensusStart` and `ConsensusEnd` name other nodes than the consensus group in small
  networks (four nodes, radius 1; six with the default configuration), against the comment
  at `shardFunctions.ts:602`; nothing else in the modules uses them.
- `NoRollback` fails in ten steps in the run's own model: the repair checks the account's
  timestamp (`state-manager/index.ts:1133`) and writes it after two awaits (1183, 1232) without
  the account's lock, which `commitConsensedTransaction` takes. The cache keeps the hash of the
  newer state, so the trie matches the others' and the patcher does not find the older data
  (`WentBack`); `OnlyOvertaken` and `Converges` say what remains.
- A tracker for global accounts that runs out of tries is taken for finished
  (`NodeSyncTracker.ts:311`, then `AccountSync.ts:706`); `OldDataSynced` says nothing of such a one
  (`GlobalsGivenUp` finishes with `asOf` 0).
- `Converges` fails with `MaxUnaware` 2 (a node needs a receipt to repair others,
  `AccountPatcher.ts:577`) and with `MaxApart` 2 (4209). With nobody behind it holds, and the
  safety properties hold with three states (2.5 million states).

## Not modelled, inside the modelled parts

- Cycle creation: shutdown mode, pruning of the chain, a database write that fails, sums
  of scores that are equal.
- Sync: the first sync through archivers, and restoring lists whose hash differs. `Synced` copies a
  peer's chain in one step; `syncNewCycles` (`Sync.ts:277` ff.) does so in batches with awaits
  between, while the peer may digest a further record.
- Network transactions: handlers at shutdown, counting of tries, the debug drop, copying
  the list from an archiver.
- Lost nodes: removal by the application, syncing nodes that take too long, several
  checkers per report, checks through a proxy, the `unique...` options (off by default), nodes
  that are not yet active.
- Membership: validators that join or leave, problematic nodes, restore mode, `Refresh.ts`,
  the version of join requests before `v2`.
- Modes: which nodes vote and how votes are counted, `forcedMode`, `initShutdown`,
  `getExpiredRemovedV3`, `SafetyMode.ts`, rotation by shares of `rotationPercentActive`.
- Set-global: a group that changes, several changes at once, a `put` refused for another
  reason.
- Transactions: expiration, cycles that change the shard, the consensus before `poqo`,
  global accounts in the queue, caching of receipts for archivers.
- Account sync: `getRobustGlobalReport` calling itself again without bound, `forceSyncComplete`,
  `softSync`, the sync from archivers in restore mode, trackers
  at run time other than their forced unlock, transactions that wait for a range being synced.
- Patcher: ranges that a sync tracker owns, nodes that see consensus and edge ranges
  differently, more than one level of the trie, the limits per cycle, two states with one
  timestamp, a node a cycle behind, two tests that overlap.

Not modelled at all: archivers other than the certificates sent to them (they join like nodes;
the detection of lost ones is off by default, `config/server.ts:142`, and cannot start: the route
that is asked to investigate expects another type of message than the sender writes,
`p2p/LostArchivers/routes.ts:216` and `types/LostArchiverInvestigateReq.ts:22`, and refuses every
request), statistics and the deprecated consensus of `Deprecated.ts`; what is pure I/O, glue or measuring is listed with
its reason in `PROJECT.json`.

## Plan

1. More of the code: the consensus after `poqo`'s failure paths, expiry of queue entries, the
   first sync of the chain through archivers.
