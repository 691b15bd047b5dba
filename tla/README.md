# Verification of connection_topology

TLA+ models, TLC runs and TLAPS proofs for the server side of
connection_topology: a FastAPI application, run as several web processes over one
PostgreSQL database, that scans devices over SSH and WinRM and draws their
connections as a graph. Paths are relative to the repository (`src/`).

The interesting part of the program is not the graph but what keeps several
processes from stepping on each other: leases, row locks, advisory locks,
notifications, a per-process mutex, a semaphore and a connection pool.

## 1. Inventory

| Component | State | Operations | Module |
|---|---|---|---|
| Leased scan execution (`services/scan_queue.py`, `task_leases.py`, `scans.py`) | `scan_tasks` rows (status, worker, lease), executor threads, `_active_task_ids`, `_lost_task_ids`, heartbeat, life of the process | dispatch and claim, execute, persist, fail, renew, start, shutdown, crash | `ScanLease`, `ScanLeaseProofs` |
| Scan batches and the queue (`scan_queue.py`, `task_leases.py`, `routes/api.py`, `models.py`) | `devices`, `scan_tasks`, `scan_batch_items`, `scan_batches`, open transactions, `_enqueue_lock` | enqueue, create batch, retry failures, cancel and delete, claim, settle, recount | `ScanBatches`, `BatchProofs` |
| Transaction admission (`database_transactions.py`, `database.py`) | admission slots, pool connections, `_enqueue_lock` | every handler's order of taking and releasing them | `DbAdmission`, `AdmissionProofs` |
| Topology cache (`topology_cache.py`, `postgres_notifications.py`) | `_entries`, `_inflight`, LISTEN connection | get_or_compute, put, clear, notify, reconnect | `TopologyCache`, `TopologyCacheProofs` |
| Import of devices and connection tests (`imports.py`, `import_testing.py`, `import_test_leases.py`) | `import_batches` (and the request's copy of it), `import_row_results` with leases, test threads, `_active_ids`, `_lost_ids` | import row by row, claim, test, save, renew, complete, create the first scan batch, shut down | `ImportPipeline`, `ImportProofs` |
| Leader and scheduler (`postgres_leader.py`, `scheduler.py`, `routes/api.py`) | session advisory lock, APScheduler and its jobs in each process, devices | acquire, start, lose, shut down, sync_device, remove_device, run jobs | `LeaderScheduler`, `SchedulerService`, `SchedulerProofs` |
| Retention (`retention.py`, `scheduler.py`) | `scan_runs`, `connection_records`, the running purge | chunked purge of raw records and of scans | `Retention`, `RetentionProofs` |
| Topologies (`topology.py`, `topology_history.py`, `service_observations.py`) | stored connection records and observations, requests between their queries | save, aggregate in Python and in SQL, diff, cluster graph, edge lists | `TopologyHistory`, `ClusterTopology`, `HistoryProofs` |
| Clusters (`clusters.py`) | settings that overrule those of the members | apply to members, group a graph | `LeaderScheduler`, `ClusterTopology`, `HistoryProofs` |
| Listings, pages, browser code, collectors, configuration, migrations | | | see section 12 |

How they interact. A request or the scheduler enqueues a device under
`_enqueue_lock` inside a transaction of `PostgresTransactionRunner`. Each process's
dispatcher claims PENDING rows under an advisory lock, up to a limit on RUNNING
rows that all processes share, and hands them to its executor. A thread collects
remotely without a transaction while the heartbeat renews the lease, then persists
the outcome if the lease is still its own, recounts the batches of the task and
notifies `topology_changed`, on which every process clears its topology cache. An
import enqueues connection tests that the same kind of leased workers run, and its
completion enqueues a batch of scans. The leader's scheduler enqueues devices and
purges what the scans have stored, while requests read it.

What makes each part correct, and hard:

* Leases: a task is settled once, by the process it is leased to, and a late
  result never overwrites it; expired tasks are taken over; the limits hold.
  `worker_id` identifies a process, not an execution, so one process can hold two
  executions of one task; transactions can outlive the lease they checked; commits
  can succeed without an answer.
* Batches: counters agree with the items, COMPLETED is neither early nor missed,
  the queue is bounded, deleting spares what is running. All of it is read first
  and written later under READ COMMITTED.
* Admission: everybody gets on, and nothing is held during remote waits.
* Cache: one build per key, bounded staleness, nobody waits for ever.
* Imports: every row is counted and tested, the limit on tests holds, one scan batch
  follows. Tests begin while the import still runs, and the import writes the batch
  from a copy that the tests do not keep up to date.
* Leader: one scheduler at a time but for the moments in which the loser has not
  noticed, someone leads again after every failure, the jobs follow the devices.
* Retention and topologies: the newest scans stay readable, a purge ends and leaves
  nothing overdue, and what is stored is shown, although a view is read in several
  queries between which scans arrive and disappear. The same numbers are computed
  in Python and in SQL, from addresses in two notations.

`PROJECT.json` lists the hazards with the line where each bites and the
properties aimed at it.

| Module | Extends / instantiates |
|---|---|
| `WorkQueue` | the abstract queue; `ScanLease` implements it, `ImportPipeline` does not (section 10) |
| `SchedulerService` | composes `LeaderScheduler` and `Retention` |
| `TopologyHistory` | `Retention`: purges run beside reads and new scans |
| `ClusterTopology` | `TopologyHistory` |
| `MC...` | the constants of the runs |
| `...Proofs` | the module they prove about; `SchedulerProofs` and `HistoryProofs` also `RetentionProofs` |

## 2. ScanLease: the leased queue

A Worker is one incarnation of a process (`worker_id` is a fresh uuid); a Slot is a
thread of its executor. `Cardinality(Slots)` is `SCAN_MAX_WORKERS`: in the code too,
one setting is the size of each pool and the global limit. Leases are relative,
`lease[t]` ticks from expiry, 0 once `lease_expires_at <= now()`.

| Action | Code |
|---|---|
| `Start`, `BeginShutdown`, `JoinDispatcher`, `FinishShutdown` | `start`, and `shutdown` in its three waits |
| `Claim` (`ClaimRows`, `HandOut`), `Register` | `_dispatch_loop`, `claim_scan_tasks`; then `_claim_tasks` adds the ids to the active set |
| `DispatcherDies` | a claim that raises ends the thread; the rows may be claimed nonetheless (unanswered commit) |
| `BeginCollect`, `FinishCollect` | lease check, device lock, `_load_target` and what they refuse (the lease is lost; the device is being scanned, gone or switched off, which goes to `_fail_unexpected_task`), the collection |
| `LoadFails` | a database error before the collection |
| `LockRow`, `Commit` | the SELECT ... FOR UPDATE of `_persist_outcome` (or of the error paths), then its commit |
| `PersistConflict`, `TransactionFails` | `_record_transaction_conflict`; `_fail_unexpected_task`, with and without the commit having taken effect |
| `Snapshot`, `RenewLeases`, `RenewCommit`, `RenewFails`, `ApplyLost` | the heartbeat: copy the set, UPDATE, commit, apply what was lost |
| `Crash`, `Tick` | process death; the database clock |

Two switches describe the environment. `SlowTransactions` lets the clock advance
while a transaction is open. `TimelyHeartbeats` makes each heartbeat arrive before
its lease ends (`config.py` requires heartbeat * 2 < lease); without it a process
may be suspended for as long as one likes. A heartbeat in time does not help a row
that a settlement has locked: the UPDATE of the heartbeat waits for the lock, and with
it the other rows it would renew (`HeartbeatWaits`, `KeptInTime`). So the lease can end
during a slow settlement whatever the switch says.

| Run | Instance | Shows |
|---|---|---|
| `lease_takeover` | 1 task, 2 processes of 2 threads, 1 fault, 1 crash, lease of 1 | `LockedRowStaysOwned`, `RecordedOnce`, `SettledByOwner` and the refinement `ImplementsQueue` hold with slow transactions and late heartbeats |
| `lease_timely` | 2 tasks, 2 processes, a crash, lease of 2 | with timely heartbeats and short transactions: both limits (`RunningCap`, `RemoteCap`), `OneExecution`, `ShutdownLeavesNothing`, and under fairness `Takeover` and `EveryTaskSettles` |

Five more configurations stand beside the runs. `ScanLease_late`, `_slow` and `_dispatcher`
take away the condition of `lease_timely` that one property needs, and `_unrenewed` follows two
executions of one task in one process (section 10). `ScanLease_abandoned` shows
`AbandonedLeaseEnds` under fairness, with slow transactions, late heartbeats, two faults
and a crash: a lease nobody works under may be renewed from a stale snapshot, but not for
ever.

Bounds. One task suffices for questions about one row, because rows interact only
through the limit; the run on the limit uses one task more than slots. The
constraint `TwoExecutions` of `lease_takeover` lets at most two threads be busy at a
time, in one process (which has lost the task and claimed it again under the same
`worker_id`) or in two: fencing is a question between two executions. A lease of
one or two ticks lets it end before, during and after each step. One failure and
one crash reach each error path; a second failure repeats it from a state that was
already reached.

Fairness. Threads run on, transactions and collections end (collectors have
timeouts), the dispatcher wakes at least every half second, the heartbeat on its
timer. Row locks are granted in queue order, hence strong fairness for waiting on
one. Shutdowns, crashes and failures are never forced.

### WorkQueue: what a leased queue promises

`WorkQueue` knows items, owners and results, and three steps: an item is added, open
items are granted to a process (others may lose theirs), and the owner of an open
item gives it its result. There are no leases, clocks, threads or transactions in
it. `ScanLease!ImplementsQueue` maps `worker_id` to the owner and a settled status to
the result. A claim with the reset of expired rows is one grant, a settlement one
`Settle`, and heartbeats, crashes and the clock are stuttering steps. The refinement is
also a theorem (section 9). The test columns of an import row look alike but do not
implement it: `_claim_specific` can take a row that already has its result
(`ImportPipeline_retaken.cfg`, section 10).

## 3. ScanBatches: tasks, items, counters

The variables are the committed tables; `tx[a]` is the open transaction of actor
`a`, with what it has read (`seen`), the task rows it has locked and their new
status (`rows`), and the batches it still has to recount (`todo`) or has locked and
recounted (`counts`). Claims and settlements lock their task rows, then lock and
recount batch after batch (`refresh_scan_batches`), then commit. Requests read, and
later flush and commit in one step: the rows they write are locked from the flush
to the commit, so nobody sees between. The unique index on active tasks, the
foreign keys (the insert of an item waits for a FOR UPDATE of its task) and the
cascades of a device are guards and effects of these steps. Which tasks may be
claimed is the subject of ScanLease; here any PENDING task may be claimed and any
RUNNING one may expire.

| Run | Instance | Shows |
|---|---|---|
| `batches_counters` | 2 devices, 2 tasks, 2 batches, 2 sessions, 1 request, deletions | `CountersMatchItems` and `CompletedIsSettled` while claims, settlements, new batches, retries and deletions recount or change the same rows |
| `batches_queue` | 3 devices, 1 place, 1 request in each of 2 processes, deletions | `QueueOverrunBounded`: the queue can exceed its size, but never holds more than its size once for each process |
| `batches_stuck` | 1 device, 2 batches that share its task | violation, section 10 |

Two batches that share tasks are what makes recounts overlap and lock orders
differ; two sessions are the least that do so. `CountersMatchItems` speaks of
batches none of whose devices has been deleted: the cascade removes items and
nothing recounts their batch. `CompletedIsSettled` has no such exception. In
`batches_queue` nobody claims (no session): claims only take tasks out of the queue. A
third device is what a bound of two places could fail on.

## 4. DbAdmission: what threads wait for

Each handler is the sequence of the points where it takes or gives back an
admission slot, `_enqueue_lock` or a pool connection, or waits for a device. Slots
and the lock wait without limit, a connection for `pool_timeout` seconds. A
conflict closes the session and gives the slot back before the next attempt but
keeps `_enqueue_lock`; an exception gives everything back. Connections count one
per session: a route's session keeps its own from the first statement to commit,
rollback or close.

`admission_mixed` puts five handlers on two slots and two connections, the smallest
capacity at which two kinds of waiting can block each other: once around scans with a
changed device, once around imports, once with as many deletions as slots (`Mixes`).
Under `HangSpec` a remote call may never end; all else is fair: threads are scheduled,
transactions end, the pool's timeout fires. It shows

* `RemoteHoldsLittle`: while it waits for a device a handler holds no slot, and no
  connection but the one of `update_device`;
* `HangingBlocksNobody`: every handler ends or is itself the one whose device does not
  answer, but for one deadlock, `DeletionsBlock`, in which deletions and an enqueue wait
  for each other.

The two exceptions are what `DbAdmission_update.cfg` and `DbAdmission_deletions.cfg` show,
section 10.

## 5. TopologyCache

A value is represented by its age: 0 while it agrees with the database, n from
n - 1 ticks after the change that superseded it. `Look`, `Enter`, `BuildReads`, `BuildEnds`,
`Put`, `PopInflight`, `Signal` are the steps of `get_or_compute` between which other
threads run. `Change` commits a change with its NOTIFY, in this process (which also
clears its cache itself) or in another; `Disconnect` loses what was not delivered;
`Listen` does not clear.

`cache_requests` (3 threads, one key, a TTL and a build of one tick, a change, a lost
connection) shows `OneBuildPerKey`, `StalenessBounded` and, under fair threads,
`EveryRequestEnds` with failing builds. In this run steps in memory take no time
against the TTL (`PromptThreads`): a waiter that sleeps through a whole TTL after
each event may miss for ever. The theorems on the first two do not assume it. One
key is enough, since keys do not interact.

## 6. ImportPipeline: imports and connection tests

One import, from the first row to its scan batch, with the workers of two processes
testing its rows as they are committed.

| Action | Code |
|---|---|
| `ImportInvalid`, `ImportDuplicate`, `ImportNew`, `ImportInsert`, `ImportConflict`, `ImportFinish`, `ImportAborts` | `import_devices`: a row that does not parse, a known device, the lookup and the insert of a new one, the unique index refusing it, the end, a database error |
| `OtherCreates` | another request inserts the device between lookup and insert |
| `Claim`, `ClaimUnanswered` | `_dispatch_loop`, `claim_import_tests` with `refresh_import_batches`; its commit may go unanswered |
| `Load`, `TakeSpecific`, `ClaimFails` | `_load_target` and `_claim_specific`, which reads the row before it has the advisory lock and does not read it again; a database error, after which the row may have been taken nonetheless |
| `FinishTest`, `Save`, `SaveUnanswered` | `_test_target`, `_save_result_for_worker` |
| `SaveRaises`, `Excepted`, `Reread`, `Retake`, `SaveFailed` | the handler of unexpected exceptions: `_claim_specific` again, in its two halves, then the save of a failure |
| `FindSuccesses`, `CreateScanBatch`, `CallbackFails` | `batch_completed_callback` = `create_import_scan_batch` |
| `Renew`, `ApplyLost` | the heartbeat |
| `Shutdown`, `ShutdownEnds`, `Crash`, `Tick` | the process and the clock |

`import.copy` is the `ImportBatch` object of the request's session. With
`expire_on_commit=False` it is not refreshed by commits; a rollback expires it only
when a transaction is open, that is after an IntegrityError (`ImportConflict` commits
from the table's values) and not after a row that does not parse. A flush writes the
attributes that changed, so `Bumped` takes the changed counters from the copy and
leaves the others as the workers wrote them. A worker's transaction is one step,
because it locks the `import_batches` row before it counts.

| Run | Instance | Shows |
|---|---|---|
| `imports_tests` | 2 rows in 4 sheets (two tested rows, a repeated device, a known device, a row that does not parse), limits 1 and 2, 2 processes, 2 faults | `TestCap`, `OneFirstScan`, `RowsAccounted`, `SettledByOwner`, and under fairness `EveryRowTested` |
| `imports_first_scan` | no fault, 1 process | violation, section 10 |

A fault is a crash, a failing or unanswered call, a heartbeat held up between its two
halves, a lease that ends under a live execution, or an aborted import. Two are
needed for the longest error path: the lease of a row ends, another claim returns the
row to PENDING, and the old execution, whose save raises, takes it again. Fairness:
test threads run on (collectors have timeouts), dispatchers poll, time passes. The
import and the heartbeats need none: what is promised of a row holds without them.
The two halves of `_claim_specific` are separate steps in every run, and anything may
happen between them. `SettledByOwner` therefore says what survives that: a running test
gets its result only from the process that holds its live lease, and a result is lost
only to a thread between those two halves.

## 7. LeaderScheduler, Retention, SchedulerService

`LeaderScheduler` is the elector thread of each process (`TryLock`, `StartScheduler`,
`ReadDevices`, `SyncDevices`, `Notice`, `ElectionFails`, `Shutdown`, `Lose`), the loss of
its session (`Drop`) or its death (`LeaderCrash`), and the requests that change devices
in two steps: the commit (`CreateDevice`, `UpdateDevice`, `EditCluster`, which applies
the cluster's settings to all members) and then `SyncDevice` with the values that
request saved; for a deletion `RemoveDevice` first and then `DeleteDevice` or
`RefuseDelete`. PostgreSQL frees the lock when the session ends, the process notices
at its next `SELECT 1`: in between there may be two running schedulers.

`Retention` is `_purge_history` chunk by chunk: `RawSelect` and `RawDelete` with the
watermark, `ReadGroups`, `ScanSelect` and `ScanDelete` per group of retention days.
`SchedulerService` composes the two: the job of a device enqueues it, the daily job
starts a purge, and a purge survives the loss of the lock (`shutdown(wait=False)`).

| Run | Instance | Shows |
|---|---|---|
| `scheduler_service` | 2 processes, one of which may die or stop, 1 device, 1 lost session or failing election, and 1 request or else 2 scans and purges on 4 days | `OnlyHolderStays`, `LeaderFollowsItsRequests`, and under fairness `LoserYields`, `SomeoneLeads`, `PurgeEnds` (both halves of a purge have several chunks while leaders change) |
| `scheduler_jobs` | 2 processes that stay up, 1 request | violation, section 10 |

`JobsFollowDevices`, what one would expect of the jobs, does not hold. What does hold is
`LeaderFollowsItsRequests`: the history variable `stray` collects the devices touched by
a request that some process other than the leader served, that overlapped an election
or another request for the device, or that was refused; for all others the leader's
jobs are right. It was also checked with two and three requests (without the purge).
One session loss, one shutdown or crash, and a second process to take over are the
steps of a leader change; a longer run repeats them. Requests and purges share no state, so
a behaviour of the run has one or the other (`RequestOrPurge`, which holds back only steps
that no fairness forces). Fairness: weak, for each elector
thread and each running purge. Processes are not forced to stop, sessions not to drop.

## 8. TopologyHistory, ClusterTopology

`TopologyHistory` adds to `Retention` what scans store: `content[i]`, the kept connection
records of scan i, and `Observations`, which `sync_service_observations` derives from
them in the same transaction. The aggregations are operators:

| Operator | Code |
|---|---|
| `AggregateRecords` | `aggregate_service_connections`: raw records, in Python |
| `GroupsOf`, `LocalsOf`, `SamplesOf`, `MergeGroups` | the three queries of `_aggregate_observation_groups` and the merge of their results |
| `BuildTopology`, `DiffScans`, `Previous` | `build_topology`, `diff_scans`, `get_scan_diff` |
| `GroupEdges`, `FullGraph`, `TargetGraph`, `EdgeConnections` | `group_cluster_edges`, `build_cluster_topology` without and with a cluster, `build_edge_connections` |

A reader takes them query by query (`LoadCurrentScans`, `QueryGroups`, `QueryLocals`,
`QuerySamples`, `Answer`), under READ COMMITTED, beside `AddScanOutcome` and purges.

`topology_reads` (2 devices, 3 scans, 2 days, 2 purges with chunks of one scan, one
reader, four inventories) shows

* `LatestTwoReadable`, `NothingOverdue`: the purge keeps what it must and deletes what it
  should, for every interleaving with new scans and a second purge;
* `SqlMatchesPython`, `CurrentViewsAgree`: each aggregation is the reference definition of
  the other, wherever both have their data;
* `LatestDiffIsWhole`, `StoredIsShown`: nothing a view or a diff needs is purged under
  it;
* `TargetGraphIsOneHop`, `EdgeListsMatchGraph`: the queries narrowed to a cluster or an
  edge lose nothing of the full graph.

A device may have one scan stored by a version that did not normalise addresses, with
one address in both notations: merging them is what the SQL aggregation adds. The
inventories cover two clusters, an internal network, a device outside all clusters and
an address two devices share. The constraint `Scenario` lets the second device be
scanned once, and two purges run together only on the last day and without a reader;
purges are interchangeable (`PurgerSymmetry`). Reads change nothing, so the properties of
the operators are evaluated in the states without a reader.

## 9. Theorems

Proved with TLAPS for every number of tasks, devices, processes, threads, rows, scans,
keys and faults, from the ASSUMEs of the modules (finite sets, positive lease, TTL and
chunk size, NoWorker not a worker, devices and rows with numbers as ids, at least two
kept scans, every device of the scheduler one that retention looks at, reports of scans
that are sequences of records with a remote address in one of the two notations or none,
inventories in which every device is in a cluster of the set or in none, a finite number
of threads) and, where a theorem says so, from a condition on the environment:

| Condition | Theorems | Why |
|---|---|---|
| none | all theorems not named below | |
| `SlowTransactions = FALSE` | `RunningCapHolds` | a settlement that outlives its lease hides a RUNNING row from a claim (`ScanLease_slow.cfg`) |
| `TimelyHeartbeats`, `SlowTransactions = FALSE` | `OneExecutionHolds` | otherwise a lease ends under a live execution, and the row is claimed again |
| the same and `MaxFaults = 0` | `RemoteCapHolds`, `ShutdownLeavesNothingHolds` | a claim whose commit is not answered leaves rows with no thread; a late `_fail_unexpected_task` can settle a task the same process has meanwhile claimed again, and the collection of a settled row counts for no limit |

Only theorems of `ScanLeaseProofs` have one. Each is a condition under which
`lease_timely` checks the property, and without it there is a counterexample.

`ScanLeaseProofs`:

* `TypeCorrect`: the type invariant with `ThreadsHaveTasks`, inductive together.
* `OwnershipHolds`: `OnlyRunningIsOwned`, `LockedRowStaysOwned` and `RecordedOnce`
  hold together with the types. None is inductive alone. That a task is recorded
  once rests on a settling thread finding its row still RUNNING at the commit, long
  after it looked; that is `LockedRowStaysOwned`, which in turn needs that claims
  skip locked rows and that a row has at most one holder, within one process too.
* `SettledIsFinalHolds`, `SettledByOwnerHolds`: action properties, from the same
  invariant.
* `ImplementsQueueHolds`: `Spec => Queue!Spec`, the refinement of `WorkQueue`. `TableStep`
  says which steps write the table; `ClaimIsGrant` and `SettlementIsSettle` map the two
  kinds that change owner or status, the second from `LockedRowStaysOwned`; every
  other step is a stuttering step of the queue.
* `RunningCapHolds`: the strengthening `LocksAreLive` says that a locked row has a live
  lease: then SKIP LOCKED never hides an expired row, and after the reset the live
  rows a claim counts are all RUNNING rows.
* `OneExecutionHolds`, from `Timely`. A thread owns its row or the row is settled
  (`OwnsOrSettled`), so a claim, which takes neither kind, hands out only tasks nobody
  executes (`OneExecutor`). `RenewalExtends` is what the clock needs: a renewal commits the
  end of the lease it computed when it began, and together with its age that is never
  later than a full lease, so it does not bring the end forward.
* `ShutdownLeavesNothingHolds`, `RemoteCapHolds`, from `Faultless`:
  every execution owns its row (`StillOwns`), every row of a process that has not
  crashed is executed by it (`OwnerExecutes`), and what a heartbeat reports as lost has
  been settled (`LostIsSettled`). So every collection has a RUNNING row of its own.

`BatchProofs`, from one invariant, `BatchInv`:

* `TypeCorrect`, `CountersMatchItemsHolds`, `CompletedIsSettledHolds`. The counters are
  written by transactions that counted earlier, so the invariant says of every open
  transaction that what it has counted stays true until it commits (`RecountsOK`): the
  items it counted change only through tasks or batches that it has locked itself. That
  two transactions lock no task and recount no batch in common is `Apart`; that a commit
  changes no item of a batch it has not recounted is `Covers`. `Fits` weakens the equality
  for batches that lost an item to the cascade of a device: the counters may be too high,
  but never report completion early. `CompletedIsSettled` follows for all batches: in a
  COMPLETED one each item has a result (`Fits`), and it is the result of its task
  (`SettledAlike`).
* `QueueOverrunBoundedHolds`, from `QueueInv`, for any number of processes. Give each
  process `QueueSize` places: every active task has a place of its own (`TasksPlaced`), and a
  request that has found room has reserved places of its process for the tasks it will
  insert (`Reserved`), since it is alone under its `_enqueue_lock` (`OneHolder`). When a request
  counts, all active tasks and its new ones fit into the places of its process alone, so the
  assignment can be made anew.

`ImportProofs`:

* `TestCapHolds`: a claim gives out at most what is missing to the limit, a single row is
  taken only below it, and renewals keep live leases alive, they never revive one.
* `RowsAccountedHolds`, from `RowsInv`: for the counters only the import writes, the stale
  copy agrees with the table, although for the others it does not.
* `SettledByOwnerHolds`, from `TestInv`. `TestMoves` names the steps that write a result or
  take one back; that a commit of the import is none of them needs that a row a thread
  works on has been put up for a test (`ThreadsTested`), which no later step undoes.
* `OneFirstScanHolds`: a callback creates the batch some time after it has read the
  successes. They may be tested again by then, but they stay rows this import brought in
  with a password (`TestedIsImported`, `ThreadsTested`).

`RetentionProofs` holds lemmas only: what purges, new scans and the clock keep true
(`RetentionInv`). A chunk is deleted some time after it was selected; it still holds no
scan that must be kept because scans of a device are stored in the order of their start
and, within one group, deleted oldest first (`ScansOrdered`, `OldestFirst`). Two modules
compose it:

* `SchedulerProofs`: `ServiceKeepsLatestScans`, `ServiceLeavesNothingOverdue`, with purges
  that run on in a process that has lost the lock. `OnlyHolderStaysHolds` needs that the
  session and the lock end together (`LinkHolds`). `LeaderFollowsItsRequestsHolds` needs
  `JobsInv`: what an election has read is still so for all devices no request is at
  work on (`SyncingFresh`), a stopped scheduler keeps jobs of stray devices only
  (`IdleJobsStray`), and an open request is about to bring the job in line with the device
  (`RequestsServed`).
* `HistoryProofs`: `LatestTwoReadableHolds`, `NothingOverdueHolds`, `LatestDiffIsWholeHolds`
  (the scan a diff looks for ranks second, so its records are kept), and
  `StoredIsShownHolds`, from `ReaderOK`: each query of a view has found a group, the local
  addresses and a sample or its stand-in for every observation that is still stored,
  whatever was purged between them.

Four more theorems of `HistoryProofs` are about what the views compute. In each state they
compare two operators, so the work is in the operators; from the reachable states they
need that the stored scans are what reports are (`ContentTyped`) and the invariant of the
purges, among others that the latest scans still have their records (`RetentionInv`).

* `SqlMatchesPythonHolds`. Both aggregations are first described by the same key: the
  rows of the window that agree in device, protocol, normalised address and service. In
  Python that is one step (`PythonShows`). In SQL it is two: `GROUP BY` makes a group for each
  notation an address is stored in (`GroupsAre`, `LocalsAre`), and the merge joins the groups
  of one normalised key (`GroupsOfService`); that counting scans, taking the earliest and
  latest day, the row shown and the local addresses commutes with it is `MergedDays`,
  `MergedLast` and `MergedAddresses`.
* `CurrentViewsAgreeHolds`: what is shown of the current scan of a device, from records, has
  an observation of that scan, and conversely; its records are there because it ranks
  first (`CurrentIsKept`).
* `TargetGraphIsOneHopHolds`, `EdgeListsMatchGraphHolds`. A narrowed query sees only a part of
  the observations. If the part is closed, that is, contains with an observation every
  one of the same normalised key, aggregating it gives just the services of the whole that
  lie in it (`AggregateOfPart`, `ServicesOfPart`), and edges inside it have the same
  services (`EdgesOfPart`). The condition of each query is shown to select such a part, with
  every service of the cluster or of the edge (`TargetServices`, `EdgeServices`). For an
  external target the part is not closed when an observation has the mapped notation;
  this is the exception in `EdgeListsMatchGraph` (section 10).

`AdmissionProofs`. The handlers are computed point by point (`DeletePoints` and so on), and
`BalanceSteps` says how what is held changes from one point to the next.

* `RemoteHoldsLittleHolds`, for all handlers: the points where one waits for a device
  (`RemotePoints`) are those at which it has given everything back, or, in `update_device`, all
  but the connection of its first read (`RemoteHeld`); that a thread is always at a
  point of its handler needs that a conflict is two points past the start of its
  transaction (`CommitPoints`).
* `LimitsHold`, which no run states: slots and connections never exceed `Capacity`, one
  thread at most is under `_enqueue_lock`, and no thread holds more than two connections,
  which is why `FreeConnection` counts up to two. A step takes only what there is room for
  (`Takes`), and going back after a conflict gives back what was taken since
  (`AmountMoves`). It holds for all handlers, `update` included.

`TopologyCacheProofs`:

* `TypeCorrect`.
* `OneBuildPerKeyHolds`: from `BuilderRegistered`, whoever builds is in `_inflight`.
* `StalenessBoundedHolds`: from `AgesBounded`. A value under construction has aged
  no more than its build, an entry no more than a build and the part of the TTL it
  has used up.

The strengthened invariants were checked with TLC on the instances of the runs before they
were proved. Two repairs of the models came from proofs: the guards of a CASE in
`ImportPipeline!ClaimRows` overlapped, and a stored scan of an older version could share its
day with another one of its device, which `ScansOrdered` excludes.

Only model-checked: all liveness (fairness and ENABLED are out of the prover's reach). Every
invariant and every action property of a passing run is a theorem.

## 10. Disagreements found

Each of these runs checks one property that a document, a message or a test of the
repository states, and TLC refutes it. `PROJECT.json` quotes the lines.

| Run | What happens |
|---|---|
| `batches_stuck` | a batch that joins a task just being settled stays unfinished for ever |
| `imports_first_scan` | the tests of an import finish, for the time being, before the import does: the scan batch is created from the rows tested so far, and later ones are never scanned |
| `scheduler_jobs` | a device created, changed or deleted through a process that does not lead keeps the job it had, or none, on the leader |

Further configurations show more of them; TLC needs seconds for each (`tlc -config
<configuration>.cfg MC<module>`):

| Configuration | Property | Against | What happens |
|---|---|---|---|
| `ScanLease_late` | `RemoteCap` | `README.md:86` | a process whose heartbeat is late collects on while its rows are claimed by another: more collections than `SCAN_MAX_WORKERS` |
| `ScanLease_slow` | `RunningCap` | `task_leases.py:90` | with heartbeats in time, the lease of a row ends during its settlement; a claim neither resets the row (it is locked) nor counts it (it has expired): more RUNNING rows than the limit |
| `ScanLease_unrenewed` | `CollectionIsRenewed` | `test_scan_lease_recovery.py:274` | a process loses a task and claims it again; the end of the old execution takes the id out of `_active_task_ids`, and the new collection is not renewed any more |
| `ScanLease_dispatcher` | `Takeover` | `README.md:89` | `_dispatch_loop` has no handler: one failed claim ends dispatching in a process that serves on, and nobody takes over from one that dies. The import dispatcher has one |
| `ScanBatches_overrun` | `QueueBounded` | `test_scan_queue.py:192` | two processes count the queue, each under its own lock, and both fill the last place |
| `ScanBatches_urgency` | `PriorityOnlyRises` | `test_scan_queue.py:180` | two processes raise the priority of one task, and the lower one is written last |
| `ScanBatches_deleted` | `DeleteSparesRunning` | `api.py:558` | `cancel_device` reads the active task without a lock, a claim comes in, and the cascade deletes a running task |
| `DbAdmission_deletions` | `EveryHandlerEnds` | `test_scan_queue.py:406` | `delete_device` takes a slot and then `_enqueue_lock`, an enqueue the lock and then a slot, and neither wait has a timeout: as many deletions as slots and one enqueue stop each other |
| `DbAdmission_update` | `RemoteHoldsNothing` | `README.md:91` | `update_device` has read the device through the request's session when it tests the connection |
| `ImportPipeline_unscanned` | `TestedIsScanned` | `README.md:121` | the last result is committed, but unanswered, or the process dies before the callback: nobody creates the scan batch. Without a fault the property holds on this instance |
| `ImportPipeline_retaken` | `ResultsAreFinal` | `README.md:90` | `_claim_specific` writes a row it has read before it waited for the advisory lock, over the result another process has saved |

And one that a change of a definition shows: `EdgeListsMatchGraph` without its exception
fails for external targets. `_node_target_addresses` (`topology.py:582`) gives only the plain
notation, so the list of an edge misses connections stored as `::ffff:a.b.c.d`, which the
graph counts. Only scans of older versions have them.

And, found by reading:

* `main.py:100` gives the cache a TTL of 300 seconds, README.md:94 says 30.
* The comment at `scheduler.py:39` says that raw records are read back for the latest two
  scans only, but `/scans/{id}/topology` and `/scans/{id}/diff` serve any scan, and for an
  older one answer from records that may be gone.
* A filter on the connection state hides services of the history whose raw sample was
  purged: their stand-in has no state.

## 11. Abstractions

* `attempt_count`, `started_at` of tasks, `heartbeat_at`, messages and triggers are
  informational and left out. A collection yields success or failure.
* A claim is one step in ScanLease: the advisory lock excludes other claims, and
  it skips locked rows. In ScanBatches it is not, since the recounts wait for locks.
* A request reads all devices of its batch in one step. In the code they are read
  one after the other; what it finds for one device does not depend on the others.
* Devices whose `collection_enabled` is false behave like absent ones.
* The release of a task (the finally clause) is one step with the commit it follows.
* One import at a time; deletions of imported devices and the cluster an import
  assigns are left out of ImportPipeline.
* A service is a protocol, a port and a process name together. Addresses are model
  values in one of two notations; only stored scans of older versions have the mapped
  one, since collectors normalise. `remote_hostname` is never set by the application
  and left out. Host names resolve to constants: the cache of `topology.py:157-190` is left
  out, and with it that a host is resolved again at lines 413 and 593, after
  `load_cluster_graph_context`, with another answer when its entry has expired and the
  name has moved in between. The inventory does not change during a read.
* A lease counts from the start of the transaction that writes it (`now()` of PostgreSQL).
  A renewal in ScanLease has its age; the lease written by a claim or by `_claim_specific`,
  whose wait for the advisory lock is short against it, counts from the write.
* Scans of one device start on different days, as one worker scans it at a time.
* The removal of one chunk and its commit are one step; so are the additions of the
  jobs in `_become_leader`.

The type invariants of all modules hold in their runs' instances; only that of
`ScanLease` is listed as a property of a run, the others accompany the proofs.

## 12. Plan

Done: the modules above, the refinements, and the theorems of section 9. What would come
next: the two statements that read devices and clusters (`topology.py:252`) as two steps,
with a cluster deleted in between; and the creation and deletion of clusters beside
imports.

Not modelled, and not planned: collectors (parsing of command output; to the rest of
the system a collection succeeds or fails), pages and browser code (rendering; the
polling only reads), paging and listings (single read-only queries), schemas,
configuration, logging, credentials and start-up checks (no state that changes),
migrations (run offline; the constraints the transactions rely on are guards of
ScanBatches and ImportPipeline).
