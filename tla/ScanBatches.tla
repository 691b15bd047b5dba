---------------------------- MODULE ScanBatches ----------------------------
(***************************************************************************)
(* Requests that put devices on the scan queue, the batches that group     *)
(* them, and the transactions that move tasks and keep the batch counters. *)
(*                                                                         *)
(* Sources: app/services/scan_queue.py (enqueue_device, create_batch,      *)
(* cancel_device), app/services/task_leases.py (refresh_scan_batches and   *)
(* the claim), app/routes/api.py (delete_device, run_scan,                 *)
(* create_scan_batch, retry_scan_batch_failures), app/models.py.           *)
(*                                                                         *)
(* The database runs READ COMMITTED: the variables device, task, item and  *)
(* batch are what has been committed, tx[a] is the open transaction of     *)
(* actor a.  A request reads first and writes later; its flush and commit  *)
(* are one step, since the rows it writes stay locked in between.  Who may *)
(* claim which task and whose lease has ended is the subject of ScanLease; *)
(* here any PENDING task may be claimed and any RUNNING one may expire.    *)
(***************************************************************************)
EXTENDS Integers, FiniteSets

CONSTANTS
    Devices,      \* ids of the devices rows
    Processes,    \* web processes, each with its own _enqueue_lock
    Requests,     \* threads that serve requests
    ProcessOf,    \* the process of each of them
    Sessions,     \* threads that claim and settle tasks
    Priorities,   \* PRIORITY_SCHEDULED, PRIORITY_BATCH, PRIORITY_MANUAL, ...
    BatchPriority,\* PRIORITY_BATCH
    QueueSize,    \* SCAN_QUEUE_SIZE
    MaxTasks,     \* bound: scan_tasks rows ever inserted
    MaxBatches,   \* bound: scan_batches rows ever inserted
    Deletions     \* may devices be deleted?

ASSUME DevicesAssumption == IsFiniteSet(Devices) /\ Devices \subseteq Nat
ASSUME ProcessesAssumption == IsFiniteSet(Processes)
ASSUME RequestsAssumption ==
    /\ ProcessOf \in [Requests -> Processes]
    /\ Requests \cap Sessions = {}
ASSUME PriorityAssumption == Priorities \subseteq Nat /\ BatchPriority \in Priorities
ASSUME BoundsAssumption ==
    QueueSize \in Nat /\ MaxTasks \in Nat /\ MaxBatches \in Nat
ASSUME DeletionsAssumption == Deletions \in BOOLEAN

TaskIds  == 1..MaxTasks
BatchIds == 1..MaxBatches
NoTask   == 0
NoBatch  == 0
Actors   == Requests \cup Sessions

Active   == {"PENDING", "RUNNING"}
Settled  == {"SUCCESS", "FAILED", "CANCELLED"}
Statuses == Active \cup Settled

(* "none": not inserted yet; "gone": deleted with its device.              *)
RowStates == Statuses \cup {"none", "gone"}

VARIABLES
    device,     \* the devices that exist
    task,       \* scan_tasks: device, status, priority
    item,       \* scan_batch_items by batch and device: task, status
    batch,      \* counters and status of scan_batches
    nextTask,   \* sequences of the primary keys
    nextBatch,
    tx          \* open transactions

vars == <<device, task, item, batch, nextTask, nextBatch, tx>>

NoCount == [status |-> "none", pending |-> 0, running |-> 0, success |-> 0,
            failed |-> 0]
NoRow   == [id |-> NoTask, status |-> "none", priority |-> 0]

(* op: what the transaction does; devices, seen, priority: what a request  *)
(* wants and has read; rows: the status it gives to the tasks it locked;   *)
(* todo: the batches it still has to recount; counts: those it has locked  *)
(* and recounted.                                                          *)
IdleTx == [op       |-> "idle",
           devices  |-> {},
           seen     |-> [d \in Devices |-> NoRow],
           priority |-> 0,
           rows     |-> [t \in TaskIds |-> "none"],
           todo     |-> {},
           counts   |-> [b \in BatchIds |-> NoCount]]

-----------------------------------------------------------------------------
(***************************************************************************)
(* Reading the tables.                                                     *)
(***************************************************************************)
ActiveTasks == {t \in TaskIds : task[t].status \in Active}

(* _active_task: the partial unique index allows at most one.              *)
ActiveTask(d) ==
    LET own == {t \in ActiveTasks : task[t].device = d}
    IN  IF own = {} THEN NoRow
        ELSE LET t == CHOOSE u \in own : TRUE
             IN  [id |-> t, status |-> task[t].status, priority |-> task[t].priority]

TaskLocked(t) == \E a \in Actors : tx[a].rows[t] # "none"

(* The batches that have an item of one of these tasks.                    *)
BatchesOf(T) ==
    {b \in BatchIds :
        \E d \in Devices : item[b][d].status \in Statuses /\ item[b][d].task \in T}

(* The status of an item as transaction a sees it: its own writes first.   *)
ItemStatus(a, b, d) ==
    LET i == item[b][d]
    IN  IF i.status \in Statuses /\ tx[a].rows[i.task] # "none"
        THEN tx[a].rows[i.task] ELSE i.status

(* Mutant of BatchStatus: RUNNING items are forgotten.                     *)
BatchStatusPendingOnly(pending, running, done) ==
    IF pending > 0 THEN IF done > 0 THEN "RUNNING" ELSE "PENDING"
    ELSE "COMPLETED"

BatchStatus(pending, running, done) ==
    IF pending + running > 0
    THEN IF running + done > 0 THEN "RUNNING" ELSE "PENDING"
    ELSE "COMPLETED"

(* The counters refresh_scan_batches derives from the statuses of items.   *)
Tally(st) ==
    LET Count(S) == Cardinality({d \in Devices : st[d] \in S})
        pending == Count({"PENDING"})
        running == Count({"RUNNING"})
        success == Count({"SUCCESS"})
        failed  == Count({"FAILED", "CANCELLED"})
    IN  [status  |-> BatchStatus(pending, running, success + failed),
         pending |-> pending, running |-> running,
         success |-> success, failed |-> failed]

-----------------------------------------------------------------------------
Init ==
    /\ device = Devices
    /\ task = [t \in TaskIds |-> [device |-> 0, status |-> "none", priority |-> 0]]
    /\ item = [b \in BatchIds |-> [d \in Devices |->
                  [task |-> NoTask, status |-> "none"]]]
    /\ batch = [b \in BatchIds |-> NoCount]
    /\ nextTask = 1
    /\ nextBatch = 1
    /\ tx = [a \in Actors |-> IdleTx]

-----------------------------------------------------------------------------
(***************************************************************************)
(* Transactions that move tasks: the claim, which also returns expired     *)
(* tasks to the queue, and the settlement (_persist_outcome,               *)
(* _fail_unexpected_task).  Each locks its task rows, flushes the new      *)
(* statuses of tasks and items, then locks and recounts batch after batch. *)
(***************************************************************************)
Begin(a, op, rows) ==
    tx' = [tx EXCEPT ![a] = [IdleTx EXCEPT
             !.op = op, !.rows = rows,
             !.todo = BatchesOf({t \in TaskIds : rows[t] # "none"})]]

(* One claim at a time (advisory lock); locked rows are skipped.           *)
Claim(a) ==
    /\ tx[a].op = "idle"
    /\ \A c \in Sessions : tx[c].op # "claim"
    /\ \E expired \in SUBSET {t \in TaskIds : task[t].status = "RUNNING" /\ ~TaskLocked(t)} :
       \E claimed \in SUBSET (expired \cup
                      {t \in TaskIds : task[t].status = "PENDING" /\ ~TaskLocked(t)}) :
          /\ expired \cup claimed # {}
          /\ Begin(a, "claim", [t \in TaskIds |->
                IF t \in claimed THEN "RUNNING"
                ELSE IF t \in expired THEN "PENDING" ELSE "none"])
    /\ UNCHANGED <<device, task, item, batch, nextTask, nextBatch>>

Settle(a, t, result) ==
    /\ tx[a].op = "idle"
    /\ task[t].status = "RUNNING"
    /\ ~TaskLocked(t)
    /\ Begin(a, "settle", [u \in TaskIds |-> IF u = t THEN result ELSE "none"])
    /\ UNCHANGED <<device, task, item, batch, nextTask, nextBatch>>

(* Mutant of BatchFree: the batch row is read without FOR UPDATE.          *)
BatchFreeAlways(a, b) == TRUE

(* SELECT ... FOR UPDATE of refresh_scan_batches gets the row.             *)
BatchFree(a, b) == \A c \in Actors \ {a} : tx[c].counts[b] = NoCount

(* The claim recounts its batches in the order of their ids, the others in *)
(* no particular order.                                                    *)
RefreshBatch(a, b) ==
    /\ b \in tx[a].todo
    /\ tx[a].op = "claim" => \A c \in tx[a].todo : b <= c
    /\ BatchFree(a, b)
    /\ tx' = [tx EXCEPT
         ![a].todo = @ \ {b},
         ![a].counts[b] = Tally([d \in Devices |-> ItemStatus(a, b, d)])]
    /\ UNCHANGED <<device, task, item, batch, nextTask, nextBatch>>

(* What a transaction wrote into tasks, items and batches.                 *)
WrittenTask(a, t) ==
    [task[t] EXCEPT !.status = IF tx[a].rows[t] = "none" THEN @ ELSE tx[a].rows[t]]
WrittenItem(a, b, d) == [item[b][d] EXCEPT !.status = ItemStatus(a, b, d)]
WrittenBatch(a, b) == IF tx[a].counts[b] = NoCount THEN batch[b] ELSE tx[a].counts[b]

Commit(a) ==
    /\ tx[a].op \in {"claim", "settle"}
    /\ tx[a].todo = {}
    /\ task' = [t \in TaskIds |-> WrittenTask(a, t)]
    /\ item' = [b \in BatchIds |-> [d \in Devices |-> WrittenItem(a, b, d)]]
    /\ batch' = [b \in BatchIds |-> WrittenBatch(a, b)]
    /\ tx' = [tx EXCEPT ![a] = IdleTx]
    /\ UNCHANGED <<device, nextTask, nextBatch>>

(* A deadlock victim, a constraint violation, a lost connection or a lost  *)
(* lease: nothing is written, and whether the caller tries again is up to  *)
(* it.                                                                     *)
Rollback(a) ==
    /\ tx[a].op # "idle"
    /\ tx' = [tx EXCEPT ![a] = IdleTx]
    /\ UNCHANGED <<device, task, item, batch, nextTask, nextBatch>>

-----------------------------------------------------------------------------
(***************************************************************************)
(* Requests that enqueue.  The process's _enqueue_lock is held from the    *)
(* read to the commit.                                                     *)
(***************************************************************************)
HoldsEnqueueLock(r) == tx[r].op \in {"enqueue", "batch", "cancel"}
EnqueueLockFree(r) ==
    \A q \in Requests : ProcessOf[q] = ProcessOf[r] => ~HoldsEnqueueLock(q)

(* Mutant of QueueHasRoom: one task too many.                              *)
QueueHasRoomForOneMore(op, new) ==
    Cardinality(ActiveTasks) + new <= QueueSize + 1

(* ScanQueueFull otherwise.  A single device whose task is still active    *)
(* needs no room.                                                          *)
QueueHasRoom(op, new) ==
    \/ op = "enqueue" /\ new = 0
    \/ Cardinality(ActiveTasks) + new <= QueueSize

(* The reads of _enqueue_in_session for every device of the request.       *)
Read(r, op, D, priority) ==
    LET seen == [d \in Devices |-> IF d \in D THEN ActiveTask(d) ELSE NoRow]
    IN  /\ tx[r].op = "idle"
        /\ EnqueueLockFree(r)
        /\ QueueHasRoom(op, Cardinality({d \in D : seen[d].id = NoTask}))
        /\ tx' = [tx EXCEPT ![r] = [IdleTx EXCEPT
              !.op = op, !.devices = D, !.seen = seen, !.priority = priority]]
        /\ UNCHANGED <<device, task, item, batch, nextTask, nextBatch>>

(* run_scan and the scheduler: one device, a manual or scheduled priority. *)
EnqueueDevice(r) ==
    \E d \in device, p \in Priorities \ {BatchPriority} : Read(r, "enqueue", {d}, p)

(* create_scan_batch: all devices, or those of a cluster.                  *)
CreateBatch(r) == \E D \in SUBSET device : Read(r, "batch", D, BatchPriority)

(* retry_scan_batch_failures: the failed devices of a batch, if any.       *)
FailedDevices(b) == {d \in Devices : item[b][d].status \in {"FAILED", "CANCELLED"}}
RetryFailures(r) ==
    \E b \in BatchIds :
        FailedDevices(b) # {} /\ Read(r, "batch", FailedDevices(b), BatchPriority)

(* elif priority > task.priority, on the row as it was read.               *)
Raises(r, d) ==
    tx[r].seen[d].id # NoTask /\ tx[r].priority > tx[r].seen[d].priority

(* Inserts and updates of _enqueue_in_session and _attach_batch_item, the  *)
(* recount of the new batch, and the commit.  The unique index refuses a   *)
(* second active task of a device; foreign keys refuse rows of deleted     *)
(* devices and tasks and make the insert of an item wait for a transaction *)
(* that has the task row FOR UPDATE.                                       *)
Enqueue(r) ==
    LET q       == tx[r]
        fresh   == {d \in q.devices : q.seen[d].id = NoTask}
        NewId(d) == nextTask + Cardinality({e \in fresh : e < d})
        TaskOf(d) == IF d \in fresh THEN NewId(d) ELSE q.seen[d].id
        st      == [d \in Devices |->
                      IF d \in fresh THEN "PENDING" ELSE q.seen[d].status]
        b       == nextBatch
    IN  /\ q.op \in {"enqueue", "batch"}
        /\ q.devices \subseteq device
        /\ \A d \in fresh : ActiveTask(d) = NoRow
        /\ \A d \in q.devices \ fresh :
             /\ task[q.seen[d].id].status \in Statuses
             /\ q.op = "batch" => \A a \in Sessions : tx[a].rows[q.seen[d].id] = "none"
             /\ Raises(r, d) => ~TaskLocked(q.seen[d].id)
        /\ nextTask + Cardinality(fresh) <= MaxTasks + 1
        /\ task' = [t \in TaskIds |->
             IF \E d \in fresh : NewId(d) = t
             THEN [device |-> CHOOSE d \in fresh : NewId(d) = t,
                   status |-> "PENDING", priority |-> q.priority]
             ELSE IF \E d \in q.devices : q.seen[d].id = t /\ Raises(r, d)
             THEN [task[t] EXCEPT !.priority = q.priority]
             ELSE task[t]]
        /\ \/ /\ q.op = "enqueue"
              /\ UNCHANGED <<item, batch, nextBatch>>
           \/ /\ q.op = "batch"
              /\ b \in BatchIds
              /\ item' = [item EXCEPT ![b] = [d \in Devices |->
                    IF d \in q.devices THEN [task |-> TaskOf(d), status |-> st[d]]
                    ELSE [task |-> NoTask, status |-> "none"]]]
              /\ batch' = [batch EXCEPT ![b] = Tally(st)]
              /\ nextBatch' = nextBatch + 1
        /\ nextTask' = nextTask + Cardinality(fresh)
        /\ tx' = [tx EXCEPT ![r] = IdleTx]
        /\ UNCHANGED device

-----------------------------------------------------------------------------
(***************************************************************************)
(* delete_device: cancel_device within the request's transaction, under    *)
(* _enqueue_lock, then the deletion with its cascade, without it.          *)
(***************************************************************************)

(* The active task is read without a lock; a RUNNING one means 409.        *)
DeleteDevice(r) ==
    \E d \in device :
        /\ Deletions
        /\ tx[r].op = "idle"
        /\ EnqueueLockFree(r)
        /\ ActiveTask(d).status # "RUNNING"
        /\ tx' = [tx EXCEPT ![r] = [IdleTx EXCEPT
              !.op = IF ActiveTask(d) = NoRow THEN "delete" ELSE "cancel",
              !.devices = {d},
              !.seen[d] = ActiveTask(d)]]
        /\ UNCHANGED <<device, task, item, batch, nextTask, nextBatch>>

(* The UPDATE goes by id alone: whatever became of the task since.         *)
CancelTask(r) ==
    LET t == tx[r].seen[CHOOSE d \in tx[r].devices : TRUE].id
    IN  /\ tx[r].op = "cancel"
        /\ tx[r].rows = IdleTx.rows
        /\ task[t].status \in Statuses
        /\ ~TaskLocked(t)
        /\ tx' = [tx EXCEPT ![r].rows[t] = "CANCELLED", ![r].todo = BatchesOf({t})]
        /\ UNCHANGED <<device, task, item, batch, nextTask, nextBatch>>

(* cancel_device returns and gives up _enqueue_lock.                       *)
Cancelled(r) ==
    /\ tx[r].op = "cancel"
    /\ tx[r].rows # IdleTx.rows
    /\ tx[r].todo = {}
    /\ tx' = [tx EXCEPT ![r].op = "delete"]
    /\ UNCHANGED <<device, task, item, batch, nextTask, nextBatch>>

(* db.delete(device) and the commit: its tasks and items go with it, the   *)
(* batches keep the counters of the recount before.                        *)
DeleteCommit(r) ==
    LET d == CHOOSE e \in tx[r].devices : TRUE
        own == {t \in TaskIds : task[t].device = d /\ task[t].status \in Statuses}
    IN  /\ tx[r].op = "delete"
        /\ d \in device
        /\ \A t \in own, a \in Actors \ {r} : tx[a].rows[t] = "none"
        /\ device' = device \ {d}
        /\ task' = [t \in TaskIds |->
             IF t \in own THEN [task[t] EXCEPT !.status = "gone"] ELSE task[t]]
        /\ item' = [b \in BatchIds |->
             IF item[b][d].status \in Statuses
             THEN [item[b] EXCEPT ![d].status = "gone"] ELSE item[b]]
        /\ batch' = [b \in BatchIds |-> WrittenBatch(r, b)]
        /\ tx' = [tx EXCEPT ![r] = IdleTx]
        /\ UNCHANGED <<nextTask, nextBatch>>

-----------------------------------------------------------------------------
Next ==
    \/ \E a \in Sessions :
          \/ Claim(a) \/ Commit(a)
          \/ \E t \in TaskIds, result \in {"SUCCESS", "FAILED"} : Settle(a, t, result)
    \/ \E r \in Requests :
          \/ EnqueueDevice(r) \/ CreateBatch(r) \/ RetryFailures(r) \/ Enqueue(r)
          \/ DeleteDevice(r) \/ CancelTask(r) \/ Cancelled(r) \/ DeleteCommit(r)
    \/ \E a \in Actors :
          \/ Rollback(a)
          \/ \E b \in BatchIds : RefreshBatch(a, b)

Spec == Init /\ [][Next]_vars

-----------------------------------------------------------------------------
(* Types of the tables and of the open transactions.                       *)
CountType == [status : {"none", "PENDING", "RUNNING", "COMPLETED"},
              pending : Nat, running : Nat, success : Nat, failed : Nat]
TypeOK ==
    /\ device \subseteq Devices
    /\ task \in [TaskIds -> [device : Devices \cup {0}, status : RowStates,
                             priority : Priorities \cup {0}]]
    /\ item \in [BatchIds -> [Devices ->
                   [task : TaskIds \cup {NoTask}, status : RowStates]]]
    /\ batch \in [BatchIds -> CountType]
    /\ nextTask \in 1..(MaxTasks + 1)
    /\ nextBatch \in 1..(MaxBatches + 1)
    /\ tx \in [Actors ->
         [op : {"idle", "claim", "settle", "enqueue", "batch", "cancel", "delete"},
          devices : SUBSET Devices,
          seen : [Devices -> [id : TaskIds \cup {NoTask}, status : RowStates,
                              priority : Priorities \cup {0}]],
          priority : Priorities \cup {0},
          rows : [TaskIds -> RowStates],
          todo : SUBSET BatchIds,
          counts : [BatchIds -> CountType]]]

Created == {b \in BatchIds : batch[b].status # "none"}
Intact(b) == \A d \in Devices : item[b][d].status # "gone"

(* The persisted counters and status of a batch are those of its items, at *)
(* every commit and however many transactions change its items at once     *)
(* (until one of its devices is deleted, which recounts nothing).          *)
CountersMatchItems ==
    \A b \in Created : Intact(b) =>
        batch[b] = Tally([d \in Devices |-> item[b][d].status])

(* A batch reported COMPLETED has no task that is still waiting or         *)
(* running, in whatever order its items were attached, claimed, expired,   *)
(* settled and cancelled: all its items are settled, and their tasks with  *)
(* the same result.                                                        *)
CompletedIsSettled ==
    \A b \in Created : batch[b].status = "COMPLETED" =>
        \A d \in Devices : item[b][d].status \in Statuses =>
            /\ item[b][d].status \in Settled
            /\ task[item[b][d].task].status = item[b][d].status

(* A batch that is not COMPLETED still has a task that can complete it:    *)
(* executing the tasks settles all linked batches.                         *)
UnfinishedHasTask ==
    \A b \in Created : batch[b].status # "COMPLETED" =>
        \E d \in Devices : /\ item[b][d].status \in Active
                           /\ task[item[b][d].task].status \in Active

(* SCAN_QUEUE_SIZE bounds the tasks that wait or run.  _enqueue_lock is    *)
(* one of the process, so this is not so when several processes serve.     *)
QueueBounded == Cardinality(ActiveTasks) <= QueueSize

(* How far the queue can grow beyond it: each process counts the rows      *)
(* under its own _enqueue_lock and cannot see what the others are about to *)
(* insert, so that each may fill the queue once.                           *)
QueueOverrunBounded ==
    Cardinality(ActiveTasks) <= QueueSize * Cardinality(Processes)

(* Enqueueing a device that is queued already never makes its task less    *)
(* urgent.                                                                 *)
KeepsUrgent ==
    \A t \in ActiveTasks : task'[t].priority >= task[t].priority
PriorityOnlyRises == [][KeepsUrgent]_vars

(* A device is not deleted while a scan of it is running.                  *)
SparesRunning ==
    \A t \in TaskIds :
        task[t].status = "RUNNING" => task'[t].status # "gone"
DeleteSparesRunning == [][SparesRunning]_vars

=============================================================================
