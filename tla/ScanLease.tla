----------------------------- MODULE ScanLease -----------------------------
(***************************************************************************)
(* The leased scan queue: several web processes claim rows of scan_tasks   *)
(* in PostgreSQL, collect the device remotely without holding a            *)
(* transaction, renew their leases from a heartbeat thread and persist     *)
(* the outcome if the lease is still theirs.                               *)
(*                                                                         *)
(* Sources: app/services/scan_queue.py (ScanQueueService),                 *)
(* app/services/task_leases.py, app/services/scans.py (lock_for, collect), *)
(* app/services/database_transactions.py (how run fails).                  *)
(*                                                                         *)
(* A Worker is one incarnation of a process: worker_id is a fresh uuid, so *)
(* a restarted process is another Worker.  A Slot is a thread of its       *)
(* ThreadPoolExecutor; max_workers is both the size of the pool and the    *)
(* database-wide limit.  Time is relative: lease[t] counts the ticks that  *)
(* lease_expires_at lies ahead of the database clock, 0 standing for NULL  *)
(* or a moment that has passed.                                            *)
(***************************************************************************)
EXTENDS Integers, FiniteSets

CONSTANTS
    Tasks,             \* ids of the scan_tasks rows, in creation order
    Priority,          \* scan_tasks.priority
    Workers,           \* process incarnations (worker_id)
    Slots,             \* executor threads of each process
    NoWorker,          \* NULL in scan_tasks.worker_id
    LeaseTicks,        \* lease_seconds, in ticks
    MaxFaults,         \* bound: database calls that fail
    MaxCrashes,        \* bound: processes that die
    SlowTransactions,  \* may the clock advance while a transaction is open?
    TimelyHeartbeats   \* do heartbeats always come before their lease ends?

ASSUME TasksAssumption == Tasks \subseteq Nat \ {0} /\ IsFiniteSet(Tasks)
ASSUME PriorityAssumption == Priority \in [Tasks -> Nat]
ASSUME SlotsAssumption == IsFiniteSet(Slots) /\ Slots # {}
ASSUME WorkersAssumption == IsFiniteSet(Workers) /\ NoWorker \notin Workers
ASSUME LeaseAssumption == LeaseTicks \in Nat \ {0}
ASSUME BoundsAssumption == MaxFaults \in Nat /\ MaxCrashes \in Nat
ASSUME TimingAssumption ==
    SlowTransactions \in BOOLEAN /\ TimelyHeartbeats \in BOOLEAN

NoTask == 0
MaxWorkers == Cardinality(Slots)

Results  == {"SUCCESS", "FAILED"}
Statuses == {"PENDING", "RUNNING"} \cup Results

VARIABLES
    status,    \* scan_tasks.status
    worker,    \* scan_tasks.worker_id
    lease,     \* scan_tasks.lease_expires_at, as ticks left
    runs,      \* number of ScanRun rows written for the task, by result
    proc,      \* life of the process
    pc,        \* where each executor thread is
    job,       \* the task it executes
    outcome,   \* the outcome it collected
    active,    \* _active_task_ids
    lost,      \* _lost_task_ids
    beat,      \* the heartbeat thread
    faults     \* database failures still allowed to happen

tableVars  == <<status, worker, lease, runs>>
threadVars == <<pc, job, outcome>>
leaseSets  == <<active, lost>>
vars == <<status, worker, lease, runs, proc, pc, job, outcome, active, lost,
          beat, faults>>

-----------------------------------------------------------------------------
(***************************************************************************)
(* Where a thread can be.  It executes from "submitted" on; it waits for   *)
(* the row lock in Wanting and holds it in Holding.  The finally clause of *)
(* _execute_task has not run yet in Unreleased; in "fail" and "failing" it *)
(* has, and only _fail_unexpected_task is left.                            *)
(***************************************************************************)
Wanting    == {"persist", "record", "fail"}
Holding    == {"persisting", "recording", "failing"}
Unreleased == {"submitted", "collecting", "persist", "persisting",
               "record", "recording"}
PCs        == {"idle", "claimed"} \cup Unreleased \cup Wanting \cup Holding

Locked(p) == CASE p = "persist" -> "persisting"
               [] p = "record"  -> "recording"
               [] p = "fail"    -> "failing"

(* "undispatched" is a serving process whose dispatcher thread has died.   *)
Lives   == {"new", "up", "undispatched", "stopping", "draining", "stopped",
            "crashed"}
Running == {"up", "undispatched", "stopping", "draining"}

BeatPCs == {"idle", "snapshot", "renewing", "returned"}
IdleBeat == [pc |-> "idle", ids |-> {}, rows |-> {}, age |-> 0]

(* Mutant of RowLocked: the SELECT of a settlement lost its FOR UPDATE.    *)
RowLockedByBeatOnly(t) == \E w \in Workers : t \in beat[w].rows

(* Row locks held by open transactions: FOR UPDATE of a persisting thread  *)
(* and the UPDATE of a heartbeat.                                          *)
RowLocked(t) ==
    \/ \E w \in Workers, s \in Slots : job[w][s] = t /\ pc[w][s] \in Holding
    \/ \E w \in Workers : t \in beat[w].rows

TransactionOpen ==
    \/ \E w \in Workers, s \in Slots : pc[w][s] \in Holding
    \/ \E w \in Workers : beat[w].pc = "renewing"

(* Mutant of Owns: the clause no longer asks whose the lease is.           *)
OwnsIfStarted(w, t) == status[t] # "PENDING"

(* The WHERE clause shared by the lease check, the renewal, the persisting *)
(* and the failing of a task.                                              *)
Owns(w, t) == status[t] = "RUNNING" /\ worker[t] = w /\ lease[t] > 0

RunningTasks == {t \in Tasks : status[t] = "RUNNING"}
LiveTasks    == {t \in RunningTasks : lease[t] > 0}
IdleSlots(w) == {s \in Slots : pc[w][s] = "idle"}

(* Mutants of ExpiredTasks: without SKIP LOCKED's effect, one tick early,  *)
(* and with the recovery of expired rows left out.                         *)
ExpiredEvenLocked == {t \in RunningTasks : lease[t] = 0}
ExpiredTooEarly   == {t \in RunningTasks : lease[t] <= 1 /\ ~RowLocked(t)}
ExpiredNever      == {}

(* RUNNING rows past their lease that no transaction has locked.           *)
ExpiredTasks == {t \in RunningTasks : lease[t] = 0 /\ ~RowLocked(t)}

LesserOf(m, n) == IF m <= n THEN m ELSE n

(* ORDER BY priority DESC, created_at, id.                                 *)
Before(t, u) ==
    \/ Priority[t] > Priority[u]
    \/ Priority[t] = Priority[u] /\ t < u

(* The rows LIMIT n selects from the candidates.                           *)
IsHead(S, candidates, n) ==
    /\ S \subseteq candidates
    /\ Cardinality(S) = LesserOf(n, Cardinality(candidates))
    /\ \A t \in S, u \in candidates \ S : Before(t, u)

(* Mutants of ClaimLimit: local capacity only, and one claim short.        *)
ClaimLimitLocal(w) == Cardinality(IdleSlots(w))
ClaimLimitOneShort(w) ==
    LET free == MaxWorkers - Cardinality(LiveTasks) - 1
    IN  LesserOf(Cardinality(IdleSlots(w)), IF free > 0 THEN free ELSE 0)

(* min(local_capacity, max(global_limit - active_count, 0))                *)
ClaimLimit(w) ==
    LET free == MaxWorkers - Cardinality(LiveTasks)
    IN  LesserOf(Cardinality(IdleSlots(w)), IF free > 0 THEN free ELSE 0)

-----------------------------------------------------------------------------
Init ==
    /\ status  = [t \in Tasks |-> "PENDING"]
    /\ worker  = [t \in Tasks |-> NoWorker]
    /\ lease   = [t \in Tasks |-> 0]
    /\ runs    = [t \in Tasks |-> [r \in Results |-> 0]]
    /\ proc    = [w \in Workers |-> "new"]
    /\ pc      = [w \in Workers |-> [s \in Slots |-> "idle"]]
    /\ job     = [w \in Workers |-> [s \in Slots |-> NoTask]]
    /\ outcome = [w \in Workers |-> [s \in Slots |-> "FAILED"]]
    /\ active  = [w \in Workers |-> {}]
    /\ lost    = [w \in Workers |-> {}]
    /\ beat    = [w \in Workers |-> IdleBeat]
    /\ faults  = MaxFaults

(***************************************************************************)
(* Steps shared by the actions of an executor thread.                      *)
(***************************************************************************)
Goto(w, s, p) == pc' = [pc EXCEPT ![w][s] = p]

(* _execute_safely returns: the future is done and the thread is free.     *)
Return(w, s) ==
    /\ Goto(w, s, "idle")
    /\ job' = [job EXCEPT ![w][s] = NoTask]
    /\ outcome' = [outcome EXCEPT ![w][s] = "FAILED"]

(* The finally clause of _execute_task.                                    *)
Release(w, t) ==
    /\ active' = [active EXCEPT ![w] = @ \ {t}]
    /\ lost' = [lost EXCEPT ![w] = @ \ {t}]

(* TaskLeaseLost, or a return, out of _execute_task.                       *)
Abandon(w, s) == Return(w, s) /\ Release(w, job[w][s])

(* Any other exception out of _execute_task: _execute_safely goes on to    *)
(* _fail_unexpected_task after the finally clause.                         *)
Unexpected(w, s) ==
    /\ Goto(w, s, "fail")
    /\ Release(w, job[w][s])
    /\ UNCHANGED <<job, outcome>>

DatabaseFails == faults > 0 /\ faults' = faults - 1

-----------------------------------------------------------------------------
(***************************************************************************)
(* The process: start, the steps of shutdown, and its death.               *)
(***************************************************************************)
Start(w) ==
    /\ proc[w] = "new"
    /\ proc' = [proc EXCEPT ![w] = "up"]
    /\ UNCHANGED <<tableVars, threadVars, leaseSets, beat, faults>>

(* shutdown sets _stop_event.  A dispatcher that is inside an iteration    *)
(* finishes it ("stopping"); a dead one is joined at once ("draining").    *)
BeginShutdown(w) ==
    /\ proc[w] \in {"up", "undispatched"}
    /\ proc' = [proc EXCEPT ![w] = IF @ = "up" THEN "stopping" ELSE "draining"]
    /\ UNCHANGED <<tableVars, threadVars, leaseSets, beat, faults>>

JoinDispatcher(w) ==
    /\ proc[w] = "stopping"
    /\ \A s \in Slots : pc[w][s] # "claimed"
    /\ proc' = [proc EXCEPT ![w] = "draining"]
    /\ UNCHANGED <<tableVars, threadVars, leaseSets, beat, faults>>

(* Mutant of FinishShutdown: executor.shutdown(wait=False).                *)
FinishShutdownUndrained(w) ==
    /\ proc[w] = "draining"
    /\ beat[w].pc = "idle"
    /\ proc' = [proc EXCEPT ![w] = "stopped"]
    /\ UNCHANGED <<tableVars, threadVars, leaseSets, beat, faults>>

(* executor.shutdown(wait=True) has returned, then the heartbeat is        *)
(* stopped and joined.                                                     *)
FinishShutdown(w) ==
    /\ proc[w] = "draining"
    /\ IdleSlots(w) = Slots
    /\ beat[w].pc = "idle"
    /\ proc' = [proc EXCEPT ![w] = "stopped"]
    /\ UNCHANGED <<tableVars, threadVars, leaseSets, beat, faults>>

(* The process dies; PostgreSQL rolls back what it had open.               *)
Crash(w) ==
    /\ proc[w] \in Running
    /\ Cardinality({v \in Workers : proc[v] = "crashed"}) < MaxCrashes
    /\ proc' = [proc EXCEPT ![w] = "crashed"]
    /\ pc' = [pc EXCEPT ![w] = [s \in Slots |-> "idle"]]
    /\ job' = [job EXCEPT ![w] = [s \in Slots |-> NoTask]]
    /\ outcome' = [outcome EXCEPT ![w] = [s \in Slots |-> "FAILED"]]
    /\ active' = [active EXCEPT ![w] = {}]
    /\ lost' = [lost EXCEPT ![w] = {}]
    /\ beat' = [beat EXCEPT ![w] = IdleBeat]
    /\ UNCHANGED <<tableVars, faults>>

-----------------------------------------------------------------------------
(***************************************************************************)
(* The dispatcher thread.                                                  *)
(*                                                                         *)
(* The claim transaction runs under the advisory lock: it returns expired  *)
(* rows nobody has locked to PENDING, counts the live leases and takes the *)
(* head of the queue, the rows it has just returned included.  Each task   *)
(* taken is handed to an idle thread.  The iteration a stopping process    *)
(* was in is its last.                                                     *)
(***************************************************************************)
Waiting == {t \in Tasks : status[t] = "PENDING"} \cup ExpiredTasks

(* Ways to hand the tasks of S to threads, one thread each.                *)
Handouts(S, threads) ==
    {h \in [threads -> S \cup {NoTask}] :
        /\ \A t \in S : \E s \in threads : h[s] = t
        /\ \A s, r \in threads : h[s] = h[r] /\ h[s] # NoTask => s = r}

ClaimRows(w, S) ==
    /\ IsHead(S, Waiting, ClaimLimit(w))
    /\ status' = [t \in Tasks |-> IF t \in S THEN "RUNNING"
          ELSE IF t \in ExpiredTasks THEN "PENDING" ELSE status[t]]
    /\ worker' = [t \in Tasks |-> IF t \in S THEN w
          ELSE IF t \in ExpiredTasks THEN NoWorker ELSE worker[t]]
    /\ lease' = [t \in Tasks |-> IF t \in S THEN LeaseTicks ELSE lease[t]]
    /\ UNCHANGED runs

HandOut(w, h) ==
    LET Starts(s) == s \in IdleSlots(w) /\ h[s] # NoTask
    IN  /\ pc' = [pc EXCEPT ![w] =
              [s \in Slots |-> IF Starts(s) THEN "claimed" ELSE @[s]]]
        /\ job' = [job EXCEPT ![w] =
              [s \in Slots |-> IF Starts(s) THEN h[s] ELSE @[s]]]

Dispatching(w) ==
    /\ proc[w] \in {"up", "stopping"}
    /\ \A s \in Slots : pc[w][s] # "claimed"
    /\ IdleSlots(w) # {}

Claim(w) ==
    /\ Dispatching(w)
    /\ \E S \in SUBSET Waiting :
         /\ ClaimRows(w, S)
         /\ \E h \in Handouts(S, IdleSlots(w)) : HandOut(w, h)
    /\ proc' = [proc EXCEPT ![w] = IF @ = "up" THEN "up" ELSE "draining"]
    /\ UNCHANGED <<outcome, leaseSets, beat, faults>>

(* After the commit: the ids become active, are no longer lost, and are    *)
(* submitted to the executor.                                              *)
Register(w) ==
    LET claimed == {s \in Slots : pc[w][s] = "claimed"}
        ids     == {job[w][s] : s \in claimed}
    IN  /\ claimed # {}
        /\ active' = [active EXCEPT ![w] = @ \cup ids]
        /\ lost' = [lost EXCEPT ![w] = @ \ ids]
        /\ pc' = [pc EXCEPT ![w] = [s \in Slots |->
                     IF s \in claimed THEN "submitted" ELSE @[s]]]
        /\ UNCHANGED <<tableVars, proc, job, outcome, beat, faults>>

(* _dispatch_loop has no handler around _claim_tasks: a claim that raises  *)
(* DatabaseUnavailable or TransactionConflict ends the thread.  When the   *)
(* connection breaks during the commit the rows may have been claimed all  *)
(* the same, for nobody.                                                   *)
DispatcherDies(w) ==
    /\ Dispatching(w)
    /\ DatabaseFails
    /\ (\E S \in SUBSET Waiting : ClaimRows(w, S)) \/ UNCHANGED tableVars
    /\ proc' = [proc EXCEPT ![w] = IF @ = "up" THEN "undispatched" ELSE "draining"]
    /\ UNCHANGED <<threadVars, leaseSets, beat>>

-----------------------------------------------------------------------------
(***************************************************************************)
(* An executor thread: _execute_safely around _execute_task.               *)
(***************************************************************************)

(* The per-device lock of collect is held by another thread of the process *)
(* (the lock is not shared between processes).                             *)
DeviceBusy(w, t) == \E r \in Slots : pc[w][r] = "collecting" /\ job[w][r] = t

(* The lease check and the entry of collect.  collect may refuse the task: *)
(* it does not wait for the device lock (ScanAlreadyRunning), and the      *)
(* device may be gone or disabled (DeviceNotFound, CollectionDisabled).    *)
BeginCollect(w, s) ==
    /\ pc[w][s] = "submitted"
    /\ LET t == job[w][s]
       IN  \/ ~Owns(w, t) /\ Abandon(w, s)
           \/ Owns(w, t) /\ Unexpected(w, s)
           \/ /\ Owns(w, t) /\ ~DeviceBusy(w, t)
              /\ Goto(w, s, "collecting")
              /\ UNCHANGED <<job, outcome, leaseSets>>
    /\ UNCHANGED <<tableVars, proc, beat, faults>>

(* The sessions of the lease check and of _load_target are not run by the  *)
(* transaction runner: a database error there is unexpected.               *)
LoadFails(w, s) ==
    /\ pc[w][s] = "submitted"
    /\ DatabaseFails
    /\ Unexpected(w, s)
    /\ UNCHANGED <<tableVars, proc, beat>>

(* collect returns an outcome, and _raise_if_lease_lost looks at what the  *)
(* heartbeat found meanwhile.                                              *)
FinishCollect(w, s, r) ==
    /\ pc[w][s] = "collecting"
    /\ \/ job[w][s] \in lost[w] /\ Abandon(w, s)
       \/ /\ job[w][s] \notin lost[w]
          /\ outcome' = [outcome EXCEPT ![w][s] = r]
          /\ Goto(w, s, "persist")
          /\ UNCHANGED <<job, leaseSets>>
    /\ UNCHANGED <<tableVars, proc, beat, faults>>

(* SELECT ... FOR UPDATE of _persist_outcome and of _fail_unexpected_task, *)
(* which waits for the row; no row means TaskLeaseLost.                    *)
LockRow(w, s) ==
    /\ pc[w][s] \in Wanting
    /\ ~RowLocked(job[w][s])
    /\ \/ /\ Owns(w, job[w][s])
          /\ Goto(w, s, Locked(pc[w][s]))
          /\ UNCHANGED <<job, outcome, leaseSets>>
       \/ /\ ~Owns(w, job[w][s])
          /\ pc[w][s] # "fail"
          /\ Abandon(w, s)
       \/ /\ ~Owns(w, job[w][s])
          /\ pc[w][s] = "fail"
          /\ Return(w, s)
          /\ UNCHANGED leaseSets
    /\ UNCHANGED <<tableVars, proc, beat, faults>>

ClearOwner(t) ==
    /\ worker' = [worker EXCEPT ![t] = NoWorker]
    /\ lease' = [lease EXCEPT ![t] = 0]

(* The writes of the transaction: the outcome of _persist_outcome with its *)
(* ScanRun row, or the bare FAILED of _fail_unexpected_task.               *)
Settle(w, s) ==
    LET t == job[w][s]
        r == IF pc[w][s] = "persisting" THEN outcome[w][s] ELSE "FAILED"
    IN  /\ status' = [status EXCEPT ![t] = r]
        /\ ClearOwner(t)
        /\ runs' = IF pc[w][s] = "failing" THEN runs
                   ELSE [runs EXCEPT ![t][r] = @ + 1]

Commit(w, s) ==
    /\ pc[w][s] \in Holding
    /\ Settle(w, s)
    /\ \/ pc[w][s] # "failing" /\ Abandon(w, s)
       \/ pc[w][s] = "failing" /\ Return(w, s) /\ UNCHANGED leaseSets
    /\ UNCHANGED <<proc, beat, faults>>

(* How run can fail once the row is locked.                                *)
(* The retries are used up: the conflict itself is recorded as FAILED.     *)
PersistConflict(w, s) ==
    /\ pc[w][s] = "persisting"
    /\ DatabaseFails
    /\ Goto(w, s, "record")
    /\ UNCHANGED <<tableVars, job, outcome, leaseSets, proc, beat>>

(* DatabaseUnavailable, whether or not the commit had reached the server.  *)
TransactionFails(w, s) ==
    /\ pc[w][s] \in Holding
    /\ DatabaseFails
    /\ Settle(w, s) \/ UNCHANGED tableVars
    /\ \/ pc[w][s] = "persisting" /\ Unexpected(w, s)
       \/ pc[w][s] = "recording" /\ Abandon(w, s)
       \/ pc[w][s] = "failing" /\ Return(w, s) /\ UNCHANGED leaseSets
    /\ UNCHANGED <<proc, beat>>

-----------------------------------------------------------------------------
(***************************************************************************)
(* The heartbeat thread.                                                   *)
(***************************************************************************)
Snapshot(w) ==
    /\ proc[w] \in Running
    /\ beat[w].pc = "idle"
    /\ active[w] # {}
    /\ beat' = [beat EXCEPT ![w] = [IdleBeat EXCEPT !.pc = "snapshot",
                                                   !.ids = active[w]]]
    /\ UNCHANGED <<tableVars, threadVars, leaseSets, proc, faults>>

(* now() and the UPDATE of renew_scan_leases: it waits for rows that other *)
(* transactions hold, and locks the rows it changes.                       *)
RenewLeases(w) ==
    LET owned == {t \in beat[w].ids : Owns(w, t)}
    IN  /\ beat[w].pc = "snapshot"
        /\ \A t \in owned : ~RowLocked(t)
        /\ beat' = [beat EXCEPT ![w].pc = "renewing", ![w].rows = owned]
        /\ UNCHANGED <<tableVars, threadVars, leaseSets, proc, faults>>

(* Mutant of Renewed: the lease is extended from where it ended.           *)
RenewedFromOldEnd(w) ==
    lease' = [t \in Tasks |->
                IF t \in beat[w].rows THEN lease[t] + LeaseTicks ELSE lease[t]]

(* The renewed leases run from the transaction's now().                    *)
Renewed(w) ==
    lease' = [t \in Tasks |->
                IF t \in beat[w].rows THEN LeaseTicks - beat[w].age ELSE lease[t]]

RenewCommit(w) ==
    /\ beat[w].pc = "renewing"
    /\ Renewed(w)
    /\ beat' = [beat EXCEPT ![w] =
          [IdleBeat EXCEPT !.pc = "returned", !.ids = beat[w].ids \ beat[w].rows]]
    /\ UNCHANGED <<status, worker, runs, threadVars, leaseSets, proc, faults>>

(* The renewal fails, committed or not, and its answer is not seen.        *)
RenewFails(w) ==
    /\ beat[w].pc = "renewing"
    /\ DatabaseFails
    /\ Renewed(w) \/ UNCHANGED lease
    /\ beat' = [beat EXCEPT ![w] = IdleBeat]
    /\ UNCHANGED <<status, worker, runs, threadVars, leaseSets, proc>>

(* Under _active_tasks_lock, possibly long after the snapshot.             *)
ApplyLost(w) ==
    /\ beat[w].pc = "returned"
    /\ active' = [active EXCEPT ![w] = @ \ beat[w].ids]
    /\ lost' = [lost EXCEPT ![w] = @ \cup beat[w].ids]
    /\ beat' = [beat EXCEPT ![w] = IdleBeat]
    /\ UNCHANGED <<tableVars, threadVars, proc, faults>>

-----------------------------------------------------------------------------
(***************************************************************************)
(* The database clock.  With TimelyHeartbeats every heartbeat fires and    *)
(* gets through before its leases end (heartbeat_seconds * 2 <             *)
(* lease_seconds), and so does the error handler, which no heartbeat       *)
(* serves.  That does not help a row that a settlement has locked, nor the *)
(* other rows of a heartbeat whose UPDATE waits for it.                    *)
(***************************************************************************)
HeartbeatWaits(w) ==
    /\ beat[w].pc = "snapshot"
    /\ \E t \in beat[w].ids : Owns(w, t) /\ RowLocked(t)

KeptInTime(w, s) ==
    /\ pc[w][s] \in Unreleased \cup {"claimed", "fail"}
    /\ Owns(w, job[w][s])
    /\ ~\E r \in Slots : job[w][r] = job[w][s] /\ pc[w][r] \in Holding
    /\ ~HeartbeatWaits(w)

Tick ==
    /\ LiveTasks # {} \/ \E w \in Workers : beat[w].pc = "renewing"
    /\ SlowTransactions \/ ~TransactionOpen
    /\ TimelyHeartbeats =>
         \A w \in Workers, s \in Slots :
            KeptInTime(w, s) => lease[job[w][s]] > 1
    /\ lease' = [t \in Tasks |-> IF lease[t] > 0 THEN lease[t] - 1 ELSE 0]
    /\ beat' = [w \in Workers |->
          IF beat[w].pc = "renewing" /\ beat[w].age < LeaseTicks
          THEN [beat[w] EXCEPT !.age = @ + 1] ELSE beat[w]]
    /\ UNCHANGED <<status, worker, runs, threadVars, leaseSets, proc, faults>>

ProcessStep(w) ==
    \/ Start(w) \/ BeginShutdown(w) \/ JoinDispatcher(w) \/ FinishShutdown(w)
    \/ Crash(w)

DispatcherStep(w) == Claim(w) \/ Register(w) \/ DispatcherDies(w)

ThreadStep(w, s) ==
    \/ BeginCollect(w, s) \/ LoadFails(w, s)
    \/ \E r \in Results : FinishCollect(w, s, r)
    \/ LockRow(w, s) \/ Commit(w, s)
    \/ PersistConflict(w, s) \/ TransactionFails(w, s)

HeartbeatStep(w) ==
    \/ Snapshot(w) \/ RenewLeases(w) \/ RenewCommit(w) \/ RenewFails(w)
    \/ ApplyLost(w)

Next ==
    \/ Tick
    \/ \E w \in Workers :
          \/ ProcessStep(w) \/ DispatcherStep(w) \/ HeartbeatStep(w)
          \/ \E s \in Slots : ThreadStep(w, s)

Spec == Init /\ [][Next]_vars

(***************************************************************************)
(* Fairness.  Every thread runs on: the dispatcher wakes at least every    *)
(* half second, the heartbeat fires on its timer, collectors have          *)
(* timeouts, transactions end.  A row lock is granted in queue order by    *)
(* PostgreSQL, so waiting for one is strongly fair.  Nothing obliges a     *)
(* process to shut down, to crash or to meet a database failure.           *)
(***************************************************************************)
Fairness ==
    /\ WF_vars(Tick)
    /\ \A w \in Workers :
         /\ WF_vars(Start(w))
         /\ WF_vars(JoinDispatcher(w))
         /\ WF_vars(FinishShutdown(w))
         /\ WF_vars(Claim(w))
         /\ WF_vars(Register(w))
         /\ WF_vars(Snapshot(w) \/ RenewCommit(w) \/ ApplyLost(w))
         /\ SF_vars(RenewLeases(w))
         /\ \A s \in Slots :
              /\ WF_vars(\/ BeginCollect(w, s) \/ Commit(w, s)
                         \/ \E r \in Results : FinishCollect(w, s, r))
              /\ SF_vars(LockRow(w, s))

FairSpec == Spec /\ Fairness

-----------------------------------------------------------------------------
(* Types of the rows, of the executor threads and of the lease sets.       *)
TypeOK ==
    /\ status \in [Tasks -> Statuses]
    /\ worker \in [Tasks -> Workers \cup {NoWorker}]
    /\ lease \in [Tasks -> 0..LeaseTicks]
    /\ runs \in [Tasks -> [Results -> Nat]]
    /\ proc \in [Workers -> Lives]
    /\ pc \in [Workers -> [Slots -> PCs]]
    /\ job \in [Workers -> [Slots -> Tasks \cup {NoTask}]]
    /\ outcome \in [Workers -> [Slots -> Results]]
    /\ active \in [Workers -> SUBSET Tasks]
    /\ lost \in [Workers -> SUBSET Tasks]
    /\ beat \in [Workers -> [pc : BeatPCs, ids : SUBSET Tasks,
                              rows : SUBSET Tasks, age : 0..LeaseTicks]]
    /\ faults \in 0..MaxFaults

(* A thread that is not idle executes a task.                              *)
ThreadsHaveTasks ==
    \A w \in Workers, s \in Slots : pc[w][s] # "idle" => job[w][s] \in Tasks

(* A row names a worker exactly while it is RUNNING, and no other row has  *)
(* a lease: whatever clears the status (persist, fail, expiry) clears      *)
(* worker_id and lease_expires_at with it.                                 *)
OnlyRunningIsOwned ==
    \A t \in Tasks :
        /\ status[t] = "RUNNING" <=> worker[t] # NoWorker
        /\ status[t] # "RUNNING" => lease[t] = 0

(* While a transaction that found the lease its own holds the row lock,    *)
(* the row stays RUNNING under that worker, even if the lease runs out     *)
(* before it commits: claims skip locked rows, and no second transaction   *)
(* holds the row.                                                          *)
LockedRowStaysOwned ==
    /\ \A w \in Workers, s \in Slots :
         pc[w][s] \in Holding =>
            /\ status[job[w][s]] = "RUNNING"
            /\ worker[job[w][s]] = w
            /\ \A v \in Workers : job[w][s] \notin beat[v].rows
            /\ \A r \in Slots \ {s} :
                 ~(job[w][r] = job[w][s] /\ pc[w][r] \in Holding)
    /\ \A w \in Workers : \A t \in beat[w].rows :
         status[t] = "RUNNING" /\ worker[t] = w

(* A task ends with at most one ScanRun row, and that row agrees with its  *)
(* status, whatever takeovers, retries, late results and unanswered        *)
(* commits happened on the way: SUCCESS has exactly one, FAILED has one or *)
(* (after _fail_unexpected_task) none, an unfinished task none.            *)
RecordedOnce ==
    \A t \in Tasks :
        /\ runs[t]["SUCCESS"] = IF status[t] = "SUCCESS" THEN 1 ELSE 0
        /\ runs[t]["FAILED"] <= IF status[t] = "FAILED" THEN 1 ELSE 0

(* What the next heartbeat round asks for, a task a thread executes.       *)
ActiveIsExecuted ==
    \A w \in Workers : \A t \in active[w] :
        \E s \in Slots : job[w][s] = t /\ pc[w][s] \in Unreleased

(* A live lease that no thread of its process works under does not go on:  *)
(* a heartbeat that took its snapshot before the thread gave the task up   *)
(* may still renew it, but no later one does, and the row becomes free to  *)
(* be taken over (_release_active_task in the finally of _execute_task).   *)
Abandoned(w, t) ==
    Owns(w, t) /\ \A s \in Slots : job[w][s] # t
AbandonedLeaseEnds ==
    \A w \in Workers, t \in Tasks : Abandoned(w, t) ~> ~Abandoned(w, t)

(* A remote collection under a live lease of its own process is one the    *)
(* heartbeats renew (test_heartbeat_keeps_long_remote_collection_owned).   *)
CollectionIsRenewed ==
    \A w \in Workers, s \in Slots :
        pc[w][s] = "collecting" /\ Owns(w, job[w][s]) => job[w][s] \in active[w]

(* A settled row is never written again: the late result of an old worker  *)
(* cannot overwrite it.                                                    *)
KeepsSettled ==
    \A t \in Tasks : status[t] \in Results =>
        status'[t] = status[t] /\ runs'[t] = runs[t]
SettledIsFinal == [][KeepsSettled]_vars

(* A row is settled only by a thread of the process it is leased to.       *)
SettlesAsOwner ==
    \A t \in Tasks : status[t] \notin Results /\ status'[t] \in Results =>
        /\ worker[t] \in Workers
        /\ \E s \in Slots : job[worker[t]][s] = t /\ pc[worker[t]][s] \in Holding
SettledByOwner == [][SettlesAsOwner]_vars

(* Never more RUNNING rows than the limit every process is configured      *)
(* with, expired leases included (claim_scan_tasks).  It needs             *)
(* transactions shorter than the leases: a claim skips a row that is       *)
(* locked beyond its lease and does not count it.                          *)
RunningCap == Cardinality(RunningTasks) <= MaxWorkers

(* Never more remote collections than the limit, over all processes, as    *)
(* long as heartbeats come in time (a collection whose lease has ended is  *)
(* not counted) and no database call fails.                                *)
Collecting == {x \in Workers \X Slots : pc[x[1]][x[2]] = "collecting"}
RemoteCap == Cardinality(Collecting) <= MaxWorkers

(* No task is executed by two threads at once, in whatever processes, as   *)
(* long as no lease ends under an execution.                               *)
OneExecution ==
    \A w, v \in Workers, s, r \in Slots :
        /\ pc[w][s] \in Unreleased /\ pc[v][r] \in Unreleased
        /\ job[w][s] = job[v][r]
        => w = v /\ s = r

(* A process that shut down in order leaves no row RUNNING in its name:    *)
(* dispatcher, executor and heartbeat are stopped in the order that lets   *)
(* every claimed task be settled.                                          *)
ShutdownLeavesNothing ==
    \A w \in Workers : proc[w] = "stopped" => \A t \in Tasks : worker[t] # w

(* As long as some process keeps serving, a row whose owner crashed is     *)
(* taken from it (a process whose claim has raised serves, but claims      *)
(* nothing any more: this needs that none does).                           *)
Serving == \E v \in Workers : proc[v] \in {"up", "undispatched"}
Takeover ==
    <>[]Serving =>
        \A t \in Tasks, w \in Workers :
            (worker[t] = w /\ proc[w] = "crashed") ~> worker[t] # w

(* As long as some process keeps serving, every task is settled.           *)
EveryTaskSettles ==
    <>[]Serving => \A t \in Tasks : <>(status[t] \in Results)

-----------------------------------------------------------------------------
(***************************************************************************)
(* The scan queue as a WorkQueue: scan_tasks.worker_id is the owner, a     *)
(* settled status the result.                                              *)
(***************************************************************************)
ResultOf(t) == IF status[t] \in Results THEN status[t] ELSE "unfinished"

Queue == INSTANCE WorkQueue WITH
    Items <- Tasks, Nobody <- NoWorker, known <- Tasks, owner <- worker,
    result <- [t \in Tasks |-> ResultOf(t)]

(* Whatever leases end, processes die, commits go unanswered or old and    *)
(* new executions of a task overlap, scan_tasks goes through the steps of  *)
(* WorkQueue only: rows change hands while they are unfinished and get     *)
(* their result once, from the process they belong to.                     *)
ImplementsQueue == Queue!Spec

=============================================================================
