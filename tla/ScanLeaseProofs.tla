-------------------------- MODULE ScanLeaseProofs --------------------------
(***************************************************************************)
(* Theorems about ScanLease for every number of tasks, processes and       *)
(* threads, every lease length and every number of faults and crashes.     *)
(***************************************************************************)
EXTENDS ScanLease, FiniteSetTheorems, TLAPS

-----------------------------------------------------------------------------
(***************************************************************************)
(* Type correctness.                                                       *)
(***************************************************************************)

BeatType == [pc : BeatPCs, ids : SUBSET Tasks, rows : SUBSET Tasks,
             age : 0..LeaseTicks]

(* A thread that moves on within its program stays well typed.             *)
LEMMA GotoType ==
    ASSUME TypeOK, NEW w \in Workers, NEW s \in Slots, NEW p \in PCs,
           Goto(w, s, p)
    PROVE  pc' \in [Workers -> [Slots -> PCs]]
BY DEF TypeOK, Goto

(* So does one that is handed back to the executor.                        *)
LEMMA ReturnType ==
    ASSUME TypeOK, NEW w \in Workers, NEW s \in Slots, Return(w, s)
    PROVE  /\ pc' \in [Workers -> [Slots -> PCs]]
           /\ job' \in [Workers -> [Slots -> Tasks \cup {NoTask}]]
           /\ outcome' \in [Workers -> [Slots -> Results]]
BY DEF TypeOK, Return, Goto, PCs, Results

(* The finally clause only removes ids.                                    *)
LEMMA ReleaseType ==
    ASSUME TypeOK, NEW w \in Workers, NEW t, Release(w, t)
    PROVE  /\ active' \in [Workers -> SUBSET Tasks]
           /\ lost' \in [Workers -> SUBSET Tasks]
BY DEF TypeOK, Release

(* Settling a task writes well-typed columns.                              *)
LEMMA SettleType ==
    ASSUME TypeOK, NEW w \in Workers, NEW s \in Slots, Settle(w, s)
    PROVE  /\ status' \in [Tasks -> Statuses]
           /\ worker' \in [Tasks -> Workers \cup {NoWorker}]
           /\ lease' \in [Tasks -> 0..LeaseTicks]
           /\ runs' \in [Tasks -> [Results -> Nat]]
<1> DEFINE t == job[w][s]
           r == IF pc[w][s] = "persisting" THEN outcome[w][s] ELSE "FAILED"
<1>1. r \in Results
  BY DEF TypeOK, Results
<1>2. /\ status' = [status EXCEPT ![t] = r]
      /\ worker' = [worker EXCEPT ![t] = NoWorker]
      /\ lease' = [lease EXCEPT ![t] = 0]
      /\ \/ runs' = runs
         \/ runs' = [runs EXCEPT ![t][r] = @ + 1]
  BY DEF Settle, ClearOwner
<1> HIDE DEF r, t
<1>3. status' \in [Tasks -> Statuses] /\ worker' \in [Tasks -> Workers \cup {NoWorker}]
  BY <1>1, <1>2 DEF TypeOK, Statuses
<1>4. lease' \in [Tasks -> 0..LeaseTicks]
  <2>1. lease \in [Tasks -> 0..LeaseTicks] /\ 0 \in 0..LeaseTicks
    BY LeaseAssumption DEF TypeOK
  <2>2. QED
    BY <1>2, <2>1
<1>5. runs' \in [Tasks -> [Results -> Nat]]
  <2>1. runs \in [Tasks -> [Results -> Nat]]
    BY DEF TypeOK
  <2>2. QED
    BY <1>1, <1>2, <2>1
<1>6. QED
  BY <1>3, <1>4, <1>5

(* The first state is well typed.                                          *)
LEMMA InitType == Init => TypeOK
BY LeaseAssumption, BoundsAssumption
   DEF Init, TypeOK, Statuses, Results, Lives, PCs, BeatPCs, IdleBeat, NoTask

(* What the claim transaction writes is well typed ...                     *)
LEMMA ClaimRowsType ==
    ASSUME TypeOK, NEW w \in Workers, NEW S \in SUBSET Waiting, ClaimRows(w, S)
    PROVE  /\ status' \in [Tasks -> Statuses]
           /\ worker' \in [Tasks -> Workers \cup {NoWorker}]
           /\ lease' \in [Tasks -> 0..LeaseTicks]
           /\ runs' \in [Tasks -> [Results -> Nat]]
<1>1. status' \in [Tasks -> Statuses] /\ worker' \in [Tasks -> Workers \cup {NoWorker}]
  BY DEF ClaimRows, TypeOK, Statuses
<1>2. lease' \in [Tasks -> 0..LeaseTicks]
  BY LeaseAssumption DEF ClaimRows, TypeOK
<1>3. QED
  BY <1>1, <1>2 DEF ClaimRows, TypeOK

(* ... and each claimed thread gets a task.                                *)
LEMMA ClaimType ==
    ASSUME TypeOK, NEW w \in Workers, Claim(w)
    PROVE  TypeOK'
<1>1. PICK S \in SUBSET Waiting :
         ClaimRows(w, S) /\ \E h \in Handouts(S, IdleSlots(w)) : HandOut(w, h)
  BY DEF Claim
<1>2. PICK h \in Handouts(S, IdleSlots(w)) : HandOut(w, h)
  BY <1>1
<1>3. S \subseteq Tasks /\ h \in [IdleSlots(w) -> Tasks \cup {NoTask}]
  BY DEF Waiting, ExpiredTasks, RunningTasks, Handouts
<1>4. pc' \in [Workers -> [Slots -> PCs]]
  BY <1>2 DEF HandOut, TypeOK, PCs
<1>5. job' \in [Workers -> [Slots -> Tasks \cup {NoTask}]]
  BY <1>2, <1>3 DEF HandOut, TypeOK
<1>6. proc' \in [Workers -> Lives]
  BY DEF Claim, TypeOK, Lives
<1>7. QED
  BY <1>1, <1>4, <1>5, <1>6, ClaimRowsType DEF Claim, TypeOK, leaseSets

(* The steps of a process's life.                                          *)
LEMMA ProcessType ==
    ASSUME TypeOK, NEW w \in Workers, ProcessStep(w)
    PROVE  TypeOK'
<1>1. CASE \/ Start(w) \/ BeginShutdown(w) \/ JoinDispatcher(w) \/ FinishShutdown(w)
  BY <1>1 DEF Start, BeginShutdown, JoinDispatcher, FinishShutdown, TypeOK, Lives,
              tableVars, threadVars, leaseSets
<1>2. CASE Crash(w)
  <2>1. IdleBeat \in BeatType
    BY LeaseAssumption DEF IdleBeat, BeatPCs, BeatType
  <2>2. pc' \in [Workers -> [Slots -> PCs]] /\ proc' \in [Workers -> Lives]
    BY <1>2 DEF Crash, TypeOK, PCs, Lives
  <2>3. QED
    BY <1>2, <2>1, <2>2 DEF Crash, TypeOK, Results, tableVars, BeatType
<1>3. QED
  BY <1>1, <1>2 DEF ProcessStep

(* The dispatcher's other steps.                                           *)
LEMMA DispatcherType ==
    ASSUME TypeOK, ThreadsHaveTasks, NEW w \in Workers, DispatcherStep(w)
    PROVE  TypeOK'
<1>1. CASE Register(w)
  <2>1. {job[w][s] : s \in {r \in Slots : pc[w][r] = "claimed"}} \subseteq Tasks
    BY DEF ThreadsHaveTasks
  <2>2. pc' \in [Workers -> [Slots -> PCs]]
    BY <1>1 DEF Register, TypeOK, PCs, Unreleased
  <2>3. active' \in [Workers -> SUBSET Tasks] /\ lost' \in [Workers -> SUBSET Tasks]
    BY <1>1, <2>1 DEF Register, TypeOK
  <2>4. QED
    BY <1>1, <2>2, <2>3 DEF Register, TypeOK, tableVars
<1>2. CASE DispatcherDies(w)
  <2>1. /\ status' \in [Tasks -> Statuses]
        /\ worker' \in [Tasks -> Workers \cup {NoWorker}]
        /\ lease' \in [Tasks -> 0..LeaseTicks]
        /\ runs' \in [Tasks -> [Results -> Nat]]
    <3>1. CASE UNCHANGED tableVars
      BY <3>1 DEF TypeOK, tableVars
    <3>2. QED
      BY <1>2, <3>1, ClaimRowsType DEF DispatcherDies
  <2>2. faults' \in 0..MaxFaults /\ proc' \in [Workers -> Lives]
    BY <1>2, BoundsAssumption DEF DispatcherDies, DatabaseFails, TypeOK, Lives
  <2>3. QED
    BY <1>2, <2>1, <2>2 DEF DispatcherDies, TypeOK, threadVars, leaseSets
<1>3. QED
  BY <1>1, <1>2, ClaimType DEF DispatcherStep

(* The steps of an executor thread.                                        *)
LEMMA ThreadType ==
    ASSUME TypeOK, NEW w \in Workers, NEW s \in Slots, ThreadStep(w, s)
    PROVE  TypeOK'
<1>1. ASSUME Abandon(w, s)
      PROVE  /\ pc' \in [Workers -> [Slots -> PCs]]
             /\ job' \in [Workers -> [Slots -> Tasks \cup {NoTask}]]
             /\ outcome' \in [Workers -> [Slots -> Results]]
             /\ active' \in [Workers -> SUBSET Tasks]
             /\ lost' \in [Workers -> SUBSET Tasks]
  BY <1>1, ReturnType, ReleaseType DEF Abandon
<1>2. ASSUME Unexpected(w, s)
      PROVE  /\ pc' \in [Workers -> [Slots -> PCs]]
             /\ job' \in [Workers -> [Slots -> Tasks \cup {NoTask}]]
             /\ outcome' \in [Workers -> [Slots -> Results]]
             /\ active' \in [Workers -> SUBSET Tasks]
             /\ lost' \in [Workers -> SUBSET Tasks]
  <2>1. "fail" \in PCs
    BY DEF PCs, Wanting
  <2>2. QED
    BY <1>2, <2>1, GotoType, ReleaseType DEF Unexpected, TypeOK
<1>3. CASE BeginCollect(w, s)
  <2>1. "collecting" \in PCs
    BY DEF PCs, Unreleased
  <2>2. CASE Abandon(w, s)
    BY <1>1, <1>3, <2>2 DEF BeginCollect, TypeOK, tableVars
  <2>3. CASE Unexpected(w, s)
    BY <1>2, <1>3, <2>3 DEF BeginCollect, TypeOK, tableVars
  <2>4. CASE Goto(w, s, "collecting") /\ UNCHANGED <<job, outcome, leaseSets>>
    BY <1>3, <2>1, <2>4, GotoType DEF BeginCollect, TypeOK, tableVars, leaseSets
  <2>5. QED
    BY <1>3, <2>2, <2>3, <2>4 DEF BeginCollect
<1>4. CASE LoadFails(w, s)
  <2>1. faults' \in 0..MaxFaults
    BY <1>4, BoundsAssumption DEF LoadFails, DatabaseFails, TypeOK
  <2>2. QED
    BY <1>2, <1>4, <2>1 DEF LoadFails, TypeOK, tableVars
<1>5. ASSUME NEW r \in Results, FinishCollect(w, s, r)
      PROVE  TypeOK'
  <2>1. "persist" \in PCs
    BY DEF PCs, Wanting
  <2>2. CASE Abandon(w, s)
    BY <1>1, <1>5, <2>2 DEF FinishCollect, TypeOK, tableVars
  <2>3. CASE /\ outcome' = [outcome EXCEPT ![w][s] = r]
             /\ Goto(w, s, "persist")
             /\ UNCHANGED <<job, leaseSets>>
    <3>1. outcome' \in [Workers -> [Slots -> Results]]
      BY <2>3 DEF TypeOK
    <3>2. QED
      BY <1>5, <2>1, <2>3, <3>1, GotoType DEF FinishCollect, TypeOK, tableVars, leaseSets
  <2>4. QED
    BY <1>5, <2>2, <2>3 DEF FinishCollect
<1>6. CASE LockRow(w, s)
  <2>1. Locked(pc[w][s]) \in PCs
    BY <1>6 DEF LockRow, Locked, Wanting, Holding, PCs
  <2>2. CASE Goto(w, s, Locked(pc[w][s])) /\ UNCHANGED <<job, outcome, leaseSets>>
    BY <1>6, <2>1, <2>2, GotoType DEF LockRow, TypeOK, tableVars, leaseSets
  <2>3. CASE Abandon(w, s)
    BY <1>1, <1>6, <2>3 DEF LockRow, TypeOK, tableVars
  <2>4. CASE Return(w, s) /\ UNCHANGED leaseSets
    BY <1>6, <2>4, ReturnType DEF LockRow, TypeOK, tableVars, leaseSets
  <2>5. QED
    BY <1>6, <2>2, <2>3, <2>4 DEF LockRow
<1>7. CASE Commit(w, s)
  <2>1. CASE Abandon(w, s)
    BY <1>1, <1>7, <2>1, SettleType DEF Commit, TypeOK
  <2>2. CASE Return(w, s) /\ UNCHANGED leaseSets
    BY <1>7, <2>2, ReturnType, SettleType DEF Commit, TypeOK, leaseSets
  <2>3. QED
    BY <1>7, <2>1, <2>2 DEF Commit
<1>8. CASE PersistConflict(w, s)
  <2>1. faults' \in 0..MaxFaults
    BY <1>8, BoundsAssumption DEF PersistConflict, DatabaseFails, TypeOK
  <2>2. "record" \in PCs
    BY DEF PCs, Wanting
  <2>3. QED
    BY <1>8, <2>1, <2>2, GotoType DEF PersistConflict, TypeOK, tableVars, leaseSets
<1>9. CASE TransactionFails(w, s)
  <2>1. faults' \in 0..MaxFaults
    BY <1>9, BoundsAssumption DEF TransactionFails, DatabaseFails, TypeOK
  <2>2. /\ status' \in [Tasks -> Statuses]
        /\ worker' \in [Tasks -> Workers \cup {NoWorker}]
        /\ lease' \in [Tasks -> 0..LeaseTicks]
        /\ runs' \in [Tasks -> [Results -> Nat]]
    <3>1. CASE Settle(w, s)
      BY <3>1, SettleType
    <3>2. CASE UNCHANGED tableVars
      BY <3>2 DEF TypeOK, tableVars
    <3>3. QED
      BY <1>9, <3>1, <3>2 DEF TransactionFails
  <2>3. CASE Abandon(w, s)
    BY <1>1, <1>9, <2>1, <2>2, <2>3 DEF TransactionFails, TypeOK
  <2>4. CASE Unexpected(w, s)
    BY <1>2, <1>9, <2>1, <2>2, <2>4 DEF TransactionFails, TypeOK
  <2>5. CASE Return(w, s) /\ UNCHANGED leaseSets
    BY <1>9, <2>1, <2>2, <2>5, ReturnType DEF TransactionFails, TypeOK, leaseSets
  <2>6. QED
    BY <1>9, <2>3, <2>4, <2>5 DEF TransactionFails
<1>10. QED
  BY <1>3, <1>4, <1>5, <1>6, <1>7, <1>8, <1>9 DEF ThreadStep

(* The steps of the heartbeat thread.                                      *)
LEMMA HeartbeatType ==
    ASSUME TypeOK, NEW w \in Workers, HeartbeatStep(w)
    PROVE  TypeOK'
<1>1. /\ beat \in [Workers -> BeatType]
      /\ active \in [Workers -> SUBSET Tasks]
      /\ lost \in [Workers -> SUBSET Tasks]
      /\ lease \in [Tasks -> 0..LeaseTicks]
  BY DEF TypeOK, BeatType
<1>2. IdleBeat \in BeatType
  BY LeaseAssumption DEF IdleBeat, BeatPCs, BeatType
<1>3. SUFFICES /\ beat' \in [Workers -> BeatType]
               /\ active' \in [Workers -> SUBSET Tasks]
               /\ lost' \in [Workers -> SUBSET Tasks]
               /\ lease' \in [Tasks -> 0..LeaseTicks]
               /\ faults' \in 0..MaxFaults
  BY DEF HeartbeatStep, Snapshot, RenewLeases, RenewCommit, RenewFails, ApplyLost,
         TypeOK, BeatType, tableVars, threadVars, leaseSets
<1>4. ASSUME NEW p \in BeatPCs, NEW ids \in SUBSET Tasks
      PROVE  [IdleBeat EXCEPT !.pc = p, !.ids = ids] \in BeatType
  BY <1>2 DEF IdleBeat, BeatType
<1>5. CASE Snapshot(w)
  <2>1. beat' \in [Workers -> BeatType]
    BY <1>1, <1>4, <1>5 DEF Snapshot, BeatPCs
  <2>2. QED
    BY <1>1, <1>5, <2>1 DEF Snapshot, TypeOK, tableVars, leaseSets
<1>6. CASE RenewLeases(w)
  <2>1. {t \in beat[w].ids : Owns(w, t)} \in SUBSET Tasks
    BY <1>1 DEF BeatType
  <2>2. beat' \in [Workers -> BeatType]
    BY <1>1, <1>6, <2>1 DEF RenewLeases, BeatType, BeatPCs
  <2>3. QED
    BY <1>1, <1>6, <2>2 DEF RenewLeases, TypeOK, tableVars, leaseSets
<1>7. ASSUME Renewed(w)
      PROVE  lease' \in [Tasks -> 0..LeaseTicks]
  <2>1. LeaseTicks - beat[w].age \in 0..LeaseTicks
    BY <1>1, LeaseAssumption DEF BeatType
  <2>2. QED
    BY <1>1, <1>7, <2>1 DEF Renewed
<1>8. CASE RenewCommit(w)
  <2>1. beat[w].ids \ beat[w].rows \in SUBSET Tasks /\ "returned" \in BeatPCs
    BY <1>1 DEF BeatType, BeatPCs
  <2>2. beat' \in [Workers -> BeatType]
    BY <1>1, <1>4, <1>8, <2>1 DEF RenewCommit
  <2>3. QED
    BY <1>1, <1>7, <1>8, <2>2 DEF RenewCommit, TypeOK, leaseSets
<1>9. CASE RenewFails(w)
  <2>1. beat' \in [Workers -> BeatType]
    BY <1>1, <1>2, <1>9 DEF RenewFails
  <2>2. faults' \in 0..MaxFaults
    BY <1>9, BoundsAssumption DEF RenewFails, DatabaseFails, TypeOK
  <2>3. QED
    BY <1>1, <1>7, <1>9, <2>1, <2>2 DEF RenewFails, leaseSets
<1>10. CASE ApplyLost(w)
  <2>1. beat[w].ids \in SUBSET Tasks
    BY <1>1 DEF BeatType
  <2>2. beat' \in [Workers -> BeatType]
    BY <1>1, <1>2, <1>10 DEF ApplyLost
  <2>3. active' \in [Workers -> SUBSET Tasks] /\ lost' \in [Workers -> SUBSET Tasks]
    BY <1>1, <1>10, <2>1 DEF ApplyLost
  <2>4. QED
    BY <1>1, <1>10, <2>2, <2>3 DEF ApplyLost, TypeOK, tableVars
<1>11. QED
  BY <1>5, <1>6, <1>8, <1>9, <1>10 DEF HeartbeatStep

(* The clock.                                                              *)
LEMMA TickType == ASSUME TypeOK, Tick PROVE TypeOK'
<1>1. beat \in [Workers -> BeatType] /\ lease \in [Tasks -> 0..LeaseTicks]
  BY DEF TypeOK, BeatType
<1>2. lease' \in [Tasks -> 0..LeaseTicks]
  BY <1>1, LeaseAssumption DEF Tick
<1>3. beat' \in [Workers -> BeatType]
  <2>1. ASSUME NEW w \in Workers, beat[w].age < LeaseTicks
        PROVE  [beat[w] EXCEPT !.age = @ + 1] \in BeatType
    BY <1>1, <2>1, LeaseAssumption DEF BeatType
  <2>2. QED
    BY <1>1, <2>1 DEF Tick
<1>4. QED
  BY <1>2, <1>3 DEF Tick, TypeOK, BeatType, threadVars, leaseSets

(* Threads are given tasks by Claim and only idle threads are without one. *)
LEMMA ThreadsHaveTasksStep ==
    ASSUME TypeOK, ThreadsHaveTasks, [Next]_vars
    PROVE  ThreadsHaveTasks'
<1> SUFFICES ASSUME NEW v \in Workers, NEW r \in Slots
               PROVE  pc'[v][r] # "idle" => job'[v][r] \in Tasks
  BY DEF ThreadsHaveTasks
<1>2. pc[v][r] # "idle" => job[v][r] \in Tasks
  BY DEF ThreadsHaveTasks
<1>3. CASE UNCHANGED <<pc, job>>
  BY <1>2, <1>3
<1>4. ASSUME NEW w \in Workers, Claim(w) PROVE pc'[v][r] # "idle" => job'[v][r] \in Tasks
  <2>1. PICK S \in SUBSET Waiting : \E h \in Handouts(S, IdleSlots(w)) : HandOut(w, h)
    BY <1>4 DEF Claim
  <2>2. PICK h \in Handouts(S, IdleSlots(w)) : HandOut(w, h)
    BY <2>1
  <2>3. S \subseteq Tasks /\ h \in [IdleSlots(w) -> S \cup {NoTask}]
    BY DEF Waiting, ExpiredTasks, RunningTasks, Handouts
  <2>4. QED
    BY <1>2, <2>2, <2>3 DEF HandOut, TypeOK, IdleSlots
<1>5. ASSUME NEW w \in Workers, Register(w) PROVE pc'[v][r] # "idle" => job'[v][r] \in Tasks
  BY <1>2, <1>5 DEF Register, TypeOK
<1>6. ASSUME NEW w \in Workers, Crash(w) PROVE pc'[v][r] # "idle" => job'[v][r] \in Tasks
  BY <1>2, <1>6 DEF Crash, TypeOK
<1>7. ASSUME NEW w \in Workers, NEW s \in Slots, ThreadStep(w, s)
      PROVE  pc'[v][r] # "idle" => job'[v][r] \in Tasks
  <2>1. pc[w][s] # "idle"
    BY <1>7 DEF ThreadStep, BeginCollect, LoadFails, FinishCollect, LockRow, Commit,
                PersistConflict, TransactionFails, Wanting, Holding
  <2>2. CASE Return(w, s)
    BY <1>2, <2>2 DEF Return, Goto, TypeOK
  <2>3. ASSUME NEW p, Goto(w, s, p), UNCHANGED job
        PROVE  pc'[v][r] # "idle" => job'[v][r] \in Tasks
    BY <1>2, <2>1, <2>3 DEF Goto, TypeOK, ThreadsHaveTasks
  <2>4. Return(w, s) \/ \E p : Goto(w, s, p) /\ UNCHANGED job
    BY <1>7 DEF ThreadStep, BeginCollect, LoadFails, FinishCollect, LockRow, Commit,
                PersistConflict, TransactionFails, Abandon, Unexpected
  <2>5. QED
    BY <2>2, <2>3, <2>4
<1>8. QED
  BY <1>3, <1>4, <1>5, <1>6, <1>7
  DEF Next, Tick, ProcessStep, Start, BeginShutdown, JoinDispatcher, FinishShutdown,
      DispatcherStep, DispatcherDies, HeartbeatStep, Snapshot, RenewLeases, RenewCommit,
      RenewFails, ApplyLost, threadVars, vars

(* The type invariant of the model holds throughout.                       *)
THEOREM TypeCorrect == Spec => [](TypeOK /\ ThreadsHaveTasks)
<1>1. Init => TypeOK /\ ThreadsHaveTasks
  BY InitType DEF Init, ThreadsHaveTasks
<1>2. TypeOK /\ ThreadsHaveTasks /\ [Next]_vars => (TypeOK /\ ThreadsHaveTasks)'
  <2> SUFFICES ASSUME TypeOK, ThreadsHaveTasks, [Next]_vars PROVE TypeOK'
    BY ThreadsHaveTasksStep
  <2>2. CASE UNCHANGED vars
    <3>1. /\ status' = status /\ worker' = worker /\ lease' = lease /\ runs' = runs
          /\ proc' = proc /\ pc' = pc /\ job' = job /\ outcome' = outcome
          /\ active' = active /\ lost' = lost /\ beat' = beat /\ faults' = faults
      BY <2>2 DEF vars
    <3>2. QED
      BY <3>1 DEF TypeOK
  <2>3. CASE Tick
    BY <2>3, TickType
  <2>4. ASSUME NEW w \in Workers,
               \/ ProcessStep(w) \/ DispatcherStep(w) \/ HeartbeatStep(w)
               \/ \E s \in Slots : ThreadStep(w, s)
        PROVE  TypeOK'
    BY <2>4, ProcessType, DispatcherType, HeartbeatType, ThreadType
  <2>5. QED
    BY <2>2, <2>3, <2>4 DEF Next
<1>3. QED
  BY <1>1, <1>2, PTL DEF Spec

-----------------------------------------------------------------------------
(***************************************************************************)
(* Ownership of the rows.  The three invariants below are proved together: *)
(* a settlement records exactly one run because its row is still RUNNING   *)
(* and owned, which is what the row lock and SKIP LOCKED guarantee.        *)
(***************************************************************************)
Ownership ==
    TypeOK /\ ThreadsHaveTasks /\ OnlyRunningIsOwned /\ LockedRowStaysOwned
    /\ RecordedOnce

(* The table is written by claims, by settlements and, the lease alone, by *)
(* renewals and the clock.                                                 *)
LEMMA TableStep ==
    ASSUME [Next]_vars
    PROVE  \/ /\ UNCHANGED <<status, worker, runs>>
              /\ UNCHANGED lease \/ Tick \/ \E w \in Workers : Renewed(w)
           \/ \E w \in Workers, S \in SUBSET Waiting : ClaimRows(w, S)
           \/ \E w \in Workers, s \in Slots : pc[w][s] \in Holding /\ Settle(w, s)
<1>1. CASE UNCHANGED vars
  BY <1>1 DEF vars
<1>2. CASE Tick
  BY <1>2 DEF Tick
<1>3. ASSUME NEW w \in Workers, ProcessStep(w)
      PROVE  UNCHANGED <<status, worker, runs, lease>>
  BY <1>3 DEF ProcessStep, Start, BeginShutdown, JoinDispatcher, FinishShutdown, Crash,
              tableVars
<1>4. ASSUME NEW w \in Workers, DispatcherStep(w)
      PROVE  \/ \E S \in SUBSET Waiting : ClaimRows(w, S)
             \/ UNCHANGED <<status, worker, runs, lease>>
  BY <1>4 DEF DispatcherStep, Claim, Register, DispatcherDies, tableVars
<1>5. ASSUME NEW w \in Workers, HeartbeatStep(w)
      PROVE  UNCHANGED <<status, worker, runs>> /\ (UNCHANGED lease \/ Renewed(w))
  BY <1>5 DEF HeartbeatStep, Snapshot, RenewLeases, RenewCommit, RenewFails, ApplyLost,
              tableVars
<1>6. ASSUME NEW w \in Workers, NEW s \in Slots, ThreadStep(w, s)
      PROVE  \/ UNCHANGED <<status, worker, runs, lease>>
             \/ pc[w][s] \in Holding /\ Settle(w, s)
  BY <1>6 DEF ThreadStep, BeginCollect, LoadFails, FinishCollect, LockRow, Commit,
              PersistConflict, TransactionFails, tableVars
<1>7. QED
  BY <1>1, <1>2, <1>3, <1>4, <1>5, <1>6 DEF Next

(* A claim touches no row that is RUNNING and locked.                      *)
LEMMA ClaimSparesLocked ==
    ASSUME TypeOK, NEW w \in Workers, NEW S \in SUBSET Waiting, ClaimRows(w, S),
           NEW t \in Tasks,
           status[t] # "PENDING", status[t] = "RUNNING" => lease[t] > 0 \/ RowLocked(t)
    PROVE  status'[t] = status[t] /\ worker'[t] = worker[t] /\ lease'[t] = lease[t]
<1>1. t \notin Waiting /\ t \notin ExpiredTasks
  BY DEF Waiting, ExpiredTasks, RunningTasks, TypeOK
<1>2. QED
  BY <1>1 DEF ClaimRows

(* What a settlement writes into its row ...                               *)
LEMMA SettleRow ==
    ASSUME TypeOK, NEW w \in Workers, NEW s \in Slots, Settle(w, s),
           NEW t \in Tasks, t = job[w][s]
    PROVE  /\ status'[t] \in Results /\ worker'[t] = NoWorker /\ lease'[t] = 0
           /\ \/ runs'[t] = runs[t] /\ status'[t] = "FAILED"
              \/ runs'[t] = [runs[t] EXCEPT ![status'[t]] = @ + 1]
<1> DEFINE r == IF pc[w][s] = "persisting" THEN outcome[w][s] ELSE "FAILED"
<1>1. r \in Results
  BY DEF TypeOK, Results
<1>2. /\ status' = [status EXCEPT ![t] = r]
      /\ worker' = [worker EXCEPT ![t] = NoWorker]
      /\ lease' = [lease EXCEPT ![t] = 0]
      /\ \/ runs' = runs /\ r = "FAILED"
         \/ runs' = [runs EXCEPT ![t][r] = @ + 1]
  BY DEF Settle, ClearOwner
<1>3. /\ status \in [Tasks -> Statuses] /\ worker \in [Tasks -> Workers \cup {NoWorker}]
      /\ lease \in [Tasks -> 0..LeaseTicks] /\ runs \in [Tasks -> [Results -> Nat]]
  BY DEF TypeOK
<1> HIDE DEF r
<1>4. QED
  BY <1>1, <1>2, <1>3

(* ... and that it leaves every other row alone.                           *)
LEMMA SettleOthers ==
    ASSUME TypeOK, NEW w \in Workers, NEW s \in Slots, Settle(w, s),
           NEW u \in Tasks, u # job[w][s]
    PROVE  /\ status'[u] = status[u] /\ worker'[u] = worker[u]
           /\ lease'[u] = lease[u] /\ runs'[u] = runs[u]
<1> DEFINE t == job[w][s]
           r == IF pc[w][s] = "persisting" THEN outcome[w][s] ELSE "FAILED"
<1>1. /\ status' = [status EXCEPT ![t] = r]
      /\ worker' = [worker EXCEPT ![t] = NoWorker]
      /\ lease' = [lease EXCEPT ![t] = 0]
      /\ \/ runs' = runs
         \/ runs' = [runs EXCEPT ![t] = [runs[t] EXCEPT ![r] = @ + 1]]
  BY DEF Settle, ClearOwner
<1>2. /\ status \in [Tasks -> Statuses] /\ worker \in [Tasks -> Workers \cup {NoWorker}]
      /\ lease \in [Tasks -> 0..LeaseTicks] /\ runs \in [Tasks -> [Results -> Nat]]
  BY DEF TypeOK
<1> HIDE DEF r
<1>3. QED
  BY <1>1, <1>2

(* Claims and settlements write status and worker_id together.             *)
LEMMA OwnedStep ==
    ASSUME Ownership, [Next]_vars PROVE OnlyRunningIsOwned'
<1> USE DEF Ownership
<1> SUFFICES ASSUME NEW t \in Tasks
             PROVE  /\ status'[t] = "RUNNING" <=> worker'[t] # NoWorker
                    /\ status'[t] # "RUNNING" => lease'[t] = 0
  BY DEF OnlyRunningIsOwned
<1>1. /\ status[t] = "RUNNING" <=> worker[t] # NoWorker
      /\ status[t] # "RUNNING" => lease[t] = 0
  BY DEF OnlyRunningIsOwned
<1>2. CASE UNCHANGED <<status, worker, lease>>
  BY <1>1, <1>2
<1>3. CASE Tick
  BY <1>1, <1>3 DEF Tick
<1>4. ASSUME NEW w \in Workers, Renewed(w), UNCHANGED <<status, worker>>
      PROVE  /\ status'[t] = "RUNNING" <=> worker'[t] # NoWorker
             /\ status'[t] # "RUNNING" => lease'[t] = 0
  <2>1. t \in beat[w].rows => status[t] = "RUNNING"
    BY DEF LockedRowStaysOwned
  <2>2. QED
    BY <1>1, <1>4, <2>1 DEF Renewed
<1>5. ASSUME NEW w \in Workers, NEW S \in SUBSET Waiting, ClaimRows(w, S)
      PROVE  /\ status'[t] = "RUNNING" <=> worker'[t] # NoWorker
             /\ status'[t] # "RUNNING" => lease'[t] = 0
  <2>1. t \in ExpiredTasks => lease[t] = 0
    BY DEF ExpiredTasks
  <2>2. QED
    BY <1>1, <1>5, <2>1, WorkersAssumption DEF ClaimRows
<1>6. ASSUME NEW w \in Workers, NEW s \in Slots, pc[w][s] \in Holding, Settle(w, s)
      PROVE  /\ status'[t] = "RUNNING" <=> worker'[t] # NoWorker
             /\ status'[t] # "RUNNING" => lease'[t] = 0
  <2>1. job[w][s] \in Tasks
    BY <1>6 DEF ThreadsHaveTasks, Holding
  <2>2. QED
    BY <1>1, <1>6, <2>1, SettleRow, SettleOthers DEF Results
<1>7. QED
  BY <1>2, <1>3, <1>4, <1>5, <1>6, TableStep DEF Tick

(* A settlement writes the ScanRun row that belongs to the status it sets. *)
LEMMA RecordedStep ==
    ASSUME Ownership, [Next]_vars PROVE RecordedOnce'
<1> USE DEF Ownership
<1> SUFFICES ASSUME NEW t \in Tasks
             PROVE  /\ runs'[t]["SUCCESS"] = IF status'[t] = "SUCCESS" THEN 1 ELSE 0
                    /\ runs'[t]["FAILED"] <= IF status'[t] = "FAILED" THEN 1 ELSE 0
  BY DEF RecordedOnce
<1>1. /\ runs[t]["SUCCESS"] = IF status[t] = "SUCCESS" THEN 1 ELSE 0
      /\ runs[t]["FAILED"] <= IF status[t] = "FAILED" THEN 1 ELSE 0
  BY DEF RecordedOnce
<1>2. CASE UNCHANGED <<status, runs>>
  BY <1>1, <1>2
<1>3. ASSUME NEW w \in Workers, NEW S \in SUBSET Waiting, ClaimRows(w, S)
      PROVE  /\ runs'[t]["SUCCESS"] = IF status'[t] = "SUCCESS" THEN 1 ELSE 0
             /\ runs'[t]["FAILED"] <= IF status'[t] = "FAILED" THEN 1 ELSE 0
  <2>2. t \in Waiting => status[t] \in {"PENDING", "RUNNING"}
    BY DEF Waiting, ExpiredTasks, RunningTasks
  <2>3. t \in ExpiredTasks => t \in Waiting
    BY DEF Waiting
  <2>4. runs' = runs
    BY <1>3 DEF ClaimRows
  <2>5. status'[t] = status[t]
        \/ (status[t] \in {"PENDING", "RUNNING"} /\ status'[t] \in {"PENDING", "RUNNING"})
    BY <1>3, <2>2, <2>3 DEF ClaimRows
  <2>6. QED
    BY <1>1, <2>4, <2>5
<1>4. ASSUME NEW w \in Workers, NEW s \in Slots, pc[w][s] \in Holding, Settle(w, s)
      PROVE  /\ runs'[t]["SUCCESS"] = IF status'[t] = "SUCCESS" THEN 1 ELSE 0
             /\ runs'[t]["FAILED"] <= IF status'[t] = "FAILED" THEN 1 ELSE 0
  <2>1. job[w][s] \in Tasks
    BY <1>4 DEF ThreadsHaveTasks, Holding
  <2>2. CASE t # job[w][s]
    <3>1. status'[t] = status[t] /\ runs'[t] = runs[t]
      BY <1>4, <2>1, <2>2, SettleOthers
    <3>2. QED
      BY <1>1, <3>1
  <2>3. CASE t = job[w][s]
    <3>1. status[t] = "RUNNING"
      BY <1>4, <2>3 DEF LockedRowStaysOwned
    <3>2. runs[t] \in [Results -> Nat]
      BY DEF TypeOK
    <3>3. runs[t]["SUCCESS"] = 0 /\ runs[t]["FAILED"] = 0
      BY <1>1, <3>1, <3>2 DEF Results
    <3>4. /\ status'[t] \in Results
          /\ \/ runs'[t] = runs[t] /\ status'[t] = "FAILED"
             \/ runs'[t] = [runs[t] EXCEPT ![status'[t]] = @ + 1]
      BY <1>4, <2>1, <2>3, SettleRow
    <3>5. QED
      BY <3>2, <3>3, <3>4 DEF Results
  <2>4. QED
    BY <2>2, <2>3
<1>5. QED
  BY <1>2, <1>3, <1>4, TableStep

(* A step that takes no lock and changes no locked row.                    *)
LocksKept ==
    /\ \A v \in Workers, r \in Slots : pc'[v][r] \in Holding =>
         /\ pc[v][r] \in Holding /\ job'[v][r] = job[v][r]
         /\ status'[job[v][r]] = status[job[v][r]]
         /\ worker'[job[v][r]] = worker[job[v][r]]
    /\ \A v \in Workers : \A t \in beat'[v].rows :
         t \in beat[v].rows /\ status'[t] = status[t] /\ worker'[t] = worker[t]

(* Such a step keeps LockedRowStaysOwned.                                  *)
LEMMA LocksKeptSuffices ==
    ASSUME LockedRowStaysOwned, LocksKept PROVE LockedRowStaysOwned'
<1>1. ASSUME NEW v \in Workers, NEW r \in Slots, pc'[v][r] \in Holding
      PROVE  /\ status'[job'[v][r]] = "RUNNING" /\ worker'[job'[v][r]] = v
             /\ \A u \in Workers : job'[v][r] \notin beat'[u].rows
             /\ \A q \in Slots \ {r} :
                  ~(job'[v][q] = job'[v][r] /\ pc'[v][q] \in Holding)
  BY <1>1 DEF LockedRowStaysOwned, LocksKept
<1>2. ASSUME NEW v \in Workers, NEW t \in beat'[v].rows
      PROVE  status'[t] = "RUNNING" /\ worker'[t] = v
  BY <1>2 DEF LockedRowStaysOwned, LocksKept
<1>3. QED
  BY <1>1, <1>2 DEF LockedRowStaysOwned

(* Steps of a thread other than taking the row lock give locks up at most. *)
LEMMA ThreadMoves ==
    ASSUME TypeOK, NEW w \in Workers, NEW s \in Slots, NEW p, p \notin Holding,
           Goto(w, s, p), UNCHANGED job \/ job' = [job EXCEPT ![w][s] = NoTask]
    PROVE  \A v \in Workers, r \in Slots :
              pc'[v][r] \in Holding =>
                 /\ pc[v][r] \in Holding /\ job'[v][r] = job[v][r]
                 /\ <<v, r>> # <<w, s>>
BY DEF TypeOK, Goto

(* LockRow's thread now holds a row that nobody else holds.                *)
LEMMA LockTaken ==
    ASSUME Ownership, NEW w \in Workers, NEW s \in Slots, pc[w][s] \in Wanting,
           NEW p, ~RowLocked(job[w][s]), Owns(w, job[w][s]), Goto(w, s, p),
           UNCHANGED <<job, beat, status, worker>>
    PROVE  LockedRowStaysOwned'
<1> USE DEF Ownership
<1>0. pc \in [Workers -> [Slots -> PCs]]
  BY DEF TypeOK
<1>1. \A v \in Workers, r \in Slots : <<v, r>> # <<w, s>> => pc'[v][r] = pc[v][r]
  BY <1>0 DEF Goto
<1>2. /\ \A v \in Workers, r \in Slots : ~(job[v][r] = job[w][s] /\ pc[v][r] \in Holding)
      /\ \A v \in Workers : job[w][s] \notin beat[v].rows
  BY DEF RowLocked
<1>3. ASSUME NEW v \in Workers, NEW r \in Slots, pc'[v][r] \in Holding
      PROVE  /\ status[job[v][r]] = "RUNNING" /\ worker[job[v][r]] = v
             /\ \A u \in Workers : job[v][r] \notin beat[u].rows
             /\ \A q \in Slots \ {r} : ~(job[v][q] = job[v][r] /\ pc'[v][q] \in Holding)
  <2>1. CASE v = w /\ r = s
    BY <1>1, <1>2, <2>1 DEF Owns
  <2>2. CASE ~(v = w /\ r = s)
    <3>1. pc[v][r] \in Holding
      BY <1>1, <1>3, <2>2
    <3>2. job[v][r] # job[w][s]
      BY <1>2, <3>1
    <3>3. /\ status[job[v][r]] = "RUNNING" /\ worker[job[v][r]] = v
          /\ \A u \in Workers : job[v][r] \notin beat[u].rows
          /\ \A q \in Slots \ {r} : ~(job[v][q] = job[v][r] /\ pc[v][q] \in Holding)
      BY <3>1 DEF LockedRowStaysOwned
    <3>4. QED
      BY <1>1, <3>2, <3>3
  <2>3. QED
    BY <2>1, <2>2
<1>4. QED
  BY <1>3 DEF LockedRowStaysOwned

(* So does every step.                                                     *)
LEMMA LockedStep ==
    ASSUME Ownership, [Next]_vars PROVE LockedRowStaysOwned'
<1> USE DEF Ownership
<1>1. CASE UNCHANGED vars
  BY <1>1 DEF LockedRowStaysOwned, vars
<1>2. CASE Tick
  <2>1. \A v \in Workers : beat'[v].rows = beat[v].rows
    BY <1>2 DEF Tick, TypeOK
  <2>2. LocksKept
    BY <1>2, <2>1 DEF Tick, LocksKept, threadVars
  <2>3. QED
    BY <2>2, LocksKeptSuffices
<1>3. ASSUME NEW w \in Workers, ProcessStep(w)
      PROVE  LockedRowStaysOwned'
  <2>1. CASE Crash(w)
    <3>1. \A v \in Workers : beat'[v].rows \subseteq beat[v].rows
      BY <2>1 DEF Crash, TypeOK, IdleBeat
    <3>2. \A v \in Workers, r \in Slots :
             pc'[v][r] \in Holding => pc[v][r] \in Holding /\ job'[v][r] = job[v][r]
      BY <2>1 DEF Crash, TypeOK, Holding
    <3>3. QED
      BY <2>1, <3>1, <3>2, LocksKeptSuffices DEF Crash, LocksKept, tableVars
  <2>2. CASE ~Crash(w)
    <3>1. UNCHANGED <<status, worker, pc, job, beat>>
      BY <1>3, <2>2 DEF ProcessStep, Start, BeginShutdown, JoinDispatcher, FinishShutdown,
                        tableVars, threadVars
    <3>2. QED
      BY <3>1 DEF LockedRowStaysOwned
  <2>3. QED
    BY <2>1, <2>2
<1>4. ASSUME NEW w \in Workers, Claim(w) \/ DispatcherDies(w),
             NEW S \in SUBSET Waiting, ClaimRows(w, S)
      PROVE  LockedRowStaysOwned'
  <2>1. (\E h : HandOut(w, h)) \/ UNCHANGED <<pc, job>>
    BY <1>4 DEF Claim, DispatcherDies, threadVars
  <2>2. \A v \in Workers, r \in Slots :
           pc'[v][r] \in Holding => pc[v][r] \in Holding /\ job'[v][r] = job[v][r]
    <3>1. CASE UNCHANGED <<pc, job>>
      BY <3>1
    <3>2. CASE \E h : HandOut(w, h)
      BY <3>2 DEF HandOut, TypeOK, Holding, IdleSlots
    <3>3. QED
      BY <2>1, <3>1, <3>2
  <2>3. ASSUME NEW v \in Workers, NEW r \in Slots, pc[v][r] \in Holding
        PROVE  /\ status'[job[v][r]] = status[job[v][r]]
               /\ worker'[job[v][r]] = worker[job[v][r]]
    <3>1. /\ job[v][r] \in Tasks
          /\ status[job[v][r]] = "RUNNING" /\ RowLocked(job[v][r])
      BY <2>3 DEF ThreadsHaveTasks, LockedRowStaysOwned, RowLocked, Holding
    <3>2. QED
      BY <1>4, <3>1, ClaimSparesLocked
  <2>4. ASSUME NEW v \in Workers, NEW t \in beat[v].rows
        PROVE  status'[t] = status[t] /\ worker'[t] = worker[t]
    <3>1. t \in Tasks /\ status[t] = "RUNNING" /\ RowLocked(t)
      BY <2>4 DEF TypeOK, LockedRowStaysOwned, RowLocked
    <3>2. QED
      BY <1>4, <3>1, ClaimSparesLocked
  <2>5. beat' = beat
    BY <1>4 DEF Claim, DispatcherDies
  <2>6. QED
    BY <2>2, <2>3, <2>4, <2>5, LocksKeptSuffices DEF LocksKept
<1>5. ASSUME NEW w \in Workers, Register(w) \/ DispatcherDies(w),
             UNCHANGED tableVars
      PROVE  LockedRowStaysOwned'
  <2>1. \A v \in Workers, r \in Slots :
           pc'[v][r] \in Holding => pc[v][r] \in Holding /\ job'[v][r] = job[v][r]
    <3>1. CASE Register(w)
      BY <3>1 DEF Register, TypeOK, Holding
    <3>2. CASE DispatcherDies(w)
      BY <3>2 DEF DispatcherDies, threadVars
    <3>3. QED
      BY <1>5, <3>1, <3>2
  <2>2. UNCHANGED <<status, worker, beat>>
    BY <1>5 DEF Register, DispatcherDies, tableVars
  <2>3. QED
    BY <2>1, <2>2, LocksKeptSuffices DEF LocksKept
<1>6. ASSUME NEW w \in Workers, HeartbeatStep(w)
      PROVE  LockedRowStaysOwned'
  <2>1. UNCHANGED <<status, worker, pc, job>>
    BY <1>6 DEF HeartbeatStep, Snapshot, RenewLeases, RenewCommit, RenewFails, ApplyLost,
                tableVars, threadVars
  <2>2. CASE RenewLeases(w)
    <3>0. beat \in [Workers -> BeatType]
      BY DEF TypeOK, BeatType
    <3>1. beat'[w].rows = {t \in beat[w].ids : Owns(w, t)}
      BY <2>2, <3>0 DEF RenewLeases, BeatType
    <3>2. \A v \in Workers \ {w} : beat'[v] = beat[v]
      BY <2>2, <3>0 DEF RenewLeases
    <3>3. \A t \in beat'[w].rows : Owns(w, t) /\ ~RowLocked(t)
      BY <2>2, <3>1 DEF RenewLeases
    <3>4. ASSUME NEW v \in Workers, NEW r \in Slots, pc[v][r] \in Holding
          PROVE  \A u \in Workers : job[v][r] \notin beat'[u].rows
      <4>1. job[v][r] \notin beat'[w].rows
        BY <3>3, <3>4 DEF RowLocked
      <4>2. \A u \in Workers \ {w} : job[v][r] \notin beat'[u].rows
        BY <3>2, <3>4 DEF LockedRowStaysOwned
      <4>3. QED
        BY <4>1, <4>2
    <3>5. ASSUME NEW v \in Workers, NEW t \in beat'[v].rows
          PROVE  status[t] = "RUNNING" /\ worker[t] = v
      BY <3>2, <3>3 DEF LockedRowStaysOwned, Owns
    <3>6. QED
      BY <2>1, <3>4, <3>5 DEF LockedRowStaysOwned
  <2>3. CASE ~RenewLeases(w)
    <3>1. \A v \in Workers : beat'[v].rows \subseteq beat[v].rows
      <4>1. beat \in [Workers -> BeatType]
        BY DEF TypeOK, BeatType
      <4>2. CASE Snapshot(w)
        BY <4>1, <4>2 DEF Snapshot, IdleBeat
      <4>3. CASE RenewCommit(w)
        BY <4>1, <4>3 DEF RenewCommit, IdleBeat
      <4>4. CASE RenewFails(w) \/ ApplyLost(w)
        BY <4>1, <4>4 DEF RenewFails, ApplyLost, IdleBeat
      <4>5. QED
        BY <1>6, <2>3, <4>2, <4>3, <4>4 DEF HeartbeatStep
    <3>2. QED
      BY <2>1, <3>1, LocksKeptSuffices DEF LocksKept
  <2>4. QED
    BY <2>2, <2>3
<1>7. ASSUME NEW w \in Workers, NEW s \in Slots, ThreadStep(w, s)
      PROVE  LockedRowStaysOwned'
  <2>1. beat' = beat
    BY <1>7 DEF ThreadStep, BeginCollect, LoadFails, FinishCollect, LockRow, Commit,
                PersistConflict, TransactionFails
  <2>2. CASE LockRow(w, s) /\ Owns(w, job[w][s])
    BY <2>2, LockTaken DEF LockRow, tableVars
  <2>3. CASE ~(LockRow(w, s) /\ Owns(w, job[w][s]))
    <3>1. PICK p \in {"idle", "fail", "collecting", "persist", "record"} :
             /\ Goto(w, s, p)
             /\ UNCHANGED job \/ job' = [job EXCEPT ![w][s] = NoTask]
      BY <1>7, <2>3 DEF ThreadStep, BeginCollect, LoadFails, FinishCollect, LockRow, Commit,
                  PersistConflict, TransactionFails, Abandon, Unexpected, Return
    <3>2. p \notin Holding
      BY DEF Holding
    <3>3. \A v \in Workers, r \in Slots : pc'[v][r] \in Holding =>
             /\ pc[v][r] \in Holding /\ job'[v][r] = job[v][r] /\ <<v, r>> # <<w, s>>
      BY <3>1, <3>2, ThreadMoves
    <3>4. CASE UNCHANGED <<status, worker>>
      BY <2>1, <3>3, <3>4, LocksKeptSuffices DEF LocksKept
    <3>5. CASE pc[w][s] \in Holding /\ Settle(w, s)
      <4>0. job[w][s] \in Tasks
        BY <3>5 DEF ThreadsHaveTasks, Holding
      <4>1. /\ worker[job[w][s]] = w
            /\ \A v \in Workers : job[w][s] \notin beat[v].rows
            /\ \A r \in Slots \ {s} : ~(job[w][r] = job[w][s] /\ pc[w][r] \in Holding)
        BY <3>5 DEF LockedRowStaysOwned
      <4>2. \A t \in Tasks \ {job[w][s]} : status'[t] = status[t] /\ worker'[t] = worker[t]
        BY <3>5, <4>0, SettleOthers
      <4>3. ASSUME NEW v \in Workers, NEW r \in Slots, pc'[v][r] \in Holding
            PROVE  job[v][r] \in Tasks \ {job[w][s]}
        <5>1. pc[v][r] \in Holding /\ <<v, r>> # <<w, s>>
          BY <3>3, <4>3
        <5>2. job[v][r] \in Tasks /\ worker[job[v][r]] = v
          BY <5>1 DEF ThreadsHaveTasks, LockedRowStaysOwned, Holding
        <5>3. QED
          BY <4>1, <5>1, <5>2
      <4>4. ASSUME NEW v \in Workers, NEW t \in beat[v].rows
            PROVE  t \in Tasks \ {job[w][s]}
        BY <4>1 DEF TypeOK
      <4>5. QED
        BY <2>1, <3>3, <4>2, <4>3, <4>4, LocksKeptSuffices DEF LocksKept
    <3>6. QED
      BY <1>7, <3>4, <3>5
      DEF ThreadStep, BeginCollect, LoadFails, FinishCollect, LockRow, Commit,
          PersistConflict, TransactionFails, tableVars
  <2>4. QED
    BY <2>2, <2>3
<1>8. ASSUME NEW w \in Workers, DispatcherStep(w)
      PROVE  LockedRowStaysOwned'
  <2>1. \/ Register(w) /\ UNCHANGED tableVars
        \/ DispatcherDies(w) /\ UNCHANGED tableVars
        \/ (Claim(w) \/ DispatcherDies(w)) /\ \E S \in SUBSET Waiting : ClaimRows(w, S)
    BY <1>8 DEF DispatcherStep, Register, Claim, DispatcherDies
  <2>2. QED
    BY <1>4, <1>5, <2>1
<1>9. QED
  BY <1>1, <1>2, <1>3, <1>6, <1>7, <1>8 DEF Next

(* For every number of processes, threads and tasks: rows are owned        *)
(* exactly while RUNNING, a locked row stays with its owner, and a task    *)
(* ends with at most one ScanRun that agrees with its status.              *)
THEOREM OwnershipHolds ==
    Spec => [](OnlyRunningIsOwned /\ LockedRowStaysOwned /\ RecordedOnce)
<1>1. Init => OnlyRunningIsOwned /\ LockedRowStaysOwned /\ RecordedOnce
  BY WorkersAssumption
  DEF Init, OnlyRunningIsOwned, LockedRowStaysOwned, RecordedOnce, Holding, IdleBeat, Results
<1>2. Ownership /\ [Next]_vars
        => (OnlyRunningIsOwned /\ LockedRowStaysOwned /\ RecordedOnce)'
  BY OwnedStep, LockedStep, RecordedStep
<1>3. QED
  BY <1>1, <1>2, TypeCorrect, PTL DEF Spec, Ownership

(* No claim and no settlement touches a settled row.                       *)
LEMMA SettledStep ==
    ASSUME Ownership, [Next]_vars PROVE KeepsSettled
<1> USE DEF Ownership
<1> SUFFICES ASSUME NEW t \in Tasks, status[t] \in Results
             PROVE  status'[t] = status[t] /\ runs'[t] = runs[t]
  BY DEF KeepsSettled
<1>1. status[t] # "PENDING" /\ status[t] # "RUNNING"
  BY DEF Results
<1>2. ASSUME NEW w \in Workers, NEW S \in SUBSET Waiting, ClaimRows(w, S)
      PROVE  status'[t] = status[t] /\ runs'[t] = runs[t]
  BY <1>1, <1>2, ClaimSparesLocked DEF ClaimRows
<1>3. ASSUME NEW w \in Workers, NEW s \in Slots, pc[w][s] \in Holding, Settle(w, s)
      PROVE  status'[t] = status[t] /\ runs'[t] = runs[t]
  <2>1. status[job[w][s]] = "RUNNING"
    BY <1>3 DEF LockedRowStaysOwned
  <2>2. t # job[w][s]
    BY <1>1, <2>1
  <2>3. QED
    BY <1>3, <2>2, SettleOthers
<1>4. QED
  BY <1>2, <1>3, TableStep

(* A settled row is never written again, whatever late results arrive.     *)
THEOREM SettledIsFinalHolds == Spec => SettledIsFinal
<1>1. QED
  BY SettledStep, TypeCorrect, OwnershipHolds, PTL DEF Spec, Ownership, SettledIsFinal

(* Only a thread of the process that owns the row settles it.              *)
THEOREM SettledByOwnerHolds == Spec => SettledByOwner
<1>1. ASSUME Ownership, [Next]_vars PROVE SettlesAsOwner
  <2> USE DEF Ownership
  <2> SUFFICES ASSUME NEW t \in Tasks, status[t] \notin Results, status'[t] \in Results
               PROVE  /\ worker[t] \in Workers
                      /\ \E s \in Slots :
                           job[worker[t]][s] = t /\ pc[worker[t]][s] \in Holding
    BY DEF SettlesAsOwner
  <2>1. ASSUME NEW w \in Workers, NEW S \in SUBSET Waiting, ClaimRows(w, S) PROVE FALSE
    BY <2>1 DEF ClaimRows, Results
  <2>2. PICK w \in Workers, s \in Slots : pc[w][s] \in Holding /\ Settle(w, s)
    BY <1>1, <2>1, TableStep
  <2>3. t = job[w][s]
    BY <1>1, <2>2, SettleOthers
  <2>4. worker[t] = w
    BY <1>1, <2>2, <2>3 DEF LockedRowStaysOwned
  <2>5. QED
    BY <2>2, <2>3, <2>4
<1>2. QED
  BY <1>1, TypeCorrect, OwnershipHolds, PTL DEF Spec, Ownership, SettledByOwner

-----------------------------------------------------------------------------
(***************************************************************************)
(* The refinement.                                                         *)
(***************************************************************************)

(* A claim is a grant: it takes rows that wait or whose lease has ended,   *)
(* and frees the other rows whose lease has ended.                         *)
LEMMA ClaimIsGrant ==
    ASSUME TypeOK, NEW w \in Workers, NEW S \in SUBSET Waiting, ClaimRows(w, S)
    PROVE  Queue!Grant(w)
<1>1. Waiting \subseteq Queue!Open /\ ExpiredTasks \subseteq Queue!Open
  BY DEF Waiting, ExpiredTasks, RunningTasks, ResultOf, Results,
         Queue!Open, Queue!Unfinished
<1>2. S \in SUBSET Queue!Open /\ ExpiredTasks \in SUBSET Queue!Open
  BY <1>1
<1>3. worker' = [t \in Tasks |-> IF t \in S THEN w
                   ELSE IF t \in ExpiredTasks THEN NoWorker ELSE worker[t]]
  BY DEF ClaimRows
<1>4. [t \in Tasks |-> ResultOf(t)]' = [t \in Tasks |-> ResultOf(t)]
  <2> SUFFICES ASSUME NEW t \in Tasks
               PROVE  ResultOf(t)' = ResultOf(t)
    OBVIOUS
  <2>1. CASE t \in Waiting
    BY <2>1 DEF ClaimRows, Waiting, ExpiredTasks, RunningTasks, ResultOf, Results
  <2>2. CASE t \notin Waiting
    BY <2>2 DEF ClaimRows, Waiting, ResultOf
  <2>3. QED
    BY <2>1, <2>2
<1>5. QED
  BY <1>2, <1>3, <1>4 DEF Queue!Grant

(* A settlement that holds the row lock is the owner's.                    *)
LEMMA SettlementIsSettle ==
    ASSUME Ownership, NEW w \in Workers, NEW s \in Slots,
           pc[w][s] \in Holding, Settle(w, s)
    PROVE  \E t \in Tasks, r \in Results : Queue!Settle(w, t, r)
<1> USE DEF Ownership
<1>1. job[w][s] \in Tasks
  BY DEF ThreadsHaveTasks, Holding
<1>2. PICK t \in Tasks : t = job[w][s]
  BY <1>1
<1>3. status[t] = "RUNNING" /\ worker[t] = w
  BY <1>2 DEF LockedRowStaysOwned
<1>4. status'[t] \in Results /\ worker' = [worker EXCEPT ![t] = NoWorker]
  BY <1>2, SettleRow DEF Settle, ClearOwner
<1>5. t \in Queue!Open
  BY <1>3 DEF Queue!Open, Queue!Unfinished, ResultOf, Results
<1>6. ASSUME NEW u \in Tasks, u # t PROVE ResultOf(u)' = ResultOf(u)
  BY <1>2, <1>6, SettleOthers DEF ResultOf
<1>7. ResultOf(t)' = status'[t]
  BY <1>4 DEF ResultOf
<1>8. [u \in Tasks |-> ResultOf(u)]'
        = [[u \in Tasks |-> ResultOf(u)] EXCEPT ![t] = status'[t]]
  BY <1>6, <1>7
<1>9. QED
  BY <1>3, <1>4, <1>5, <1>8 DEF Queue!Settle

(* For every number of processes, threads and tasks, the scan queue with   *)
(* its leases, heartbeats, crashes and failing calls implements WorkQueue. *)
THEOREM ImplementsQueueHolds == Spec => ImplementsQueue
<1>1. Init => Queue!Init
  <2> SUFFICES ASSUME Init PROVE Queue!Init
    OBVIOUS
  <2>1. [t \in Tasks |-> ResultOf(t)] = [t \in Tasks |-> "unfinished"]
    BY DEF Init, ResultOf, Results
  <2>2. QED
    BY <2>1 DEF Init, Queue!Init, Queue!Unfinished
<1>2. Ownership /\ [Next]_vars => [Queue!Next]_(Queue!queueVars)
  <2> SUFFICES ASSUME Ownership, [Next]_vars
               PROVE  [Queue!Next]_(Queue!queueVars)
    OBVIOUS
  <2>1. CASE UNCHANGED <<status, worker, runs>>
    <3>1. \A t \in Tasks : ResultOf(t)' = ResultOf(t)
      BY <2>1 DEF ResultOf
    <3>2. QED
      BY <2>1, <3>1 DEF Queue!queueVars
  <2>2. ASSUME NEW w \in Workers, NEW S \in SUBSET Waiting, ClaimRows(w, S)
        PROVE  Queue!Next
    BY <2>2, ClaimIsGrant DEF Queue!Next, Ownership
  <2>3. ASSUME NEW w \in Workers, NEW s \in Slots, pc[w][s] \in Holding, Settle(w, s)
        PROVE  Queue!Next
    BY <2>3, SettlementIsSettle DEF Queue!Next
  <2>4. QED
    BY <2>1, <2>2, <2>3, TableStep
<1>3. QED
  BY <1>1, <1>2, TypeCorrect, OwnershipHolds, PTL
  DEF Spec, Ownership, ImplementsQueue, Queue!Spec

-----------------------------------------------------------------------------
(***************************************************************************)
(* What a heartbeat asks to have renewed is being executed when it takes   *)
(* its snapshot; by the time of the UPDATE it need not be any more.        *)
(***************************************************************************)

(* Every thread that stops executing a task releases its id first.         *)
LEMMA ActiveStep ==
    ASSUME TypeOK, ThreadsHaveTasks, ActiveIsExecuted, [Next]_vars
    PROVE  ActiveIsExecuted'
<1> SUFFICES ASSUME NEW v \in Workers, NEW t \in active'[v]
             PROVE  \E r \in Slots : job'[v][r] = t /\ pc'[v][r] \in Unreleased
  BY DEF ActiveIsExecuted
<1>1. t \in active[v] => \E r \in Slots : job[v][r] = t /\ pc[v][r] \in Unreleased
  BY DEF ActiveIsExecuted
<1>2. CASE UNCHANGED <<pc, job, active>>
  BY <1>1, <1>2
<1>3. ASSUME NEW w \in Workers, ApplyLost(w)
      PROVE  \E r \in Slots : job'[v][r] = t /\ pc'[v][r] \in Unreleased
  BY <1>1, <1>3 DEF ApplyLost, threadVars, TypeOK
<1>4. ASSUME NEW w \in Workers, Crash(w)
      PROVE  \E r \in Slots : job'[v][r] = t /\ pc'[v][r] \in Unreleased
  <2>1. v # w /\ t \in active[v]
    BY <1>4 DEF Crash, TypeOK
  <2>2. pc'[v] = pc[v] /\ job'[v] = job[v]
    BY <1>4, <2>1 DEF Crash, TypeOK
  <2>3. QED
    BY <1>1, <2>1, <2>2
<1>5. ASSUME NEW w \in Workers, Claim(w)
      PROVE  \E r \in Slots : job'[v][r] = t /\ pc'[v][r] \in Unreleased
  <2>1. \E h : HandOut(w, h)
    BY <1>5 DEF Claim
  <2>2. \A r \in Slots : pc[v][r] # "idle" => pc'[v][r] = pc[v][r] /\ job'[v][r] = job[v][r]
    BY <2>1 DEF HandOut, TypeOK, IdleSlots
  <2>3. QED
    BY <1>1, <1>5, <2>2 DEF Claim, leaseSets, Unreleased
<1>6. ASSUME NEW w \in Workers, Register(w)
      PROVE  \E r \in Slots : job'[v][r] = t /\ pc'[v][r] \in Unreleased
  <2>1. \A r \in Slots : pc[v][r] \in Unreleased => pc'[v][r] \in Unreleased
    BY <1>6 DEF Register, TypeOK, Unreleased
  <2>2. job' = job
    BY <1>6 DEF Register
  <2>3. CASE t \in active[v]
    BY <1>1, <2>1, <2>2, <2>3
  <2>4. CASE t \notin active[v]
    <3>1. v = w /\ t \in {job[w][s] : s \in {r \in Slots : pc[w][r] = "claimed"}}
      BY <1>6, <2>4 DEF Register, TypeOK
    <3>2. PICK s \in Slots : pc[v][s] = "claimed" /\ job[v][s] = t
      BY <3>1
    <3>3. pc'[v][s] = "submitted"
      BY <1>6, <3>1, <3>2 DEF Register, TypeOK
    <3>4. QED
      BY <2>2, <3>2, <3>3 DEF Unreleased
  <2>5. QED
    BY <2>3, <2>4
<1>7. ASSUME NEW w \in Workers, NEW s \in Slots, ThreadStep(w, s)
      PROVE  \E r \in Slots : job'[v][r] = t /\ pc'[v][r] \in Unreleased
  <2>1. CASE Abandon(w, s) \/ Unexpected(w, s)
    <3>1. t \in active[v] /\ (v = w => t # job[w][s])
      BY <2>1 DEF Abandon, Unexpected, Release, TypeOK
    <3>2. \A r \in Slots : ~(v = w /\ r = s) => pc'[v][r] = pc[v][r] /\ job'[v][r] = job[v][r]
      BY <2>1 DEF Abandon, Unexpected, Return, Goto, TypeOK
    <3>3. QED
      BY <1>1, <3>1, <3>2
  <2>2. CASE UNCHANGED active /\ Return(w, s) /\ pc[w][s] \notin Unreleased
    <3>1. \A r \in Slots : ~(v = w /\ r = s) => pc'[v][r] = pc[v][r] /\ job'[v][r] = job[v][r]
      BY <2>2 DEF Return, Goto, TypeOK
    <3>2. QED
      BY <1>1, <2>2, <3>1
  <2>3. ASSUME NEW p, UNCHANGED <<active, job>>, Goto(w, s, p),
               p \in Unreleased \/ pc[w][s] \notin Unreleased
        PROVE  \E r \in Slots : job'[v][r] = t /\ pc'[v][r] \in Unreleased
    <3>1. \A r \in Slots : pc[v][r] \in Unreleased => pc'[v][r] \in Unreleased
      BY <2>3 DEF Goto, TypeOK
    <3>2. QED
      BY <1>1, <2>3, <3>1
  <2>4. \/ Abandon(w, s) \/ Unexpected(w, s)
        \/ UNCHANGED active /\ Return(w, s) /\ pc[w][s] \notin Unreleased
        \/ \E p : /\ UNCHANGED <<active, job>> /\ Goto(w, s, p)
                  /\ p \in Unreleased \/ pc[w][s] \notin Unreleased
    <3>1. CASE BeginCollect(w, s)
      BY <3>1 DEF BeginCollect, leaseSets, Unreleased
    <3>2. CASE \E q \in Results : FinishCollect(w, s, q)
      BY <3>2 DEF FinishCollect, leaseSets, Unreleased
    <3>3. CASE LockRow(w, s)
      BY <3>3 DEF LockRow, leaseSets, Unreleased, Wanting, Locked
    <3>4. CASE PersistConflict(w, s)
      BY <3>4 DEF PersistConflict, leaseSets, Unreleased
    <3>5. CASE LoadFails(w, s) \/ Commit(w, s) \/ TransactionFails(w, s)
      BY <3>5 DEF LoadFails, Commit, TransactionFails, leaseSets, Unreleased
    <3>6. QED
      BY <1>7, <3>1, <3>2, <3>3, <3>4, <3>5 DEF ThreadStep
  <2>5. QED
    BY <2>1, <2>2, <2>3, <2>4
<1>8. QED
  BY <1>2, <1>3, <1>4, <1>5, <1>6, <1>7
  DEF Next, Tick, ProcessStep, Start, BeginShutdown, JoinDispatcher, FinishShutdown,
      DispatcherStep, DispatcherDies, HeartbeatStep, Snapshot, RenewLeases, RenewCommit,
      RenewFails, threadVars, leaseSets, vars

(* The ids a snapshot can take are those of executing threads.             *)
LEMMA ActiveIsExecutedHolds == Spec => []ActiveIsExecuted
<1>1. Init => ActiveIsExecuted
  BY DEF Init, ActiveIsExecuted
<1>2. QED
  BY <1>1, ActiveStep, TypeCorrect, PTL DEF Spec

-----------------------------------------------------------------------------
(***************************************************************************)
(* The limit on RUNNING rows.  A claim counts the live leases only, so the *)
(* limit rests on every other RUNNING row having been returned to PENDING  *)
(* in the same transaction; SKIP LOCKED leaves out the locked ones.  When  *)
(* transactions are short a locked row always has a live lease.            *)
(***************************************************************************)
LocksAreLive ==
    /\ \A w \in Workers, s \in Slots : pc[w][s] \in Holding => lease[job[w][s]] > 0
    /\ \A w \in Workers : \A t \in beat[w].rows : lease[t] > 0
    /\ \A w \in Workers : beat[w].rows # {} => beat[w].pc = "renewing"
    /\ \A w \in Workers : beat[w].age = 0

(* Steps that take no lock: the locked rows must keep a live lease.        *)
LiveLocksKept ==
    /\ \A v \in Workers, r \in Slots : pc'[v][r] \in Holding =>
         /\ pc[v][r] \in Holding /\ job'[v][r] = job[v][r]
         /\ lease'[job[v][r]] = lease[job[v][r]] \/ lease'[job[v][r]] > 0
    /\ \A v \in Workers : \/ beat'[v] = beat[v]
                          \/ beat'[v].rows = {} /\ beat'[v].age = 0
    /\ \A v \in Workers : \A t \in beat'[v].rows :
         lease'[t] = lease[t] \/ lease'[t] > 0

(* Such a step keeps LocksAreLive.                                         *)
LEMMA LiveLocksKeptSuffices ==
    ASSUME LocksAreLive, LiveLocksKept PROVE LocksAreLive'
<1>1. ASSUME NEW v \in Workers, NEW r \in Slots, pc'[v][r] \in Holding
      PROVE  lease'[job'[v][r]] > 0
  BY <1>1 DEF LocksAreLive, LiveLocksKept
<1>2. ASSUME NEW v \in Workers
      PROVE  /\ \A t \in beat'[v].rows : lease'[t] > 0
             /\ beat'[v].rows # {} => beat'[v].pc = "renewing"
             /\ beat'[v].age = 0
  <2>1. CASE beat'[v] = beat[v]
    BY <2>1 DEF LocksAreLive, LiveLocksKept
  <2>2. CASE beat'[v].rows = {} /\ beat'[v].age = 0
    BY <2>2
  <2>3. QED
    BY <2>1, <2>2 DEF LiveLocksKept
<1>3. QED
  BY <1>1, <1>2 DEF LocksAreLive

(* So does every step when transactions are short.                         *)
LEMMA LiveLocksStep ==
    ASSUME SlowTransactions = FALSE, Ownership, LocksAreLive, [Next]_vars
    PROVE  LocksAreLive'
<1> USE DEF Ownership
<1>0. beat \in [Workers -> BeatType]
  BY DEF TypeOK, BeatType
<1>1. CASE UNCHANGED vars
  BY <1>1, LiveLocksKeptSuffices DEF LiveLocksKept, vars
<1>2. CASE Tick
  <2>1. ~TransactionOpen
    BY <1>2 DEF Tick
  <2>2. \A v \in Workers : beat[v].pc # "renewing" /\ beat'[v] = beat[v]
    BY <1>2, <2>1 DEF Tick, TransactionOpen
  <2>3. \A v \in Workers : beat'[v].rows = {}
    BY <2>2 DEF LocksAreLive
  <2>4. \A v \in Workers, r \in Slots : pc'[v][r] \notin Holding
    BY <1>2, <2>1 DEF Tick, TransactionOpen, threadVars
  <2>5. QED
    BY <2>2, <2>3, <2>4, LiveLocksKeptSuffices DEF LiveLocksKept
<1>3. ASSUME NEW w \in Workers, ProcessStep(w)
      PROVE  LocksAreLive'
  <2>1. CASE Crash(w)
    <3>1. \A v \in Workers : beat'[v] = beat[v] \/ (beat'[v].rows = {} /\ beat'[v].age = 0)
      <4>1. beat' = [beat EXCEPT ![w] = IdleBeat]
        BY <2>1 DEF Crash
      <4>2. IdleBeat.rows = {} /\ IdleBeat.age = 0
        BY DEF IdleBeat
      <4>3. QED
        BY <1>0, <4>1, <4>2
    <3>2. \A v \in Workers, r \in Slots :
             pc'[v][r] \in Holding => pc[v][r] \in Holding /\ job'[v][r] = job[v][r]
      BY <2>1 DEF Crash, TypeOK, Holding
    <3>3. QED
      BY <2>1, <3>1, <3>2, LiveLocksKeptSuffices DEF Crash, LiveLocksKept, tableVars
  <2>2. CASE ~Crash(w)
    <3>1. UNCHANGED <<lease, pc, job, beat>>
      BY <1>3, <2>2 DEF ProcessStep, Start, BeginShutdown, JoinDispatcher, FinishShutdown,
                        tableVars, threadVars
    <3>2. QED
      BY <3>1, LiveLocksKeptSuffices DEF LiveLocksKept
  <2>3. QED
    BY <2>1, <2>2
<1>4. ASSUME NEW w \in Workers, Claim(w) \/ DispatcherDies(w),
             NEW S \in SUBSET Waiting, ClaimRows(w, S)
      PROVE  LocksAreLive'
  <2>1. (\E h : HandOut(w, h)) \/ UNCHANGED <<pc, job>>
    BY <1>4 DEF Claim, DispatcherDies, threadVars
  <2>2. \A v \in Workers, r \in Slots :
           pc'[v][r] \in Holding => pc[v][r] \in Holding /\ job'[v][r] = job[v][r]
    <3>1. CASE UNCHANGED <<pc, job>>
      BY <3>1
    <3>2. CASE \E h : HandOut(w, h)
      BY <3>2 DEF HandOut, TypeOK, Holding, IdleSlots
    <3>3. QED
      BY <2>1, <3>1, <3>2
  <2>3. ASSUME NEW v \in Workers, NEW r \in Slots, pc[v][r] \in Holding
        PROVE  lease'[job[v][r]] = lease[job[v][r]]
    <3>1. /\ job[v][r] \in Tasks
          /\ status[job[v][r]] = "RUNNING" /\ RowLocked(job[v][r])
      BY <2>3 DEF ThreadsHaveTasks, LockedRowStaysOwned, RowLocked, Holding
    <3>2. QED
      BY <1>4, <3>1, ClaimSparesLocked
  <2>4. ASSUME NEW v \in Workers, NEW t \in beat[v].rows
        PROVE  lease'[t] = lease[t]
    <3>1. t \in Tasks /\ status[t] = "RUNNING" /\ RowLocked(t)
      BY <1>0, <2>4 DEF BeatType, LockedRowStaysOwned, RowLocked
    <3>2. QED
      BY <1>4, <3>1, ClaimSparesLocked
  <2>5. beat' = beat
    BY <1>4 DEF Claim, DispatcherDies
  <2>6. QED
    BY <2>2, <2>3, <2>4, <2>5, LiveLocksKeptSuffices DEF LiveLocksKept
<1>5. ASSUME NEW w \in Workers, Register(w) \/ DispatcherDies(w),
             UNCHANGED tableVars
      PROVE  LocksAreLive'
  <2>1. \A v \in Workers, r \in Slots :
           pc'[v][r] \in Holding => pc[v][r] \in Holding /\ job'[v][r] = job[v][r]
    <3>1. CASE Register(w)
      BY <3>1 DEF Register, TypeOK, Holding
    <3>2. CASE DispatcherDies(w)
      BY <3>2 DEF DispatcherDies, threadVars
    <3>3. QED
      BY <1>5, <3>1, <3>2
  <2>2. UNCHANGED <<lease, beat>>
    BY <1>5 DEF Register, DispatcherDies, tableVars
  <2>3. QED
    BY <2>1, <2>2, LiveLocksKeptSuffices DEF LiveLocksKept
<1>6. ASSUME NEW w \in Workers, HeartbeatStep(w)
      PROVE  LocksAreLive'
  <2>1. UNCHANGED <<pc, job>>
    BY <1>6 DEF HeartbeatStep, Snapshot, RenewLeases, RenewCommit, RenewFails, ApplyLost,
                threadVars
  <2>2. CASE RenewLeases(w)
    <3>1. /\ beat'[w].rows = {t \in beat[w].ids : Owns(w, t)}
          /\ beat'[w].pc = "renewing" /\ beat'[w].age = beat[w].age
          /\ \A v \in Workers \ {w} : beat'[v] = beat[v]
          /\ lease' = lease
      BY <1>0, <2>2 DEF RenewLeases, BeatType, tableVars
    <3>2. ASSUME NEW v \in Workers
          PROVE  /\ \A t \in beat'[v].rows : lease'[t] > 0
                 /\ beat'[v].rows # {} => beat'[v].pc = "renewing"
                 /\ beat'[v].age = 0
      <4>1. CASE v = w
        BY <3>1, <4>1 DEF LocksAreLive, Owns
      <4>2. CASE v # w
        <5>1. beat'[v] = beat[v]
          BY <3>1, <4>2
        <5>2. QED
          BY <3>1, <5>1 DEF LocksAreLive
      <4>3. QED
        BY <4>1, <4>2
    <3>3. QED
      BY <2>1, <3>1, <3>2 DEF LocksAreLive
  <2>3. ASSUME Renewed(w), NEW t \in Tasks
        PROVE  lease'[t] = lease[t] \/ lease'[t] > 0
    BY <2>3, LeaseAssumption DEF Renewed, LocksAreLive
  <2>4. CASE ~RenewLeases(w)
    <3>1. \A v \in Workers : beat'[v] = beat[v] \/ (beat'[v].rows = {} /\ beat'[v].age = 0)
      <4>1. CASE Snapshot(w)
        BY <1>0, <4>1 DEF Snapshot, IdleBeat
      <4>2. CASE RenewCommit(w)
        BY <1>0, <4>2 DEF RenewCommit, IdleBeat
      <4>3. CASE RenewFails(w) \/ ApplyLost(w)
        BY <1>0, <4>3 DEF RenewFails, ApplyLost, IdleBeat
      <4>4. QED
        BY <1>6, <2>4, <4>1, <4>2, <4>3 DEF HeartbeatStep
    <3>2. lease' = lease \/ Renewed(w)
      BY <1>6, <2>4 DEF HeartbeatStep, Snapshot, RenewCommit, RenewFails, ApplyLost, tableVars
    <3>3. \A t \in Tasks : lease'[t] = lease[t] \/ lease'[t] > 0
      BY <2>3, <3>2
    <3>4. \A v \in Workers : \A t \in beat'[v].rows : t \in Tasks
      BY <1>0, <3>1 DEF BeatType
    <3>5. \A v \in Workers, r \in Slots : pc[v][r] \in Holding => job[v][r] \in Tasks
      BY DEF ThreadsHaveTasks, Holding
    <3>6. QED
      BY <2>1, <3>1, <3>3, <3>4, <3>5, LiveLocksKeptSuffices DEF LiveLocksKept
  <2>5. QED
    BY <2>2, <2>4
<1>7. ASSUME NEW w \in Workers, NEW s \in Slots, ThreadStep(w, s)
      PROVE  LocksAreLive'
  <2>1. beat' = beat
    BY <1>7 DEF ThreadStep, BeginCollect, LoadFails, FinishCollect, LockRow, Commit,
                PersistConflict, TransactionFails
  <2>2. CASE LockRow(w, s) /\ Owns(w, job[w][s])
    <3>1. lease' = lease /\ job' = job /\ \E p : Goto(w, s, p)
      BY <2>2 DEF LockRow, tableVars
    <3>2. \A v \in Workers, r \in Slots : ~(v = w /\ r = s) => pc'[v][r] = pc[v][r]
      BY <3>1 DEF Goto, TypeOK
    <3>3. ASSUME NEW v \in Workers, NEW r \in Slots, pc'[v][r] \in Holding
          PROVE  lease'[job'[v][r]] > 0
      BY <2>2, <3>1, <3>2, <3>3 DEF LocksAreLive, Owns
    <3>4. QED
      BY <2>1, <3>1, <3>3 DEF LocksAreLive
  <2>3. CASE ~(LockRow(w, s) /\ Owns(w, job[w][s]))
    <3>1. PICK p \in {"idle", "fail", "collecting", "persist", "record"} :
             /\ Goto(w, s, p)
             /\ UNCHANGED job \/ job' = [job EXCEPT ![w][s] = NoTask]
      BY <1>7, <2>3 DEF ThreadStep, BeginCollect, LoadFails, FinishCollect, LockRow, Commit,
                  PersistConflict, TransactionFails, Abandon, Unexpected, Return
    <3>2. p \notin Holding
      BY DEF Holding
    <3>3. \A v \in Workers, r \in Slots : pc'[v][r] \in Holding =>
             /\ pc[v][r] \in Holding /\ job'[v][r] = job[v][r] /\ <<v, r>> # <<w, s>>
      BY <3>1, <3>2, ThreadMoves
    <3>4. CASE UNCHANGED lease
      BY <2>1, <3>3, <3>4, LiveLocksKeptSuffices DEF LiveLocksKept
    <3>5. CASE pc[w][s] \in Holding /\ Settle(w, s)
      <4>1. /\ worker[job[w][s]] = w
            /\ \A v \in Workers : job[w][s] \notin beat[v].rows
            /\ \A r \in Slots \ {s} : ~(job[w][r] = job[w][s] /\ pc[w][r] \in Holding)
        BY <3>5 DEF LockedRowStaysOwned
      <4>2. \A t \in Tasks \ {job[w][s]} : lease'[t] = lease[t]
        BY <3>5, SettleOthers
      <4>3. ASSUME NEW v \in Workers, NEW r \in Slots, pc'[v][r] \in Holding
            PROVE  job[v][r] \in Tasks \ {job[w][s]}
        <5>1. pc[v][r] \in Holding /\ <<v, r>> # <<w, s>>
          BY <3>3, <4>3
        <5>2. job[v][r] \in Tasks /\ worker[job[v][r]] = v
          BY <5>1 DEF ThreadsHaveTasks, LockedRowStaysOwned, Holding
        <5>3. QED
          BY <4>1, <5>1, <5>2
      <4>4. ASSUME NEW v \in Workers, NEW t \in beat[v].rows
            PROVE  t \in Tasks \ {job[w][s]}
        BY <1>0, <4>1 DEF BeatType
      <4>5. QED
        BY <2>1, <3>3, <4>2, <4>3, <4>4, LiveLocksKeptSuffices DEF LiveLocksKept
    <3>6. QED
      BY <1>7, <3>4, <3>5
      DEF ThreadStep, BeginCollect, LoadFails, FinishCollect, LockRow, Commit,
          PersistConflict, TransactionFails, tableVars
  <2>4. QED
    BY <2>2, <2>3
<1>8. ASSUME NEW w \in Workers, DispatcherStep(w)
      PROVE  LocksAreLive'
  <2>1. \/ Register(w) /\ UNCHANGED tableVars
        \/ DispatcherDies(w) /\ UNCHANGED tableVars
        \/ (Claim(w) \/ DispatcherDies(w)) /\ \E S \in SUBSET Waiting : ClaimRows(w, S)
    BY <1>8 DEF DispatcherStep, Register, Claim, DispatcherDies
  <2>2. QED
    BY <1>4, <1>5, <2>1
<1>9. QED
  BY <1>1, <1>2, <1>3, <1>6, <1>7, <1>8 DEF Next

(* A claim fills the limit up to what the live leases leave of it, as long *)
(* as no row is locked past its lease.                                     *)
LEMMA CapStep ==
    ASSUME Ownership, RunningCap, [Next]_vars,
           \A t \in RunningTasks : RowLocked(t) => lease[t] > 0
    PROVE  RunningCap'
<1> USE DEF Ownership
<1>1. IsFiniteSet(RunningTasks) /\ MaxWorkers \in Nat
  BY TasksAssumption, SlotsAssumption, FS_Subset, FS_CardinalityType
  DEF RunningTasks, MaxWorkers
<1>2. ASSUME RunningTasks' \subseteq RunningTasks PROVE RunningCap'
  <2>1. Cardinality(RunningTasks') <= Cardinality(RunningTasks)
    BY <1>1, <1>2, FS_Subset
  <2>2. Cardinality(RunningTasks) \in Nat /\ Cardinality(RunningTasks') \in Nat
    BY <1>1, <1>2, FS_Subset, FS_CardinalityType
  <2>3. QED
    BY <1>1, <2>1, <2>2 DEF RunningCap, MaxWorkers
<1>3. CASE UNCHANGED status
  BY <1>2, <1>3 DEF RunningTasks
<1>4. ASSUME NEW w \in Workers, NEW s \in Slots, pc[w][s] \in Holding, Settle(w, s)
      PROVE  RunningCap'
  <2>1. ASSUME NEW t \in Tasks, status'[t] = "RUNNING" PROVE status[t] = "RUNNING"
    <3>1. t # job[w][s]
      BY <1>4, <2>1, SettleRow DEF Results
    <3>2. QED
      BY <1>4, <2>1, <3>1, SettleOthers
  <2>2. QED
    BY <1>2, <2>1 DEF RunningTasks
<1>5. ASSUME NEW w \in Workers, NEW S \in SUBSET Waiting, ClaimRows(w, S)
      PROVE  RunningCap'
  <2>1. IsHead(S, Waiting, ClaimLimit(w))
    BY <1>5 DEF ClaimRows
  <2>2. RunningTasks' \subseteq LiveTasks \cup S
    <3>1. ASSUME NEW t \in Tasks, t \notin S, status'[t] = "RUNNING"
          PROVE  status[t] = "RUNNING" /\ t \notin ExpiredTasks
      BY <1>5, <3>1 DEF ClaimRows
    <3>2. ASSUME NEW t \in Tasks, status[t] = "RUNNING", t \notin ExpiredTasks
          PROVE  lease[t] > 0
      <4>1. lease[t] = 0 => RowLocked(t)
        BY <3>2 DEF ExpiredTasks, RunningTasks
      <4>2. lease[t] \in Nat
        BY LeaseAssumption DEF TypeOK
      <4>3. QED
        BY <3>2, <4>1, <4>2 DEF RunningTasks
    <3>3. QED
      BY <3>1, <3>2 DEF RunningTasks, LiveTasks
  <2>3. /\ IsFiniteSet(LiveTasks) /\ Cardinality(LiveTasks) \in Nat
        /\ Cardinality(LiveTasks) <= MaxWorkers
    <3>1. /\ IsFiniteSet(LiveTasks) /\ Cardinality(LiveTasks) <= Cardinality(RunningTasks)
      BY <1>1, FS_Subset DEF LiveTasks
    <3>2. Cardinality(RunningTasks) \in Nat /\ Cardinality(LiveTasks) \in Nat
      BY <1>1, <3>1, FS_CardinalityType
    <3>3. QED
      BY <1>1, <3>1, <3>2 DEF RunningCap
  <2>4. IsFiniteSet(Waiting) /\ IsFiniteSet(S) /\ IsFiniteSet(IdleSlots(w))
    BY TasksAssumption, SlotsAssumption, FS_Subset
    DEF Waiting, ExpiredTasks, RunningTasks, IdleSlots
  <2>5. /\ Cardinality(Waiting) \in Nat /\ Cardinality(S) \in Nat
        /\ Cardinality(IdleSlots(w)) \in Nat
    BY <2>4, FS_CardinalityType
  <2>6. ClaimLimit(w) \in Nat /\ ClaimLimit(w) <= MaxWorkers - Cardinality(LiveTasks)
    BY <1>1, <2>3, <2>5 DEF ClaimLimit, LesserOf
  <2>7. Cardinality(S) <= ClaimLimit(w)
    BY <2>1, <2>5, <2>6 DEF IsHead, LesserOf
  <2>8. /\ IsFiniteSet(LiveTasks \cup S) /\ Cardinality(LiveTasks \cup S) \in Nat
        /\ Cardinality(LiveTasks \cup S) <= Cardinality(LiveTasks) + Cardinality(S)
    <3>1. /\ IsFiniteSet(LiveTasks \cup S)
          /\ Cardinality(LiveTasks \cup S)
               = Cardinality(LiveTasks) + Cardinality(S) - Cardinality(LiveTasks \cap S)
      BY <2>3, <2>4, FS_Union
    <3>2. Cardinality(LiveTasks \cap S) \in Nat
      BY <2>4, FS_Subset, FS_CardinalityType
    <3>3. QED
      BY <2>3, <2>5, <3>1, <3>2, FS_CardinalityType
  <2>9. /\ Cardinality(RunningTasks') <= Cardinality(LiveTasks \cup S)
        /\ Cardinality(RunningTasks') \in Nat
    BY <2>2, <2>8, FS_Subset, FS_CardinalityType
  <2>10. Cardinality(RunningTasks') <= MaxWorkers
    BY <1>1, <2>3, <2>5, <2>6, <2>7, <2>8, <2>9
  <2>11. QED
    BY <2>10 DEF RunningCap, MaxWorkers
<1>6. QED
  BY <1>3, <1>4, <1>5, TableStep

(* With short transactions, no more rows are RUNNING than the configured   *)
(* limit, for every number of processes and tasks.                         *)
THEOREM RunningCapHolds ==
    ASSUME SlowTransactions = FALSE PROVE Spec => []RunningCap
<1>1. Init => LocksAreLive /\ RunningCap
  <2>1. Init => LocksAreLive
    BY DEF Init, LocksAreLive, Holding, IdleBeat
  <2>2. Init => RunningTasks = {}
    BY DEF Init, RunningTasks
  <2>3. 0 <= MaxWorkers
    BY SlotsAssumption, FS_CardinalityType DEF MaxWorkers
  <2>4. QED
    BY <2>1, <2>2, <2>3, FS_EmptySet DEF RunningCap
<1>2. Ownership /\ LocksAreLive /\ RunningCap /\ [Next]_vars
        => LocksAreLive' /\ RunningCap'
  <2>1. LocksAreLive => \A t \in RunningTasks : RowLocked(t) => lease[t] > 0
    BY DEF LocksAreLive, RowLocked
  <2>2. QED
    BY <2>1, LiveLocksStep, CapStep
<1>3. QED
  BY <1>1, <1>2, TypeCorrect, OwnershipHolds, PTL DEF Spec, Ownership

-----------------------------------------------------------------------------
(***************************************************************************)
(* Executions when every heartbeat comes in time and transactions are      *)
(* short.  The three invariants below are proved together: a thread that   *)
(* works on a task, the error handler included, still has its lease (or    *)
(* the task has been settled by a commit that was not answered), so no     *)
(* claim can take the task from it; and a renewal never brings the end of  *)
(* a lease forward.                                                        *)
(***************************************************************************)
Executes(w, s) == pc[w][s] # "idle"

OwnsOrSettled ==
    \A w \in Workers, s \in Slots :
        Executes(w, s) => Owns(w, job[w][s]) \/ status[job[w][s]] \in Results

OneExecutor ==
    \A w, v \in Workers, s, r \in Slots :
        Executes(w, s) /\ Executes(v, r) /\ job[w][s] = job[v][r] => w = v /\ s = r

RenewalExtends ==
    \A w \in Workers :
        /\ beat[w].pc # "renewing" => beat[w].age = 0 /\ beat[w].rows = {}
        /\ \A t \in beat[w].rows : lease[t] + beat[w].age <= LeaseTicks

Timely == Ownership /\ OwnsOrSettled /\ OneExecutor /\ RenewalExtends

(* Threads start to execute by being handed a claimed task, and in no      *)
(* other way.                                                              *)
KeptExecutions ==
    \A v \in Workers, r \in Slots :
        Executes(v, r)' => Executes(v, r) /\ job'[v][r] = job[v][r]

(* Every step but a claim starts no execution.                             *)
LEMMA ExecutionSteps ==
    ASSUME TypeOK, [Next]_vars
    PROVE  KeptExecutions \/ \E w \in Workers : Claim(w)
<1> USE DEF Executes
<1>1. CASE UNCHANGED <<pc, job>>
  BY <1>1 DEF KeptExecutions
<1>2. ASSUME NEW w \in Workers, Crash(w)
      PROVE  KeptExecutions
  BY <1>2 DEF Crash, KeptExecutions, TypeOK, Unreleased
<1>3. ASSUME NEW w \in Workers, Register(w)
      PROVE  KeptExecutions
  BY <1>3 DEF Register, KeptExecutions, TypeOK
<1>4. ASSUME NEW w \in Workers, NEW s \in Slots, ThreadStep(w, s)
      PROVE  KeptExecutions
  <2>1. \E p : /\ Goto(w, s, p)
               /\ \/ UNCHANGED job /\ Executes(w, s)
                  \/ p = "idle" /\ job' = [job EXCEPT ![w][s] = NoTask]
    <3>0. Executes(w, s)
      BY <1>4 DEF ThreadStep, BeginCollect, LoadFails, FinishCollect, LockRow, Commit,
                  PersistConflict, TransactionFails, Wanting, Holding
    <3>1. CASE Abandon(w, s) \/ Return(w, s) \/ Unexpected(w, s)
      BY <3>0, <3>1 DEF Abandon, Return, Unexpected
    <3>2. CASE BeginCollect(w, s)
      BY <3>0, <3>1, <3>2 DEF BeginCollect
    <3>3. CASE \E q \in Results : FinishCollect(w, s, q)
      BY <3>0, <3>1, <3>3 DEF FinishCollect
    <3>4. CASE LockRow(w, s)
      BY <3>0, <3>1, <3>4 DEF LockRow
    <3>5. CASE PersistConflict(w, s)
      BY <3>0, <3>5 DEF PersistConflict
    <3>6. CASE LoadFails(w, s) \/ Commit(w, s) \/ TransactionFails(w, s)
      BY <3>1, <3>6 DEF LoadFails, Commit, TransactionFails
    <3>7. QED
      BY <1>4, <3>2, <3>3, <3>4, <3>5, <3>6 DEF ThreadStep
  <2>2. QED
    BY <2>1 DEF KeptExecutions, Goto, TypeOK, Unreleased
<1>5. QED
  BY <1>1, <1>2, <1>3, <1>4
  DEF Next, Tick, ProcessStep, Start, BeginShutdown, JoinDispatcher, FinishShutdown,
      DispatcherStep, DispatcherDies, HeartbeatStep, Snapshot, RenewLeases, RenewCommit,
      RenewFails, ApplyLost, threadVars, vars

(* A renewal leaves the rows it has locked with a lease at least as long.  *)
LEMMA RenewedLonger ==
    ASSUME TypeOK, RenewalExtends, NEW w \in Workers, Renewed(w), NEW t \in Tasks
    PROVE  /\ lease'[t] >= lease[t]
           /\ t \notin beat[w].rows => lease'[t] = lease[t]
           /\ t \in beat[w].rows => lease'[t] + beat[w].age = LeaseTicks
<1>1. /\ lease[t] \in 0..LeaseTicks /\ beat[w].age \in 0..LeaseTicks
      /\ lease'[t] = IF t \in beat[w].rows THEN LeaseTicks - beat[w].age ELSE lease[t]
  BY DEF TypeOK, Renewed
<1>2. t \in beat[w].rows => lease[t] + beat[w].age <= LeaseTicks
  BY DEF RenewalExtends
<1>3. QED
  BY <1>1, <1>2, LeaseAssumption

(* The lease of a task that is being executed lasts until it is settled.   *)
LEMMA LeaseLasts ==
    ASSUME TimelyHeartbeats, SlowTransactions = FALSE, Ownership, RenewalExtends,
           [Next]_vars, NEW v \in Workers, NEW r \in Slots,
           NEW t \in Tasks, Executes(v, r), job[v][r] = t, Owns(v, t)
    PROVE  Owns(v, t)' \/ status'[t] \in Results
<1> USE DEF Ownership
<1>1. status[t] = "RUNNING" /\ worker[t] = v /\ lease[t] > 0 /\ lease[t] \in Nat
  BY LeaseAssumption DEF Owns, TypeOK
<1>2. SUFFICES \/ status'[t] \in Results
               \/ status'[t] = status[t] /\ worker'[t] = worker[t] /\ lease'[t] > 0
  BY <1>1 DEF Owns
<1>3. CASE UNCHANGED <<status, worker>> /\ UNCHANGED lease
  BY <1>1, <1>3
<1>4. CASE Tick
  <2>1. lease[t] > 1
    <3>1. /\ \A w \in Workers, s \in Slots : pc[w][s] \notin Holding
          /\ \A w \in Workers : beat[w].rows = {}
      BY <1>4 DEF Tick, TransactionOpen, RenewalExtends
    <3>2. \A u : ~RowLocked(u)
      BY <3>1 DEF RowLocked
    <3>3. pc[v][r] \in Unreleased \cup {"claimed", "fail"}
      BY <3>1 DEF TypeOK, PCs, Executes, Wanting, Holding, Unreleased
    <3>4. KeptInTime(v, r)
      BY <3>1, <3>2, <3>3 DEF KeptInTime, HeartbeatWaits
    <3>5. QED
      BY <1>4, <3>4 DEF Tick
  <2>2. lease'[t] = lease[t] - 1 /\ UNCHANGED <<status, worker>>
    BY <1>1, <1>4 DEF Tick
  <2>3. QED
    BY <1>1, <2>1, <2>2
<1>5. ASSUME NEW w \in Workers, Renewed(w), UNCHANGED <<status, worker>>
      PROVE  status'[t] = status[t] /\ worker'[t] = worker[t] /\ lease'[t] > 0
  <2>1. lease'[t] >= lease[t] /\ lease'[t] \in Int
    <3>1. beat[w].age \in Int /\ lease'[t] = IF t \in beat[w].rows
                                      THEN LeaseTicks - beat[w].age ELSE lease[t]
      BY <1>5 DEF Renewed, TypeOK
    <3>2. QED
      BY <1>1, <1>5, <3>1, RenewedLonger, LeaseAssumption
  <2>2. QED
    BY <1>1, <1>5, <2>1
<1>6. ASSUME NEW w \in Workers, NEW S \in SUBSET Waiting, ClaimRows(w, S)
      PROVE  status'[t] = status[t] /\ worker'[t] = worker[t] /\ lease'[t] > 0
  BY <1>1, <1>6, ClaimSparesLocked
<1>7. ASSUME NEW w \in Workers, NEW s \in Slots, pc[w][s] \in Holding, Settle(w, s)
      PROVE  \/ status'[t] \in Results
             \/ status'[t] = status[t] /\ worker'[t] = worker[t] /\ lease'[t] > 0
  <2>1. CASE t = job[w][s]
    BY <1>7, <2>1, SettleRow
  <2>2. CASE t # job[w][s]
    BY <1>1, <1>7, <2>2, SettleOthers
  <2>3. QED
    BY <2>1, <2>2
<1>8. QED
  BY <1>3, <1>4, <1>5, <1>6, <1>7, TableStep

(* What a claim hands out was executed by nobody.                          *)
LEMMA ClaimHandsOut ==
    ASSUME Timely, NEW w \in Workers, Claim(w)
    PROVE  \E S \in SUBSET Waiting :
              /\ ClaimRows(w, S)
              /\ \A t \in S : t \in Tasks /\ Owns(w, t)'
                            /\ \E s \in Slots : Executes(w, s)' /\ job'[w][s] = t
              /\ \A t \in S, v \in Workers, r \in Slots :
                    ~(Executes(v, r) /\ job[v][r] = t)
              /\ \A v \in Workers, r \in Slots : Executes(v, r) =>
                    Executes(v, r)' /\ job'[v][r] = job[v][r]
              /\ \A v \in Workers, r \in Slots : Executes(v, r)' =>
                    \/ Executes(v, r) /\ job'[v][r] = job[v][r]
                    \/ v = w /\ job'[v][r] \in S /\ ~Executes(v, r)
              /\ \A s, r \in Slots :
                   (/\ Executes(w, s)' /\ ~Executes(w, s) /\ Executes(w, r)' /\ ~Executes(w, r)
                    /\ job'[w][s] = job'[w][r])
                   => s = r
<1> USE DEF Timely, Ownership
<1>1. PICK S \in SUBSET Waiting :
         ClaimRows(w, S) /\ \E h \in Handouts(S, IdleSlots(w)) : HandOut(w, h)
  BY DEF Claim
<1>2. PICK h \in Handouts(S, IdleSlots(w)) : HandOut(w, h)
  BY <1>1
<1>3. /\ h \in [IdleSlots(w) -> S \cup {NoTask}]
      /\ \A t \in S : \E s \in IdleSlots(w) : h[s] = t
      /\ \A s, r \in IdleSlots(w) : h[s] = h[r] /\ h[s] # NoTask => s = r
  BY DEF Handouts
<1>4. S \subseteq Tasks /\ NoTask \notin Tasks
  BY TasksAssumption DEF Waiting, ExpiredTasks, RunningTasks, NoTask
<1>5. /\ pc \in [Workers -> [Slots -> PCs]]
      /\ job \in [Workers -> [Slots -> Tasks \cup {NoTask}]]
  BY DEF TypeOK
<1>6. /\ \A v \in Workers, r \in Slots :
           v # w => pc'[v][r] = pc[v][r] /\ job'[v][r] = job[v][r]
      /\ \A r \in Slots : r \notin IdleSlots(w) =>
           pc'[w][r] = pc[w][r] /\ job'[w][r] = job[w][r]
      /\ \A r \in IdleSlots(w) :
           IF h[r] # NoTask THEN pc'[w][r] = "claimed" /\ job'[w][r] = h[r]
           ELSE pc'[w][r] = pc[w][r] /\ job'[w][r] = job[w][r]
  BY <1>2, <1>5 DEF HandOut, IdleSlots
<1>7. \A r \in Slots : r \in IdleSlots(w) <=> pc[w][r] = "idle"
  BY DEF IdleSlots
<1>8. \A v \in Workers, r \in Slots : Executes(v, r) => pc[v][r] # "idle"
  BY DEF Executes, Unreleased
<1>9. ASSUME NEW t \in S
      PROVE  /\ t \in Tasks /\ Owns(w, t)'
             /\ \E s \in Slots : Executes(w, s)' /\ job'[w][s] = t
  <2>1. t \in Tasks /\ status'[t] = "RUNNING" /\ worker'[t] = w /\ lease'[t] = LeaseTicks
    BY <1>1, <1>4 DEF ClaimRows
  <2>2. PICK s \in IdleSlots(w) : h[s] = t
    BY <1>3
  <2>3. s \in Slots /\ pc'[w][s] = "claimed" /\ job'[w][s] = t
    BY <1>4, <1>6, <2>1, <2>2 DEF IdleSlots
  <2>4. QED
    BY <2>1, <2>3, LeaseAssumption DEF Owns, Executes
<1>10. ASSUME NEW t \in S, NEW v \in Workers, NEW r \in Slots,
              Executes(v, r), job[v][r] = t
       PROVE  FALSE
  <2>1. Owns(v, t) \/ status[t] \in Results
    BY <1>10 DEF OwnsOrSettled
  <2>2. status[t] = "PENDING" \/ (lease[t] = 0 /\ status[t] = "RUNNING")
    BY DEF Waiting, ExpiredTasks, RunningTasks
  <2>3. QED
    BY <2>1, <2>2 DEF Owns, Results
<1>11. \A v \in Workers, r \in Slots :
          Executes(v, r) => Executes(v, r)' /\ job'[v][r] = job[v][r]
  BY <1>6, <1>7, <1>8 DEF Executes
<1>12. \A v \in Workers, r \in Slots : Executes(v, r)' =>
          \/ Executes(v, r) /\ job'[v][r] = job[v][r]
          \/ /\ v = w /\ job'[v][r] \in S /\ ~Executes(v, r)
             /\ r \in IdleSlots(w) /\ job'[v][r] = h[r] /\ h[r] # NoTask
  BY <1>3, <1>6, <1>7, <1>8 DEF Executes
<1>13. \A s, r \in Slots :
         (/\ Executes(w, s)' /\ ~Executes(w, s) /\ Executes(w, r)' /\ ~Executes(w, r)
          /\ job'[w][s] = job'[w][r])
         => s = r
  BY <1>3, <1>12
<1>14. \A v \in Workers, r \in Slots : Executes(v, r)' =>
          \/ Executes(v, r) /\ job'[v][r] = job[v][r]
          \/ v = w /\ job'[v][r] \in S /\ ~Executes(v, r)
  BY <1>12
<1>15. ClaimRows(w, S)
  BY <1>1
<1> HIDE DEF Timely, Ownership
<1> WITNESS S \in SUBSET Waiting
<1>16. QED
  BY <1>9, <1>10, <1>11, <1>13, <1>14, <1>15

(* The first two invariants.                                               *)
LEMMA ExecutorStep ==
    ASSUME TimelyHeartbeats, SlowTransactions = FALSE, Timely, [Next]_vars
    PROVE  OwnsOrSettled' /\ OneExecutor'
<1> USE DEF Timely, Ownership
<1>2. ASSUME NEW v \in Workers, NEW r \in Slots, NEW t, t = job[v][r], Executes(v, r)
      PROVE  Owns(v, t)' \/ status'[t] \in Results
  <2>1. t \in Tasks
    BY <1>2 DEF ThreadsHaveTasks, Executes, Unreleased
  <2>2. CASE Owns(v, t)
    BY <1>2, <2>1, <2>2, LeaseLasts
  <2>3. CASE status[t] \in Results
    BY <2>1, <2>3, SettledStep DEF KeepsSettled
  <2>4. QED
    BY <1>2, <2>2, <2>3 DEF OwnsOrSettled
<1>3. CASE KeptExecutions
  <2>1. ASSUME NEW v \in Workers, NEW r \in Slots, Executes(v, r)'
        PROVE  (Owns(v, job[v][r]) \/ status[job[v][r]] \in Results)'
    <3>1. PICK t : t = job[v][r]
      OBVIOUS
    <3>2. Executes(v, r) /\ job'[v][r] = t
      BY <1>3, <2>1, <3>1 DEF KeptExecutions
    <3>3. Owns(v, t)' \/ status'[t] \in Results
      BY <1>2, <3>1, <3>2
    <3>4. QED
      BY <3>2, <3>3 DEF Owns
  <2>2. OneExecutor'
    BY <1>3 DEF KeptExecutions, OneExecutor
  <2>3. QED
    BY <2>1, <2>2 DEF OwnsOrSettled
<1>4. ASSUME NEW w \in Workers, Claim(w)
      PROVE  OwnsOrSettled' /\ OneExecutor'
  <2>1. PICK S \in SUBSET Waiting :
           /\ ClaimRows(w, S)
           /\ \A t \in S : t \in Tasks /\ Owns(w, t)'
           /\ \A t \in S, v \in Workers, r \in Slots :
                 ~(Executes(v, r) /\ job[v][r] = t)
           /\ \A v \in Workers, r \in Slots : Executes(v, r)' =>
                 \/ Executes(v, r) /\ job'[v][r] = job[v][r]
                 \/ v = w /\ job'[v][r] \in S /\ ~Executes(v, r)
           /\ \A s, r \in Slots :
                (/\ Executes(w, s)' /\ ~Executes(w, s) /\ Executes(w, r)' /\ ~Executes(w, r)
                 /\ job'[w][s] = job'[w][r])
                => s = r
    BY <1>4, ClaimHandsOut
  <2>2. ASSUME NEW v \in Workers, NEW r \in Slots, Executes(v, r)'
        PROVE  (Owns(v, job[v][r]) \/ status[job[v][r]] \in Results)'
    <3>1. PICK t : t = job'[v][r]
      OBVIOUS
    <3>2. Owns(v, t)' \/ status'[t] \in Results
      BY <1>2, <2>1, <2>2, <3>1
    <3>3. QED
      BY <3>1, <3>2 DEF Owns
  <2>3. ASSUME NEW u \in Workers, NEW v \in Workers, NEW s \in Slots, NEW r \in Slots,
               Executes(u, s)', Executes(v, r)', job'[u][s] = job'[v][r]
        PROVE  u = v /\ s = r
    <3>1. CASE Executes(u, s) /\ Executes(v, r)
      BY <2>1, <2>3, <3>1 DEF OneExecutor
    <3>2. CASE ~Executes(u, s) /\ Executes(v, r)
      BY <2>1, <2>3, <3>2
    <3>3. CASE Executes(u, s) /\ ~Executes(v, r)
      BY <2>1, <2>3, <3>3
    <3>4. CASE ~Executes(u, s) /\ ~Executes(v, r)
      BY <2>1, <2>3, <3>4
    <3>5. QED
      BY <3>1, <3>2, <3>3, <3>4
  <2>4. QED
    BY <2>2, <2>3 DEF OwnsOrSettled, OneExecutor
<1>5. QED
  BY <1>3, <1>4, ExecutionSteps

(* The clock takes from a lease what it adds to the age of its renewal.    *)
LEMMA RenewalTick ==
    ASSUME TypeOK, RenewalExtends, Tick PROVE RenewalExtends'
<1> SUFFICES ASSUME NEW v \in Workers
             PROVE  /\ beat'[v].pc # "renewing" => beat'[v].age = 0 /\ beat'[v].rows = {}
                    /\ \A t \in beat'[v].rows : lease'[t] + beat'[v].age <= LeaseTicks
  BY DEF RenewalExtends
<1>1. beat[v] \in BeatType /\ lease \in [Tasks -> 0..LeaseTicks]
  BY DEF TypeOK, BeatType
<1>2. beat'[v] = IF beat[v].pc = "renewing" /\ beat[v].age < LeaseTicks
                 THEN [beat[v] EXCEPT !.age = @ + 1] ELSE beat[v]
  BY DEF Tick
<1>3. /\ beat'[v].pc = beat[v].pc /\ beat'[v].rows = beat[v].rows
      /\ beat'[v].age = IF beat[v].pc = "renewing" /\ beat[v].age < LeaseTicks
                        THEN beat[v].age + 1 ELSE beat[v].age
  BY <1>1, <1>2 DEF BeatType
<1>4. beat[v].pc # "renewing" => beat[v].age = 0 /\ beat[v].rows = {}
  BY DEF RenewalExtends
<1>5. ASSUME NEW t \in beat[v].rows
      PROVE  lease'[t] + beat'[v].age <= LeaseTicks
  <2>1. t \in Tasks /\ lease[t] \in 0..LeaseTicks /\ beat[v].age \in 0..LeaseTicks
    BY <1>1 DEF BeatType
  <2>2. lease'[t] = IF lease[t] > 0 THEN lease[t] - 1 ELSE 0
    BY <2>1 DEF Tick
  <2>3. lease[t] + beat[v].age <= LeaseTicks
    BY DEF RenewalExtends
  <2>4. QED
    BY <1>3, <2>1, <2>2, <2>3, LeaseAssumption
<1>6. QED
  BY <1>3, <1>4, <1>5

(* Every other step keeps the lease of a locked row within its renewal.    *)
LEMMA RenewalOfLocked ==
    ASSUME Ownership, RenewalExtends, [Next]_vars, ~Tick,
           NEW v \in Workers, NEW t \in beat[v].rows
    PROVE  lease'[t] + beat[v].age <= LeaseTicks
<1> USE DEF Ownership
<1>1. t \in Tasks /\ status[t] = "RUNNING" /\ worker[t] = v /\ RowLocked(t)
  BY DEF TypeOK, LockedRowStaysOwned, RowLocked
<1>2. lease[t] + beat[v].age <= LeaseTicks
  BY DEF RenewalExtends
<1>3. CASE UNCHANGED lease
  BY <1>2, <1>3
<1>4. ASSUME NEW w \in Workers, Renewed(w)
      PROVE  lease'[t] + beat[v].age <= LeaseTicks
  <2>1. CASE w = v
    <3>1. lease'[t] + beat[v].age = LeaseTicks
      BY <1>1, <1>4, <2>1, RenewedLonger
    <3>2. QED
      BY <3>1, LeaseAssumption
  <2>2. CASE w # v
    <3>1. t \notin beat[w].rows
      BY <1>1, <2>2 DEF LockedRowStaysOwned
    <3>2. QED
      BY <1>1, <1>2, <1>4, <3>1, RenewedLonger
  <2>3. QED
    BY <2>1, <2>2
<1>5. ASSUME NEW w \in Workers, NEW S \in SUBSET Waiting, ClaimRows(w, S)
      PROVE  lease'[t] + beat[v].age <= LeaseTicks
  <2>1. lease'[t] = lease[t]
    BY <1>1, <1>5, ClaimSparesLocked
  <2>2. QED
    BY <1>2, <2>1
<1>6. ASSUME NEW w \in Workers, NEW s \in Slots, pc[w][s] \in Holding, Settle(w, s)
      PROVE  lease'[t] + beat[v].age <= LeaseTicks
  <2>1. t # job[w][s]
    BY <1>6 DEF LockedRowStaysOwned
  <2>2. lease'[t] = lease[t]
    BY <1>1, <1>6, <2>1, SettleOthers
  <2>3. QED
    BY <1>2, <2>2
<1>7. QED
  BY <1>3, <1>4, <1>5, <1>6, TableStep

(* What becomes of a heartbeat when the clock stands still.                *)
LEMMA BeatSteps ==
    ASSUME TypeOK, [Next]_vars, ~Tick, NEW v \in Workers
    PROVE  \/ beat'[v] = beat[v]
           \/ beat'[v].rows = {} /\ beat'[v].age = 0
           \/ RenewLeases(v)
<1>1. beat \in [Workers -> BeatType]
  BY DEF TypeOK, BeatType
<1>2. IdleBeat.rows = {} /\ IdleBeat.age = 0
  BY DEF IdleBeat
<1>3. ASSUME NEW w \in Workers, Crash(w) \/ RenewFails(w) \/ ApplyLost(w)
      PROVE  beat'[v] = beat[v] \/ (beat'[v].rows = {} /\ beat'[v].age = 0)
  <2>1. beat' = [beat EXCEPT ![w] = IdleBeat]
    BY <1>3 DEF Crash, RenewFails, ApplyLost
  <2>2. QED
    BY <1>1, <1>2, <2>1
<1>4. ASSUME NEW w \in Workers, Snapshot(w) \/ RenewCommit(w)
      PROVE  beat'[v] = beat[v] \/ (beat'[v].rows = {} /\ beat'[v].age = 0)
  BY <1>1, <1>4 DEF Snapshot, RenewCommit, IdleBeat
<1>5. ASSUME NEW w \in Workers, RenewLeases(w)
      PROVE  beat'[v] = beat[v] \/ RenewLeases(v)
  BY <1>1, <1>5 DEF RenewLeases
<1>6. ASSUME NEW w \in Workers, DispatcherStep(w) PROVE beat' = beat
  BY <1>6 DEF DispatcherStep, Claim, Register, DispatcherDies
<1>7. ASSUME NEW w \in Workers, NEW s \in Slots, ThreadStep(w, s) PROVE beat' = beat
  BY <1>7 DEF ThreadStep, BeginCollect, LoadFails, FinishCollect, LockRow, Commit,
              PersistConflict, TransactionFails
<1>8. ASSUME NEW w \in Workers, ProcessStep(w), ~Crash(w) PROVE beat' = beat
  BY <1>8 DEF ProcessStep, Start, BeginShutdown, JoinDispatcher, FinishShutdown
<1>9. CASE UNCHANGED vars
  BY <1>9 DEF vars
<1>10. QED
  BY <1>3, <1>4, <1>5, <1>6, <1>7, <1>8, <1>9 DEF Next, HeartbeatStep

(* The third invariant.                                                    *)
LEMMA RenewalStep ==
    ASSUME Ownership, RenewalExtends, [Next]_vars PROVE RenewalExtends'
<1>1. TypeOK
  BY DEF Ownership
<1>2. CASE Tick
  BY <1>1, <1>2, RenewalTick
<1>3. CASE ~Tick
  <2> SUFFICES ASSUME NEW v \in Workers
               PROVE  /\ beat'[v].pc # "renewing" => beat'[v].age = 0 /\ beat'[v].rows = {}
                      /\ \A t \in beat'[v].rows : lease'[t] + beat'[v].age <= LeaseTicks
    BY DEF RenewalExtends
  <2>1. CASE beat'[v] = beat[v]
    <3>1. \A t \in beat[v].rows : lease'[t] + beat[v].age <= LeaseTicks
      BY <1>3, RenewalOfLocked
    <3>2. beat[v].pc # "renewing" => beat[v].age = 0 /\ beat[v].rows = {}
      BY DEF RenewalExtends
    <3>3. QED
      BY <2>1, <3>1, <3>2
  <2>2. CASE beat'[v].rows = {} /\ beat'[v].age = 0
    BY <2>2
  <2>3. CASE RenewLeases(v)
    <3>1. beat \in [Workers -> BeatType] /\ lease \in [Tasks -> 0..LeaseTicks]
      BY <1>1 DEF TypeOK, BeatType
    <3>2. /\ beat'[v].pc = "renewing" /\ beat'[v].age = beat[v].age
          /\ beat'[v].rows = {t \in beat[v].ids : Owns(v, t)} /\ lease' = lease
      BY <2>3, <3>1 DEF RenewLeases, BeatType, tableVars
    <3>3. beat[v].age = 0
      BY <2>3 DEF RenewLeases, RenewalExtends
    <3>4. \A t \in beat'[v].rows : lease[t] \in 0..LeaseTicks
      BY <3>1, <3>2 DEF BeatType
    <3>5. QED
      BY <3>2, <3>3, <3>4, LeaseAssumption
  <2>4. QED
    BY <1>1, <1>3, <2>1, <2>2, <2>3, BeatSteps
<1>4. QED
  BY <1>2, <1>3

(* When heartbeats come in time and transactions are short, the lease of a *)
(* task outlives its execution.                                            *)
LEMMA TimelyHolds ==
    ASSUME TimelyHeartbeats, SlowTransactions = FALSE
    PROVE  Spec => []Timely
<1>1. Init => OwnsOrSettled /\ OneExecutor /\ RenewalExtends
  BY DEF Init, OwnsOrSettled, OneExecutor, RenewalExtends, Executes, Unreleased, IdleBeat
<1>2. Timely /\ [Next]_vars => (OwnsOrSettled /\ OneExecutor /\ RenewalExtends)'
  BY ExecutorStep, RenewalStep DEF Timely
<1>3. QED
  BY <1>1, <1>2, TypeCorrect, OwnershipHolds, PTL DEF Spec, Ownership, Timely

(* No task is executed by two threads at once, in whatever processes they  *)
(* are and whatever transactions fail, as long as heartbeats are timely    *)
(* and transactions short.                                                 *)
THEOREM OneExecutionHolds ==
    ASSUME TimelyHeartbeats, SlowTransactions = FALSE
    PROVE  Spec => []OneExecution
<1>1. Timely => OneExecution
  BY DEF Timely, OneExecutor, OneExecution, Executes, Unreleased
<1>2. QED
  BY <1>1, TimelyHolds, PTL

-----------------------------------------------------------------------------
(***************************************************************************)
(* Executions when, besides, no database call fails.  Now an execution     *)
(* ends only with the settlement of its task or with its process (a device *)
(* that is gone, disabled or busy makes the error handler settle it), which*)
(* makes the RUNNING rows of a process that has not crashed exactly the    *)
(* tasks its threads execute.  What a heartbeat reports as lost has been   *)
(* settled meanwhile, and the reaction to a lost lease is never needed.    *)
(***************************************************************************)
StillOwns == \A w \in Workers, s \in Slots : Executes(w, s) => Owns(w, job[w][s])

OwnerExecutes ==
    \A w \in Workers, t \in Tasks :
        worker[t] = w /\ proc[w] # "crashed" =>
            \E s \in Slots : job[w][s] = t /\ Executes(w, s)

(* A process that is not running has no thread and no heartbeat at work.   *)
QuietUnlessRunning ==
    \A w \in Workers :
        /\ proc[w] \notin Running =>
             (\A s \in Slots : pc[w][s] = "idle") /\ beat[w].pc = "idle"
        /\ beat[w].pc = "idle" => beat[w] = IdleBeat

LostIsSettled ==
    \A w \in Workers, t \in Tasks :
        /\ t \in lost[w] => status[t] \in Results
        /\ t \in beat[w].ids => status[t] \in Results \/ Owns(w, t)
        /\ t \in beat[w].ids \ beat[w].rows /\ beat[w].pc \in {"renewing", "returned"}
             => status[t] \in Results

Faultless ==
    /\ Timely /\ ActiveIsExecuted
    /\ StillOwns /\ OwnerExecutes /\ QuietUnlessRunning /\ LostIsSettled

(* Without failures the table of an execution changes by Commit only.      *)
LEMMA NoFault ==
    ASSUME MaxFaults = 0, TypeOK PROVE ~DatabaseFails
BY DEF TypeOK, DatabaseFails

(* Without failures a task is settled by a commit that is answered.        *)
LEMMA CommitSettles ==
    ASSUME MaxFaults = 0, Ownership, [Next]_vars, NEW t \in Tasks,
           status[t] \notin Results, status'[t] \in Results
    PROVE  \E w \in Workers, s \in Slots : Commit(w, s) /\ job[w][s] = t
<1> USE DEF Ownership
<1>1. ~DatabaseFails
  BY NoFault
<1>2. CASE UNCHANGED status
  BY <1>2
<1>3. ASSUME NEW w \in Workers, NEW s \in Slots, Commit(w, s)
      PROVE  job[w][s] = t
  <2>1. Settle(w, s)
    BY <1>3 DEF Commit
  <2>2. QED
    BY <2>1, SettleOthers
<1>4. ASSUME NEW w \in Workers, NEW S \in SUBSET Waiting, ClaimRows(w, S)
      PROVE  FALSE
  BY <1>4 DEF ClaimRows, Results
<1>5. ASSUME NEW w \in Workers, NEW s \in Slots, ThreadStep(w, s), ~Commit(w, s)
      PROVE  UNCHANGED status
  BY <1>1, <1>5
  DEF ThreadStep, BeginCollect, LoadFails, FinishCollect, LockRow, PersistConflict,
      TransactionFails, tableVars
<1>6. ASSUME NEW w \in Workers, DispatcherStep(w)
      PROVE  UNCHANGED status
  BY <1>4, <1>6 DEF DispatcherStep, Claim, Register, DispatcherDies, tableVars
<1>7. ASSUME NEW w \in Workers, ProcessStep(w) \/ HeartbeatStep(w)
      PROVE  UNCHANGED status
  BY <1>7
  DEF ProcessStep, Start, BeginShutdown, JoinDispatcher, FinishShutdown, Crash,
      HeartbeatStep, Snapshot, RenewLeases, RenewCommit, RenewFails, ApplyLost, tableVars
<1>8. QED
  BY <1>2, <1>3, <1>5, <1>6, <1>7 DEF Next, Tick, vars

(* How a thread moves without failures: forward, to the error handler if   *)
(* collect refuses the task, or out with a commit.                         *)
LEMMA FaultlessThread ==
    ASSUME MaxFaults = 0, Faultless, NEW w \in Workers, NEW s \in Slots, ThreadStep(w, s)
    PROVE  /\ Executes(w, s)
           /\ UNCHANGED lost \/ Release(w, job[w][s])
           /\ \/ Commit(w, s) /\ Return(w, s)
              \/ /\ UNCHANGED <<tableVars, job>>
                 /\ \E p \in PCs \ {"idle"} : Goto(w, s, p)
<1> USE DEF Faultless, Timely, Ownership
<1>1. ~DatabaseFails
  BY NoFault
<1>2. Executes(w, s)
  BY DEF ThreadStep, BeginCollect, LoadFails, FinishCollect, LockRow, Commit,
         PersistConflict, TransactionFails, Wanting, Holding, Executes
<1>3. Owns(w, job[w][s]) /\ status[job[w][s]] \notin Results /\ job[w][s] \in Tasks
  BY <1>2 DEF StillOwns, Owns, Results, Executes, ThreadsHaveTasks
<1>4. CASE Unexpected(w, s) /\ UNCHANGED tableVars
  BY <1>2, <1>4 DEF Unexpected, PCs, Wanting
<1>5. CASE BeginCollect(w, s)
  BY <1>2, <1>3, <1>4, <1>5 DEF BeginCollect, PCs, Unreleased, leaseSets
<1>6. ASSUME NEW r \in Results, FinishCollect(w, s, r)
      PROVE  UNCHANGED <<tableVars, job, lost>> /\ Goto(w, s, "persist")
  <2>1. job[w][s] \notin lost[w]
    BY <1>3 DEF LostIsSettled
  <2>2. QED
    BY <1>6, <2>1 DEF FinishCollect, leaseSets
<1>7. CASE LockRow(w, s)
  <2>1. Locked(pc[w][s]) \in PCs \ {"idle"}
    BY <1>7 DEF LockRow, Wanting, Locked, PCs, Holding
  <2>2. QED
    BY <1>2, <1>3, <1>7, <2>1 DEF LockRow, leaseSets
<1>8. CASE Commit(w, s)
  BY <1>2, <1>8 DEF Commit, Abandon, leaseSets
<1>9. QED
  BY <1>1, <1>2, <1>5, <1>6, <1>7, <1>8
  DEF ThreadStep, LoadFails, PersistConflict, TransactionFails, PCs, Wanting

(* Without failures an execution goes on until it commits or its process   *)
(* dies.                                                                   *)
LEMMA ExecutionEnds ==
    ASSUME MaxFaults = 0, Faultless, [Next]_vars, NEW v \in Workers, NEW r \in Slots,
           Executes(v, r)
    PROVE  \/ Executes(v, r)' /\ job'[v][r] = job[v][r]
           \/ Commit(v, r) /\ pc'[v][r] = "idle"
           \/ proc'[v] = "crashed"
<1> USE DEF Faultless, Timely, Ownership
<1>1. CASE UNCHANGED <<pc, job>>
  BY <1>1 DEF Executes
<1>2. ASSUME NEW w \in Workers, Crash(w)
      PROVE  (Executes(v, r)' /\ job'[v][r] = job[v][r]) \/ proc'[v] = "crashed"
  BY <1>2 DEF Crash, Executes, TypeOK
<1>3. ASSUME NEW w \in Workers, Register(w)
      PROVE  Executes(v, r)' /\ job'[v][r] = job[v][r]
  BY <1>3 DEF Register, Executes, TypeOK, Unreleased
<1>4. ASSUME NEW w \in Workers, Claim(w)
      PROVE  Executes(v, r)' /\ job'[v][r] = job[v][r]
  BY <1>4, ClaimHandsOut
<1>5. ASSUME NEW w \in Workers, NEW s \in Slots, ThreadStep(w, s)
      PROVE  \/ Executes(v, r)' /\ job'[v][r] = job[v][r]
             \/ Commit(v, r) /\ pc'[v][r] = "idle"
  <2>1. CASE Commit(w, s) /\ Return(w, s)
    BY <2>1 DEF Return, Goto, Executes, TypeOK
  <2>2. ASSUME NEW p \in PCs \ {"idle"}, Goto(w, s, p), UNCHANGED job
        PROVE  Executes(v, r)' /\ job'[v][r] = job[v][r]
    BY <2>2 DEF Goto, Executes, TypeOK
  <2>3. QED
    BY <1>5, <2>1, <2>2, FaultlessThread
<1>6. QED
  BY <1>1, <1>2, <1>3, <1>4, <1>5
  DEF Next, Tick, ProcessStep, Start, BeginShutdown, JoinDispatcher, FinishShutdown,
      DispatcherStep, DispatcherDies, HeartbeatStep, Snapshot, RenewLeases, RenewCommit,
      RenewFails, ApplyLost, threadVars, vars

(* The settled task of an execution was settled by it.                     *)
LEMMA OwnExecutionSettles ==
    ASSUME MaxFaults = 0, Faultless, [Next]_vars, NEW v \in Workers, NEW r \in Slots,
           Executes(v, r), status'[job[v][r]] \in Results
    PROVE  ~Executes(v, r)'
<1> USE DEF Faultless, Timely, Ownership
<1>1. PICK t : t = job[v][r]
  OBVIOUS
<1>2. t \in Tasks /\ status[t] \notin Results
  BY <1>1 DEF ThreadsHaveTasks, StillOwns, Owns, Results, Executes, Unreleased
<1>3. PICK w \in Workers, s \in Slots : Commit(w, s) /\ job[w][s] = t
  BY <1>1, <1>2, CommitSettles
<1>4. Executes(w, s)
  BY <1>3 DEF Commit, Holding, Executes
<1>5. w = v /\ s = r
  BY <1>1, <1>3, <1>4 DEF OneExecutor
<1>6. pc'[w][s] = "idle"
  BY <1>3 DEF Commit, Abandon, Return, Goto, TypeOK
<1>7. QED
  BY <1>5, <1>6 DEF Executes, Unreleased

(* Each of the four invariants is kept by every step: a thread that still  *)
(* executes has not settled its task, so its lease lasts;                  *)
LEMMA StillOwnsStep ==
    ASSUME TimelyHeartbeats, SlowTransactions = FALSE, MaxFaults = 0, Faultless, [Next]_vars
    PROVE  StillOwns'
<1> USE DEF Faultless, Timely, Ownership
<1> SUFFICES ASSUME NEW v \in Workers, NEW r \in Slots, Executes(v, r)'
             PROVE  Owns(v, job[v][r])'
  BY DEF StillOwns
<1>1. PICK t : t = job'[v][r]
  OBVIOUS
<1>2. CASE Executes(v, r) /\ job[v][r] = t
  <2>1. t \in Tasks /\ Owns(v, t)
    BY <1>2 DEF ThreadsHaveTasks, StillOwns, Executes, Unreleased
  <2>2. status'[t] \notin Results
    BY <1>2, OwnExecutionSettles
  <2>3. Owns(v, t)'
    BY <1>2, <2>1, <2>2, LeaseLasts
  <2>4. QED
    BY <1>1, <2>3 DEF Owns
<1>3. CASE KeptExecutions
  BY <1>1, <1>2, <1>3 DEF KeptExecutions
<1>4. ASSUME NEW w \in Workers, Claim(w), ~(Executes(v, r) /\ job[v][r] = t)
      PROVE  Owns(v, job[v][r])'
  <2>1. Owns(v, t)'
    BY <1>1, <1>4, ClaimHandsOut
  <2>2. QED
    BY <1>1, <2>1 DEF Owns
<1>5. QED
  BY <1>2, <1>3, <1>4, ExecutionSteps

(* How a process reaches another life.                                     *)
LEMMA LifeSteps ==
    ASSUME TypeOK, [Next]_vars, NEW v \in Workers
    PROVE  /\ proc[v] = "crashed" => proc'[v] = "crashed"
           /\ proc'[v] \notin Running =>
                proc[v] \notin Running \/ Crash(v) \/ FinishShutdown(v)
<1>1. CASE UNCHANGED proc
  BY <1>1
<1>2. ASSUME NEW w \in Workers, ProcessStep(w)
      PROVE  /\ proc[v] = "crashed" => proc'[v] = "crashed"
             /\ proc'[v] \notin Running =>
                  proc[v] \notin Running \/ Crash(v) \/ FinishShutdown(v)
  BY <1>2 DEF ProcessStep, Start, BeginShutdown, JoinDispatcher, FinishShutdown, Crash,
              TypeOK, Running
<1>3. ASSUME NEW w \in Workers, Claim(w) \/ DispatcherDies(w)
      PROVE  /\ proc[v] = "crashed" => proc'[v] = "crashed"
             /\ proc'[v] \notin Running => proc[v] \notin Running
  BY <1>3 DEF Claim, DispatcherDies, Dispatching, TypeOK, Running
<1>4. ASSUME NEW w \in Workers, NEW s \in Slots, ThreadStep(w, s) PROVE UNCHANGED proc
  BY <1>4 DEF ThreadStep, BeginCollect, LoadFails, FinishCollect, LockRow, Commit,
              PersistConflict, TransactionFails
<1>5. ASSUME NEW w \in Workers, HeartbeatStep(w) \/ Register(w) PROVE UNCHANGED proc
  BY <1>5 DEF HeartbeatStep, Snapshot, RenewLeases, RenewCommit, RenewFails, ApplyLost,
              Register
<1>6. CASE UNCHANGED vars \/ Tick
  BY <1>1, <1>6 DEF vars, Tick
<1>7. QED
  BY <1>1, <1>2, <1>3, <1>4, <1>5, <1>6 DEF Next, DispatcherStep

(* a row gets an owner by a claim, which hands it out, and keeps it until  *)
(* its execution commits or its process dies;                              *)
LEMMA OwnerExecutesStep ==
    ASSUME MaxFaults = 0, Faultless, [Next]_vars
    PROVE  OwnerExecutes'
<1> USE DEF Faultless, Timely, Ownership
<1> SUFFICES ASSUME NEW v \in Workers, NEW t \in Tasks,
                    worker'[t] = v, proc'[v] # "crashed"
             PROVE  \E s \in Slots : job'[v][s] = t /\ Executes(v, s)'
  BY DEF OwnerExecutes
<1>1. proc[v] # "crashed" /\ v # NoWorker
  BY LifeSteps, WorkersAssumption
<1>2. CASE worker[t] = v
  <2>1. PICK s \in Slots : job[v][s] = t /\ Executes(v, s)
    BY <1>1, <1>2 DEF OwnerExecutes
  <2>2. ~Commit(v, s)
    BY <1>1, <2>1, SettleRow DEF Commit
  <2>3. QED
    BY <2>1, <2>2, ExecutionEnds
<1>3. CASE worker[t] # v
  <2>1. ASSUME NEW w \in Workers, NEW s \in Slots, Settle(w, s) PROVE FALSE
    <3>1. CASE t = job[w][s]
      BY <1>1, <2>1, <3>1, SettleRow
    <3>2. CASE t # job[w][s]
      BY <1>3, <2>1, <3>2, SettleOthers
    <3>3. QED
      BY <3>1, <3>2
  <2>2. ~UNCHANGED worker /\ ~DatabaseFails
    BY <1>3, NoFault
  <2>3. PICK w \in Workers : Claim(w)
    <3>1. ASSUME NEW w \in Workers, NEW s \in Slots, ThreadStep(w, s) PROVE FALSE
      BY <2>1, <2>2, <3>1
      DEF ThreadStep, BeginCollect, LoadFails, FinishCollect, LockRow, Commit,
          PersistConflict, TransactionFails, tableVars
    <3>2. ASSUME NEW w \in Workers, ProcessStep(w) \/ HeartbeatStep(w) PROVE FALSE
      BY <2>2, <3>2
      DEF ProcessStep, Start, BeginShutdown, JoinDispatcher, FinishShutdown, Crash,
          HeartbeatStep, Snapshot, RenewLeases, RenewCommit, RenewFails, ApplyLost, tableVars
    <3>3. QED
      BY <2>2, <3>1, <3>2
      DEF Next, Tick, DispatcherStep, Register, DispatcherDies, tableVars, vars
  <2>4. PICK S \in SUBSET Waiting :
           /\ ClaimRows(w, S)
           /\ \A u \in S : \E s \in Slots : Executes(w, s)' /\ job'[w][s] = u
    BY <2>3, ClaimHandsOut
  <2>5. t \in S /\ w = v
    BY <1>1, <1>3, <2>4 DEF ClaimRows
  <2>6. QED
    BY <2>4, <2>5
<1>4. QED
  BY <1>2, <1>3

(* What becomes of the ids and rows of a heartbeat.                        *)
LEMMA BeatContents ==
    ASSUME MaxFaults = 0, TypeOK, [Next]_vars, NEW v \in Workers
    PROVE  \/ /\ beat'[v].ids = beat[v].ids /\ beat'[v].rows = beat[v].rows
              /\ beat'[v].pc = beat[v].pc
              /\ beat[v].pc = "idle" => beat'[v] = beat[v]
           \/ beat'[v] = IdleBeat
           \/ Snapshot(v) /\ beat'[v].ids = active[v] /\ beat'[v].pc = "snapshot"
           \/ /\ RenewLeases(v)
              /\ beat'[v].ids = beat[v].ids /\ beat'[v].pc = "renewing"
              /\ beat'[v].rows = {t \in beat[v].ids : Owns(v, t)}
           \/ /\ RenewCommit(v)
              /\ beat'[v].ids = beat[v].ids \ beat[v].rows /\ beat'[v].pc = "returned"
<1>1. beat \in [Workers -> BeatType]
  BY DEF TypeOK, BeatType
<1>2. CASE beat' = beat
  BY <1>2
<1>3. CASE Tick
  <2>1. beat'[v] = IF beat[v].pc = "renewing" /\ beat[v].age < LeaseTicks
                   THEN [beat[v] EXCEPT !.age = @ + 1] ELSE beat[v]
    BY <1>3 DEF Tick
  <2>2. beat[v] \in BeatType
    BY <1>1
  <2>3. QED
    BY <2>1, <2>2 DEF BeatType
<1>4. ASSUME NEW w \in Workers, Crash(w) \/ RenewFails(w) \/ ApplyLost(w)
      PROVE  beat'[v] = IdleBeat \/ beat'[v] = beat[v]
  <2>1. beat' = [beat EXCEPT ![w] = IdleBeat]
    BY <1>4 DEF Crash, RenewFails, ApplyLost
  <2>2. QED
    BY <1>1, <2>1
<1>5. ASSUME NEW w \in Workers, Snapshot(w)
      PROVE  \/ beat'[v] = beat[v]
             \/ Snapshot(v) /\ beat'[v].ids = active[v] /\ beat'[v].pc = "snapshot"
  BY <1>1, <1>5 DEF Snapshot, IdleBeat
<1>6. ASSUME NEW w \in Workers, RenewLeases(w)
      PROVE  \/ beat'[v] = beat[v]
             \/ /\ RenewLeases(v)
                /\ beat'[v].ids = beat[v].ids /\ beat'[v].pc = "renewing"
                /\ beat'[v].rows = {t \in beat[v].ids : Owns(v, t)}
  <2>1. CASE w # v
    BY <1>1, <1>6, <2>1 DEF RenewLeases
  <2>2. CASE w = v
    <3>1. beat[v] \in BeatType
      BY <1>1
    <3>2. PICK owned : owned = {t \in beat[v].ids : Owns(v, t)}
      OBVIOUS
    <3>3. beat'[v] = [[beat[v] EXCEPT !.pc = "renewing"] EXCEPT !.rows = owned]
      BY <1>1, <1>6, <2>2, <3>2 DEF RenewLeases
    <3>4. QED
      BY <1>6, <2>2, <3>1, <3>2, <3>3 DEF BeatType
  <2>3. QED
    BY <2>1, <2>2
<1>7. ASSUME NEW w \in Workers, RenewCommit(w)
      PROVE  \/ beat'[v] = beat[v]
             \/ /\ RenewCommit(v)
                /\ beat'[v].ids = beat[v].ids \ beat[v].rows /\ beat'[v].pc = "returned"
  BY <1>1, <1>7 DEF RenewCommit, IdleBeat
<1>8. ASSUME NEW w \in Workers, DispatcherStep(w) PROVE beat' = beat
  BY <1>8 DEF DispatcherStep, Claim, Register, DispatcherDies
<1>9. ASSUME NEW w \in Workers, NEW s \in Slots, ThreadStep(w, s) PROVE beat' = beat
  BY <1>9 DEF ThreadStep, BeginCollect, LoadFails, FinishCollect, LockRow, Commit,
              PersistConflict, TransactionFails
<1>10. ASSUME NEW w \in Workers, ProcessStep(w), ~Crash(w) PROVE beat' = beat
  BY <1>10 DEF ProcessStep, Start, BeginShutdown, JoinDispatcher, FinishShutdown
<1>11. CASE UNCHANGED vars
  BY <1>11 DEF vars
<1>12. ASSUME NEW w \in Workers, HeartbeatStep(w) \/ Crash(w)
       PROVE  \/ beat'[v] = beat[v] \/ beat'[v] = IdleBeat
              \/ Snapshot(v) /\ beat'[v].ids = active[v] /\ beat'[v].pc = "snapshot"
              \/ /\ RenewLeases(v)
                 /\ beat'[v].ids = beat[v].ids /\ beat'[v].pc = "renewing"
                 /\ beat'[v].rows = {t \in beat[v].ids : Owns(v, t)}
              \/ /\ RenewCommit(v)
                 /\ beat'[v].ids = beat[v].ids \ beat[v].rows /\ beat'[v].pc = "returned"
  BY <1>4, <1>5, <1>6, <1>7, <1>12 DEF HeartbeatStep
<1>13. \/ UNCHANGED vars \/ Tick
       \/ \E w \in Workers : \/ HeartbeatStep(w) \/ Crash(w)
                             \/ ProcessStep(w) /\ ~Crash(w)
                             \/ DispatcherStep(w) \/ \E s \in Slots : ThreadStep(w, s)
  BY DEF Next
<1>14. CASE beat'[v] = beat[v]
  BY <1>14
<1>15. QED
  BY <1>2, <1>3, <1>8, <1>9, <1>10, <1>11, <1>12, <1>13, <1>14

(* threads and heartbeats are at rest before a process has stopped and are *)
(* not woken afterwards;                                                   *)
LEMMA QuietStep ==
    ASSUME MaxFaults = 0, Faultless, [Next]_vars
    PROVE  QuietUnlessRunning'
<1> USE DEF Faultless, Timely, Ownership
<1>1. ASSUME NEW v \in Workers, beat'[v].pc = "idle"
      PROVE  beat'[v] = IdleBeat
  BY <1>1, BeatContents DEF QuietUnlessRunning
<1>2. ASSUME NEW v \in Workers, proc'[v] \notin Running
      PROVE  (\A s \in Slots : pc'[v][s] = "idle") /\ beat'[v].pc = "idle"
  <2>1. CASE Crash(v)
    BY <2>1 DEF Crash, TypeOK, IdleBeat
  <2>2. CASE FinishShutdown(v)
    <3>1. \A s \in Slots : pc[v][s] = "idle"
      BY <2>2 DEF FinishShutdown, IdleSlots
    <3>2. QED
      BY <2>2, <3>1 DEF FinishShutdown, threadVars
  <2>3. CASE proc[v] \notin Running
    <3>1. (\A s \in Slots : pc[v][s] = "idle") /\ beat[v].pc = "idle"
      BY <2>3 DEF QuietUnlessRunning
    <3>2. beat'[v].pc = "idle"
      <4>1. ~Snapshot(v) /\ ~RenewLeases(v) /\ ~RenewCommit(v)
        BY <2>3, <3>1 DEF Snapshot, RenewLeases, RenewCommit
      <4>2. IdleBeat.pc = "idle"
        BY DEF IdleBeat
      <4>3. QED
        BY <3>1, <4>1, <4>2, BeatContents
    <3>3. ASSUME NEW s \in Slots PROVE pc'[v][s] = "idle"
      <4>1. CASE UNCHANGED pc
        BY <3>1, <4>1
      <4>2. ASSUME NEW w \in Workers, Crash(w) PROVE pc'[v][s] = "idle"
        BY <3>1, <4>2 DEF Crash, TypeOK
      <4>3. ASSUME NEW w \in Workers, Register(w) PROVE pc'[v][s] = "idle"
        BY <3>1, <4>3 DEF Register, TypeOK
      <4>4. ASSUME NEW w \in Workers, Claim(w) PROVE pc'[v][s] = "idle"
        <5>1. w # v
          BY <2>3, <4>4 DEF Claim, Dispatching, Running
        <5>2. PICK h : HandOut(w, h)
          BY <4>4 DEF Claim
        <5>3. QED
          BY <3>1, <5>1, <5>2 DEF HandOut, TypeOK
      <4>5. ASSUME NEW w \in Workers, NEW r \in Slots, ThreadStep(w, r)
            PROVE  pc'[v][s] = "idle"
        <5>1. \E p : Goto(w, r, p)
          BY <4>5, FaultlessThread DEF Return
        <5>2. w # v
          BY <3>1, <4>5, FaultlessThread DEF Executes, Unreleased
        <5>3. QED
          BY <3>1, <5>1, <5>2 DEF Goto, TypeOK
      <4>6. QED
        BY <4>1, <4>2, <4>3, <4>4, <4>5
        DEF Next, Tick, ProcessStep, Start, BeginShutdown, JoinDispatcher, FinishShutdown,
            DispatcherStep, DispatcherDies, HeartbeatStep, Snapshot, RenewLeases,
            RenewCommit, RenewFails, ApplyLost, threadVars, vars
    <3>4. QED
      BY <3>2, <3>3
  <2>4. QED
    BY <1>2, <2>1, <2>2, <2>3, LifeSteps
<1>3. QED
  BY <1>1, <1>2 DEF QuietUnlessRunning

(* and what a renewal does not find to be its own was settled after the    *)
(* snapshot.                                                               *)
LEMMA LostStep ==
    ASSUME TimelyHeartbeats, SlowTransactions = FALSE, MaxFaults = 0, Faultless, [Next]_vars
    PROVE  LostIsSettled'
<1> USE DEF Faultless, Timely, Ownership
<1> SUFFICES ASSUME NEW v \in Workers, NEW t \in Tasks
             PROVE  /\ t \in lost'[v] => status'[t] \in Results
                    /\ t \in beat'[v].ids => status'[t] \in Results \/ Owns(v, t)'
                    /\ t \in beat'[v].ids \ beat'[v].rows
                         /\ beat'[v].pc \in {"renewing", "returned"}
                         => status'[t] \in Results
  BY DEF LostIsSettled
<1>1. status[t] \in Results => status'[t] \in Results
  BY SettledStep DEF KeepsSettled
<1>2. /\ t \in lost[v] => status[t] \in Results
      /\ t \in beat[v].ids => status[t] \in Results \/ Owns(v, t)
      /\ t \in beat[v].ids \ beat[v].rows /\ beat[v].pc \in {"renewing", "returned"}
           => status[t] \in Results
  BY DEF LostIsSettled
<1>3. t \in beat[v].ids => status'[t] \in Results \/ Owns(v, t)'
  <2> SUFFICES ASSUME t \in beat[v].ids, status[t] \notin Results
               PROVE  status'[t] \in Results \/ Owns(v, t)'
    BY <1>1
  <2>1. Owns(v, t)
    BY <1>2
  <2>2. proc[v] # "crashed"
    BY DEF QuietUnlessRunning, IdleBeat, Running
  <2>3. PICK s \in Slots : job[v][s] = t /\ Executes(v, s)
    BY <2>1, <2>2 DEF OwnerExecutes, Owns
  <2>4. QED
    BY <2>1, <2>3, LeaseLasts
<1>4. t \in lost'[v] => status'[t] \in Results
  <2>1. ASSUME NEW w \in Workers, ApplyLost(w), t \in lost'[v], t \notin lost[v]
        PROVE  status[t] \in Results
    <3>1. v = w /\ t \in beat[v].ids /\ beat[v].pc = "returned"
      BY <2>1 DEF ApplyLost, TypeOK
    <3>2. beat[v].rows = {}
      BY <3>1 DEF RenewalExtends
    <3>3. QED
      BY <1>2, <3>1, <3>2
  <2>2. ASSUME NEW w \in Workers, Crash(w) \/ Register(w) \/ \E u : Release(w, u)
        PROVE  lost'[v] \subseteq lost[v]
    BY <2>2 DEF Crash, Register, Release, TypeOK
  <2>3. ASSUME NEW w \in Workers, NEW s \in Slots, ThreadStep(w, s)
        PROVE  UNCHANGED lost \/ \E u : Release(w, u)
    BY <2>3, FaultlessThread
  <2>4. CASE UNCHANGED lost
    BY <1>1, <1>2, <2>4
  <2>5. QED
    BY <1>1, <1>2, <2>1, <2>2, <2>3, <2>4
    DEF Next, Tick, ProcessStep, Start, BeginShutdown, JoinDispatcher, FinishShutdown,
        DispatcherStep, Claim, DispatcherDies, HeartbeatStep, Snapshot, RenewLeases,
        RenewCommit, RenewFails, leaseSets, vars
<1>5. CASE Snapshot(v) /\ beat'[v].ids = active[v] /\ beat'[v].pc = "snapshot"
  <2>1. ASSUME t \in active[v] PROVE Owns(v, t)
    <3>1. PICK s \in Slots : job[v][s] = t /\ pc[v][s] \in Unreleased
      BY <2>1 DEF ActiveIsExecuted
    <3>2. QED
      BY <3>1 DEF StillOwns, Executes, Unreleased
  <2>2. Owns(v, t) => Owns(v, t)'
    BY <1>5 DEF Snapshot, Owns, tableVars
  <2>3. QED
    BY <1>4, <1>5, <2>1, <2>2
<1>6. CASE RenewLeases(v) /\ beat'[v].ids = beat[v].ids
           /\ beat'[v].rows = {u \in beat[v].ids : Owns(v, u)}
  BY <1>1, <1>2, <1>3, <1>4, <1>6
<1>7. CASE RenewCommit(v) /\ beat'[v].ids = beat[v].ids \ beat[v].rows
  <2>1. beat[v].pc = "renewing"
    BY <1>7 DEF RenewCommit
  <2>2. QED
    BY <1>1, <1>2, <1>4, <1>7, <2>1
<1>8. CASE beat'[v] = IdleBeat
  BY <1>4, <1>8 DEF IdleBeat
<1>9. CASE /\ beat'[v].ids = beat[v].ids /\ beat'[v].rows = beat[v].rows
           /\ beat'[v].pc = beat[v].pc
  BY <1>1, <1>2, <1>3, <1>4, <1>9
<1>10. QED
  BY <1>5, <1>6, <1>7, <1>8, <1>9, BeatContents

(* The inductive invariant of the faultless case.                          *)
LEMMA FaultlessHolds ==
    ASSUME TimelyHeartbeats, SlowTransactions = FALSE, MaxFaults = 0
    PROVE  Spec => []Faultless
<1>1. Init => StillOwns /\ OwnerExecutes /\ QuietUnlessRunning /\ LostIsSettled
  <2> SUFFICES ASSUME Init
               PROVE  StillOwns /\ OwnerExecutes /\ QuietUnlessRunning /\ LostIsSettled
    OBVIOUS
  <2>1. StillOwns
    BY DEF Init, StillOwns, Executes
  <2>2. OwnerExecutes
    BY WorkersAssumption DEF Init, OwnerExecutes
  <2>3. QuietUnlessRunning /\ LostIsSettled
    BY DEF Init, QuietUnlessRunning, LostIsSettled, IdleBeat
  <2>4. QED
    BY <2>1, <2>2, <2>3
<1>2. Faultless /\ [Next]_vars
        => (StillOwns /\ OwnerExecutes /\ QuietUnlessRunning /\ LostIsSettled)'
  BY StillOwnsStep, OwnerExecutesStep, QuietStep, LostStep
<1>3. QED
  BY <1>1, <1>2, TimelyHolds, ActiveIsExecutedHolds, PTL DEF Spec, Faultless

(* When heartbeats are timely, transactions short and no database call     *)
(* fails, a process that has shut down in order has left no row RUNNING in *)
(* its name.                                                               *)
THEOREM ShutdownLeavesNothingHolds ==
    ASSUME TimelyHeartbeats, SlowTransactions = FALSE, MaxFaults = 0
    PROVE  Spec => []ShutdownLeavesNothing
<1>1. Faultless => ShutdownLeavesNothing
  BY DEF Faultless, OwnerExecutes, QuietUnlessRunning, ShutdownLeavesNothing, Running,
         Executes, Unreleased
<1>2. QED
  BY <1>1, FaultlessHolds, PTL

(* And no more devices are being collected from, over all processes, than  *)
(* the limit one of them is configured with.                               *)
THEOREM RemoteCapHolds ==
    ASSUME TimelyHeartbeats, SlowTransactions = FALSE, MaxFaults = 0
    PROVE  Spec => []RemoteCap
<1>1. ASSUME Faultless, RunningCap PROVE RemoteCap
  <2> USE DEF Faultless, Timely, Ownership
  <2>1. IsFiniteSet(RunningTasks) /\ MaxWorkers \in Nat
    BY TasksAssumption, SlotsAssumption, FS_Subset, FS_CardinalityType
    DEF RunningTasks, MaxWorkers
  <2>2. PICK f : f = [x \in Collecting |-> job[x[1]][x[2]]]
    OBVIOUS
  <2>3. ASSUME NEW x \in Collecting
        PROVE  /\ x[1] \in Workers /\ x[2] \in Slots /\ x = <<x[1], x[2]>>
               /\ Executes(x[1], x[2])
    BY DEF Collecting, Executes, Unreleased
  <2>4. ASSUME NEW x \in Collecting PROVE f[x] \in RunningTasks
    <3>1. Owns(x[1], job[x[1]][x[2]]) /\ job[x[1]][x[2]] \in Tasks
      BY <1>1, <2>3 DEF StillOwns, ThreadsHaveTasks, Executes, Unreleased
    <3>2. QED
      BY <2>2, <3>1 DEF Owns, RunningTasks
  <2>5. ASSUME NEW x \in Collecting, NEW y \in Collecting, f[x] = f[y] PROVE x = y
    <3>1. x[1] = y[1] /\ x[2] = y[2]
      BY <1>1, <2>2, <2>3, <2>5 DEF OneExecutor
    <3>2. QED
      BY <2>3, <3>1
  <2>6. f \in Injection(Collecting, RunningTasks)
    BY <2>2, <2>4, <2>5 DEF Injection, IsInjective
  <2>7. IsFiniteSet(Collecting) /\ Cardinality(Collecting) <= Cardinality(RunningTasks)
    BY <2>1, <2>6, FS_Injection
  <2>8. Cardinality(Collecting) \in Nat /\ Cardinality(RunningTasks) \in Nat
    BY <2>1, <2>7, FS_CardinalityType
  <2>9. QED
    BY <1>1, <2>1, <2>7, <2>8 DEF RunningCap, RemoteCap
<1>2. QED
  BY <1>1, FaultlessHolds, RunningCapHolds, PTL

=============================================================================
