--------------------------- MODULE ImportPipeline ---------------------------
(***************************************************************************)
(* An import of devices from a sheet (services/imports.py), the leased     *)
(* connection tests of the rows it brings in (services/import_testing.py,  *)
(* import_test_leases.py), and the first scan batch that a tested import   *)
(* leads to (ScanQueueService.create_import_scan_batch).                   *)
(*                                                                         *)
(* The import runs in one request and commits row after row; the workers   *)
(* of every process test a row as soon as it is committed, while the       *)
(* import goes on.  The request's session has expire_on_commit=False: the  *)
(* import_batches row it works on is a copy, which only a rollback renews. *)
(*                                                                         *)
(* A transaction of a worker is one step: it locks the import_batches row  *)
(* before it counts, so two of them are ordered by that lock.  Leases are  *)
(* relative: lease[r] ticks from expiry, 0 when expired or not leased.     *)
(***************************************************************************)
EXTENDS Integers, Sequences, FiniteSets, FiniteSetsExt

CONSTANTS
    Rows,        \* 1..n, the rows of the sheet; also the ids of their results
    Keys,        \* (host, port, username) triples
    Sheets,      \* the sheets that may be uploaded
    Existing,    \* devices that exist before the import
    Workers,     \* processes: ImportTestService.worker_id
    Slots,       \* executor threads of a process
    NoWorker,    \* test_worker_id IS NULL
    Limits,      \* values of IMPORT_TEST_MAX_WORKERS
    LeaseTicks,  \* length of a lease
    MaxFaults,   \* bound on failing calls, late heartbeats and crashes
    Mortal       \* the processes that may crash or shut down

ASSUME ImportConstants ==
    /\ IsFiniteSet(Rows) /\ Rows = 1..Cardinality(Rows)
    /\ IsFiniteSet(Workers) /\ IsFiniteSet(Slots) /\ IsFiniteSet(Keys)
    /\ NoWorker \notin Workers
    /\ Limits \subseteq Nat \ {0} /\ LeaseTicks \in Nat \ {0}
    /\ MaxFaults \in Nat /\ Mortal \subseteq Workers

(* What _parse_row makes of a row: complete, without a password but with a *)
(* cluster, or not valid.                                                  *)
RowKinds == {"password", "annotated", "invalid"}

ASSUME SheetsAssumption ==
    /\ Sheets \subseteq [Rows -> [kind : RowKinds, key : Keys]]
    /\ Existing \subseteq Keys

NoRow == 0

VARIABLES
    limit,     \* the global limit of this deployment
    sheet,     \* the uploaded rows: kind and key
    devices,   \* keys in the devices table
    import,    \* import_devices: pc, the row it is at, its copy of the batch
    batch,     \* the import_batches row
    scans,     \* scan_batches whose source is this import: the rows they scan
    imp,       \* import_status of a row, "none" before the row exists
    test,      \* import_row_results.test_status
    worker,    \* import_row_results.test_worker_id
    lease,     \* import_row_results.test_lease_expires_at
    thread,    \* executor threads of each process
    active,    \* _active_ids
    lost,      \* _lost_ids
    unapplied, \* rows the heartbeat found lost and has not yet applied
    life,      \* the process: up, stopping (shutdown called), down
    faults     \* faults that may still happen

importVars == <<limit, sheet, devices, import>>
rowVars    == <<imp, test, worker, lease>>
idVars     == <<active, lost, unapplied>>
vars == <<limit, sheet, devices, import, batch, scans, imp, test, worker, lease,
          thread, active, lost, unapplied, life, faults>>

-----------------------------------------------------------------------------
Settled  == {"SUCCESS", "FAILED"}
TestSet  == {"NOT_APPLICABLE", "PENDING", "RUNNING"} \cup Settled
Counters == {"pending", "running", "success", "failed",
             "imported", "skipped", "error"}

BatchType ==
    [status : {"IMPORTING", "TESTING", "COMPLETED"},
     counts : [Counters -> 0..(2 * Cardinality(Rows))]]

IdleThread == [pc |-> "idle", row |-> NoRow, result |-> "FAILED", found |-> {}]

ThreadType ==
    [pc : {"idle", "submitted", "taking", "testing", "saving", "failed",
           "retaking", "failing", "completed", "creating"},
     row : Rows \cup {NoRow}, result : Settled, found : SUBSET Rows]

TypeOK ==
    /\ limit \in Limits
    /\ sheet \in Sheets
    /\ devices \subseteq Keys
    /\ import \in [pc : {"read", "write", "done", "aborted"},
                   row : 1..(Cardinality(Rows) + 1), copy : BatchType]
    /\ batch \in BatchType
    /\ scans \in Seq(SUBSET Rows)
    /\ imp \in [Rows -> {"none", "IMPORTED", "SKIPPED", "ERROR"}]
    /\ test \in [Rows -> TestSet]
    /\ worker \in [Rows -> Workers \cup {NoWorker}]
    /\ lease \in [Rows -> 0..LeaseTicks]
    /\ thread \in [Workers -> [Slots -> ThreadType]]
    /\ active \in [Workers -> SUBSET Rows]
    /\ lost \in [Workers -> SUBSET Rows]
    /\ unapplied \in [Workers -> SUBSET Rows]
    /\ life \in [Workers -> {"up", "stopping", "down"}]
    /\ faults \in 0..MaxFaults

NewBatch == [status |-> "IMPORTING", counts |-> [c \in Counters |-> 0]]

Init ==
    /\ limit \in Limits
    /\ sheet \in Sheets
    /\ devices = Existing
    /\ import = [pc |-> "read", row |-> 1, copy |-> NewBatch]
    /\ batch = NewBatch
    /\ scans = <<>>
    /\ imp = [r \in Rows |-> "none"]
    /\ test = [r \in Rows |-> "NOT_APPLICABLE"]
    /\ worker = [r \in Rows |-> NoWorker]
    /\ lease = [r \in Rows |-> 0]
    /\ thread = [w \in Workers |-> [s \in Slots |-> IdleThread]]
    /\ active = [w \in Workers |-> {}]
    /\ lost = [w \in Workers |-> {}]
    /\ unapplied = [w \in Workers |-> {}]
    /\ life = [w \in Workers |-> "up"]
    /\ faults = MaxFaults

Fault == faults > 0 /\ faults' = faults - 1

-----------------------------------------------------------------------------
(***************************************************************************)
(* The import: one row per transaction.                                    *)
(***************************************************************************)
Row == import.row

(* The UPDATE of a flush: a counter is written from the copy, the others   *)
(* stay as they are in the table.                                          *)
Bumped(b, copy, cs) ==
    [b EXCEPT !.counts = [c \in Counters |->
        IF c \in cs THEN copy.counts[c] + 1 ELSE b.counts[c]]]

(* Record the row, bump the counters cs in the copy and in the table, and  *)
(* go on to the next row.                                                  *)
CommitRow(copy, istatus, tstatus, cs) ==
    /\ imp' = [imp EXCEPT ![Row] = istatus]
    /\ test' = [test EXCEPT ![Row] = tstatus]
    /\ batch' = Bumped(batch, copy, cs)
    /\ import' = [pc |-> "read", row |-> Row + 1,
                  copy |-> Bumped(copy, copy, cs)]
    /\ UNCHANGED <<limit, sheet, scans, worker, lease, thread, idVars, life,
                   faults>>

(* _parse_row rejects the row.  No transaction is open, so the rollback    *)
(* leaves the copy as it is.                                               *)
ImportInvalid ==
    /\ import.pc = "read" /\ Row \in Rows
    /\ sheet[Row].kind = "invalid"
    /\ CommitRow(import.copy, "ERROR", "NOT_APPLICABLE", {"error"})
    /\ UNCHANGED devices

(* The device exists: a row with a password is skipped, one without is an  *)
(* error.                                                                  *)
ImportDuplicate ==
    /\ import.pc = "read" /\ Row \in Rows
    /\ sheet[Row].kind # "invalid" /\ sheet[Row].key \in devices
    /\ IF sheet[Row].kind = "password"
       THEN CommitRow(import.copy, "SKIPPED", "NOT_APPLICABLE", {"skipped"})
       ELSE CommitRow(import.copy, "ERROR", "NOT_APPLICABLE", {"error"})
    /\ UNCHANGED devices

(* The device is not found; its cluster is looked up or created.           *)
ImportNew ==
    /\ import.pc = "read" /\ Row \in Rows
    /\ sheet[Row].kind # "invalid" /\ sheet[Row].key \notin devices
    /\ import' = [import EXCEPT !.pc = "write"]
    /\ UNCHANGED <<limit, sheet, devices, batch, scans, rowVars, thread, idVars,
                   life, faults>>

(* Insert the device and the row; only a row with a password is tested.    *)
ImportInsert ==
    /\ import.pc = "write" /\ sheet[Row].key \notin devices
    /\ devices' = devices \cup {sheet[Row].key}
    /\ IF sheet[Row].kind = "password"
       THEN CommitRow(import.copy, "IMPORTED", "PENDING",
                      {"imported", "pending"})
       ELSE CommitRow(import.copy, "IMPORTED", "NOT_APPLICABLE", {"imported"})

(* Mutant of ImportConflict: the row is recorded but not counted.          *)
ImportConflictUncounted ==
    /\ import.pc = "write" /\ sheet[Row].key \in devices
    /\ CommitRow(batch, "ERROR", "NOT_APPLICABLE", {})
    /\ UNCHANGED devices

(* The unique index refuses the device.  This rollback ends a transaction: *)
(* it expires the copy, and the next read of it takes the table's values.  *)
ImportConflict ==
    /\ import.pc = "write" /\ sheet[Row].key \in devices
    /\ CommitRow(batch, "ERROR", "NOT_APPLICABLE", {"error"})
    /\ UNCHANGED devices

(* The end of import_devices.  The status is decided on the copy, and is   *)
(* part of the UPDATE only when it differs from the copy's.                *)
ImportFinish ==
    LET status == IF import.copy.counts["pending"] > 0 THEN "TESTING"
                                                       ELSE "COMPLETED"
    IN  /\ import.pc = "read" /\ Row \notin Rows
        /\ batch' = IF status = import.copy.status THEN batch
                    ELSE [batch EXCEPT !.status = status]
        /\ import' = [import EXCEPT !.pc = "done", !.copy = batch']
        /\ UNCHANGED <<limit, sheet, devices, scans, rowVars, thread, idVars, life,
                       faults>>

(* A database error other than an integrity error, or the death of the     *)
(* process: import_devices ends where it is.                               *)
ImportAborts ==
    /\ Fault
    /\ import.pc \in {"read", "write"}
    /\ import' = [import EXCEPT !.pc = "aborted"]
    /\ UNCHANGED <<limit, sheet, devices, batch, scans, rowVars, thread, idVars,
                   life>>

(* Another request or import creates the device that this one is about to. *)
OtherCreates ==
    /\ import.pc = "write"
    /\ sheet[Row].key \notin devices
    /\ devices' = devices \cup {sheet[Row].key}
    /\ UNCHANGED <<limit, sheet, import, batch, scans, rowVars, thread, idVars,
                   life, faults>>

-----------------------------------------------------------------------------
(***************************************************************************)
(* refresh_import_batches, on the test statuses ts.                        *)
(***************************************************************************)
Number(ts, status) ==
    Cardinality({r \in Rows : imp[r] # "none" /\ ts[r] = status})

Recounted(ts) ==
    [status |-> IF Number(ts, "PENDING") + Number(ts, "RUNNING") > 0
                THEN "TESTING" ELSE "COMPLETED",
     counts |-> [c \in Counters |->
        CASE c = "pending" -> Number(ts, "PENDING")
          [] c = "running" -> Number(ts, "RUNNING")
          [] c = "success" -> Number(ts, "SUCCESS")
          [] c = "failed"  -> Number(ts, "FAILED")
          [] OTHER -> batch.counts[c]]]

(* The batch is reported completed to the caller only when it was not.     *)
NewlyCompleted(ts) ==
    Recounted(ts).status = "COMPLETED" /\ batch.status # "COMPLETED"

Live == {r \in Rows : test[r] = "RUNNING" /\ lease[r] > 0}

(* Mutant of Owns: whoever asks is taken for the owner.                    *)
OwnsAnything(w, r) == test[r] # "PENDING"

(* The WHERE clause of the load, of the renewal and of the save.           *)
Owns(w, r) == r \in Live /\ worker[r] = w

-----------------------------------------------------------------------------
(***************************************************************************)
(* The dispatcher of a process: claim_import_tests.                        *)
(***************************************************************************)
Idle(w) == {s \in Slots : thread[w][s].pc = "idle"}

(* Mutant of ClaimLimit: the limit of the process only.                    *)
ClaimLimitLocal(w) == Cardinality(Idle(w))

(* min(local_capacity, max(global_limit - active, 0))                      *)
ClaimLimit(w) ==
    Min({Cardinality(Idle(w)), Max({limit - Cardinality(Live), 0})})

(* Mutant of Expired: leases that have run out are not recovered.          *)
ExpiredNever == {}

Expired == {r \in Rows : test[r] = "RUNNING" /\ lease[r] = 0}

(* PENDING rows after the reset, ORDER BY id LIMIT ClaimLimit(w).          *)
Claimable(w) ==
    LET pending == Expired \cup {r \in Rows : test[r] = "PENDING"}
    IN  {r \in pending :
           Cardinality({q \in pending : q < r}) < ClaimLimit(w)}

ClaimRows(w) ==
    LET taken == Claimable(w)
        ts    == [r \in Rows |->
                    IF r \in taken THEN "RUNNING"
                    ELSE IF r \in Expired THEN "PENDING" ELSE test[r]]
    IN  /\ life[w] = "up" /\ Idle(w) # {}
        /\ Expired \cup taken # {}
        /\ test' = ts
        /\ worker' = [r \in Rows |->
                        IF r \in taken THEN w
                        ELSE IF r \in Expired THEN NoWorker ELSE worker[r]]
        /\ lease' = [r \in Rows |-> IF r \in taken THEN LeaseTicks
                                                   ELSE lease[r]]
        /\ batch' = Recounted(ts)

(* A claim, and the submission of the claimed rows to the executor.        *)
Claim(w) ==
    /\ ClaimRows(w)
    /\ \E run \in [Claimable(w) -> Idle(w)] :
        /\ \A q, r \in Claimable(w) : run[q] = run[r] => q = r
        /\ thread' = [thread EXCEPT ![w] = [s \in Slots |->
              IF \E r \in Claimable(w) : run[r] = s
              THEN [IdleThread EXCEPT !.pc = "submitted",
                      !.row = CHOOSE r \in Claimable(w) : run[r] = s]
              ELSE thread[w][s]]]
    /\ UNCHANGED <<importVars, scans, imp, idVars, life, faults>>

(* A claim that fails after its commit was sent: the dispatcher catches    *)
(* the exception and nobody works on the rows.                             *)
ClaimUnanswered(w) ==
    /\ Fault
    /\ ClaimRows(w)
    /\ UNCHANGED <<importVars, scans, imp, thread, idVars, life>>

-----------------------------------------------------------------------------
(***************************************************************************)
(* test_row in an executor thread.                                         *)
(***************************************************************************)
At(w, s, pc) == thread[w][s].pc = pc
RowOf(w, s)  == thread[w][s].row
Goto(w, s, t) == thread' = [thread EXCEPT ![w][s] = t]

(* The finally clause, and the return.                                     *)
EndTest(w, s) ==
    /\ Goto(w, s, IdleThread)
    /\ active' = [active EXCEPT ![w] = @ \ {RowOf(w, s)}]
    /\ lost' = [lost EXCEPT ![w] = @ \ {RowOf(w, s)}]
    /\ UNCHANGED unapplied

(* The row joins _active_ids; _load_target finds the lease its own, or the *)
(* row PENDING again (then it will take it), or raises ImportTestLeaseLost.*)
Load(w, s) ==
    LET r == RowOf(w, s)
        t == thread[w][s]
    IN  /\ At(w, s, "submitted")
        /\ IF Owns(w, r) \/ test[r] = "PENDING"
           THEN /\ Goto(w, s, [t EXCEPT !.pc = IF Owns(w, r) THEN "testing"
                                                             ELSE "taking"])
                /\ active' = [active EXCEPT ![w] = @ \cup {r}]
                /\ UNCHANGED <<lost, unapplied>>
           ELSE EndTest(w, s)
        /\ UNCHANGED <<importVars, batch, scans, rowVars, life, faults>>

(* The writes of _claim_specific.                                          *)
TakeRow(w, r) ==
    LET ts == [test EXCEPT ![r] = "RUNNING"]
    IN  /\ test' = ts
        /\ worker' = [worker EXCEPT ![r] = w]
        /\ lease' = [lease EXCEPT ![r] = LeaseTicks]
        /\ batch' = Recounted(ts)

(* _claim_specific on a row that it has read and found PENDING, once it    *)
(* has the advisory lock: the row is not read again, whatever has become   *)
(* of it.  Then _load_target looks whether the row is the process's own.   *)
TakeSpecific(w, s) ==
    LET r     == RowOf(w, s)
        takes == Cardinality(Live) < limit
    IN  /\ At(w, s, "taking")
        /\ IF takes THEN TakeRow(w, r) ELSE UNCHANGED <<batch, test, worker, lease>>
        /\ IF takes \/ Owns(w, r)
           THEN Goto(w, s, [thread[w][s] EXCEPT !.pc = "testing"]) /\ UNCHANGED idVars
           ELSE EndTest(w, s)
        /\ UNCHANGED <<importVars, scans, imp, life, faults>>

(* The connection test ends; a row marked lost is given up.                *)
FinishTest(w, s) ==
    /\ At(w, s, "testing")
    /\ IF RowOf(w, s) \in lost[w] THEN EndTest(w, s)
       ELSE /\ \E result \in Settled :
                 Goto(w, s, [thread[w][s] EXCEPT !.pc = "saving",
                                                 !.result = result])
            /\ UNCHANGED idVars
    /\ UNCHANGED <<importVars, batch, scans, rowVars, life, faults>>

SaveRow(w, s, result) ==
    LET r  == RowOf(w, s)
        ts == [test EXCEPT ![r] = result]
    IN  /\ test' = ts
        /\ worker' = [worker EXCEPT ![r] = NoWorker]
        /\ lease' = [lease EXCEPT ![r] = 0]
        /\ batch' = Recounted(ts)

(* _save_result: settle the row if the lease still is this process's, and  *)
(* go on to the callback when that completes the batch.                    *)
Save(w, s) ==
    LET r == RowOf(w, s)
        t == thread[w][s]
    IN  /\ At(w, s, "saving")
        /\ IF Owns(w, r)
           THEN /\ SaveRow(w, s, t.result)
                /\ IF NewlyCompleted([test EXCEPT ![r] = t.result])
                   THEN Goto(w, s, [t EXCEPT !.pc = "completed"])
                        /\ UNCHANGED idVars
                   ELSE EndTest(w, s)
           ELSE EndTest(w, s) /\ UNCHANGED <<batch, test, worker, lease>>
        /\ UNCHANGED <<importVars, scans, imp, life, faults>>

(* The commit of a save is not answered: DatabaseUnavailable ends test_row *)
(* without the callback, with the result saved or not.                     *)
SaveUnanswered(w, s) ==
    /\ Fault
    /\ thread[w][s].pc \in {"saving", "failing"}
    /\ \/ Owns(w, RowOf(w, s)) /\ SaveRow(w, s, thread[w][s].result)
       \/ UNCHANGED <<batch, test, worker, lease>>
    /\ EndTest(w, s)
    /\ UNCHANGED <<importVars, scans, imp, life>>

(* The handler of an unexpected exception begins.                          *)
Excepted(w, s) ==
    Goto(w, s, [thread[w][s] EXCEPT !.pc = "failed", !.result = "FAILED", !.found = {}])

(* An unexpected exception out of the save.                                *)
SaveRaises(w, s) ==
    /\ Fault
    /\ At(w, s, "saving")
    /\ Excepted(w, s)
    /\ UNCHANGED <<importVars, batch, scans, rowVars, idVars, life>>

(* Its handler calls _claim_specific, which reads the row ...              *)
Reread(w, s) ==
    LET next == IF test[RowOf(w, s)] = "PENDING" THEN "retaking" ELSE "failing"
    IN  /\ At(w, s, "failed")
        /\ Goto(w, s, [thread[w][s] EXCEPT !.pc = next])
        /\ UNCHANGED <<importVars, batch, scans, rowVars, idVars, life, faults>>

(* ... and takes it, once it has the advisory lock, if it was PENDING;     *)
Retake(w, s) ==
    /\ At(w, s, "retaking")
    /\ IF Cardinality(Live) < limit THEN TakeRow(w, RowOf(w, s))
       ELSE UNCHANGED <<batch, test, worker, lease>>
    /\ Goto(w, s, [thread[w][s] EXCEPT !.pc = "failing"])
    /\ UNCHANGED <<importVars, scans, imp, idVars, life, faults>>

(* then it saves a failure, and drops the answer that the batch is         *)
(* complete.                                                               *)
SaveFailed(w, s) ==
    /\ At(w, s, "failing")
    /\ IF Owns(w, RowOf(w, s)) THEN SaveRow(w, s, thread[w][s].result)
       ELSE UNCHANGED <<batch, test, worker, lease>>
    /\ EndTest(w, s)
    /\ UNCHANGED <<importVars, scans, imp, life, faults>>

(* The database fails in _load_target or _claim_specific, whose commit may *)
(* have succeeded: then the row is RUNNING and nobody works on it.         *)
ClaimFails(w, s) ==
    /\ Fault
    /\ thread[w][s].pc \in {"submitted", "taking", "failed", "retaking"}
    /\ \/ UNCHANGED <<batch, test, worker, lease>>
       \/ /\ thread[w][s].pc \in {"taking", "retaking"}
          /\ Cardinality(Live) < limit
          /\ TakeRow(w, RowOf(w, s))
    /\ EndTest(w, s)
    /\ UNCHANGED <<importVars, scans, imp, life>>

-----------------------------------------------------------------------------
(***************************************************************************)
(* batch_completed_callback: create_import_scan_batch, under this          *)
(* process's _enqueue_lock.                                                *)
(***************************************************************************)
FindSuccesses(w, s) ==
    /\ At(w, s, "completed")
    /\ \A u \in Slots : ~At(w, u, "creating")
    /\ IF scans # <<>> THEN EndTest(w, s)
       ELSE /\ Goto(w, s, [thread[w][s] EXCEPT !.pc = "creating",
                        !.found = {r \in Rows : test[r] = "SUCCESS"}])
            /\ UNCHANGED idVars
    /\ UNCHANGED <<importVars, batch, scans, rowVars, life, faults>>

(* Mutant of CreateScanBatch: no unique index on source_import_batch_id.   *)
CreateScanBatchAgain(w, s) ==
    /\ At(w, s, "creating")
    /\ scans' = Append(scans, thread[w][s].found)
    /\ EndTest(w, s)
    /\ UNCHANGED <<importVars, batch, rowVars, life, faults>>

(* The unique index refuses a second batch, an exception nobody expects.   *)
CreateScanBatch(w, s) ==
    /\ At(w, s, "creating")
    /\ IF scans = <<>> THEN scans' = <<thread[w][s].found>> /\ EndTest(w, s)
       ELSE Excepted(w, s) /\ UNCHANGED <<scans, idVars>>
    /\ UNCHANGED <<importVars, batch, rowVars, life, faults>>

(* A database failure in the callback, or ScanQueueFull.                   *)
CallbackFails(w, s) ==
    /\ Fault
    /\ thread[w][s].pc \in {"completed", "creating"}
    /\ EndTest(w, s) \/ (Excepted(w, s) /\ UNCHANGED idVars)
    /\ UNCHANGED <<importVars, batch, scans, rowVars, life>>

-----------------------------------------------------------------------------
(***************************************************************************)
(* The heartbeat thread: renew_import_test_leases, then _lost_ids.  That   *)
(* it is held up between the two counts as a fault.                        *)
(***************************************************************************)
(* test_lease_expires_at = now + lease_seconds                             *)
RenewedLease(r) == LeaseTicks

Renew(w) ==
    LET renewed == {r \in active[w] : Owns(w, r)}
        gone    == active[w] \ renewed
    IN  /\ life[w] # "down" /\ unapplied[w] = {}
        /\ gone # {} \/ \E r \in renewed : lease[r] < LeaseTicks
        /\ lease' = [r \in Rows |-> IF r \in renewed THEN RenewedLease(r)
                                                     ELSE lease[r]]
        /\ \/ /\ active' = [active EXCEPT ![w] = @ \ gone]
              /\ lost' = [lost EXCEPT ![w] = @ \cup gone]
              /\ UNCHANGED <<unapplied, faults>>
           \/ /\ Fault /\ gone # {}
              /\ unapplied' = [unapplied EXCEPT ![w] = gone]
              /\ UNCHANGED <<active, lost>>
        /\ UNCHANGED <<importVars, batch, scans, imp, test, worker, thread,
                       life>>

(* The late half of the heartbeat: the rows may have ended, or be executed *)
(* by a new thread, by now.                                                *)
ApplyLost(w) ==
    /\ unapplied[w] # {}
    /\ active' = [active EXCEPT ![w] = @ \ unapplied[w]]
    /\ lost' = [lost EXCEPT ![w] = @ \cup unapplied[w]]
    /\ unapplied' = [unapplied EXCEPT ![w] = {}]
    /\ UNCHANGED <<importVars, batch, scans, rowVars, thread, life, faults>>

(* Leases that end although their process works on the row: the executor   *)
(* or the heartbeat was late.                                              *)
Overslept ==
    {r \in Live : /\ lease[r] = 1 /\ life[worker[r]] # "down"
                  /\ \/ r \in active[worker[r]]
                     \/ \E s \in Slots : /\ At(worker[r], s, "submitted")
                                         /\ RowOf(worker[r], s) = r}

Tick ==
    /\ Live # {}
    /\ IF Overslept # {} THEN Fault ELSE UNCHANGED faults
    /\ lease' = [r \in Rows |-> IF lease[r] > 0 THEN lease[r] - 1 ELSE 0]
    /\ UNCHANGED <<importVars, batch, scans, imp, test, worker, thread,
                   idVars, life>>

-----------------------------------------------------------------------------
(***************************************************************************)
(* shutdown: no more claims, running tests end, the heartbeat goes on      *)
(* until they have; and the death of a process.                            *)
(***************************************************************************)
Shutdown(w) ==
    /\ w \in Mortal /\ life[w] = "up"
    /\ life' = [life EXCEPT ![w] = "stopping"]
    /\ UNCHANGED <<importVars, batch, scans, rowVars, thread, idVars, faults>>

ShutdownEnds(w) ==
    /\ life[w] = "stopping" /\ Idle(w) = Slots
    /\ life' = [life EXCEPT ![w] = "down"]
    /\ unapplied' = [unapplied EXCEPT ![w] = {}]
    /\ UNCHANGED <<importVars, batch, scans, rowVars, thread, active, lost,
                   faults>>

Crash(w) ==
    /\ Fault
    /\ w \in Mortal /\ life[w] # "down"
    /\ life' = [life EXCEPT ![w] = "down"]
    /\ thread' = [thread EXCEPT ![w] = [s \in Slots |-> IdleThread]]
    /\ active' = [active EXCEPT ![w] = {}]
    /\ lost' = [lost EXCEPT ![w] = {}]
    /\ unapplied' = [unapplied EXCEPT ![w] = {}]
    /\ UNCHANGED <<importVars, batch, scans, rowVars>>

-----------------------------------------------------------------------------
ImportSteps ==
    \/ ImportInvalid \/ ImportDuplicate \/ ImportNew \/ ImportInsert
    \/ ImportConflict \/ ImportFinish

ThreadSteps(w, s) ==
    \/ Load(w, s) \/ TakeSpecific(w, s) \/ FinishTest(w, s) \/ Save(w, s)
    \/ Reread(w, s) \/ Retake(w, s) \/ SaveFailed(w, s)
    \/ FindSuccesses(w, s) \/ CreateScanBatch(w, s)

ThreadFaults(w, s) ==
    \/ ClaimFails(w, s) \/ SaveUnanswered(w, s) \/ SaveRaises(w, s)
    \/ CallbackFails(w, s)

Next ==
    \/ ImportSteps \/ ImportAborts \/ OtherCreates \/ Tick
    \/ \E w \in Workers :
        \/ Claim(w) \/ ClaimUnanswered(w) \/ Renew(w) \/ ApplyLost(w)
        \/ Shutdown(w) \/ ShutdownEnds(w) \/ Crash(w)
        \/ \E s \in Slots : ThreadSteps(w, s) \/ ThreadFaults(w, s)

Spec == Init /\ [][Next]_vars

(* Threads run on, tests end (the collectors have timeouts), dispatchers   *)
(* poll and the clock advances.  The import and the heartbeats need no     *)
(* fairness: what is promised of a row holds without them.                 *)
FairSpec ==
    /\ Spec
    /\ WF_vars(Tick)
    /\ \A w \in Workers :
        /\ WF_vars(Claim(w))
        /\ \A s \in Slots : WF_vars(ThreadSteps(w, s))

-----------------------------------------------------------------------------
(* The global limit on connection tests: rows under a live lease, whatever *)
(* processes claim, take again or lose (claim_import_tests and             *)
(* _claim_specific count under the advisory lock).                         *)
TestCap == Cardinality(Live) <= limit

(* An import leads to at most one scan batch, though its completion may be *)
(* reported several times and in two processes at once, and that batch     *)
(* scans devices only that this import brought in with a password.         *)
OneFirstScan ==
    /\ Len(scans) <= 1
    /\ \A i \in DOMAIN scans : \A r \in scans[i] :
           imp[r] = "IMPORTED" /\ sheet[r].kind = "password"

(* The counters of the import itself agree with the rows it has recorded   *)
(* at every commit, although they are written from a copy that workers do  *)
(* not keep up to date, and a copy that a rollback replaces.               *)
RowsAccounted ==
    /\ \A c \in {"imported", "skipped", "error"} :
          batch.counts[c] = Cardinality({r \in Rows : imp[r] =
              CASE c = "imported" -> "IMPORTED"
                [] c = "skipped"  -> "SKIPPED"
                [] c = "error"    -> "ERROR"})
    /\ import.pc = "done" => \A r \in Rows : imp[r] # "none"

(* A row leaves RUNNING for a result only by a thread of the process that  *)
(* holds its live lease: late results of other processes are refused by    *)
(* _save_result_for_worker.  And a result is changed only by a thread that *)
(* read the row before it had one and is about to take it.                 *)
SettledByOwner ==
    [][\A r \in Rows :
        /\ test[r] = "RUNNING" /\ test'[r] \in Settled =>
             \E s \in Slots : /\ thread[worker[r]][s].pc \in {"saving", "failing"}
                              /\ RowOf(worker[r], s) = r /\ lease[r] > 0
        /\ test[r] \in Settled /\ test'[r] # test[r] =>
             /\ test'[r] = "RUNNING"
             /\ \E w \in Workers, s \in Slots :
                  thread[w][s].pc \in {"taking", "retaking"} /\ RowOf(w, s) = r]_vars

(* README: the late result of an old worker cannot overwrite that of a new *)
(* one.                                                                    *)
ResultsAreFinal ==
    [][\A r \in Rows : test[r] \in Settled => test'[r] = test[r]]_vars

(* Every imported device with a password is tested in the end, whatever    *)
(* crashes, failures and late heartbeats interrupt (they are finitely      *)
(* many): expired rows are recovered by the next claim.                    *)
EveryRowTested ==
    <>[](\A r \in Rows : test[r] \notin {"PENDING", "RUNNING"})

(* README: a new device with a password enters the test queue and, once    *)
(* its test has succeeded, the first full scan.  Stated of the moment when *)
(* the import has ended, nothing is pending or running and every callback  *)
(* has returned.                                                           *)
TestedIsScanned ==
    /\ import.pc = "done"
    /\ \A r \in Rows : test[r] \notin {"PENDING", "RUNNING"}
    /\ \A w \in Workers, s \in Slots : At(w, s, "idle")
    => \A r \in Rows : test[r] = "SUCCESS" =>
           \E i \in DOMAIN scans : r \in scans[i]

=============================================================================
