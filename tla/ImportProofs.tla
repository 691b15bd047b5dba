---------------------------- MODULE ImportProofs ----------------------------
(***************************************************************************)
(* Theorems about ImportPipeline for every sheet, number of processes,     *)
(* threads and faults, every limit and every length of lease.              *)
(***************************************************************************)
EXTENDS ImportPipeline, FiniteSetTheorems, NaturalsInduction, TLAPS

-----------------------------------------------------------------------------
(***************************************************************************)
(* Types, as far as the arguments need them.                               *)
(***************************************************************************)
N == Cardinality(Rows)

Batches == [status : {"IMPORTING", "TESTING", "COMPLETED"},
            counts : [Counters -> Nat]]

RowTypes ==
    /\ imp \in [Rows -> {"none", "IMPORTED", "SKIPPED", "ERROR"}]
    /\ test \in [Rows -> TestSet]
    /\ worker \in [Rows -> Workers \cup {NoWorker}]
    /\ lease \in [Rows -> 0..LeaseTicks]

ThreadTypes ==
    /\ thread \in [Workers -> [Slots -> ThreadType]]
    /\ \A w \in Workers, s \in Slots : ~At(w, s, "idle") => RowOf(w, s) \in Rows

ImportTypes ==
    /\ limit \in Nat
    /\ import \in [pc : {"read", "write", "done", "aborted"},
                   row : 1..(N + 1), copy : Batches]
    /\ import.pc = "write" => import.row \in Rows
    /\ batch \in Batches
    /\ RowTypes
    /\ ThreadTypes

(* The rows of a batch are numbered from 1, and every set of them can be   *)
(* counted.                                                                *)
LEMMA RowsAreIds ==
    /\ IsFiniteSet(Rows) /\ N \in Nat /\ Rows = 1..N
    /\ \A S \in SUBSET Rows : IsFiniteSet(S) /\ Cardinality(S) \in Nat
BY ImportConstants, FS_CardinalityType, FS_Subset DEF N

(* A recount gives a row of import_batches.                                *)
LEMMA RecountedType ==
    ASSUME batch \in Batches, NEW ts
    PROVE  Recounted(ts) \in Batches
<1>1. \A status : Number(ts, status) \in Nat
  <2>1. \A status : {r \in Rows : imp[r] # "none" /\ ts[r] = status} \in SUBSET Rows
    OBVIOUS
  <2>2. QED
    BY <2>1, RowsAreIds DEF Number
<1> DEFINE counts == [c \in Counters |->
              CASE c = "pending" -> Number(ts, "PENDING")
                [] c = "running" -> Number(ts, "RUNNING")
                [] c = "success" -> Number(ts, "SUCCESS")
                [] c = "failed"  -> Number(ts, "FAILED")
                [] OTHER -> batch.counts[c]]
           status == IF Number(ts, "PENDING") + Number(ts, "RUNNING") > 0
                     THEN "TESTING" ELSE "COMPLETED"
<1>2. counts \in [Counters -> Nat]
  BY <1>1 DEF Batches
<1>3. Recounted(ts) = [status |-> status, counts |-> counts]
  BY DEF Recounted
<1>4. status \in {"IMPORTING", "TESTING", "COMPLETED"}
  OBVIOUS
<1> HIDE DEF counts, status
<1>5. QED
  BY <1>2, <1>3, <1>4 DEF Batches

(* The counters a worker does not write.                                   *)
LEMMA RecountedKeeps ==
    ASSUME batch \in Batches, NEW ts, NEW c \in {"imported", "skipped", "error"}
    PROVE  Recounted(ts).counts[c] = batch.counts[c]
BY DEF Recounted, Counters

-----------------------------------------------------------------------------
(***************************************************************************)
(* What a step does to the rows.                                           *)
(***************************************************************************)
(* The request commits a row of the sheet.                                 *)
Commits ==
    /\ Row \in Rows
    /\ \E copy \in {import.copy, batch} :
        \/ CommitRow(copy, "ERROR", "NOT_APPLICABLE", {"error"})
        \/ CommitRow(copy, "SKIPPED", "NOT_APPLICABLE", {"skipped"})
        \/ CommitRow(copy, "IMPORTED", "NOT_APPLICABLE", {"imported"})
        \/ /\ sheet[Row].kind = "password"
           /\ CommitRow(copy, "IMPORTED", "PENDING", {"imported", "pending"})

(* A thread takes a row that it has seen PENDING.                          *)
Takes(w, r) ==
    /\ TakeRow(w, r) /\ Cardinality(Live) < limit
    /\ \E s \in Slots : /\ thread[w][s].pc \in {"taking", "retaking"}
                        /\ RowOf(w, s) = r

(* A thread settles the row it owns.                                       *)
Settles(w, s) ==
    /\ SaveRow(w, s, thread[w][s].result)
    /\ Owns(w, RowOf(w, s))
    /\ thread[w][s].pc \in {"saving", "failing"}

(* Leases are renewed while they last, or run down.                        *)
LeasesMove ==
    /\ UNCHANGED <<import, batch, imp, test, worker>>
    /\ lease' \in [Rows -> 0..LeaseTicks]
    /\ \A r \in Rows : lease'[r] > 0 => lease[r] > 0

(* How the tables of an import change: by the import itself, by the commit *)
(* of a row, by the clock or a renewal, by a claim, by the second half of  *)
(* a claim or by the settlement of a test.                                 *)
LEMMA RowSteps ==
    ASSUME ImportTypes, [Next]_vars
    PROVE  \/ UNCHANGED <<import, batch, imp, test, worker, lease>>
           \/ (ImportNew \/ ImportFinish \/ ImportAborts) /\ UNCHANGED rowVars
           \/ Commits
           \/ LeasesMove
           \/ /\ UNCHANGED <<import, imp>>
              /\ \E w \in Workers : \/ ClaimRows(w)
                                    \/ \E r \in Rows : Takes(w, r)
                                    \/ \E s \in Slots : Settles(w, s)
<1> USE DEF importVars, rowVars, idVars
<1>1. CASE UNCHANGED vars
  BY <1>1 DEF vars
<1>2. CASE ImportSteps \/ ImportAborts \/ OtherCreates
  <2>1. CASE ImportInvalid \/ ImportDuplicate
    BY <2>1 DEF ImportInvalid, ImportDuplicate, Commits
  <2>2. CASE ImportInsert \/ ImportConflict
    BY <2>2 DEF ImportInsert, ImportConflict, Commits, ImportTypes, Row
  <2>3. CASE ImportNew \/ ImportFinish \/ ImportAborts
    BY <2>3 DEF ImportNew, ImportFinish, ImportAborts
  <2>4. CASE OtherCreates
    BY <2>4 DEF OtherCreates
  <2>5. QED
    BY <1>2, <2>1, <2>2, <2>3, <2>4 DEF ImportSteps
<1>3. CASE Tick
  <2>1. lease \in [Rows -> 0..LeaseTicks] /\ LeaseTicks \in Nat
    BY ImportConstants DEF ImportTypes, RowTypes
  <2>2. lease' = [r \in Rows |-> IF lease[r] > 0 THEN lease[r] - 1 ELSE 0]
    BY <1>3 DEF Tick
  <2>3. \A r \in Rows : lease'[r] \in 0..LeaseTicks /\ (lease'[r] > 0 => lease[r] > 0)
    BY <2>1, <2>2
  <2>4. QED
    BY <1>3, <2>2, <2>3 DEF Tick, LeasesMove
<1>4. ASSUME NEW w \in Workers, Renew(w)
      PROVE  LeasesMove
  <2> DEFINE renewed == {r \in active[w] : Owns(w, r)}
  <2>1. lease \in [Rows -> 0..LeaseTicks] /\ LeaseTicks \in Nat
    BY ImportConstants DEF ImportTypes, RowTypes
  <2>2. lease' = [r \in Rows |-> IF r \in renewed THEN LeaseTicks ELSE lease[r]]
    BY <1>4 DEF Renew, RenewedLease
  <2>3. \A r \in Rows : lease'[r] \in 0..LeaseTicks /\ (lease'[r] > 0 => lease[r] > 0)
    BY <2>1, <2>2 DEF Owns, Live
  <2>4. QED
    BY <1>4, <2>2, <2>3 DEF Renew, LeasesMove
<1>5. ASSUME NEW w \in Workers,
             Claim(w) \/ ClaimUnanswered(w)
      PROVE  UNCHANGED <<import, imp>> /\ ClaimRows(w)
  BY <1>5 DEF Claim, ClaimUnanswered
<1>6. ASSUME NEW w \in Workers,
             ApplyLost(w) \/ Shutdown(w) \/ ShutdownEnds(w) \/ Crash(w)
      PROVE  UNCHANGED <<import, batch, imp, test, worker, lease>>
  BY <1>6 DEF ApplyLost, Shutdown, ShutdownEnds, Crash
<1>7. ASSUME NEW w \in Workers, NEW s \in Slots,
             \/ Load(w, s) \/ FinishTest(w, s) \/ FindSuccesses(w, s)
             \/ CreateScanBatch(w, s) \/ Reread(w, s) \/ SaveRaises(w, s)
             \/ CallbackFails(w, s)
      PROVE  UNCHANGED <<import, batch, imp, test, worker, lease>>
  BY <1>7 DEF Load, FinishTest, FindSuccesses, CreateScanBatch, Reread, SaveRaises,
              CallbackFails
<1>8. ASSUME NEW w \in Workers, NEW s \in Slots,
             \/ Save(w, s) \/ SaveFailed(w, s) \/ SaveUnanswered(w, s)
      PROVE  /\ UNCHANGED <<import, imp>>
             /\ UNCHANGED <<batch, test, worker, lease>> \/ Settles(w, s)
  BY <1>8 DEF Save, SaveFailed, SaveUnanswered, Settles, At
<1>9. ASSUME NEW w \in Workers, NEW s \in Slots,
             TakeSpecific(w, s) \/ Retake(w, s) \/ ClaimFails(w, s)
      PROVE  /\ UNCHANGED <<import, imp>>
             /\ \/ UNCHANGED <<batch, test, worker, lease>>
                \/ \E r \in Rows : Takes(w, r)
  <2>1. RowOf(w, s) \in Rows
    BY <1>9 DEF TakeSpecific, Retake, ClaimFails, ImportTypes, ThreadTypes, At
  <2>2. QED
    BY <1>9, <2>1 DEF TakeSpecific, Retake, ClaimFails, Takes, At
<1>10. QED
  BY <1>1, <1>2, <1>3, <1>4, <1>5, <1>6, <1>7, <1>8, <1>9
     DEF Next, ThreadSteps, ThreadFaults

(* Counters bumped from a copy.                                            *)
LEMMA BumpedType ==
    ASSUME NEW b \in Batches, NEW copy \in Batches, NEW cs
    PROVE  Bumped(b, copy, cs) \in Batches
<1> DEFINE counts == [c \in Counters |->
                        IF c \in cs THEN copy.counts[c] + 1 ELSE b.counts[c]]
<1>1. counts \in [Counters -> Nat]
  BY DEF Batches
<1>2. Bumped(b, copy, cs) = [b EXCEPT !.counts = counts]
  BY DEF Bumped
<1> HIDE DEF counts
<1>3. QED
  BY <1>1, <1>2 DEF Batches

(* The rows and the batch keep their types.                                *)
LEMMA RowTypesStep ==
    ASSUME ImportTypes, [Next]_vars
    PROVE  /\ import' \in [pc : {"read", "write", "done", "aborted"},
                           row : 1..(N + 1), copy : Batches]
           /\ import'.pc = "write" => import'.row \in Rows
           /\ batch' \in Batches
           /\ RowTypes'
<1> DEFINE ImportType == [pc : {"read", "write", "done", "aborted"},
                          row : 1..(N + 1), copy : Batches]
           Goal == /\ import' \in ImportType
                   /\ import'.pc = "write" => import'.row \in Rows
                   /\ batch' \in Batches
                   /\ RowTypes'
<1>1. /\ import \in ImportType /\ batch \in Batches /\ RowTypes
      /\ import.pc = "write" => import.row \in Rows
      /\ LeaseTicks \in Nat \ {0} /\ import.copy \in Batches
  BY ImportConstants DEF ImportTypes
<1>2. CASE UNCHANGED <<import, batch, imp, test, worker, lease>>
  BY <1>1, <1>2 DEF RowTypes
<1>3. CASE (ImportNew \/ ImportFinish \/ ImportAborts) /\ UNCHANGED rowVars
  <2>1. RowTypes'
    BY <1>1, <1>3 DEF RowTypes, rowVars
  <2>2. CASE ImportNew \/ ImportAborts
    BY <1>1, <2>1, <2>2 DEF ImportNew, ImportAborts, Row
  <2>3. CASE ImportFinish
    <3>1. batch' \in Batches
      BY <1>1, <2>3 DEF ImportFinish, Batches
    <3>2. import' = [import EXCEPT !.pc = "done", !.copy = batch']
      BY <2>3 DEF ImportFinish
    <3>3. QED
      BY <1>1, <2>1, <3>1, <3>2
  <2>4. QED
    BY <1>3, <2>2, <2>3
<1>4. ASSUME Row \in Rows, NEW copy \in {import.copy, batch},
             NEW istatus \in {"IMPORTED", "SKIPPED", "ERROR"},
             NEW tstatus \in TestSet, NEW cs,
             CommitRow(copy, istatus, tstatus, cs)
      PROVE  Goal
  <2>1. copy \in Batches
    BY <1>1
  <2>2. /\ Bumped(batch, copy, cs) \in Batches /\ Bumped(copy, copy, cs) \in Batches
    BY <1>1, <2>1, BumpedType
  <2>3. /\ batch' = Bumped(batch, copy, cs)
        /\ import' = [pc |-> "read", row |-> Row + 1, copy |-> Bumped(copy, copy, cs)]
        /\ imp' = [imp EXCEPT ![Row] = istatus] /\ test' = [test EXCEPT ![Row] = tstatus]
        /\ worker' = worker /\ lease' = lease
    BY <1>4 DEF CommitRow
  <2>4. Row + 1 \in 1..(N + 1)
    BY <1>4, RowsAreIds
  <2>5. RowTypes'
    BY <1>1, <2>3 DEF RowTypes
  <2>6. import' \in ImportType /\ import'.pc = "read"
    BY <2>2, <2>3, <2>4
  <2>7. QED
    BY <2>2, <2>3, <2>5, <2>6
<1>5. CASE Commits
  BY <1>4, <1>5 DEF Commits, TestSet
<1>6. CASE LeasesMove
  BY <1>1, <1>6 DEF LeasesMove, RowTypes
<1>7. ASSUME NEW w \in Workers, ClaimRows(w), UNCHANGED <<import, imp>>
      PROVE  Goal
  BY <1>1, <1>7, RecountedType DEF ClaimRows, RowTypes, TestSet
<1>8. ASSUME NEW w \in Workers, NEW r \in Rows, Takes(w, r), UNCHANGED <<import, imp>>
      PROVE  Goal
  BY <1>1, <1>8, RecountedType DEF Takes, TakeRow, RowTypes, TestSet
<1>9. ASSUME NEW w \in Workers, NEW s \in Slots, Settles(w, s), UNCHANGED <<import, imp>>
      PROVE  Goal
  <2>1. thread[w][s].result \in TestSet
    BY DEF ImportTypes, ThreadTypes, ThreadType, TestSet
  <2>2. QED
    <3> DEFINE r == RowOf(w, s)
               res == thread[w][s].result
               ts == [test EXCEPT ![r] = res]
    <3>1. /\ test' = ts /\ batch' = Recounted(ts) /\ imp' = imp /\ import' = import
          /\ worker' = [worker EXCEPT ![r] = NoWorker] /\ lease' = [lease EXCEPT ![r] = 0]
      BY <1>9 DEF Settles, SaveRow
    <3> HIDE DEF r, res
    <3>2. test' \in [Rows -> TestSet]
      BY <1>1, <2>1, <3>1 DEF RowTypes, res
    <3>3. batch' \in Batches
      BY <1>1, <3>1, RecountedType
    <3>4. RowTypes'
      BY <1>1, <3>1, <3>2 DEF RowTypes
    <3>5. QED
      BY <1>1, <3>1, <3>3, <3>4
<1>10. QED
  BY <1>2, <1>3, <1>5, <1>6, <1>7, <1>8, <1>9, RowSteps

(* What a step does to the threads: one of them goes on, a process submits *)
(* the rows it has claimed, or it dies.                                    *)
GoesOn(w, s) ==
    \E t \in ThreadType : Goto(w, s, t) /\ (t.pc # "idle" => t.row \in Rows)

(* The threads, their rows and their heartbeats stay well typed.           *)
LEMMA ThreadTypesStep ==
    ASSUME ImportTypes, [Next]_vars
    PROVE  ThreadTypes'
<1> USE DEF importVars, rowVars, idVars
<1>1. /\ thread \in [Workers -> [Slots -> ThreadType]]
      /\ \A w \in Workers, s \in Slots :
           /\ thread[w][s] \in ThreadType
           /\ thread[w][s].pc # "idle" => thread[w][s].row \in Rows
  BY DEF ImportTypes, ThreadTypes, At, RowOf
<1>2. IdleThread \in ThreadType /\ IdleThread.pc = "idle"
  BY DEF IdleThread, ThreadType, Settled
<1>3. ASSUME UNCHANGED thread
      PROVE  ThreadTypes'
  BY <1>3 DEF ImportTypes, ThreadTypes, At, RowOf
<1>4. ASSUME NEW w \in Workers, NEW s \in Slots, GoesOn(w, s)
      PROVE  ThreadTypes'
  <2>1. PICK t \in ThreadType : /\ thread' = [thread EXCEPT ![w][s] = t]
                                /\ t.pc # "idle" => t.row \in Rows
    BY <1>4 DEF GoesOn, Goto
  <2>2. thread' \in [Workers -> [Slots -> ThreadType]]
    BY <1>1, <2>1
  <2>3. \A v \in Workers, u \in Slots :
          thread'[v][u] = IF v = w /\ u = s THEN t ELSE thread[v][u]
    BY <1>1, <2>1
  <2>4. QED
    BY <1>1, <2>1, <2>2, <2>3 DEF ThreadTypes, At, RowOf
<1>5. ASSUME NEW w \in Workers, NEW s \in Slots, EndTest(w, s)
      PROVE  GoesOn(w, s)
  BY <1>2, <1>5 DEF EndTest, GoesOn
<1>6. ASSUME NEW w \in Workers, NEW s \in Slots, ThreadSteps(w, s) \/ ThreadFaults(w, s)
      PROVE  GoesOn(w, s)
  <2> DEFINE t == thread[w][s]
  <2>1. t \in ThreadType /\ (t.pc # "idle" => t.row \in Rows)
    BY <1>1
  <2>2. ASSUME NEW pc \in {"submitted", "taking", "testing", "saving", "failed",
                           "retaking", "failing", "completed", "creating"},
               Goto(w, s, [t EXCEPT !.pc = pc]), t.pc # "idle"
        PROVE  GoesOn(w, s)
    <3> DEFINE u == [t EXCEPT !.pc = pc]
    <3>1. u \in ThreadType /\ u.row \in Rows
      BY <2>1, <2>2 DEF ThreadType
    <3>2. Goto(w, s, u)
      BY <2>2
    <3> HIDE DEF u
    <3>3. QED
      BY <3>1, <3>2 DEF GoesOn
  <2>3. ASSUME NEW result \in Settled,
               Goto(w, s, [t EXCEPT !.pc = "saving", !.result = result]), t.pc # "idle"
        PROVE  GoesOn(w, s)
    <3> DEFINE u == [t EXCEPT !.pc = "saving", !.result = result]
    <3>1. u \in ThreadType /\ u.row \in Rows
      BY <2>1, <2>3 DEF ThreadType
    <3>2. Goto(w, s, u)
      BY <2>3
    <3> HIDE DEF u
    <3>3. QED
      BY <3>1, <3>2 DEF GoesOn
  <2>4. ASSUME NEW found \in SUBSET Rows,
               Goto(w, s, [t EXCEPT !.pc = "creating", !.found = found]), t.pc # "idle"
        PROVE  GoesOn(w, s)
    <3> DEFINE u == [t EXCEPT !.pc = "creating", !.found = found]
    <3>1. u \in ThreadType /\ u.row \in Rows
      BY <2>1, <2>4 DEF ThreadType
    <3>2. Goto(w, s, u)
      BY <2>4
    <3> HIDE DEF u
    <3>3. QED
      BY <3>1, <3>2 DEF GoesOn
  <2>5. CASE Load(w, s) \/ TakeSpecific(w, s)
    BY <1>5, <2>2, <2>5 DEF Load, TakeSpecific, At
  <2>6. CASE FinishTest(w, s)
    BY <1>5, <2>3, <2>6 DEF FinishTest, At
  <2>7. CASE Save(w, s) \/ Reread(w, s) \/ Retake(w, s) \/ SaveFailed(w, s)
    BY <1>5, <2>2, <2>7 DEF Save, Reread, Retake, SaveFailed, At
  <2>8. CASE FindSuccesses(w, s)
    <3>1. {r \in Rows : test[r] = "SUCCESS"} \in SUBSET Rows
      OBVIOUS
    <3>2. QED
      BY <1>5, <2>4, <2>8, <3>1 DEF FindSuccesses, At
  <2>9. ASSUME Excepted(w, s), t.pc # "idle"
        PROVE  GoesOn(w, s)
    <3> DEFINE u == [t EXCEPT !.pc = "failed", !.result = "FAILED", !.found = {}]
    <3>1. u \in ThreadType /\ u.row \in Rows
      BY <2>1, <2>9 DEF ThreadType, Settled
    <3>2. Goto(w, s, u)
      BY <2>9 DEF Excepted
    <3> HIDE DEF u
    <3>3. QED
      BY <3>1, <3>2 DEF GoesOn
  <2>10. CASE CreateScanBatch(w, s) \/ SaveRaises(w, s) \/ CallbackFails(w, s)
    BY <1>5, <2>9, <2>10 DEF CreateScanBatch, SaveRaises, CallbackFails, At
  <2>11. CASE ClaimFails(w, s) \/ SaveUnanswered(w, s)
    BY <1>5, <2>11 DEF ClaimFails, SaveUnanswered
  <2>12. QED
    BY <1>6, <2>5, <2>6, <2>7, <2>8, <2>10, <2>11 DEF ThreadSteps, ThreadFaults
<1>7. ASSUME NEW w \in Workers, NEW f \in [Slots -> ThreadType],
             thread' = [thread EXCEPT ![w] = f],
             \A s \in Slots : f[s].pc # "idle" => f[s].row \in Rows
      PROVE  ThreadTypes'
  <2>1. thread' \in [Workers -> [Slots -> ThreadType]]
    BY <1>1, <1>7
  <2>2. \A v \in Workers, u \in Slots :
          thread'[v][u] = IF v = w THEN f[u] ELSE thread[v][u]
    BY <1>1, <1>7
  <2>3. QED
    BY <1>1, <1>7, <2>1, <2>2 DEF ThreadTypes, At, RowOf
<1>8. ASSUME NEW w \in Workers, Claim(w)
      PROVE  ThreadTypes'
  <2>1. PICK run \in [Claimable(w) -> Idle(w)] :
          thread' = [thread EXCEPT ![w] = [s \in Slots |->
              IF \E r \in Claimable(w) : run[r] = s
              THEN [IdleThread EXCEPT !.pc = "submitted",
                      !.row = CHOOSE r \in Claimable(w) : run[r] = s]
              ELSE thread[w][s]]]
    BY <1>8 DEF Claim
  <2> DEFINE row(s) == CHOOSE r \in Claimable(w) : run[r] = s
             new(s) == [IdleThread EXCEPT !.pc = "submitted", !.row = row(s)]
             f == [s \in Slots |-> IF \E r \in Claimable(w) : run[r] = s
                                   THEN new(s) ELSE thread[w][s]]
  <2>2. Claimable(w) \subseteq Rows
    BY DEF Claimable, Expired
  <2>3. ASSUME NEW s \in Slots, \E r \in Claimable(w) : run[r] = s
        PROVE  row(s) \in Rows
    BY <2>2, <2>3
  <2>4. ASSUME NEW r \in Rows
        PROVE  LET t == [IdleThread EXCEPT !.pc = "submitted", !.row = r]
               IN  t \in ThreadType /\ t.row \in Rows
    BY <1>2 DEF ThreadType
  <2>5. ASSUME NEW s \in Slots
        PROVE  f[s] \in ThreadType /\ (f[s].pc # "idle" => f[s].row \in Rows)
    <3>1. CASE \E r \in Claimable(w) : run[r] = s
      <4>1. row(s) \in Rows
        BY <2>3, <3>1
      <4> HIDE DEF row
      <4>2. new(s) \in ThreadType /\ new(s).row \in Rows
        BY <2>4, <4>1
      <4>3. f[s] = new(s)
        BY <3>1
      <4> HIDE DEF f, new
      <4>4. QED
        BY <4>2, <4>3
    <3>2. CASE ~ \E r \in Claimable(w) : run[r] = s
      <4>1. f[s] = thread[w][s]
        BY <3>2
      <4> HIDE DEF f
      <4>2. QED
        BY <1>1, <4>1
    <3>3. QED
      BY <3>1, <3>2
  <2>6. f \in [Slots -> ThreadType] /\ thread' = [thread EXCEPT ![w] = f]
    BY <2>1, <2>5
  <2> HIDE DEF f
  <2>7. QED
    BY <1>7, <2>5, <2>6
<1>9. ASSUME NEW w \in Workers, Crash(w)
      PROVE  ThreadTypes'
  <2> DEFINE f == [s \in Slots |-> IdleThread]
  <2>1. /\ f \in [Slots -> ThreadType] /\ \A s \in Slots : f[s].pc = "idle"
        /\ thread' = [thread EXCEPT ![w] = f]
    BY <1>2, <1>9 DEF Crash
  <2> HIDE DEF f
  <2>2. QED
    BY <1>7, <2>1
<1>10. CASE ImportSteps \/ ImportAborts \/ OtherCreates \/ Tick \/ UNCHANGED vars
  BY <1>3, <1>10 DEF ImportSteps, ImportInvalid, ImportDuplicate, ImportNew, ImportInsert,
     ImportConflict, ImportFinish, ImportAborts, OtherCreates, Tick, CommitRow, vars
<1>11. ASSUME NEW w \in Workers,
              \/ ClaimUnanswered(w) \/ Renew(w) \/ ApplyLost(w)
              \/ Shutdown(w) \/ ShutdownEnds(w)
       PROVE  ThreadTypes'
  BY <1>3, <1>11 DEF ClaimUnanswered, Renew, ApplyLost, Shutdown, ShutdownEnds
<1>12. QED
  BY <1>4, <1>6, <1>8, <1>9, <1>10, <1>11 DEF Next

(* Nothing changes the limit or the sheet.                                 *)
LEMMA InputsStay ==
    ASSUME [Next]_vars
    PROVE  UNCHANGED <<limit, sheet>>
<1> USE DEF importVars
<1>1. CASE ImportSteps \/ ImportAborts \/ OtherCreates \/ Tick \/ UNCHANGED vars
  BY <1>1 DEF ImportSteps, ImportInvalid, ImportDuplicate, ImportNew, ImportInsert,
     ImportConflict, ImportFinish, ImportAborts, OtherCreates, Tick, CommitRow, vars
<1>2. ASSUME NEW w \in Workers,
             \/ Claim(w) \/ ClaimUnanswered(w) \/ Renew(w) \/ ApplyLost(w)
             \/ Shutdown(w) \/ ShutdownEnds(w) \/ Crash(w)
      PROVE  UNCHANGED <<limit, sheet>>
  BY <1>2 DEF Claim, ClaimUnanswered, Renew, ApplyLost, Shutdown, ShutdownEnds, Crash
<1>3. ASSUME NEW w \in Workers, NEW s \in Slots, ThreadSteps(w, s)
      PROVE  UNCHANGED <<limit, sheet>>
  BY <1>3 DEF ThreadSteps, Load, TakeSpecific, FinishTest, Save, Reread, Retake,
              SaveFailed, FindSuccesses, CreateScanBatch
<1>4. ASSUME NEW w \in Workers, NEW s \in Slots, ThreadFaults(w, s)
      PROVE  UNCHANGED <<limit, sheet>>
  BY <1>4 DEF ThreadFaults, ClaimFails, SaveUnanswered, SaveRaises, CallbackFails
<1>5. QED
  BY <1>1, <1>2, <1>3, <1>4 DEF Next

(* The first state is well typed ...                                       *)
LEMMA TypesStart ==
    ASSUME Init
    PROVE  ImportTypes
<1>1. LeaseTicks \in Nat /\ 0 \in 0..LeaseTicks /\ limit \in Nat /\ 1 \in 1..(N + 1)
  BY ImportConstants, RowsAreIds DEF Init
<1>2. NewBatch \in Batches
  BY DEF NewBatch, Batches
<1>3. RowTypes
  BY <1>1 DEF Init, RowTypes, TestSet
<1>4. IdleThread \in ThreadType /\ IdleThread.pc = "idle"
  BY DEF IdleThread, ThreadType, Settled
<1>5. ThreadTypes
  BY <1>4 DEF Init, ThreadTypes, At
<1>6. QED
  BY <1>1, <1>2, <1>3, <1>5 DEF Init, ImportTypes

(* ... and every step leaves a well-typed one.                             *)
LEMMA TypesKept ==
    ASSUME ImportTypes, [Next]_vars
    PROVE  ImportTypes'
<1>1. limit' \in Nat
  BY InputsStay DEF ImportTypes
<1>2. ThreadTypes'
  BY ThreadTypesStep
<1>3. QED
  BY <1>1, <1>2, RowTypesStep DEF ImportTypes

-----------------------------------------------------------------------------
(***************************************************************************)
(* The global limit on tests.                                              *)
(***************************************************************************)
(* Some row is the last.                                                   *)
LEMMA LastRow ==
    ASSUME NEW F \in SUBSET Rows, F # {}
    PROVE  \E m \in F : \A r \in F : r <= m
<1> DEFINE T == {N - r : r \in F}
<1>1. \A r \in F : r \in Nat /\ N \in Nat /\ N - r \in Nat
  BY RowsAreIds
<1>2. T \subseteq Nat /\ T # {}
  <2>1. T \subseteq Nat
    BY <1>1
  <2>2. PICK r \in F : TRUE
    OBVIOUS
  <2>3. N - r \in T
    BY <2>2
  <2>4. QED
    BY <2>1, <2>3
<1>3. PICK t \in T : \A u \in T : ~(<<u, t>> \in OpToRel(<, Nat))
  BY <1>2, NatLessThanWellFounded, WFMin
<1>4. \A u \in T : ~(u < t)
  BY <1>2, <1>3 DEF OpToRel
<1>5. PICK m \in F : t = N - m
  OBVIOUS
<1>6. ASSUME NEW r \in F
      PROVE  r <= m
  <2>1. ~(N - r < N - m)
    BY <1>4, <1>5
  <2>2. QED
    BY <1>1, <2>1
<1>7. QED
  BY <1>6

(* ORDER BY id LIMIT k returns at most k rows: all but the last of them    *)
(* are below the last.                                                     *)
LEMMA FirstFew ==
    ASSUME NEW P \in SUBSET Rows, NEW k \in Nat
    PROVE  Cardinality({r \in P : Cardinality({q \in P : q < r}) < k}) <= k
<1> DEFINE below(r) == {q \in P : q < r}
           F == {r \in P : Cardinality(below(r)) < k}
<1>1. \A r \in F : /\ below(r) \in SUBSET Rows /\ Cardinality(below(r)) < k
  OBVIOUS
<1>2. F \in SUBSET P /\ F \in SUBSET Rows
  OBVIOUS
<1> HIDE DEF F
<1>3. IsFiniteSet(F) /\ Cardinality(F) \in Nat
  BY <1>2, RowsAreIds
<1>4. CASE F = {}
  <2>1. Cardinality(F) = 0
    BY <1>4, FS_EmptySet
  <2>2. Cardinality(F) <= k
    BY <2>1
  <2>3. QED
    BY <2>2 DEF F
<1>5. CASE F # {}
  <2>1. PICK m \in F : \A r \in F : r <= m
    BY <1>2, <1>5, LastRow
  <2>2. \A r \in F : r \in P /\ r \in Nat /\ m \in Nat
    BY <1>2, RowsAreIds
  <2>3. \A r \in F \ {m} : r < m
    BY <2>1, <2>2
  <2>4. F \ {m} \subseteq below(m)
    BY <2>2, <2>3
  <2>5. below(m) \in SUBSET Rows /\ Cardinality(below(m)) < k
    BY <1>1
  <2> HIDE DEF below
  <2>6. IsFiniteSet(below(m)) /\ Cardinality(below(m)) \in Nat
    BY <2>5, RowsAreIds
  <2>7. Cardinality(F \ {m}) <= Cardinality(below(m))
    BY <2>4, <2>6, FS_Subset
  <2>8. Cardinality(F \ {m}) = Cardinality(F) - 1
    BY <1>3, <2>1, FS_RemoveElement
  <2>9. Cardinality(F) <= k
    BY <1>3, <2>5, <2>6, <2>7, <2>8
  <2>10. QED
    BY <2>9 DEF F, below
<1>6. QED
  BY <1>4, <1>5

(* Min and Max of two numbers.                                             *)
LEMMA PairBounds ==
    ASSUME NEW a \in Int, NEW b \in Int
    PROVE  /\ Min({a, b}) \in {a, b} /\ Min({a, b}) <= a /\ Min({a, b}) <= b
           /\ Max({a, b}) = IF a >= b THEN a ELSE b
<1>1. \E x \in {a, b} : \A y \in {a, b} : x <= y
  <2>1. CASE a <= b
    BY <2>1
  <2>2. CASE b <= a
    BY <2>2
  <2>3. QED
    BY <2>1, <2>2
<1>2. \E x \in {a, b} : \A y \in {a, b} : x >= y
  <2>1. CASE a <= b
    BY <2>1
  <2>2. CASE b <= a
    BY <2>2
  <2>3. QED
    BY <2>1, <2>2
<1>3. Min({a, b}) \in {a, b} /\ \A y \in {a, b} : Min({a, b}) <= y
  BY <1>1 DEF Min
<1>4. Max({a, b}) \in {a, b} /\ \A y \in {a, b} : Max({a, b}) >= y
  BY <1>2 DEF Max
<1>5. QED
  BY <1>3, <1>4

(* A claim takes no more than the limit leaves.                            *)
LEMMA ClaimFits ==
    ASSUME limit \in Nat, TestCap, NEW w \in Workers
    PROVE  Cardinality(Claimable(w)) <= limit - Cardinality(Live)
<1> DEFINE L == Cardinality(Live)
           a == Cardinality(Idle(w))
           b == Max({limit - L, 0})
           k == ClaimLimit(w)
           P == Expired \cup {r \in Rows : test[r] = "PENDING"}
<1>1. L \in Nat /\ L <= limit
  <2>1. Live \in SUBSET Rows
    BY DEF Live
  <2>2. QED
    BY <2>1, RowsAreIds DEF TestCap
<1>2. a \in Nat
  <2>1. Idle(w) \subseteq Slots
    BY DEF Idle
  <2>2. QED
    BY <2>1, ImportConstants, FS_Subset, FS_CardinalityType
<1>3. b = limit - L
  <2> DEFINE e == limit - L
  <2>1. e \in Int /\ e >= 0
    BY <1>1
  <2>2. b = Max({e, 0})
    OBVIOUS
  <2> HIDE DEF e
  <2>3. Max({e, 0}) = e
    BY <2>1, PairBounds
  <2>4. QED
    BY <2>2, <2>3 DEF e
<1>4. k = Min({a, b})
  BY DEF ClaimLimit
<1> HIDE DEF L, a, b, k
<1>5. k \in Nat /\ k <= limit - L
  <2>1. b \in Int /\ a \in Int
    BY <1>1, <1>2, <1>3
  <2>2. Min({a, b}) \in {a, b} /\ Min({a, b}) <= b
    BY <2>1, PairBounds
  <2>3. QED
    BY <1>1, <1>2, <1>3, <1>4, <2>2
<1>6. P \in SUBSET Rows
  BY DEF Expired
<1>7. Claimable(w) = {r \in P : Cardinality({q \in P : q < r}) < k}
  BY DEF Claimable, k
<1> HIDE DEF P
<1>8. Cardinality(Claimable(w)) <= k
  BY <1>5, <1>6, <1>7, FirstFew
<1>9. Cardinality(Claimable(w)) \in Nat
  BY <1>6, <1>7, RowsAreIds
<1>10. QED
  BY <1>1, <1>5, <1>8, <1>9 DEF L

(* A claim takes no more rows than the limit leaves.                       *)
LEMMA TestCapStep ==
    ASSUME ImportTypes, TestCap, [Next]_vars
    PROVE  TestCap'
<1>1. /\ limit' = limit /\ limit \in Nat
      /\ Live \in SUBSET Rows /\ IsFiniteSet(Live) /\ Cardinality(Live) \in Nat
      /\ Cardinality(Live) <= limit
  <2>1. Live \in SUBSET Rows
    BY DEF Live
  <2>2. QED
    BY <2>1, InputsStay, RowsAreIds DEF ImportTypes, TestCap
<1>2. Live' \in SUBSET Rows
  BY DEF Live
<1>3. ASSUME Live' \subseteq Live
      PROVE  TestCap'
  <2>1. Cardinality(Live') <= Cardinality(Live) /\ Cardinality(Live') \in Nat
    BY <1>1, <1>2, <1>3, FS_Subset, RowsAreIds
  <2>2. QED
    BY <1>1, <2>1 DEF TestCap
<1>4. CASE UNCHANGED <<import, batch, imp, test, worker, lease>> \/ UNCHANGED rowVars
  BY <1>3, <1>4 DEF Live, rowVars
<1>5. CASE Commits
  <2>1. /\ lease' = lease
        /\ \A r \in Rows : test'[r] = "RUNNING" => test[r] = "RUNNING"
    BY <1>5 DEF Commits, CommitRow, ImportTypes, RowTypes
  <2>2. QED
    BY <1>3, <2>1 DEF Live
<1>6. CASE LeasesMove
  BY <1>3, <1>6 DEF LeasesMove, Live
<1>7. ASSUME NEW w \in Workers, ClaimRows(w)
      PROVE  TestCap'
  <2> DEFINE C == Claimable(w)
  <2>1. C \in SUBSET Rows /\ IsFiniteSet(C) /\ Cardinality(C) \in Nat
    <3>1. C \in SUBSET Rows
      BY DEF Claimable, Expired
    <3>2. QED
      BY <3>1, RowsAreIds
  <2>2. Cardinality(C) <= limit - Cardinality(Live)
    BY <1>1, ClaimFits
  <2> HIDE DEF C
  <2>3. Live' \subseteq Live \cup C
    <3> SUFFICES ASSUME NEW r \in Live', r \notin C PROVE r \in Live
      OBVIOUS
    <3>1. r \in Rows /\ test'[r] = "RUNNING" /\ lease'[r] > 0
      BY DEF Live
    <3>2. /\ test'[r] = IF r \in Expired THEN "PENDING" ELSE test[r]
          /\ lease'[r] = lease[r]
      BY <1>7, <3>1 DEF ClaimRows, C
    <3>3. QED
      BY <3>1, <3>2 DEF Live
  <2>4. /\ IsFiniteSet(Live \cup C)
        /\ Cardinality(Live \cup C)
             = Cardinality(Live) + Cardinality(C) - Cardinality(Live \cap C)
    BY <1>1, <2>1, FS_Union
  <2>5. Cardinality(Live \cap C) \in Nat
    BY <1>1, RowsAreIds
  <2>6. Cardinality(Live') <= Cardinality(Live \cup C) /\ Cardinality(Live') \in Nat
    BY <1>2, <2>3, <2>4, FS_Subset, RowsAreIds
  <2>7. Cardinality(Live \cup C) <= limit
    BY <1>1, <2>1, <2>2, <2>4, <2>5
  <2>8. Cardinality(Live \cup C) \in Nat
    BY <2>4, FS_CardinalityType
  <2>9. QED
    BY <1>1, <2>6, <2>7, <2>8 DEF TestCap
<1>8. ASSUME NEW w \in Workers, NEW r \in Rows, Takes(w, r)
      PROVE  TestCap'
  <2>1. Cardinality(Live) < limit
    BY <1>8 DEF Takes
  <2>2. Live' \subseteq Live \cup {r}
    BY <1>8 DEF Takes, TakeRow, Live, ImportTypes, RowTypes
  <2>3. IsFiniteSet(Live \cup {r}) /\ Cardinality(Live \cup {r}) <= Cardinality(Live) + 1
        /\ Cardinality(Live \cup {r}) \in Nat
    <3>1. /\ IsFiniteSet(Live \cup {r})
          /\ \/ Cardinality(Live \cup {r}) = Cardinality(Live)
             \/ Cardinality(Live \cup {r}) = Cardinality(Live) + 1
      BY <1>1, FS_AddElement
    <3>2. QED
      BY <1>1, <3>1
  <2>4. Cardinality(Live') <= Cardinality(Live \cup {r}) /\ Cardinality(Live') \in Nat
    BY <1>2, <2>2, <2>3, FS_Subset, RowsAreIds
  <2>5. QED
    BY <1>1, <2>1, <2>3, <2>4 DEF TestCap
<1>9. ASSUME NEW w \in Workers, NEW s \in Slots, Settles(w, s)
      PROVE  TestCap'
  <2> DEFINE r == RowOf(w, s)
  <2>1. lease' = [lease EXCEPT ![r] = 0] /\ test' = [test EXCEPT ![r] = thread[w][s].result]
    BY <1>9 DEF Settles, SaveRow
  <2> HIDE DEF r
  <2>2. \A q \in Rows : /\ lease'[q] = IF q = r THEN 0 ELSE lease[q]
                        /\ q # r => test'[q] = test[q]
    BY <2>1 DEF ImportTypes, RowTypes
  <2>3. QED
    BY <1>3, <2>2 DEF Live
<1>10. QED
  BY <1>4, <1>5, <1>6, <1>7, <1>8, <1>9, RowSteps

(* At most limit rows are under a live lease, whatever number of processes *)
(* claim them, take them again after a failure, lose them or die.          *)
THEOREM TestCapHolds == Spec => []TestCap
<1>1. Init => TestCap
  <2> SUFFICES ASSUME Init PROVE TestCap
    OBVIOUS
  <2>1. Live = {}
    BY DEF Init, Live
  <2>2. limit \in Nat
    BY TypesStart DEF ImportTypes
  <2>3. QED
    BY <2>1, <2>2, FS_EmptySet DEF TestCap
<1>2. Init => ImportTypes
  BY TypesStart
<1>3. ImportTypes /\ [Next]_vars => ImportTypes'
  BY TypesKept
<1>4. ImportTypes /\ TestCap /\ [Next]_vars => TestCap'
  BY TestCapStep
<1>5. QED
  BY <1>1, <1>2, <1>3, <1>4, PTL DEF Spec

-----------------------------------------------------------------------------
(***************************************************************************)
(* The counters of the import itself.  The copy the request works on may   *)
(* be behind the table in what workers count; in what the request counts   *)
(* the two agree, and the rows are recorded in order.                      *)
(***************************************************************************)
OwnCounters == {"imported", "skipped", "error"}

StatusOf(c) ==
    CASE c = "imported" -> "IMPORTED"
      [] c = "skipped"  -> "SKIPPED"
      [] c = "error"    -> "ERROR"

Recorded(c) == {r \in Rows : imp[r] = StatusOf(c)}

RowsInv ==
    /\ ImportTypes
    /\ \A r \in Rows : imp[r] = "none" <=> r >= import.row
    /\ \A c \in OwnCounters : /\ batch.counts[c] = import.copy.counts[c]
                              /\ batch.counts[c] = Cardinality(Recorded(c))
    /\ import.pc = "done" => import.row \notin Rows

(* The commit of a row counts it once, in the counter of the status it     *)
(* gives the row.                                                          *)
LEMMA CommitCounts ==
    ASSUME RowsInv, Row \in Rows, NEW copy \in {import.copy, batch},
           NEW d \in OwnCounters, NEW tstatus, NEW cs, cs \cap OwnCounters = {d},
           CommitRow(copy, StatusOf(d), tstatus, cs), ImportTypes'
    PROVE  RowsInv'
<1>1. /\ imp' = [imp EXCEPT ![Row] = StatusOf(d)]
      /\ batch' = Bumped(batch, copy, cs)
      /\ import' = [pc |-> "read", row |-> Row + 1, copy |-> Bumped(copy, copy, cs)]
  BY DEF CommitRow
<1>2. /\ import.row \in Nat /\ Row = import.row /\ imp[Row] = "none"
      /\ batch \in Batches /\ copy \in Batches
      /\ \A r \in Rows : r \in Nat
      /\ imp \in [Rows -> {"none", "IMPORTED", "SKIPPED", "ERROR"}]
  BY RowsAreIds DEF RowsInv, ImportTypes, RowTypes, Row
<1>3. \A c \in OwnCounters : StatusOf(c) # "none" /\ (c # d => StatusOf(c) # StatusOf(d))
  BY DEF OwnCounters, StatusOf
<1>4. \A r \in Rows : imp'[r] = "none" <=> r >= import'.row
  <2>1. import'.row = Row + 1
    BY <1>1
  <2>2. \A r \in Rows : imp'[r] = IF r = Row THEN StatusOf(d) ELSE imp[r]
    BY <1>1, <1>2
  <2>3. \A r \in Rows : r # Row => (r >= Row + 1 <=> r >= import.row)
    BY <1>2
  <2>4. QED
    BY <1>2, <1>3, <2>1, <2>2, <2>3 DEF RowsInv
<1>5. ASSUME NEW c \in OwnCounters
      PROVE  /\ copy.counts[c] = batch.counts[c]
             /\ batch'.counts[c] = IF c = d THEN batch.counts[c] + 1 ELSE batch.counts[c]
             /\ import'.copy.counts[c] = batch'.counts[c]
  <2>1. copy.counts[c] = batch.counts[c]
    BY DEF RowsInv
  <2>2. c \in Counters /\ (c \in cs <=> c = d)
    BY DEF OwnCounters, Counters
  <2>3. \A b \in Batches : Bumped(b, copy, cs).counts[c] =
          IF c \in cs THEN copy.counts[c] + 1 ELSE b.counts[c]
    BY <2>2 DEF Bumped, Batches
  <2>4. batch'.counts[c] = IF c \in cs THEN copy.counts[c] + 1 ELSE batch.counts[c]
    BY <1>1, <1>2, <2>3
  <2>5. import'.copy.counts[c] = IF c \in cs THEN copy.counts[c] + 1 ELSE copy.counts[c]
    BY <1>1, <1>2, <2>3
  <2>6. QED
    BY <2>1, <2>2, <2>4, <2>5
<1>6. ASSUME NEW c \in OwnCounters
      PROVE  batch'.counts[c] = Cardinality(Recorded(c)')
  <2>1. Recorded(c) \in SUBSET Rows /\ Row \notin Recorded(c)
    BY <1>2, <1>3 DEF Recorded
  <2>2. IsFiniteSet(Recorded(c)) /\ Cardinality(Recorded(c)) \in Nat
        /\ batch.counts[c] = Cardinality(Recorded(c))
    BY <2>1, RowsAreIds DEF RowsInv
  <2>3. Recorded(c)' = IF c = d THEN Recorded(c) \cup {Row} ELSE Recorded(c)
    <3>1. Recorded(c)' = {r \in Rows : imp'[r] = StatusOf(c)}
      BY DEF Recorded, StatusOf
    <3>2. \A r \in Rows : imp'[r] = IF r = Row THEN StatusOf(d) ELSE imp[r]
      BY <1>1, <1>2
    <3>3. CASE c = d
      BY <3>1, <3>2, <3>3 DEF Recorded
    <3>4. CASE c # d
      BY <1>2, <1>3, <3>1, <3>2, <3>4 DEF Recorded
    <3>5. QED
      BY <3>3, <3>4
  <2>4. Cardinality(Recorded(c) \cup {Row}) = Cardinality(Recorded(c)) + 1
    BY <2>1, <2>2, FS_AddElement
  <2>5. QED
    BY <1>5, <2>2, <2>3, <2>4
<1>7. import'.pc = "read"
  BY <1>1
<1>8. QED
  BY <1>4, <1>5, <1>6, <1>7 DEF RowsInv

(* The accounts of the import are kept by every step.                      *)
LEMMA RowsInvStep ==
    ASSUME RowsInv, [Next]_vars
    PROVE  RowsInv'
<1>1. ImportTypes' /\ ImportTypes
  BY TypesKept DEF RowsInv
<1>2. ASSUME import' = import, imp' = imp,
             \A c \in OwnCounters : batch'.counts[c] = batch.counts[c]
      PROVE  RowsInv'
  BY <1>1, <1>2 DEF RowsInv, Recorded, StatusOf
<1>3. ASSUME NEW ts, batch' = Recounted(ts), NEW c \in OwnCounters
      PROVE  batch'.counts[c] = batch.counts[c]
  BY <1>1, <1>3, RecountedKeeps DEF ImportTypes, OwnCounters
<1>4. CASE UNCHANGED <<import, batch, imp, test, worker, lease>>
  BY <1>2, <1>4
<1>5. CASE (ImportNew \/ ImportFinish \/ ImportAborts) /\ UNCHANGED rowVars
  <2>1. imp' = imp
    BY <1>5 DEF rowVars
  <2>2. CASE ImportNew \/ ImportAborts
    <3>1. /\ batch' = batch /\ import'.row = import.row /\ import'.copy = import.copy
          /\ import'.pc # "done"
      BY <1>1, <2>2 DEF ImportNew, ImportAborts, ImportTypes
    <3>2. QED
      BY <1>1, <2>1, <3>1 DEF RowsInv, Recorded, StatusOf
  <2>3. CASE ImportFinish
    <3>1. /\ batch'.counts = batch.counts /\ import'.row = import.row
          /\ import'.copy = batch' /\ import.row \notin Rows
      BY <1>1, <2>3 DEF ImportFinish, ImportTypes, Batches, Row
    <3>2. QED
      BY <1>1, <2>1, <3>1 DEF RowsInv, Recorded, StatusOf
  <2>4. QED
    BY <1>5, <2>2, <2>3
<1>6. CASE Commits
  <2>1. /\ StatusOf("error") = "ERROR" /\ StatusOf("skipped") = "SKIPPED"
        /\ StatusOf("imported") = "IMPORTED"
        /\ {"error"} \cap OwnCounters = {"error"}
        /\ {"skipped"} \cap OwnCounters = {"skipped"}
        /\ {"imported"} \cap OwnCounters = {"imported"}
        /\ {"imported", "pending"} \cap OwnCounters = {"imported"}
        /\ OwnCounters = {"imported", "skipped", "error"}
    BY DEF StatusOf, OwnCounters
  <2>2. QED
    BY <1>1, <1>6, <2>1, CommitCounts DEF Commits
<1>7. CASE LeasesMove
  BY <1>2, <1>7 DEF LeasesMove
<1>8. ASSUME NEW w \in Workers, UNCHANGED <<import, imp>>,
             \/ ClaimRows(w)
             \/ \E r \in Rows : Takes(w, r)
             \/ \E s \in Slots : Settles(w, s)
      PROVE  RowsInv'
  <2>1. \E ts : batch' = Recounted(ts)
    BY <1>8 DEF ClaimRows, Takes, TakeRow, Settles, SaveRow
  <2>2. QED
    BY <1>2, <1>3, <1>8, <2>1
<1>9. QED
  BY <1>1, <1>4, <1>5, <1>6, <1>7, <1>8, RowSteps

(* The request starts at the first row, with all counters 0.               *)
LEMMA RowsInvStart == Init => RowsInv
<1> SUFFICES ASSUME Init PROVE RowsInv
  OBVIOUS
<1>1. ImportTypes
  BY TypesStart
<1>2. /\ import.pc = "read" /\ import.row = 1 /\ import.copy = batch
      /\ \A c \in OwnCounters : batch.counts[c] = 0
  BY DEF Init, NewBatch, OwnCounters, Counters
<1>3. \A r \in Rows : imp[r] = "none" /\ r >= 1
  BY RowsAreIds DEF Init
<1>4. \A c \in OwnCounters : Recorded(c) = {}
  BY <1>3 DEF Recorded, StatusOf, OwnCounters
<1>5. QED
  BY <1>1, <1>2, <1>3, <1>4, FS_EmptySet DEF RowsInv

(* The counters of imported, skipped and rejected rows are the numbers of  *)
(* such rows after every commit, whatever workers write to the same row of *)
(* import_batches while the request goes on with its copy, and a finished  *)
(* import has recorded every row of the sheet.                             *)
THEOREM RowsAccountedHolds == Spec => []RowsAccounted
<1>1. Init => RowsInv
  BY RowsInvStart
<1>2. RowsInv /\ [Next]_vars => RowsInv'
  BY RowsInvStep
<1>3. RowsInv => RowsAccounted
  <2> SUFFICES ASSUME RowsInv PROVE RowsAccounted
    OBVIOUS
  <2>1. \A c \in OwnCounters : batch.counts[c] = Cardinality(Recorded(c))
    BY DEF RowsInv
  <2>2. ASSUME import.pc = "done", NEW r \in Rows
        PROVE  imp[r] # "none"
    <3>1. import.row \in 1..(N + 1) /\ import.row \notin 1..N /\ r \in 1..N /\ N \in Nat
      BY <2>2, RowsAreIds DEF RowsInv, ImportTypes
    <3>2. ~(r >= import.row)
      BY <3>1
    <3>3. QED
      BY <3>2 DEF RowsInv
  <2>3. QED
    BY <2>1, <2>2 DEF RowsAccounted, Recorded, StatusOf, OwnCounters
<1>4. QED
  BY <1>1, <1>2, <1>3, PTL DEF Spec

-----------------------------------------------------------------------------
(***************************************************************************)
(* Who writes a result.  _claim_specific writes a row that it has read     *)
(* before, so a row that a thread works on may have any result by then;    *)
(* it is one that the request has put up for a test, and a commit of the   *)
(* request never meets it.                                                 *)
(***************************************************************************)
Untested == "NOT_APPLICABLE"

TestedIsImported ==
    \A r \in Rows : test[r] # Untested =>
        imp[r] = "IMPORTED" /\ sheet[r].kind = "password"

ThreadsTested ==
    \A w \in Workers, s \in Slots :
        /\ ~At(w, s, "idle") => test[RowOf(w, s)] # Untested
        /\ \A r \in thread[w][s].found : test[r] # Untested

TestInv == RowsInv /\ TestedIsImported /\ ThreadsTested

(* A row the request is about to record has not been tested.               *)
LEMMA CommitIsFresh ==
    ASSUME TestInv, Commits
    PROVE  /\ Row \in Rows /\ test[Row] = Untested
           /\ \A r \in Rows \ {Row} : test'[r] = test[r] /\ imp'[r] = imp[r]
           /\ test'[Row] \in {Untested, "PENDING"}
           /\ test'[Row] = "PENDING" =>
                imp'[Row] = "IMPORTED" /\ sheet[Row].kind = "password"
<1>1. Row \in Rows /\ Row \in Nat /\ RowTypes
  BY RowsAreIds DEF Commits, TestInv, RowsInv, ImportTypes
<1>2. imp[Row] = "none"
  BY <1>1 DEF TestInv, RowsInv, Row
<1>3. test[Row] = Untested
  BY <1>1, <1>2 DEF TestInv, TestedIsImported
<1>4. PICK istatus, tstatus :
        /\ imp' = [imp EXCEPT ![Row] = istatus] /\ test' = [test EXCEPT ![Row] = tstatus]
        /\ tstatus \in {Untested, "PENDING"}
        /\ tstatus = "PENDING" => istatus = "IMPORTED" /\ sheet[Row].kind = "password"
  BY DEF Commits, CommitRow, Untested
<1>5. QED
  BY <1>1, <1>3, <1>4 DEF RowTypes

(* A thread that read the row before, and is about to take it.             *)
IsTaken(r) ==
    \E w \in Workers, s \in Slots :
        thread[w][s].pc \in {"taking", "retaking"} /\ RowOf(w, s) = r

(* What happens to the status of a test.                                   *)
LEMMA TestMoves ==
    ASSUME TestInv, [Next]_vars, NEW r \in Rows
    PROVE  /\ test[r] \in Settled /\ test'[r] # test[r] =>
                test'[r] = "RUNNING" /\ IsTaken(r)
           /\ test[r] = "RUNNING" /\ test'[r] \in Settled =>
                \E w \in Workers, s \in Slots : Settles(w, s) /\ RowOf(w, s) = r
           /\ test[r] # Untested => test'[r] # Untested
           /\ test'[r] # Untested => imp'[r] = "IMPORTED" /\ sheet'[r].kind = "password"
<1> USE DEF Settled, Untested
<1>1. /\ RowTypes /\ ImportTypes /\ TestedIsImported /\ ThreadsTested /\ sheet' = sheet
  BY InputsStay DEF TestInv, RowsInv, ImportTypes
<1>2. CASE UNCHANGED <<import, batch, imp, test, worker, lease>> \/ UNCHANGED rowVars
           \/ LeasesMove
  BY <1>1, <1>2 DEF rowVars, LeasesMove, TestedIsImported
<1>3. CASE Commits
  BY <1>1, <1>3, CommitIsFresh DEF TestedIsImported
<1>4. ASSUME NEW w \in Workers, ClaimRows(w)
      PROVE  /\ test[r] \in Settled \cup {Untested} => test'[r] = test[r]
             /\ test[r] \notin Settled => test'[r] \notin Settled
             /\ test[r] # Untested => test'[r] # Untested
  <2>1. \A q \in Claimable(w) \cup Expired : test[q] \in {"PENDING", "RUNNING"}
    BY DEF Claimable, Expired
  <2>2. test'[r] = IF r \in Claimable(w) THEN "RUNNING"
                   ELSE IF r \in Expired THEN "PENDING" ELSE test[r]
    BY <1>4 DEF ClaimRows
  <2>3. QED
    BY <2>1, <2>2
<1>5. ASSUME NEW w \in Workers, NEW q \in Rows, Takes(w, q)
      PROVE  /\ test'[r] # test[r] => test'[r] = "RUNNING" /\ IsTaken(r)
             /\ test[r] = Untested => test'[r] = test[r]
  <2>1. PICK s \in Slots : thread[w][s].pc \in {"taking", "retaking"} /\ RowOf(w, s) = q
    BY <1>5 DEF Takes
  <2>2. IsTaken(q) /\ test[q] # Untested
    BY <1>1, <2>1 DEF IsTaken, ThreadsTested, At
  <2>3. test'[r] = IF r = q THEN "RUNNING" ELSE test[r]
    BY <1>1, <1>5 DEF Takes, TakeRow, RowTypes
  <2>4. QED
    BY <2>2, <2>3
<1>6. ASSUME NEW w \in Workers, NEW s \in Slots, Settles(w, s)
      PROVE  /\ test'[r] # test[r] => test[r] = "RUNNING" /\ RowOf(w, s) = r
             /\ test[r] # Untested => test'[r] # Untested
  <2>1. test[RowOf(w, s)] = "RUNNING"
    BY <1>6 DEF Settles, Owns, Live
  <2>2. RowOf(w, s) # r => test'[r] = test[r]
    BY <1>1, <1>6 DEF Settles, SaveRow, RowTypes
  <2>3. thread[w][s].result \in Settled
    BY <1>1 DEF ImportTypes, ThreadTypes, ThreadType
  <2>4. RowOf(w, s) = r => test'[r] \in Settled
    BY <1>1, <1>6, <2>3 DEF Settles, SaveRow, RowTypes
  <2>5. QED
    BY <2>1, <2>2, <2>4
<1>7. ASSUME NEW w \in Workers, UNCHANGED <<import, imp>>,
             ClaimRows(w) \/ \E q \in Rows : Takes(w, q)
      PROVE  /\ test[r] \in Settled /\ test'[r] # test[r] =>
                  test'[r] = "RUNNING" /\ IsTaken(r)
             /\ test[r] = "RUNNING" => test'[r] \notin Settled
             /\ test[r] # Untested => test'[r] # Untested
             /\ test'[r] # Untested => imp'[r] = "IMPORTED" /\ sheet'[r].kind = "password"
  BY <1>1, <1>4, <1>5, <1>7 DEF TestedIsImported
<1>8. ASSUME NEW w \in Workers, NEW s \in Slots, Settles(w, s), UNCHANGED <<import, imp>>
      PROVE  /\ test[r] \in Settled => test'[r] = test[r]
             /\ test'[r] # test[r] => Settles(w, s) /\ RowOf(w, s) = r
             /\ test[r] # Untested => test'[r] # Untested
             /\ test'[r] # Untested => imp'[r] = "IMPORTED" /\ sheet'[r].kind = "password"
  BY <1>1, <1>6, <1>8 DEF TestedIsImported
<1>9. QED
  BY <1>1, <1>2, <1>3, <1>7, <1>8, RowSteps

(* A thread keeps its row until it is idle, and a row is submitted when a  *)
(* claim makes it RUNNING; the rows to scan are those that have succeeded. *)
LEMMA ThreadMoves ==
    ASSUME ImportTypes, [Next]_vars, NEW v \in Workers, NEW u \in Slots
    PROVE  /\ thread'[v][u].pc # "idle" =>
                \/ thread[v][u].pc # "idle" /\ thread'[v][u].row = thread[v][u].row
                \/ thread'[v][u].row \in Rows /\ test'[thread'[v][u].row] = "RUNNING"
           /\ \A r \in thread'[v][u].found :
                r \in thread[v][u].found \/ (r \in Rows /\ test[r] = "SUCCESS")
<1> USE DEF importVars, rowVars, idVars
<1> DEFINE old == thread[v][u]
           new == thread'[v][u]
           Goal == /\ new.pc # "idle" =>
                        \/ old.pc # "idle" /\ new.row = old.row
                        \/ new.row \in Rows /\ test'[new.row] = "RUNNING"
                   /\ \A r \in new.found :
                        r \in old.found \/ (r \in Rows /\ test[r] = "SUCCESS")
<1>1. thread \in [Workers -> [Slots -> ThreadType]] /\ old \in ThreadType
  BY DEF ImportTypes, ThreadTypes
<1>2. IdleThread.pc = "idle" /\ IdleThread.found = {}
  BY DEF IdleThread
<1>3. ASSUME new = old
      PROVE  Goal
  BY <1>3
<1>4. ASSUME NEW w \in Workers, NEW s \in Slots, NEW t, Goto(w, s, t)
      PROVE  new = old \/ (w = v /\ s = u /\ new = t)
  <2>1. thread' = [thread EXCEPT ![w][s] = t]
    BY <1>4 DEF Goto
  <2>2. thread'[v][u] = IF v = w /\ u = s THEN t ELSE thread[v][u]
    BY <1>1, <2>1
  <2>3. QED
    BY <2>2
<1>5. ASSUME NEW w \in Workers, NEW s \in Slots, EndTest(w, s)
      PROVE  Goal
  <2>1. new = old \/ new = IdleThread
    BY <1>4, <1>5 DEF EndTest
  <2>2. QED
    BY <1>2, <2>1
<1>6. ASSUME NEW w \in Workers, NEW s \in Slots, ThreadSteps(w, s) \/ ThreadFaults(w, s)
      PROVE  Goal
  <2> DEFINE t == thread[w][s]
  <2>1. t \in ThreadType
    BY <1>1
  <2>2. ASSUME NEW pc, Goto(w, s, [t EXCEPT !.pc = pc]), t.pc # "idle"
        PROVE  Goal
    <3>1. new = old \/ (old = t /\ new = [t EXCEPT !.pc = pc])
      BY <1>4, <2>2
    <3>2. QED
      BY <2>1, <2>2, <3>1 DEF ThreadType
  <2>3. ASSUME NEW result, Goto(w, s, [t EXCEPT !.pc = "saving", !.result = result]),
               t.pc # "idle"
        PROVE  Goal
    <3>1. new = old \/ (old = t /\ new = [t EXCEPT !.pc = "saving", !.result = result])
      BY <1>4, <2>3
    <3>2. QED
      BY <2>1, <2>3, <3>1 DEF ThreadType
  <2>4. ASSUME Excepted(w, s), t.pc # "idle"
        PROVE  Goal
    <3>1. \/ new = old
          \/ old = t /\ new = [t EXCEPT !.pc = "failed", !.result = "FAILED", !.found = {}]
      BY <1>4, <2>4 DEF Excepted
    <3>2. QED
      BY <2>1, <2>4, <3>1 DEF ThreadType
  <2>5. CASE Load(w, s) \/ TakeSpecific(w, s) \/ Save(w, s)
    BY <1>5, <2>2, <2>5 DEF Load, TakeSpecific, Save, At
  <2>6. CASE Reread(w, s) \/ Retake(w, s) \/ SaveFailed(w, s)
    BY <1>5, <2>2, <2>6 DEF Reread, Retake, SaveFailed, At
  <2>7. CASE FinishTest(w, s)
    BY <1>5, <2>3, <2>7 DEF FinishTest, At
  <2>8. CASE FindSuccesses(w, s)
    <3> DEFINE found == {r \in Rows : test[r] = "SUCCESS"}
    <3>1. CASE EndTest(w, s)
      BY <1>5, <3>1
    <3>2. CASE Goto(w, s, [t EXCEPT !.pc = "creating", !.found = found])
      <4>1. new = old \/ (old = t /\ new = [t EXCEPT !.pc = "creating", !.found = found])
        BY <1>4, <3>2
      <4>2. t.pc # "idle"
        BY <2>8 DEF FindSuccesses, At
      <4>3. \A r \in found : r \in Rows /\ test[r] = "SUCCESS"
        OBVIOUS
      <4> HIDE DEF found
      <4>4. QED
        BY <2>1, <4>1, <4>2, <4>3 DEF ThreadType
    <3>3. QED
      BY <2>8, <3>1, <3>2 DEF FindSuccesses
  <2>9. CASE CreateScanBatch(w, s) \/ SaveRaises(w, s) \/ CallbackFails(w, s)
    BY <1>5, <2>4, <2>9 DEF CreateScanBatch, SaveRaises, CallbackFails, At
  <2>10. CASE ClaimFails(w, s) \/ SaveUnanswered(w, s)
    BY <1>5, <2>10 DEF ClaimFails, SaveUnanswered
  <2>11. QED
    BY <1>6, <2>5, <2>6, <2>7, <2>8, <2>9, <2>10 DEF ThreadSteps, ThreadFaults
<1>7. ASSUME NEW w \in Workers, Claim(w)
      PROVE  Goal
  <2>1. PICK run \in [Claimable(w) -> Idle(w)] :
          thread' = [thread EXCEPT ![w] = [s \in Slots |->
              IF \E r \in Claimable(w) : run[r] = s
              THEN [IdleThread EXCEPT !.pc = "submitted",
                      !.row = CHOOSE r \in Claimable(w) : run[r] = s]
              ELSE thread[w][s]]]
    BY <1>7 DEF Claim
  <2> DEFINE row == CHOOSE r \in Claimable(w) : run[r] = u
  <2>2. \/ new = old
        \/ /\ \E r \in Claimable(w) : run[r] = u
           /\ new = [IdleThread EXCEPT !.pc = "submitted", !.row = row]
    BY <1>1, <2>1
  <2>3. (\E r \in Claimable(w) : run[r] = u) => row \in Claimable(w)
    OBVIOUS
  <2> HIDE DEF row
  <2>4. \A r \in Claimable(w) : r \in Rows /\ test'[r] = "RUNNING"
    <3>1. Claimable(w) \subseteq Rows
      BY DEF Claimable, Expired
    <3>2. QED
      BY <1>7, <3>1 DEF Claim, ClaimRows
  <2>5. QED
    BY <2>2, <2>3, <2>4 DEF IdleThread
<1>8. ASSUME NEW w \in Workers, Crash(w)
      PROVE  Goal
  <2>1. new = old \/ new = IdleThread
    BY <1>1, <1>8 DEF Crash
  <2>2. QED
    BY <1>2, <2>1
<1>9. CASE ImportSteps \/ ImportAborts \/ OtherCreates \/ Tick \/ UNCHANGED vars
  <2>1. thread' = thread
    BY <1>9 DEF ImportSteps, ImportInvalid, ImportDuplicate, ImportNew, ImportInsert,
       ImportConflict, ImportFinish, ImportAborts, OtherCreates, Tick, CommitRow, vars
  <2>2. QED
    BY <2>1
<1>10. ASSUME NEW w \in Workers,
              \/ ClaimUnanswered(w) \/ Renew(w) \/ ApplyLost(w)
              \/ Shutdown(w) \/ ShutdownEnds(w)
       PROVE  Goal
  <2>1. thread' = thread
    BY <1>10 DEF ClaimUnanswered, Renew, ApplyLost, Shutdown, ShutdownEnds
  <2>2. QED
    BY <2>1
<1>11. QED
  BY <1>6, <1>7, <1>8, <1>9, <1>10 DEF Next

(* Threads work only on rows that the request has put up for a test.       *)
LEMMA TestInvStep ==
    ASSUME TestInv, [Next]_vars
    PROVE  TestInv'
<1>1. RowsInv' /\ ImportTypes /\ ThreadsTested
  BY RowsInvStep DEF TestInv, RowsInv
<1>2. TestedIsImported'
  BY TestMoves DEF TestedIsImported
<1>3. ThreadsTested'
  <2> SUFFICES ASSUME NEW w \in Workers, NEW s \in Slots
               PROVE  /\ thread'[w][s].pc # "idle" => test'[thread'[w][s].row] # Untested
                      /\ \A r \in thread'[w][s].found : test'[r] # Untested
    BY DEF ThreadsTested, At, RowOf, Untested
  <2>1. thread[w][s].pc # "idle" =>
          thread[w][s].row \in Rows /\ test[thread[w][s].row] # Untested
    BY <1>1 DEF ThreadsTested, ImportTypes, ThreadTypes, At, RowOf
  <2>2. \A r \in thread[w][s].found : r \in Rows /\ test[r] # Untested
    BY <1>1 DEF ThreadsTested, ImportTypes, ThreadTypes, ThreadType
  <2>3. \A r \in Rows : test[r] # Untested => test'[r] # Untested
    BY TestMoves
  <2>4. thread'[w][s].pc # "idle" => test'[thread'[w][s].row] # Untested
    BY <1>1, <2>1, <2>3, ThreadMoves DEF Untested
  <2>5. \A r \in thread'[w][s].found : test'[r] # Untested
    BY <1>1, <2>2, <2>3, ThreadMoves DEF Untested
  <2>6. QED
    BY <2>4, <2>5
<1>4. QED
  BY <1>1, <1>2, <1>3 DEF TestInv

(* The inductive invariant of the tests.                                   *)
LEMMA TestInvHolds == Spec => []TestInv
<1>1. Init => RowsInv
  BY RowsInvStart
<1>2. Init => TestedIsImported
  BY DEF Init, TestedIsImported, Untested
<1>3. Init => ThreadsTested
  BY DEF Init, ThreadsTested, At, IdleThread
<1>4. TestInv /\ [Next]_vars => TestInv'
  BY TestInvStep
<1>5. QED
  BY <1>1, <1>2, <1>3, <1>4, PTL DEF Spec, TestInv

(* For every number of processes, threads, rows and faults a running test  *)
(* is settled only by a thread of the process that holds its live lease    *)
(* (_save_result_for_worker), and a settled row is touched again only by a *)
(* thread in the middle of _claim_specific, which makes it RUNNING.  No    *)
(* assumption is made on how long that thread waits for the lock.          *)
THEOREM SettledByOwnerHolds == Spec => SettledByOwner
<1> DEFINE Step == \A r \in Rows :
        /\ test[r] = "RUNNING" /\ test'[r] \in Settled =>
             \E s \in Slots : /\ thread[worker[r]][s].pc \in {"saving", "failing"}
                              /\ RowOf(worker[r], s) = r /\ lease[r] > 0
        /\ test[r] \in Settled /\ test'[r] # test[r] =>
             /\ test'[r] = "RUNNING"
             /\ \E w \in Workers, s \in Slots :
                  thread[w][s].pc \in {"taking", "retaking"} /\ RowOf(w, s) = r
<1>1. TestInv /\ [Next]_vars => Step
  <2> SUFFICES ASSUME TestInv, [Next]_vars PROVE Step
    OBVIOUS
  <2>1. ASSUME NEW r \in Rows, test[r] = "RUNNING", test'[r] \in Settled
        PROVE  \E s \in Slots : /\ thread[worker[r]][s].pc \in {"saving", "failing"}
                                /\ RowOf(worker[r], s) = r /\ lease[r] > 0
    <3>1. PICK w \in Workers, s \in Slots : Settles(w, s) /\ RowOf(w, s) = r
      BY <2>1, TestMoves
    <3>2. worker[r] = w /\ lease[r] > 0 /\ thread[w][s].pc \in {"saving", "failing"}
      BY <3>1 DEF Settles, Owns, Live
    <3>3. QED
      BY <3>1, <3>2
  <2>2. ASSUME NEW r \in Rows, test[r] \in Settled, test'[r] # test[r]
        PROVE  /\ test'[r] = "RUNNING"
               /\ \E w \in Workers, s \in Slots :
                    thread[w][s].pc \in {"taking", "retaking"} /\ RowOf(w, s) = r
    BY <2>2, TestMoves DEF IsTaken
  <2>3. QED
    BY <2>1, <2>2
<1>2. QED
  BY <1>1, TestInvHolds, PTL DEF Spec, SettledByOwner

-----------------------------------------------------------------------------
(***************************************************************************)
(* The first scan.  A thread reads the successes, and creates the batch    *)
(* later: the rows it has read may be tested again by then, but they stay  *)
(* rows of this import.                                                    *)
(***************************************************************************)
Ours(F) == \A r \in F : r \in Rows /\ test[r] # Untested

ScannedOnce == scans = <<>> \/ \E F \in SUBSET Rows : scans = <<F>> /\ Ours(F)

(* Only CreateScanBatch writes scan_batches here.                          *)
LEMMA ScansStep ==
    ASSUME [Next]_vars
    PROVE  \/ scans' = scans
           \/ \E w \in Workers, s \in Slots :
                scans = <<>> /\ scans' = <<thread[w][s].found>>
<1> USE DEF importVars, rowVars, idVars
<1>1. CASE ImportSteps \/ ImportAborts \/ OtherCreates \/ Tick \/ UNCHANGED vars
  BY <1>1 DEF ImportSteps, ImportInvalid, ImportDuplicate, ImportNew, ImportInsert,
       ImportConflict, ImportFinish, ImportAborts, OtherCreates, Tick, CommitRow, vars
<1>2. ASSUME NEW w \in Workers,
             \/ Claim(w) \/ ClaimUnanswered(w) \/ Renew(w) \/ ApplyLost(w)
             \/ Shutdown(w) \/ ShutdownEnds(w) \/ Crash(w)
      PROVE  scans' = scans
  BY <1>2 DEF Claim, ClaimUnanswered, Renew, ApplyLost, Shutdown, ShutdownEnds, Crash
<1>3. ASSUME NEW w \in Workers, NEW s \in Slots,
             ThreadSteps(w, s) \/ ThreadFaults(w, s), ~CreateScanBatch(w, s)
      PROVE  scans' = scans
  BY <1>3 DEF ThreadSteps, ThreadFaults, Load, TakeSpecific, FinishTest, Save, Reread,
     Retake, SaveFailed, FindSuccesses, ClaimFails, SaveUnanswered, SaveRaises, CallbackFails
<1>4. ASSUME NEW w \in Workers, NEW s \in Slots, CreateScanBatch(w, s)
      PROVE  \/ scans' = scans
             \/ scans = <<>> /\ scans' = <<thread[w][s].found>>
  BY <1>4 DEF CreateScanBatch
<1>5. QED
  BY <1>1, <1>2, <1>3, <1>4 DEF Next

(* For every number of processes, threads and rows an import leads to at   *)
(* most one scan batch, and that batch scans devices only that this import *)
(* brought in with a password (create_import_scan_batch), although results *)
(* may change between its query and its commit.                            *)
THEOREM OneFirstScanHolds == Spec => []OneFirstScan
<1>1. Init => ScannedOnce
  BY DEF Init, ScannedOnce
<1>2. TestInv /\ ScannedOnce /\ [Next]_vars => ScannedOnce'
  <2> SUFFICES ASSUME TestInv, ScannedOnce, [Next]_vars
               PROVE  ScannedOnce'
    OBVIOUS
  <2>1. ThreadsTested /\ thread \in [Workers -> [Slots -> ThreadType]]
    BY DEF TestInv, RowsInv, ImportTypes, ThreadTypes
  <2>2. ASSUME NEW F, Ours(F) PROVE Ours(F)'
    BY <2>2, TestMoves DEF Ours, Untested
  <2>3. CASE scans' = scans
    BY <2>2, <2>3 DEF ScannedOnce
  <2>4. ASSUME NEW w \in Workers, NEW s \in Slots, scans = <<>>,
               scans' = <<thread[w][s].found>>
        PROVE  ScannedOnce'
    <3>1. thread[w][s].found \in SUBSET Rows /\ Ours(thread[w][s].found)
      BY <2>1 DEF ThreadsTested, ThreadType, Ours
    <3>2. PICK F \in SUBSET Rows : scans' = <<F>> /\ Ours(F)
      BY <2>4, <3>1
    <3>3. Ours(F)'
      BY <2>2, <3>2
    <3>4. QED
      BY <3>2, <3>3 DEF ScannedOnce
  <2>5. QED
    BY <2>3, <2>4, ScansStep
<1>3. TestInv /\ ScannedOnce => OneFirstScan
  <2> SUFFICES ASSUME TestInv, ScannedOnce PROVE OneFirstScan
    OBVIOUS
  <2>1. CASE scans = <<>>
    BY <2>1 DEF OneFirstScan
  <2>2. ASSUME NEW F \in SUBSET Rows, scans = <<F>>, Ours(F)
        PROVE  OneFirstScan
    <3>1. Len(scans) = 1 /\ DOMAIN scans = {1} /\ scans[1] = F
      BY <2>2
    <3>2. QED
      BY <2>2, <3>1 DEF OneFirstScan, Ours, TestInv, TestedIsImported
  <2>3. QED
    BY <2>1, <2>2 DEF ScannedOnce
<1>4. QED
  BY <1>1, <1>2, <1>3, TestInvHolds, PTL DEF Spec

=============================================================================
