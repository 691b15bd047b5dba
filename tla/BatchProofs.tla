---------------------------- MODULE BatchProofs ----------------------------
(***************************************************************************)
(* Proofs about scan batches and the queue (ScanBatches), for every number *)
(* of devices, tasks, batches, processes and threads, with devices deleted *)
(* at any time.                                                            *)
(*                                                                         *)
(* A step writes the tables only at a commit; all others change one open   *)
(* transaction.  The invariant says what an open transaction may rely on   *)
(* (TxOK), given that two transactions never lock the same task or have    *)
(* recounted the same batch (Apart).                                       *)
(***************************************************************************)
EXTENDS ScanBatches, FiniteSetTheorems, TLAPS

TaskRow == [device : Devices \cup {0}, status : RowStates, priority : Priorities \cup {0}]
ItemRow == [task : TaskIds \cup {NoTask}, status : RowStates]
SeenRow == [id : TaskIds \cup {NoTask}, status : RowStates, priority : Priorities \cup {0}]
TxRow   == [op : {"idle", "claim", "settle", "enqueue", "batch", "cancel", "delete"},
            devices : SUBSET Devices, seen : [Devices -> SeenRow],
            priority : Priorities \cup {0}, rows : [TaskIds -> RowStates],
            todo : SUBSET BatchIds, counts : [BatchIds -> CountType]]

tables == <<device, task, item, batch, nextTask, nextBatch>>

TableTypes ==
    /\ device \subseteq Devices
    /\ task \in [TaskIds -> TaskRow]
    /\ item \in [BatchIds -> [Devices -> ItemRow]]
    /\ batch \in [BatchIds -> CountType]
    /\ nextTask \in 1..(MaxTasks + 1)
    /\ nextBatch \in 1..(MaxBatches + 1)

(* Ids are used in order, and an item refers to a task of its own device.  *)
TablesLinked ==
    /\ \A t \in TaskIds : t >= nextTask => task[t].status = "none"
    /\ \A b \in BatchIds : b >= nextBatch =>
          batch[b] = NoCount /\ \A d \in Devices : item[b][d].status = "none"
    /\ \A b \in BatchIds, d \in Devices : item[b][d].status # "none" =>
          /\ item[b][d].task \in TaskIds
          /\ task[item[b][d].task].status # "none"
          /\ task[item[b][d].task].device = d

(* The counters c fit the statuses st of the items.  When an item is gone  *)
(* they may count it, but never report completion too early.               *)
Fits(c, st) ==
    /\ (\A d \in Devices : st[d] # "gone") => c = Tally(st)
    /\ c.status = "COMPLETED" => \A d \in Devices : st[d] \notin Active

CountersFit ==
    \A b \in BatchIds : batch[b].status # "none" =>
        Fits(batch[b], [d \in Devices |-> item[b][d].status])

(* An item is settled as its task is.                                      *)
SettledAlike ==
    \A b \in BatchIds, d \in Devices : item[b][d].status \in Settled =>
        task[item[b][d].task].status = item[b][d].status

TablesOK == TableTypes /\ TablesLinked /\ CountersFit /\ SettledAlike

(* What holds of an open transaction q.                                    *)
Locks(q, t)   == q.rows[t] # "none"
Counted(q, b) == q.counts[b] # NoCount
Sees(q, b, d) == IF item[b][d].status \in Statuses /\ Locks(q, item[b][d].task)
                 THEN q.rows[item[b][d].task] ELSE item[b][d].status

(* The tasks it has locked stay as they were.                              *)
LocksOK(q) ==
    /\ \A t \in TaskIds : Locks(q, t) =>
          /\ q.rows[t] \in Statuses /\ task[t].status \in Statuses
          /\ q.rows[t] \in Active => task[t].status \in Active
    /\ (\A t \in TaskIds : ~Locks(q, t)) => q.todo = {} /\ \A b \in BatchIds : ~Counted(q, b)

(* What it has counted stays true until it commits.                        *)
RecountsOK(q) ==
    \A b \in BatchIds :
        /\ b \in q.todo \/ Counted(q, b) => b < nextBatch
        /\ Counted(q, b) => Fits(q.counts[b], [d \in Devices |-> Sees(q, b, d)])

(* A claim or settlement recounts every batch whose items it changes.      *)
Covers(q) ==
    \A b \in BatchIds, d \in Devices :
        /\ item[b][d].status \in Statuses
        /\ item[b][d].task \in TaskIds /\ Locks(q, item[b][d].task)
        => b \in q.todo \/ Counted(q, b)

(* What a request has read, and the one device that a deletion is about.   *)
RequestOK(q) ==
    /\ q.op \in {"idle", "enqueue", "batch", "cancel", "delete"}
    /\ \A d \in Devices : q.seen[d].id # NoTask =>
          /\ task[q.seen[d].id].status # "none"
          /\ task[q.seen[d].id].device = d
          /\ q.seen[d].status \in Active
    /\ \A d \in Devices \ q.devices : q.seen[d] = NoRow
    /\ q.op \in {"cancel", "delete"} => \E d \in Devices : q.devices = {d}
    /\ \A t \in TaskIds : Locks(q, t) => task[t].device \in q.devices
    /\ \A b \in BatchIds : b \in q.todo \/ Counted(q, b) =>
          \A d \in q.devices : item[b][d].status # "none"

TxOK(a, q) ==
    /\ q \in TxRow
    /\ LocksOK(q) /\ RecountsOK(q)
    /\ a \in Requests => RequestOK(q)
    /\ a \in Sessions => q.op \in {"idle", "claim", "settle"} /\ Covers(q)

Apart(p, q) ==
    /\ \A t \in TaskIds : ~(Locks(p, t) /\ Locks(q, t))
    /\ \A b \in BatchIds : ~(Counted(p, b) /\ Counted(q, b))

BatchInv ==
    /\ TablesOK
    /\ tx \in [Actors -> TxRow]
    /\ \A a \in Actors : TxOK(a, tx[a])
    /\ \A a, c \in Actors : a # c => Apart(tx[a], tx[c])

-----------------------------------------------------------------------------
(***************************************************************************)
(* The helpers.                                                            *)
(***************************************************************************)
LEMMA Finite ==
    ASSUME NEW D \in SUBSET Devices
    PROVE  IsFiniteSet(D) /\ Cardinality(D) \in Nat
BY DevicesAssumption, FS_Subset, FS_CardinalityType

(* A recount is a row of counters, is never the absence of one, and        *)
(* reports completion only when nothing waits or runs.                     *)
LEMMA TallyFits ==
    ASSUME NEW st
    PROVE  /\ Tally(st) \in CountType /\ Tally(st) # NoCount
           /\ Tally(st).status # "none"
           /\ Fits(Tally(st), st)
<1> DEFINE in(S) == {d \in Devices : st[d] \in S}
           pending == Cardinality(in({"PENDING"}))
           running == Cardinality(in({"RUNNING"}))
           success == Cardinality(in({"SUCCESS"}))
           failed  == Cardinality(in({"FAILED", "CANCELLED"}))
           status  == BatchStatus(pending, running, success + failed)
<1>1. \A S : in(S) \in SUBSET Devices
  OBVIOUS
<1>2. \A S : IsFiniteSet(in(S)) /\ Cardinality(in(S)) \in Nat
  <2> HIDE DEF in
  <2>1. QED
    BY <1>1, Finite
<1>3. pending \in Nat /\ running \in Nat /\ success \in Nat /\ failed \in Nat
  <2> HIDE DEF in
  <2>1. QED
    BY <1>2
<1>4. Tally(st) = [status |-> status, pending |-> pending, running |-> running,
                   success |-> success, failed |-> failed]
  BY DEF Tally
<1>5. ASSUME pending = 0, running = 0, NEW d \in Devices
      PROVE  st[d] \notin Active
  <2>1. in({"PENDING"}) = {} /\ in({"RUNNING"}) = {}
    <3> HIDE DEF in
    <3>1. QED
      BY <1>2, <1>5, FS_EmptySet
  <2>2. QED
    BY <2>1 DEF Active
<1> HIDE DEF pending, running, success, failed, in
<1>6. /\ status \in {"PENDING", "RUNNING", "COMPLETED"}
      /\ status = "COMPLETED" => pending = 0 /\ running = 0
  BY <1>3 DEF BatchStatus
<1> HIDE DEF status
<1>7. Tally(st) \in CountType /\ Tally(st).status = status
  BY <1>3, <1>4, <1>6 DEF CountType
<1>8. NoCount.status = "none"
  BY DEF NoCount
<1>9. QED
  BY <1>5, <1>6, <1>7, <1>8 DEF Fits

(* The ids that the sequence gives to new tasks are new and distinct.      *)
LEMMA NewIds ==
    ASSUME NEW fresh \in SUBSET Devices, NEW n \in Nat
    PROVE  /\ \A d \in fresh :
                /\ n + Cardinality({e \in fresh : e < d}) \in Nat
                /\ n <= n + Cardinality({e \in fresh : e < d})
                /\ n + Cardinality({e \in fresh : e < d}) < n + Cardinality(fresh)
           /\ \A c, d \in fresh :
                n + Cardinality({e \in fresh : e < c}) = n + Cardinality({e \in fresh : e < d})
                => c = d
<1> DEFINE below(d) == {e \in fresh : e < d}
<1>1. \A d : below(d) \in SUBSET fresh
  OBVIOUS
<1>2. \A d \in fresh : d \in Nat
  BY DevicesAssumption
<1>3. \A d \in fresh : d \notin below(d)
  BY <1>2
<1>4. \A c, d \in fresh : c < d => below(c) \in SUBSET below(d) /\ c \in below(d)
  BY <1>2
<1> HIDE DEF below
<1>5. /\ IsFiniteSet(fresh) /\ Cardinality(fresh) \in Nat
      /\ \A d : IsFiniteSet(below(d)) /\ Cardinality(below(d)) \in Nat
  BY <1>1, Finite
<1>6. ASSUME NEW d \in fresh PROVE Cardinality(below(d)) < Cardinality(fresh)
  <2>1. Cardinality(below(d)) <= Cardinality(fresh)
    BY <1>1, <1>5, FS_Subset
  <2>2. Cardinality(below(d)) # Cardinality(fresh)
    BY <1>1, <1>3, <1>5, <1>6, FS_Subset
  <2>3. QED
    BY <1>5, <2>1, <2>2
<1>7. ASSUME NEW c \in fresh, NEW d \in fresh, c < d
      PROVE  Cardinality(below(c)) # Cardinality(below(d))
  BY <1>3, <1>4, <1>5, <1>7, FS_Subset
<1>8. ASSUME NEW c \in fresh, NEW d \in fresh, Cardinality(below(c)) = Cardinality(below(d))
      PROVE  c = d
  BY <1>2, <1>7, <1>8
<1>9. \A d \in fresh : /\ n + Cardinality(below(d)) \in Nat /\ n <= n + Cardinality(below(d))
                       /\ n + Cardinality(below(d)) < n + Cardinality(fresh)
  BY <1>5, <1>6
<1>10. \A c, d \in fresh : n + Cardinality(below(c)) = n + Cardinality(below(d)) => c = d
  BY <1>5, <1>8
<1>11. QED
  BY <1>9, <1>10 DEF below

(* The query for the active task of a device.                              *)
LEMMA ActiveTaskFound ==
    ASSUME TableTypes, NEW d \in Devices
    PROVE  /\ ActiveTask(d) \in SeenRow
           /\ ActiveTask(d).id = NoTask => ActiveTask(d) = NoRow
           /\ ActiveTask(d).id # NoTask =>
                /\ ActiveTask(d).id \in TaskIds
                /\ task[ActiveTask(d).id].device = d
                /\ task[ActiveTask(d).id].status \in Active
                /\ ActiveTask(d).status = task[ActiveTask(d).id].status
                /\ ActiveTask(d).priority = task[ActiveTask(d).id].priority
           /\ ActiveTask(d) = NoRow => \A t \in TaskIds :
                task[t].status \in Active => task[t].device # d
<1> DEFINE own == {t \in ActiveTasks : task[t].device = d}
<1>1. NoRow \in SeenRow /\ NoRow.id = NoTask
  BY DEF NoRow, SeenRow, RowStates
<1>2. \A t \in TaskIds : t # NoTask
  BY DEF TaskIds, NoTask
<1>3. CASE own = {}
  <2>1. ActiveTask(d) = NoRow
    BY <1>3 DEF ActiveTask
  <2>2. QED
    BY <1>1, <1>3, <2>1 DEF ActiveTasks
<1>4. CASE own # {}
  <2>1. PICK t \in own : ActiveTask(d) = [id |-> t, status |-> task[t].status,
                                          priority |-> task[t].priority]
    BY <1>4 DEF ActiveTask
  <2>2. /\ t \in TaskIds /\ task[t].status \in Active /\ task[t].device = d
        /\ task[t] \in TaskRow
    BY <2>1 DEF ActiveTasks, TableTypes
  <2>3. ActiveTask(d) \in SeenRow /\ ActiveTask(d).id = t
    BY <2>1, <2>2 DEF SeenRow, TaskRow
  <2>4. ActiveTask(d) # NoRow
    BY <1>1, <1>2, <2>2, <2>3
  <2>5. QED
    BY <1>2, <2>1, <2>2, <2>3, <2>4
<1>5. QED
  BY <1>3, <1>4

-----------------------------------------------------------------------------
(***************************************************************************)
(* Steps that change only one open transaction.                            *)
(***************************************************************************)
LEMMA TypesOfIdle == IdleTx \in TxRow /\ NoCount \in CountType
<1>1. NoCount \in CountType
  BY DEF NoCount, CountType
<1>2. NoRow \in SeenRow
  BY DEF NoRow, SeenRow, RowStates, NoTask
<1>3. [d \in Devices |-> NoRow] \in [Devices -> SeenRow]
  BY <1>2
<1>4. [b \in BatchIds |-> NoCount] \in [BatchIds -> CountType]
  BY <1>1
<1>5. [t \in TaskIds |-> "none"] \in [TaskIds -> RowStates]
  BY DEF RowStates
<1>6. QED
  BY <1>1, <1>3, <1>4, <1>5 DEF IdleTx, TxRow

(* No transaction is always all right, before a step and after it.         *)
LEMMA IdleIsOK ==
    /\ \A a \in Actors : TxOK(a, IdleTx) /\ TxOK(a, IdleTx)'
    /\ \A q : Apart(IdleTx, q) /\ Apart(q, IdleTx)
<1>1. /\ \A t \in TaskIds : ~Locks(IdleTx, t)
      /\ \A b \in BatchIds : ~Counted(IdleTx, b)
      /\ IdleTx.todo = {} /\ IdleTx.devices = {} /\ IdleTx.op = "idle"
      /\ \A d \in Devices : IdleTx.seen[d] = NoRow /\ NoRow.id = NoTask
  BY DEF IdleTx, Locks, Counted, NoRow
<1>2. \A q : Apart(IdleTx, q) /\ Apart(q, IdleTx)
  BY <1>1 DEF Apart
<1>3. LocksOK(IdleTx) /\ RecountsOK(IdleTx) /\ RequestOK(IdleTx) /\ Covers(IdleTx)
  BY <1>1 DEF LocksOK, RecountsOK, RequestOK, Covers
<1>4. (LocksOK(IdleTx) /\ RecountsOK(IdleTx) /\ RequestOK(IdleTx) /\ Covers(IdleTx))'
  BY <1>1 DEF LocksOK, RecountsOK, RequestOK, Covers, Locks, Counted
<1>5. QED
  BY <1>1, <1>2, <1>3, <1>4, TypesOfIdle DEF TxOK

(* A step of one transaction keeps the invariant when the transaction is   *)
(* all right after it and apart from the others.                           *)
LEMMA TxStep ==
    ASSUME BatchInv, NEW a \in Actors, NEW q, UNCHANGED tables,
           tx' = [tx EXCEPT ![a] = q], TxOK(a, q),
           \A c \in Actors \ {a} : Apart(q, tx[c])
    PROVE  BatchInv'
<1> USE DEF tables
<1>1. TablesOK'
  BY DEF BatchInv, TablesOK, TableTypes, TablesLinked, CountersFit, SettledAlike
<1>2. q \in TxRow /\ tx' \in [Actors -> TxRow]
  BY DEF BatchInv, TxOK
<1>3. \A c \in Actors : tx'[c] = IF c = a THEN q ELSE tx[c]
  BY DEF BatchInv
<1>4. \A c \in Actors : TxOK(c, tx'[c])
  BY <1>3 DEF BatchInv
<1>5. \A c \in Actors : TxOK(c, tx[c])'
  BY <1>4 DEF TxOK, LocksOK, RecountsOK, RequestOK, Covers, Sees
<1>6. \A c, e \in Actors : c # e => Apart(tx'[c], tx'[e])
  BY <1>3 DEF BatchInv, Apart
<1>7. QED
  BY <1>1, <1>2, <1>5, <1>6 DEF BatchInv, Apart, Locks, Counted

(* A transaction that is rolled back takes its promises with it.           *)
LEMMA RollbackStep ==
    ASSUME BatchInv, NEW a \in Actors, Rollback(a)
    PROVE  BatchInv'
BY TxStep, IdleIsOK DEF Rollback, tables

(* Locking tasks: claim, settlement.                                       *)
LEMMA BeginStep ==
    ASSUME BatchInv, NEW a \in Sessions, NEW op \in {"claim", "settle"},
           NEW rows \in [TaskIds -> RowStates], Begin(a, op, rows), UNCHANGED tables,
           \A t \in TaskIds : rows[t] # "none" =>
              /\ rows[t] \in Statuses /\ task[t].status \in Statuses
              /\ rows[t] \in Active => task[t].status \in Active
              /\ ~TaskLocked(t)
    PROVE  BatchInv'
<1> DEFINE todo == BatchesOf({t \in TaskIds : rows[t] # "none"})
<1>1. PICK q : q = [IdleTx EXCEPT !.op = op, !.rows = rows, !.todo = todo]
  OBVIOUS
<1>2. tx' = [tx EXCEPT ![a] = q] /\ a \in Actors /\ a \notin Requests
  BY <1>1, RequestsAssumption DEF Begin, Actors
<1>3. /\ todo \in SUBSET BatchIds
      /\ \A b \in BatchIds : b \in todo <=>
            \E d \in Devices : item[b][d].status \in Statuses /\ item[b][d].task \in TaskIds
                               /\ rows[item[b][d].task] # "none"
  BY DEF BatchesOf
<1> HIDE DEF todo
<1>4. /\ q \in TxRow /\ q.op = op /\ q.rows = rows /\ q.todo = todo
      /\ q.counts = [b \in BatchIds |-> NoCount]
  BY <1>1, <1>3, TypesOfIdle DEF TxRow, IdleTx
<1>5. \A b \in BatchIds : ~Counted(q, b)
  BY <1>4 DEF Counted
<1>6. LocksOK(q)
  <2>1. (\A t \in TaskIds : ~Locks(q, t)) => q.todo = {}
    BY <1>3, <1>4 DEF Locks
  <2>2. QED
    BY <1>4, <1>5, <2>1 DEF LocksOK, Locks
<1>7. Covers(q)
  BY <1>3, <1>4 DEF Covers, Locks, BatchInv, TablesOK, TablesLinked, Statuses, Active, Settled
<1>8. RecountsOK(q)
  <2> SUFFICES ASSUME NEW b \in BatchIds, b \in todo PROVE b < nextBatch
    BY <1>4, <1>5 DEF RecountsOK
  <2>1. PICK d \in Devices : item[b][d].status \in Statuses
    BY <1>3
  <2>2. item[b][d].status # "none"
    BY <2>1 DEF Statuses, Active, Settled
  <2>3. ~(b >= nextBatch) /\ b \in Int /\ nextBatch \in Int
    BY <2>2 DEF BatchInv, TablesOK, TablesLinked, TableTypes, BatchIds
  <2>4. QED
    BY <2>3
<1>9. TxOK(a, q)
  BY <1>2, <1>4, <1>6, <1>7, <1>8 DEF TxOK
<1>10. \A c \in Actors \ {a} : Apart(q, tx[c])
  BY <1>4, <1>5 DEF Apart, Locks, TaskLocked
<1>11. QED
  BY <1>2, <1>9, <1>10, TxStep

(* A claim locks rows nobody has locked and owes their batches a recount.  *)
LEMMA ClaimStep ==
    ASSUME BatchInv, NEW a \in Sessions, Claim(a)
    PROVE  BatchInv'
<1>1. PICK expired \in SUBSET {t \in TaskIds : task[t].status = "RUNNING" /\ ~TaskLocked(t)} :
      \E claimed \in SUBSET (expired \cup
                      {t \in TaskIds : task[t].status = "PENDING" /\ ~TaskLocked(t)}) :
          Begin(a, "claim", [t \in TaskIds |->
                IF t \in claimed THEN "RUNNING"
                ELSE IF t \in expired THEN "PENDING" ELSE "none"])
  BY DEF Claim
<1>2. PICK claimed \in SUBSET (expired \cup
                      {t \in TaskIds : task[t].status = "PENDING" /\ ~TaskLocked(t)}) :
          Begin(a, "claim", [t \in TaskIds |->
                IF t \in claimed THEN "RUNNING"
                ELSE IF t \in expired THEN "PENDING" ELSE "none"])
  BY <1>1
<1>3. PICK rows : rows = [t \in TaskIds |-> IF t \in claimed THEN "RUNNING"
                             ELSE IF t \in expired THEN "PENDING" ELSE "none"]
  OBVIOUS
<1>4. rows \in [TaskIds -> RowStates]
  BY <1>3 DEF RowStates, Statuses, Active
<1>5. ASSUME NEW t \in TaskIds, rows[t] # "none"
      PROVE  /\ rows[t] \in Statuses /\ task[t].status \in Statuses
             /\ rows[t] \in Active => task[t].status \in Active
             /\ ~TaskLocked(t)
  BY <1>2, <1>3, <1>5 DEF Statuses, Active
<1>6. Begin(a, "claim", rows) /\ UNCHANGED tables
  BY <1>2, <1>3 DEF Claim, tables
<1>7. QED
  BY <1>4, <1>5, <1>6, BeginStep

(* So does a settlement, for one row.                                      *)
LEMMA SettleStep ==
    ASSUME BatchInv, NEW a \in Sessions, NEW t \in TaskIds,
           NEW result \in {"SUCCESS", "FAILED"}, Settle(a, t, result)
    PROVE  BatchInv'
<1>1. PICK rows : rows = [u \in TaskIds |-> IF u = t THEN result ELSE "none"]
  OBVIOUS
<1>2. rows \in [TaskIds -> RowStates]
  BY <1>1 DEF RowStates, Statuses, Settled
<1>3. ASSUME NEW u \in TaskIds, rows[u] # "none"
      PROVE  /\ rows[u] \in Statuses /\ task[u].status \in Statuses
             /\ rows[u] \in Active => task[u].status \in Active
             /\ ~TaskLocked(u)
  BY <1>1, <1>3 DEF Settle, Statuses, Active, Settled
<1>4. Begin(a, "settle", rows) /\ UNCHANGED tables
  BY <1>1 DEF Settle, tables
<1>5. QED
  BY <1>2, <1>3, <1>4, BeginStep

(* What a request reads of the devices D before it writes anything.        *)
SeenOf(D) == [d \in Devices |-> IF d \in D THEN ActiveTask(d) ELSE NoRow]

(* The reads of a request: enqueue, batch, cancellation, deletion.         *)
Reads(r, op, D, p) ==
    /\ tx' = [tx EXCEPT ![r] = [IdleTx EXCEPT
                !.op = op, !.devices = D, !.seen = SeenOf(D), !.priority = p]]
    /\ UNCHANGED tables

(* A request that has read owes nothing yet; what it has seen was true.    *)
LEMMA ReadStep ==
    ASSUME BatchInv, NEW r \in Requests, NEW D \in SUBSET Devices,
           NEW op \in {"enqueue", "batch", "cancel", "delete"},
           op \in {"cancel", "delete"} => \E d \in Devices : D = {d},
           NEW p \in Priorities \cup {0},
           Reads(r, op, D, p)
    PROVE  BatchInv'
<1>1. PICK seen : seen = SeenOf(D)
  OBVIOUS
<1>2. PICK q : q = [IdleTx EXCEPT !.op = op, !.devices = D, !.seen = seen, !.priority = p]
  OBVIOUS
<1>3. /\ tx' = [tx EXCEPT ![r] = q] /\ r \in Actors /\ r \notin Sessions
      /\ UNCHANGED tables
  BY <1>1, <1>2, RequestsAssumption DEF Actors, Reads
<1>4. TableTypes /\ TablesLinked
  BY DEF BatchInv, TablesOK
<1>5. /\ \A d \in Devices : seen[d] \in SeenRow
      /\ \A d \in Devices \ D : seen[d] = NoRow
      /\ \A d \in Devices : seen[d].id # NoTask =>
           /\ task[seen[d].id].status # "none" /\ task[seen[d].id].device = d
           /\ seen[d].status \in Active
  <2> SUFFICES ASSUME NEW d \in Devices
               PROVE  /\ seen[d] \in SeenRow
                      /\ d \notin D => seen[d] = NoRow
                      /\ seen[d].id # NoTask =>
                           /\ task[seen[d].id].status # "none" /\ task[seen[d].id].device = d
                           /\ seen[d].status \in Active
    OBVIOUS
  <2>1. CASE d \in D
    <3>1. seen[d] = ActiveTask(d)
      BY <1>1, <2>1 DEF SeenOf
    <3>2. QED
      BY <1>4, <2>1, <3>1, ActiveTaskFound DEF Active
  <2>2. CASE d \notin D
    BY <1>1, <2>2 DEF SeenOf, NoRow, SeenRow, RowStates
  <2>3. QED
    BY <2>1, <2>2
<1>6. seen \in [Devices -> SeenRow]
  BY <1>1, <1>5 DEF SeenOf
<1>7. /\ q \in TxRow /\ q.op = op /\ q.devices = D /\ q.seen = seen /\ q.todo = {}
      /\ q.rows = [t \in TaskIds |-> "none"] /\ q.counts = [b \in BatchIds |-> NoCount]
  BY <1>2, <1>6, TypesOfIdle DEF TxRow, IdleTx
<1>8. /\ \A t \in TaskIds : ~Locks(q, t)
      /\ \A b \in BatchIds : ~Counted(q, b)
  BY <1>7 DEF Locks, Counted
<1>9. LocksOK(q) /\ RecountsOK(q)
  BY <1>7, <1>8 DEF LocksOK, RecountsOK
<1>10. RequestOK(q)
  BY <1>5, <1>7, <1>8 DEF RequestOK
<1>11. TxOK(r, q)
  BY <1>3, <1>7, <1>9, <1>10 DEF TxOK
<1>12. QED
  BY <1>3, <1>8, <1>11, TxStep DEF Apart

(* run_scan, create_scan_batch and retry_scan_batch_failures read under    *)
(* the lock of the process, when the queue has room.                       *)
LEMMA RequestReads ==
    ASSUME BatchInv, NEW r \in Requests,
           EnqueueDevice(r) \/ CreateBatch(r) \/ RetryFailures(r)
    PROVE  \E op \in {"enqueue", "batch"}, D \in SUBSET Devices, p \in Priorities :
             /\ Reads(r, op, D, p) /\ EnqueueLockFree(r)
             /\ QueueHasRoom(op, Cardinality({d \in D : SeenOf(D)[d].id = NoTask}))
<1>1. ASSUME NEW op \in {"enqueue", "batch"}, NEW D \in SUBSET Devices, NEW p \in Priorities,
             Read(r, op, D, p)
      PROVE  /\ Reads(r, op, D, p) /\ EnqueueLockFree(r)
             /\ QueueHasRoom(op, Cardinality({d \in D : SeenOf(D)[d].id = NoTask}))
  BY <1>1 DEF Read, Reads, SeenOf, tables
<1>2. device \subseteq Devices
  BY DEF BatchInv, TablesOK, TableTypes
<1>3. CASE EnqueueDevice(r)
  <2>1. PICK d \in device, p \in Priorities \ {BatchPriority} : Read(r, "enqueue", {d}, p)
    BY <1>3 DEF EnqueueDevice
  <2>2. {d} \in SUBSET Devices /\ p \in Priorities
    BY <1>2
  <2>3. QED
    BY <1>1, <2>1, <2>2
<1>4. CASE CreateBatch(r)
  <2>1. PICK D \in SUBSET Devices : Read(r, "batch", D, BatchPriority)
    BY <1>2, <1>4 DEF CreateBatch
  <2>2. QED
    BY <1>1, <2>1, PriorityAssumption
<1>5. CASE RetryFailures(r)
  <2>1. PICK D \in SUBSET Devices : Read(r, "batch", D, BatchPriority)
    BY <1>5 DEF RetryFailures, FailedDevices
  <2>2. QED
    BY <1>1, <2>1, PriorityAssumption
<1>6. QED
  BY <1>3, <1>4, <1>5

(* So does delete_device, for its one device.                              *)
LEMMA DeleteReads ==
    ASSUME BatchInv, NEW r \in Requests, DeleteDevice(r)
    PROVE  /\ EnqueueLockFree(r)
           /\ \E d \in Devices, op \in {"cancel", "delete"} : Reads(r, op, {d}, 0)
<1>1. PICK d \in device :
        tx' = [tx EXCEPT ![r] = [IdleTx EXCEPT
              !.op = IF ActiveTask(d) = NoRow THEN "delete" ELSE "cancel",
              !.devices = {d},
              !.seen[d] = ActiveTask(d)]]
  BY DEF DeleteDevice
<1>2. PICK op \in {"cancel", "delete"} :
        op = IF ActiveTask(d) = NoRow THEN "delete" ELSE "cancel"
  OBVIOUS
<1>3. d \in Devices /\ UNCHANGED tables /\ EnqueueLockFree(r)
  BY DEF DeleteDevice, tables, BatchInv, TablesOK, TableTypes
<1>4. [IdleTx EXCEPT !.op = op, !.devices = {d}, !.seen[d] = ActiveTask(d)]
      = [IdleTx EXCEPT !.op = op, !.devices = {d}, !.seen = SeenOf({d}), !.priority = 0]
  <2>1. [IdleTx.seen EXCEPT ![d] = ActiveTask(d)] = SeenOf({d})
    BY <1>3 DEF IdleTx, SeenOf
  <2>2. PICK seen, old : seen = SeenOf({d}) /\ old = IdleTx.seen
    OBVIOUS
  <2>3. [old EXCEPT ![d] = ActiveTask(d)] = seen
    BY <2>1, <2>2
  <2>4. IdleTx \in TxRow /\ IdleTx.priority = 0
    BY TypesOfIdle DEF IdleTx
  <2>5. [IdleTx EXCEPT !.op = op, !.devices = {d}, !.seen = [old EXCEPT ![d] = ActiveTask(d)]]
        = [IdleTx EXCEPT !.op = op, !.devices = {d}, !.seen = seen, !.priority = 0]
    BY <2>3, <2>4 DEF TxRow
  <2>6. QED
    BY <2>2, <2>5
<1>5. Reads(r, op, {d}, 0)
  BY <1>1, <1>2, <1>3, <1>4 DEF Reads
<1>6. QED
  BY <1>3, <1>5

(* Every request begins with such a read.                                  *)
LEMMA RequestBegins ==
    ASSUME BatchInv, NEW r \in Requests,
           EnqueueDevice(r) \/ CreateBatch(r) \/ RetryFailures(r) \/ DeleteDevice(r)
    PROVE  BatchInv'
<1>1. CASE EnqueueDevice(r) \/ CreateBatch(r) \/ RetryFailures(r)
  <2>1. PICK op \in {"enqueue", "batch"}, D \in SUBSET Devices, p \in Priorities :
          Reads(r, op, D, p)
    BY <1>1, RequestReads
  <2>2. QED
    BY <2>1, ReadStep
<1>2. CASE DeleteDevice(r)
  <2>1. PICK d \in Devices, op \in {"cancel", "delete"} : Reads(r, op, {d}, 0)
    BY <1>2, DeleteReads
  <2>2. {d} \in SUBSET Devices /\ 0 \in Priorities \cup {0} /\ \E e \in Devices : {d} = {e}
    OBVIOUS
  <2>3. QED
    BY <2>1, <2>2, ReadStep
<1>3. QED
  BY <1>1, <1>2

(* The cancellation locks its task and looks up the batches.               *)
LEMMA CancelStep ==
    ASSUME BatchInv, NEW r \in Requests, CancelTask(r)
    PROVE  BatchInv'
<1>1. PICK p : p = tx[r]
  OBVIOUS
<1>2. /\ p \in TxRow /\ LocksOK(p) /\ RequestOK(p) /\ r \in Actors /\ r \notin Sessions
      /\ TableTypes /\ TablesLinked
  BY <1>1, RequestsAssumption DEF BatchInv, TxOK, Actors, TablesOK
<1>3. PICK d \in Devices : p.devices = {d}
  BY <1>1, <1>2 DEF CancelTask, RequestOK
<1>4. PICK t : /\ t = p.seen[d].id /\ task[t].status \in Statuses /\ ~TaskLocked(t)
               /\ p.rows = IdleTx.rows
               /\ tx' = [tx EXCEPT ![r].rows[t] = "CANCELLED", ![r].todo = BatchesOf({t})]
               /\ UNCHANGED tables
  BY <1>1, <1>3 DEF CancelTask, tables
<1>5. PICK todo : todo = BatchesOf({t})
  OBVIOUS
<1>6. PICK q : q = [p EXCEPT !.rows = [@ EXCEPT ![t] = "CANCELLED"], !.todo = todo]
  OBVIOUS
<1>7. tx' = [tx EXCEPT ![r] = q]
  BY <1>1, <1>2, <1>4, <1>5, <1>6 DEF BatchInv, TxRow
<1>8. /\ todo \in SUBSET BatchIds
      /\ \A b \in todo : \E e \in Devices : item[b][e].status \in Statuses /\ item[b][e].task = t
  BY <1>5 DEF BatchesOf
<1>9. /\ q \in TxRow /\ q.op = p.op /\ q.devices = p.devices /\ q.seen = p.seen
      /\ q.todo = todo /\ q.counts = p.counts /\ q.rows = [p.rows EXCEPT ![t] = "CANCELLED"]
  BY <1>2, <1>6, <1>8 DEF TxRow, RowStates, Statuses, Settled
<1>10. /\ \A u \in TaskIds : p.rows[u] = "none"
       /\ \A b \in BatchIds : ~Counted(p, b)
  BY <1>2, <1>4 DEF IdleTx, LocksOK, Locks
<1>11. /\ \A b \in BatchIds : ~Counted(q, b)
       /\ \A u \in TaskIds : Locks(q, u) => u = t /\ q.rows[u] = "CANCELLED"
  BY <1>2, <1>9, <1>10 DEF Counted, Locks, TxRow
<1>12. \A u \in TaskIds : Locks(q, u) => task[u].device = d
  <2> SUFFICES ASSUME t \in TaskIds PROVE task[t].device = d
    BY <1>11
  <2>1. t # NoTask
    BY DEF TaskIds, NoTask
  <2>2. QED
    BY <1>2, <1>4, <2>1 DEF RequestOK
<1>13. \A b \in todo : item[b][d].status # "none" /\ b < nextBatch
  <2> SUFFICES ASSUME NEW b \in todo PROVE item[b][d].status # "none" /\ b < nextBatch
    OBVIOUS
  <2>1. PICK e \in Devices : item[b][e].status \in Statuses /\ item[b][e].task = t
    BY <1>8
  <2>2. item[b][e].status # "none" /\ b \in BatchIds
    BY <1>8, <2>1 DEF Statuses, Active, Settled
  <2>3. t \in TaskIds /\ task[t].device = e
    BY <1>2, <2>1, <2>2 DEF TablesLinked
  <2>4. q.rows[t] = "CANCELLED"
    BY <1>2, <1>9, <2>3 DEF TxRow
  <2>5. e = d
    BY <1>12, <2>3, <2>4 DEF Locks
  <2>6. ~(b >= nextBatch) /\ b \in Int /\ nextBatch \in Int
    BY <1>2, <2>2 DEF TablesLinked, TableTypes, BatchIds
  <2>7. QED
    BY <2>2, <2>5, <2>6
<1>14. LocksOK(q)
  <2>1. ASSUME \A u \in TaskIds : ~Locks(q, u) PROVE q.todo = {}
    <3>1. ASSUME NEW b \in todo PROVE FALSE
      <4>1. PICK e \in Devices : item[b][e].status \in Statuses /\ item[b][e].task = t
        BY <1>8
      <4>2. item[b][e].status # "none" /\ b \in BatchIds
        BY <1>8, <4>1 DEF Statuses, Active, Settled
      <4>3. t \in TaskIds
        BY <1>2, <4>1, <4>2 DEF TablesLinked
      <4>4. q.rows[t] = "CANCELLED"
        BY <1>2, <1>9, <4>3 DEF TxRow
      <4>5. QED
        BY <2>1, <4>3, <4>4 DEF Locks
    <3>2. QED
      BY <1>9, <3>1
  <2>2. QED
    BY <1>4, <1>11, <2>1 DEF LocksOK, Statuses, Active, Settled
<1>15. RecountsOK(q)
  BY <1>9, <1>11, <1>13 DEF RecountsOK
<1>16. RequestOK(q)
  BY <1>2, <1>3, <1>9, <1>11, <1>12, <1>13 DEF RequestOK
<1>17. TxOK(r, q)
  BY <1>2, <1>9, <1>14, <1>15, <1>16 DEF TxOK
<1>18. \A c \in Actors \ {r} : Apart(q, tx[c])
  BY <1>4, <1>11 DEF Apart, Locks, TaskLocked
<1>19. QED
  BY <1>2, <1>4, <1>7, <1>17, <1>18, TxStep

(* cancel_device has recounted the batches of the task when it returns.    *)
LEMMA CancelledStep ==
    ASSUME BatchInv, NEW r \in Requests, Cancelled(r)
    PROVE  BatchInv'
<1>1. PICK p : p = tx[r]
  OBVIOUS
<1>2. /\ p \in TxRow /\ TxOK(r, p) /\ r \in Actors /\ r \notin Sessions
      /\ \A c \in Actors \ {r} : Apart(p, tx[c])
  BY <1>1, RequestsAssumption DEF BatchInv, Actors
<1>3. PICK q : q = [p EXCEPT !.op = "delete"]
  OBVIOUS
<1>4. tx' = [tx EXCEPT ![r] = q] /\ UNCHANGED tables /\ p.op = "cancel"
  BY <1>1, <1>3 DEF Cancelled, tables, BatchInv
<1>5. /\ q \in TxRow /\ q.op = "delete" /\ q.devices = p.devices /\ q.seen = p.seen
      /\ q.todo = p.todo /\ q.counts = p.counts /\ q.rows = p.rows
  BY <1>2, <1>3 DEF TxRow
<1>6. LocksOK(q) /\ RecountsOK(q) /\ RequestOK(q)
  BY <1>2, <1>4, <1>5 DEF TxOK, LocksOK, RecountsOK, RequestOK, Locks, Counted, Sees
<1>7. TxOK(r, q) /\ \A c \in Actors \ {r} : Apart(q, tx[c])
  BY <1>2, <1>5, <1>6 DEF TxOK, Apart, Locks, Counted
<1>8. QED
  BY <1>2, <1>4, <1>7, TxStep

(* The recount of a batch under its row lock.                              *)
LEMMA RefreshStep ==
    ASSUME BatchInv, NEW a \in Actors, NEW b \in BatchIds, RefreshBatch(a, b)
    PROVE  BatchInv'
<1>1. PICK p : p = tx[a]
  OBVIOUS
<1>2. /\ p \in TxRow /\ TxOK(a, p)
      /\ \A c \in Actors \ {a} : Apart(p, tx[c])
  BY <1>1 DEF BatchInv
<1>3. PICK st : st = [d \in Devices |-> Sees(p, b, d)]
  OBVIOUS
<1>4. PICK q : q = [p EXCEPT !.todo = @ \ {b}, !.counts = [@ EXCEPT ![b] = Tally(st)]]
  OBVIOUS
<1>5. [d \in Devices |-> ItemStatus(a, b, d)] = st
  BY <1>1, <1>3 DEF ItemStatus, Sees, Locks
<1>6. /\ tx' = [tx EXCEPT ![a] = q] /\ UNCHANGED tables /\ b \in p.todo
      /\ \A c \in Actors \ {a} : ~Counted(tx[c], b)
  BY <1>1, <1>2, <1>4, <1>5 DEF RefreshBatch, BatchFree, tables, BatchInv, TxRow, Counted
<1>7. /\ Tally(st) \in CountType /\ Tally(st) # NoCount /\ Fits(Tally(st), st)
  BY TallyFits
<1>8. /\ q \in TxRow /\ q.op = p.op /\ q.devices = p.devices /\ q.seen = p.seen
      /\ q.todo = p.todo \ {b} /\ q.rows = p.rows
      /\ q.counts = [p.counts EXCEPT ![b] = Tally(st)]
  BY <1>2, <1>4, <1>7 DEF TxRow
<1>9. /\ \A c \in BatchIds : q.counts[c] = IF c = b THEN Tally(st) ELSE p.counts[c]
      /\ \A c \in BatchIds : Counted(q, c) <=> c = b \/ Counted(p, c)
      /\ \A t : Locks(q, t) <=> Locks(p, t)
      /\ \A c, d : Sees(q, c, d) = Sees(p, c, d)
  BY <1>2, <1>7, <1>8 DEF TxRow, Counted, Locks, Sees
<1>10. LocksOK(q)
  BY <1>2, <1>6, <1>8, <1>9 DEF TxOK, LocksOK
<1>11. RecountsOK(q)
  <2> SUFFICES ASSUME NEW c \in BatchIds
               PROVE  /\ c \in q.todo \/ Counted(q, c) => c < nextBatch
                      /\ Counted(q, c) => Fits(q.counts[c], [d \in Devices |-> Sees(q, c, d)])
    BY DEF RecountsOK
  <2>1. c \in q.todo \/ Counted(q, c) => c < nextBatch
    BY <1>2, <1>6, <1>8, <1>9 DEF TxOK, RecountsOK
  <2>2. [d \in Devices |-> Sees(q, c, d)] = [d \in Devices |-> Sees(p, c, d)]
    BY <1>9
  <2>3. CASE c = b
    BY <1>3, <1>7, <1>9, <2>1, <2>2, <2>3
  <2>4. CASE c # b
    BY <1>2, <1>9, <2>1, <2>2, <2>4 DEF TxOK, RecountsOK
  <2>5. QED
    BY <2>3, <2>4
<1>12. a \in Requests => RequestOK(q)
  BY <1>2, <1>6, <1>8, <1>9 DEF TxOK, RequestOK
<1>13. a \in Sessions => Covers(q)
  BY <1>2, <1>6, <1>8, <1>9 DEF TxOK, Covers
<1>14. TxOK(a, q)
  BY <1>2, <1>8, <1>10, <1>11, <1>12, <1>13 DEF TxOK
<1>15. \A c \in Actors \ {a} : Apart(q, tx[c])
  BY <1>2, <1>6, <1>9 DEF Apart
<1>16. QED
  BY <1>6, <1>14, <1>15, TxStep

-----------------------------------------------------------------------------
(***************************************************************************)
(* Commits: they write the tables and end the transaction.                 *)
(***************************************************************************)
LEMMA TableStep ==
    ASSUME BatchInv, NEW a \in Actors, tx' = [tx EXCEPT ![a] = IdleTx], TablesOK',
           \A c \in Actors \ {a}, q \in TxRow :
              TxOK(c, q) /\ q = tx[c] /\ Apart(tx[a], q) => TxOK(c, q)'
    PROVE  BatchInv'
<1>1. \A c \in Actors : tx'[c] = IF c = a THEN IdleTx ELSE tx[c]
  BY DEF BatchInv
<1>2. tx' \in [Actors -> TxRow]
  BY TypesOfIdle DEF BatchInv
<1>3. ASSUME NEW c \in Actors PROVE TxOK(c, tx[c])'
  <2>1. PICK q : q = tx'[c]
    OBVIOUS
  <2>2. TxOK(c, q)'
    <3>1. CASE c = a
      BY <1>1, <2>1, <3>1, IdleIsOK
    <3>2. CASE c # a
      BY <1>1, <2>1, <3>2 DEF BatchInv
    <3>3. QED
      BY <3>1, <3>2
  <2>3. QED
    BY <2>1, <2>2 DEF TxOK, LocksOK, RecountsOK, RequestOK, Covers, Sees, Locks, Counted
<1>4. \A c, e \in Actors : c # e => Apart(tx'[c], tx'[e])
  BY <1>1, IdleIsOK DEF BatchInv
<1>5. QED
  BY <1>2, <1>3, <1>4 DEF BatchInv, Apart, Locks, Counted

(* The commit of a claim or a settlement.                                  *)
LEMMA CommitStep ==
    ASSUME BatchInv, NEW a \in Sessions, Commit(a)
    PROVE  BatchInv'
<1>1. PICK p : p = tx[a]
  OBVIOUS
<1>2. /\ a \in Actors /\ a \notin Requests /\ p \in TxRow /\ p.todo = {}
      /\ LocksOK(p) /\ RecountsOK(p) /\ Covers(p)
      /\ TableTypes /\ TablesLinked /\ CountersFit /\ SettledAlike
  BY <1>1, RequestsAssumption DEF BatchInv, TxOK, Actors, TablesOK, Commit
<1>3. /\ nextTask' = nextTask /\ nextBatch' = nextBatch /\ device' = device
      /\ tx' = [tx EXCEPT ![a] = IdleTx]
  BY DEF Commit
<1>4. ASSUME NEW t \in TaskIds
      PROVE  /\ task'[t] \in TaskRow /\ task'[t].device = task[t].device
             /\ task'[t].status = IF Locks(p, t) THEN p.rows[t] ELSE task[t].status
  <2>1. task'[t] = [task[t] EXCEPT !.status = IF p.rows[t] = "none" THEN @ ELSE p.rows[t]]
    BY <1>1 DEF Commit, WrittenTask
  <2>2. task[t] \in TaskRow /\ p.rows[t] \in RowStates
    BY <1>2 DEF TableTypes, TxRow
  <2>3. QED
    BY <2>1, <2>2 DEF TaskRow, Locks
<1>5. ASSUME NEW b \in BatchIds, NEW d \in Devices
      PROVE  /\ item'[b][d] \in ItemRow /\ item'[b][d].task = item[b][d].task
             /\ item'[b][d].status = Sees(p, b, d)
             /\ \/ item'[b][d].status = item[b][d].status
                \/ /\ item'[b][d].status \in Statuses /\ item[b][d].status \in Statuses
                   /\ Locks(p, item[b][d].task) /\ Counted(p, b)
  <2>1. item'[b][d] = [item[b][d] EXCEPT !.status = Sees(p, b, d)]
    BY <1>1 DEF Commit, WrittenItem, ItemStatus, Sees, Locks
  <2>2. item[b][d] \in ItemRow
    BY <1>2 DEF TableTypes
  <2>3. CASE item[b][d].status \in Statuses /\ Locks(p, item[b][d].task)
    <3>1. item[b][d].task \in TaskIds
      BY <1>2, <2>3 DEF TablesLinked, Statuses, Active, Settled
    <3>2. Sees(p, b, d) \in Statuses /\ Sees(p, b, d) \in RowStates
      BY <1>2, <2>3, <3>1 DEF LocksOK, Sees, RowStates
    <3>3. Counted(p, b)
      BY <1>2, <2>3, <3>1 DEF Covers
    <3>4. QED
      BY <2>1, <2>2, <2>3, <3>2, <3>3 DEF ItemRow
  <2>4. CASE ~(item[b][d].status \in Statuses /\ Locks(p, item[b][d].task))
    BY <2>1, <2>2, <2>4 DEF ItemRow, Sees
  <2>5. QED
    BY <2>3, <2>4
<1>6. ASSUME NEW b \in BatchIds
      PROVE  /\ batch'[b] \in CountType
             /\ batch'[b] = IF Counted(p, b) THEN p.counts[b] ELSE batch[b]
  BY <1>1, <1>2 DEF Commit, WrittenBatch, Counted, TableTypes, TxRow
<1>7. /\ task' = [t \in TaskIds |-> task'[t]] /\ batch' = [b \in BatchIds |-> batch'[b]]
      /\ item' = [b \in BatchIds |-> [d \in Devices |-> item'[b][d]]]
  BY DEF Commit
<1>8. TableTypes'
  <2>1. item' \in [BatchIds -> [Devices -> ItemRow]]
    BY <1>5, <1>7
  <2>2. task' \in [TaskIds -> TaskRow] /\ batch' \in [BatchIds -> CountType]
    BY <1>4, <1>6, <1>7
  <2>3. QED
    BY <1>2, <1>3, <2>1, <2>2 DEF TableTypes
<1>9. TablesLinked'
  <2>1. ASSUME NEW t \in TaskIds PROVE task'[t].status = "none" <=> task[t].status = "none"
    BY <1>2, <1>4 DEF LocksOK, Statuses, Active, Settled
  <2>2. ASSUME NEW b \in BatchIds, NEW d \in Devices
        PROVE  item'[b][d].status = "none" <=> item[b][d].status = "none"
    BY <1>5 DEF Statuses, Active, Settled
  <2>3. ASSUME NEW b \in BatchIds, b >= nextBatch PROVE batch'[b] = NoCount
    <3>1. ~(b < nextBatch)
      BY <1>2, <2>3 DEF TableTypes, BatchIds
    <3>2. ~Counted(p, b)
      BY <1>2, <3>1 DEF RecountsOK
    <3>3. QED
      BY <1>2, <1>6, <2>3, <3>2 DEF TablesLinked
  <2>4. QED
    BY <1>2, <1>3, <1>4, <1>5, <2>1, <2>2, <2>3 DEF TablesLinked
<1>10. CountersFit'
  <2> SUFFICES ASSUME NEW b \in BatchIds, batch'[b].status # "none"
               PROVE  Fits(batch'[b], [d \in Devices |-> item'[b][d].status])
    BY DEF CountersFit, Fits
  <2>1. CASE Counted(p, b)
    <3>1. [d \in Devices |-> item'[b][d].status] = [d \in Devices |-> Sees(p, b, d)]
      BY <1>5
    <3>2. Fits(p.counts[b], [d \in Devices |-> Sees(p, b, d)])
      BY <1>2, <2>1 DEF RecountsOK
    <3>3. QED
      BY <1>6, <2>1, <3>1, <3>2
  <2>2. CASE ~Counted(p, b)
    <3>1. [d \in Devices |-> item'[b][d].status] = [d \in Devices |-> item[b][d].status]
      BY <1>5, <2>2
    <3>2. Fits(batch[b], [d \in Devices |-> item[b][d].status])
      BY <1>2, <1>6, <2>2 DEF CountersFit
    <3>3. QED
      BY <1>6, <2>2, <3>1, <3>2
  <2>3. QED
    BY <2>1, <2>2
<1>11. SettledAlike'
  <2> SUFFICES ASSUME NEW b \in BatchIds, NEW d \in Devices, item'[b][d].status \in Settled
               PROVE  task'[item'[b][d].task].status = item'[b][d].status
    BY DEF SettledAlike
  <2>1. item[b][d].status \in Statuses
    BY <1>5 DEF Statuses
  <2>2. PICK t \in TaskIds : t = item[b][d].task /\ t = item'[b][d].task
    BY <1>2, <1>5, <2>1 DEF TablesLinked, Statuses, Active, Settled
  <2>3. CASE Locks(p, t)
    BY <1>4, <1>5, <2>1, <2>2, <2>3 DEF Sees
  <2>4. CASE ~Locks(p, t)
    BY <1>2, <1>4, <1>5, <2>1, <2>2, <2>4 DEF Sees, SettledAlike
  <2>5. QED
    BY <2>3, <2>4
<1>12. ASSUME NEW c \in Actors \ {a}, NEW q \in TxRow, TxOK(c, q), q = tx[c], Apart(p, q)
       PROVE  TxOK(c, q)'
  <2>1. \A t \in TaskIds : Locks(q, t) => task'[t].status = task[t].status
    BY <1>4, <1>12 DEF Apart
  <2>2. LocksOK(q)'
    BY <1>12, <2>1 DEF TxOK, LocksOK, Locks, Counted
  <2>3. ASSUME NEW b \in BatchIds, Counted(q, b)
        PROVE  [d \in Devices |-> Sees(q, b, d)]' = [d \in Devices |-> Sees(q, b, d)]
    <3> SUFFICES ASSUME NEW d \in Devices PROVE Sees(q, b, d)' = Sees(q, b, d)
      OBVIOUS
    <3>1. item'[b][d].status = item[b][d].status /\ item'[b][d].task = item[b][d].task
      BY <1>5, <1>12, <2>3 DEF Apart
    <3>2. QED
      BY <3>1 DEF Sees, Locks
  <2>4. RecountsOK(q)'
    <3> SUFFICES ASSUME NEW b \in BatchIds
                 PROVE  (/\ b \in q.todo \/ Counted(q, b) => b < nextBatch
                         /\ Counted(q, b) => Fits(q.counts[b], [d \in Devices |-> Sees(q, b, d)]))'
      BY DEF RecountsOK
    <3>1. b \in q.todo \/ Counted(q, b) => b < nextBatch'
      BY <1>3, <1>12 DEF TxOK, RecountsOK
    <3>2. ASSUME Counted(q, b)
          PROVE  Fits(q.counts[b], [d \in Devices |-> Sees(q, b, d)]')
      BY <1>12, <2>3, <3>2 DEF TxOK, RecountsOK
    <3>3. QED
      BY <3>1, <3>2 DEF Counted, Fits
  <2>5. c \in Sessions => Covers(q)'
    BY <1>5, <1>12 DEF TxOK, Covers, Locks, Counted
  <2>6. c \in Requests => RequestOK(q)'
    <3> SUFFICES ASSUME c \in Requests PROVE RequestOK(q)'
      OBVIOUS
    <3>1. RequestOK(q)
      BY <1>12 DEF TxOK
    <3>2. \A d \in Devices : q.seen[d].id # NoTask => q.seen[d].id \in TaskIds
      BY DEF TxRow, SeenRow
    <3>3. \A t \in TaskIds : task[t].status # "none" => task'[t].status # "none"
      BY <1>2, <1>4 DEF LocksOK, Statuses, Active, Settled
    <3>4. \A b \in BatchIds, d \in Devices :
             item[b][d].status # "none" => item'[b][d].status # "none"
      BY <1>5 DEF Statuses, Active, Settled
    <3>5. q.devices \subseteq Devices
      BY DEF TxRow
    <3>6. QED
      BY <1>4, <3>1, <3>2, <3>3, <3>4, <3>5 DEF RequestOK, Locks, Counted
  <2>7. QED
    BY <1>12, <2>2, <2>4, <2>5, <2>6 DEF TxOK
<1>13. QED
  BY <1>1, <1>2, <1>3, <1>8, <1>9, <1>10, <1>11, <1>12, TableStep DEF TablesOK

(* The deletion of a device with its tasks and items.                      *)
LEMMA DeleteStep ==
    ASSUME BatchInv, NEW r \in Requests, DeleteCommit(r)
    PROVE  BatchInv'
<1>1. PICK p : p = tx[r]
  OBVIOUS
<1>2. /\ r \in Actors /\ r \notin Sessions /\ p \in TxRow /\ p.op = "delete"
      /\ LocksOK(p) /\ RecountsOK(p) /\ RequestOK(p)
      /\ TableTypes /\ TablesLinked /\ CountersFit /\ SettledAlike
  BY <1>1, RequestsAssumption DEF BatchInv, TxOK, Actors, TablesOK, DeleteCommit
<1>3. PICK d \in Devices : p.devices = {d}
  BY <1>2 DEF RequestOK
<1>4. d = CHOOSE e \in tx[r].devices : TRUE
  BY <1>1, <1>3
<1>5. PICK own : own = {t \in TaskIds : task[t].device = d /\ task[t].status \in Statuses}
  OBVIOUS
<1>6. /\ nextTask' = nextTask /\ nextBatch' = nextBatch /\ device' = device \ {d}
      /\ tx' = [tx EXCEPT ![r] = IdleTx]
      /\ \A t \in own, a \in Actors \ {r} : ~Locks(tx[a], t)
      /\ task' = [t \in TaskIds |->
           IF t \in own THEN [task[t] EXCEPT !.status = "gone"] ELSE task[t]]
      /\ item' = [b \in BatchIds |->
           IF item[b][d].status \in Statuses
           THEN [item[b] EXCEPT ![d].status = "gone"] ELSE item[b]]
      /\ batch' = [b \in BatchIds |-> WrittenBatch(r, b)]
  BY <1>4, <1>5 DEF DeleteCommit, Locks
<1>7. ASSUME NEW t \in TaskIds
      PROVE  /\ task'[t] \in TaskRow /\ task'[t].device = task[t].device
             /\ task'[t].status = IF t \in own THEN "gone" ELSE task[t].status
             /\ task'[t].status = "none" <=> task[t].status = "none"
  <2>1. task[t] \in TaskRow
    BY <1>2 DEF TableTypes
  <2>2. /\ task'[t] \in TaskRow /\ task'[t].device = task[t].device
        /\ task'[t].status = IF t \in own THEN "gone" ELSE task[t].status
    BY <1>6, <2>1 DEF TaskRow, RowStates
  <2>3. QED
    BY <1>5, <2>2 DEF Statuses, Active, Settled
<1>8. ASSUME NEW b \in BatchIds, NEW e \in Devices
      PROVE  /\ item'[b][e] \in ItemRow /\ item'[b][e].task = item[b][e].task
             /\ item'[b][e].status = IF e = d /\ item[b][e].status \in Statuses
                                     THEN "gone" ELSE item[b][e].status
             /\ item'[b][e].status = "none" <=> item[b][e].status = "none"
  <2>1. item[b] \in [Devices -> ItemRow]
    BY <1>2 DEF TableTypes
  <2>2. item'[b] = IF item[b][d].status \in Statuses
                   THEN [item[b] EXCEPT ![d].status = "gone"] ELSE item[b]
    BY <1>6
  <2>3. /\ item'[b][e] \in ItemRow /\ item'[b][e].task = item[b][e].task
        /\ item'[b][e].status = IF e = d /\ item[b][e].status \in Statuses
                                THEN "gone" ELSE item[b][e].status
    BY <2>1, <2>2 DEF ItemRow, RowStates
  <2>4. QED
    BY <2>3 DEF Statuses, Active, Settled
<1>9. ASSUME NEW b \in BatchIds
      PROVE  /\ batch'[b] \in CountType
             /\ batch'[b] = IF Counted(p, b) THEN p.counts[b] ELSE batch[b]
  BY <1>1, <1>2, <1>6 DEF WrittenBatch, Counted, TableTypes, TxRow
<1>10. TableTypes'
  <2>1. \A b \in BatchIds : item'[b] \in [Devices -> ItemRow]
    <3> SUFFICES ASSUME NEW b \in BatchIds PROVE item'[b] \in [Devices -> ItemRow]
      OBVIOUS
    <3>1. item[b] \in [Devices -> ItemRow]
      BY <1>2 DEF TableTypes
    <3>2. [item[b][d] EXCEPT !.status = "gone"] \in ItemRow
      BY <3>1 DEF ItemRow, RowStates
    <3>3. item'[b] = IF item[b][d].status \in Statuses
                     THEN [item[b] EXCEPT ![d] = [item[b][d] EXCEPT !.status = "gone"]]
                     ELSE item[b]
      BY <1>6, <3>1
    <3>4. QED
      BY <3>1, <3>2, <3>3
  <2>2. item' \in [BatchIds -> [Devices -> ItemRow]]
    BY <1>6, <2>1
  <2>3. task' \in [TaskIds -> TaskRow] /\ batch' \in [BatchIds -> CountType]
    BY <1>6, <1>7, <1>9
  <2>4. QED
    BY <1>2, <1>6, <2>2, <2>3 DEF TableTypes
<1>11. TablesLinked'
  <2>1. ASSUME NEW b \in BatchIds, b >= nextBatch PROVE batch'[b] = NoCount
    <3>1. ~(b < nextBatch)
      BY <1>2, <2>1 DEF TableTypes, BatchIds
    <3>2. ~Counted(p, b)
      BY <1>2, <3>1 DEF RecountsOK
    <3>3. QED
      BY <1>2, <1>9, <2>1, <3>2 DEF TablesLinked
  <2>2. QED
    BY <1>2, <1>6, <1>7, <1>8, <2>1 DEF TablesLinked
<1>12. ASSUME NEW b \in BatchIds, NEW e \in Devices, e # d
       PROVE  Sees(p, b, e) = item[b][e].status
  <2> SUFFICES ASSUME item[b][e].status \in Statuses, Locks(p, item[b][e].task)
               PROVE  FALSE
    BY DEF Sees
  <2>1. item[b][e].task \in TaskIds /\ task[item[b][e].task].device = e
    BY <1>2 DEF TablesLinked, Statuses, Active, Settled
  <2>2. QED
    BY <1>2, <1>3, <1>12, <2>1 DEF RequestOK
<1>13. CountersFit'
  <2> SUFFICES ASSUME NEW b \in BatchIds, batch'[b].status # "none"
               PROVE  Fits(batch'[b], [e \in Devices |-> item'[b][e].status])
    BY DEF CountersFit, Fits
  <2>1. CASE Counted(p, b)
    <3>1. item[b][d].status # "none"
      BY <1>2, <1>3, <2>1 DEF RequestOK
    <3>2. item'[b][d].status = "gone"
      BY <1>2, <1>8, <3>1 DEF TableTypes, ItemRow, RowStates
    <3>3. Fits(p.counts[b], [e \in Devices |-> Sees(p, b, e)])
      BY <1>2, <2>1 DEF RecountsOK
    <3>4. ASSUME p.counts[b].status = "COMPLETED", NEW e \in Devices
          PROVE  item'[b][e].status \notin Active
      <4>1. CASE e = d
        BY <3>2, <4>1 DEF Active
      <4>2. CASE e # d
        BY <1>8, <1>12, <3>3, <3>4, <4>2 DEF Fits
      <4>3. QED
        BY <4>1, <4>2
    <3>5. QED
      BY <1>9, <2>1, <3>2, <3>4 DEF Fits
  <2>2. CASE ~Counted(p, b)
    <3>1. Fits(batch[b], [e \in Devices |-> item[b][e].status]) /\ batch'[b] = batch[b]
      BY <1>2, <1>9, <2>2 DEF CountersFit
    <3>2. CASE item[b][d].status \in Statuses
      <4>1. item'[b][d].status = "gone"
        BY <1>8, <3>2
      <4>2. \A e \in Devices : item'[b][e].status \in Active => item[b][e].status \in Active
        BY <1>8 DEF Active
      <4>3. QED
        BY <3>1, <4>1, <4>2 DEF Fits
    <3>3. CASE item[b][d].status \notin Statuses
      <4>1. [e \in Devices |-> item'[b][e].status] = [e \in Devices |-> item[b][e].status]
        BY <1>8, <3>3
      <4>2. QED
        BY <3>1, <4>1
    <3>4. QED
      BY <3>2, <3>3
  <2>3. QED
    BY <2>1, <2>2
<1>14. SettledAlike'
  <2> SUFFICES ASSUME NEW b \in BatchIds, NEW e \in Devices, item'[b][e].status \in Settled
               PROVE  task'[item'[b][e].task].status = item'[b][e].status
    BY DEF SettledAlike
  <2>1. e # d /\ item'[b][e].status = item[b][e].status
    BY <1>8 DEF Settled, Statuses
  <2>2. PICK t \in TaskIds : t = item[b][e].task /\ t = item'[b][e].task /\ task[t].device = e
    BY <1>2, <1>8, <2>1 DEF TablesLinked, Settled
  <2>3. t \notin own
    BY <1>5, <2>1, <2>2
  <2>4. task'[t].status = task[t].status
    BY <1>7, <2>3
  <2>5. task[t].status = item[b][e].status
    BY <1>2, <2>1, <2>2 DEF SettledAlike
  <2>6. QED
    BY <2>1, <2>2, <2>4, <2>5
<1>15. ASSUME NEW c \in Actors \ {r}, NEW q \in TxRow, TxOK(c, q), q = tx[c]
       PROVE  TxOK(c, q)'
  <2>1. \A t \in TaskIds : Locks(q, t) => task'[t].status = task[t].status
    BY <1>6, <1>7, <1>15
  <2>2. LocksOK(q)'
    BY <1>15, <2>1 DEF TxOK, LocksOK, Locks, Counted
  <2>3. ASSUME NEW b \in BatchIds, NEW e \in Devices
        PROVE  Sees(q, b, e)' = IF e = d /\ item[b][e].status \in Statuses
                                THEN "gone" ELSE Sees(q, b, e)
    BY <1>8 DEF Sees, Locks, Statuses, Active, Settled
  <2>4. ASSUME NEW b \in BatchIds, Counted(q, b)
        PROVE  Fits(q.counts[b], [e \in Devices |-> Sees(q, b, e)]')
    <3>1. Fits(q.counts[b], [e \in Devices |-> Sees(q, b, e)])
      BY <1>15, <2>4 DEF TxOK, RecountsOK
    <3>2. CASE item[b][d].status \in Statuses
      <4>1. Sees(q, b, d)' = "gone"
        BY <2>3, <3>2
      <4>2. \A e \in Devices : Sees(q, b, e)' \in Active => Sees(q, b, e) \in Active
        BY <2>3 DEF Active
      <4>3. QED
        BY <3>1, <4>1, <4>2 DEF Fits
    <3>3. CASE item[b][d].status \notin Statuses
      <4>1. [e \in Devices |-> Sees(q, b, e)]' = [e \in Devices |-> Sees(q, b, e)]
        BY <2>3, <3>3
      <4>2. QED
        BY <3>1, <4>1
    <3>4. QED
      BY <3>2, <3>3
  <2>5. RecountsOK(q)'
    <3> SUFFICES ASSUME NEW b \in BatchIds
                 PROVE  (/\ b \in q.todo \/ Counted(q, b) => b < nextBatch
                         /\ Counted(q, b) => Fits(q.counts[b], [e \in Devices |-> Sees(q, b, e)]))'
      BY DEF RecountsOK
    <3>1. b \in q.todo \/ Counted(q, b) => b < nextBatch'
      BY <1>6, <1>15 DEF TxOK, RecountsOK
    <3>2. QED
      BY <2>4, <3>1 DEF Counted, Fits
  <2>6. c \in Sessions => Covers(q)'
    BY <1>8, <1>15 DEF TxOK, Covers, Locks, Counted, Statuses, Active, Settled
  <2>7. c \in Requests => RequestOK(q)'
    <3> SUFFICES ASSUME c \in Requests PROVE RequestOK(q)'
      OBVIOUS
    <3>1. RequestOK(q)
      BY <1>15 DEF TxOK
    <3>2. \A e \in Devices : q.seen[e].id # NoTask => q.seen[e].id \in TaskIds
      BY DEF TxRow, SeenRow
    <3>3. q.devices \subseteq Devices
      BY DEF TxRow
    <3>4. QED
      BY <1>7, <1>8, <3>1, <3>2, <3>3 DEF RequestOK, Locks, Counted
  <2>8. QED
    BY <1>15, <2>2, <2>5, <2>6, <2>7 DEF TxOK
<1>16. QED
  BY <1>1, <1>2, <1>6, <1>10, <1>11, <1>13, <1>14, <1>15, TableStep DEF TablesOK

(* What an enqueueing request writes, in terms of the ids of new tasks.    *)
FreshOf(p) == {d \in p.devices : p.seen[d].id = NoTask}
IdsOf(p)   == [d \in FreshOf(p) |-> nextTask + Cardinality({e \in FreshOf(p) : e < d})]

(* The tasks.                                                              *)
LEMMA EnqueueTasks ==
    ASSUME BatchInv, NEW r \in Requests, Enqueue(r), NEW p, p = tx[r],
           NEW fresh, fresh = FreshOf(p), NEW id, id = IdsOf(p)
    PROVE  /\ fresh \in SUBSET Devices /\ fresh \subseteq p.devices
           /\ nextTask' = nextTask + Cardinality(fresh) /\ nextTask' \in 1..(MaxTasks + 1)
           /\ nextTask <= nextTask'
           /\ task' \in [TaskIds -> TaskRow]
           /\ \A t \in TaskIds : t < nextTask =>
                task'[t].device = task[t].device /\ task'[t].status = task[t].status
           /\ \A t \in TaskIds : t >= nextTask' => task'[t].status = "none"
           /\ \A t \in TaskIds :
                (\A d \in fresh : id[d] # t) => task'[t].status = task[t].status
           /\ \A d \in fresh :
                /\ id[d] \in TaskIds /\ nextTask <= id[d] /\ id[d] < nextTask'
                /\ task'[id[d]].device = d /\ task'[id[d]].status = "PENDING"
<1>1. /\ TableTypes /\ TablesLinked /\ p \in TxRow
  BY RequestsAssumption DEF BatchInv, TablesOK, Actors
<1>2. /\ fresh \in SUBSET Devices /\ fresh \subseteq p.devices /\ p.devices \subseteq Devices
      /\ p.priority \in Priorities \cup {0}
  BY <1>1 DEF FreshOf, TxRow
<1>3. nextTask \in Nat /\ nextTask >= 1 /\ MaxTasks \in Nat
  BY <1>1, BoundsAssumption DEF TableTypes
<1>4. Cardinality(fresh) \in Nat
  BY <1>2, Finite
<1>5. /\ \A d \in fresh : id[d] = nextTask + Cardinality({e \in fresh : e < d})
      /\ id = [d \in fresh |-> nextTask + Cardinality({e \in fresh : e < d})]
  BY DEF IdsOf
<1>6. /\ \A d \in fresh : id[d] \in Nat /\ nextTask <= id[d]
                          /\ id[d] < nextTask + Cardinality(fresh)
      /\ \A c, d \in fresh : id[c] = id[d] => c = d
  BY <1>2, <1>3, <1>5, NewIds
<1>7. /\ nextTask' = nextTask + Cardinality(fresh)
      /\ nextTask + Cardinality(fresh) <= MaxTasks + 1
  BY DEF Enqueue, FreshOf
<1> DEFINE new == {d \in tx[r].devices : tx[r].seen[d].id = NoTask}
           NewId(d) == nextTask + Cardinality({e \in new : e < d})
<1>8. task' = [t \in TaskIds |->
             IF \E d \in new : NewId(d) = t
             THEN [device |-> CHOOSE d \in new : NewId(d) = t,
                   status |-> "PENDING", priority |-> tx[r].priority]
             ELSE IF \E d \in tx[r].devices : tx[r].seen[d].id = t /\ Raises(r, d)
             THEN [task[t] EXCEPT !.priority = tx[r].priority]
             ELSE task[t]]
  BY DEF Enqueue
<1>new. new = fresh
  BY DEF FreshOf
<1>ids. \A d \in new : NewId(d) = id[d]
  BY <1>5, <1>new
<1> HIDE DEF new, NewId
<1>9. ASSUME NEW t \in TaskIds, NEW d \in fresh, id[d] = t
      PROVE  /\ task'[t] \in TaskRow /\ task'[t].device = d /\ task'[t].status = "PENDING"
  <2>1. (CHOOSE e \in new : NewId(e) = t) = d
    BY <1>6, <1>new, <1>ids, <1>9
  <2>2. task'[t] = [device |-> d, status |-> "PENDING", priority |-> p.priority]
    BY <1>8, <1>new, <1>ids, <1>9, <2>1
  <2>3. QED
    BY <1>2, <2>2 DEF TaskRow, RowStates, Statuses, Active
<1>10. ASSUME NEW t \in TaskIds, \A d \in fresh : id[d] # t
       PROVE  /\ task'[t] \in TaskRow
              /\ task'[t].device = task[t].device /\ task'[t].status = task[t].status
  <2>1. task[t] \in TaskRow
    BY <1>1 DEF TableTypes
  <2>2. \/ task'[t] = task[t]
        \/ task'[t] = [task[t] EXCEPT !.priority = p.priority]
    BY <1>8, <1>new, <1>ids, <1>10
  <2>3. QED
    BY <1>2, <2>1, <2>2 DEF TaskRow
<1>11. \A t \in TaskIds : t \in Nat /\ task'[t] \in TaskRow
  BY <1>9, <1>10 DEF TaskIds
<1>12. task' \in [TaskIds -> TaskRow]
  BY <1>8, <1>11
<1>13. nextTask' \in 1..(MaxTasks + 1) /\ nextTask <= nextTask'
  BY <1>3, <1>4, <1>7
<1>14. ASSUME NEW t \in TaskIds, t < nextTask \/ t >= nextTask', NEW d \in fresh
       PROVE  id[d] # t
  BY <1>3, <1>4, <1>6, <1>7, <1>11, <1>14
<1>15. \A d \in fresh : id[d] \in TaskIds /\ nextTask <= id[d] /\ id[d] < nextTask'
  BY <1>3, <1>4, <1>6, <1>7 DEF TaskIds
<1>16. ASSUME NEW t \in TaskIds, t >= nextTask' PROVE task'[t].status = "none"
  <2>1. t >= nextTask
    BY <1>3, <1>11, <1>13, <1>16
  <2>2. QED
    BY <1>1, <1>10, <1>14, <1>16, <2>1 DEF TablesLinked
<1>17. QED
  BY <1>2, <1>7, <1>9, <1>10, <1>12, <1>13, <1>14, <1>15, <1>16

(* The batches and their items.                                            *)
LEMMA EnqueueItems ==
    ASSUME BatchInv, NEW r \in Requests, Enqueue(r), NEW p, p = tx[r],
           NEW fresh, fresh = FreshOf(p), NEW id, id = IdsOf(p)
    PROVE  /\ item' \in [BatchIds -> [Devices -> ItemRow]]
           /\ batch' \in [BatchIds -> CountType]
           /\ nextBatch' \in 1..(MaxBatches + 1) /\ nextBatch <= nextBatch'
           /\ \A b \in BatchIds : b # nextBatch \/ nextBatch' = nextBatch =>
                item'[b] = item[b] /\ batch'[b] = batch[b]
           /\ nextBatch' # nextBatch =>
                /\ p.op = "batch" /\ nextBatch \in BatchIds /\ nextBatch < nextBatch'
                /\ \A d \in Devices :
                     \/ /\ d \in fresh /\ item'[nextBatch][d].task = id[d]
                        /\ item'[nextBatch][d].status = "PENDING"
                     \/ /\ d \in p.devices \ fresh
                        /\ item'[nextBatch][d].task = p.seen[d].id
                        /\ item'[nextBatch][d].status = p.seen[d].status
                     \/ d \notin p.devices /\ item'[nextBatch][d].status = "none"
                /\ Fits(batch'[nextBatch], [d \in Devices |-> item'[nextBatch][d].status])
<1>1. /\ TableTypes /\ TablesLinked /\ p \in TxRow /\ RequestOK(p)
  BY RequestsAssumption DEF BatchInv, TablesOK, Actors, TxOK
<1>2. /\ fresh \in SUBSET Devices /\ fresh \subseteq p.devices /\ p.devices \subseteq Devices
      /\ \A d \in p.devices \ fresh : p.seen[d].id # NoTask
      /\ \A d \in Devices : p.seen[d] \in SeenRow
  BY <1>1 DEF FreshOf, TxRow
<1>3. \A d \in fresh : id[d] \in TaskIds
  BY EnqueueTasks
<1>4. nextBatch \in Nat /\ nextBatch >= 1 /\ MaxBatches \in Nat /\ nextBatch <= MaxBatches + 1
  BY <1>1, BoundsAssumption DEF TableTypes
<1>5. CASE UNCHANGED <<item, batch, nextBatch>>
  BY <1>1, <1>4, <1>5 DEF TableTypes
<1>6. CASE p.op = "batch" /\ ~UNCHANGED <<item, batch, nextBatch>>
  <2> DEFINE new == {d \in tx[r].devices : tx[r].seen[d].id = NoTask}
             TaskOf(d) == IF d \in new THEN nextTask + Cardinality({e \in new : e < d})
                          ELSE tx[r].seen[d].id
             st == [d \in Devices |-> IF d \in new THEN "PENDING" ELSE tx[r].seen[d].status]
             row == [d \in Devices |->
                       IF d \in tx[r].devices THEN [task |-> TaskOf(d), status |-> st[d]]
                       ELSE [task |-> NoTask, status |-> "none"]]
  <2>1. /\ nextBatch \in BatchIds
        /\ item' = [item EXCEPT ![nextBatch] = row]
        /\ batch' = [batch EXCEPT ![nextBatch] = Tally(st)]
        /\ nextBatch' = nextBatch + 1
    BY <1>6 DEF Enqueue
  <2>2. new = fresh
    BY DEF FreshOf
  <2>3. \A d \in Devices : TaskOf(d) = IF d \in fresh THEN id[d] ELSE p.seen[d].id
    BY <2>2 DEF IdsOf
  <2>4. \A d \in Devices : st[d] = IF d \in fresh THEN "PENDING" ELSE p.seen[d].status
    BY <2>2
  <2> HIDE DEF new, TaskOf
  <2>5. \A d \in Devices : row[d] = IF d \in p.devices THEN [task |-> TaskOf(d), status |-> st[d]]
                                    ELSE [task |-> NoTask, status |-> "none"]
    OBVIOUS
  <2> HIDE DEF st
  <2>6. ASSUME NEW d \in Devices
        PROVE  /\ row[d] \in ItemRow
               /\ \/ d \in fresh /\ row[d].task = id[d] /\ row[d].status = "PENDING"
                  \/ /\ d \in p.devices \ fresh
                     /\ row[d].task = p.seen[d].id /\ row[d].status = p.seen[d].status
                  \/ d \notin p.devices /\ row[d].status = "none"
               /\ row[d].status = st[d]
    <3>1. CASE d \in fresh
      BY <1>2, <1>3, <2>3, <2>4, <2>5, <3>1 DEF ItemRow, RowStates, Statuses, Active
    <3>2. CASE d \in p.devices \ fresh
      BY <1>2, <2>3, <2>4, <2>5, <3>2 DEF ItemRow, SeenRow
    <3>3. CASE d \notin p.devices
      <4>1. p.seen[d] = NoRow /\ d \notin fresh
        BY <1>1, <1>2, <3>3 DEF RequestOK
      <4>2. st[d] = "none"
        BY <2>4, <4>1 DEF NoRow
      <4>3. QED
        BY <2>5, <3>3, <4>2 DEF ItemRow, RowStates
    <3>4. QED
      BY <3>1, <3>2, <3>3
  <2>7. row \in [Devices -> ItemRow] /\ st = [d \in Devices |-> row[d].status]
    BY <2>6 DEF st
  <2> HIDE DEF row
  <2>8. /\ Tally(st) \in CountType /\ Fits(Tally(st), st)
    BY TallyFits
  <2>9. /\ item' \in [BatchIds -> [Devices -> ItemRow]] /\ item'[nextBatch] = row
        /\ batch' \in [BatchIds -> CountType] /\ batch'[nextBatch] = Tally(st)
        /\ \A b \in BatchIds : b # nextBatch => item'[b] = item[b] /\ batch'[b] = batch[b]
    BY <1>1, <2>1, <2>7, <2>8 DEF TableTypes
  <2>10. nextBatch' \in 1..(MaxBatches + 1) /\ nextBatch < nextBatch' /\ nextBatch <= nextBatch'
    BY <1>4, <2>1 DEF BatchIds
  <2>11. Fits(batch'[nextBatch], [d \in Devices |-> item'[nextBatch][d].status])
    BY <2>7, <2>8, <2>9
  <2>12. QED
    BY <1>6, <2>1, <2>6, <2>9, <2>10, <2>11
<1>7. QED
  BY <1>5, <1>6 DEF Enqueue

(* A request enqueues: its commit.                                         *)
LEMMA EnqueueStep ==
    ASSUME BatchInv, NEW r \in Requests, Enqueue(r)
    PROVE  BatchInv'
<1>1. PICK p : p = tx[r]
  OBVIOUS
<1>2. PICK fresh, id : fresh = FreshOf(p) /\ id = IdsOf(p)
  OBVIOUS
<1>3. /\ r \in Actors /\ r \notin Sessions /\ p \in TxRow /\ RequestOK(p)
      /\ TableTypes /\ TablesLinked /\ CountersFit /\ SettledAlike
  BY <1>1, RequestsAssumption DEF BatchInv, TxOK, Actors, TablesOK
<1>4. /\ tx' = [tx EXCEPT ![r] = IdleTx] /\ device' = device
      /\ p.op = "batch" => \A d \in p.devices \ fresh, a \in Sessions :
                              ~Locks(tx[a], p.seen[d].id)
  BY <1>1, <1>2 DEF Enqueue, FreshOf, Locks
<1>5. /\ task' \in [TaskIds -> TaskRow] /\ nextTask' \in 1..(MaxTasks + 1)
      /\ nextTask <= nextTask'
      /\ \A t \in TaskIds : t < nextTask =>
           task'[t].device = task[t].device /\ task'[t].status = task[t].status
      /\ \A t \in TaskIds : t >= nextTask' => task'[t].status = "none"
      /\ \A d \in fresh :
           /\ id[d] \in TaskIds /\ nextTask <= id[d]
           /\ task'[id[d]].device = d /\ task'[id[d]].status = "PENDING"
  BY <1>1, <1>2, EnqueueTasks
<1>6. /\ item' \in [BatchIds -> [Devices -> ItemRow]]
      /\ batch' \in [BatchIds -> CountType]
      /\ nextBatch' \in 1..(MaxBatches + 1) /\ nextBatch <= nextBatch'
      /\ \A b \in BatchIds : b # nextBatch \/ nextBatch' = nextBatch =>
           item'[b] = item[b] /\ batch'[b] = batch[b]
  BY <1>1, <1>2, EnqueueItems
<1>7. nextBatch' # nextBatch =>
      /\ p.op = "batch" /\ nextBatch \in BatchIds /\ nextBatch < nextBatch'
      /\ \A d \in Devices :
           \/ /\ d \in fresh /\ item'[nextBatch][d].task = id[d]
              /\ item'[nextBatch][d].status = "PENDING"
           \/ /\ d \in p.devices \ fresh
              /\ item'[nextBatch][d].task = p.seen[d].id
              /\ item'[nextBatch][d].status = p.seen[d].status
           \/ d \notin p.devices /\ item'[nextBatch][d].status = "none"
      /\ Fits(batch'[nextBatch], [d \in Devices |-> item'[nextBatch][d].status])
  BY <1>1, <1>2, EnqueueItems
<1>8. /\ \A t \in TaskIds : t \in Nat /\ (task[t].status # "none" => t < nextTask)
      /\ nextTask \in Nat /\ nextTask' \in Nat /\ nextBatch \in Nat /\ nextBatch' \in Nat
      /\ \A b \in BatchIds : b \in Nat
  <2>1. /\ \A t \in TaskIds : t \in Nat /\ (task[t].status # "none" => ~(t >= nextTask))
        /\ nextTask \in Nat /\ nextTask' \in Nat /\ nextBatch \in Nat /\ nextBatch' \in Nat
        /\ \A b \in BatchIds : b \in Nat
    BY <1>3, <1>5, <1>6, BoundsAssumption
       DEF TablesLinked, TableTypes, TaskIds, BatchIds
  <2>2. QED
    BY <2>1
<1>9. \A t \in TaskIds : task[t].status # "none" =>
         task'[t].device = task[t].device /\ task'[t].status = task[t].status
  BY <1>5, <1>8
<1>10. ASSUME NEW d \in p.devices \ fresh
       PROVE  /\ d \in Devices /\ p.seen[d].id \in TaskIds /\ task[p.seen[d].id].status # "none"
              /\ task[p.seen[d].id].device = d /\ p.seen[d].status \in Active
  <2>1. d \in Devices /\ p.seen[d].id # NoTask /\ p.seen[d] \in SeenRow
    BY <1>2, <1>3 DEF FreshOf, TxRow
  <2>2. QED
    BY <1>3, <2>1 DEF RequestOK, SeenRow
<1>11. TableTypes'
  BY <1>3, <1>4, <1>5, <1>6 DEF TableTypes
<1>12. TablesLinked'
  <2>1. ASSUME NEW b \in BatchIds, b >= nextBatch'
        PROVE  batch'[b] = NoCount /\ \A d \in Devices : item'[b][d].status = "none"
    <3>1. b >= nextBatch
      BY <1>6, <1>8, <2>1
    <3>2. b # nextBatch \/ nextBatch' = nextBatch
      BY <1>7, <1>8, <2>1
    <3>3. QED
      BY <1>3, <1>6, <3>1, <3>2 DEF TablesLinked
  <2>2. ASSUME NEW b \in BatchIds, NEW d \in Devices, item'[b][d].status # "none"
        PROVE  /\ item'[b][d].task \in TaskIds
               /\ task'[item'[b][d].task].status # "none"
               /\ task'[item'[b][d].task].device = d
    <3>1. CASE b # nextBatch \/ nextBatch' = nextBatch
      <4>1. item'[b] = item[b]
        BY <1>6, <3>1
      <4>2. QED
        BY <1>3, <1>9, <2>2, <4>1 DEF TablesLinked
    <3>2. CASE b = nextBatch /\ nextBatch' # nextBatch
      <4>1. CASE d \in fresh /\ item'[b][d].task = id[d]
        BY <1>5, <4>1
      <4>2. CASE d \in p.devices \ fresh /\ item'[b][d].task = p.seen[d].id
        BY <1>9, <1>10, <4>2
      <4>3. QED
        BY <1>7, <2>2, <3>2, <4>1, <4>2
    <3>3. QED
      BY <3>1, <3>2
  <2>3. QED
    BY <1>5, <2>1, <2>2 DEF TablesLinked
<1>13. CountersFit'
  <2> SUFFICES ASSUME NEW b \in BatchIds, batch'[b].status # "none"
               PROVE  Fits(batch'[b], [d \in Devices |-> item'[b][d].status])
    BY DEF CountersFit, Fits
  <2>1. CASE b # nextBatch \/ nextBatch' = nextBatch
    <3>1. item'[b] = item[b] /\ batch'[b] = batch[b]
      BY <1>6, <2>1
    <3>2. QED
      BY <1>3, <3>1 DEF CountersFit
  <2>2. CASE b = nextBatch /\ nextBatch' # nextBatch
    BY <1>7, <2>2
  <2>3. QED
    BY <2>1, <2>2
<1>14. SettledAlike'
  <2> SUFFICES ASSUME NEW b \in BatchIds, NEW d \in Devices, item'[b][d].status \in Settled
               PROVE  task'[item'[b][d].task].status = item'[b][d].status
    BY DEF SettledAlike
  <2>1. CASE b # nextBatch \/ nextBatch' = nextBatch
    <3>1. item'[b] = item[b]
      BY <1>6, <2>1
    <3>2. item[b][d].task \in TaskIds /\ task[item[b][d].task].status # "none"
      BY <1>3, <3>1 DEF TablesLinked, Settled
    <3>3. task[item[b][d].task].status = item[b][d].status
      BY <1>3, <3>1 DEF SettledAlike
    <3>4. QED
      BY <1>9, <3>1, <3>2, <3>3
  <2>2. CASE b = nextBatch /\ nextBatch' # nextBatch
    <3>1. item'[b][d].status \in Active \cup {"none"}
      BY <1>7, <1>10, <2>2 DEF Active
    <3>2. QED
      BY <3>1 DEF Active, Settled
  <2>3. QED
    BY <2>1, <2>2
<1>15. ASSUME NEW c \in Actors \ {r}, NEW q \in TxRow, TxOK(c, q), q = tx[c]
       PROVE  TxOK(c, q)'
  <2>1. \A t \in TaskIds : Locks(q, t) => task[t].status # "none"
    BY <1>15 DEF TxOK, LocksOK, Statuses, Active, Settled
  <2>2. LocksOK(q)'
    BY <1>9, <1>15, <2>1 DEF TxOK, LocksOK, Locks, Counted
  <2>3. ASSUME NEW b \in BatchIds, b \in q.todo \/ Counted(q, b)
        PROVE  item'[b] = item[b] /\ b < nextBatch'
    <3>1. b < nextBatch
      BY <1>15, <2>3 DEF TxOK, RecountsOK
    <3>2. b # nextBatch /\ b < nextBatch'
      BY <1>6, <1>8, <3>1
    <3>3. QED
      BY <1>6, <3>2
  <2>4. RecountsOK(q)'
    <3> SUFFICES ASSUME NEW b \in BatchIds
                 PROVE  (/\ b \in q.todo \/ Counted(q, b) => b < nextBatch
                         /\ Counted(q, b) => Fits(q.counts[b], [d \in Devices |-> Sees(q, b, d)]))'
      BY DEF RecountsOK
    <3>1. ASSUME Counted(q, b)
          PROVE  Fits(q.counts[b], [d \in Devices |-> Sees(q, b, d)]')
      <4>1. [d \in Devices |-> Sees(q, b, d)]' = [d \in Devices |-> Sees(q, b, d)]
        BY <2>3, <3>1 DEF Sees, Locks
      <4>2. QED
        BY <1>15, <3>1, <4>1 DEF TxOK, RecountsOK
    <3>2. QED
      BY <2>3, <3>1 DEF Counted, Fits
  <2>5. c \in Sessions => Covers(q)'
    <3> SUFFICES ASSUME c \in Sessions, NEW b \in BatchIds, NEW d \in Devices,
                        item'[b][d].status \in Statuses, item'[b][d].task \in TaskIds,
                        Locks(q, item'[b][d].task)
                 PROVE  b \in q.todo \/ Counted(q, b)
      BY DEF Covers, Locks, Counted
    <3>1. CASE b # nextBatch \/ nextBatch' = nextBatch
      <4>1. item'[b] = item[b]
        BY <1>6, <3>1
      <4>2. QED
        BY <1>15, <4>1 DEF TxOK, Covers
    <3>2. CASE b = nextBatch /\ nextBatch' # nextBatch
      <4>1. task[item'[b][d].task].status # "none"
        BY <2>1
      <4>2. item'[b][d].task < nextTask
        BY <1>8, <4>1
      <4>3. ~(d \in fresh /\ item'[b][d].task = id[d])
        BY <1>5, <1>8, <4>2
      <4>4. item'[b][d].status # "none"
        BY DEF Statuses, Active, Settled
      <4>5. d \in p.devices \ fresh /\ item'[b][d].task = p.seen[d].id
        BY <1>7, <3>2, <4>3, <4>4
      <4>6. QED
        BY <1>4, <1>7, <1>15, <3>2, <4>5
    <3>3. QED
      BY <3>1, <3>2
  <2>6. c \in Requests => RequestOK(q)'
    <3> SUFFICES ASSUME c \in Requests PROVE RequestOK(q)'
      OBVIOUS
    <3>1. RequestOK(q)
      BY <1>15 DEF TxOK
    <3>2. \A d \in Devices : q.seen[d].id # NoTask => q.seen[d].id \in TaskIds
      BY DEF TxRow, SeenRow
    <3>3. \A d \in Devices : q.seen[d].id # NoTask =>
             task'[q.seen[d].id].status # "none" /\ task'[q.seen[d].id].device = d
      BY <1>9, <3>1, <3>2 DEF RequestOK
    <3>4. \A t \in TaskIds : Locks(q, t) => task'[t].device \in q.devices
      BY <1>9, <2>1, <3>1 DEF RequestOK
    <3>5. \A b \in BatchIds : b \in q.todo \/ Counted(q, b) =>
             \A d \in q.devices : item'[b][d].status # "none"
      BY <2>3, <3>1 DEF RequestOK
    <3>6. QED
      BY <3>1, <3>3, <3>4, <3>5 DEF RequestOK, Locks, Counted
  <2>7. QED
    BY <1>15, <2>2, <2>4, <2>5, <2>6 DEF TxOK
<1>16. QED
  BY <1>3, <1>4, <1>11, <1>12, <1>13, <1>14, <1>15, TableStep DEF TablesOK

-----------------------------------------------------------------------------
(***************************************************************************)
(* What the invariant is for.                                              *)
(***************************************************************************)
LEMMA BatchInvStart == Init => BatchInv
<1> SUFFICES ASSUME Init PROVE BatchInv
  OBVIOUS
<1>1. NoCount.status = "none" /\ NoCount \in CountType
  BY TypesOfIdle DEF NoCount
<1>2. TableTypes
  BY <1>1, BoundsAssumption
     DEF Init, TableTypes, TaskRow, ItemRow, RowStates, NoTask
<1>3. /\ \A t \in TaskIds : task[t].status = "none"
      /\ \A b \in BatchIds : batch[b] = NoCount /\ \A d \in Devices : item[b][d].status = "none"
  BY DEF Init
<1>4. TablesLinked /\ CountersFit /\ SettledAlike
  BY <1>1, <1>3 DEF TablesLinked, CountersFit, SettledAlike, Settled
<1>5. tx \in [Actors -> TxRow] /\ \A a \in Actors : tx[a] = IdleTx
  BY TypesOfIdle DEF Init
<1>6. QED
  BY <1>2, <1>4, <1>5, IdleIsOK DEF BatchInv, TablesOK

(* Every step keeps the invariant ...                                      *)
LEMMA BatchInvStep == BatchInv /\ [Next]_vars => BatchInv'
<1> SUFFICES ASSUME BatchInv, [Next]_vars PROVE BatchInv'
  OBVIOUS
<1>1. CASE UNCHANGED vars
  <2>1. UNCHANGED <<tables, tx>>
    BY <1>1 DEF vars, tables
  <2>2. QED
    BY <2>1 DEF tables, BatchInv, TablesOK, TableTypes, TablesLinked, CountersFit, SettledAlike,
       TxOK, LocksOK, RecountsOK, RequestOK, Covers, Sees, Apart
<1>2. ASSUME NEW a \in Sessions,
             \/ Claim(a) \/ Commit(a)
             \/ \E t \in TaskIds, result \in {"SUCCESS", "FAILED"} : Settle(a, t, result)
      PROVE  BatchInv'
  BY <1>2, ClaimStep, CommitStep, SettleStep
<1>3. ASSUME NEW r \in Requests,
             \/ EnqueueDevice(r) \/ CreateBatch(r) \/ RetryFailures(r) \/ Enqueue(r)
             \/ DeleteDevice(r) \/ CancelTask(r) \/ Cancelled(r) \/ DeleteCommit(r)
      PROVE  BatchInv'
  BY <1>3, RequestBegins, EnqueueStep, CancelStep, CancelledStep, DeleteStep
<1>4. ASSUME NEW a \in Actors, Rollback(a) \/ \E b \in BatchIds : RefreshBatch(a, b)
      PROVE  BatchInv'
  BY <1>4, RollbackStep, RefreshStep
<1>5. QED
  BY <1>1, <1>2, <1>3, <1>4 DEF Next

(* ... which therefore always holds.                                       *)
LEMMA BatchInvHolds == Spec => []BatchInv
BY BatchInvStart, BatchInvStep, PTL DEF Spec

(* The tables and the open transactions keep their types.                  *)
THEOREM TypeCorrect == Spec => []TypeOK
<1>1. BatchInv => TypeOK
  BY DEF BatchInv, TablesOK, TableTypes, TypeOK, TaskRow, ItemRow, TxRow, SeenRow
<1>2. QED
  BY <1>1, BatchInvHolds, PTL

(* The persisted counters of a batch are those of its items at every       *)
(* commit, however many claims, settlements and cancellations change the   *)
(* items of a batch at once (refresh_scan_batches).                        *)
THEOREM CountersMatchItemsHolds == Spec => []CountersMatchItems
<1>1. BatchInv => CountersMatchItems
  <2> SUFFICES ASSUME BatchInv, NEW b \in Created, Intact(b)
               PROVE  batch[b] = Tally([d \in Devices |-> item[b][d].status])
    BY DEF CountersMatchItems
  <2>1. PICK st : st = [d \in Devices |-> item[b][d].status]
    OBVIOUS
  <2>2. Fits(batch[b], st) /\ \A d \in Devices : st[d] # "gone"
    BY <2>1 DEF BatchInv, TablesOK, CountersFit, Created, Intact
  <2>3. QED
    BY <2>1, <2>2 DEF Fits
<1>2. QED
  BY <1>1, BatchInvHolds, PTL

(* A batch that is reported COMPLETED has no task that waits or runs, even *)
(* when an item was attached with the status its task had earlier, and     *)
(* even when devices of the batch have been deleted.                       *)
THEOREM CompletedIsSettledHolds == Spec => []CompletedIsSettled
<1>1. BatchInv => CompletedIsSettled
  <2> SUFFICES ASSUME BatchInv, NEW b \in Created, batch[b].status = "COMPLETED",
                      NEW d \in Devices, item[b][d].status \in Statuses
               PROVE  /\ item[b][d].status \in Settled
                      /\ task[item[b][d].task].status = item[b][d].status
    BY DEF CompletedIsSettled
  <2>1. PICK st : st = [e \in Devices |-> item[b][e].status]
    OBVIOUS
  <2>2. b \in BatchIds /\ Fits(batch[b], st)
    BY <2>1 DEF BatchInv, TablesOK, CountersFit, Created
  <2>3. item[b][d].status \in Settled
    BY <2>1, <2>2 DEF Fits, Statuses
  <2>4. QED
    BY <2>2, <2>3 DEF BatchInv, TablesOK, SettledAlike
<1>2. QED
  BY <1>1, BatchInvHolds, PTL

-----------------------------------------------------------------------------
(***************************************************************************)
(* The length of the queue.  Each process has its own _enqueue_lock and    *)
(* its own QueueSize places.  Every active task has a place of some        *)
(* process, and a request that has found room has places of its own        *)
(* process reserved for the tasks it will insert.  A request that reads    *)
(* the queue counts all active tasks: they and its own new ones then fit   *)
(* into the places of its process, in which nobody else has a reservation. *)
(***************************************************************************)
Places == Processes \X (1..QueueSize)

(* The devices for which a request is about to insert a task.              *)
Pending(q) == IF q.op \in {"enqueue", "batch"} THEN FreshOf(q) ELSE {}

(* _enqueue_lock: one holder in each process.                              *)
OneHolder ==
    \A q, r \in Requests :
        /\ HoldsEnqueueLock(q) /\ HoldsEnqueueLock(r)
        /\ ProcessOf[q] = ProcessOf[r]
        => q = r

TasksPlaced(place) ==
    /\ \A t \in ActiveTasks : place[t] \in Places
    /\ \A s, t \in ActiveTasks : place[s] = place[t] => s = t

Reserved(place, res, r) ==
    /\ \A d \in Pending(tx[r]) : res[r][d] \in 1..QueueSize
    /\ \A d, e \in Pending(tx[r]) : res[r][d] = res[r][e] => d = e
    /\ \A d \in Pending(tx[r]), t \in ActiveTasks : place[t] # <<ProcessOf[r], res[r][d]>>

QueueInv ==
    /\ BatchInv /\ OneHolder
    /\ \E place, res : TasksPlaced(place) /\ \A r \in Requests : Reserved(place, res, r)

(* Whoever holds the lock after a step held it before, with the same reads.*)
HoldersStay ==
    \A r \in Requests : HoldsEnqueueLock(r)' =>
        /\ HoldsEnqueueLock(r)
        /\ tx'[r].op = tx[r].op /\ tx'[r].seen = tx[r].seen /\ tx'[r].devices = tx[r].devices

(* No task is added.                                                       *)
QueueShrinks ==
    \A t \in TaskIds : task'[t].status \in Active => task[t].status \in Active

(* A step reads for a request, enqueues, or does neither.                  *)
LEMMA QueueSteps ==
    ASSUME BatchInv, [Next]_vars
    PROVE  \/ HoldersStay /\ QueueShrinks
           \/ \E r \in Requests : Enqueue(r)
           \/ \E r \in Requests, op \in {"enqueue", "batch", "cancel", "delete"},
                 D \in SUBSET Devices : \E p :
                /\ Reads(r, op, D, p) /\ EnqueueLockFree(r)
                /\ op \in {"enqueue", "batch"} =>
                     QueueHasRoom(op, Cardinality({d \in D : SeenOf(D)[d].id = NoTask}))
<1> USE DEF HoldsEnqueueLock
<1>1. /\ tx \in [Actors -> TxRow] /\ TableTypes
      /\ Requests \subseteq Actors /\ Sessions \subseteq Actors /\ Requests \cap Sessions = {}
  BY RequestsAssumption DEF BatchInv, TablesOK, Actors
<1>2. ASSUME UNCHANGED task PROVE QueueShrinks
  BY <1>2 DEF QueueShrinks
<1>3. ASSUME NEW a \in Actors, NEW q, tx' = [tx EXCEPT ![a] = q],
             q.op \notin {"enqueue", "batch", "cancel"}
      PROVE  HoldersStay
  <2>1. \A r \in Requests : tx'[r] = IF r = a THEN q ELSE tx[r]
    BY <1>1, <1>3
  <2>2. QED
    BY <1>3, <2>1 DEF HoldersStay
<1>4. IdleTx.op = "idle"
  BY DEF IdleTx
<1>5. CASE UNCHANGED vars
  BY <1>5 DEF vars, HoldersStay, QueueShrinks
<1>6. ASSUME NEW a \in Sessions,
             Claim(a) \/ \E t \in TaskIds, result \in {"SUCCESS", "FAILED"} : Settle(a, t, result)
      PROVE  HoldersStay /\ QueueShrinks
  <2>1. UNCHANGED task
    BY <1>6 DEF Claim, Settle
  <2>2. PICK op \in {"claim", "settle"} : \E rows : Begin(a, op, rows)
    BY <1>6 DEF Claim, Settle
  <2>3. PICK rows : Begin(a, op, rows)
    BY <2>2
  <2>4. PICK q : q = [IdleTx EXCEPT !.op = op, !.rows = rows,
             !.todo = BatchesOf({t \in TaskIds : rows[t] # "none"})]
    OBVIOUS
  <2>5. tx' = [tx EXCEPT ![a] = q] /\ q.op = op
    BY <2>3, <2>4 DEF Begin, IdleTx
  <2>6. QED
    BY <1>1, <1>2, <1>3, <2>1, <2>5
<1>7. ASSUME NEW a \in Actors, Rollback(a)
      PROVE  HoldersStay /\ QueueShrinks
  BY <1>2, <1>3, <1>4, <1>7 DEF Rollback
<1>8. ASSUME NEW a \in Actors, NEW q, tx' = [tx EXCEPT ![a] = q], UNCHANGED task,
             q.op = tx[a].op, q.seen = tx[a].seen, q.devices = tx[a].devices
      PROVE  HoldersStay /\ QueueShrinks
  <2>1. \A r \in Requests : tx'[r] = IF r = a THEN q ELSE tx[r]
    BY <1>1, <1>8
  <2>2. QED
    BY <1>2, <1>8, <2>1 DEF HoldersStay
<1>9. ASSUME NEW a \in Actors, NEW b \in BatchIds, RefreshBatch(a, b)
      PROVE  HoldersStay /\ QueueShrinks
  <2>1. tx[a] \in TxRow
    BY <1>1
  <2>2. PICK c : c = Tally([d \in Devices |-> ItemStatus(a, b, d)])
    OBVIOUS
  <2>3. PICK q : q = [tx[a] EXCEPT !.todo = @ \ {b}, !.counts = [@ EXCEPT ![b] = c]]
    OBVIOUS
  <2>4. tx' = [tx EXCEPT ![a] = q] /\ UNCHANGED task
    BY <1>1, <1>9, <2>1, <2>2, <2>3 DEF RefreshBatch, TxRow
  <2>5. q.op = tx[a].op /\ q.seen = tx[a].seen /\ q.devices = tx[a].devices
    BY <2>1, <2>3 DEF TxRow
  <2>6. QED
    BY <1>8, <2>4, <2>5
<1>10. ASSUME NEW r \in Requests, CancelTask(r)
       PROVE  HoldersStay /\ QueueShrinks
  <2>1. tx[r] \in TxRow
    BY <1>1
  <2>2. PICK t : tx' = [tx EXCEPT ![r].rows[t] = "CANCELLED", ![r].todo = BatchesOf({t})]
    BY <1>10 DEF CancelTask
  <2>3. PICK q : q = [tx[r] EXCEPT !.rows = [@ EXCEPT ![t] = "CANCELLED"], !.todo = BatchesOf({t})]
    OBVIOUS
  <2>4. tx' = [tx EXCEPT ![r] = q] /\ UNCHANGED task
    BY <1>1, <1>10, <2>1, <2>2, <2>3 DEF CancelTask, TxRow
  <2>5. q.op = tx[r].op /\ q.seen = tx[r].seen /\ q.devices = tx[r].devices
    BY <2>1, <2>3 DEF TxRow
  <2>6. QED
    BY <1>1, <1>8, <2>4, <2>5
<1>11. ASSUME NEW r \in Requests, Cancelled(r)
       PROVE  HoldersStay /\ QueueShrinks
  <2>1. tx[r] \in TxRow
    BY <1>1
  <2>2. PICK q : q = [tx[r] EXCEPT !.op = "delete"]
    OBVIOUS
  <2>3. tx' = [tx EXCEPT ![r] = q] /\ UNCHANGED task /\ q.op = "delete"
    BY <1>1, <1>11, <2>1, <2>2 DEF Cancelled, TxRow
  <2>4. QED
    BY <1>1, <1>2, <1>3, <2>3
<1>12. ASSUME NEW a \in Sessions, Commit(a)
       PROVE  HoldersStay /\ QueueShrinks
  <2>1. tx' = [tx EXCEPT ![a] = IdleTx]
    BY <1>12 DEF Commit
  <2>2. ASSUME NEW t \in TaskIds
        PROVE  task'[t].status \in Active => task[t].status \in Active
    <3>1. task[t] \in TaskRow /\ tx[a] \in TxRow /\ LocksOK(tx[a])
      BY <1>1 DEF TableTypes, BatchInv, TxOK
    <3>2. task'[t] = [task[t] EXCEPT !.status =
                        IF tx[a].rows[t] = "none" THEN @ ELSE tx[a].rows[t]]
      BY <1>12 DEF Commit, WrittenTask
    <3>3. task'[t].status = IF Locks(tx[a], t) THEN tx[a].rows[t] ELSE task[t].status
      BY <3>1, <3>2 DEF TaskRow, Locks
    <3>4. QED
      BY <3>1, <3>3 DEF LocksOK
  <2>3. QED
    BY <1>1, <1>3, <1>4, <2>1, <2>2 DEF QueueShrinks
<1>13. ASSUME NEW r \in Requests, DeleteCommit(r)
       PROVE  HoldersStay /\ QueueShrinks
  <2>1. tx' = [tx EXCEPT ![r] = IdleTx]
    BY <1>13 DEF DeleteCommit
  <2>2. ASSUME NEW t \in TaskIds
        PROVE  task'[t].status \in Active => task[t].status \in Active
    <3>1. task[t] \in TaskRow
      BY <1>1 DEF TableTypes
    <3>2. task'[t] = task[t] \/ task'[t] = [task[t] EXCEPT !.status = "gone"]
      BY <1>13 DEF DeleteCommit
    <3>3. QED
      BY <3>1, <3>2 DEF TaskRow, Active
  <2>3. QED
    BY <1>1, <1>3, <1>4, <2>1, <2>2 DEF QueueShrinks
<1>14. ASSUME NEW r \in Requests,
              EnqueueDevice(r) \/ CreateBatch(r) \/ RetryFailures(r) \/ DeleteDevice(r)
       PROVE  \E op \in {"enqueue", "batch", "cancel", "delete"}, D \in SUBSET Devices : \E p :
                /\ Reads(r, op, D, p) /\ EnqueueLockFree(r)
                /\ op \in {"enqueue", "batch"} =>
                     QueueHasRoom(op, Cardinality({d \in D : SeenOf(D)[d].id = NoTask}))
  <2>1. CASE EnqueueDevice(r) \/ CreateBatch(r) \/ RetryFailures(r)
    BY <2>1, RequestReads
  <2>2. CASE DeleteDevice(r)
    <3>1. PICK d \in Devices, op \in {"cancel", "delete"} : Reads(r, op, {d}, 0)
      BY <2>2, DeleteReads
    <3>2. {d} \in SUBSET Devices /\ EnqueueLockFree(r)
      BY <2>2, DeleteReads
    <3>3. QED
      BY <3>1, <3>2
  <2>3. QED
    BY <1>14, <2>1, <2>2
<1>15. QED
  BY <1>5, <1>6, <1>7, <1>9, <1>10, <1>11, <1>12, <1>13, <1>14 DEF Next

(* Sets of tasks can be counted.                                           *)
LEMMA ActiveFinite ==
    ASSUME NEW T \in SUBSET TaskIds
    PROVE  IsFiniteSet(T) /\ Cardinality(T) \in Nat
<1>1. IsFiniteSet(TaskIds)
  BY BoundsAssumption, FS_Interval DEF TaskIds
<1>2. QED
  BY <1>1, FS_Subset, FS_CardinalityType

(* The elements of a finite set can be numbered.                           *)
LEMMA Numbering ==
    ASSUME NEW S, IsFiniteSet(S)
    PROVE  \E num : /\ \A x \in S : num[x] \in 1..Cardinality(S)
                    /\ \A x, y \in S : num[x] = num[y] => x = y
<1>1. PICK n : n = Cardinality(S)
  OBVIOUS
<1>2. PICK f \in Bijection(1..n, S) : TRUE
  BY <1>1, FS_CardinalityType DEF ExistsBijection
<1>3. \A x \in S : \E i \in 1..n : f[i] = x
  BY <1>2 DEF Bijection, Surjection
<1>4. PICK num : num = [x \in S |-> CHOOSE i \in 1..n : f[i] = x]
  OBVIOUS
<1>5. \A x \in S : num[x] \in 1..n /\ f[num[x]] = x
  BY <1>3, <1>4
<1>6. QED
  BY <1>1, <1>5

(* A step that adds no task and no reservation needs no other places.      *)
LEMMA ShrinkingFits ==
    ASSUME QueueInv, BatchInv', HoldersStay, QueueShrinks
    PROVE  QueueInv'
<1>1. OneHolder'
  BY DEF HoldersStay, QueueInv, OneHolder
<1>2. PICK place, res : TasksPlaced(place) /\ \A r \in Requests : Reserved(place, res, r)
  BY DEF QueueInv
<1>3. ActiveTasks' \in SUBSET ActiveTasks
  BY DEF ActiveTasks, QueueShrinks
<1>4. TasksPlaced(place)'
  BY <1>2, <1>3 DEF TasksPlaced, Places
<1>5. ASSUME NEW r \in Requests PROVE Reserved(place, res, r)'
  <2>1. Pending(tx'[r]) \in SUBSET Pending(tx[r])
    BY DEF HoldersStay, HoldsEnqueueLock, Pending, FreshOf
  <2>2. Reserved(place, res, r)
    BY <1>2
  <2>3. Pending(tx[r])' = Pending(tx'[r])
    BY DEF Pending, FreshOf
  <2>4. QED
    BY <1>3, <2>1, <2>2, <2>3 DEF Reserved
<1>6. QED
  BY <1>1, <1>4, <1>5 DEF QueueInv

(* The new tasks are those of the new ids.                                 *)
LEMMA EnqueueIds ==
    ASSUME BatchInv, NEW r \in Requests, Enqueue(r), NEW p, p = tx[r],
           NEW fresh, fresh = FreshOf(p), NEW id, id = IdsOf(p)
    PROVE  /\ \A t \in TaskIds :
                (\A d \in fresh : id[d] # t) => task'[t].status = task[t].status
           /\ \A d \in fresh : task'[id[d]].device = d
<1>1. \A t \in TaskIds : (\A d \in fresh : id[d] # t) => task'[t].status = task[t].status
  BY EnqueueTasks
<1>2. /\ task' \in [TaskIds -> TaskRow] /\ nextTask' \in 1..(MaxTasks + 1)
      /\ nextTask <= nextTask'
      /\ \A t \in TaskIds : t < nextTask =>
           task'[t].device = task[t].device /\ task'[t].status = task[t].status
      /\ \A t \in TaskIds : t >= nextTask' => task'[t].status = "none"
      /\ \A d \in fresh :
           /\ id[d] \in TaskIds /\ nextTask <= id[d]
           /\ task'[id[d]].device = d /\ task'[id[d]].status = "PENDING"
  BY EnqueueTasks
<1>3. QED
  BY <1>1, <1>2

(* An enqueueing request puts its tasks into the places it has reserved.   *)
LEMMA EnqueueFits ==
    ASSUME QueueInv, BatchInv', NEW r \in Requests, Enqueue(r)
    PROVE  QueueInv'
<1>1. PICK p : p = tx[r]
  OBVIOUS
<1>2. PICK fresh : fresh = FreshOf(p)
  OBVIOUS
<1>id. PICK id : id = IdsOf(p)
  OBVIOUS
<1>inv. BatchInv
  BY DEF QueueInv
<1>3. /\ tx \in [Actors -> TxRow] /\ Requests \subseteq Actors
      /\ ProcessOf \in [Requests -> Processes]
  BY RequestsAssumption DEF QueueInv, BatchInv, Actors
<1>4. /\ \A t \in TaskIds : (\A d \in fresh : id[d] # t) => task'[t].status = task[t].status
      /\ \A d \in fresh : task'[id[d]].device = d
  BY <1>1, <1>2, <1>id, <1>inv, EnqueueIds
<1>5. /\ tx' = [tx EXCEPT ![r] = IdleTx] /\ HoldsEnqueueLock(r)
      /\ Pending(p) = fresh
  BY <1>1, <1>2 DEF Enqueue, HoldsEnqueueLock, Pending
<1>6. \A q \in Requests : tx'[q] = IF q = r THEN IdleTx ELSE tx[q]
  BY <1>3, <1>5
<1>7. OneHolder'
  BY <1>6 DEF QueueInv, OneHolder, HoldsEnqueueLock, IdleTx
<1>8. PICK place, res : TasksPlaced(place) /\ \A q \in Requests : Reserved(place, res, q)
  BY DEF QueueInv
<1>9. PICK old, new : old = ActiveTasks /\ new = ActiveTasks'
  OBVIOUS
<1>10. PICK own : own = [t \in TaskIds |-> task'[t].device]
  OBVIOUS
<1>11. \A t \in new : t \in TaskIds /\ (t \in old \/ (own[t] \in fresh /\ id[own[t]] = t))
  BY <1>4, <1>9, <1>10 DEF ActiveTasks
<1>12. PICK pl : pl = [t \in TaskIds |->
                         IF t \in old THEN place[t] ELSE <<ProcessOf[r], res[r][own[t]]>>]
  OBVIOUS
<1>13. /\ \A d \in fresh : res[r][d] \in 1..QueueSize
       /\ \A d, e \in fresh : res[r][d] = res[r][e] => d = e
       /\ \A d \in fresh, t \in old : place[t] # <<ProcessOf[r], res[r][d]>>
       /\ ProcessOf[r] \in Processes
  BY <1>1, <1>3, <1>5, <1>8, <1>9 DEF Reserved
<1>14. TasksPlaced(pl)'
  <2>1. /\ \A t \in old : place[t] \in Places
        /\ \A s, t \in old : place[s] = place[t] => s = t
    BY <1>8, <1>9 DEF TasksPlaced
  <2>2. \A t \in new : pl[t] \in Places
    BY <1>11, <1>12, <1>13, <2>1 DEF Places
  <2>3. ASSUME NEW s \in new, NEW t \in new, pl[s] = pl[t] PROVE s = t
    <3>1. CASE s \in old /\ t \in old
      BY <1>11, <1>12, <2>1, <2>3, <3>1
    <3>2. CASE s \in old /\ t \notin old
      BY <1>11, <1>12, <1>13, <2>3, <3>2
    <3>3. CASE s \notin old /\ t \in old
      BY <1>11, <1>12, <1>13, <2>3, <3>3
    <3>4. CASE s \notin old /\ t \notin old
      BY <1>11, <1>12, <1>13, <2>3, <3>4
    <3>5. QED
      BY <3>1, <3>2, <3>3, <3>4
  <2>4. QED
    BY <1>9, <2>2, <2>3 DEF TasksPlaced, Places
<1>15. ASSUME NEW q \in Requests PROVE Reserved(pl, res, q)'
  <2>1. Pending(tx[q])' = Pending(tx'[q])
    BY DEF Pending, FreshOf
  <2>2. CASE q = r
    <3>1. Pending(tx[q])' = {}
      BY <1>6, <2>1, <2>2 DEF Pending, IdleTx
    <3>2. QED
      BY <3>1 DEF Reserved
  <2>3. CASE q # r
    <3>1. Pending(tx[q])' = Pending(tx[q])
      BY <1>6, <2>1, <2>3
    <3>2. /\ \A d \in Pending(tx[q]) : res[q][d] \in 1..QueueSize
          /\ \A d, e \in Pending(tx[q]) : res[q][d] = res[q][e] => d = e
          /\ \A d \in Pending(tx[q]), t \in old : place[t] # <<ProcessOf[q], res[q][d]>>
      BY <1>8, <1>9 DEF Reserved
    <3>3. ASSUME NEW d \in Pending(tx[q]), NEW t \in new
          PROVE  pl[t] # <<ProcessOf[q], res[q][d]>>
      <4>1. HoldsEnqueueLock(q)
        BY <3>3 DEF Pending, HoldsEnqueueLock
      <4>2. ProcessOf[q] # ProcessOf[r]
        BY <1>5, <2>3, <4>1 DEF QueueInv, OneHolder
      <4>3. QED
        BY <1>11, <1>12, <3>2, <4>2
    <3>4. QED
      BY <1>9, <3>1, <3>2, <3>3 DEF Reserved
  <2>4. QED
    BY <2>2, <2>3
<1>16. QED
  BY <1>7, <1>14, <1>15 DEF QueueInv

(* A request that has read the queue: when it will insert tasks, all       *)
(* active ones and its own move to the places of its process.              *)
LEMMA ReadFits ==
    ASSUME QueueInv, BatchInv', NEW r \in Requests,
           NEW op \in {"enqueue", "batch", "cancel", "delete"},
           NEW D \in SUBSET Devices, NEW p, Reads(r, op, D, p), EnqueueLockFree(r),
           op \in {"enqueue", "batch"} =>
                QueueHasRoom(op, Cardinality({d \in D : SeenOf(D)[d].id = NoTask}))
    PROVE  QueueInv'
<1>1. PICK seen : seen = SeenOf(D)
  OBVIOUS
<1>2. PICK x : x = [IdleTx EXCEPT !.op = op, !.devices = D, !.seen = seen, !.priority = p]
  OBVIOUS
<1>3. /\ tx' = [tx EXCEPT ![r] = x] /\ UNCHANGED tables
      /\ x.op = op /\ x.devices = D /\ x.seen = seen
  BY <1>1, <1>2 DEF Reads, IdleTx
<1>4. /\ tx \in [Actors -> TxRow] /\ Requests \subseteq Actors /\ QueueSize \in Nat
      /\ ProcessOf \in [Requests -> Processes]
  BY RequestsAssumption, BoundsAssumption DEF QueueInv, BatchInv, Actors
<1>5. \A q \in Requests : tx'[q] = IF q = r THEN x ELSE tx[q]
  BY <1>3, <1>4
<1>6. \A q \in Requests : ProcessOf[q] = ProcessOf[r] => ~HoldsEnqueueLock(q)
  BY DEF EnqueueLockFree
<1>7. OneHolder'
  BY <1>5, <1>6 DEF QueueInv, OneHolder, HoldsEnqueueLock
<1>8. PICK place, res : TasksPlaced(place) /\ \A q \in Requests : Reserved(place, res, q)
  BY DEF QueueInv
<1>9. PICK old : old = ActiveTasks /\ old = ActiveTasks'
  BY <1>3 DEF tables, ActiveTasks
<1>10. PICK fresh : fresh = Pending(x)
  OBVIOUS
<1>11. /\ Pending(tx[r])' = fresh
       /\ \A q \in Requests \ {r} : Pending(tx[q])' = Pending(tx[q])
  BY <1>5, <1>10 DEF Pending, FreshOf
<1>12. \A q \in Requests : Pending(tx[q]) # {} => HoldsEnqueueLock(q)
  BY DEF Pending, HoldsEnqueueLock
<1>13. CASE fresh = {}
  <2>1. TasksPlaced(place)'
    BY <1>8, <1>9 DEF TasksPlaced, Places
  <2>2. ASSUME NEW q \in Requests PROVE Reserved(place, res, q)'
    <3>1. CASE q = r
      BY <1>11, <1>13, <3>1 DEF Reserved
    <3>2. CASE q # r
      BY <1>8, <1>9, <1>11, <3>2 DEF Reserved
    <3>3. QED
      BY <3>1, <3>2
  <2>3. QED
    BY <1>7, <2>1, <2>2 DEF QueueInv
<1>14. CASE fresh # {}
  <2>1. op \in {"enqueue", "batch"} /\ fresh = {d \in D : SeenOf(D)[d].id = NoTask}
    BY <1>1, <1>3, <1>10, <1>14 DEF Pending, FreshOf
  <2>2. fresh \in SUBSET Devices
    BY <2>1
  <2>3. IsFiniteSet(fresh) /\ Cardinality(fresh) \in Nat
    BY <2>2, Finite
  <2>4. Cardinality(fresh) # 0
    BY <1>14, <2>3, FS_EmptySet
  <2>5. Cardinality(old) + Cardinality(fresh) <= QueueSize
    BY <1>9, <2>1, <2>4 DEF QueueHasRoom
  <2>6. old \in SUBSET TaskIds /\ IsFiniteSet(old) /\ Cardinality(old) \in Nat
    BY <1>9, ActiveFinite DEF ActiveTasks
  <2>7. PICK n, m : n = Cardinality(old) /\ m = Cardinality(fresh)
    OBVIOUS
  <2>8. n \in Nat /\ m \in Nat /\ n + m <= QueueSize
    BY <2>3, <2>5, <2>6, <2>7
  <2>9. PICK num : /\ \A t \in old : num[t] \in 1..n
                   /\ \A s, t \in old : num[s] = num[t] => s = t
    BY <2>6, <2>7, Numbering
  <2>10. PICK row : /\ \A d \in fresh : row[d] \in 1..m
                    /\ \A d, e \in fresh : row[d] = row[e] => d = e
    BY <2>3, <2>7, Numbering
  <2>11. PICK pl : pl = [t \in TaskIds |-> <<ProcessOf[r], num[t]>>]
    OBVIOUS
  <2>12. PICK mine : mine = [d \in Devices |-> n + row[d]]
    OBVIOUS
  <2>13. PICK rs : rs = [q \in Requests |-> IF q = r THEN mine ELSE res[q]]
    OBVIOUS
  <2>14. /\ \A t \in old : t \in TaskIds /\ pl[t] = <<ProcessOf[r], num[t]>>
         /\ \A d \in fresh : rs[r][d] = n + row[d]
         /\ \A q \in Requests \ {r} : rs[q] = res[q]
         /\ ProcessOf[r] \in Processes
    BY <1>4, <2>2, <2>6, <2>11, <2>12, <2>13
  <2>15. TasksPlaced(pl)'
    <3>1. \A t \in old : num[t] \in 1..QueueSize
      BY <1>4, <2>8, <2>9
    <3>2. ASSUME NEW t \in old PROVE pl[t] \in Places
      <4>1. pl[t] = <<ProcessOf[r], num[t]>> /\ ProcessOf[r] \in Processes
        BY <2>14
      <4>2. num[t] \in 1..QueueSize
        BY <3>1
      <4>3. QED
        BY <4>1, <4>2 DEF Places
    <3>3. \A s, t \in old : pl[s] = pl[t] => s = t
      BY <2>9, <2>14
    <3>4. QED
      BY <1>9, <3>2, <3>3 DEF TasksPlaced, Places
  <2>16. Reserved(pl, rs, r)'
    <3>1. \A d \in fresh : rs[r][d] \in 1..QueueSize
      BY <1>4, <2>8, <2>10, <2>14
    <3>2. \A d, e \in fresh : rs[r][d] = rs[r][e] => d = e
      BY <2>8, <2>10, <2>14
    <3>3. \A d \in fresh, t \in old : pl[t] # <<ProcessOf[r], rs[r][d]>>
      BY <2>8, <2>9, <2>10, <2>14
    <3>4. QED
      BY <1>9, <1>11, <3>1, <3>2, <3>3 DEF Reserved
  <2>17. ASSUME NEW q \in Requests \ {r} PROVE Reserved(pl, rs, q)'
    <3>1. /\ \A d \in Pending(tx[q]) : res[q][d] \in 1..QueueSize
          /\ \A d, e \in Pending(tx[q]) : res[q][d] = res[q][e] => d = e
      BY <1>8 DEF Reserved
    <3>2. Pending(tx[q]) # {} => ProcessOf[q] # ProcessOf[r]
      BY <1>6, <1>12
    <3>3. \A d \in Pending(tx[q]), t \in old : pl[t] # <<ProcessOf[q], res[q][d]>>
      BY <2>14, <3>2
    <3>4. QED
      BY <1>9, <1>11, <2>14, <3>1, <3>3 DEF Reserved
  <2>18. QED
    BY <1>7, <2>15, <2>16, <2>17 DEF QueueInv
<1>15. QED
  BY <1>13, <1>14

LEMMA QueueInvHolds == Spec => []QueueInv
<1>1. Init => QueueInv
  <2> SUFFICES ASSUME Init PROVE QueueInv
    OBVIOUS
  <2>1. \A r \in Requests : ~HoldsEnqueueLock(r) /\ Pending(tx[r]) = {}
    BY DEF Init, HoldsEnqueueLock, Pending, IdleTx, Actors
  <2>2. ActiveTasks = {}
    BY DEF Init, ActiveTasks, Active
  <2>3. TasksPlaced(<<>>) /\ \A r \in Requests : Reserved(<<>>, <<>>, r)
    BY <2>1, <2>2 DEF TasksPlaced, Reserved
  <2>4. QED
    BY <2>1, <2>3, BatchInvStart DEF QueueInv, OneHolder
<1>2. QueueInv /\ [Next]_vars => QueueInv'
  <2> SUFFICES ASSUME QueueInv, [Next]_vars PROVE QueueInv'
    OBVIOUS
  <2>1. BatchInv /\ BatchInv'
    BY BatchInvStep DEF QueueInv
  <2>2. QED
    BY <2>1, QueueSteps, ShrinkingFits, EnqueueFits, ReadFits
<1>3. QED
  BY <1>1, <1>2, PTL DEF Spec

(* However many processes serve requests, and although each counts the     *)
(* tasks under a lock of its own, the tasks that wait or run are at most   *)
(* SCAN_QUEUE_SIZE for each process.                                       *)
THEOREM QueueOverrunBoundedHolds == Spec => []QueueOverrunBounded
<1>1. QueueInv => QueueOverrunBounded
  <2> SUFFICES ASSUME QueueInv PROVE QueueOverrunBounded
    OBVIOUS
  <2>1. PICK place : TasksPlaced(place)
    BY DEF QueueInv
  <2>2. PICK f : f = [t \in ActiveTasks |-> place[t]]
    OBVIOUS
  <2>3. f \in Injection(ActiveTasks, Places)
    BY <2>1, <2>2 DEF TasksPlaced, Injection, IsInjective
  <2>4. QueueSize \in Nat /\ IsFiniteSet(Processes) /\ Cardinality(Processes) \in Nat
    BY BoundsAssumption, ProcessesAssumption, FS_CardinalityType
  <2>5. IsFiniteSet(1..QueueSize) /\ Cardinality(1..QueueSize) = QueueSize
    BY <2>4, FS_Interval
  <2>6. /\ IsFiniteSet(Places)
        /\ Cardinality(Places) = Cardinality(Processes) * Cardinality(1..QueueSize)
    BY <2>4, <2>5, FS_Product DEF Places
  <2>7. Cardinality(Places) = QueueSize * Cardinality(Processes)
    BY <2>4, <2>5, <2>6
  <2>8. Cardinality(ActiveTasks) <= Cardinality(Places)
    BY <2>3, <2>6, FS_Injection
  <2>9. QED
    BY <2>7, <2>8 DEF QueueOverrunBounded
<1>2. QED
  BY <1>1, QueueInvHolds, PTL

=============================================================================
