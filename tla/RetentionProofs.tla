-------------------------- MODULE RetentionProofs --------------------------
(***************************************************************************)
(* What the steps of Retention keep true, for every number of devices,     *)
(* scans, purging processes, days and every chunk size.                    *)
(***************************************************************************)
EXTENDS Retention, FiniteSetTheorems, SequenceTheorems, NaturalsInduction, TLAPS

-----------------------------------------------------------------------------
(***************************************************************************)
(* Sets of ids.                                                            *)
(***************************************************************************)
(* Every set of ids that is not empty has a least one.                     *)
LEMMA LeastId ==
    ASSUME NEW S \in SUBSET Nat, S # {}
    PROVE  \E i \in S : \A j \in S : i <= j
<1>1. PICK i \in S : \A j \in S : ~(<<j, i>> \in OpToRel(<, Nat))
  BY NatLessThanWellFounded, WFMin
<1>2. \A j \in S : ~(j < i)
  BY <1>1 DEF OpToRel
<1>3. QED
  BY <1>2

(* Every set of ids that is not empty has a greatest one.                  *)
LEMMA GreatestId ==
    ASSUME NEW n \in Nat, NEW S \in SUBSET (1..n), S # {}
    PROVE  Max(S) \in S
<1> DEFINE T == {n - i : i \in S}
<1>1. T \subseteq Nat /\ T # {}
  <2>1. \A i \in S : n - i \in Nat
    OBVIOUS
  <2>2. PICK i \in S : TRUE
    OBVIOUS
  <2>3. n - i \in T
    BY <2>2
  <2>4. QED
    BY <2>1, <2>3
<1>2. PICK k \in T : \A j \in T : k <= j
  BY <1>1, LeastId
<1>3. PICK i \in S : k = n - i
  OBVIOUS
<1>4. \A j \in S : i >= j
  BY <1>2, <1>3
<1>5. QED
  BY <1>3, <1>4 DEF Max

(* A chunk takes the least of the ids it is to choose from, and with an id *)
(* every lesser one.                                                       *)
LEMMA FirstChunkEmpty ==
    ASSUME NEW S \in SUBSET Nat, FirstChunk(S) = {}
    PROVE  S = {}
<1> SUFFICES ASSUME S # {} PROVE FALSE
  OBVIOUS
<1> DEFINE below(i) == {j \in S : j < i}
<1>1. PICK i \in S : \A j \in S : i <= j
  BY LeastId
<1>2. below(i) = {}
  <2>1. \A j \in S : i \in Nat /\ j \in Nat /\ i <= j
    BY <1>1
  <2>2. \A j \in S : ~(j < i)
    BY <2>1
  <2>3. QED
    BY <2>2
<1>3. Cardinality(below(i)) < ChunkSize
  BY <1>2, FS_EmptySet, RetentionConstants
<1>4. QED
  BY <1>1, <1>3 DEF FirstChunk

(* With an id the chunk has every smaller id it could have.                *)
LEMMA FirstChunkClosed ==
    ASSUME NEW S \in SUBSET Nat, NEW j \in FirstChunk(S), NEW i \in S, i < j,
           IsFiniteSet(S)
    PROVE  i \in FirstChunk(S)
<1> DEFINE I == {k \in S : k < i}
           J == {k \in S : k < j}
<1>1. IsFiniteSet(J) /\ I \subseteq J
  <2>1. j \in S
    BY DEF FirstChunk
  <2>2. \A k \in S : k < i => k < j
    BY <2>1
  <2>3. I \subseteq J /\ J \subseteq S
    BY <2>2
  <2>4. QED
    BY <2>3, FS_Subset
<1>2. Cardinality(I) <= Cardinality(J) /\ Cardinality(I) \in Nat /\ Cardinality(J) \in Nat
  BY <1>1, FS_Subset, FS_CardinalityType
<1>3. Cardinality(J) < ChunkSize
  BY DEF FirstChunk
<1>4. QED
  BY <1>2, <1>3, RetentionConstants DEF FirstChunk

-----------------------------------------------------------------------------
(***************************************************************************)
(* The invariant.  A purge has chosen its ids some time ago; what makes    *)
(* them still right to delete is that the scans of a device start in the   *)
(* order of their ids and are deleted in that order.                       *)
(***************************************************************************)
ScansOrdered ==
    \A i, j \in DOMAIN scans :
        i < j /\ scans[i].device = scans[j].device =>
            scans[i].started < scans[j].started

(* With a scan every earlier one of its device.                            *)
OldestFirst(S) ==
    \A j \in S, i \in Present :
        i < j /\ scans[i].device = scans[j].device => i \in S

JobOK(job) ==
    /\ job \in PurgeType
    /\ job.now <= day
    /\ job.chosen \subseteq DOMAIN scans
    /\ job.pc = "rawDelete" => job.chosen # {} /\ job.chosen \cap KeptIds = {}
    /\ job.pc = "scanDelete" => OldestFirst(job.chosen)
    /\ job.pc \in {"scan", "scanDelete", "done"} =>
         \A d \in Scanned : \/ RetentionDays(d) \in job.groups
                            \/ Overdue(RetentionDays(d), job.now) = {}
    /\ job.pc = "done" => job.groups = {}

RetentionInv ==
    /\ RetentionTypeOK
    /\ ScansOrdered
    /\ \A p \in Purgers : JobOK(purge[p])
    /\ LatestTwoReadable

(* What a step of the purges, of the scans or of the clock can be; a       *)
(* process that dies takes its purge with it.                              *)
PurgesLost(P) ==
    /\ purge' = [q \in Purgers |-> IF q \in P THEN NoPurge ELSE purge[q]]
    /\ UNCHANGED <<day, scans>>

RetentionStep ==
    \/ \E p \in Purgers : StartPurge(p) \/ PurgeStep(p) \/ PurgeFails(p)
    \/ \E P \in SUBSET Purgers : PurgesLost(P)
    \/ \E d \in Scanned, success \in BOOLEAN : SaveScan(d, success)
    \/ NextDay

(* The inherited retention of a device is a number of days.                *)
LEMMA RetentionDaysType ==
    ASSUME NEW d \in Scanned
    PROVE  RetentionDays(d) \in Nat
BY RetentionConstants DEF RetentionDays

(* The table of scans as a function on 1..n.                               *)
LEMMA ScansTable ==
    ASSUME RetentionTypeOK
    PROVE  /\ Len(scans) \in Nat /\ Len(scans) <= MaxScans
           /\ DOMAIN scans = 1..Len(scans)
           /\ DOMAIN scans \subseteq 1..MaxScans
           /\ \A i \in DOMAIN scans : scans[i] \in ScanType
           /\ IsFiniteSet(Present) /\ Present \subseteq DOMAIN scans
<1>1. Len(scans) \in Nat /\ Len(scans) <= MaxScans /\ DOMAIN scans = 1..Len(scans)
  BY LenProperties DEF RetentionTypeOK
<1>2. \A i \in DOMAIN scans : scans[i] \in ScanType
  BY <1>1, ElementOfSeq DEF RetentionTypeOK
<1>3. DOMAIN scans \subseteq 1..MaxScans
  BY <1>1, RetentionConstants
<1>4. IsFiniteSet(Present)
  <2>1. IsFiniteSet(1..Len(scans))
    BY <1>1, FS_Interval
  <2>2. Present \subseteq 1..Len(scans)
    BY <1>1 DEF Present
  <2>3. QED
    BY <2>1, <2>2, FS_Subset
<1>5. QED
  BY <1>1, <1>2, <1>3, <1>4 DEF Present

(* A purge that has not begun may take anything: it has decided nothing.   *)
LEMMA NoPurgeOK ==
    ASSUME RetentionInv
    PROVE  JobOK(NoPurge)
<1>1. NoPurge \in PurgeType
  BY RetentionConstants DEF NoPurge, PurgeType
<1>2. QED
  BY <1>1 DEF NoPurge, JobOK, RetentionInv, RetentionTypeOK

(* What the table says when it stays as it is.                             *)
LEMMA TableFrozen ==
    ASSUME scans' = scans
    PROVE  /\ Present' = Present /\ KeptIds' = KeptIds
           /\ \A S : OldestFirst(S)' = OldestFirst(S)
           /\ \A days, now : Overdue(days, now)' = Overdue(days, now)
           /\ ScansOrdered' = ScansOrdered
           /\ LatestTwoReadable' = LatestTwoReadable
<1>1. Present' = Present
  BY DEF Present
<1>2. \A i : Newer(i)' = Newer(i)
  BY <1>1 DEF Newer, Older
<1>3. KeptIds' = KeptIds
  BY <1>1, <1>2 DEF KeptIds
<1>4. QED
  BY <1>1, <1>3 DEF OldestFirst, Overdue, ScansOrdered, LatestTwoReadable

(* A purge that moves on without touching the table.                       *)
LEMMA JobSet ==
    ASSUME RetentionInv, NEW p \in Purgers, NEW job, JobOK(job),
           Set(p, job), UNCHANGED <<day, scans>>
    PROVE  RetentionInv'
<1>1. purge' = [purge EXCEPT ![p] = job] /\ day' = day /\ scans' = scans
  BY DEF Set
<1>2. \A q \in Purgers : purge'[q] = IF q = p THEN job ELSE purge[q]
  BY <1>1 DEF RetentionInv, RetentionTypeOK
<1>3. ASSUME NEW q \in Purgers
      PROVE  JobOK(purge[q])'
  <2>1. JobOK(purge'[q])
    BY <1>2 DEF RetentionInv
  <2>2. QED
    BY <1>1, <2>1, TableFrozen DEF JobOK
<1>4. RetentionTypeOK'
  BY <1>1 DEF RetentionInv, RetentionTypeOK, JobOK
<1>5. QED
  BY <1>1, <1>3, <1>4, TableFrozen DEF RetentionInv

(* The steps of a purge that only read.                                    *)
LEMMA PurgeReads ==
    ASSUME RetentionInv, NEW p \in Purgers,
           \/ StartPurge(p) \/ RawSelect(p) \/ ReadGroups(p)
           \/ \E days \in purge[p].groups : ScanSelect(p, days)
           \/ FinishPurge(p) \/ PurgeFails(p)
    PROVE  RetentionInv'
<1> DEFINE job == purge[p]
<1>0. NoPurge \in PurgeType /\ NoPurge.chosen = {}
  BY NoPurgeOK DEF JobOK, NoPurge
<1>1. JobOK(job) /\ job \in PurgeType /\ day \in 0..MaxDay
  BY DEF RetentionInv, RetentionTypeOK, JobOK
<1>2. CASE StartPurge(p)
  <2> DEFINE new == [NoPurge EXCEPT !.pc = "raw", !.now = day]
  <2>1. new \in PurgeType /\ new.pc = "raw" /\ new.now = day /\ new.chosen = {}
    BY <1>0, <1>1 DEF PurgeType
  <2> HIDE DEF new
  <2>2. JobOK(new)
    BY <1>1, <2>1 DEF JobOK
  <2>3. QED
    BY <1>2, <2>2, JobSet DEF StartPurge, new
<1>3. CASE RawSelect(p)
  <2> DEFINE old == {i \in Present \ KeptIds : /\ scans[i].started + RawDays < purge[p].now
                                               /\ i > purge[p].mark}
             ids == FirstChunk(old)
             new == [job EXCEPT !.pc = IF ids = {} THEN "devices" ELSE "rawDelete",
                                !.chosen = ids]
  <2>1. ids \subseteq Present \ KeptIds
    BY DEF FirstChunk
  <2>2. ids \subseteq DOMAIN scans /\ ids \subseteq 1..MaxScans
    BY <2>1, ScansTable DEF RetentionInv
  <2>3. Set(p, new) /\ UNCHANGED <<day, scans>>
    BY <1>3 DEF RawSelect
  <2> HIDE DEF ids
  <2>4. new \in PurgeType
    BY <1>1, <2>2 DEF PurgeType
  <2>5. JobOK(new)
    BY <1>1, <2>1, <2>2, <2>4 DEF JobOK, PurgeType
  <2>6. QED
    BY <2>3, <2>5, JobSet
<1>4. CASE ReadGroups(p)
  <2> DEFINE groups == {RetentionDays(d) : d \in Scanned}
             new == [NoPurge EXCEPT !.pc = "scan", !.now = day, !.groups = groups]
  <2>1. groups \in SUBSET {RetentionDays(d) : d \in Scanned}
    OBVIOUS
  <2>2. \A d \in Scanned : RetentionDays(d) \in groups
    OBVIOUS
  <2> HIDE DEF groups
  <2>3. /\ new \in PurgeType /\ new.pc = "scan" /\ new.now = day /\ new.chosen = {}
        /\ new.groups = groups
    BY <1>0, <1>1, <2>1 DEF PurgeType
  <2> HIDE DEF new
  <2>4. JobOK(new)
    BY <1>1, <2>2, <2>3 DEF JobOK
  <2>5. QED
    BY <1>4, <2>4, JobSet DEF ReadGroups, new, groups
<1>5. ASSUME NEW days \in purge[p].groups, ScanSelect(p, days)
      PROVE  RetentionInv'
  <2> DEFINE due == Overdue(days, job.now)
             ids == FirstChunk(due)
  <2>1. due \subseteq Present /\ due \subseteq Nat /\ IsFiniteSet(due)
    <3>1. due \subseteq Present
      BY DEF Overdue
    <3>2. QED
      BY <3>1, ScansTable, FS_Subset DEF RetentionInv
  <2>2. CASE ids = {}
    <3> DEFINE new == [job EXCEPT !.groups = @ \ {days},
                         !.pc = IF job.groups = {days} THEN "done" ELSE "scan"]
    <3>1. due = {}
      BY <2>1, <2>2, FirstChunkEmpty
    <3>2. Set(p, new) /\ UNCHANGED <<day, scans>> /\ job.pc = "scan"
      BY <1>5, <2>2 DEF ScanSelect, At
    <3>3. new \in PurgeType
      BY <1>1 DEF PurgeType
    <3>4. JobOK(new)
      BY <1>1, <3>1, <3>2, <3>3 DEF JobOK, PurgeType
    <3>5. QED
      BY <3>2, <3>4, JobSet
  <2>3. CASE ids # {}
    <3> DEFINE new == [job EXCEPT !.chosen = ids, !.pc = "scanDelete"]
    <3>1. Set(p, new) /\ UNCHANGED <<day, scans>> /\ job.pc = "scan"
      BY <1>5, <2>3 DEF ScanSelect, At
    <3>2. ids \subseteq due
      BY DEF FirstChunk
    <3>3. ids \subseteq DOMAIN scans /\ ids \subseteq 1..MaxScans
      BY <2>1, <3>2, ScansTable DEF RetentionInv
    <3>4. OldestFirst(ids)
      <4> SUFFICES ASSUME NEW j \in ids, NEW i \in Present, i < j,
                          scans[i].device = scans[j].device
                   PROVE  i \in ids
        BY DEF OldestFirst
      <4>1. j \in due /\ j \in Present /\ i \in DOMAIN scans /\ j \in DOMAIN scans
        BY <2>1, <3>2 DEF Present
      <4>2. scans[i].started < scans[j].started
        BY <4>1 DEF RetentionInv, ScansOrdered
      <4>3. /\ scans[i].started \in Nat /\ scans[j].started \in Nat
            /\ scans[j].device \in Scanned
        BY <4>1, ScansTable DEF RetentionInv, ScanType
      <4>4. RetentionDays(scans[j].device) = days /\ scans[j].started + days < job.now
        BY <4>1 DEF Overdue
      <4>5. days \in Nat /\ job.now \in Nat
        BY <1>1, <4>3, <4>4, RetentionDaysType DEF PurgeType
      <4>6. scans[i].started + days < job.now
        BY <4>2, <4>3, <4>4, <4>5
      <4>7. i \in due
        BY <4>4, <4>6 DEF Overdue
      <4>8. QED
        BY <2>1, <4>7, FirstChunkClosed
    <3> HIDE DEF ids
    <3>5. new \in PurgeType
      BY <1>1, <3>3 DEF PurgeType
    <3>6. JobOK(new)
      BY <1>1, <3>1, <3>3, <3>4, <3>5 DEF JobOK, PurgeType
    <3>7. QED
      BY <3>1, <3>6, JobSet
  <2>4. QED
    BY <2>2, <2>3
<1>6. CASE FinishPurge(p) \/ PurgeFails(p)
  BY <1>6, NoPurgeOK, JobSet DEF FinishPurge, PurgeFails
<1>7. QED
  BY <1>2, <1>3, <1>4, <1>5, <1>6

(* The columns a purge never changes: whose scan it is, how it went, when. *)
SameScans ==
    /\ DOMAIN scans' = DOMAIN scans
    /\ \A i \in DOMAIN scans : /\ scans'[i] \in ScanType
                               /\ scans'[i].device = scans[i].device
                               /\ scans'[i].success = scans[i].success
                               /\ scans'[i].started = scans[i].started

(* A table of the same length with rows of the right type.                 *)
LEMMA SameScansType ==
    ASSUME RetentionTypeOK, SameScans, scans' = [i \in DOMAIN scans |-> scans'[i]]
    PROVE  scans' \in Seq(ScanType) /\ Len(scans') = Len(scans)
<1> DEFINE n == Len(scans)
<1>1. n \in Nat /\ DOMAIN scans = 1..n
  BY ScansTable
<1>2. scans' \in [1..n -> ScanType]
  BY <1>1 DEF SameScans
<1>3. scans' \in Seq(ScanType)
  BY <1>1, <1>2, SeqDef
<1>4. QED
  BY <1>1, <1>2, <1>3, LenProperties

(* A later scan of a device has the greater id.                            *)
LEMMA NewerHasGreaterId ==
    ASSUME RetentionTypeOK, ScansOrdered, NEW i \in DOMAIN scans, NEW j \in Newer(i)
    PROVE  i < j
<1>1. /\ j \in DOMAIN scans /\ scans[j].device = scans[i].device
      /\ \/ scans[i].started < scans[j].started
         \/ scans[i].started = scans[j].started /\ i < j
  BY DEF Newer, Older, Present
<1>2. /\ i \in Nat /\ j \in Nat
      /\ scans[i].started \in Nat /\ scans[j].started \in Nat
  BY <1>1, ScansTable DEF ScanType
<1>3. CASE i = j
  BY <1>1, <1>2, <1>3
<1>4. CASE j < i
  <2>1. scans[j].started < scans[i].started
    BY <1>1, <1>4 DEF ScansOrdered
  <2>2. QED
    BY <1>1, <1>2, <1>4, <2>1
<1>5. QED
  BY <1>2, <1>3, <1>4

(* What is left of the table's readings when scans of C, chosen oldest     *)
(* first, are deleted from it, or none.                                    *)
LEMMA TableShrinks ==
    ASSUME RetentionInv, SameScans, NEW C, OldestFirst(C), Present' = Present \ C
    PROVE  /\ KeptIds' \subseteq KeptIds \ C
           /\ \A S : S \subseteq DOMAIN scans /\ OldestFirst(S) => OldestFirst(S)'
           /\ \A days, now : Overdue(days, now)' \subseteq Overdue(days, now)
           /\ ScansOrdered'
<1>1. RetentionTypeOK /\ ScansOrdered
  BY DEF RetentionInv
<1>2. /\ Present \subseteq DOMAIN scans
      /\ \A i \in Present : i \in DOMAIN scans /\ i \in Nat
  BY <1>1, ScansTable
<1>3. ASSUME NEW i \in Present \ C
      PROVE  Newer(i)' = Newer(i)
  <2>1. ASSUME NEW j \in Present, scans[j].device = scans[i].device, Older(i, j),
               scans[j].success
        PROVE  j \notin C
    <3>1. j \in Newer(i)
      BY <2>1 DEF Newer
    <3>2. i < j
      BY <1>1, <1>2, <3>1, NewerHasGreaterId
    <3>3. QED
      BY <2>1, <3>2 DEF OldestFirst
  <2>2. \A j \in Present : Older(i, j)' <=> Older(i, j)
    BY <1>2 DEF Older, SameScans
  <2>3. QED
    BY <1>2, <2>1, <2>2 DEF Newer, SameScans
<1>4. KeptIds' \subseteq KeptIds \ C
  <2> SUFFICES ASSUME NEW i \in KeptIds' PROVE i \in KeptIds \ C
    OBVIOUS
  <2>1. i \in Present \ C /\ scans'[i].success /\ Cardinality(Newer(i)') < KeptScans
    BY DEF KeptIds
  <2>2. QED
    BY <1>2, <1>3, <2>1 DEF KeptIds, SameScans
<1>5. ASSUME NEW S, S \subseteq DOMAIN scans, OldestFirst(S)
      PROVE  OldestFirst(S)'
  BY <1>2, <1>5 DEF OldestFirst, SameScans
<1>6. ASSUME NEW days, NEW now
      PROVE  Overdue(days, now)' \subseteq Overdue(days, now)
  BY <1>2 DEF Overdue, SameScans
<1>7. ScansOrdered'
  BY <1>1 DEF ScansOrdered, SameScans
<1>8. QED
  BY <1>4, <1>5, <1>6, <1>7

(* A DELETE: job is what the purge of p goes on with.                      *)
LEMMA PurgeDeletes ==
    ASSUME RetentionInv, SameScans, scans' = [i \in DOMAIN scans |-> scans'[i]],
           NEW C, OldestFirst(C), Present' = Present \ C, day' = day,
           \A i \in KeptIds \ C : scans'[i].raw = scans[i].raw,
           NEW p \in Purgers, NEW job, JobOK(job), Set(p, job)
    PROVE  RetentionInv'
<1>1. /\ KeptIds' \subseteq KeptIds \ C /\ ScansOrdered'
      /\ \A S : S \subseteq DOMAIN scans /\ OldestFirst(S) => OldestFirst(S)'
      /\ \A days, now : Overdue(days, now)' \subseteq Overdue(days, now)
  BY TableShrinks
<1>2. purge' = [purge EXCEPT ![p] = job]
  BY DEF Set
<1>3. \A q \in Purgers : purge'[q] = IF q = p THEN job ELSE purge[q]
  BY <1>2 DEF RetentionInv, RetentionTypeOK
<1>4. ASSUME NEW q \in Purgers
      PROVE  JobOK(purge[q])'
  <2>1. JobOK(purge'[q])
    BY <1>3 DEF RetentionInv
  <2>2. QED
    BY <1>1, <2>1 DEF JobOK, SameScans
<1>5. RetentionTypeOK'
  BY <1>2, SameScansType DEF RetentionInv, RetentionTypeOK, JobOK
<1>6. LatestTwoReadable'
  BY <1>1 DEF RetentionInv, LatestTwoReadable
<1>7. QED
  BY <1>1, <1>4, <1>5, <1>6 DEF RetentionInv

(* Deleting a chunk of raw records keeps the invariant.                    *)
LEMMA RawDeleteStep ==
    ASSUME RetentionInv, NEW p \in Purgers, RawDelete(p)
    PROVE  RetentionInv'
<1> DEFINE job == purge[p]
           C == job.chosen
           new == [job EXCEPT !.pc = "raw", !.chosen = {}, !.mark = Max(C)]
<1>1. /\ JobOK(job) /\ job.pc = "rawDelete" /\ scans' = WithoutRaw(C)
      /\ Set(p, new) /\ day' = day
  BY DEF RetentionInv, RawDelete, At
<1>2. C # {} /\ C \subseteq 1..MaxScans /\ C \cap KeptIds = {} /\ job \in PurgeType
  BY <1>1 DEF JobOK, PurgeType
<1> HIDE DEF C
<1>3. Max(C) \in 0..MaxScans
  <2>1. Max(C) \in 1..MaxScans
    BY <1>2, GreatestId, RetentionConstants
  <2>2. QED
    BY <2>1, RetentionConstants
<1>4. \A i \in DOMAIN scans : scans[i] \in ScanType
  BY ScansTable DEF RetentionInv
<1>5. SameScans
  BY <1>1, <1>4 DEF WithoutRaw, SameScans, ScanType
<1>6. \A i \in DOMAIN scans : /\ scans'[i].here = scans[i].here
                              /\ i \notin C => scans'[i].raw = scans[i].raw
  BY <1>1, <1>4 DEF WithoutRaw, ScanType
<1>7. Present' = Present \ {} /\ OldestFirst({})
  BY <1>5, <1>6 DEF Present, SameScans, OldestFirst
<1>8. \A i \in KeptIds \ {} : scans'[i].raw = scans[i].raw
  BY <1>2, <1>6 DEF KeptIds, Present
<1>9. JobOK(new)
  <2>1. new \in PurgeType /\ new.pc = "raw" /\ new.now = job.now /\ new.chosen = {}
    BY <1>2, <1>3 DEF PurgeType
  <2> HIDE DEF new
  <2>2. QED
    BY <1>1, <2>1 DEF JobOK
<1>10. scans' = [i \in DOMAIN scans |-> scans'[i]]
  BY <1>1 DEF WithoutRaw
<1> HIDE DEF new, job
<1>11. QED
  BY <1>1, <1>5, <1>7, <1>8, <1>9, <1>10, PurgeDeletes

(* Deleting a chunk of scans keeps the invariant.                          *)
LEMMA ScanDeleteStep ==
    ASSUME RetentionInv, NEW p \in Purgers, ScanDelete(p)
    PROVE  RetentionInv'
<1> DEFINE job == purge[p]
           C == job.chosen
           new == [job EXCEPT !.pc = "scan", !.chosen = {}]
<1>1. /\ JobOK(job) /\ job.pc = "scanDelete" /\ scans' = WithoutScans(C)
      /\ Set(p, new) /\ day' = day
  BY DEF RetentionInv, ScanDelete, At
<1>2. OldestFirst(C) /\ job \in PurgeType
  BY <1>1 DEF JobOK
<1> HIDE DEF C
<1>3. \A i \in DOMAIN scans : scans[i] \in ScanType
  BY ScansTable DEF RetentionInv
<1>4. SameScans
  BY <1>1, <1>3 DEF WithoutScans, SameScans, ScanType
<1>5. \A i \in DOMAIN scans : /\ scans'[i].here <=> scans[i].here /\ i \notin C
                              /\ i \notin C => scans'[i].raw = scans[i].raw
  BY <1>1, <1>3 DEF WithoutScans, ScanType
<1>6. Present' = Present \ C
  BY <1>4, <1>5 DEF Present, SameScans
<1>7. \A i \in KeptIds \ C : scans'[i].raw = scans[i].raw
  BY <1>5 DEF KeptIds, Present
<1>8. JobOK(new)
  <2>1. /\ new \in PurgeType /\ new.pc = "scan" /\ new.now = job.now
        /\ new.chosen = {} /\ new.groups = job.groups
    BY <1>2 DEF PurgeType
  <2> HIDE DEF new
  <2>2. QED
    BY <1>1, <2>1 DEF JobOK
<1>9. scans' = [i \in DOMAIN scans |-> scans'[i]]
  BY <1>1 DEF WithoutScans
<1> HIDE DEF new, job
<1>10. QED
  BY <1>1, <1>2, <1>4, <1>6, <1>7, <1>8, <1>9, PurgeDeletes

(* A new scan is the newest of its device: it may take a place among the   *)
(* kept ones, and gives none to an older scan.                             *)
LEMMA SaveScanStep ==
    ASSUME RetentionInv, NEW d \in Scanned, NEW success \in BOOLEAN, SaveScan(d, success)
    PROVE  RetentionInv'
<1> DEFINE n == Len(scans)
           row == [device |-> d, success |-> success,
                   started |-> day, raw |-> success, here |-> TRUE]
<1>1. /\ RetentionTypeOK /\ ScansOrdered /\ n \in Nat /\ n < MaxScans
      /\ DOMAIN scans = 1..n /\ MaxScans \in Nat /\ MaxDay \in Nat
      /\ day \in 0..MaxDay /\ day' = day /\ purge' = purge
  BY ScansTable, RetentionConstants DEF RetentionInv, SaveScan, RetentionTypeOK
<1>2. scans' = Append(scans, row) /\ scans \in Seq(ScanType)
  BY <1>1 DEF SaveScan, RetentionTypeOK
<1>3. row \in ScanType
  BY <1>1 DEF ScanType
<1>4. /\ scans' \in Seq(ScanType) /\ Len(scans') = n + 1 /\ DOMAIN scans' = 1..(n + 1)
      /\ \A i \in 1..n : scans'[i] = scans[i]
      /\ scans'[n + 1] = row
  <2> HIDE DEF row
  <2>1. QED
    BY <1>1, <1>2, <1>3, AppendProperties
<1>5. /\ \A i \in DOMAIN scans : i \in Nat /\ i \in 1..(n + 1) /\ i < n + 1 /\ scans[i] \in ScanType
      /\ \A i \in 1..(n + 1) : i \in DOMAIN scans \/ i = n + 1
      /\ n + 1 \notin DOMAIN scans
  BY <1>1, ScansTable
<1>6. Present' = Present \cup {n + 1}
  BY <1>1, <1>4, <1>5 DEF Present
<1>7. RetentionTypeOK'
  BY <1>1, <1>4 DEF RetentionTypeOK
<1>8. ScansOrdered'
  <2> SUFFICES ASSUME NEW i \in 1..(n + 1), NEW j \in 1..(n + 1), i < j,
                      scans'[i].device = scans'[j].device
               PROVE  scans'[i].started < scans'[j].started
    BY <1>4 DEF ScansOrdered
  <2>1. i \in DOMAIN scans
    BY <1>1
  <2>2. CASE j \in DOMAIN scans
    BY <1>1, <1>4, <2>1, <2>2 DEF ScansOrdered
  <2>3. CASE j = n + 1
    <3>1. scans[i].device = d
      BY <1>1, <1>4, <2>1, <2>3
    <3>2. scans[i].started < day
      BY <2>1, <3>1 DEF SaveScan
    <3>3. scans[i].started \in Nat /\ day \in Nat
      BY <1>1, <1>5, <2>1 DEF ScanType
    <3>4. QED
      BY <1>1, <1>4, <2>1, <2>3, <3>2, <3>3
  <2>4. QED
    BY <1>5, <2>2, <2>3
<1>9. KeptIds' \subseteq KeptIds \cup {n + 1}
  <2> SUFFICES ASSUME NEW i \in KeptIds', i # n + 1 PROVE i \in KeptIds
    OBVIOUS
  <2>1. i \in Present /\ scans'[i].success /\ Cardinality(Newer(i)') < KeptScans
    BY <1>6 DEF KeptIds
  <2>2. i \in DOMAIN scans
    BY <2>1 DEF Present
  <2>3. \A j \in Newer(i) : j \in Newer(i)'
    <3> SUFFICES ASSUME NEW j \in Newer(i) PROVE j \in Newer(i)'
      OBVIOUS
    <3>1. /\ j \in Present /\ j \in DOMAIN scans /\ scans[j].device = scans[i].device
          /\ scans[j].success /\ Older(i, j)
      BY DEF Newer, Present
    <3>2. scans'[i] = scans[i] /\ scans'[j] = scans[j]
      BY <1>1, <1>4, <2>2, <3>1
    <3>3. QED
      BY <1>6, <3>1, <3>2 DEF Newer, Older
  <2>4. IsFiniteSet(Newer(i)') /\ Newer(i) \subseteq Newer(i)'
    <3>1. IsFiniteSet(Present')
      BY <1>1, <1>6, ScansTable, FS_AddElement
    <3>2. Newer(i)' \subseteq Present'
      BY DEF Newer
    <3>3. QED
      BY <2>3, <3>1, <3>2, FS_Subset
  <2>5. /\ Cardinality(Newer(i)) <= Cardinality(Newer(i)')
        /\ Cardinality(Newer(i)) \in Nat /\ Cardinality(Newer(i)') \in Nat
    BY <2>4, FS_Subset, FS_CardinalityType
  <2>6. Cardinality(Newer(i)) < KeptScans
    BY <2>1, <2>5, RetentionConstants
  <2>7. QED
    BY <1>1, <1>4, <2>1, <2>2, <2>6 DEF KeptIds
<1>10. LatestTwoReadable'
  <2> SUFFICES ASSUME NEW i \in KeptIds' PROVE scans'[i].raw
    BY DEF LatestTwoReadable
  <2>1. CASE i = n + 1
    <3>1. scans'[i].success
      BY DEF KeptIds
    <3>2. QED
      BY <1>4, <2>1, <3>1
  <2>2. CASE i # n + 1
    <3>1. i \in KeptIds /\ i \in DOMAIN scans
      BY <1>9, <2>2 DEF KeptIds, Present
    <3>2. QED
      BY <1>1, <1>4, <3>1 DEF RetentionInv, LatestTwoReadable
  <2>3. QED
    BY <2>1, <2>2
<1>11. ASSUME NEW S, S \subseteq DOMAIN scans, OldestFirst(S)
       PROVE  OldestFirst(S)'
  <2> SUFFICES ASSUME NEW j \in S, NEW i \in Present', i < j,
                      scans'[i].device = scans'[j].device
               PROVE  i \in S
    BY DEF OldestFirst
  <2>1. j \in DOMAIN scans /\ i \in Present \cup {n + 1}
    BY <1>6, <1>11
  <2>2. i \in Present /\ i \in DOMAIN scans
    BY <1>1, <1>5, <2>1 DEF Present
  <2>3. QED
    BY <1>1, <1>4, <1>11, <2>1, <2>2 DEF OldestFirst
<1>12. ASSUME NEW days \in Nat, NEW now \in Nat, now <= day
       PROVE  Overdue(days, now)' = Overdue(days, now)
  <2>1. n + 1 \notin Overdue(days, now)'
    <3>1. ~(day + days < now)
      BY <1>1, <1>12
    <3>2. QED
      BY <1>4, <3>1 DEF Overdue
  <2>2. \A i \in Present : i \in DOMAIN scans /\ scans'[i] = scans[i]
    BY <1>1, <1>4 DEF Present
  <2>3. QED
    BY <1>6, <2>1, <2>2 DEF Overdue
<1>13. ASSUME NEW p \in Purgers
       PROVE  JobOK(purge[p])'
  <2>1. JobOK(purge[p]) /\ purge[p].now \in Nat
    BY DEF RetentionInv, JobOK, PurgeType
  <2>2. purge[p].chosen \subseteq DOMAIN scans /\ n + 1 \notin purge[p].chosen
    BY <1>5, <2>1 DEF JobOK
  <2>3. \A e \in Scanned : Overdue(RetentionDays(e), purge[p].now)'
                             = Overdue(RetentionDays(e), purge[p].now)
    BY <1>1, <1>12, <2>1, RetentionDaysType DEF JobOK
  <2>4. DOMAIN scans \subseteq DOMAIN scans'
    BY <1>1, <1>4
  <2>5. QED
    BY <1>1, <1>9, <1>11, <2>1, <2>2, <2>3, <2>4 DEF JobOK
<1>14. QED
  BY <1>7, <1>8, <1>10, <1>13 DEF RetentionInv

(* Every step of the purges, the scans and the clock keeps the invariant.  *)
LEMMA RetentionPreserved ==
    ASSUME RetentionInv, RetentionStep
    PROVE  RetentionInv'
<1>1. ASSUME NEW p \in Purgers, StartPurge(p) \/ PurgeStep(p) \/ PurgeFails(p)
      PROVE  RetentionInv'
  BY <1>1, PurgeReads, RawDeleteStep, ScanDeleteStep DEF PurgeStep
<1>2. ASSUME NEW P \in SUBSET Purgers, PurgesLost(P)
      PROVE  RetentionInv'
  <2>1. /\ day' = day /\ scans' = scans
        /\ \A q \in Purgers : JobOK(purge'[q])
    BY <1>2, NoPurgeOK DEF PurgesLost, RetentionInv
  <2>2. \A q \in Purgers : JobOK(purge[q])'
    BY <2>1, TableFrozen DEF JobOK
  <2>3. RetentionTypeOK'
    BY <1>2, <2>1 DEF RetentionInv, RetentionTypeOK, JobOK, PurgesLost
  <2>4. QED
    BY <2>1, <2>2, <2>3, TableFrozen DEF RetentionInv
<1>3. ASSUME NEW d \in Scanned, NEW success \in BOOLEAN, SaveScan(d, success)
      PROVE  RetentionInv'
  BY <1>3, SaveScanStep
<1>4. CASE NextDay
  <2>1. day \in 0..MaxDay /\ day' = day + 1 /\ day < MaxDay /\ scans' = scans /\ purge' = purge
    BY <1>4 DEF NextDay, RetentionInv, RetentionTypeOK
  <2>2. RetentionTypeOK'
    BY <2>1, RetentionConstants DEF RetentionInv, RetentionTypeOK
  <2>3. ASSUME NEW q \in Purgers
        PROVE  JobOK(purge[q])'
    <3>1. JobOK(purge[q]) /\ purge[q].now <= day /\ purge[q].now \in Nat /\ day \in Nat
      BY <2>1 DEF RetentionInv, JobOK, PurgeType
    <3>2. purge[q].now <= day'
      BY <2>1, <3>1
    <3>3. QED
      BY <2>1, <3>1, <3>2, TableFrozen DEF JobOK
  <2>4. QED
    BY <2>1, <2>2, <2>3, TableFrozen DEF RetentionInv
<1>5. QED
  BY <1>1, <1>2, <1>3, <1>4 DEF RetentionStep

(* What the invariant is for.                                              *)
LEMMA RetentionSafe ==
    ASSUME RetentionInv
    PROVE  LatestTwoReadable /\ NothingOverdue
<1>1. ASSUME NEW p \in Purgers, At(p, "done"), NEW d \in Scanned
      PROVE  Overdue(RetentionDays(d), purge[p].now) = {}
  BY <1>1 DEF RetentionInv, JobOK, At
<1>2. QED
  BY <1>1 DEF RetentionInv, NothingOverdue

(* A stutter of the purges keeps it too.                                   *)
LEMMA RetentionStutters ==
    ASSUME RetentionInv, UNCHANGED retentionVars
    PROVE  RetentionInv'
<1>1. day' = day /\ scans' = scans /\ purge' = purge
  BY DEF retentionVars
<1>2. \A q \in Purgers : JobOK(purge[q])'
  BY <1>1, TableFrozen DEF JobOK, RetentionInv
<1>3. QED
  BY <1>1, <1>2, TableFrozen DEF RetentionInv, RetentionTypeOK

=============================================================================
