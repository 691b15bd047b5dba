--------------------------- MODULE HistoryProofs ---------------------------
(***************************************************************************)
(* Theorems about TopologyHistory and ClusterTopology for every number of  *)
(* devices, clusters, scans, purges and readers, and whatever the          *)
(* collectors report.                                                      *)
(***************************************************************************)
EXTENDS ClusterTopology, RetentionProofs

-----------------------------------------------------------------------------
(***************************************************************************)
(* The purge and the latest diff.                                          *)
(***************************************************************************)
(* The first states.                                                       *)
LEMMA HistoryStarts ==
    ASSUME HistoryInit
    PROVE  /\ RetentionInv
           /\ content \in Legacy /\ DOMAIN content = DOMAIN scans
<1> DEFINE n == Len(content)
<1>1. /\ content \in Legacy /\ content \in Seq(Range(content)) /\ n <= MaxScans
      /\ n \in Nat /\ DOMAIN content = 1..n
  <2>1. content \in Legacy /\ content \in Seq(Range(content)) /\ n <= MaxScans
    BY HistoryConstants DEF HistoryInit
  <2>2. QED
    BY <2>1, LenProperties
<1>2. DOMAIN scans = 1..n
  BY <1>1 DEF HistoryInit
<1>3. /\ 0 \in 0..MaxDay /\ NoPurge \in PurgeType
  BY RetentionConstants DEF NoPurge, PurgeType
<1>4. \A i \in 1..n : /\ scans[i] \in ScanType /\ scans[i].raw
  BY <1>1, <1>3 DEF HistoryInit, ScanType
<1>5. scans \in [1..n -> ScanType]
  <2>1. scans = [i \in DOMAIN scans |-> scans[i]]
    BY DEF HistoryInit
  <2>2. QED
    BY <1>2, <1>4, <2>1
<1>6. scans \in Seq(ScanType) /\ Len(scans) = n
  BY <1>1, <1>5, SeqDef, LenProperties
<1>7. RetentionTypeOK
  BY <1>1, <1>3, <1>6 DEF HistoryInit, RetentionTypeOK
<1>8. ScansOrdered
  BY <1>1, <1>2 DEF ScansOrdered, HistoryInit
<1>9. LatestTwoReadable
  BY <1>2, <1>4 DEF LatestTwoReadable, KeptIds, Present
<1>10. ASSUME NEW p \in Purgers
       PROVE  JobOK(purge[p])
  <2>1. purge[p] = NoPurge /\ NoPurge \in PurgeType /\ day = 0
    BY <1>3 DEF HistoryInit
  <2>2. NoPurge.pc = "idle" /\ NoPurge.now = 0 /\ NoPurge.chosen = {}
    BY DEF NoPurge
  <2>3. QED
    BY <2>1, <2>2 DEF JobOK
<1>11. QED
  BY <1>1, <1>2, <1>7, <1>8, <1>9, <1>10 DEF RetentionInv

(* What a step of the whole does to the table of scans.                    *)
LEMMA HistorySteps ==
    ASSUME [HistoryNext]_allVars
    PROVE  \/ /\ UNCHANGED retentionVars
           \/ RetentionStep
<1>1. ASSUME NEW q \in Readers, ReaderStep(q)
      PROVE  UNCHANGED retentionVars
  BY <1>1 DEF ReaderStep, LoadCurrentScans, QueryGroups, QueryLocals, QuerySamples,
              Answer, SetReader
<1>2. CASE UNCHANGED allVars
  BY <1>2 DEF allVars
<1>3. CASE \E d \in Scanned, report \in Reports, success \in BOOLEAN :
             AddScanOutcome(d, report, success)
  BY <1>3 DEF AddScanOutcome, RetentionStep
<1>4. QED
  BY <1>1, <1>2, <1>3 DEF HistoryNext, RetentionStep

(* What Retention guarantees holds while scans are saved and read.         *)
LEMMA HistoryRetains == Spec => []RetentionInv
<1>1. HistoryInit => RetentionInv
  BY HistoryStarts
<1>2. RetentionInv /\ [HistoryNext]_allVars => RetentionInv'
  BY HistorySteps, RetentionPreserved, RetentionStutters
<1>3. QED
  BY <1>1, <1>2, PTL DEF Spec

(* The latest successful scans of every device keep their raw rows, with   *)
(* any number of purges, whatever scans are saved between the SELECT and   *)
(* the DELETE of their chunks.                                             *)
THEOREM LatestTwoReadableHolds == Spec => []LatestTwoReadable
BY HistoryRetains, RetentionSafe, PTL

(* A purge that comes to its end has left no scan of any device beyond the *)
(* retention of that device.                                               *)
THEOREM NothingOverdueHolds == Spec => []NothingOverdue
BY HistoryRetains, RetentionSafe, PTL

(* The scan the diff looks for ranks second.                               *)
LEMMA PreviousIsKept ==
    ASSUME RetentionInv, NEW j \in CurrentScans, NEW i \in Previous(j)
    PROVE  scans[i].raw /\ scans[j].raw
<1>1. /\ j \in Present /\ scans[j].success /\ Newer(j) = {}
      /\ i \in Present /\ scans[i].success
      /\ scans[i].device = scans[j].device /\ scans[i].started < scans[j].started
      /\ \A k \in Present : /\ scans[k].success /\ scans[k].device = scans[j].device
                            /\ scans[k].started < scans[j].started
                            => scans[k].started <= scans[i].started
  BY DEF CurrentScans, Succeeded, Previous
<1>2. /\ RetentionTypeOK /\ ScansOrdered
      /\ \A k \in Present : k \in DOMAIN scans /\ k \in Nat /\ scans[k].started \in Nat
  BY ScansTable DEF RetentionInv, ScanType
<1>3. Newer(i) \subseteq {j}
  <2> SUFFICES ASSUME NEW k \in Newer(i), k # j PROVE FALSE
    OBVIOUS
  <2>1. /\ k \in Present /\ scans[k].device = scans[j].device /\ scans[k].success
        /\ i < k
    BY <1>1, <1>2, NewerHasGreaterId DEF Newer
  <2>2. scans[i].started < scans[k].started
    BY <1>1, <1>2, <2>1 DEF ScansOrdered
  <2>3. ~(scans[k].started < scans[j].started)
    BY <1>1, <1>2, <2>1, <2>2
  <2>4. scans[k].started # scans[j].started
    <3>1. CASE k < j
      BY <1>1, <1>2, <2>1, <2>3, <3>1 DEF ScansOrdered
    <3>2. CASE j < k
      BY <1>1, <1>2, <2>1, <2>3, <3>2 DEF ScansOrdered
    <3>3. QED
      BY <1>1, <1>2, <2>1, <3>1, <3>2
  <2>5. scans[j].started < scans[k].started
    BY <1>1, <1>2, <2>1, <2>3, <2>4
  <2>6. k \in Newer(j)
    BY <2>1, <2>5 DEF Newer, Older
  <2>7. QED
    BY <1>1, <2>6
<1>4. Cardinality(Newer(i)) <= 1 /\ Cardinality(Newer(i)) \in Nat
  <2>1. IsFiniteSet({j}) /\ Cardinality({j}) = 1
    BY FS_Singleton
  <2>2. IsFiniteSet(Newer(i)) /\ Cardinality(Newer(i)) <= Cardinality({j})
    BY <1>3, <2>1, FS_Subset
  <2>3. QED
    BY <2>1, <2>2, FS_CardinalityType
<1>5. Cardinality(Newer(j)) = 0
  BY <1>1, FS_EmptySet
<1>6. i \in KeptIds /\ j \in KeptIds
  <2>1. KeptScans \in Nat /\ KeptScans >= 2
    BY RetentionConstants, HistoryConstants
  <2>2. Cardinality(Newer(i)) < KeptScans /\ Cardinality(Newer(j)) < KeptScans
    BY <1>4, <1>5, <2>1
  <2>3. QED
    BY <1>1, <2>2 DEF KeptIds
<1>7. QED
  BY <1>6 DEF RetentionInv, LatestTwoReadable

(* GET /scans/{id}/diff of a device's latest scan compares two scans that  *)
(* have all their records, at every moment of every purge.                 *)
THEOREM LatestDiffIsWholeHolds == Spec => []LatestDiffIsWhole
<1>1. RetentionInv => LatestDiffIsWhole
  <2> SUFFICES ASSUME RetentionInv, NEW j \in CurrentScans, NEW i \in Previous(j)
               PROVE  DiffScans(i, j) =
                        [added   |-> ConnectionKeys(j) \ ConnectionKeys(i),
                         removed |-> ConnectionKeys(i) \ ConnectionKeys(j)]
    BY DEF LatestDiffIsWhole
  <2>1. scans[i].raw /\ scans[j].raw
    BY PreviousIsKept
  <2>2. QED
    BY <2>1 DEF DiffScans
<1>2. QED
  BY <1>1, HistoryRetains, PTL

-----------------------------------------------------------------------------
(***************************************************************************)
(* The history view, query by query.                                       *)
(***************************************************************************)
(* Sets of days have bounds.                                               *)
LEMMA DayBounds ==
    ASSUME NEW n \in Nat, NEW S \in SUBSET (0..n), NEW e \in S
    PROVE  /\ Min(S) \in 0..n /\ Max(S) \in 0..n
           /\ Min(S) \in S /\ Max(S) \in S
           /\ Min(S) <= e /\ e <= Max(S)
<1> DEFINE T == {i + 1 : i \in S}
<1>1. PICK i \in S : \A j \in S : i <= j
  BY LeastId
<1>2. Min(S) \in S /\ \A j \in S : Min(S) <= j
  BY <1>1 DEF Min
<1>3. e + 1 \in T
  OBVIOUS
<1>4. T \subseteq 1..(n + 1) /\ T # {}
  <2>1. \A j \in S : j + 1 \in 1..(n + 1)
    OBVIOUS
  <2>2. QED
    BY <1>3, <2>1
<1>5. PICK k \in S : \A j \in S : j <= k
  <2> DEFINE U == {n - j : j \in S}
  <2>1. \A j \in S : n - j \in Nat
    OBVIOUS
  <2>2. U \subseteq Nat /\ n - e \in U
    BY <2>1
  <2>3. PICK m \in U : \A u \in U : m <= u
    BY <2>2, LeastId
  <2>4. PICK k \in S : m = n - k
    OBVIOUS
  <2>5. \A j \in S : n - k <= n - j
    BY <2>3, <2>4
  <2>6. QED
    BY <2>5
<1>6. Max(S) \in S /\ \A j \in S : j <= Max(S)
  BY <1>5 DEF Max
<1>7. QED
  BY <1>2, <1>6

(* A table that grows by a row.                                            *)
LEMMA AppendKeeps ==
    ASSUME NEW c, c \in Seq(Range(c)), NEW x, NEW a, a = Append(c, x)
    PROVE  /\ a \in Seq(Range(a)) /\ Len(c) \in Nat /\ Len(a) = Len(c) + 1
           /\ \A i \in 1..Len(c) : a[i] = c[i]
<1> DEFINE n == Len(c)
           R == Range(c) \cup {x}
<1>1. n \in Nat /\ c \in [1..n -> Range(c)]
  BY LenProperties
<1>2. c \in Seq(R)
  <2>1. c \in [1..n -> R]
    BY <1>1
  <2>2. QED
    BY <1>1, <2>1, SeqDef
<1>3. a \in Seq(R) /\ Len(a) = n + 1 /\ \A i \in 1..n : a[i] = c[i]
  BY <1>1, <1>2, AppendProperties
<1>4. a \in [1..(n + 1) -> R]
  BY <1>1, <1>3, LenProperties
<1>5. a \in [1..(n + 1) -> Range(a)]
  <2>1. DOMAIN a = 1..(n + 1) /\ a = [i \in 1..(n + 1) |-> a[i]]
    BY <1>4
  <2>2. \A i \in 1..(n + 1) : a[i] \in Range(a)
    BY <2>1 DEF Range
  <2>3. QED
    BY <2>1, <2>2
<1>6. a \in Seq(Range(a))
  <2> DEFINE m == n + 1
             A == Range(a)
  <2>1. m \in Nat /\ a \in [1..m -> A]
    BY <1>1, <1>5
  <2> HIDE DEF m, A
  <2>2. a \in Seq(A)
    BY <2>1, SeqDef
  <2>3. QED
    BY <2>2 DEF A
<1>7. QED
  BY <1>1, <1>3, <1>6

(* The observations a request is to show: those of its window, of scans it *)
(* can have seen, that are still stored.                                   *)
Wanted(r) ==
    {o \in Observations : /\ o.scan <= r.seen
                          /\ InWindow(o, r.window, r.now, r.current)}

GroupHas(g, o) ==
    /\ g.key = RawKey(o)
    /\ o.scan \in g.scanIds
    /\ scans[o.scan].started \in g.firstSeen..g.lastSeen

Shows(s, o, r) ==
    /\ s.key = [device |-> o.device, service |-> o.service, ip |-> Normalize(o.remote)]
    /\ o.scan \in s.scanIds
    /\ scans[o.scan].started \in s.firstSeen..s.lastSeen
    /\ o.scan \in r.current => s.isCurrent

(* What each query of a request has made sure of for those observations.   *)
ReaderOK(r) ==
    /\ DOMAIN r = {"pc", "window", "now", "current", "seen", "groups", "locals", "shown"}
    /\ r.seen \in 0..Len(scans)
    /\ r.pc \in {"locals", "samples"} =>
         /\ \A g \in r.groups : g.firstSeen \in 0..MaxDay /\ g.lastSeen \in 0..MaxDay
         /\ \A o \in Wanted(r) : \E g \in r.groups : GroupHas(g, o)
    /\ r.pc = "samples" => \A o \in Wanted(r) : LocalsFor(r.locals, RawKey(o)) # {}
    /\ r.pc = "done" =>
         \A o \in Wanted(r) : Normalize(o.remote) # Loopback =>
             \E s \in r.shown : Shows(s, o, r)

ContentStored ==
    content \in Seq(Range(content)) /\ Len(content) = Len(scans)

HistoryInv ==
    /\ RetentionInv
    /\ ContentStored
    /\ DOMAIN reader = Readers
    /\ \A q \in Readers : ReaderOK(reader[q])

(* An observation comes from a record of a scan that is stored.            *)
LEMMA ObservationFacts ==
    ASSUME NEW o \in Observations
    PROVE  /\ o.scan \in Succeeded /\ o \in ObservationsOf(o.scan)
           /\ o.locals # {}
<1>1. PICK i \in Succeeded : o \in ObservationsOf(i)
  BY DEF Observations
<1> DEFINE keys == {<<content[i][k].service, content[i][k].remote>> : k \in Remotes(i)}
           same(key) == {k \in Remotes(i) : /\ content[i][k].service = key[1]
                                            /\ content[i][k].remote = key[2]}
           locals(key) == {content[i][k].local : k \in same(key)}
<1>2. PICK key \in keys :
        o = [scan |-> i, device |-> scans[i].device, service |-> key[1],
             remote |-> key[2], sample |-> SampleOf(same(key)), locals |-> locals(key)]
  BY <1>1 DEF ObservationsOf
<1>3. o.locals # {} /\ o.scan = i
  <2>1. PICK k \in Remotes(i) : key = <<content[i][k].service, content[i][k].remote>>
    OBVIOUS
  <2>2. k \in same(key)
    BY <2>1
  <2>3. content[i][k].local \in locals(key)
    BY <2>2
  <2> HIDE DEF locals, same
  <2>4. QED
    BY <1>2, <2>3
<1>4. QED
  BY <1>1, <1>3

(* The table of scans grows at its end, and what it holds of a scan does   *)
(* not change as long as that is there.                                    *)
ScansEvolve ==
    /\ Len(scans') \in Nat /\ Len(scans) <= Len(scans')
    /\ \A i \in DOMAIN scans : /\ scans'[i].device = scans[i].device
                               /\ scans'[i].success = scans[i].success
                               /\ scans'[i].started = scans[i].started
                               /\ scans'[i].here => scans[i].here

(* A purge inserts no scan and only takes from those there are.            *)
LEMMA PurgeEvolves ==
    ASSUME RetentionInv, NEW p \in Purgers, StartPurge(p) \/ PurgeStep(p) \/ PurgeFails(p)
    PROVE  ScansEvolve /\ Len(scans') = Len(scans)
<1>1. /\ RetentionTypeOK /\ Len(scans) \in Nat /\ DOMAIN scans = 1..Len(scans)
      /\ \A i \in DOMAIN scans : scans[i] \in ScanType
  BY ScansTable DEF RetentionInv
<1>2. CASE scans' = scans
  BY <1>1, <1>2 DEF ScansEvolve
<1>3. ASSUME SameScans, scans' = [i \in DOMAIN scans |-> scans'[i]],
             \A i \in DOMAIN scans : scans'[i].here => scans[i].here
      PROVE  ScansEvolve /\ Len(scans') = Len(scans)
  <2>1. Len(scans') = Len(scans)
    BY <1>1, <1>3, SameScansType
  <2>2. QED
    BY <1>1, <1>3, <2>1 DEF ScansEvolve, SameScans
<1>4. ASSUME NEW C, scans' = WithoutRaw(C)
      PROVE  ScansEvolve /\ Len(scans') = Len(scans)
  BY <1>1, <1>3, <1>4 DEF SameScans, WithoutRaw, ScanType
<1>5. ASSUME NEW C, scans' = WithoutScans(C)
      PROVE  ScansEvolve /\ Len(scans') = Len(scans)
  BY <1>1, <1>3, <1>5 DEF SameScans, WithoutScans, ScanType
<1>6. QED
  BY <1>2, <1>4, <1>5
     DEF StartPurge, PurgeStep, PurgeFails, RawSelect, RawDelete, ReadGroups,
         ScanSelect, ScanDelete, FinishPurge

(* No step changes what a scan was saved with.                             *)
LEMMA TableEvolves ==
    ASSUME RetentionInv, ContentStored, [HistoryNext]_allVars
    PROVE  /\ ScansEvolve /\ ContentStored'
           /\ \A i \in DOMAIN scans : content'[i] = content[i]
<1>1. /\ RetentionTypeOK /\ Len(scans) \in Nat /\ DOMAIN scans = 1..Len(scans)
      /\ Len(scans') \in Nat
  BY ScansTable, HistorySteps, RetentionPreserved, RetentionStutters DEF RetentionInv
<1>2. CASE UNCHANGED <<scans, content>>
  BY <1>1, <1>2 DEF ContentStored, ScansEvolve
<1>3. ASSUME NEW d \in Scanned, NEW report \in Reports, NEW success \in BOOLEAN,
             AddScanOutcome(d, report, success)
      PROVE  /\ ScansEvolve /\ ContentStored'
             /\ \A i \in DOMAIN scans : content'[i] = content[i]
  <2> DEFINE row == [device |-> d, success |-> success,
                     started |-> day, raw |-> success, here |-> TRUE]
             records == IF success THEN RestrictValues(report, Keep) ELSE <<>>
  <2>1. scans' = Append(scans, row) /\ content' = Append(content, records)
    BY <1>3 DEF AddScanOutcome, SaveScan
  <2> HIDE DEF row, records
  <2>2. /\ content' \in Seq(Range(content')) /\ Len(content') = Len(content) + 1
        /\ \A i \in 1..Len(content) : content'[i] = content[i]
    BY <2>1, AppendKeeps DEF ContentStored
  <2>3. scans \in Seq(Range(scans))
    <3>1. scans \in Seq(ScanType)
      BY <1>1 DEF RetentionTypeOK
    <3>2. scans \in [1..Len(scans) -> ScanType]
      BY <3>1, LenProperties
    <3>3. scans \in [1..Len(scans) -> Range(scans)]
      <4>1. \A i \in 1..Len(scans) : scans[i] \in Range(scans)
        BY <1>1 DEF Range
      <4>2. QED
        BY <3>2, <4>1
    <3>4. QED
      BY <1>1, <3>3, SeqDef
  <2>4. /\ Len(scans') = Len(scans) + 1
        /\ \A i \in 1..Len(scans) : scans'[i] = scans[i]
    BY <2>1, <2>3, AppendKeeps
  <2>5. ContentStored'
    BY <2>2, <2>4 DEF ContentStored
  <2>6. ScansEvolve
    BY <1>1, <2>4 DEF ScansEvolve
  <2>7. QED
    BY <1>1, <2>2, <2>5, <2>6 DEF ContentStored
<1>4. ASSUME NEW p \in Purgers, StartPurge(p) \/ PurgeStep(p) \/ PurgeFails(p),
             UNCHANGED historyVars
      PROVE  /\ ScansEvolve /\ ContentStored'
             /\ \A i \in DOMAIN scans : content'[i] = content[i]
  <2>1. ScansEvolve /\ Len(scans') = Len(scans)
    BY <1>4, PurgeEvolves
  <2>3. content' = content
    BY <1>4 DEF historyVars
  <2>4. QED
    BY <2>1, <2>3 DEF ContentStored
<1>5. QED
  <2>1. CASE NextDay /\ UNCHANGED historyVars
    BY <1>2, <2>1 DEF NextDay, historyVars
  <2>2. CASE UNCHANGED allVars
    BY <1>2, <2>2 DEF allVars, retentionVars, historyVars
  <2>3. ASSUME NEW q \in Readers, ReaderStep(q)
        PROVE  UNCHANGED <<scans, content>>
    BY <2>3 DEF ReaderStep, LoadCurrentScans, QueryGroups, QueryLocals, QuerySamples,
                Answer, SetReader, retentionVars
  <2>4. QED
    BY <1>2, <1>3, <1>4, <2>1, <2>2, <2>3 DEF HistoryNext

(* What a request is to show only becomes less.                            *)
LEMMA WantedShrinks ==
    ASSUME RetentionInv, ContentStored, [HistoryNext]_allVars,
           NEW seen \in 0..Len(scans), NEW o \in Observations', o.scan <= seen
    PROVE  /\ o \in Observations /\ o.scan \in DOMAIN scans
           /\ scans'[o.scan].started = scans[o.scan].started
<1>1. /\ Len(scans) \in Nat /\ DOMAIN scans = 1..Len(scans)
  BY ScansTable DEF RetentionInv
<1>2. RetentionInv'
  BY HistorySteps, RetentionPreserved, RetentionStutters
<1>3. DOMAIN scans' = 1..Len(scans') /\ Len(scans') \in Nat
  <2>1. RetentionTypeOK'
    BY <1>2 DEF RetentionInv
  <2>2. QED
    BY <2>1, LenProperties DEF RetentionTypeOK
<1> DEFINE i == o.scan
<1>4. i \in Succeeded' /\ o \in ObservationsOf(i)'
  <2>1. PICK j \in Succeeded' : o \in ObservationsOf(j)'
    BY DEF Observations
  <2>2. o.scan = j
    <3> DEFINE same(key) == {k \in Remotes(j) : /\ content[j][k].service = key[1]
                                                /\ content[j][k].remote = key[2]}
               row(key) == [scan |-> j, device |-> scans[j].device, service |-> key[1],
                            remote |-> key[2], sample |-> SampleOf(same(key)),
                            locals |-> {content[j][k].local : k \in same(key)}]
               keys == {<<content[j][k].service, content[j][k].remote>> : k \in Remotes(j)}
    <3>1. ObservationsOf(j)' = {row(key)' : key \in keys'}
      BY DEF ObservationsOf
    <3>2. \A key \in keys' : row(key)'.scan = j
      OBVIOUS
    <3> HIDE DEF row, keys
    <3>3. QED
      BY <2>1, <3>1, <3>2
  <2>3. QED
    BY <2>1, <2>2
<1>5. i \in DOMAIN scans
  BY <1>1, <1>3, <1>4 DEF Succeeded, Present
<1>6. /\ content'[i] = content[i] /\ scans'[i].device = scans[i].device
      /\ scans'[i].success = scans[i].success /\ scans'[i].started = scans[i].started
      /\ scans'[i].here => scans[i].here
  BY <1>5, TableEvolves DEF ScansEvolve
<1>7. i \in Succeeded
  BY <1>4, <1>5, <1>6 DEF Succeeded, Present
<1>8. ObservationsOf(i)' = ObservationsOf(i)
  <2>1. Remotes(i)' = Remotes(i)
    BY <1>6 DEF Remotes
  <2>2. QED
    BY <1>6, <2>1 DEF ObservationsOf, SampleOf
<1>9. QED
  BY <1>4, <1>5, <1>6, <1>7, <1>8 DEF Observations

(* First query: a group for every observation.                             *)
LEMMA GroupsHave ==
    ASSUME RetentionInv, NEW obs \in SUBSET Observations
    PROVE  /\ \A g \in GroupsOf(obs) : g.firstSeen \in 0..MaxDay /\ g.lastSeen \in 0..MaxDay
           /\ \A o \in obs : \E g \in GroupsOf(obs) : GroupHas(g, o)
<1> DEFINE same(k) == {o \in obs : RawKey(o) = k}
           days(k) == {scans[o.scan].started : o \in same(k)}
           last(k) == CHOOSE o \in same(k) : \A q \in same(k) :
                         q = o \/ Before(q.scan, q.sample, o.scan, o.sample)
           group(k) == [key |-> k, firstSeen |-> Min(days(k)), lastSeen |-> Max(days(k)),
                        sample |-> <<last(k).scan, last(k).sample>>,
                        scanIds |-> {o.scan : o \in same(k)}]
<1>1. GroupsOf(obs) = {group(k) : k \in {RawKey(o) : o \in obs}}
  BY DEF GroupsOf
<1>2. \A o \in obs : scans[o.scan].started \in 0..MaxDay
  BY ObservationFacts, ScansTable DEF Succeeded, Present, RetentionInv, ScanType
<1>3. ASSUME NEW o \in obs
      PROVE  /\ o \in same(RawKey(o)) /\ days(RawKey(o)) \in SUBSET (0..MaxDay)
             /\ scans[o.scan].started \in days(RawKey(o))
  BY <1>2
<1>4. ASSUME NEW o \in obs
      PROVE  /\ Min(days(RawKey(o))) \in 0..MaxDay /\ Max(days(RawKey(o))) \in 0..MaxDay
             /\ scans[o.scan].started \in Min(days(RawKey(o)))..Max(days(RawKey(o)))
  <2> DEFINE D == days(RawKey(o))
             e == scans[o.scan].started
  <2>1. D \in SUBSET (0..MaxDay) /\ e \in D /\ e \in 0..MaxDay /\ MaxDay \in Nat
    BY <1>2, <1>3, RetentionConstants
  <2> HIDE DEF D, e
  <2>2. Min(D) \in 0..MaxDay /\ Max(D) \in 0..MaxDay /\ Min(D) <= e /\ e <= Max(D)
    BY <2>1, DayBounds
  <2>3. e \in Min(D)..Max(D)
    BY <2>1, <2>2
  <2>4. QED
    BY <2>2, <2>3 DEF D, e
<1> HIDE DEF days, last
<1>5. ASSUME NEW o \in obs
      PROVE  /\ group(RawKey(o)).firstSeen \in 0..MaxDay
             /\ group(RawKey(o)).lastSeen \in 0..MaxDay
             /\ GroupHas(group(RawKey(o)), o)
  <2>1. o.scan \in {q.scan : q \in same(RawKey(o))}
    BY <1>3
  <2>2. QED
    BY <1>4, <2>1 DEF GroupHas
<1> HIDE DEF group
<1>6. QED
  BY <1>1, <1>5

(* Second query: the local addresses of every observation.                 *)
LEMMA LocalsHave ==
    ASSUME NEW obs \in SUBSET Observations, NEW o \in obs
    PROVE  LocalsFor(LocalsOf(obs), RawKey(o)) # {}
<1> DEFINE k == RawKey(o)
           all == UNION {q.locals : q \in {p \in obs : RawKey(p) = k}}
<1>1. k \in DOMAIN LocalsOf(obs) /\ LocalsOf(obs)[k] = all
  BY DEF LocalsOf
<1>2. o.locals \subseteq all /\ o.locals # {}
  BY ObservationFacts
<1>3. QED
  BY <1>1, <1>2 DEF LocalsFor

(* Third: a bucket for every group that is usable.                         *)
LEMMA MergeShows ==
    ASSUME NEW groups, NEW locals, NEW samples, NEW current,
           \A h \in groups : h.firstSeen \in 0..MaxDay /\ h.lastSeen \in 0..MaxDay,
           NEW g \in groups, Normalize(g.key.remote) # Loopback,
           LocalsFor(locals, g.key) # {}
    PROVE  \E s \in MergeGroups(groups, locals, samples, current) :
              /\ s.key = GroupKey(g) /\ g.scanIds \subseteq s.scanIds
              /\ s.firstSeen \in 0..MaxDay /\ s.lastSeen \in 0..MaxDay
              /\ s.firstSeen <= g.firstSeen /\ g.lastSeen <= s.lastSeen
              /\ s.isCurrent <=> s.scanIds \cap current # {}
<1> DEFINE rows == {h \in groups : /\ Normalize(h.key.remote) # Loopback
                                   /\ Usable(h, locals, samples)}
           same(k) == {h \in rows : GroupKey(h) = k}
           ids(k) == UNION {h.scanIds : h \in same(k)}
           last(k) == CHOOSE h \in same(k) : \A q \in same(k) :
                         q = h \/ Before(q.sample[1], q.sample[2], h.sample[1], h.sample[2])
           firsts(k) == {h.firstSeen : h \in same(k)}
           lasts(k) == {h.lastSeen : h \in same(k)}
           state(k) == IF last(k).sample \in samples
                         THEN content[last(k).sample[1]][last(k).sample[2]].state ELSE Null
           bucket(k) == [key |-> k, scanIds |-> ids(k), firstSeen |-> Min(firsts(k)),
                         lastSeen |-> Max(lasts(k)), isCurrent |-> ids(k) \cap current # {},
                         sample |-> last(k).sample, state |-> state(k),
                         locals |-> UNION {LocalsFor(locals, h.key) : h \in same(k)}]
           K == GroupKey(g)
<1>1. MergeGroups(groups, locals, samples, current) = {bucket(GroupKey(h)) : h \in rows}
  BY DEF MergeGroups
<1>2. g \in rows /\ g \in same(K)
  BY DEF Usable
<1>3. /\ g.scanIds \subseteq ids(K)
      /\ firsts(K) \in SUBSET (0..MaxDay) /\ g.firstSeen \in firsts(K)
      /\ lasts(K) \in SUBSET (0..MaxDay) /\ g.lastSeen \in lasts(K)
  BY <1>2
<1> HIDE DEF firsts, lasts, ids, state, last, rows, same, K
<1>4. /\ Min(firsts(K)) \in 0..MaxDay /\ Min(firsts(K)) <= g.firstSeen
      /\ Max(lasts(K)) \in 0..MaxDay /\ g.lastSeen <= Max(lasts(K))
  BY <1>3, DayBounds, RetentionConstants
<1>5. /\ bucket(K).key = K /\ bucket(K).scanIds = ids(K)
      /\ bucket(K).firstSeen = Min(firsts(K)) /\ bucket(K).lastSeen = Max(lasts(K))
      /\ bucket(K).isCurrent <=> ids(K) \cap current # {}
  OBVIOUS
<1>6. bucket(K) \in MergeGroups(groups, locals, samples, current)
  BY <1>1, <1>2 DEF K
<1> HIDE DEF bucket
<1>7. QED
  BY <1>3, <1>4, <1>5, <1>6 DEF K

(* A reader's own step, the tables being what they are.                    *)
LEMMA ReaderMoves ==
    ASSUME HistoryInv, NEW q \in Readers, ReaderStep(q)
    PROVE  /\ ReaderOK(reader'[q])
           /\ \E r : reader' = [reader EXCEPT ![q] = r]
           /\ UNCHANGED <<retentionVars, content>>
<1> DEFINE old == reader[q]
<1>1. ReaderOK(old) /\ DOMAIN reader = Readers
  BY DEF HistoryInv
<1>2. Len(scans) \in Nat
  BY ScansTable DEF HistoryInv, RetentionInv
<1>3. ASSUME NEW r, SetReader(q, r), ReaderOK(r)
      PROVE  /\ ReaderOK(reader'[q])
             /\ \E e : reader' = [reader EXCEPT ![q] = e]
             /\ UNCHANGED <<retentionVars, content>>
  <2>1. reader' = [reader EXCEPT ![q] = r] /\ UNCHANGED <<retentionVars, content>>
    BY <1>3 DEF SetReader
  <2>2. reader'[q] = r
    BY <1>1, <2>1
  <2>3. QED
    BY <1>3, <2>1, <2>2
<1>4. DOMAIN NoRead = {"pc", "window", "now", "current", "seen", "groups", "locals", "shown"}
      /\ NoRead.pc = "idle" /\ NoRead.seen = 0
  BY DEF NoRead
<1>5. ASSUME NEW window, LoadCurrentScans(q, window)
      PROVE  \E r : SetReader(q, r) /\ ReaderOK(r)
  <2> DEFINE r == [NoRead EXCEPT !.pc = "groups", !.window = window,
                                 !.current = CurrentScans]
  <2>1. DOMAIN r = DOMAIN NoRead /\ r.pc = "groups" /\ r.seen = 0
    BY <1>4
  <2>2. SetReader(q, r)
    BY <1>5 DEF LoadCurrentScans
  <2> HIDE DEF r
  <2>3. ReaderOK(r)
    BY <1>2, <1>4, <2>1 DEF ReaderOK
  <2>4. QED
    BY <2>2, <2>3
<1>6. ASSUME QueryGroups(q)
      PROVE  \E r : SetReader(q, r) /\ ReaderOK(r)
  <2> DEFINE t == [old EXCEPT !.now = day, !.seen = Len(scans)]
             obs == Candidates(t)
             groups == GroupsOf(obs)
             r == [t EXCEPT !.pc = IF groups = {} THEN "done" ELSE "locals",
                            !.groups = groups]
  <2>1. SetReader(q, r)
    BY <1>6 DEF QueryGroups
  <2>2. obs \in SUBSET Observations
    BY DEF Candidates
  <2> HIDE DEF groups
  <2>3. /\ DOMAIN t = DOMAIN old /\ DOMAIN r = DOMAIN old /\ r.seen = Len(scans)
        /\ r.window = t.window /\ r.now = t.now /\ r.current = t.current
        /\ r.groups = groups /\ r.pc \in {"done", "locals"}
        /\ r.pc = "done" => groups = {}
    BY <1>1 DEF ReaderOK
  <2> HIDE DEF t, r
  <2>4. Wanted(r) \subseteq obs
    BY <2>3 DEF Wanted, Candidates
  <2>5. /\ \A g \in groups : g.firstSeen \in 0..MaxDay /\ g.lastSeen \in 0..MaxDay
        /\ \A o \in obs : \E g \in groups : GroupHas(g, o)
    BY <2>2, GroupsHave DEF groups, HistoryInv
  <2>6. ReaderOK(r)
    BY <1>1, <1>2, <2>3, <2>4, <2>5 DEF ReaderOK
  <2>7. QED
    BY <2>1, <2>6
<1>7. ASSUME QueryLocals(q)
      PROVE  \E r : SetReader(q, r) /\ ReaderOK(r)
  <2> DEFINE locals == LocalsOf(Candidates(old))
             r == [old EXCEPT !.pc = "samples", !.locals = locals]
  <2>1. SetReader(q, r) /\ old.pc = "locals"
    BY <1>7 DEF QueryLocals
  <2> HIDE DEF locals
  <2>2. /\ DOMAIN r = DOMAIN old /\ r.seen = old.seen
        /\ r.window = old.window /\ r.now = old.now /\ r.current = old.current
        /\ r.groups = old.groups /\ r.pc = "samples" /\ r.locals = locals
    BY <1>1 DEF ReaderOK
  <2> HIDE DEF r
  <2>3. Wanted(r) = Wanted(old) /\ Wanted(r) \subseteq Candidates(old)
    BY <2>2 DEF Wanted, Candidates
  <2>4. Candidates(old) \in SUBSET Observations
    BY DEF Candidates
  <2>5. \A o \in Wanted(r) : LocalsFor(locals, RawKey(o)) # {}
    BY <2>3, <2>4, LocalsHave DEF locals
  <2>6. ReaderOK(r)
    BY <1>1, <2>1, <2>2, <2>3, <2>5 DEF ReaderOK
  <2>7. QED
    BY <2>1, <2>6
<1>8. ASSUME QuerySamples(q)
      PROVE  \E r : SetReader(q, r) /\ ReaderOK(r)
  <2> DEFINE shown == MergeGroups(old.groups, old.locals, SamplesOf(old.groups), old.current)
             r == [old EXCEPT !.pc = "done", !.groups = {}, !.locals = <<>>, !.shown = shown]
  <2>1. SetReader(q, r) /\ old.pc = "samples"
    BY <1>8 DEF QuerySamples
  <2> HIDE DEF shown
  <2>2. /\ DOMAIN r = DOMAIN old /\ r.seen = old.seen
        /\ r.window = old.window /\ r.now = old.now /\ r.current = old.current
        /\ r.pc = "done" /\ r.shown = shown
    BY <1>1 DEF ReaderOK
  <2> HIDE DEF r
  <2>3. Wanted(r) = Wanted(old)
    BY <2>2 DEF Wanted
  <2>4. ASSUME NEW o \in Wanted(r), Normalize(o.remote) # Loopback
        PROVE  \E s \in shown : Shows(s, o, r)
    <3>1. PICK g \in old.groups : GroupHas(g, o)
      BY <1>1, <2>1, <2>3 DEF ReaderOK
    <3>2. /\ LocalsFor(old.locals, RawKey(o)) # {}
          /\ \A h \in old.groups : h.firstSeen \in 0..MaxDay /\ h.lastSeen \in 0..MaxDay
      BY <1>1, <2>1, <2>3 DEF ReaderOK
    <3>3. /\ g.key = RawKey(o) /\ o.scan \in g.scanIds
          /\ scans[o.scan].started \in g.firstSeen..g.lastSeen
      BY <3>1 DEF GroupHas
    <3>4. g.key.device = o.device /\ g.key.service = o.service /\ g.key.remote = o.remote
      BY <3>3 DEF RawKey
    <3>5. PICK s \in shown :
              /\ s.key = GroupKey(g) /\ g.scanIds \subseteq s.scanIds
              /\ s.firstSeen \in 0..MaxDay /\ s.lastSeen \in 0..MaxDay
              /\ s.firstSeen <= g.firstSeen /\ g.lastSeen <= s.lastSeen
              /\ s.isCurrent <=> s.scanIds \cap old.current # {}
      <4> DEFINE G == old.groups
                 L == old.locals
                 S == SamplesOf(old.groups)
                 c == old.current
      <4>1. /\ \A h \in G : h.firstSeen \in 0..MaxDay /\ h.lastSeen \in 0..MaxDay
            /\ g \in G /\ Normalize(g.key.remote) # Loopback /\ LocalsFor(L, g.key) # {}
        BY <2>4, <3>2, <3>3, <3>4
      <4> HIDE DEF G, L, S, c
      <4>2. \E s \in MergeGroups(G, L, S, c) :
              /\ s.key = GroupKey(g) /\ g.scanIds \subseteq s.scanIds
              /\ s.firstSeen \in 0..MaxDay /\ s.lastSeen \in 0..MaxDay
              /\ s.firstSeen <= g.firstSeen /\ g.lastSeen <= s.lastSeen
              /\ s.isCurrent <=> s.scanIds \cap c # {}
        BY <4>1, MergeShows
      <4>3. QED
        BY <4>2 DEF shown, G, L, S, c
    <3>6. s.key = [device |-> o.device, service |-> o.service, ip |-> Normalize(o.remote)]
      BY <3>4, <3>5 DEF GroupKey
    <3>7. scans[o.scan].started \in s.firstSeen..s.lastSeen
      BY <3>2, <3>3, <3>5
    <3>8. o.scan \in s.scanIds /\ (o.scan \in r.current => s.isCurrent)
      BY <2>2, <3>3, <3>5
    <3>9. QED
      BY <3>6, <3>7, <3>8 DEF Shows
  <2>5. ReaderOK(r)
    BY <1>1, <2>2, <2>4 DEF ReaderOK
  <2>6. QED
    BY <2>1, <2>5
<1>9. ASSUME Answer(q)
      PROVE  \E r : SetReader(q, r) /\ ReaderOK(r)
  <2>1. ReaderOK(NoRead)
    BY <1>2, <1>4 DEF ReaderOK
  <2>2. QED
    BY <1>9, <2>1 DEF Answer
<1>10. QED
  BY <1>3, <1>5, <1>6, <1>7, <1>8, <1>9 DEF ReaderStep

(* A request that stays where it is while scans come and go.               *)
LEMMA ReaderWaits ==
    ASSUME RetentionInv, ContentStored, [HistoryNext]_allVars,
           NEW q \in Readers, ReaderOK(reader'[q])
    PROVE  ReaderOK(reader[q])'
<1> DEFINE r == reader'[q]
<1>1. r.seen \in 0..Len(scans) /\ r.seen \in 0..Len(scans')
  <2>1. Len(scans) \in Nat /\ ScansEvolve
    BY TableEvolves, ScansTable DEF RetentionInv
  <2>2. QED
    BY <2>1 DEF ReaderOK, ScansEvolve
<1>2. ASSUME NEW o \in Wanted(reader[q])'
      PROVE  /\ o \in Wanted(r) /\ o.scan \in DOMAIN scans
             /\ scans'[o.scan].started = scans[o.scan].started
  <2>1. /\ o \in Observations' /\ o.scan <= r.seen
        /\ \/ o.scan \in r.current
           \/ r.window # Current /\ scans'[o.scan].started + r.window >= r.now
    BY DEF Wanted, InWindow
  <2>2. /\ o \in Observations /\ o.scan \in DOMAIN scans
        /\ scans'[o.scan].started = scans[o.scan].started
    BY <1>1, <2>1, WantedShrinks
  <2>3. QED
    BY <2>1, <2>2 DEF Wanted, InWindow
<1>3. ASSUME NEW o \in Wanted(reader[q])'
      PROVE  /\ \A g : GroupHas(g, o) => GroupHas(g, o)'
             /\ \A s, e : Shows(s, o, e) => Shows(s, o, e)'
  BY <1>2 DEF GroupHas, Shows, RawKey, Normalize
<1>4. \A o : RawKey(o)' = RawKey(o) /\ Normalize(o.remote)' = Normalize(o.remote)
  BY DEF RawKey, Normalize
<1>5. QED
  BY <1>1, <1>2, <1>3, <1>4 DEF ReaderOK, LocalsFor

(* Every step keeps the tables in order and what the requests have read.   *)
LEMMA HistoryInvariant == Spec => []HistoryInv
<1>1. HistoryInit => HistoryInv
  <2> SUFFICES ASSUME HistoryInit PROVE HistoryInv
    OBVIOUS
  <2>1. RetentionInv /\ content \in Legacy /\ DOMAIN content = DOMAIN scans
    BY HistoryStarts
  <2>2. content \in Seq(Range(content))
    BY <2>1, HistoryConstants
  <2>3. /\ Len(content) \in Nat /\ DOMAIN content = 1..Len(content)
        /\ Len(scans) \in Nat /\ DOMAIN scans = 1..Len(scans)
    BY <2>1, <2>2, LenProperties, ScansTable DEF RetentionInv
  <2>4. Len(content) = Len(scans)
    <3> DEFINE n == Len(content)
               m == Len(scans)
    <3>1. n \in Nat /\ m \in Nat /\ 1..n = 1..m
      BY <2>1, <2>3
    <3> HIDE DEF n, m
    <3>2. n <= m
      <4>1. CASE n = 0
        BY <3>1, <4>1
      <4>2. CASE n # 0
        <5>1. n \in 1..n
          BY <3>1, <4>2
        <5>2. n \in 1..m
          BY <3>1, <5>1
        <5>3. QED
          BY <3>1, <5>2
      <4>3. QED
        BY <4>1, <4>2
    <3>3. m <= n
      <4>1. CASE m = 0
        BY <3>1, <4>1
      <4>2. CASE m # 0
        <5>1. m \in 1..m
          BY <3>1, <4>2
        <5>2. m \in 1..n
          BY <3>1, <5>1
        <5>3. QED
          BY <3>1, <5>2
      <4>3. QED
        BY <4>1, <4>2
    <3>4. n = m
      BY <3>1, <3>2, <3>3
    <3>5. QED
      BY <3>4 DEF n, m
  <2>5. ContentStored
    BY <2>2, <2>4 DEF ContentStored
  <2>6. ReaderOK(NoRead)
    <3>1. DOMAIN NoRead = {"pc", "window", "now", "current", "seen", "groups", "locals",
                           "shown"}
          /\ NoRead.pc = "idle" /\ NoRead.seen = 0
      BY DEF NoRead
    <3>2. QED
      BY <2>3, <3>1 DEF ReaderOK
  <2>7. QED
    BY <2>1, <2>5, <2>6 DEF HistoryInit, HistoryInv
<1>2. HistoryInv /\ [HistoryNext]_allVars => HistoryInv'
  <2> SUFFICES ASSUME HistoryInv, [HistoryNext]_allVars
               PROVE  HistoryInv'
    OBVIOUS
  <2>1. RetentionInv' /\ ContentStored'
    BY HistorySteps, RetentionPreserved, RetentionStutters, TableEvolves DEF HistoryInv
  <2>2. ASSUME DOMAIN reader' = Readers, \A q \in Readers : ReaderOK(reader'[q])
        PROVE  HistoryInv'
    BY <2>1, <2>2, ReaderWaits DEF HistoryInv
  <2>3. CASE UNCHANGED reader
    BY <2>2, <2>3 DEF HistoryInv
  <2>4. ASSUME NEW q \in Readers, ReaderStep(q)
        PROVE  HistoryInv'
    <3>1. PICK r : reader' = [reader EXCEPT ![q] = r]
      BY <2>4, ReaderMoves
    <3>2. ReaderOK(reader'[q])
      BY <2>4, ReaderMoves
    <3>3. \A e \in Readers : e # q => reader'[e] = reader[e]
      BY <3>1 DEF HistoryInv
    <3>4. QED
      BY <2>2, <3>1, <3>2, <3>3 DEF HistoryInv
  <2>5. QED
    BY <2>3, <2>4 DEF HistoryNext, AddScanOutcome, allVars, historyVars
<1>3. QED
  BY <1>1, <1>2, PTL DEF Spec

(* A history view shows every service of its window that is still stored   *)
(* when it answers, with its scan counted and its time in the span shown,  *)
(* for any number of purges between its queries.                           *)
THEOREM StoredIsShownHolds == Spec => []StoredIsShown
<1>1. HistoryInv => StoredIsShown
  BY DEF HistoryInv, ReaderOK, StoredIsShown, Wanted, Shows
<1>2. QED
  BY <1>1, HistoryInvariant, PTL

-----------------------------------------------------------------------------
(***************************************************************************)
(* The two aggregations.                                                   *)
(***************************************************************************)
(* The records of a scan: ids have an order and an end, remote addresses   *)
(* one of two forms.                                                       *)
RecordsOK(c) ==
    /\ \E n \in Nat : DOMAIN c \subseteq 1..n
    /\ \A k \in DOMAIN c : c[k].remote \in [ip : Ips, mapped : BOOLEAN] \cup {NoAddress}

ContentTyped == \A i \in DOMAIN scans : RecordsOK(content[i])

(* So are the rows of a report, and what is kept of them.                  *)
LEMMA ReportRecords ==
    ASSUME NEW rows, IsReport(rows)
    PROVE  RecordsOK(rows) /\ RecordsOK(RestrictValues(rows, Keep)) /\ RecordsOK(<<>>)
<1>1. Len(rows) \in Nat /\ DOMAIN rows = 1..Len(rows)
  BY LenProperties DEF IsReport
<1>2. RecordsOK(rows)
  BY <1>1 DEF IsReport, RecordsOK
<1>3. ASSUME NEW kept, kept = RestrictValues(rows, Keep)
      PROVE  /\ DOMAIN kept \subseteq DOMAIN rows
             /\ \A k \in DOMAIN kept : kept[k] = rows[k]
  BY <1>3 DEF RestrictValues, Restrict
<1>4. RecordsOK(RestrictValues(rows, Keep))
  <2>1. PICK kept : kept = RestrictValues(rows, Keep)
    OBVIOUS
  <2>2. RecordsOK(kept)
    BY <1>2, <1>3, <2>1 DEF RecordsOK
  <2>3. QED
    BY <2>1, <2>2
<1>5. RecordsOK(<<>>)
  <2>1. 0 \in Nat /\ DOMAIN <<>> = {}
    OBVIOUS
  <2>2. QED
    BY <2>1 DEF RecordsOK
<1>6. QED
  BY <1>2, <1>4, <1>5

(* What scans are saved with stays as it was reported.                     *)
LEMMA ContentIsTyped == Spec => []ContentTyped
<1>1. HistoryInit => ContentTyped
  <2> SUFFICES ASSUME HistoryInit PROVE ContentTyped
    OBVIOUS
  <2>1. content \in Legacy /\ DOMAIN content = DOMAIN scans
    BY HistoryStarts
  <2>2. \A i \in DOMAIN content : IsReport(content[i])
    BY <2>1, HistoryConstants
  <2>3. QED
    BY <2>1, <2>2, ReportRecords DEF ContentTyped
<1>2. HistoryInv /\ ContentTyped /\ [HistoryNext]_allVars => ContentTyped'
  <2> SUFFICES ASSUME HistoryInv, ContentTyped, [HistoryNext]_allVars,
                      NEW i \in DOMAIN scans'
               PROVE  RecordsOK(content'[i])
    BY DEF ContentTyped, RecordsOK
  <2>1. /\ RetentionInv /\ ContentStored
        /\ Len(scans) \in Nat /\ DOMAIN scans = 1..Len(scans)
    BY ScansTable DEF HistoryInv, RetentionInv
  <2>2. \A j \in DOMAIN scans : content'[j] = content[j]
    BY <2>1, TableEvolves
  <2>3. CASE i \in DOMAIN scans
    BY <2>2, <2>3 DEF ContentTyped
  <2>4. CASE i \notin DOMAIN scans
    <3>1. ASSUME Len(scans') = Len(scans) PROVE FALSE
      <4>1. RetentionTypeOK'
        BY <2>1, HistorySteps, RetentionPreserved, RetentionStutters DEF RetentionInv
      <4>2. DOMAIN scans' = 1..Len(scans')
        BY <4>1, LenProperties DEF RetentionTypeOK
      <4>3. QED
        BY <2>1, <2>4, <3>1, <4>2
    <3>2. \A p \in Purgers : ~(StartPurge(p) \/ PurgeStep(p) \/ PurgeFails(p))
      BY <2>1, <3>1, PurgeEvolves
    <3>3. scans' # scans
      BY <3>1
    <3>4. PICK d \in Scanned, report \in Reports, success \in BOOLEAN :
            AddScanOutcome(d, report, success)
      BY <3>2, <3>3
         DEF HistoryNext, NextDay, ReaderStep, LoadCurrentScans, QueryGroups, QueryLocals,
             QuerySamples, Answer, SetReader, retentionVars, allVars
    <3>5. PICK records : /\ records = IF success THEN RestrictValues(report, Keep) ELSE <<>>
                         /\ content' = Append(content, records)
      BY <3>4 DEF AddScanOutcome
    <3>6. PICK row : scans' = Append(scans, row) /\ row \in ScanType
      <4>1. PICK row : /\ scans' = Append(scans, row)
                       /\ row = [device |-> d, success |-> success, started |-> day,
                                 raw |-> success, here |-> TRUE]
        BY <3>4 DEF AddScanOutcome, SaveScan
      <4>2. row \in ScanType
        BY <2>1, <4>1 DEF ScanType, RetentionInv, RetentionTypeOK
      <4>3. QED
        BY <4>1, <4>2
    <3>7. RecordsOK(records)
      BY <3>5, ReportRecords, HistoryConstants
    <3>8. content'[Len(scans) + 1] = records
      <4>1. content \in Seq(Range(content) \cup {records}) /\ Len(content) = Len(scans)
        <5>1. PICK n, R, S : n = Len(content) /\ R = Range(content) /\ S = R \cup {records}
          OBVIOUS
        <5>2. n \in Nat /\ content \in [1..n -> R]
          BY <2>1, <5>1, LenProperties DEF ContentStored
        <5>3. content \in [1..n -> S]
          BY <5>1, <5>2
        <5>4. content \in Seq(S)
          BY <5>2, <5>3, SeqDef
        <5>5. QED
          BY <2>1, <5>1, <5>4 DEF ContentStored
      <4>2. QED
        BY <3>5, <4>1, AppendProperties
    <3>9. DOMAIN scans' = 1..(Len(scans) + 1)
      <4>1. scans \in Seq(ScanType)
        BY <2>1 DEF RetentionInv, RetentionTypeOK
      <4>2. scans' \in Seq(ScanType) /\ Len(scans') = Len(scans) + 1
        BY <3>6, <4>1, AppendProperties
      <4>3. QED
        BY <4>2, LenProperties
    <3>10. i = Len(scans) + 1
      BY <2>1, <2>4, <3>9
    <3>11. QED
      BY <3>7, <3>8, <3>10
  <2>5. QED
    BY <2>3, <2>4
<1>3. QED
  BY <1>1, <1>2, HistoryInvariant, PTL DEF Spec

(* The rows of scans, their keys before and after normalisation, and the   *)
(* last of them in the order of the records.                               *)
RowsOf(ids) == UNION {{i} \X Remotes(i) : i \in ids}

RowKey(r) == [device |-> scans[r[1]].device, service |-> content[r[1]][r[2]].service,
              remote |-> content[r[1]][r[2]].remote]

ServiceKey(r) == [device |-> scans[r[1]].device, service |-> content[r[1]][r[2]].service,
                  ip |-> Normalize(content[r[1]][r[2]].remote)]

IsLast(S, r) == r \in S /\ \A q \in S : q = r \/ Before(q[1], q[2], r[1], r[2])

TablesTyped == RetentionInv /\ ContentTyped

(* Numbers that order the rows.                                            *)
LEMMA RowTypes ==
    ASSUME TablesTyped, NEW ids \in SUBSET Succeeded, NEW r \in RowsOf(ids)
    PROVE  /\ r = <<r[1], r[2]>> /\ r[1] \in ids /\ r[2] \in Remotes(r[1])
           /\ r[1] \in 1..MaxScans /\ r[2] \in Nat
           /\ scans[r[1]].started \in 0..MaxDay /\ scans[r[1]].device \in Scanned
           /\ content[r[1]][r[2]].remote \in [ip : Ips, mapped : BOOLEAN]
<1>1. PICK i \in ids : r \in {i} \X Remotes(i)
  BY DEF RowsOf
<1>2. r = <<r[1], r[2]>> /\ r[1] = i /\ r[2] \in Remotes(i)
  BY <1>1
<1>3. /\ i \in DOMAIN scans /\ i \in 1..MaxScans /\ scans[i] \in ScanType
  BY ScansTable DEF TablesTyped, RetentionInv, Succeeded, Present
<1>4. RecordsOK(content[i])
  BY <1>3 DEF TablesTyped, ContentTyped
<1>5. r[2] \in DOMAIN content[i] /\ content[i][r[2]].remote # NoAddress
  BY <1>2 DEF Remotes
<1>6. r[2] \in Nat
  BY <1>4, <1>5 DEF RecordsOK
<1>7. content[i][r[2]].remote \in [ip : Ips, mapped : BOOLEAN]
  BY <1>4, <1>5 DEF RecordsOK
<1>8. QED
  BY <1>2, <1>3, <1>6, <1>7 DEF ScanType

(* There is a last row, ...                                                *)
LEMMA LastExists ==
    ASSUME TablesTyped, NEW ids \in SUBSET Succeeded,
           NEW S \in SUBSET RowsOf(ids), S # {}
    PROVE  \E r : IsLast(S, r)
<1>1. /\ MaxDay \in Nat /\ MaxScans \in Nat
      /\ \A r \in S : /\ r = <<r[1], r[2]>> /\ r[1] \in 1..MaxScans /\ r[2] \in Nat
                      /\ scans[r[1]].started \in 0..MaxDay
                      /\ r[1] \in ids /\ r[2] \in Remotes(r[1])
  BY RowTypes, RetentionConstants
<1>2. PICK r0 \in S : TRUE
  OBVIOUS
<1>3. PICK D : D = {scans[r[1]].started : r \in S}
  OBVIOUS
<1>4. D \in SUBSET (0..MaxDay) /\ scans[r0[1]].started \in D
  BY <1>1, <1>2, <1>3
<1>5. Max(D) \in D /\ \A d \in D : d <= Max(D)
  BY <1>1, <1>4, DayBounds
<1>6. PICK r1 \in S : scans[r1[1]].started = Max(D)
  BY <1>3, <1>5
<1>7. PICK I : I = {r[1] : r \in {q \in S : scans[q[1]].started = Max(D)}}
  OBVIOUS
<1>8. I \in SUBSET (0..MaxScans) /\ r1[1] \in I
  BY <1>1, <1>6, <1>7
<1>9. Max(I) \in I /\ \A i \in I : i <= Max(I)
  BY <1>1, <1>8, DayBounds
<1>10. PICK r2 \in S : r2[1] = Max(I) /\ scans[r2[1]].started = Max(D)
  BY <1>7, <1>9
<1>11. PICK K : K = {r[2] : r \in {q \in S : q[1] = r2[1]}}
  OBVIOUS
<1>12. PICK n \in Nat : DOMAIN content[r2[1]] \subseteq 1..n
  <2>1. r2[1] \in DOMAIN scans
    BY <1>1, <1>10 DEF Succeeded, Present
  <2>2. QED
    BY <2>1 DEF TablesTyped, ContentTyped, RecordsOK
<1>13. K \in SUBSET (0..n) /\ r2[2] \in K
  BY <1>1, <1>10, <1>11, <1>12 DEF Remotes
<1>14. Max(K) \in K /\ \A k \in K : k <= Max(K)
  BY <1>12, <1>13, DayBounds
<1>15. PICK r3 \in S : r3[2] = Max(K) /\ r3[1] = r2[1]
  BY <1>11, <1>14
<1>16. ASSUME NEW q \in S
       PROVE  q = r3 \/ Before(q[1], q[2], r3[1], r3[2])
  <2>1. /\ scans[q[1]].started \in 0..MaxDay /\ scans[r3[1]].started \in 0..MaxDay
        /\ scans[q[1]].started <= scans[r3[1]].started
    BY <1>1, <1>3, <1>5, <1>10, <1>15
  <2>2. CASE scans[q[1]].started < scans[r3[1]].started
    BY <2>2 DEF Before, Older
  <2>3. CASE scans[q[1]].started = scans[r3[1]].started
    <3>1. q[1] \in I
      BY <1>7, <1>10, <1>15, <2>3
    <3>2. q[1] <= r3[1] /\ q[1] \in Nat /\ r3[1] \in Nat
      BY <1>1, <1>9, <1>10, <1>15, <3>1
    <3>3. CASE q[1] < r3[1]
      BY <2>3, <3>3 DEF Before, Older
    <3>4. CASE q[1] = r3[1]
      <4>1. q[2] <= r3[2] /\ q[2] \in Nat /\ r3[2] \in Nat
        BY <1>1, <1>11, <1>14, <1>15, <3>4
      <4>2. CASE q[2] < r3[2]
        BY <3>4, <4>2 DEF Before
      <4>3. CASE q[2] = r3[2]
        BY <1>1, <3>4, <4>3
      <4>4. QED
        BY <4>1, <4>2, <4>3
    <3>5. QED
      BY <3>2, <3>3, <3>4
  <2>4. QED
    BY <2>1, <2>2, <2>3
<1>17. QED
  BY <1>16 DEF IsLast

(* ... and only one, ...                                                   *)
LEMMA LastUnique ==
    ASSUME TablesTyped, NEW ids \in SUBSET Succeeded,
           NEW S \in SUBSET RowsOf(ids), NEW r, NEW q, IsLast(S, r), IsLast(S, q)
    PROVE  r = q
<1>1. r \in RowsOf(ids) /\ q \in RowsOf(ids)
  BY DEF IsLast
<1>2. /\ r[1] \in Nat /\ r[2] \in Nat /\ q[1] \in Nat /\ q[2] \in Nat
      /\ scans[r[1]].started \in Nat /\ scans[q[1]].started \in Nat
  BY <1>1, RowTypes
<1>3. r = q \/ (Before(q[1], q[2], r[1], r[2]) /\ Before(r[1], r[2], q[1], q[2]))
  BY DEF IsLast
<1>4. QED
  BY <1>2, <1>3 DEF Before, Older

(* ... so it is the one both aggregations choose.                          *)
LEMMA LastChosen ==
    ASSUME TablesTyped, NEW ids \in SUBSET Succeeded,
           NEW S \in SUBSET RowsOf(ids), NEW r, IsLast(S, r)
    PROVE  (CHOOSE e \in S : \A q \in S : q = e \/ Before(q[1], q[2], e[1], e[2])) = r
<1>1. PICK c : c = CHOOSE e \in S : \A q \in S : q = e \/ Before(q[1], q[2], e[1], e[2])
  OBVIOUS
<1>2. \E e \in S : \A q \in S : q = e \/ Before(q[1], q[2], e[1], e[2])
  BY DEF IsLast
<1>3. IsLast(S, c)
  BY <1>1, <1>2 DEF IsLast
<1>4. c = r
  BY <1>3, LastUnique
<1>5. QED
  BY <1>1, <1>4

(* The rows that have one key as it is stored.                             *)
RawRows(ids, k) == {r \in RowsOf(ids) : RowKey(r) = k}

ObservationsIn(ids) == UNION {ObservationsOf(i) : i \in ids}

(* An observation stands for the rows of its scan that have its key, with  *)
(* the last of them for a sample, ...                                      *)
LEMMA ObservationRows ==
    ASSUME TablesTyped, NEW ids \in SUBSET Succeeded, NEW o \in ObservationsIn(ids)
    PROVE  /\ o.scan \in ids /\ o \in ObservationsOf(o.scan)
           /\ <<o.scan, o.sample>> \in RawRows(ids, RawKey(o))
           /\ \A k \in Remotes(o.scan) : RowKey(<<o.scan, k>>) = RawKey(o) => k <= o.sample
           /\ o.locals = {content[o.scan][k].local :
                            k \in {j \in Remotes(o.scan) : RowKey(<<o.scan, j>>) = RawKey(o)}}
<1>1. PICK i \in ids : o \in ObservationsOf(i)
  BY DEF ObservationsIn
<1> DEFINE keys == {<<content[i][k].service, content[i][k].remote>> : k \in Remotes(i)}
           same(key) == {k \in Remotes(i) : /\ content[i][k].service = key[1]
                                            /\ content[i][k].remote = key[2]}
<1>2. PICK key \in keys :
        o = [scan |-> i, device |-> scans[i].device, service |-> key[1],
             remote |-> key[2], sample |-> SampleOf(same(key)),
             locals |-> {content[i][k].local : k \in same(key)}]
  BY <1>1 DEF ObservationsOf
<1>3. PICK S : S = same(key)
  OBVIOUS
<1>4. PICK L : L = {content[i][k].local : k \in S}
  OBVIOUS
<1>5. /\ o.scan = i /\ o.device = scans[i].device /\ o.service = key[1] /\ o.remote = key[2]
      /\ o.sample = Max(S) /\ o.locals = L
  BY <1>2, <1>3, <1>4 DEF SampleOf
<1>6. RawKey(o) = [device |-> scans[i].device, service |-> key[1], remote |-> key[2]]
  BY <1>5 DEF RawKey
<1>7. S = {j \in Remotes(i) : RowKey(<<i, j>>) = RawKey(o)}
  BY <1>3, <1>6 DEF RowKey
<1>8. PICK n \in Nat : DOMAIN content[i] \subseteq 1..n
  <2>1. i \in DOMAIN scans
    BY DEF Succeeded, Present
  <2>2. QED
    BY <2>1 DEF TablesTyped, ContentTyped, RecordsOK
<1>9. S \in SUBSET (0..n)
  BY <1>7, <1>8 DEF Remotes
<1>10. PICK k0 \in Remotes(i) : key = <<content[i][k0].service, content[i][k0].remote>>
  OBVIOUS
<1>11. k0 \in S
  BY <1>3, <1>10
<1>12. Max(S) \in S /\ \A k \in S : k <= Max(S)
  BY <1>9, <1>11, DayBounds
<1>13. <<i, o.sample>> \in RawRows(ids, RawKey(o))
  <2>1. o.sample \in Remotes(i) /\ RowKey(<<i, o.sample>>) = RawKey(o)
    BY <1>5, <1>7, <1>12
  <2>2. <<i, o.sample>> \in {i} \X Remotes(i)
    BY <2>1
  <2>3. <<i, o.sample>> \in RowsOf(ids)
    BY <2>2 DEF RowsOf
  <2>4. QED
    BY <2>1, <2>3 DEF RawRows
<1>14. QED
  BY <1>1, <1>4, <1>5, <1>7, <1>12, <1>13

(* ... every row has one, ...                                              *)
LEMMA RowObserved ==
    ASSUME TablesTyped, NEW ids \in SUBSET Succeeded, NEW r \in RowsOf(ids)
    PROVE  \E o \in ObservationsIn(ids) : o.scan = r[1] /\ RawKey(o) = RowKey(r)
<1>1. r[1] \in ids /\ r[2] \in Remotes(r[1])
  BY RowTypes
<1>2. PICK i, k : i = r[1] /\ k = r[2] /\ i \in ids /\ k \in Remotes(i)
  BY <1>1
<1> DEFINE keys == {<<content[i][j].service, content[i][j].remote>> : j \in Remotes(i)}
           same(key) == {j \in Remotes(i) : /\ content[i][j].service = key[1]
                                            /\ content[i][j].remote = key[2]}
           row(key) == [scan |-> i, device |-> scans[i].device, service |-> key[1],
                        remote |-> key[2], sample |-> SampleOf(same(key)),
                        locals |-> {content[i][j].local : j \in same(key)}]
<1>3. PICK key : key = <<content[i][k].service, content[i][k].remote>>
  OBVIOUS
<1>4. key \in keys /\ key[1] = content[i][k].service /\ key[2] = content[i][k].remote
  BY <1>2, <1>3
<1>5. row(key) \in ObservationsOf(i)
  BY <1>4 DEF ObservationsOf
<1>6. /\ row(key).scan = i /\ row(key).device = scans[i].device
      /\ row(key).service = key[1] /\ row(key).remote = key[2]
  OBVIOUS
<1> HIDE DEF row
<1>7. RawKey(row(key)) = RowKey(r)
  BY <1>2, <1>4, <1>6 DEF RawKey, RowKey
<1>8. row(key) \in ObservationsIn(ids)
  BY <1>2, <1>5 DEF ObservationsIn
<1>9. QED
  BY <1>2, <1>6, <1>7, <1>8

(* ... and no two of a scan have the same key.                             *)
LEMMA ObservationUnique ==
    ASSUME NEW i, NEW o \in ObservationsOf(i), NEW q \in ObservationsOf(i),
           RawKey(o) = RawKey(q)
    PROVE  o = q
<1> DEFINE keys == {<<content[i][j].service, content[i][j].remote>> : j \in Remotes(i)}
           same(key) == {j \in Remotes(i) : /\ content[i][j].service = key[1]
                                            /\ content[i][j].remote = key[2]}
           row(key) == [scan |-> i, device |-> scans[i].device, service |-> key[1],
                        remote |-> key[2], sample |-> SampleOf(same(key)),
                        locals |-> {content[i][j].local : j \in same(key)}]
<1>1. ObservationsOf(i) = {row(key) : key \in keys}
  BY DEF ObservationsOf
<1>2. \A key \in keys : row(key).service = key[1] /\ row(key).remote = key[2]
  OBVIOUS
<1>3. \A a, b \in keys : a[1] = b[1] /\ a[2] = b[2] => a = b
  OBVIOUS
<1> HIDE DEF row, keys
<1>4. PICK a \in keys, b \in keys : o = row(a) /\ q = row(b)
  BY <1>1
<1>5. o.service = q.service /\ o.remote = q.remote
  BY DEF RawKey
<1>6. a = b
  BY <1>2, <1>3, <1>4, <1>5
<1>7. QED
  BY <1>4, <1>6

(* What a group of the first query is, in terms of rows.                   *)
DaysOf(S) == {scans[r[1]].started : r \in S}
ScansOf(S) == {r[1] : r \in S}

GroupIs(ids, g) ==
    /\ RawRows(ids, g.key) # {}
    /\ IsLast(RawRows(ids, g.key), g.sample)
    /\ g.scanIds = ScansOf(RawRows(ids, g.key))
    /\ g.firstSeen = Min(DaysOf(RawRows(ids, g.key)))
    /\ g.lastSeen = Max(DaysOf(RawRows(ids, g.key)))

LastObserved(S, o) ==
    o \in S /\ \A q \in S : q = o \/ Before(q.scan, q.sample, o.scan, o.sample)

(* The order of rows has no cycle.                                         *)
LEMMA BeforeOnce ==
    ASSUME NEW i \in Nat, NEW k \in Nat, NEW j \in Nat, NEW l \in Nat,
           scans[i].started \in Nat, scans[j].started \in Nat, Before(i, k, j, l)
    PROVE  ~Before(j, l, i, k)
BY DEF Before, Older

(* The observations of a key have the scans and the days of its rows, and  *)
(* the last of them has the last row for its sample.                       *)
LEMMA SameKey ==
    ASSUME TablesTyped, NEW ids \in SUBSET Succeeded, NEW k,
           NEW same, same = {o \in ObservationsIn(ids) : RawKey(o) = k}, same # {}
    PROVE  /\ RawRows(ids, k) # {}
           /\ {o.scan : o \in same} = ScansOf(RawRows(ids, k))
           /\ {scans[o.scan].started : o \in same} = DaysOf(RawRows(ids, k))
           /\ \E last : LastObserved(same, last)
           /\ \A last : LastObserved(same, last)
                          => IsLast(RawRows(ids, k), <<last.scan, last.sample>>)
<1> DEFINE S == RawRows(ids, k)
<1>1. \A o \in same : <<o.scan, o.sample>> \in S /\ o \in ObservationsOf(o.scan)
  BY ObservationRows
<1>2. \A r \in S : \E o \in same : o.scan = r[1]
  BY RowObserved DEF RawRows
<1>3. S # {} /\ S \in SUBSET RowsOf(ids)
  BY <1>1 DEF RawRows
<1>4. \A r \in S : r[1] \in ScansOf(S) /\ scans[r[1]].started \in DaysOf(S)
  BY DEF ScansOf, DaysOf
<1>5. \A o \in same : o.scan \in ScansOf(S) /\ scans[o.scan].started \in DaysOf(S)
  <2> SUFFICES ASSUME NEW o \in same
               PROVE  o.scan \in ScansOf(S) /\ scans[o.scan].started \in DaysOf(S)
    OBVIOUS
  <2>1. PICK r \in S : r = <<o.scan, o.sample>>
    BY <1>1
  <2>2. r[1] = o.scan
    BY <2>1
  <2>3. QED
    BY <1>4, <2>2
<1>6. {o.scan : o \in same} = ScansOf(S)
  BY <1>2, <1>5 DEF ScansOf
<1>7. {scans[o.scan].started : o \in same} = DaysOf(S)
  BY <1>2, <1>5 DEF DaysOf
<1>8. PICK R : IsLast(S, R)
  BY <1>3, LastExists
<1>9. /\ R \in S /\ R \in RowsOf(ids) /\ RowKey(R) = k
      /\ R = <<R[1], R[2]>> /\ R[1] \in Nat /\ R[2] \in Nat /\ R[2] \in Remotes(R[1])
      /\ scans[R[1]].started \in Nat
  <2>1. R \in S /\ R \in RowsOf(ids) /\ RowKey(R) = k
    BY <1>8 DEF IsLast, RawRows
  <2>2. QED
    BY <2>1, RowTypes
<1>10. \A o \in same : /\ o.scan \in Nat /\ o.sample \in Nat /\ scans[o.scan].started \in Nat
                       /\ \/ <<o.scan, o.sample>> = R
                          \/ Before(o.scan, o.sample, R[1], R[2])
  <2> SUFFICES ASSUME NEW o \in same
               PROVE  /\ o.scan \in Nat /\ o.sample \in Nat /\ scans[o.scan].started \in Nat
                      /\ \/ <<o.scan, o.sample>> = R
                         \/ Before(o.scan, o.sample, R[1], R[2])
    OBVIOUS
  <2>1. PICK r \in S : r = <<o.scan, o.sample>>
    BY <1>1
  <2>2. r[1] = o.scan /\ r[2] = o.sample
    BY <2>1
  <2>3. r[1] \in Nat /\ r[2] \in Nat /\ scans[r[1]].started \in Nat
    BY <1>3, RowTypes
  <2>4. r = R \/ Before(r[1], r[2], R[1], R[2])
    BY <1>8 DEF IsLast
  <2>5. QED
    BY <2>1, <2>2, <2>3, <2>4
<1>11. PICK top \in same : top.scan = R[1]
  BY <1>2, <1>9
<1>12. <<top.scan, top.sample>> = R
  <2>1. RawKey(top) = k /\ top \in ObservationsIn(ids)
    OBVIOUS
  <2>2. RowKey(<<top.scan, R[2]>>) = RawKey(top) /\ R[2] \in Remotes(top.scan)
    BY <1>9, <1>11, <2>1
  <2>3. R[2] <= top.sample
    BY <2>1, <2>2, ObservationRows
  <2>4. ~Before(top.scan, top.sample, R[1], R[2])
    BY <1>9, <1>10, <1>11, <2>3 DEF Before, Older
  <2>5. QED
    BY <1>10, <2>4
<1>13. \A q \in same : q = top \/ Before(q.scan, q.sample, top.scan, top.sample)
  <2> SUFFICES ASSUME NEW q \in same, ~Before(q.scan, q.sample, top.scan, top.sample)
               PROVE  q = top
    OBVIOUS
  <2>1. top.scan = R[1] /\ top.sample = R[2]
    BY <1>9, <1>12
  <2>2. <<q.scan, q.sample>> = R
    BY <1>10, <2>1
  <2>3. q.scan = top.scan
    BY <1>9, <1>12, <2>2
  <2>4. q \in ObservationsOf(top.scan) /\ top \in ObservationsOf(top.scan)
    BY <1>1, <2>3
  <2>5. QED
    BY <2>4, ObservationUnique
<1>14. ASSUME NEW last \in same,
             \A q \in same : q = last \/ Before(q.scan, q.sample, last.scan, last.sample)
       PROVE  <<last.scan, last.sample>> = R
  <2>1. CASE top = last
    BY <1>12, <2>1
  <2>2. CASE top # last
    <3>1. Before(top.scan, top.sample, last.scan, last.sample)
      BY <1>14, <2>2
    <3>2. top.scan = R[1] /\ top.sample = R[2]
      BY <1>9, <1>12
    <3>3. ~Before(last.scan, last.sample, top.scan, top.sample)
      BY <1>10, <3>1, BeforeOnce
    <3>4. <<last.scan, last.sample>> = R \/ Before(last.scan, last.sample, R[1], R[2])
      BY <1>10
    <3>5. QED
      BY <3>2, <3>3, <3>4
  <2>3. QED
    BY <2>1, <2>2
<1>15. QED
  BY <1>3, <1>6, <1>7, <1>8, <1>13, <1>14 DEF LastObserved

(* First query: one group for every key of a row.                          *)
LEMMA GroupsAre ==
    ASSUME TablesTyped, NEW ids \in SUBSET Succeeded,
           NEW groups, groups = GroupsOf(ObservationsIn(ids))
    PROVE  /\ \A r \in RowsOf(ids) : \E g \in groups : g.key = RowKey(r)
           /\ \A g, h \in groups : g.key = h.key => g = h
           /\ \A g \in groups : GroupIs(ids, g)
<1> DEFINE obs == ObservationsIn(ids)
           same(k) == {o \in obs : RawKey(o) = k}
           last(k) == CHOOSE o \in same(k) : \A q \in same(k) :
                         q = o \/ Before(q.scan, q.sample, o.scan, o.sample)
           group(k) == [key |-> k,
                        firstSeen |-> Min({scans[o.scan].started : o \in same(k)}),
                        lastSeen |-> Max({scans[o.scan].started : o \in same(k)}),
                        sample |-> <<last(k).scan, last(k).sample>>,
                        scanIds |-> {o.scan : o \in same(k)}]
           keys == {RawKey(o) : o \in obs}
<1>1. groups = {group(k) : k \in keys}
  BY DEF GroupsOf
<1>2. ASSUME NEW k \in keys
      PROVE  group(k).key = k /\ GroupIs(ids, group(k))
  <2>1. PICK S : S = same(k)
    OBVIOUS
  <2>2. PICK l : l = CHOOSE o \in S : \A q \in S :
                         q = o \/ Before(q.scan, q.sample, o.scan, o.sample)
    OBVIOUS
  <2>3. /\ RawRows(ids, k) # {}
        /\ {o.scan : o \in S} = ScansOf(RawRows(ids, k))
        /\ {scans[o.scan].started : o \in S} = DaysOf(RawRows(ids, k))
        /\ IsLast(RawRows(ids, k), <<l.scan, l.sample>>)
    <3>1. S # {} /\ S = {o \in ObservationsIn(ids) : RawKey(o) = k}
      BY <2>1
    <3>2. /\ RawRows(ids, k) # {}
          /\ {o.scan : o \in S} = ScansOf(RawRows(ids, k))
          /\ {scans[o.scan].started : o \in S} = DaysOf(RawRows(ids, k))
      BY <3>1, SameKey
    <3>3. /\ \E e : LastObserved(S, e)
          /\ \A e : LastObserved(S, e) => IsLast(RawRows(ids, k), <<e.scan, e.sample>>)
      BY <3>1, SameKey
    <3>4. LastObserved(S, l)
      BY <2>2, <3>3 DEF LastObserved
    <3>5. IsLast(RawRows(ids, k), <<l.scan, l.sample>>)
      BY <3>3, <3>4
    <3>6. QED
      BY <3>2, <3>5
  <2>4. PICK first, final, sample, scanIds :
          /\ first = Min({scans[o.scan].started : o \in S})
          /\ final = Max({scans[o.scan].started : o \in S})
          /\ sample = <<l.scan, l.sample>> /\ scanIds = {o.scan : o \in S}
    OBVIOUS
  <2>5. group(k) = [key |-> k, firstSeen |-> first, lastSeen |-> final,
                    sample |-> sample, scanIds |-> scanIds]
    BY <2>1, <2>2, <2>4
  <2>6. PICK g : g = group(k)
    OBVIOUS
  <2>7. /\ g.key = k /\ g.firstSeen = first /\ g.lastSeen = final
        /\ g.sample = sample /\ g.scanIds = scanIds
    BY <2>5, <2>6
  <2>8. GroupIs(ids, g)
    BY <2>3, <2>4, <2>7 DEF GroupIs
  <2>9. QED
    BY <2>6, <2>7, <2>8
<1>3. \A r \in RowsOf(ids) : RowKey(r) \in keys
  BY RowObserved
<1> HIDE DEF group, keys
<1>4. QED
  BY <1>1, <1>2, <1>3

(* Second query: the local addresses of the rows of a key.                 *)
LEMMA LocalsAre ==
    ASSUME TablesTyped, NEW ids \in SUBSET Succeeded, NEW k, RawRows(ids, k) # {}
    PROVE  /\ LocalsFor(LocalsOf(ObservationsIn(ids)), k)
                = {content[r[1]][r[2]].local : r \in RawRows(ids, k)}
           /\ LocalsFor(LocalsOf(ObservationsIn(ids)), k) # {}
<1> DEFINE obs == ObservationsIn(ids)
           all == UNION {o.locals : o \in {q \in obs : RawKey(q) = k}}
           locals == {content[r[1]][r[2]].local : r \in RawRows(ids, k)}
<1>1. PICK r0 \in RawRows(ids, k) : TRUE
  OBVIOUS
<1>2. k \in {RawKey(o) : o \in obs}
  BY <1>1, RowObserved DEF RawRows
<1>3. LocalsFor(LocalsOf(obs), k) = all
  BY <1>2 DEF LocalsFor, LocalsOf
<1>4. ASSUME NEW o \in obs, RawKey(o) = k, NEW x \in o.locals PROVE x \in locals
  <2>1. PICK J : /\ J = {j \in Remotes(o.scan) : RowKey(<<o.scan, j>>) = RawKey(o)}
                 /\ o.locals = {content[o.scan][j].local : j \in J}
    BY ObservationRows
  <2>2. PICK j \in Remotes(o.scan) : /\ RowKey(<<o.scan, j>>) = k
                                     /\ x = content[o.scan][j].local
    BY <1>4, <2>1
  <2>3. o.scan \in ids
    BY ObservationRows
  <2>4. <<o.scan, j>> \in RawRows(ids, k)
    <3>1. <<o.scan, j>> \in {o.scan} \X Remotes(o.scan)
      BY <2>2
    <3>2. <<o.scan, j>> \in RowsOf(ids)
      BY <2>3, <3>1 DEF RowsOf
    <3>3. QED
      BY <2>2, <3>2 DEF RawRows
  <2>5. PICK r \in RawRows(ids, k) : r = <<o.scan, j>>
    BY <2>4
  <2>6. r[1] = o.scan /\ r[2] = j
    BY <2>5
  <2>7. QED
    BY <2>2, <2>6
<1>5. ASSUME NEW r \in RawRows(ids, k) PROVE content[r[1]][r[2]].local \in all
  <2>1. /\ r \in RowsOf(ids) /\ RowKey(r) = k /\ r = <<r[1], r[2]>> /\ r[2] \in Remotes(r[1])
    BY RowTypes DEF RawRows
  <2>2. PICK o \in obs : o.scan = r[1] /\ RawKey(o) = k
    BY <2>1, RowObserved
  <2>3. r[2] \in {j \in Remotes(o.scan) : RowKey(<<o.scan, j>>) = RawKey(o)}
    BY <2>1, <2>2
  <2>4. content[r[1]][r[2]].local \in o.locals
    <3>1. PICK J : /\ J = {j \in Remotes(o.scan) : RowKey(<<o.scan, j>>) = RawKey(o)}
                   /\ o.locals = {content[o.scan][j].local : j \in J}
      BY ObservationRows
    <3>2. QED
      BY <2>2, <2>3, <3>1
  <2>5. QED
    BY <2>2, <2>4
<1>6. all = locals
  BY <1>4, <1>5
<1>7. content[r0[1]][r0[2]].local \in locals
  BY <1>1
<1> HIDE DEF all, locals
<1>8. QED
  BY <1>3, <1>6, <1>7 DEF locals

(* What both make of a service: its rows, whatever form their addresses    *)
(* have.                                                                   *)
ServiceRows(ids, K) == {r \in RowsOf(ids) : ServiceKey(r) = K}
ServiceKeys(ids) == {ServiceKey(r) : r \in {q \in RowsOf(ids) : ServiceKey(q).ip # Loopback}}

LastRow(S) == CHOOSE r \in S : \A q \in S : q = r \/ Before(q[1], q[2], r[1], r[2])

RowLocals(S) == {content[r[1]][r[2]].local : r \in S}

Service(ids, K, current) ==
    [key |-> K,
     scanIds |-> ScansOf(ServiceRows(ids, K)),
     firstSeen |-> Min(DaysOf(ServiceRows(ids, K))),
     lastSeen |-> scans[LastRow(ServiceRows(ids, K))[1]].started,
     isCurrent |-> ScansOf(ServiceRows(ids, K)) \cap current # {},
     sample |-> LastRow(ServiceRows(ids, K)),
     state |-> content[LastRow(ServiceRows(ids, K))[1]][LastRow(ServiceRows(ids, K))[2]].state,
     locals |-> RowLocals(ServiceRows(ids, K))]

(* The Python aggregation, as long as the raw records are there.           *)
LEMMA PythonShows ==
    ASSUME NEW ids, \A r \in RowsOf(ids) : scans[r[1]].raw, NEW current
    PROVE  AggregateRecords(ids, current) = {Service(ids, K, current) : K \in ServiceKeys(ids)}
<1> DEFINE rows == {r \in UNION {{i} \X Remotes(i) : i \in ids} :
                    /\ scans[r[1]].raw
                    /\ Normalize(content[r[1]][r[2]].remote) # Loopback}
           key(r) == [device |-> scans[r[1]].device,
                      service |-> content[r[1]][r[2]].service,
                      ip |-> Normalize(content[r[1]][r[2]].remote)]
           bucket(k) ==
            LET same == {r \in rows : key(r) = k}
                last == CHOOSE r \in same : \A q \in same :
                            q = r \/ Before(q[1], q[2], r[1], r[2])
            IN  [key |-> k,
                 scanIds |-> {r[1] : r \in same},
                 firstSeen |-> Min({scans[r[1]].started : r \in same}),
                 lastSeen |-> scans[last[1]].started,
                 isCurrent |-> {r[1] : r \in same} \cap current # {},
                 sample |-> last,
                 state |-> content[last[1]][last[2]].state,
                 locals |-> {content[r[1]][r[2]].local : r \in same}]
<1>1. AggregateRecords(ids, current) = {bucket(key(r)) : r \in rows}
  BY DEF AggregateRecords
<1>2. \A r : key(r) = ServiceKey(r) /\ ServiceKey(r).ip = Normalize(content[r[1]][r[2]].remote)
  BY DEF ServiceKey
<1>3. rows = {r \in RowsOf(ids) : ServiceKey(r).ip # Loopback}
  BY <1>2 DEF RowsOf
<1>4. ASSUME NEW k, k.ip # Loopback PROVE {r \in rows : key(r) = k} = ServiceRows(ids, k)
  BY <1>2, <1>3, <1>4 DEF ServiceRows
<1>5. ASSUME NEW k, k.ip # Loopback PROVE bucket(k) = Service(ids, k, current)
  <2>1. PICK S : S = {r \in rows : key(r) = k}
    OBVIOUS
  <2>2. S = ServiceRows(ids, k)
    BY <1>4, <1>5, <2>1
  <2>3. PICK R : R = LastRow(S)
    OBVIOUS
  <2>4. bucket(k) = [key |-> k, scanIds |-> ScansOf(S), firstSeen |-> Min(DaysOf(S)),
                     lastSeen |-> scans[R[1]].started,
                     isCurrent |-> ScansOf(S) \cap current # {}, sample |-> R,
                     state |-> content[R[1]][R[2]].state,
                     locals |-> RowLocals(S)]
    BY <2>1, <2>3 DEF LastRow, ScansOf, DaysOf, RowLocals
  <2>5. QED
    BY <2>2, <2>3, <2>4 DEF Service
<1> HIDE DEF bucket, key, rows
<1>6. \A r \in rows : key(r) \in ServiceKeys(ids) /\ key(r).ip # Loopback
  BY <1>2, <1>3 DEF ServiceKeys
<1>7. \A K \in ServiceKeys(ids) : K.ip # Loopback /\ \E r \in rows : key(r) = K
  BY <1>2, <1>3 DEF ServiceKeys
<1>8. QED
  BY <1>1, <1>5, <1>6, <1>7

LastGroup(G, g) ==
    g \in G /\ \A q \in G : q = g \/ Before(q.sample[1], q.sample[2], g.sample[1], g.sample[2])

(* A least and a greatest element are the minimum and the maximum.         *)
LEMMA DayLeast ==
    ASSUME NEW n \in Nat, NEW S \in SUBSET (0..n), NEW e \in S
    PROVE  /\ (\A d \in S : e <= d) => Min(S) = e
           /\ (\A d \in S : d <= e) => Max(S) = e
<1>1. /\ Min(S) \in S /\ Max(S) \in S /\ Min(S) \in 0..n /\ Max(S) \in 0..n
      /\ Min(S) <= e /\ e <= Max(S)
  BY DayBounds
<1>2. e \in 0..n
  OBVIOUS
<1>3. QED
  BY <1>1, <1>2

(* The groups of one normalised key are made of its rows.                  *)
LEMMA GroupsOfService ==
    ASSUME TablesTyped, NEW ids \in SUBSET Succeeded,
           NEW groups, groups = GroupsOf(ObservationsIn(ids)), NEW K
    PROVE  /\ \A g \in groups : GroupKey(g) = K => RawRows(ids, g.key) \subseteq ServiceRows(ids, K)
           /\ \A r \in ServiceRows(ids, K) : \E g \in groups :
                 GroupKey(g) = K /\ g.key = RowKey(r) /\ r \in RawRows(ids, g.key)
<1>1. \A r : /\ RowKey(r).device = scans[r[1]].device
             /\ RowKey(r).service = content[r[1]][r[2]].service
             /\ RowKey(r).remote = content[r[1]][r[2]].remote
  BY DEF RowKey
<1>2. ASSUME NEW r, NEW g, g.key = RowKey(r) PROVE GroupKey(g) = ServiceKey(r)
  BY <1>1, <1>2 DEF GroupKey, ServiceKey
<1>3. ASSUME NEW g \in groups, GroupKey(g) = K
      PROVE  RawRows(ids, g.key) \subseteq ServiceRows(ids, K)
  BY <1>2, <1>3 DEF RawRows, ServiceRows
<1>4. ASSUME NEW r \in ServiceRows(ids, K)
      PROVE  \E g \in groups : GroupKey(g) = K /\ g.key = RowKey(r) /\ r \in RawRows(ids, g.key)
  <2>1. r \in RowsOf(ids) /\ ServiceKey(r) = K
    BY DEF ServiceRows
  <2>2. PICK g \in groups : g.key = RowKey(r)
    BY <2>1, GroupsAre
  <2>3. QED
    BY <1>2, <2>1, <2>2 DEF RawRows
<1>5. QED
  BY <1>3, <1>4

MergedScans(G) == UNION {g.scanIds : g \in G}
MergedFirst(G) == Min({g.firstSeen : g \in G})
MergedFinal(G) == Max({g.lastSeen : g \in G})
MergedLocals(locals, G) == UNION {LocalsFor(locals, g.key) : g \in G}

(* Merged, the groups of a service have the scans, the span, the local     *)
(* addresses and the last row of its rows.                                 *)
LEMMA MergedDays ==
    ASSUME TablesTyped, NEW ids \in SUBSET Succeeded,
           NEW groups, groups = GroupsOf(ObservationsIn(ids)), NEW K,
           NEW G, G = {g \in groups : GroupKey(g) = K},
           NEW S, S = ServiceRows(ids, K), NEW R, IsLast(S, R)
    PROVE  /\ MergedScans(G) = ScansOf(S) /\ MergedFirst(G) = Min(DaysOf(S))
           /\ MergedFinal(G) = scans[R[1]].started
<1>1. S \in SUBSET RowsOf(ids) /\ R \in S
  BY DEF ServiceRows, IsLast
<1>2. /\ MaxDay \in Nat
      /\ \A r \in S : r[1] \in Nat /\ scans[r[1]].started \in 0..MaxDay
  BY <1>1, RowTypes, RetentionConstants
<1>3. DaysOf(S) \in SUBSET (0..MaxDay) /\ scans[R[1]].started \in DaysOf(S)
  BY <1>1, <1>2 DEF DaysOf
<1>4. \A g \in G : /\ RawRows(ids, g.key) \subseteq S /\ RawRows(ids, g.key) # {}
                   /\ GroupIs(ids, g)
  BY GroupsOfService, GroupsAre DEF GroupIs
<1>5. \A r \in S : \E g \in G : r \in RawRows(ids, g.key)
  BY GroupsOfService
<1>6. UNION {g.scanIds : g \in G} = ScansOf(S)
  BY <1>4, <1>5 DEF GroupIs, ScansOf
<1>7. ASSUME NEW g \in G
      PROVE  /\ g.firstSeen \in DaysOf(S) /\ g.lastSeen \in DaysOf(S)
             /\ \A d \in DaysOf(RawRows(ids, g.key)) : g.firstSeen <= d /\ d <= g.lastSeen
  <2>1. PICK D : D = DaysOf(RawRows(ids, g.key))
    OBVIOUS
  <2>2. D \in SUBSET DaysOf(S) /\ D # {}
    BY <1>4, <2>1 DEF DaysOf
  <2>3. D \in SUBSET (0..MaxDay)
    BY <1>3, <2>2
  <2>4. Min(D) \in D /\ Max(D) \in D /\ \A d \in D : Min(D) <= d /\ d <= Max(D)
    BY <1>2, <2>2, <2>3, DayBounds
  <2>5. g.firstSeen = Min(D) /\ g.lastSeen = Max(D)
    BY <1>4, <2>1 DEF GroupIs
  <2>6. QED
    BY <2>1, <2>2, <2>4, <2>5
<1>8. ASSUME NEW d \in DaysOf(S)
      PROVE  \E g \in G : g.firstSeen <= d /\ d <= g.lastSeen
  <2>1. PICK r \in S : d = scans[r[1]].started
    BY DEF DaysOf
  <2>2. PICK g \in G : r \in RawRows(ids, g.key)
    BY <1>5
  <2>3. d \in DaysOf(RawRows(ids, g.key))
    BY <2>1, <2>2 DEF DaysOf
  <2>4. QED
    BY <1>7, <2>3
<1>9. PICK F, L : F = {g.firstSeen : g \in G} /\ L = {g.lastSeen : g \in G}
  OBVIOUS
<1>10. F \in SUBSET (0..MaxDay) /\ L \in SUBSET (0..MaxDay)
       /\ F \in SUBSET DaysOf(S) /\ L \in SUBSET DaysOf(S)
  BY <1>3, <1>7, <1>9
<1>11. PICK m : m = Min(DaysOf(S)) /\ m \in DaysOf(S) /\ \A d \in DaysOf(S) : m <= d
  BY <1>2, <1>3, DayBounds
<1>12. m \in F
  <2>1. PICK g \in G : g.firstSeen <= m
    BY <1>8, <1>11
  <2>2. m <= g.firstSeen /\ m \in 0..MaxDay /\ g.firstSeen \in 0..MaxDay
    BY <1>3, <1>7, <1>11
  <2>3. g.firstSeen = m
    BY <2>1, <2>2
  <2>4. QED
    BY <1>9, <2>3
<1>13. \A d \in F : m <= d
  BY <1>10, <1>11
<1>14. Min(F) = m
  BY <1>2, <1>10, <1>12, <1>13, DayLeast
<1>15. PICK x : x = scans[R[1]].started /\ x \in 0..MaxDay
  BY <1>3
<1>16. \A d \in DaysOf(S) : d <= x
  <2> SUFFICES ASSUME NEW r \in S PROVE scans[r[1]].started <= x
    BY DEF DaysOf
  <2>1. r = R \/ Before(r[1], r[2], R[1], R[2])
    BY DEF IsLast
  <2>2. scans[r[1]].started \in Nat /\ r[1] \in Nat /\ R[1] \in Nat /\ x \in Nat
    BY <1>1, <1>2, <1>15
  <2>3. QED
    BY <1>15, <2>1, <2>2 DEF Before, Older
<1>17. x \in L
  <2>1. PICK g \in G : x <= g.lastSeen
    BY <1>3, <1>8, <1>15
  <2>2. g.lastSeen <= x /\ g.lastSeen \in 0..MaxDay
    BY <1>3, <1>7, <1>16
  <2>3. g.lastSeen = x
    BY <1>15, <2>1, <2>2
  <2>4. QED
    BY <1>9, <2>3
<1>18. \A d \in L : d <= x
  BY <1>10, <1>16
<1>19. Max(L) = x
  BY <1>2, <1>10, <1>17, <1>18, DayLeast
<1>20. QED
  BY <1>6, <1>9, <1>11, <1>14, <1>15, <1>19 DEF MergedScans, MergedFirst, MergedFinal

(* The latest scan of a group is the latest of the merged ones.            *)
LEMMA MergedLast ==
    ASSUME TablesTyped, NEW ids \in SUBSET Succeeded,
           NEW groups, groups = GroupsOf(ObservationsIn(ids)), NEW K,
           NEW G, G = {g \in groups : GroupKey(g) = K},
           NEW S, S = ServiceRows(ids, K), NEW R, IsLast(S, R)
    PROVE  /\ \E g : LastGroup(G, g)
           /\ \A g : LastGroup(G, g) => g.sample = R
<1>1. S \in SUBSET RowsOf(ids) /\ R \in S
  BY DEF ServiceRows, IsLast
<1>2. PICK top \in groups : GroupKey(top) = K /\ top.key = RowKey(R) /\ R \in RawRows(ids, top.key)
  BY <1>1, GroupsOfService
<1>3. \A g \in G : /\ RawRows(ids, g.key) \subseteq S /\ g \in groups
                   /\ IsLast(RawRows(ids, g.key), g.sample)
                   /\ g.sample \in S /\ RowKey(g.sample) = g.key
  <2> SUFFICES ASSUME NEW g \in G
               PROVE  /\ RawRows(ids, g.key) \subseteq S /\ g \in groups
                      /\ IsLast(RawRows(ids, g.key), g.sample)
                      /\ g.sample \in S /\ RowKey(g.sample) = g.key
    OBVIOUS
  <2>1. g \in groups /\ RawRows(ids, g.key) \subseteq S
    BY GroupsOfService
  <2>2. IsLast(RawRows(ids, g.key), g.sample)
    BY <2>1, GroupsAre DEF GroupIs
  <2>3. g.sample \in RawRows(ids, g.key)
    BY <2>2 DEF IsLast
  <2>4. RowKey(g.sample) = g.key
    BY <2>3 DEF RawRows
  <2>5. QED
    BY <2>1, <2>2, <2>3, <2>4
<1>4. top \in G
  BY <1>2
<1>5. top.sample = R
  <2>1. PICK T : T = RawRows(ids, top.key) /\ T \in SUBSET RowsOf(ids) /\ T \subseteq S
    BY <1>1, <1>3, <1>4
  <2>2. IsLast(T, R)
    BY <1>2, <2>1 DEF IsLast
  <2>3. IsLast(T, top.sample)
    BY <1>3, <1>4, <2>1
  <2>4. QED
    BY <2>1, <2>2, <2>3, LastUnique
<1>6. ASSUME NEW q \in G, q.sample = R PROVE q = top
  <2>1. q.key = top.key /\ q \in groups
    BY <1>2, <1>3, <1>6
  <2>2. QED
    BY <2>1, GroupsAre
<1>7. \A q \in G : q.sample = R \/ Before(q.sample[1], q.sample[2], R[1], R[2])
  BY <1>3 DEF IsLast
<1>8. LastGroup(G, top)
  BY <1>4, <1>5, <1>6, <1>7 DEF LastGroup
<1>9. ASSUME NEW g, LastGroup(G, g), g.sample # R PROVE FALSE
  <2>1. g \in G /\ Before(g.sample[1], g.sample[2], R[1], R[2])
    BY <1>7, <1>9 DEF LastGroup
  <2>2. Before(R[1], R[2], g.sample[1], g.sample[2])
    BY <1>4, <1>5, <1>9 DEF LastGroup
  <2>3. g.sample \in RowsOf(ids) /\ R \in RowsOf(ids)
    BY <1>1, <1>3, <2>1
  <2>4. PICK s : s = g.sample /\ s \in RowsOf(ids)
    BY <2>3
  <2>5. /\ s[1] \in Nat /\ s[2] \in Nat /\ R[1] \in Nat /\ R[2] \in Nat
        /\ scans[s[1]].started \in Nat /\ scans[R[1]].started \in Nat
    BY <2>3, <2>4, RowTypes
  <2>6. QED
    BY <2>1, <2>2, <2>4, <2>5, BeforeOnce
<1>10. QED
  BY <1>8, <1>9

(* The local addresses of a group are those of the merged ones.            *)
LEMMA MergedAddresses ==
    ASSUME TablesTyped, NEW ids \in SUBSET Succeeded,
           NEW groups, groups = GroupsOf(ObservationsIn(ids)), NEW K,
           NEW G, G = {g \in groups : GroupKey(g) = K},
           NEW S, S = ServiceRows(ids, K),
           NEW locals, locals = LocalsOf(ObservationsIn(ids))
    PROVE  MergedLocals(locals, G) = RowLocals(S)
<1>1. ASSUME NEW g \in G
      PROVE  /\ LocalsFor(locals, g.key) = {content[r[1]][r[2]].local : r \in RawRows(ids, g.key)}
             /\ RawRows(ids, g.key) \subseteq S
  <2>1. g \in groups /\ GroupKey(g) = K
    OBVIOUS
  <2>2. RawRows(ids, g.key) # {} /\ RawRows(ids, g.key) \subseteq S
    BY <2>1, GroupsAre, GroupsOfService DEF GroupIs
  <2>3. PICK k : k = g.key
    OBVIOUS
  <2>4. LocalsFor(LocalsOf(ObservationsIn(ids)), k)
          = {content[r[1]][r[2]].local : r \in RawRows(ids, k)}
    BY <2>2, <2>3, LocalsAre
  <2>5. QED
    BY <2>2, <2>3, <2>4
<1>2. \A r \in S : \E g \in G : r \in RawRows(ids, g.key)
  BY GroupsOfService
<1>3. PICK A, B : /\ A = UNION {LocalsFor(locals, g.key) : g \in G}
                  /\ B = {content[r[1]][r[2]].local : r \in S}
  OBVIOUS
<1>4. ASSUME NEW x \in A PROVE x \in B
  <2>1. PICK g \in G : x \in LocalsFor(locals, g.key)
    BY <1>3
  <2>2. PICK T : T = RawRows(ids, g.key) /\ T \subseteq S
                 /\ LocalsFor(locals, g.key) = {content[r[1]][r[2]].local : r \in T}
    BY <1>1
  <2>3. QED
    BY <1>3, <2>1, <2>2
<1>5. ASSUME NEW x \in B PROVE x \in A
  <2>1. PICK r \in S : x = content[r[1]][r[2]].local
    BY <1>3
  <2>2. PICK g \in G : r \in RawRows(ids, g.key)
    BY <1>2
  <2>3. PICK T : T = RawRows(ids, g.key)
                 /\ LocalsFor(locals, g.key) = {content[q[1]][q[2]].local : q \in T}
    BY <1>1
  <2>4. x \in LocalsFor(locals, g.key)
    BY <2>1, <2>2, <2>3
  <2>5. QED
    BY <1>3, <2>4
<1>6. QED
  BY <1>3, <1>4, <1>5 DEF MergedLocals, RowLocals

(* The SQL aggregation, as long as the raw records are there.              *)
LEMMA SqlShows ==
    ASSUME TablesTyped, NEW ids \in SUBSET Succeeded, \A i \in ids : scans[i].raw, NEW current
    PROVE  Aggregate(ObservationsIn(ids), current)
             = {Service(ids, K, current) : K \in ServiceKeys(ids)}
<1>1. PICK groups : groups = GroupsOf(ObservationsIn(ids))
  OBVIOUS
<1>2. PICK locals : locals = LocalsOf(ObservationsIn(ids))
  OBVIOUS
<1>3. PICK samples : samples = SamplesOf(groups)
  OBVIOUS
<1> DEFINE rows == {g \in groups : /\ Normalize(g.key.remote) # Loopback
                                   /\ Usable(g, locals, samples)}
           bucket(k) ==
            LET same == {g \in rows : GroupKey(g) = k}
                scanIds == UNION {g.scanIds : g \in same}
                last == CHOOSE g \in same : \A q \in same :
                            q = g \/ Before(q.sample[1], q.sample[2],
                                            g.sample[1], g.sample[2])
                s    == last.sample
            IN  [key |-> k,
                 scanIds |-> scanIds,
                 firstSeen |-> Min({g.firstSeen : g \in same}),
                 lastSeen |-> Max({g.lastSeen : g \in same}),
                 isCurrent |-> scanIds \cap current # {},
                 sample |-> s,
                 state |-> IF s \in samples THEN content[s[1]][s[2]].state ELSE Null,
                 locals |-> UNION {LocalsFor(locals, g.key) : g \in same}]
<1>4. Aggregate(ObservationsIn(ids), current) = {bucket(GroupKey(g)) : g \in rows}
  BY <1>1, <1>2, <1>3 DEF Aggregate, MergeGroups
<1>5. ASSUME NEW g \in groups PROVE g.sample \in samples /\ g.sample \in RowsOf(ids)
  <2>1. g.sample \in RowsOf(ids)
    BY <1>1, GroupsAre DEF GroupIs, IsLast, RawRows
  <2>2. PICK s : s = g.sample /\ s \in RowsOf(ids)
    BY <2>1
  <2>3. scans[s[1]].raw
    BY <2>2, RowTypes
  <2>4. QED
    BY <1>3, <2>1, <2>2, <2>3 DEF SamplesOf
<1>6. rows = {g \in groups : GroupKey(g).ip # Loopback}
  BY <1>5 DEF Usable, GroupKey
<1>7. ASSUME NEW k \in ServiceKeys(ids) PROVE bucket(k) = Service(ids, k, current)
  <2>1. PICK G : G = {g \in rows : GroupKey(g) = k}
    OBVIOUS
  <2>2. k.ip # Loopback /\ \E r \in RowsOf(ids) : ServiceKey(r) = k
    BY DEF ServiceKeys
  <2>3. G = {g \in groups : GroupKey(g) = k}
    BY <1>6, <2>1, <2>2
  <2>4. PICK S : S = ServiceRows(ids, k) /\ S \in SUBSET RowsOf(ids) /\ S # {}
    BY <2>2 DEF ServiceRows
  <2>5. PICK R : IsLast(S, R)
    BY <2>4, LastExists
  <2>6. LastRow(S) = R
    BY <2>4, <2>5, LastChosen DEF LastRow
  <2>7. PICK last : last = CHOOSE g \in G : \A q \in G :
                       q = g \/ Before(q.sample[1], q.sample[2], g.sample[1], g.sample[2])
    OBVIOUS
  <2>8. /\ \E g : LastGroup(G, g)
        /\ \A g : LastGroup(G, g) => g.sample = R
    BY <1>1, <2>3, <2>4, <2>5, MergedLast
  <2>9. LastGroup(G, last)
    BY <2>7, <2>8 DEF LastGroup
  <2>10. last.sample = R /\ R \in samples
    <3>1. last.sample = R
      BY <2>8, <2>9
    <3>2. last \in groups
      BY <2>3, <2>9 DEF LastGroup
    <3>3. QED
      BY <1>5, <3>1, <3>2
  <2>11. PICK scanIds, first, final, addresses :
           /\ scanIds = MergedScans(G) /\ first = MergedFirst(G)
           /\ final = MergedFinal(G) /\ addresses = MergedLocals(locals, G)
    OBVIOUS
  <2>12. scanIds = ScansOf(S) /\ first = Min(DaysOf(S)) /\ final = scans[R[1]].started
    <3> HIDE DEF bucket, rows
    <3>1. QED
      BY <1>1, <2>3, <2>4, <2>5, <2>11, MergedDays
  <2>13. addresses = RowLocals(S)
    <3> HIDE DEF bucket, rows
    <3>1. QED
      BY <1>1, <1>2, <2>3, <2>4, <2>11, MergedAddresses
  <2>14. bucket(k) = [key |-> k, scanIds |-> scanIds, firstSeen |-> first,
                      lastSeen |-> final, isCurrent |-> scanIds \cap current # {},
                      sample |-> last.sample,
                      state |-> IF last.sample \in samples
                                THEN content[last.sample[1]][last.sample[2]].state ELSE Null,
                      locals |-> addresses]
    BY <2>1, <2>7, <2>11 DEF MergedScans, MergedFirst, MergedFinal, MergedLocals
  <2>15. bucket(k) = [key |-> k, scanIds |-> ScansOf(S), firstSeen |-> Min(DaysOf(S)),
                      lastSeen |-> scans[R[1]].started,
                      isCurrent |-> ScansOf(S) \cap current # {}, sample |-> R,
                      state |-> content[R[1]][R[2]].state,
                      locals |-> RowLocals(S)]
    <3> HIDE DEF bucket
    <3>1. QED
      BY <2>10, <2>12, <2>13, <2>14
  <2>16. Service(ids, k, current) =
           [key |-> k, scanIds |-> ScansOf(S), firstSeen |-> Min(DaysOf(S)),
            lastSeen |-> scans[R[1]].started,
            isCurrent |-> ScansOf(S) \cap current # {}, sample |-> R,
            state |-> content[R[1]][R[2]].state,
            locals |-> RowLocals(S)]
    BY <2>4, <2>6 DEF Service
  <2> HIDE DEF bucket
  <2>17. QED
    BY <2>15, <2>16
<1> HIDE DEF bucket, rows
<1>8. ASSUME NEW g \in rows PROVE GroupKey(g) \in ServiceKeys(ids)
  <2>1. g \in groups /\ GroupKey(g).ip # Loopback
    BY <1>6
  <2>2. RawRows(ids, g.key) # {} /\ RawRows(ids, g.key) \subseteq ServiceRows(ids, GroupKey(g))
    BY <1>1, <2>1, GroupsAre, GroupsOfService DEF GroupIs
  <2>3. PICK r \in RowsOf(ids) : ServiceKey(r) = GroupKey(g)
    BY <2>2 DEF ServiceRows
  <2>4. QED
    BY <2>1, <2>3 DEF ServiceKeys
<1>9. ASSUME NEW k \in ServiceKeys(ids) PROVE \E g \in rows : GroupKey(g) = k
  <2>1. PICK r \in RowsOf(ids) : k = ServiceKey(r) /\ k.ip # Loopback
    BY DEF ServiceKeys
  <2>2. r \in ServiceRows(ids, k)
    BY <2>1 DEF ServiceRows
  <2>3. PICK g \in groups : GroupKey(g) = k
    BY <1>1, <2>2, GroupsOfService
  <2>4. QED
    BY <1>6, <2>1, <2>3
<1>10. QED
  BY <1>4, <1>7, <1>8, <1>9

(* The two aggregations of the same scans.                                 *)
LEMMA AggregatesAgree ==
    ASSUME TablesTyped, NEW ids \in SUBSET Succeeded, \A i \in ids : scans[i].raw, NEW current
    PROVE  Aggregate(ObservationsIn(ids), current) = AggregateRecords(ids, current)
<1>1. \A r \in RowsOf(ids) : scans[r[1]].raw
  BY RowTypes
<1>2. QED
  BY <1>1, PythonShows, SqlShows

(* The conditions of the queries choose scans, so the candidates of a view *)
(* are the observations of the scans it is about.                          *)
LEMMA WindowObservations ==
    ASSUME TablesTyped, NEW window, NEW now, NEW current,
           NEW ids, ids = {i \in Succeeded : \/ i \in current
                                             \/ window # Current /\ scans[i].started + window >= now}
    PROVE  {o \in Observations : InWindow(o, window, now, current)} = ObservationsIn(ids)
<1>1. PICK all : all = Succeeded /\ all \in SUBSET Succeeded
  OBVIOUS
<1>2. Observations = ObservationsIn(all)
  BY <1>1 DEF Observations, ObservationsIn
<1>3. \A o \in Observations : o.scan \in Succeeded /\ o \in ObservationsOf(o.scan)
  BY <1>1, <1>2, ObservationRows
<1>4. ids \in SUBSET Succeeded
  OBVIOUS
<1>5. \A o \in ObservationsIn(ids) : o.scan \in ids /\ o \in Observations
  <2>1. \A o \in ObservationsIn(ids) : o.scan \in ids
    BY <1>4, ObservationRows
  <2>2. ObservationsIn(ids) \subseteq Observations
    BY <1>4 DEF ObservationsIn, Observations
  <2>3. QED
    BY <2>1, <2>2
<1>6. \A o \in Observations : InWindow(o, window, now, current) <=> o.scan \in ids
  BY <1>3 DEF InWindow
<1>7. \A o \in Observations : o.scan \in ids => o \in ObservationsIn(ids)
  BY <1>3 DEF ObservationsIn
<1>8. QED
  BY <1>5, <1>6, <1>7

(* The SQL aggregation of observations gives what the Python one makes of  *)
(* the raw records, for every window whose raw records are still there,    *)
(* whatever scans found, in whichever forms older versions stored it, and  *)
(* whatever the purges took.                                               *)
THEOREM SqlMatchesPythonHolds == Spec => []SqlMatchesPython
<1>1. TablesTyped => SqlMatchesPython
  <2> SUFFICES ASSUME TablesTyped, NEW window \in Windows,
                      \A i \in ScansIn(window) : scans[i].raw
               PROVE  Aggregate({o \in Observations : InWindow(o, window, day, CurrentScans)},
                                CurrentScans)
                        = AggregateRecords(ScansIn(window), CurrentScans)
    BY DEF SqlMatchesPython
  <2>1. PICK current, ids : current = CurrentScans /\ ids = ScansIn(window)
    OBVIOUS
  <2>2. ids = {i \in Succeeded : \/ i \in current
                                 \/ window # Current /\ scans[i].started + window >= day}
    BY <2>1 DEF ScansIn
  <2>3. {o \in Observations : InWindow(o, window, day, current)} = ObservationsIn(ids)
    BY <2>2, WindowObservations
  <2>4. ids \in SUBSET Succeeded /\ \A i \in ids : scans[i].raw
    BY <2>1, <2>2
  <2>5. Aggregate(ObservationsIn(ids), current) = AggregateRecords(ids, current)
    BY <2>4, AggregatesAgree
  <2>6. QED
    BY <2>1, <2>3, <2>5
<1>2. QED
  BY <1>1, ContentIsTyped, HistoryRetains, RetentionSafe, PTL DEF TablesTyped

(* The raw rows of a device's latest scan are never purged.                *)
LEMMA CurrentIsKept ==
    ASSUME RetentionInv, NEW i \in CurrentScans
    PROVE  i \in Succeeded /\ scans[i].raw
<1>1. /\ i \in Present /\ scans[i].success /\ Newer(i) = {} /\ i \in Succeeded
  BY DEF CurrentScans, Succeeded
<1>2. Cardinality(Newer(i)) = 0
  BY <1>1, FS_EmptySet
<1>3. i \in KeptIds
  <2>1. KeptScans \in Nat /\ KeptScans >= 2
    BY RetentionConstants, HistoryConstants
  <2>2. QED
    BY <1>1, <1>2, <2>1 DEF KeptIds
<1>4. QED
  BY <1>1, <1>3 DEF RetentionInv, LatestTwoReadable

(* An observation is of the device of its scan.                            *)
LEMMA ObservedDevice ==
    ASSUME TablesTyped, NEW ids \in SUBSET Succeeded, NEW o \in ObservationsIn(ids)
    PROVE  o.device = scans[o.scan].device
<1>1. PICK r : r = <<o.scan, o.sample>> /\ RowKey(r) = RawKey(o)
  BY ObservationRows DEF RawRows
<1>2. r[1] = o.scan
  BY <1>1
<1>3. RowKey(r).device = scans[r[1]].device
  BY DEF RowKey
<1>4. RawKey(o).device = o.device
  BY DEF RawKey
<1>5. QED
  BY <1>1, <1>2, <1>3, <1>4

(* At every moment of every purge the current view of a device, made from  *)
(* raw records, shows what its observations hold, and all its listeners.   *)
THEOREM CurrentViewsAgreeHolds == Spec => []CurrentViewsAgree
<1>1. TablesTyped => CurrentViewsAgree
  <2> SUFFICES ASSUME TablesTyped, NEW i \in CurrentScans
               PROVE  LET view == BuildTopology(i, AggregateRecords({i}, {i}))
                      IN  /\ view = BuildTopology(i, Aggregate(
                               {o \in Observations : /\ InWindow(o, Current, day, {i})
                                                     /\ o.device = scans[i].device}, {i}))
                          /\ view.listeners = DOMAIN content[i] \ Remotes(i)
    BY DEF CurrentViewsAgree
  <2>1. i \in Succeeded /\ scans[i].raw
    BY CurrentIsKept DEF TablesTyped
  <2>2. PICK ids : ids = {i}
    OBVIOUS
  <2>3. ids \in SUBSET Succeeded /\ \A j \in ids : scans[j].raw
    BY <2>1, <2>2
  <2>4. ids = {j \in Succeeded : j \in ids \/ (Current # Current /\ scans[j].started + Current >= day)}
    BY <2>2, <2>3
  <2>5. {o \in Observations : InWindow(o, Current, day, ids)} = ObservationsIn(ids)
    BY <2>4, <2>3, WindowObservations
  <2>6. \A o \in ObservationsIn(ids) : o.device = scans[i].device
    BY <2>2, <2>3, ObservedDevice, ObservationRows
  <2>7. {o \in Observations : InWindow(o, Current, day, {i}) /\ o.device = scans[i].device}
          = ObservationsIn(ids)
    BY <2>2, <2>3, <2>5, <2>6
  <2>8. Aggregate(ObservationsIn(ids), ids) = AggregateRecords(ids, ids)
    BY <2>2, <2>3, AggregatesAgree
  <2>9. PICK services : services = AggregateRecords({i}, {i})
    OBVIOUS
  <2>10. BuildTopology(i, services).listeners = DOMAIN content[i] \ Remotes(i)
    <3>1. BuildTopology(i, services).listeners
            = {k \in DOMAIN content[i] : scans[i].raw /\ k \notin Remotes(i)}
      BY DEF BuildTopology
    <3>2. QED
      BY <2>1, <3>1
  <2>11. QED
    BY <2>2, <2>3, <2>7, <2>8, <2>9, <2>10
<1>2. QED
  BY <1>1, ContentIsTyped, HistoryRetains, PTL DEF TablesTyped

-----------------------------------------------------------------------------
(***************************************************************************)
(* The cluster graph.  Its queries let part of the observations through;   *)
(* a part that has all observations of a normalised key, or none, gives    *)
(* the services of these keys as the whole would.                          *)
(***************************************************************************)
NormalKey(o) == [device |-> o.device, service |-> o.service, ip |-> Normalize(o.remote)]

Whole(obs, part) ==
    /\ part \subseteq obs
    /\ \A o \in part, q \in obs : NormalKey(q) = NormalKey(o) => q \in part

Has(part, K) == \E o \in part : NormalKey(o) = K

(* A group, a stored address list and a bucket, from what they are made.   *)
Keyed(obs, k) == {o \in obs : RawKey(o) = k}
RawKeys(obs) == {RawKey(o) : o \in obs}

GroupMade(same, k) ==
    LET last == CHOOSE o \in same : \A q \in same :
                    q = o \/ Before(q.scan, q.sample, o.scan, o.sample)
    IN  [key |-> k,
         firstSeen |-> Min({scans[o.scan].started : o \in same}),
         lastSeen |-> Max({scans[o.scan].started : o \in same}),
         sample |-> <<last.scan, last.sample>>,
         scanIds |-> {o.scan : o \in same}]

ChosenGroup(G) ==
    CHOOSE g \in G : \A q \in G :
        q = g \/ Before(q.sample[1], q.sample[2], g.sample[1], g.sample[2])

BucketMade(G, k, addresses, state, current) ==
    [key |-> k, scanIds |-> MergedScans(G), firstSeen |-> MergedFirst(G),
     lastSeen |-> MergedFinal(G), isCurrent |-> MergedScans(G) \cap current # {},
     sample |-> ChosenGroup(G).sample, state |-> state, locals |-> addresses]

StateOf(s, samples) == IF s \in samples THEN content[s[1]][s[2]].state ELSE Null

ServiceGroups(rows, k) == {g \in rows : GroupKey(g) = k}

BucketOf(rows, k, locals, samples, current) ==
    BucketMade(ServiceGroups(rows, k), k, MergedLocals(locals, ServiceGroups(rows, k)),
               StateOf(ChosenGroup(ServiceGroups(rows, k)).sample, samples), current)

(* An observation has the normalised key of its group.                     *)
LEMMA KeysAgree ==
    /\ \A o, q : RawKey(o) = RawKey(q) => NormalKey(o) = NormalKey(q)
    /\ \A o, g : g.key = RawKey(o) => GroupKey(g) = NormalKey(o)
<1>1. \A o : /\ RawKey(o).device = o.device /\ RawKey(o).service = o.service
             /\ RawKey(o).remote = o.remote
  BY DEF RawKey
<1>2. QED
  BY <1>1 DEF NormalKey, GroupKey

(* First query: the groups of the keys the part has.                       *)
LEMMA GroupsOfPart ==
    ASSUME NEW obs, NEW part, Whole(obs, part)
    PROVE  /\ GroupsOf(part) = {g \in GroupsOf(obs) : Has(part, GroupKey(g))}
           /\ \A g \in GroupsOf(obs) : \E o \in obs : RawKey(o) = g.key /\ GroupKey(g) = NormalKey(o)
<1>1. \A o : GroupsOf(o) = {GroupMade(Keyed(o, k), k) : k \in RawKeys(o)}
  BY DEF GroupsOf, GroupMade, Keyed, RawKeys
<1>2. \A same, k : GroupMade(same, k).key = k
  BY DEF GroupMade
<1>3. ASSUME NEW o \in part PROVE Keyed(part, RawKey(o)) = Keyed(obs, RawKey(o))
  BY KeysAgree DEF Keyed, Whole
<1>4. ASSUME NEW g \in GroupsOf(part)
      PROVE  g \in GroupsOf(obs) /\ Has(part, GroupKey(g))
  <2>1. PICK k \in RawKeys(part) : g = GroupMade(Keyed(part, k), k)
    BY <1>1
  <2>2. PICK o \in part : k = RawKey(o)
    BY DEF RawKeys
  <2>3. k \in RawKeys(obs) /\ g = GroupMade(Keyed(obs, k), k)
    BY <1>3, <2>1, <2>2 DEF RawKeys, Whole
  <2>4. g \in GroupsOf(obs)
    BY <1>1, <2>3
  <2>5. GroupKey(g) = NormalKey(o)
    BY <1>2, <2>1, <2>2, KeysAgree
  <2>6. QED
    BY <2>4, <2>5 DEF Has
<1>5. ASSUME NEW g \in GroupsOf(obs)
      PROVE  \E o \in obs : /\ RawKey(o) = g.key /\ GroupKey(g) = NormalKey(o)
                            /\ g = GroupMade(Keyed(obs, RawKey(o)), RawKey(o))
  <2>1. PICK k \in RawKeys(obs) : g = GroupMade(Keyed(obs, k), k)
    BY <1>1
  <2>2. PICK o \in obs : k = RawKey(o)
    BY DEF RawKeys
  <2>3. GroupKey(g) = NormalKey(o) /\ RawKey(o) = g.key
    BY <1>2, <2>1, <2>2, KeysAgree
  <2>4. QED
    BY <2>1, <2>2, <2>3
<1>6. ASSUME NEW g \in GroupsOf(obs), Has(part, GroupKey(g))
      PROVE  g \in GroupsOf(part)
  <2>1. PICK o \in obs : /\ GroupKey(g) = NormalKey(o)
                         /\ g = GroupMade(Keyed(obs, RawKey(o)), RawKey(o))
    BY <1>5
  <2>2. o \in part
    BY <1>6, <2>1 DEF Has, Whole
  <2>3. g = GroupMade(Keyed(part, RawKey(o)), RawKey(o)) /\ RawKey(o) \in RawKeys(part)
    BY <1>3, <2>1, <2>2 DEF RawKeys
  <2>4. QED
    BY <1>1, <2>3
<1>7. QED
  BY <1>4, <1>5, <1>6

(* Second query: the same local addresses for them.                        *)
LEMMA LocalsOfPart ==
    ASSUME NEW obs, NEW part, Whole(obs, part), NEW o \in part
    PROVE  LocalsFor(LocalsOf(part), RawKey(o)) = LocalsFor(LocalsOf(obs), RawKey(o))
<1>1. \A q : LocalsOf(q) = [k \in RawKeys(q) |-> UNION {e.locals : e \in Keyed(q, k)}]
  BY DEF LocalsOf, Keyed, RawKeys
<1>2. RawKey(o) \in RawKeys(part) /\ RawKey(o) \in RawKeys(obs)
  BY DEF RawKeys, Whole
<1>3. Keyed(part, RawKey(o)) = Keyed(obs, RawKey(o))
  BY KeysAgree DEF Keyed, Whole
<1>4. PICK k : k = RawKey(o)
  OBVIOUS
<1>5. /\ LocalsFor(LocalsOf(part), k) = UNION {e.locals : e \in Keyed(part, k)}
      /\ LocalsFor(LocalsOf(obs), k) = UNION {e.locals : e \in Keyed(obs, k)}
  BY <1>1, <1>2, <1>4 DEF LocalsFor
<1>6. QED
  BY <1>3, <1>4, <1>5

(* Third query: a group's sample is there if its scan has raw records.     *)
LEMMA SampleThere ==
    ASSUME NEW groups, NEW g \in groups
    PROVE  g.sample \in SamplesOf(groups) <=> scans[g.sample[1]].raw
BY DEF SamplesOf

Buckets(rows, locals, samples, current) ==
    {BucketOf(rows, GroupKey(g), locals, samples, current) : g \in rows}

(* The buckets that groups are merged into.                                *)
LEMMA BucketsOf ==
    ASSUME NEW groups, NEW locals, NEW samples, NEW current,
           \A g \in groups : LocalsFor(locals, g.key) # {},
           NEW rows, rows = {g \in groups : GroupKey(g).ip # Loopback}
    PROVE  MergeGroups(groups, locals, samples, current) = Buckets(rows, locals, samples, current)
<1>1. PICK usable : usable = {g \in groups : /\ Normalize(g.key.remote) # Loopback
                                            /\ Usable(g, locals, samples)}
  OBVIOUS
<1>2. usable = rows
  BY <1>1 DEF Usable, GroupKey
<1>3. MergeGroups(groups, locals, samples, current)
        = {BucketOf(usable, GroupKey(g), locals, samples, current) : g \in usable}
  BY <1>1 DEF MergeGroups, BucketOf, BucketMade, ChosenGroup, StateOf, ServiceGroups,
              MergedScans, MergedFirst, MergedFinal, MergedLocals
<1>4. QED
  BY <1>2, <1>3 DEF Buckets

(* A group of observations of stored scans has local addresses, and among  *)
(* the groups of a service one is the last.                                *)
LEMMA GroupsTyped ==
    ASSUME TablesTyped, NEW ids \in SUBSET Succeeded,
           NEW groups, groups = GroupsOf(ObservationsIn(ids)),
           NEW rows, rows = {g \in groups : GroupKey(g).ip # Loopback}
    PROVE  /\ \A g \in groups : LocalsFor(LocalsOf(ObservationsIn(ids)), g.key) # {}
           /\ \A g \in groups : GroupKey(g).device \in Scanned
           /\ \A g \in rows : ChosenGroup(ServiceGroups(rows, GroupKey(g)))
                                 \in ServiceGroups(rows, GroupKey(g))
<1>1. ASSUME NEW g \in groups
      PROVE  /\ LocalsFor(LocalsOf(ObservationsIn(ids)), g.key) # {}
             /\ GroupKey(g).device \in Scanned
  <2>1. PICK k : k = g.key /\ RawRows(ids, k) # {}
    BY GroupsAre DEF GroupIs
  <2>2. LocalsFor(LocalsOf(ObservationsIn(ids)), k) # {}
    BY <2>1, LocalsAre
  <2>3. PICK r \in RowsOf(ids) : RowKey(r) = k
    BY <2>1 DEF RawRows
  <2>4. RowKey(r).device = scans[r[1]].device /\ GroupKey(g).device = g.key.device
    BY DEF RowKey, GroupKey
  <2>5. scans[r[1]].device \in Scanned
    BY RowTypes
  <2>6. QED
    BY <2>1, <2>2, <2>3, <2>4, <2>5
<1>2. ASSUME NEW g \in rows
      PROVE  ChosenGroup(ServiceGroups(rows, GroupKey(g))) \in ServiceGroups(rows, GroupKey(g))
  <2>1. PICK K : K = GroupKey(g) /\ K.ip # Loopback /\ g \in groups
    OBVIOUS
  <2>2. PICK G : G = {h \in groups : GroupKey(h) = K}
    OBVIOUS
  <2>3. G = ServiceGroups(rows, K)
    BY <2>1, <2>2 DEF ServiceGroups
  <2>4. RawRows(ids, g.key) # {} /\ RawRows(ids, g.key) \subseteq ServiceRows(ids, K)
    BY <2>1, GroupsAre, GroupsOfService DEF GroupIs
  <2>5. PICK S : S = ServiceRows(ids, K) /\ S \in SUBSET RowsOf(ids) /\ S # {}
    BY <2>4 DEF ServiceRows
  <2>6. PICK R : IsLast(S, R)
    BY <2>5, LastExists
  <2>7. \E h : LastGroup(G, h)
    BY <2>2, <2>5, <2>6, MergedLast
  <2>8. ChosenGroup(G) \in G
    BY <2>7 DEF LastGroup, ChosenGroup
  <2>9. QED
    BY <2>1, <2>3, <2>8
<1>3. QED
  BY <1>1, <1>2

(* Services of a part of the observations are services of them all.        *)
LEMMA AggregateOfPart ==
    ASSUME TablesTyped, NEW ids \in SUBSET Succeeded,
           NEW obs, obs = ObservationsIn(ids), NEW part, Whole(obs, part), NEW current
    PROVE  /\ Aggregate(part, current) = {s \in Aggregate(obs, current) : Has(part, s.key)}
           /\ \A s \in Aggregate(obs, current) : s.key.device \in Scanned /\ Has(obs, s.key)
<1>1. PICK groups, some : groups = GroupsOf(obs) /\ some = GroupsOf(part)
  OBVIOUS
<1>2. PICK rows : rows = {g \in groups : GroupKey(g).ip # Loopback}
  OBVIOUS
<1>3. PICK few : few = {g \in some : GroupKey(g).ip # Loopback}
  OBVIOUS
<1>4. PICK L, M : L = LocalsOf(obs) /\ M = LocalsOf(part)
  OBVIOUS
<1>5. PICK S, T : S = SamplesOf(groups) /\ T = SamplesOf(some)
  OBVIOUS
<1>6. /\ some = {g \in groups : Has(part, GroupKey(g))}
      /\ \A g \in groups : \E o \in obs : RawKey(o) = g.key /\ GroupKey(g) = NormalKey(o)
  BY <1>1, GroupsOfPart
<1>7. ASSUME NEW g \in some
      PROVE  /\ LocalsFor(M, g.key) = LocalsFor(L, g.key)
             /\ g.sample \in T <=> g.sample \in S
  <2>1. g \in groups /\ Has(part, GroupKey(g))
    BY <1>6
  <2>2. PICK o \in obs : RawKey(o) = g.key /\ GroupKey(g) = NormalKey(o)
    BY <1>6, <2>1
  <2>3. o \in part
    BY <2>1, <2>2 DEF Has, Whole
  <2>4. LocalsFor(M, RawKey(o)) = LocalsFor(L, RawKey(o))
    BY <1>4, <2>3, LocalsOfPart
  <2>5. g.sample \in T <=> g.sample \in S
    BY <1>5, <2>1, SampleThere
  <2>6. QED
    BY <2>2, <2>4, <2>5
<1>8. \A g \in groups : LocalsFor(L, g.key) # {} /\ GroupKey(g).device \in Scanned
  BY <1>1, <1>2, <1>4, GroupsTyped
<1>9. \A g \in some : LocalsFor(M, g.key) # {}
  BY <1>6, <1>7, <1>8
<1>10. Aggregate(obs, current) = {BucketOf(rows, GroupKey(g), L, S, current) : g \in rows}
  <2>1. Aggregate(obs, current) = MergeGroups(groups, L, S, current)
    BY <1>1, <1>4, <1>5 DEF Aggregate
  <2>2. \A g \in groups : LocalsFor(L, g.key) # {}
    BY <1>8
  <2>3. MergeGroups(groups, L, S, current) = Buckets(rows, L, S, current)
    BY <1>2, <2>2, BucketsOf
  <2>4. QED
    BY <2>1, <2>3 DEF Buckets
<1>11. Aggregate(part, current) = {BucketOf(few, GroupKey(g), M, T, current) : g \in few}
  <2>1. Aggregate(part, current) = MergeGroups(some, M, T, current)
    BY <1>1, <1>4, <1>5 DEF Aggregate
  <2>2. MergeGroups(some, M, T, current) = Buckets(few, M, T, current)
    BY <1>3, <1>9, BucketsOf
  <2>3. QED
    BY <2>1, <2>2 DEF Buckets
<1>12. few = {g \in rows : Has(part, GroupKey(g))}
  BY <1>2, <1>3, <1>6
<1>13. ASSUME NEW g \in few
       PROVE  BucketOf(few, GroupKey(g), M, T, current) = BucketOf(rows, GroupKey(g), L, S, current)
  <2>1. PICK K : K = GroupKey(g) /\ Has(part, K) /\ g \in rows
    BY <1>12
  <2>2. ServiceGroups(few, K) = ServiceGroups(rows, K)
    BY <1>12, <2>1 DEF ServiceGroups
  <2>3. PICK G : G = ServiceGroups(rows, K)
    OBVIOUS
  <2>4. \A h \in G : h \in some
    BY <1>3, <2>2, <2>3 DEF ServiceGroups
  <2>5. MergedLocals(M, G) = MergedLocals(L, G)
    BY <1>7, <2>4 DEF MergedLocals
  <2>6. ChosenGroup(G) \in G
    BY <1>1, <1>2, <2>1, <2>3, GroupsTyped
  <2>7. PICK s : s = ChosenGroup(G).sample
    OBVIOUS
  <2>8. s \in T <=> s \in S
    BY <1>7, <2>4, <2>6, <2>7
  <2>9. StateOf(s, T) = StateOf(s, S)
    BY <2>8 DEF StateOf
  <2>10. QED
    BY <2>1, <2>2, <2>3, <2>5, <2>7, <2>9 DEF BucketOf
<1>14. \A R, k, X, Y : BucketOf(R, k, X, Y, current).key = k
  BY DEF BucketOf, BucketMade
<1>15. ASSUME NEW s \in Aggregate(part, current)
       PROVE  s \in Aggregate(obs, current) /\ Has(part, s.key)
  <2>1. PICK g \in few : s = BucketOf(few, GroupKey(g), M, T, current)
    BY <1>11
  <2>2. g \in rows /\ Has(part, GroupKey(g))
    BY <1>12
  <2>3. s = BucketOf(rows, GroupKey(g), L, S, current) /\ s.key = GroupKey(g)
    BY <1>13, <1>14, <2>1
  <2>4. s \in Aggregate(obs, current)
    BY <1>10, <2>2, <2>3
  <2>5. QED
    BY <2>2, <2>3, <2>4
<1>16. ASSUME NEW s \in Aggregate(obs, current), Has(part, s.key)
       PROVE  s \in Aggregate(part, current)
  <2>1. PICK g \in rows : s = BucketOf(rows, GroupKey(g), L, S, current)
    BY <1>10
  <2>2. g \in few
    BY <1>12, <1>14, <1>16, <2>1
  <2>3. QED
    BY <1>11, <1>13, <2>1, <2>2
<1>17. ASSUME NEW s \in Aggregate(obs, current)
       PROVE  s.key.device \in Scanned /\ Has(obs, s.key)
  <2>1. PICK g \in rows : s = BucketOf(rows, GroupKey(g), L, S, current)
    BY <1>10
  <2>2. s.key = GroupKey(g) /\ g \in groups
    BY <1>2, <1>14, <2>1
  <2>3. QED
    BY <1>6, <1>8, <2>2 DEF Has
<1>18. QED
  BY <1>15, <1>16, <1>17

(* Observations have an address in one of the two forms.                   *)
LEMMA ObservedRemote ==
    ASSUME TablesTyped, NEW o \in Observations
    PROVE  o.remote \in [ip : Ips, mapped : BOOLEAN]
<1>1. PICK all : all = Succeeded /\ all \in SUBSET Succeeded
  OBVIOUS
<1>2. o \in ObservationsIn(all)
  BY <1>1 DEF Observations, ObservationsIn
<1>3. PICK r \in RowsOf(all) : RowKey(r) = RawKey(o)
  BY <1>1, <1>2, ObservationRows DEF RawRows
<1>4. content[r[1]][r[2]].remote \in [ip : Ips, mapped : BOOLEAN]
  BY <1>1, <1>3, RowTypes
<1>5. RowKey(r).remote = content[r[1]][r[2]].remote /\ RawKey(o).remote = o.remote
  BY DEF RowKey, RawKey
<1>6. QED
  BY <1>3, <1>4, <1>5

(* The services of candidates that have all observations of their keys.    *)
LEMMA ServicesOfPart ==
    ASSUME TablesTyped, NEW window, NEW candidates, Whole(Observations, candidates)
    PROVE  /\ ServicesWhere(window, candidates)
                = {s \in ServicesWhere(window, Observations) : Has(candidates, s.key)}
           /\ \A s \in ServicesWhere(window, Observations) :
                 s.key.device \in Scanned /\ Has(Observations, s.key)
<1>1. PICK current : current = CurrentScans
  OBVIOUS
<1>2. PICK ids : ids = {i \in Succeeded :
                          \/ i \in current
                          \/ window # Current /\ scans[i].started + window >= day}
  OBVIOUS
<1>3. PICK obs : obs = {o \in Observations : InWindow(o, window, day, current)}
  OBVIOUS
<1>4. PICK part : part = {o \in candidates : InWindow(o, window, day, current)}
  OBVIOUS
<1>5. obs = ObservationsIn(ids)
  BY <1>2, <1>3, WindowObservations
<1>6. ids \in SUBSET Succeeded
  BY <1>2
<1>7. Whole(obs, part)
  BY <1>3, <1>4 DEF Whole
<1>8. /\ ServicesWhere(window, candidates) = Aggregate(part, current)
      /\ ServicesWhere(window, Observations) = Aggregate(obs, current)
  BY <1>1, <1>3, <1>4 DEF ServicesWhere
<1>9. /\ Aggregate(part, current) = {s \in Aggregate(obs, current) : Has(part, s.key)}
      /\ \A s \in Aggregate(obs, current) : s.key.device \in Scanned /\ Has(obs, s.key)
  BY <1>5, <1>6, <1>7, AggregateOfPart
<1>10. ASSUME NEW s \in Aggregate(obs, current), Has(candidates, s.key)
       PROVE  Has(part, s.key)
  <2>1. PICK o \in obs : NormalKey(o) = s.key
    BY <1>9 DEF Has
  <2>2. PICK q \in candidates : NormalKey(q) = s.key
    BY <1>10 DEF Has
  <2>3. o \in candidates
    BY <1>3, <2>1, <2>2 DEF Whole
  <2>4. o \in part
    BY <1>3, <1>4, <2>3
  <2>5. QED
    BY <2>1, <2>4 DEF Has
<1>11. \A K : Has(part, K) => Has(candidates, K)
  BY <1>4 DEF Has
<1>12. \A K : Has(obs, K) => Has(Observations, K)
  BY <1>3 DEF Has
<1>13. QED
  BY <1>8, <1>9, <1>10, <1>11, <1>12

(* A key has the device and the address of its observations.               *)
LEMMA KeyFields ==
    \A o : NormalKey(o).device = o.device /\ NormalKey(o).ip = Normalize(o.remote)
BY DEF NormalKey

(* An address is among the stored forms of some if it is one of them.      *)
LEMMA FormsStored ==
    ASSUME TablesTyped, NEW o \in Observations, NEW ips
    PROVE  o.remote \in StoredForms(ips) <=> Normalize(o.remote) \in ips
<1>1. PICK ip \in Ips, mapped \in BOOLEAN : o.remote = [ip |-> ip, mapped |-> mapped]
  BY ObservedRemote
<1>2. PICK f : f = o.remote /\ f = [ip |-> ip, mapped |-> mapped]
  BY <1>1
<1>3. f.ip = ip /\ f.mapped = mapped
  BY <1>2
<1>4. f \in StoredForms(ips) <=> ip \in ips
  BY <1>2, <1>3 DEF StoredForms
<1>5. QED
  BY <1>2, <1>3, <1>4 DEF Normalize

FromOrTo(services, devices, ips) ==
    {s \in services : s.key.device \in devices \/ s.key.ip \in ips}
FromTo(services, devices, ips) ==
    {s \in services : s.key.device \in devices /\ s.key.ip \in ips}

(* The services of a target cluster: of its members, or to one of their    *)
(* addresses.                                                              *)
LEMMA TargetServices ==
    ASSUME TablesTyped, NEW window, NEW devices, NEW ips, NEW candidates,
           candidates = {o \in Observations : o.device \in devices \/ o.remote \in StoredForms(ips)}
    PROVE  ServicesWhere(window, candidates)
             = FromOrTo(ServicesWhere(window, Observations), devices, ips)
<1>1. \A o \in Observations :
        o \in candidates <=> NormalKey(o).device \in devices \/ NormalKey(o).ip \in ips
  BY FormsStored, KeyFields
<1>2. Whole(Observations, candidates)
  BY <1>1 DEF Whole
<1>3. ASSUME NEW s \in ServicesWhere(window, Observations)
      PROVE  Has(candidates, s.key) <=> s.key.device \in devices \/ s.key.ip \in ips
  <2>1. PICK o \in Observations : NormalKey(o) = s.key
    BY <1>2, ServicesOfPart DEF Has
  <2>2. Has(candidates, s.key) <=> o \in candidates
    BY <1>2, <2>1 DEF Has, Whole
  <2>3. QED
    BY <1>1, <2>1, <2>2
<1>4. QED
  BY <1>2, <1>3, ServicesOfPart DEF FromOrTo

ObservedFromTo(devices, forms) ==
    {o \in Observations : o.device \in devices /\ o.remote \in forms}

(* The services of an edge: of the devices of its source and to the        *)
(* addresses of its target.                                                *)
LEMMA EdgeServices ==
    ASSUME TablesTyped, NEW window, NEW devices, NEW forms, NEW ips, NEW candidates,
           \A o \in Observations : o.remote \in forms <=> Normalize(o.remote) \in ips,
           candidates = ObservedFromTo(devices, forms)
    PROVE  ServicesWhere(window, candidates)
             = FromTo(ServicesWhere(window, Observations), devices, ips)
<1>1. \A o \in Observations :
        o \in candidates <=> NormalKey(o).device \in devices /\ NormalKey(o).ip \in ips
  BY KeyFields DEF ObservedFromTo
<1>2. Whole(Observations, candidates)
  BY <1>1 DEF Whole, ObservedFromTo
<1>3. ASSUME NEW s \in ServicesWhere(window, Observations)
      PROVE  Has(candidates, s.key) <=> s.key.device \in devices /\ s.key.ip \in ips
  <2>1. PICK o \in Observations : NormalKey(o) = s.key
    BY <1>2, ServicesOfPart DEF Has
  <2>2. Has(candidates, s.key) <=> o \in candidates
    BY <1>2, <2>1 DEF Has, Whole
  <2>3. QED
    BY <1>1, <2>1, <2>2
<1>4. QED
  BY <1>2, <1>3, ServicesOfPart DEF FromTo

(* Every service seen is of a device.                                      *)
LEMMA ServiceDevices ==
    ASSUME TablesTyped, NEW window, NEW s \in ServicesWhere(window, Observations)
    PROVE  s.key.device \in Scanned
<1>1. Whole(Observations, {})
  BY DEF Whole
<1>2. QED
  BY <1>1, ServicesOfPart

(* What an edge says: its source is the node of the service's device, its  *)
(* target the node of the only owner of the address, or the address.       *)
LEMMA EdgesAre ==
    ASSUME NEW inv, NEW services, NEW e \in GroupEdges(inv, services)
    PROVE  /\ e.service \in services
           /\ e.source = ManagedNode(inv, e.service.key.device)
           /\ \/ \E d \in Owners(inv, e.service.key.ip) : e.target = ManagedNode(inv, d)
              \/ e.target = External(e.service.key.ip)
<1>1. PICK s \in services :
        e \in [source : {ManagedNode(inv, s.key.device)},
               target : EdgeTargets(inv, s) \ {ManagedNode(inv, s.key.device)},
               service : {s}]
  BY DEF GroupEdges
<1>2. /\ e.service = s /\ e.source = ManagedNode(inv, s.key.device)
      /\ e.target \in EdgeTargets(inv, s)
  BY <1>1
<1>3. \/ \E d \in Owners(inv, s.key.ip) : e.target = ManagedNode(inv, d)
      \/ e.target = External(s.key.ip)
  BY <1>2 DEF EdgeTargets
<1>4. QED
  BY <1>2, <1>3

(* Part of the services have the edges that carry them.                    *)
LEMMA EdgesOfPart ==
    ASSUME NEW inv, NEW services, NEW part \in SUBSET services
    PROVE  GroupEdges(inv, part) = {e \in GroupEdges(inv, services) : e.service \in part}
<1> DEFINE edges(s) == [source : {ManagedNode(inv, s.key.device)},
                        target : EdgeTargets(inv, s) \ {ManagedNode(inv, s.key.device)},
                        service : {s}]
<1>1. \A S : GroupEdges(inv, S) = UNION {edges(s) : s \in S}
  BY DEF GroupEdges
<1>2. \A s : \A e \in edges(s) : e.service = s
  OBVIOUS
<1> HIDE DEF edges
<1>3. QED
  BY <1>1, <1>2

(* Nodes of different kinds are different, a node stands for its devices,  *)
(* and the full graph has one for every device.                            *)
LEMMA ManagedNodes ==
    ASSUME NEW inv \in Inventories, NEW d \in Scanned
    PROVE  /\ \A c \in Clusters : ManagedNode(inv, d) = ClusterNode(c) => d \in MemberOf(inv, c)
           /\ d \in NodeDevices(inv, ManagedNode(inv, d))
           /\ ManagedNode(inv, d).kind # "external"
           /\ \/ \E c \in Clusters : ManagedNode(inv, d) = ClusterNode(c)
              \/ d \in MemberOf(inv, NoCluster)
<1>1. NoCluster \notin Clusters /\ inv.cluster[d] \in Clusters \cup {NoCluster}
  BY ClusterConstants
<1>2. CASE inv.cluster[d] # NoCluster
  <2>1. PICK k : k = inv.cluster[d] /\ k \in Clusters
    BY <1>1, <1>2
  <2>2. PICK n : n = ManagedNode(inv, d) /\ n = [kind |-> "cluster", id |-> k]
    BY <1>2, <2>1 DEF ManagedNode
  <2>3. n.kind = "cluster" /\ n.id = k
    BY <2>2
  <2>4. \A c : ClusterNode(c).id = c
    BY DEF ClusterNode
  <2>5. n = ClusterNode(k)
    BY <2>2 DEF ClusterNode
  <2>6. d \in MemberOf(inv, k)
    BY <2>1 DEF MemberOf
  <2>7. NodeDevices(inv, n) = MemberOf(inv, k)
    BY <2>3 DEF NodeDevices
  <2>8. QED
    BY <2>1, <2>2, <2>3, <2>4, <2>5, <2>6, <2>7
<1>3. CASE inv.cluster[d] = NoCluster
  <2>1. PICK n : n = ManagedNode(inv, d) /\ n = [kind |-> "device", id |-> d]
    BY <1>3 DEF ManagedNode
  <2>2. n.kind = "device" /\ n.id = d
    BY <2>1
  <2>3. \A c : ClusterNode(c).kind = "cluster"
    BY DEF ClusterNode
  <2>4. d \in MemberOf(inv, NoCluster)
    BY <1>3 DEF MemberOf
  <2>5. NodeDevices(inv, n) = {d}
    BY <2>2 DEF NodeDevices
  <2>6. QED
    BY <2>1, <2>2, <2>3, <2>4, <2>5
<1>4. QED
  BY <1>2, <1>3

(* An external node is named by its address and is no cluster.             *)
LEMMA ExternalNodes ==
    /\ \A ip : External(ip).kind = "external" /\ External(ip).id = ip
    /\ \A ip, c : External(ip) # ClusterNode(c)
<1>1. \A ip : External(ip).kind = "external" /\ External(ip).id = ip
  BY DEF External
<1>2. \A c : ClusterNode(c).kind = "cluster"
  BY DEF ClusterNode
<1>3. QED
  BY <1>1, <1>2

(* Who owns an address has it among its own.                               *)
LEMMA OwnersAddress ==
    ASSUME NEW inv, NEW ip, NEW d \in Owners(inv, ip), NEW S, d \in S
    PROVE  d \in Scanned /\ ip \in Addresses(inv, S)
BY DEF Owners, Addresses

(* Filters look at each service alone.                                     *)
LEMMA FilterPart ==
    ASSUME NEW filter, NEW all, NEW part \in SUBSET all
    PROVE  /\ FilterServices(part, filter) = {s \in FilterServices(all, filter) : s \in part}
           /\ FilterServices(part, filter) \subseteq FilterServices(all, filter)
           /\ FilterServices(all, filter) \subseteq all
BY DEF FilterServices

(* The graph of one cluster, built from the observations its query lets    *)
(* through, is the full graph seen from it, with the same services on its  *)
(* edges and a node at both ends of each, for every set of clusters,       *)
(* devices and addresses, every filter and every window.                   *)
THEOREM TargetGraphIsOneHopHolds == Spec => []TargetGraphIsOneHop
<1>1. TablesTyped => TargetGraphIsOneHop
  <2> SUFFICES ASSUME TablesTyped, NEW window \in Windows \cup {Current},
                      NEW inv \in Inventories, NEW filter \in Filters, NEW c \in Clusters,
                      NEW all, all = ServicesWhere(window, Observations),
                      NEW hop, hop = OneHop(c, FullGraph(inv, FilterServices(all, filter)).edges)
               PROVE  TargetGraph(inv, window, filter, c) =
                        [edges |-> hop,
                         nodes |-> {ClusterNode(c)} \cup
                                   UNION {{e.source, e.target} : e \in hop}]
    BY DEF TargetGraphIsOneHop
  <2>1. PICK members : members = MemberOf(inv, c)
    OBVIOUS
  <2>2. PICK ips : ips = Addresses(inv, members)
    OBVIOUS
  <2>3. PICK candidates : candidates = {o \in Observations :
                             o.device \in members \/ o.remote \in StoredForms(ips)}
    OBVIOUS
  <2>4. PICK part : part = ServicesWhere(window, candidates)
    OBVIOUS
  <2>5. PICK some : some = FilterServices(part, filter)
    OBVIOUS
  <2>6. PICK graph : graph = FullGraph(inv, some)
    OBVIOUS
  <2>7. PICK edges : edges = OneHop(c, graph.edges)
    OBVIOUS
  <2>8. TargetGraph(inv, window, filter, c) =
          [edges |-> edges,
           nodes |-> graph.nodes \cap ({ClusterNode(c)} \cup
                        UNION {{e.source, e.target} : e \in edges})]
    BY <2>1, <2>2, <2>3, <2>4, <2>5, <2>6, <2>7 DEF TargetGraph
  <2>9. PICK every : every = FilterServices(all, filter)
    OBVIOUS
  <2>10. \A S : FullGraph(inv, S).edges = GroupEdges(inv, S)
    BY DEF FullGraph
  <2>11. part = {s \in all : s.key.device \in members \/ s.key.ip \in ips}
    <3>1. part = FromOrTo(all, members, ips)
      BY <2>3, <2>4, TargetServices
    <3>2. QED
      BY <3>1 DEF FromOrTo
  <2>12. /\ some = {s \in every : s.key.device \in members \/ s.key.ip \in ips}
         /\ every \subseteq all /\ some \in SUBSET every
    BY <2>5, <2>9, <2>11 DEF FilterServices
  <2>13. GroupEdges(inv, some) = {e \in GroupEdges(inv, every) : e.service \in some}
    BY <2>12, EdgesOfPart
  <2>14. ASSUME NEW e \in GroupEdges(inv, every)
         PROVE  /\ e.service \in every
                /\ \E d \in Scanned : e.source = ManagedNode(inv, d) /\ d = e.service.key.device
                /\ \/ e.target = External(e.service.key.ip)
                   \/ \E d \in Scanned : /\ e.target = ManagedNode(inv, d)
                                         /\ d \in Owners(inv, e.service.key.ip)
    <3>1. /\ e.service \in every
          /\ e.source = ManagedNode(inv, e.service.key.device)
          /\ \/ \E d \in Owners(inv, e.service.key.ip) : e.target = ManagedNode(inv, d)
             \/ e.target = External(e.service.key.ip)
      BY EdgesAre
    <3>2. e.service.key.device \in Scanned
      BY <2>12, <3>1, ServiceDevices
    <3>3. Owners(inv, e.service.key.ip) \subseteq Scanned
      BY DEF Owners
    <3>4. QED
      BY <3>1, <3>2, <3>3
  <2>15. ASSUME NEW e \in GroupEdges(inv, every), ClusterNode(c) \in {e.source, e.target}
         PROVE  e.service \in some
    <3>1. CASE ClusterNode(c) = e.source
      <4>1. e.service.key.device \in members
        BY <2>1, <2>14, <3>1, ManagedNodes
      <4>2. QED
        BY <2>12, <2>14, <4>1
    <3>2. CASE ClusterNode(c) = e.target
      <4>1. PICK d \in Scanned : /\ e.target = ManagedNode(inv, d)
                                 /\ d \in Owners(inv, e.service.key.ip)
        BY <2>14, <3>2, ExternalNodes
      <4>2. d \in members
        BY <2>1, <3>2, <4>1, ManagedNodes
      <4>3. e.service.key.ip \in ips
        BY <2>2, <4>1, <4>2, OwnersAddress
      <4>4. QED
        BY <2>12, <2>14, <4>3
    <3>3. QED
      BY <2>15, <3>1, <3>2
  <2>16. edges = hop
    BY <2>6, <2>7, <2>9, <2>10, <2>13, <2>15 DEF OneHop
  <2>17. /\ edges \subseteq GroupEdges(inv, some) /\ edges \subseteq GroupEdges(inv, every)
    BY <2>6, <2>7, <2>10, <2>13 DEF OneHop
  <2>18. graph.nodes = {ClusterNode(k) : k \in Clusters}
                         \cup {ManagedNode(inv, d) : d \in MemberOf(inv, NoCluster)}
                         \cup {e.target : e \in {g \in GroupEdges(inv, some) : g.target.kind = "external"}}
    BY <2>6 DEF FullGraph
  <2>19. ASSUME NEW d \in Scanned PROVE ManagedNode(inv, d) \in graph.nodes
    BY <2>18, ManagedNodes
  <2>20. ASSUME NEW e \in edges PROVE e.source \in graph.nodes /\ e.target \in graph.nodes
    <3>1. e.source \in graph.nodes
      BY <2>14, <2>17, <2>19
    <3>2. CASE e.target = External(e.service.key.ip)
      <4>1. e.target.kind = "external" /\ e \in GroupEdges(inv, some)
        BY <2>17, <3>2, ExternalNodes
      <4>2. QED
        BY <2>18, <3>1, <4>1
    <3>3. CASE e.target # External(e.service.key.ip)
      BY <2>14, <2>17, <2>19, <3>1, <3>3
    <3>4. QED
      BY <3>2, <3>3
  <2>21. ClusterNode(c) \in graph.nodes
    BY <2>18
  <2>22. PICK nodes : nodes = {ClusterNode(c)} \cup UNION {{e.source, e.target} : e \in edges}
    OBVIOUS
  <2>23. nodes \subseteq graph.nodes
    BY <2>20, <2>21, <2>22
  <2>24. graph.nodes \cap nodes = nodes
    BY <2>23
  <2>25. QED
    BY <2>8, <2>16, <2>22, <2>24
<1>2. QED
  BY <1>1, ContentIsTyped, HistoryRetains, PTL DEF TablesTyped

SeenMapped(ip) == \E o \in Observations : o.remote = [ip |-> ip, mapped |-> TRUE]

AddressesOf(inv, target) ==
    IF target.kind = "external" THEN {target.id} ELSE Addresses(inv, NodeDevices(inv, target))

(* The addresses a target stands for, in whichever form they are stored.   *)
LEMMA TargetAddresses ==
    ASSUME TablesTyped, NEW inv, NEW target,
           target.kind # "external" \/ ~SeenMapped(target.id), NEW o \in Observations
    PROVE  o.remote \in TargetForms(inv, target) <=> Normalize(o.remote) \in AddressesOf(inv, target)
<1>1. CASE target.kind # "external"
  BY <1>1, FormsStored DEF TargetForms, AddressesOf
<1>2. CASE target.kind = "external"
  <2> SUFFICES o.remote \in {Form(target.id)} <=> Normalize(o.remote) \in {target.id}
    BY <1>2 DEF TargetForms, AddressesOf
  <2>1. PICK f : f = o.remote
    OBVIOUS
  <2>2. PICK ip \in Ips, mapped \in BOOLEAN : f = [ip |-> ip, mapped |-> mapped]
    BY <2>1, ObservedRemote
  <2>3. f.ip = ip /\ f.mapped = mapped
    BY <2>2
  <2>4. PICK id : id = target.id
    OBVIOUS
  <2>5. f # [ip |-> id, mapped |-> TRUE]
    BY <1>2, <2>1, <2>4 DEF SeenMapped
  <2>6. f = Form(id) <=> ip = id
    <3>1. ASSUME f = Form(id) PROVE ip = id
      BY <2>3, <3>1 DEF Form
    <3>2. ASSUME ip = id PROVE f = Form(id)
      <4>1. mapped = FALSE
        BY <2>2, <2>5, <3>2
      <4>2. QED
        BY <2>2, <3>2, <4>1 DEF Form
    <3>3. QED
      BY <3>1, <3>2
  <2>7. QED
    BY <2>1, <2>3, <2>4, <2>6 DEF Normalize
<1>3. QED
  BY <1>1, <1>2

(* The connections listed for an edge are the ones the graph counted on    *)
(* it, for every managed target, and for an external one that no           *)
(* observation has in the IPv4-mapped form.                                *)
THEOREM EdgeListsMatchGraphHolds == Spec => []EdgeListsMatchGraph
<1>1. TablesTyped => EdgeListsMatchGraph
  <2> SUFFICES ASSUME TablesTyped, NEW window \in Windows \cup {Current},
                      NEW inv \in Inventories, NEW filter \in Filters,
                      NEW e \in GroupEdges(inv, FilterServices(
                                  ServicesWhere(window, Observations), filter)),
                      e.target.kind # "external" \/ ~SeenMapped(e.target.id)
               PROVE  EdgeConnections(inv, window, filter, e.source, e.target) =
                        {g.service : g \in
                           {h \in GroupEdges(inv, FilterServices(
                                     ServicesWhere(window, Observations), filter)) :
                               h.source = e.source /\ h.target = e.target}}
    BY DEF EdgeListsMatchGraph, SeenMapped
  <2>1. PICK source, target : source = e.source /\ target = e.target
    OBVIOUS
  <2>2. PICK all : all = ServicesWhere(window, Observations)
    OBVIOUS
  <2>3. PICK devices : devices = NodeDevices(inv, source)
    OBVIOUS
  <2>4. PICK forms : forms = TargetForms(inv, target)
    OBVIOUS
  <2>5. PICK ips : ips = AddressesOf(inv, target)
    OBVIOUS
  <2>6. PICK candidates : candidates = ObservedFromTo(devices, forms)
    OBVIOUS
  <2>7. PICK part : part = ServicesWhere(window, candidates)
    OBVIOUS
  <2>8. PICK some, every : /\ some = FilterServices(part, filter)
                           /\ every = FilterServices(all, filter)
    OBVIOUS
  <2>9. PICK edges : edges = GroupEdges(inv, every)
    OBVIOUS
  <2>10. EdgeConnections(inv, window, filter, source, target)
          = {g.service : g \in {h \in GroupEdges(inv, some) :
                h.source = source /\ h.target = target}}
    BY <2>3, <2>4, <2>6, <2>7, <2>8 DEF EdgeConnections, ObservedFromTo
  <2>11. \A o \in Observations : o.remote \in forms <=> Normalize(o.remote) \in ips
    BY <2>1, <2>4, <2>5, TargetAddresses
  <2>12. part = FromTo(all, devices, ips)
    BY <2>2, <2>6, <2>7, <2>11, EdgeServices
  <2>13. /\ some = {s \in every : s.key.device \in devices /\ s.key.ip \in ips}
         /\ every \subseteq all /\ some \in SUBSET every
    BY <2>8, <2>12 DEF FromTo, FilterServices
  <2>14. GroupEdges(inv, some) = {g \in edges : g.service \in some}
    BY <2>9, <2>13, EdgesOfPart
  <2>15. ASSUME NEW g \in edges, g.source = source, g.target = target
         PROVE  g.service \in some
    <3>1. /\ g.service \in every
          /\ g.source = ManagedNode(inv, g.service.key.device)
          /\ \/ \E d \in Owners(inv, g.service.key.ip) : g.target = ManagedNode(inv, d)
             \/ g.target = External(g.service.key.ip)
      BY <2>9, EdgesAre
    <3>2. g.service.key.device \in Scanned
      BY <2>2, <2>13, <3>1, ServiceDevices
    <3>3. g.service.key.device \in devices
      BY <2>3, <2>15, <3>1, <3>2, ManagedNodes
    <3>4. CASE g.target = External(g.service.key.ip)
      <4>1. g.service.key.ip \in ips
        BY <2>5, <2>15, <3>4, ExternalNodes DEF AddressesOf
      <4>2. QED
        BY <2>13, <3>1, <3>3, <4>1
    <3>5. CASE g.target # External(g.service.key.ip)
      <4>1. PICK d \in Owners(inv, g.service.key.ip) : target = ManagedNode(inv, d)
        BY <2>15, <3>1, <3>5
      <4>2. d \in Scanned
        BY DEF Owners
      <4>3. d \in NodeDevices(inv, target) /\ target.kind # "external"
        BY <4>1, <4>2, ManagedNodes
      <4>4. g.service.key.ip \in ips
        BY <2>5, <4>1, <4>3, OwnersAddress DEF AddressesOf
      <4>5. QED
        BY <2>13, <3>1, <3>3, <4>4
    <3>6. QED
      BY <3>4, <3>5
  <2>16. {h \in GroupEdges(inv, some) : h.source = source /\ h.target = target}
           = {h \in edges : h.source = source /\ h.target = target}
    BY <2>14, <2>15
  <2>17. QED
    BY <2>1, <2>2, <2>8, <2>9, <2>10, <2>16
<1>2. QED
  BY <1>1, ContentIsTyped, HistoryRetains, PTL DEF TablesTyped

=============================================================================
