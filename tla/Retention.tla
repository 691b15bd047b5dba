----------------------------- MODULE Retention -----------------------------
(***************************************************************************)
(* The daily purge of old scans (services/scheduler.py,                    *)
(* services/retention.py).                                                 *)
(*                                                                         *)
(* A purge takes raw connection rows away from scans older than RawDays,   *)
(* except from the latest two successful scans of a device, and then       *)
(* deletes the scans older than the device's own retention.  Both work in  *)
(* chunks of ids: a SELECT, a DELETE of what it returned, a commit.  New   *)
(* scans arrive, and the purge of another process may be under way, in     *)
(* between.                                                                *)
(***************************************************************************)
EXTENDS Naturals, Sequences, FiniteSets, FiniteSetsExt

CONSTANTS
    Purgers,      \* processes that may run the purge job
    Scanned,      \* device ids
    RawDays,      \* raw_retention_days
    DeviceDays,   \* device.history_retention_days, or Unset
    ClusterDays,  \* the same of the device's cluster
    SystemDays,   \* setting.history_retention_days
    Unset,        \* None
    KeptScans,    \* RAW_RETENTION_KEPT_SCANS_PER_DEVICE
    ChunkSize,    \* PURGE_SCAN_CHUNK_SIZE
    MaxScans,     \* bound on scans
    MaxDay        \* bound on the clock

ASSUME RetentionConstants ==
    /\ IsFiniteSet(Purgers) /\ IsFiniteSet(Scanned)
    /\ {RawDays, SystemDays, KeptScans, ChunkSize, MaxScans, MaxDay} \subseteq Nat
    /\ ChunkSize > 0
    /\ DOMAIN DeviceDays = Scanned /\ DOMAIN ClusterDays = Scanned
    /\ \A d \in Scanned : {DeviceDays[d], ClusterDays[d]} \subseteq Nat \cup {Unset}

VARIABLES
    day,    \* the clock
    scans,  \* scan_runs by id: device, success, started_at, are its raw
            \* rows there, is the scan itself there
    purge   \* the purge job of each process

retentionVars == <<day, scans, purge>>

ScanType == [device : Scanned, success : BOOLEAN, started : 0..MaxDay,
             raw : BOOLEAN, here : BOOLEAN]

(* resolve_device_retention: the device's own days before its cluster's    *)
(* before the system's.                                                    *)
RetentionDays(d) ==
    IF DeviceDays[d] # Unset THEN DeviceDays[d]
    ELSE IF ClusterDays[d] # Unset THEN ClusterDays[d]
    ELSE SystemDays

NoPurge == [pc |-> "idle", now |-> 0, mark |-> 0, chosen |-> {}, groups |-> {}]
PurgeType ==
    [pc : {"idle", "raw", "rawDelete", "devices", "scan", "scanDelete", "done"},
     now : 0..MaxDay, mark : 0..MaxScans, chosen : SUBSET (1..MaxScans),
     groups : SUBSET {RetentionDays(d) : d \in Scanned}]

RetentionTypeOK ==
    /\ day \in 0..MaxDay
    /\ scans \in Seq(ScanType) /\ Len(scans) <= MaxScans
    /\ purge \in [Purgers -> PurgeType]

RetentionInit ==
    /\ day = 0
    /\ scans = <<>>
    /\ purge = [p \in Purgers |-> NoPurge]

Present == {i \in DOMAIN scans : scans[i].here}

(* Is i before j in the order of started_at, id?                           *)
Older(i, j) ==
    \/ scans[i].started < scans[j].started
    \/ scans[i].started = scans[j].started /\ i < j

(* The successful scans of i's device that rank above i.                   *)
Newer(i) ==
    {j \in Present : /\ scans[j].device = scans[i].device
                     /\ scans[j].success
                     /\ Older(i, j)}

(* Mutant of KeptIds: one scan too few is kept.                            *)
KeptIdsOneShort ==
    {i \in Present : scans[i].success /\ Cardinality(Newer(i)) < KeptScans - 1}

(* kept_scan_ids: the latest successful scans of each device.              *)
KeptIds ==
    {i \in Present : scans[i].success /\ Cardinality(Newer(i)) < KeptScans}

(* ORDER BY id LIMIT chunk_size                                            *)
FirstChunk(S) == {i \in S : Cardinality({j \in S : j < i}) < ChunkSize}

At(p, pc) == purge[p].pc = pc
Set(p, job) == purge' = [purge EXCEPT ![p] = job]

-----------------------------------------------------------------------------
(* _purge_history begins with the raw rows, purge_raw_connection_records.  *)
StartPurge(p) ==
    /\ At(p, "idle")
    /\ Set(p, [NoPurge EXCEPT !.pc = "raw", !.now = day])
    /\ UNCHANGED <<day, scans>>

(* Mutant of RawSelect: the scans that failed are ranked as well.          *)
RawSelectRankedAll(p) ==
    /\ At(p, "raw")
    /\ LET newer(i) == {j \in Present : scans[j].device = scans[i].device /\ Older(i, j)}
           ids == FirstChunk({i \in Present :
                        /\ Cardinality(newer(i)) >= KeptScans
                        /\ scans[i].started + RawDays < purge[p].now
                        /\ i > purge[p].mark})
       IN  Set(p, [purge[p] EXCEPT !.pc = IF ids = {} THEN "devices"
                                                      ELSE "rawDelete",
                                   !.chosen = ids])
    /\ UNCHANGED <<day, scans>>

(* The next ids above the watermark, until there are none.                 *)
RawSelect(p) ==
    /\ At(p, "raw")
    /\ LET ids == FirstChunk({i \in Present \ KeptIds :
                        /\ scans[i].started + RawDays < purge[p].now
                        /\ i > purge[p].mark})
       IN  Set(p, [purge[p] EXCEPT !.pc = IF ids = {} THEN "devices"
                                                      ELSE "rawDelete",
                                   !.chosen = ids])
    /\ UNCHANGED <<day, scans>>

WithoutRaw(S) ==
    [i \in DOMAIN scans |-> [scans[i] EXCEPT !.raw = @ /\ i \notin S]]

(* Mutant of RawDelete: the watermark stays where it was.                  *)
RawDeleteNoMark(p) ==
    /\ At(p, "rawDelete")
    /\ scans' = WithoutRaw(purge[p].chosen)
    /\ Set(p, [purge[p] EXCEPT !.pc = "raw", !.chosen = {}])
    /\ UNCHANGED day

(* The records of the chunk go, and the watermark moves to its last id.    *)
RawDelete(p) ==
    /\ At(p, "rawDelete")
    /\ scans' = WithoutRaw(purge[p].chosen)
    /\ Set(p, [purge[p] EXCEPT !.pc = "raw", !.chosen = {},
                               !.mark = Max(purge[p].chosen)])
    /\ UNCHANGED day

(* purge_expired_scans: its own reference, devices grouped by their days.  *)
ReadGroups(p) ==
    /\ At(p, "devices")
    /\ Set(p, [NoPurge EXCEPT !.pc = "scan", !.now = day,
                              !.groups = {RetentionDays(d) : d \in Scanned}])
    /\ UNCHANGED <<day, scans>>

Overdue(days, now) ==
    {i \in Present : /\ RetentionDays(scans[i].device) = days
                     /\ scans[i].started + days < now}

(* _delete_scans_in_chunks for the devices of one group; no id left ends   *)
(* the group, and the last group the purge.                                *)
ScanSelect(p, days) ==
    /\ At(p, "scan") /\ days \in purge[p].groups
    /\ LET ids == FirstChunk(Overdue(days, purge[p].now))
           job == purge[p]
       IN  IF ids = {}
             THEN Set(p, [job EXCEPT !.groups = @ \ {days},
                            !.pc = IF job.groups = {days} THEN "done" ELSE "scan"])
             ELSE Set(p, [job EXCEPT !.chosen = ids, !.pc = "scanDelete"])
    /\ UNCHANGED <<day, scans>>

(* The scan rows go, and their connection rows with them.                  *)
WithoutScans(S) ==
    [i \in DOMAIN scans |->
        [scans[i] EXCEPT !.here = @ /\ i \notin S, !.raw = @ /\ i \notin S]]

(* Mutant of ScanDelete: one chunk is taken for all there is.              *)
ScanDeleteOnce(p) ==
    /\ At(p, "scanDelete")
    /\ scans' = WithoutScans(purge[p].chosen)
    /\ Set(p, [purge[p] EXCEPT !.pc = "done", !.chosen = {}, !.groups = {}])
    /\ UNCHANGED day

ScanDelete(p) ==
    /\ At(p, "scanDelete")
    /\ scans' = WithoutScans(purge[p].chosen)
    /\ Set(p, [purge[p] EXCEPT !.pc = "scan", !.chosen = {}])
    /\ UNCHANGED day

(* The readers are notified and the topology cache told.                   *)
FinishPurge(p) ==
    /\ At(p, "done")
    /\ Set(p, NoPurge)
    /\ UNCHANGED <<day, scans>>

(* A statement fails: what was committed stays, the next day goes on.      *)
PurgeFails(p) ==
    /\ purge[p].pc \notin {"idle", "done"}
    /\ Set(p, NoPurge)
    /\ UNCHANGED <<day, scans>>

PurgeStep(p) ==
    \/ RawSelect(p) \/ RawDelete(p) \/ ReadGroups(p)
    \/ \E days \in purge[p].groups : ScanSelect(p, days)
    \/ ScanDelete(p) \/ FinishPurge(p)

(* A scan of d is saved.  A device is scanned by one worker at a time, so  *)
(* its scans start in the order of their ids and never at the same time.   *)
SaveScan(d, success) ==
    /\ Len(scans) < MaxScans
    /\ \A i \in DOMAIN scans : scans[i].device = d => scans[i].started < day
    /\ scans' = Append(scans, [device |-> d, success |-> success,
                               started |-> day, raw |-> success, here |-> TRUE])
    /\ UNCHANGED <<day, purge>>

NextDay ==
    /\ day < MaxDay
    /\ day' = day + 1
    /\ UNCHANGED <<scans, purge>>

-----------------------------------------------------------------------------
(* The latest two successful scans a device has keep their raw rows,       *)
(* however old they are (purge_raw_connection_records: the current         *)
(* topology and the latest diff keep working for devices that stopped      *)
(* reporting), with scans saved and other purges running between the       *)
(* SELECT of a chunk and its DELETE.                                       *)
LatestTwoReadable == \A i \in KeptIds : scans[i].raw

(* A purge that comes to its end has left no scan whose device's retention *)
(* had passed when its second half began, whatever chunks that took and    *)
(* whoever else deleted some of them.                                      *)
NothingOverdue ==
    \A p \in Purgers : At(p, "done") =>
        \A d \in Scanned : Overdue(RetentionDays(d), purge[p].now) = {}

(* A purge comes to its end: the raw half does not select the same scans   *)
(* again (its comment on the watermark), and the scan half runs out.       *)
PurgeEnds == \A p \in Purgers : ~At(p, "idle") ~> At(p, "idle")

=============================================================================
