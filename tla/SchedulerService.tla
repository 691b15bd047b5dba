-------------------------- MODULE SchedulerService --------------------------
(***************************************************************************)
(* The scheduler of the leader at work: the jobs of LeaderScheduler start  *)
(* scans and the purge of Retention.  A job that has begun goes on when    *)
(* its scheduler is shut down (shutdown(wait=False)), so the purge of a    *)
(* process that has lost the lock runs beside the purge of its successor.  *)
(***************************************************************************)
EXTENDS LeaderScheduler, Retention

ASSUME ScannedDevices == Devices \subseteq Scanned

VARIABLE queued  \* devices with an active item in the scan queue

vars == <<leaderVars, retentionVars, queued>>

TypeOK ==
    /\ LeaderTypeOK
    /\ RetentionTypeOK
    /\ queued \subseteq Devices

Init == LeaderInit /\ RetentionInit /\ queued = {}

(* _enqueue_device: a device that is gone or only labels a cluster is      *)
(* passed over, and so is one that is queued already.                      *)
Enqueue(p, d) ==
    /\ running[p] /\ d \in jobs[p]
    /\ device[d] \in {"scheduled", "manual"}
    /\ queued' = queued \cup {d}
    /\ UNCHANGED <<leaderVars, retentionVars>>

(* The job history-retention; max_instances = 1.                           *)
PurgeHistory(p) ==
    /\ p \in Purgers /\ running[p]
    /\ StartPurge(p)
    /\ UNCHANGED <<leaderVars, queued>>

(* The queue's workers scan the device, in whichever process.              *)
Scan(d, success) ==
    /\ d \in queued
    /\ queued' = queued \ {d}
    /\ SaveScan(d, success)
    /\ UNCHANGED leaderVars

(* The process dies, and the purge it was running.                         *)
Crash(p) ==
    /\ LeaderCrash(p)
    /\ purge' = [q \in Purgers |-> IF q = p THEN NoPurge ELSE purge[q]]
    /\ UNCHANGED <<day, scans, queued>>

Quietly(A) == A /\ UNCHANGED <<retentionVars, queued>>

Next ==
    \/ \E p \in Processes :
          \/ Quietly(ElectorStep(p))
          \/ Quietly(Drop(p))
          \/ Quietly(ElectionFails(p))
          \/ Quietly(Shutdown(p))
          \/ Crash(p)
          \/ PurgeHistory(p)
          \/ p \in Purgers /\ (PurgeStep(p) \/ PurgeFails(p)) /\ UNCHANGED <<leaderVars, queued>>
    \/ \E p \in Processes, d \in Devices : Enqueue(p, d)
    \/ Quietly(RequestStep)
    \/ \E d \in Devices, success \in BOOLEAN : Scan(d, success)
    \/ NextDay /\ UNCHANGED <<leaderVars, queued>>

Spec == Init /\ [][Next]_vars

(* The elector thread of a process that stays up goes round its loop, and  *)
(* a job that was started is run by its thread.                            *)
Fairness ==
    /\ \A p \in Processes : WF_vars(Quietly(ElectorStep(p)))
    /\ \A p \in Purgers : WF_vars(PurgeStep(p) /\ UNCHANGED <<leaderVars, queued>>)

FairSpec == Spec /\ Fairness

=============================================================================
