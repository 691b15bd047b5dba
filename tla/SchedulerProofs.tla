-------------------------- MODULE SchedulerProofs --------------------------
(***************************************************************************)
(* Theorems about SchedulerService for every number of processes, devices, *)
(* lost connections and requests.                                          *)
(***************************************************************************)
EXTENDS SchedulerService, RetentionProofs

-----------------------------------------------------------------------------
(***************************************************************************)
(* The election.                                                           *)
(***************************************************************************)
(* Types of the variables the arguments below are about.                   *)
ElectionType ==
    /\ holder \in Processes \cup {Nobody}
    /\ elector \in [Processes -> ElectorPCs]
    /\ link \in [Processes -> BOOLEAN]
    /\ running \in [Processes -> BOOLEAN]
    /\ jobs \in [Processes -> SUBSET Devices]
    /\ unsynced \in [Processes -> SUBSET Devices]
    /\ device \in [Devices -> DeviceStates]
    /\ requests \subseteq RequestType
    /\ stray \subseteq Devices

(* The lock is with the session that is alive.                             *)
LinkHolds == \A p \in Processes : link[p] <=> holder = p

(* Whatever is not an action of LeaderScheduler leaves its variables alone.*)
LEMMA LeaderSteps ==
    ASSUME [Next]_vars
    PROVE  \/ UNCHANGED leaderVars
           \/ \E p \in Processes : \/ ElectorStep(p) \/ Drop(p) \/ ElectionFails(p)
                                   \/ Shutdown(p) \/ LeaderCrash(p)
           \/ RequestStep
BY DEF Next, vars, Quietly, Crash, PurgeHistory, Enqueue, Scan

(* What a request may do.                                                  *)
LEMMA RequestSteps ==
    ASSUME RequestStep
    PROVE  \/ \E p \in Processes, S \in SUBSET Devices,
                 state \in {"scheduled", "manual"} : Save(p, S, state)
           \/ \E p \in Processes, d \in Devices : RemoveDevice(p, d)
           \/ \E r \in requests : SyncDevice(r) \/ DeleteDevice(r) \/ RefuseDelete(r)
BY DEF RequestStep, CreateDevice, UpdateDevice, EditCluster

(* Types are kept.                                                         *)
LEMMA ElectionTypeStep ==
    ASSUME ElectionType, [Next]_vars
    PROVE  ElectionType'
<1> USE DEF ElectionType
<1>1. CASE UNCHANGED leaderVars
  BY <1>1 DEF leaderVars
<1>2. ASSUME NEW p \in Processes,
             \/ ElectorStep(p) \/ Drop(p) \/ ElectionFails(p)
             \/ Shutdown(p) \/ LeaderCrash(p)
      PROVE  ElectionType'
  <2>1. Underway \subseteq Devices
    BY DEF Underway, RequestType
  <2>2. CASE ElectorStep(p)
    BY <2>1, <2>2 DEF ElectorStep, TryLock, StartScheduler, ReadDevices, SyncDevices,
       Notice, Lose, Goto, requestVars, Scheduled, ElectorPCs
  <2>3. CASE Drop(p) \/ ElectionFails(p) \/ Shutdown(p)
    BY <2>3 DEF Drop, ElectionFails, Shutdown, Goto, Freed, requestVars, ElectorPCs
  <2>4. CASE LeaderCrash(p)
    BY <2>4 DEF LeaderCrash, Goto, Freed, ElectorPCs, RequestType
  <2>5. QED
    BY <1>2, <2>2, <2>3, <2>4
<1>3. CASE RequestStep
  <2>1. ASSUME NEW p \in Processes, NEW S \in SUBSET Devices,
               NEW state \in {"scheduled", "manual"}, Save(p, S, state)
        PROVE  ElectionType'
    BY <2>1 DEF Save, electionVars, RequestType, DeviceStates
  <2>2. ASSUME NEW p \in Processes, NEW d \in Devices, RemoveDevice(p, d)
        PROVE  ElectionType'
    BY <2>2 DEF RemoveDevice, electionVars, RequestType
  <2>3. ASSUME NEW r \in requests, SyncDevice(r) \/ DeleteDevice(r) \/ RefuseDelete(r)
        PROVE  ElectionType'
    BY <2>3 DEF SyncDevice, DeleteDevice, RefuseDelete, Strays, electionVars,
                RequestType, DeviceStates
  <2>4. QED
    BY <1>3, <2>1, <2>2, <2>3, RequestSteps
<1>4. QED
  BY <1>1, <1>2, <1>3, LeaderSteps

(* A process has a session that holds the lock exactly when the server     *)
(* counts it as the holder: the two end together, in every step.           *)
LEMMA LinkHoldsStep ==
    ASSUME ElectionType, LinkHolds, [Next]_vars
    PROVE  LinkHolds'
<1> USE DEF ElectionType, LinkHolds
<1>1. CASE UNCHANGED leaderVars
  BY <1>1 DEF leaderVars
<1>2. ASSUME NEW p \in Processes,
             \/ ElectorStep(p) \/ Drop(p) \/ ElectionFails(p)
             \/ Shutdown(p) \/ LeaderCrash(p)
      PROVE  LinkHolds'
  BY <1>2, LeaderConstants
     DEF ElectorStep, TryLock, StartScheduler, ReadDevices, SyncDevices, Notice, Lose,
         Drop, ElectionFails, Shutdown, LeaderCrash, Freed
<1>3. CASE RequestStep
  BY <1>3, RequestSteps
     DEF Save, RemoveDevice, SyncDevice, DeleteDevice, RefuseDelete, electionVars
<1>4. QED
  BY <1>1, <1>2, <1>3, LeaderSteps

(* The inductive invariant of the election.                                *)
LEMMA ElectionInvariant == Spec => [](ElectionType /\ LinkHolds)
<1>1. Init => ElectionType /\ LinkHolds
  BY LeaderConstants DEF Init, LeaderInit, ElectionType, LinkHolds, ElectorPCs, DeviceStates
<1>2. ElectionType /\ LinkHolds /\ [Next]_vars => (ElectionType /\ LinkHolds)'
  BY ElectionTypeStep, LinkHoldsStep
<1>3. QED
  BY <1>1, <1>2, PTL DEF Spec

(* However many processes compete, drop out, fail in their election or     *)
(* die, a scheduler that runs without the lock is on its way out: the lock *)
(* is with the session, and a process whose session is alive has it.       *)
THEOREM OnlyHolderStaysHolds == Spec => []OnlyHolderStays
<1>1. ElectionType /\ LinkHolds => OnlyHolderStays
  BY DEF LinkHolds, OnlyHolderStays
<1>2. QED
  BY <1>1, ElectionInvariant, PTL

-----------------------------------------------------------------------------
(***************************************************************************)
(* The jobs of the leader.  Devices not in stray are those whose requests  *)
(* were all served by the leader of their time, one after the other.       *)
(***************************************************************************)
(* A scheduler that does not run yet has jobs of stray devices only.       *)
IdleJobsStray ==
    \A p \in Processes :
        elector[p] \in {"waiting", "acquired", "reading", "syncing", "down"} =>
            jobs[p] \subseteq stray

(* What an election has read is still so.                                  *)
SyncingFresh ==
    \A p \in Processes : elector[p] = "syncing" /\ holder = p =>
        \A d \in Devices \ (stray \cup Underway) :
            d \in unsynced[p] <=> device[d] = "scheduled"

(* A request for a device that is not stray is the only one for it, is the *)
(* leader's if there is one, and is about to do to the job what it has     *)
(* done to the device (a deletion: has done to the job what it is about to *)
(* do to the device).                                                      *)
RequestServed(r) ==
    /\ elector[r.proc] \notin {"acquired", "reading", "syncing"}
    /\ holder # Nobody => Leads(r.proc)
    /\ r.call = "add" => device[r.device] = "scheduled"
    /\ r.call = "remove" => device[r.device] # "scheduled"
    /\ r.call = "delete" => r.device \notin jobs[r.proc]
    /\ \A q \in requests : q.device = r.device => q = r
RequestsServed == \A r \in requests : r.device \notin stray => RequestServed(r)

JobsInv == /\ ElectionType /\ LinkHolds /\ IdleJobsStray /\ SyncingFresh /\ RequestsServed
           /\ LeaderFollowsItsRequests

(* The elector thread: a job is made for what was read, and only then does *)
(* the process lead.                                                       *)
LEMMA JobsElectorStep ==
    ASSUME JobsInv, ElectionType', LinkHolds', NEW p \in Processes,
           \/ ElectorStep(p) \/ Drop(p) \/ ElectionFails(p)
           \/ Shutdown(p) \/ LeaderCrash(p)
    PROVE  JobsInv'
<1> USE DEF JobsInv, ElectionType, IdleJobsStray, SyncingFresh, RequestsServed,
            RequestServed, LeaderFollowsItsRequests, Leads, Underway, RequestType
<1>1. CASE TryLock(p)
  BY <1>1, LeaderConstants DEF TryLock, Goto
<1>2. CASE StartScheduler(p)
  BY <1>2 DEF StartScheduler, Goto, requestVars
<1>3. CASE ReadDevices(p)
  BY <1>3 DEF ReadDevices, Goto, requestVars, Scheduled
<1>4. CASE SyncDevices(p)
  BY <1>4 DEF SyncDevices, Goto, requestVars
<1>5. CASE Notice(p)
  <2>1. /\ elector' = [elector EXCEPT ![p] = "losing"]
        /\ UNCHANGED <<holder, jobs, unsynced, device, requests, stray>>
        /\ elector[p] = "leading" /\ holder # p
    BY <1>5 DEF Notice, Goto, requestVars, LinkHolds
  <2>2. IdleJobsStray' /\ SyncingFresh' /\ LeaderFollowsItsRequests'
    BY <2>1
  <2>3. RequestsServed'
    BY <2>1
  <2>4. QED
    BY <2>2, <2>3
<1>6. CASE Lose(p)
  BY <1>6 DEF Lose, Goto, requestVars
<1>7. CASE Drop(p)
  BY <1>7, LeaderConstants DEF Drop, Freed, requestVars
<1>8. CASE ElectionFails(p)
  BY <1>8, LeaderConstants DEF ElectionFails, Goto, Freed, requestVars
<1>9. CASE Shutdown(p)
  BY <1>9, LeaderConstants DEF Shutdown, Goto, Freed, requestVars
<1>10. CASE LeaderCrash(p)
  <2> USE <1>10 DEF LeaderCrash, Goto, Freed
  <2>1. stray \subseteq stray' /\ requests' \subseteq requests
        /\ \A d \in Devices : d \notin stray' \cup Underway' => d \notin stray \cup Underway
    OBVIOUS
  <2>2. IdleJobsStray'
    BY <2>1
  <2>3. SyncingFresh'
    BY <2>1, LeaderConstants
  <2>4. RequestsServed'
    BY <2>1, LeaderConstants
  <2>5. LeaderFollowsItsRequests'
    BY <2>1, LeaderConstants
  <2>6. QED
    BY <2>2, <2>3, <2>4, <2>5
<1>11. QED
  BY <1>1, <1>2, <1>3, <1>4, <1>5, <1>6, <1>7, <1>8, <1>9, <1>10 DEF ElectorStep

(* Requests: the leader's own keep device and job together, all others     *)
(* make their devices stray.                                               *)
LEMMA JobsRequestStep ==
    ASSUME JobsInv, ElectionType', LinkHolds', RequestStep
    PROVE  JobsInv'
<1> USE DEF JobsInv, ElectionType, IdleJobsStray, SyncingFresh, RequestsServed,
            RequestServed, LeaderFollowsItsRequests, Leads, Underway, RequestType
<1>1. ASSUME NEW p \in Processes, NEW S \in SUBSET Devices,
             NEW state \in {"scheduled", "manual"}, Save(p, S, state)
      PROVE  JobsInv'
  <2> DEFINE new == [proc : {p}, device : S,
                     call : {IF state = "scheduled" THEN "add" ELSE "remove"}]
  <2>1. /\ UNCHANGED <<holder, elector, unsynced, jobs>>
        /\ requests' = requests \cup new
        /\ stray' = stray \cup {d \in S : ~Served(p, d)}
        /\ \A d \in Devices : device'[d] = IF d \in S THEN state ELSE device[d]
    BY <1>1 DEF Save, electionVars
  <2>2. \A r \in new : /\ r.proc = p /\ r.device \in S
                       /\ r.call = IF state = "scheduled" THEN "add" ELSE "remove"
    OBVIOUS
  <2>3. \A d \in S : \E r \in new : r.device = d
    <3> TAKE d \in S
    <3> DEFINE r == [proc |-> p, device |-> d,
                     call |-> IF state = "scheduled" THEN "add" ELSE "remove"]
    <3>1. r \in new /\ r.device = d
      OBVIOUS
    <3>2. QED
      BY <3>1
  <2> HIDE DEF new
  <2>4. IdleJobsStray'
    BY <2>1
  <2>5. \A d \in Devices : d \notin stray' \cup Underway' =>
           d \notin stray \cup Underway /\ d \notin S
    BY <2>1, <2>3
  <2>6. SyncingFresh'
    BY <2>1, <2>5
  <2>7. LeaderFollowsItsRequests'
    BY <2>1, <2>5
  <2>8. ASSUME NEW r \in requests', r.device \notin stray'
        PROVE  RequestServed(r)'
    <3>1. CASE r \in requests
      <4>1. r.device \notin S
        BY <2>1, <2>8, <3>1 DEF Served
      <4>2. QED
        BY <2>1, <2>2, <2>8, <3>1, <4>1
    <3>2. CASE r \in new /\ r \notin requests
      <4>1. Leads(p) /\ r.device \notin Underway
        BY <2>1, <2>2, <2>8, <3>2 DEF Served
      <4>2. \A q \in requests' : q.device = r.device => q \in new
        BY <2>1, <4>1
      <4>3. \A q \in new : q.device = r.device => q = r
        BY <3>2 DEF new
      <4>4. QED
        BY <2>1, <2>2, <3>2, <4>1, <4>2, <4>3
    <3>3. QED
      BY <2>1, <3>1, <3>2
  <2>9. QED
    BY <2>4, <2>6, <2>7, <2>8
<1>2. ASSUME NEW p \in Processes, NEW d \in Devices, RemoveDevice(p, d)
      PROVE  JobsInv'
  <2> DEFINE new == [proc |-> p, device |-> d, call |-> "delete"]
  <2>1. /\ UNCHANGED <<holder, elector, unsynced, device>>
        /\ requests' = requests \cup {new}
        /\ stray' = stray \cup {e \in {d} : ~Served(p, e)}
        /\ jobs' = [jobs EXCEPT ![p] = @ \ {d}]
    BY <1>2 DEF RemoveDevice, electionVars
  <2>2. new.proc = p /\ new.device = d /\ new.call = "delete"
    OBVIOUS
  <2> HIDE DEF new
  <2>3. IdleJobsStray'
    BY <2>1
  <2>4. \A e \in Devices : e \notin stray' \cup Underway' =>
           e \notin stray \cup Underway /\ e # d
    BY <2>1, <2>2
  <2>5. SyncingFresh'
    BY <2>1, <2>4
  <2>6. LeaderFollowsItsRequests'
    BY <2>1, <2>4
  <2>7. ASSUME NEW r \in requests', r.device \notin stray'
        PROVE  RequestServed(r)'
    <3>1. CASE r \in requests
      <4>1. r.device # d
        BY <2>1, <2>7, <3>1 DEF Served
      <4>2. QED
        BY <2>1, <2>2, <2>7, <3>1, <4>1
    <3>2. CASE r = new /\ r \notin requests
      <4>1. Leads(p) /\ d \notin Underway
        BY <2>1, <2>2, <2>7, <3>2 DEF Served
      <4>2. QED
        BY <2>1, <2>2, <3>2, <4>1
    <3>3. QED
      BY <2>1, <3>1, <3>2
  <2>8. QED
    BY <2>3, <2>5, <2>6, <2>7
<1>3. ASSUME NEW r \in requests, SyncDevice(r)
      PROVE  JobsInv'
  BY <1>3 DEF SyncDevice, Strays, electionVars
<1>4. ASSUME NEW r \in requests, DeleteDevice(r)
      PROVE  JobsInv'
  BY <1>4 DEF DeleteDevice, Strays, electionVars
<1>5. ASSUME NEW r \in requests, RefuseDelete(r)
      PROVE  JobsInv'
  BY <1>5 DEF RefuseDelete, electionVars
<1>6. QED
  BY <1>1, <1>2, <1>3, <1>4, <1>5, RequestSteps

(* Of every device that is served one request at a time and by the leader  *)
(* of the moment, the leader has a job exactly when its scheduled          *)
(* collection is on, for any number of processes, elections, failures and  *)
(* requests.                                                               *)
THEOREM LeaderFollowsItsRequestsHolds == Spec => []LeaderFollowsItsRequests
<1>1. Init => JobsInv
  BY LeaderConstants
     DEF Init, LeaderInit, JobsInv, ElectionType, LinkHolds, IdleJobsStray, SyncingFresh,
         RequestsServed, LeaderFollowsItsRequests, Leads, ElectorPCs, DeviceStates
<1>2. JobsInv /\ [Next]_vars => JobsInv'
  <2> SUFFICES ASSUME JobsInv, [Next]_vars
               PROVE  JobsInv'
    OBVIOUS
  <2>1. ElectionType' /\ LinkHolds'
    BY ElectionTypeStep, LinkHoldsStep DEF JobsInv
  <2>2. CASE UNCHANGED leaderVars
    <3>1. UNCHANGED <<holder, elector, jobs, unsynced, device, requests, stray>>
      BY <2>2 DEF leaderVars
    <3>2. IdleJobsStray' /\ SyncingFresh' /\ LeaderFollowsItsRequests'
      BY <3>1 DEF JobsInv, IdleJobsStray, SyncingFresh, LeaderFollowsItsRequests,
                  Leads, Underway
    <3>3. RequestsServed'
      BY <3>1 DEF JobsInv, RequestsServed, RequestServed, Leads
    <3>4. QED
      BY <2>1, <3>2, <3>3 DEF JobsInv
  <2>3. QED
    BY <2>1, <2>2, LeaderSteps, JobsElectorStep, JobsRequestStep
<1>3. JobsInv => LeaderFollowsItsRequests
  BY DEF JobsInv
<1>4. QED
  BY <1>1, <1>2, <1>3, PTL DEF Spec

-----------------------------------------------------------------------------
(***************************************************************************)
(* The purges: the one a process goes on with after it has lost the lock   *)
(* beside that of its successor, and scans saved between them.             *)
(***************************************************************************)
LEMMA ServiceRetains == Spec => []RetentionInv
<1>1. Init => RetentionInv
  <2> SUFFICES ASSUME RetentionInit PROVE RetentionInv
    BY DEF Init
  <2>1. RetentionTypeOK
    <3>1. 0 \in 0..MaxDay /\ 0 <= MaxScans /\ NoPurge \in PurgeType
      BY RetentionConstants DEF NoPurge, PurgeType
    <3>2. scans \in Seq(ScanType) /\ Len(scans) = 0
      BY EmptySeq DEF RetentionInit
    <3>3. QED
      BY <3>1, <3>2 DEF RetentionInit, RetentionTypeOK
  <2>2. DOMAIN scans = {}
    BY EmptySeq DEF RetentionInit
  <2>3. ScansOrdered /\ LatestTwoReadable
    BY <2>2 DEF ScansOrdered, LatestTwoReadable, KeptIds, Present
  <2>4. ASSUME NEW p \in Purgers
        PROVE  JobOK(purge[p])
    <3>1. purge[p] = NoPurge /\ NoPurge \in PurgeType /\ day = 0
      BY <2>1 DEF RetentionInit, RetentionTypeOK
    <3>2. NoPurge.pc = "idle" /\ NoPurge.now = 0 /\ NoPurge.chosen = {}
      BY DEF NoPurge
    <3>3. QED
      BY <3>1, <3>2 DEF JobOK
  <2>5. QED
    BY <2>1, <2>3, <2>4 DEF RetentionInv
<1>2. RetentionInv /\ [Next]_vars => RetentionInv'
  <2> SUFFICES ASSUME RetentionInv, [Next]_vars
               PROVE  RetentionInv'
    OBVIOUS
  <2>1. CASE UNCHANGED retentionVars
    BY <2>1, RetentionStutters
  <2>2. ASSUME NEW p \in Processes, Crash(p)
        PROVE  RetentionInv'
    <3>1. PurgesLost({p} \cap Purgers)
      BY <2>2 DEF Crash, PurgesLost
    <3>2. QED
      BY <3>1, RetentionPreserved DEF RetentionStep
  <2>3. ASSUME NEW p \in Purgers, StartPurge(p) \/ PurgeStep(p) \/ PurgeFails(p)
        PROVE  RetentionInv'
    BY <2>3, RetentionPreserved DEF RetentionStep
  <2>4. ASSUME NEW d \in Devices, NEW success \in BOOLEAN, Scan(d, success)
        PROVE  RetentionInv'
    BY <2>4, ScannedDevices, RetentionPreserved DEF RetentionStep, Scan
  <2>5. CASE NextDay
    BY <2>5, RetentionPreserved DEF RetentionStep
  <2>6. QED
    BY <2>1, <2>2, <2>3, <2>4, <2>5 DEF Next, Quietly, vars, PurgeHistory, Enqueue
<1>3. QED
  BY <1>1, <1>2, PTL DEF Spec

(* No chunk a purge has chosen takes a raw row from the latest successful  *)
(* scans of a device, however often the lock changes hands while purges    *)
(* are at work and scans are saved.                                        *)
THEOREM ServiceKeepsLatestScans == Spec => []LatestTwoReadable
BY ServiceRetains, RetentionSafe, PTL

(* A purge that comes to its end leaves nothing overdue, although another  *)
(* process that lost the lock may have deleted from under it.              *)
THEOREM ServiceLeavesNothingOverdue == Spec => []NothingOverdue
BY ServiceRetains, RetentionSafe, PTL

=============================================================================
