--------------------------- MODULE LeaderScheduler ---------------------------
(***************************************************************************)
(* Which process runs the scheduler, and what it schedules                 *)
(* (services/postgres_leader.py, services/scheduler.py).                   *)
(*                                                                         *)
(* Every process tries to take a session advisory lock on a connection of  *)
(* its own; who has it starts its APScheduler and adds a job for every     *)
(* device whose scheduled collection is on.  A lost connection frees the   *)
(* lock at once, but its process notices only at its next SELECT 1.        *)
(*                                                                         *)
(* Requests change devices in the database and then the jobs of the        *)
(* process that serves them.  A scheduler that is not running keeps the    *)
(* jobs it is given and runs them once it is started.                      *)
(***************************************************************************)
EXTENDS Naturals, FiniteSets

CONSTANTS
    Processes,  \* web processes
    Mortal,     \* those that may crash or shut down
    Nobody,     \* the lock is free
    Devices,    \* device ids
    MaxDrops,   \* bound on lost connections and failing elections
    MaxEdits    \* bound on requests that change devices

ASSUME LeaderConstants ==
    /\ IsFiniteSet(Processes) /\ IsFiniteSet(Devices)
    /\ Mortal \subseteq Processes /\ Nobody \notin Processes
    /\ MaxDrops \in Nat /\ MaxEdits \in Nat

VARIABLES
    holder,    \* the process whose session has the advisory lock
    elector,   \* where the elector thread of each process is
    link,      \* is the session of that thread alive?
    running,   \* scheduler.running
    jobs,      \* devices that have a job in the process's scheduler
    unsynced,  \* devices _become_leader has read and not yet added
    device,    \* devices: scheduled, manual (not scheduled), absent
    requests,  \* requests under way: the call of sync_device or the
               \* deletion that is still to come
    stray,     \* history: devices some request has touched in a way the
               \* leader need not follow, see Served
    drops, edits

electionVars == <<holder, elector, link, running, unsynced, drops>>
requestVars  == <<device, requests, stray, edits>>
leaderVars   == <<holder, elector, link, running, jobs, unsynced, device,
                  requests, stray, drops, edits>>

DeviceStates == {"scheduled", "manual", "absent"}
RequestType  == [proc : Processes, device : Devices,
                 call : {"add", "remove", "delete"}]
ElectorPCs   == {"waiting", "acquired", "reading", "syncing", "leading",
                 "losing", "stopping", "down"}

LeaderTypeOK ==
    /\ holder \in Processes \cup {Nobody}
    /\ elector \in [Processes -> ElectorPCs]
    /\ link \in [Processes -> BOOLEAN]
    /\ running \in [Processes -> BOOLEAN]
    /\ jobs \in [Processes -> SUBSET Devices]
    /\ unsynced \in [Processes -> SUBSET Devices]
    /\ device \in [Devices -> DeviceStates]
    /\ requests \subseteq RequestType
    /\ stray \subseteq Devices
    /\ drops \in 0..MaxDrops
    /\ edits \in 0..MaxEdits

LeaderInit ==
    /\ holder = Nobody
    /\ elector = [p \in Processes |-> "waiting"]
    /\ link = [p \in Processes |-> FALSE]
    /\ running = [p \in Processes |-> FALSE]
    /\ jobs = [p \in Processes |-> {}]
    /\ unsynced = [p \in Processes |-> {}]
    /\ device \in [Devices -> {"scheduled", "absent"}]
    /\ requests = {}
    /\ stray = {}
    /\ drops = MaxDrops
    /\ edits = MaxEdits

Goto(p, pc) == elector' = [elector EXCEPT ![p] = pc]
Scheduled == {d \in Devices : device[d] = "scheduled"}

-----------------------------------------------------------------------------
(***************************************************************************)
(* The elector thread, PostgresLeaderElector._run.                         *)
(***************************************************************************)
(* A device whose request is under way at an election.                     *)
Underway == {r.device : r \in requests}

(* Mutant of TryLock: the answer of pg_try_advisory_lock is not looked at. *)
TryLockAlways(p) ==
    /\ elector[p] = "waiting"
    /\ holder' = p
    /\ link' = [link EXCEPT ![p] = TRUE]
    /\ Goto(p, "acquired")
    /\ stray' = stray \cup Underway
    /\ UNCHANGED <<running, jobs, unsynced, drops, device, requests, edits>>

(* pg_try_advisory_lock succeeds; otherwise the thread goes on waiting.    *)
TryLock(p) ==
    /\ elector[p] = "waiting" /\ holder = Nobody
    /\ holder' = p
    /\ link' = [link EXCEPT ![p] = TRUE]
    /\ Goto(p, "acquired")
    /\ stray' = stray \cup Underway
    /\ UNCHANGED <<running, jobs, unsynced, drops, device, requests, edits>>

(* _become_leader: start the scheduler with the jobs it was given so far,  *)
StartScheduler(p) ==
    /\ elector[p] = "acquired"
    /\ running' = [running EXCEPT ![p] = TRUE]
    /\ Goto(p, "reading")
    /\ UNCHANGED <<holder, link, jobs, unsynced, drops, requestVars>>

(* select the devices to schedule,                                         *)
ReadDevices(p) ==
    /\ elector[p] = "reading"
    /\ unsynced' = [unsynced EXCEPT ![p] = Scheduled]
    /\ Goto(p, "syncing")
    /\ UNCHANGED <<holder, link, running, jobs, drops, requestVars>>

(* and add a job for each.                                                 *)
SyncDevices(p) ==
    /\ elector[p] = "syncing"
    /\ jobs' = [jobs EXCEPT ![p] = @ \cup unsynced[p]]
    /\ unsynced' = [unsynced EXCEPT ![p] = {}]
    /\ Goto(p, "leading")
    /\ UNCHANGED <<holder, link, running, drops, requestVars>>

(* The lock goes with the session that holds it.                           *)
Freed(p) == IF holder = p THEN Nobody ELSE holder

(* The server or the network ends the session.                             *)
Drop(p) ==
    /\ drops > 0 /\ link[p]
    /\ drops' = drops - 1
    /\ link' = [link EXCEPT ![p] = FALSE]
    /\ holder' = Freed(p)
    /\ UNCHANGED <<elector, running, jobs, unsynced, requestVars>>

(* SELECT 1 fails; there is nothing left to unlock.                        *)
Notice(p) ==
    /\ elector[p] = "leading" /\ ~link[p]
    /\ Goto(p, "losing")
    /\ UNCHANGED <<holder, link, running, jobs, unsynced, drops, requestVars>>

(* _become_leader raises while it reads the devices: unlock, close.        *)
ElectionFails(p) ==
    /\ elector[p] = "reading" /\ drops > 0
    /\ drops' = drops - 1
    /\ holder' = Freed(p)
    /\ link' = [link EXCEPT ![p] = FALSE]
    /\ Goto(p, "losing")
    /\ UNCHANGED <<running, jobs, unsynced, requestVars>>

(* Mutant of Shutdown: close() alone gives the session back to the pool,   *)
(* and the lock with it.                                                   *)
ShutdownKeepsLock(p) ==
    /\ p \in Mortal /\ elector[p] \in {"waiting", "leading"}
    /\ link' = [link EXCEPT ![p] = FALSE]
    /\ Goto(p, IF elector[p] = "leading" THEN "stopping" ELSE "down")
    /\ UNCHANGED <<holder, running, jobs, unsynced, drops, requestVars>>

(* shutdown: the loop ends, the lock is given back before on_lost is       *)
(* called.                                                                 *)
Shutdown(p) ==
    /\ p \in Mortal /\ elector[p] \in {"waiting", "leading"}
    /\ holder' = Freed(p)
    /\ link' = [link EXCEPT ![p] = FALSE]
    /\ Goto(p, IF elector[p] = "leading" THEN "stopping" ELSE "down")
    /\ UNCHANGED <<running, jobs, unsynced, drops, requestVars>>

(* Mutant of Lose: the scheduler is told nothing.                          *)
LoseSilently(p) ==
    /\ elector[p] \in {"losing", "stopping"}
    /\ Goto(p, IF elector[p] = "losing" THEN "waiting" ELSE "down")
    /\ UNCHANGED <<holder, link, running, jobs, unsynced, drops, requestVars>>

(* on_lost = _lose_leadership: shut the scheduler down and make a new one. *)
Lose(p) ==
    /\ elector[p] \in {"losing", "stopping"}
    /\ running' = [running EXCEPT ![p] = FALSE]
    /\ jobs' = [jobs EXCEPT ![p] = {}]
    /\ Goto(p, IF elector[p] = "losing" THEN "waiting" ELSE "down")
    /\ UNCHANGED <<holder, link, unsynced, drops, requestVars>>

LeaderCrash(p) ==
    /\ p \in Mortal /\ elector[p] # "down"
    /\ holder' = Freed(p)
    /\ link' = [link EXCEPT ![p] = FALSE]
    /\ running' = [running EXCEPT ![p] = FALSE]
    /\ jobs' = [jobs EXCEPT ![p] = {}]
    /\ unsynced' = [unsynced EXCEPT ![p] = {}]
    /\ Goto(p, "down")
    /\ requests' = {r \in requests : r.proc # p}
    /\ stray' = stray \cup {r.device : r \in {q \in requests : q.proc = p}}
    /\ UNCHANGED <<device, drops, edits>>

-----------------------------------------------------------------------------
(***************************************************************************)
(* Requests (routes/api.py).                                               *)
(***************************************************************************)
Edit == edits > 0 /\ edits' = edits - 1

(* Does the process that serves a request for d lead, and is no other      *)
(* request for d under way?  (History, for LeaderFollowsItsRequests.)      *)
Leads(p) == holder = p /\ elector[p] = "leading"
Served(p, d) == Leads(p) /\ d \notin Underway
Strays(r) == stray' = stray \cup (IF Leads(r.proc) THEN {} ELSE {r.device})

(* Devices S are committed as state; the calls of sync_device come next.   *)
Save(p, S, state) ==
    /\ elector[p] # "down"
    /\ Edit
    /\ device' = [d \in Devices |-> IF d \in S THEN state ELSE device[d]]
    /\ requests' = requests \cup
          [proc : {p}, device : S,
           call : {IF state = "scheduled" THEN "add" ELSE "remove"}]
    /\ stray' = stray \cup {d \in S : ~Served(p, d)}
    /\ UNCHANGED <<electionVars, jobs>>

Existing == {d \in Devices : device[d] # "absent"}

(* create_device; cluster_scan_values may overrule what was asked for.     *)
CreateDevice(p, d, state) == d \notin Existing /\ Save(p, {d}, state)

UpdateDevice(p, d, state) == d \in Existing /\ Save(p, {d}, state)

(* edit_cluster applies its policy to the members.                         *)
EditCluster(p, S, state) == S \subseteq Existing /\ S # {} /\ Save(p, S, state)

(* Mutant of SyncDevice: the job of a device that is switched off stays.   *)
SyncDeviceAddsOnly(r) ==
    /\ r \in requests /\ r.call # "delete"
    /\ jobs' = [jobs EXCEPT ![r.proc] =
                  IF r.call = "add" THEN @ \cup {r.device} ELSE @]
    /\ requests' = requests \ {r}
    /\ Strays(r)
    /\ UNCHANGED <<electionVars, device, edits>>

(* sync_device, with the values this request has saved.                    *)
SyncDevice(r) ==
    /\ r \in requests /\ r.call # "delete"
    /\ jobs' = [jobs EXCEPT ![r.proc] =
                  IF r.call = "add" THEN @ \cup {r.device} ELSE @ \ {r.device}]
    /\ requests' = requests \ {r}
    /\ Strays(r)
    /\ UNCHANGED <<electionVars, device, edits>>

(* delete_device takes the job away first (remove_device),                 *)
RemoveDevice(p, d) ==
    /\ elector[p] # "down" /\ d \in Existing
    /\ Edit
    /\ jobs' = [jobs EXCEPT ![p] = @ \ {d}]
    /\ requests' = requests \cup {[proc |-> p, device |-> d, call |-> "delete"]}
    /\ stray' = stray \cup {e \in {d} : ~Served(p, e)}
    /\ UNCHANGED <<electionVars, device>>

(* and then deletes the device,                                            *)
DeleteDevice(r) ==
    /\ r \in requests /\ r.call = "delete"
    /\ device' = [device EXCEPT ![r.device] = "absent"]
    /\ requests' = requests \ {r}
    /\ Strays(r)
    /\ UNCHANGED <<electionVars, jobs, edits>>

(* or refuses, because it is being scanned or tested.                      *)
RefuseDelete(r) ==
    /\ r \in requests /\ r.call = "delete"
    /\ requests' = requests \ {r}
    /\ stray' = stray \cup {r.device}
    /\ UNCHANGED <<electionVars, jobs, device, edits>>

-----------------------------------------------------------------------------
ElectorStep(p) ==
    \/ TryLock(p) \/ StartScheduler(p) \/ ReadDevices(p) \/ SyncDevices(p)
    \/ Notice(p) \/ Lose(p)

RequestStep ==
    \/ \E p \in Processes, state \in {"scheduled", "manual"} :
          \/ \E d \in Devices : CreateDevice(p, d, state) \/ UpdateDevice(p, d, state)
          \/ \E S \in SUBSET Devices : EditCluster(p, S, state)
    \/ \E p \in Processes, d \in Devices : RemoveDevice(p, d)
    \/ \E r \in requests : SyncDevice(r) \/ DeleteDevice(r) \/ RefuseDelete(r)

-----------------------------------------------------------------------------
(* A scheduler that runs without the lock has lost its session or is being *)
(* stopped: two processes run jobs at once only while one of them is on    *)
(* its way out (README: only the process with the leader lock runs         *)
(* APScheduler).                                                           *)
OnlyHolderStays ==
    \A p \in Processes :
        running[p] /\ holder # p =>
            ~link[p] \/ elector[p] \in {"losing", "stopping"}

(* The jobs of an established leader are those of the devices to schedule, *)
(* through elections that failed or were lost, and through every request   *)
(* that the leader of its time served alone and finished.                  *)
LeaderFollowsItsRequests ==
    \A p \in Processes : Leads(p) =>
        \A d \in Devices \ (stray \cup Underway) :
            d \in jobs[p] <=> device[d] = "scheduled"

(* A process that has lost the lock stops its scheduler (README: it gives  *)
(* way automatically after a lost connection).                             *)
LoserYields ==
    \A p \in Processes : running[p] /\ holder # p ~> ~running[p]

(* Whatever ends a leader, some process schedules again: the lock is not   *)
(* left behind by a shutdown, a crash or a failed election.                *)
SomeoneLeads ==
    (\A p \in Processes : ~running[p]) ~> (\E p \in Processes : running[p])

(* A device has a job on the leader exactly while its scheduled collection *)
(* is on, once the requests that changed it have returned.                 *)
JobsFollowDevices ==
    \A p \in Processes :
        elector[p] = "leading" /\ holder = p /\ requests = {} =>
            jobs[p] = Scheduled

=============================================================================
