--------------------------- MODULE TopologyCache ---------------------------
(***************************************************************************)
(* The cache of historical topologies in one web process: requests look a  *)
(* key up or build its value once for all that ask meanwhile, the listener *)
(* of topology_changed clears it, entries expire.                          *)
(*                                                                         *)
(* Sources: app/services/topology_cache.py,                                *)
(* app/services/postgres_notifications.py, app/main.py (ttl_seconds, the   *)
(* callbacks), app/routes/api.py (the cached routes).                      *)
(*                                                                         *)
(* A value is represented by how old it is: 0 while it agrees with the     *)
(* database, n > 0 from n - 1 ticks after the change that superseded it.   *)
(***************************************************************************)
EXTENDS Integers, FiniteSets

CONSTANTS
    Keys,           \* cache keys
    Threads,        \* threads that serve requests
    NoThread,       \* a model value: nobody builds the key
    TTL,            \* ttl_seconds, in ticks
    MaxBuildTicks,  \* bound: how long a build takes after it has read
    MaxChanges,     \* bound: committed changes of the topology
    MaxLosses,      \* bound: connections the listener loses
    PromptThreads   \* do steps in memory take no time against the TTL?

ASSUME ThreadsAssumption == IsFiniteSet(Threads) /\ NoThread \notin Threads
ASSUME TicksAssumption ==
    TTL \in Nat \ {0} /\ MaxBuildTicks \in Nat
ASSUME BoundsAssumption == MaxChanges \in Nat /\ MaxLosses \in Nat
ASSUME PromptAssumption == PromptThreads \in BOOLEAN

Oldest == TTL + MaxBuildTicks + 2   \* ages are not told apart from here on
Ages   == 0..Oldest

VARIABLES
    entry,      \* _entries: age of the value and ticks left, ttl 0 if expired
    inflight,   \* _inflight: the thread that builds the key
    pc,         \* where a thread is in get_or_compute
    key,        \* the key it asks for
    value,      \* the value it has built
    building,   \* ticks since it read the database
    waitsFor,   \* whose event it waits for
    failed,     \* the build raised
    answer,     \* age of the last value the thread returned
    listening,  \* the LISTEN connection is up
    notified,   \* a notification, or a local clear, is on its way
    changes,
    losses

vars == <<entry, inflight, pc, key, value, building, waitsFor, failed, answer,
          listening, notified, changes, losses>>
threadVars == <<pc, key, value, building, waitsFor, failed, answer>>
sourceVars == <<listening, notified, changes, losses>>

NoEntry == [present |-> FALSE, age |-> 0, ttl |-> 0]
PCs == {"idle", "look", "enter", "build", "built", "store", "pop", "signal",
        "wait"}

Init ==
    /\ entry = [k \in Keys |-> NoEntry]
    /\ inflight = [k \in Keys |-> NoThread]
    /\ pc = [x \in Threads |-> "idle"]
    /\ key \in [Threads -> Keys]
    /\ value = [x \in Threads |-> 0]
    /\ building = [x \in Threads |-> 0]
    /\ waitsFor = [x \in Threads |-> NoThread]
    /\ failed = [x \in Threads |-> FALSE]
    /\ answer = [x \in Threads |-> 0]
    /\ listening = FALSE
    /\ notified = [local |-> FALSE, remote |-> FALSE]
    /\ changes = 0
    /\ losses = 0

Goto(x, p) == pc' = [pc EXCEPT ![x] = p]

-----------------------------------------------------------------------------
(***************************************************************************)
(* get_or_compute.                                                         *)
(***************************************************************************)
Request(x, k) ==
    /\ pc[x] = "idle"
    /\ Goto(x, "look")
    /\ key' = [key EXCEPT ![x] = k]
    /\ answer' = [answer EXCEPT ![x] = 0]
    /\ UNCHANGED <<entry, inflight, value, building, waitsFor, failed, sourceVars>>

(* Mutant of Usable: expiry is not looked at.                              *)
UsableWhilePresent(e) == e.present

Usable(e) == e.present /\ e.ttl > 0

(* get: an expired entry is dropped.                                       *)
Look(x) ==
    /\ pc[x] = "look"
    /\ LET e == entry[key[x]]
       IN  \/ /\ Usable(e)
              /\ Goto(x, "idle")
              /\ answer' = [answer EXCEPT ![x] = e.age]
              /\ UNCHANGED entry
           \/ /\ ~Usable(e)
              /\ Goto(x, "enter")
              /\ entry' = [entry EXCEPT ![key[x]] = NoEntry]
              /\ UNCHANGED answer
    /\ UNCHANGED <<inflight, key, value, building, waitsFor, failed, sourceVars>>

(* Mutant of Builds: whoever misses builds.                                *)
BuildsAlways(x) == TRUE

(* Nobody else has the key in _inflight.                                   *)
Builds(x) == inflight[key[x]] = NoThread

Enter(x) ==
    /\ pc[x] = "enter"
    /\ \/ /\ Builds(x)
          /\ Goto(x, "build")
          /\ inflight' = [inflight EXCEPT ![key[x]] = x]
          /\ UNCHANGED waitsFor
       \/ /\ ~Builds(x)
          /\ Goto(x, "wait")
          /\ waitsFor' = [waitsFor EXCEPT ![x] = inflight[key[x]]]
          /\ UNCHANGED inflight
    /\ UNCHANGED <<entry, key, value, building, failed, answer, sourceVars>>

(* factory: the statements read what is committed ...                      *)
BuildReads(x) ==
    /\ pc[x] = "build"
    /\ Goto(x, "built")
    /\ value' = [value EXCEPT ![x] = 0]
    /\ building' = [building EXCEPT ![x] = 0]
    /\ failed' = [failed EXCEPT ![x] = FALSE]
    /\ UNCHANGED <<entry, inflight, key, waitsFor, answer, sourceVars>>

(* ... and the graph is put together from it, later.                       *)
BuildEnds(x) ==
    /\ pc[x] = "built"
    /\ Goto(x, "store")
    /\ UNCHANGED <<entry, inflight, key, value, building, waitsFor, failed, answer,
                   sourceVars>>

BuildFails(x) ==
    /\ pc[x] \in {"build", "built"}
    /\ Goto(x, "pop")
    /\ failed' = [failed EXCEPT ![x] = TRUE]
    /\ UNCHANGED <<entry, inflight, key, value, building, waitsFor, answer, sourceVars>>

FreshEntry(age) == [present |-> TRUE, age |-> age, ttl |-> TTL]

(* put, whatever was cleared since the value was read.                     *)
Put(x) ==
    /\ pc[x] = "store"
    /\ Goto(x, "pop")
    /\ entry' = [entry EXCEPT ![key[x]] = FreshEntry(value[x])]
    /\ answer' = [answer EXCEPT ![x] = value[x]]
    /\ UNCHANGED <<inflight, key, value, building, waitsFor, failed, sourceVars>>

(* The finally clause: first the key, then the event.                      *)
PopInflight(x) ==
    /\ pc[x] = "pop"
    /\ Goto(x, "signal")
    /\ inflight' = [inflight EXCEPT ![key[x]] = NoThread]
    /\ UNCHANGED <<entry, key, value, building, waitsFor, failed, answer, sourceVars>>

(* Mutant of Woken: a build that failed wakes nobody.                      *)
WokenOnSuccess(x) == IF failed[x] THEN {} ELSE {y \in Threads : waitsFor[y] = x}

Woken(x) == {y \in Threads : waitsFor[y] = x}

(* The waiters of a failed build raise its error, the others look again.   *)
Signal(x) ==
    /\ pc[x] = "signal"
    /\ pc' = [y \in Threads |->
         IF y = x \/ (y \in Woken(x) /\ failed[x]) THEN "idle"
         ELSE IF y \in Woken(x) THEN "look" ELSE pc[y]]
    /\ waitsFor' = [y \in Threads |-> IF y \in Woken(x) THEN NoThread ELSE waitsFor[y]]
    /\ failed' = [failed EXCEPT ![x] = FALSE]
    /\ value' = [value EXCEPT ![x] = 0]
    /\ building' = [building EXCEPT ![x] = 0]
    /\ UNCHANGED <<entry, inflight, key, answer, sourceVars>>

-----------------------------------------------------------------------------
(***************************************************************************)
(* Changes of the topology, their notification, and the listener.          *)
(***************************************************************************)
Superseded(age) == IF age = 0 THEN 1 ELSE age

(* A transaction that called notify_topology_changed commits, in this      *)
(* process (which then clears its cache itself) or in another.             *)
Change ==
    /\ changes < MaxChanges
    /\ changes' = changes + 1
    /\ entry' = [k \in Keys |->
          IF entry[k].present THEN [entry[k] EXCEPT !.age = Superseded(@)] ELSE entry[k]]
    /\ value' = [x \in Threads |->
          IF pc[x] \in {"built", "store"} THEN Superseded(value[x]) ELSE value[x]]
    /\ \E here \in BOOLEAN :
          notified' = [local |-> notified.local \/ here,
                       remote |-> notified.remote \/ listening]
    /\ UNCHANGED <<inflight, pc, key, building, waitsFor, failed, answer, listening,
                   losses>>

(* clear, called by the listener or by the code that committed.            *)
Clear ==
    /\ entry' = [k \in Keys |-> NoEntry]
    /\ \/ notified.local /\ notified' = [notified EXCEPT !.local = FALSE]
       \/ notified.remote /\ notified' = [notified EXCEPT !.remote = FALSE]
    /\ UNCHANGED <<inflight, threadVars, listening, changes, losses>>

(* connect and LISTEN; the cache stays as it is.                           *)
Listen ==
    /\ ~listening
    /\ listening' = TRUE
    /\ UNCHANGED <<entry, inflight, threadVars, notified, changes, losses>>

(* The connection breaks; what was not delivered yet never is.             *)
Disconnect ==
    /\ listening
    /\ losses < MaxLosses
    /\ losses' = losses + 1
    /\ listening' = FALSE
    /\ notified' = [notified EXCEPT !.remote = FALSE]
    /\ UNCHANGED <<entry, inflight, threadVars, changes>>

Older(age) == IF age = 0 \/ age = Oldest THEN age ELSE age + 1

Tick ==
    /\ \A x \in Threads : pc[x] \in {"built", "store"} => building[x] < MaxBuildTicks
    /\ PromptThreads =>
         \A x \in Threads : pc[x] \in {"idle", "build", "built", "wait"}
    /\ entry' = [k \in Keys |->
          IF entry[k].present
          THEN [entry[k] EXCEPT !.age = Older(@), !.ttl = IF @ = 0 THEN 0 ELSE @ - 1]
          ELSE entry[k]]
    /\ value' = [x \in Threads |->
          IF pc[x] \in {"built", "store"} THEN Older(value[x]) ELSE value[x]]
    /\ building' = [x \in Threads |->
          IF pc[x] \in {"built", "store"} THEN building[x] + 1 ELSE building[x]]
    /\ UNCHANGED <<inflight, pc, key, waitsFor, failed, answer, sourceVars>>

Step(x) ==
    \/ Look(x) \/ Enter(x) \/ BuildReads(x) \/ BuildEnds(x) \/ Put(x)
    \/ PopInflight(x) \/ Signal(x)

Next ==
    \/ Change \/ Clear \/ Listen \/ Disconnect \/ Tick
    \/ \E x \in Threads :
          \/ Step(x) \/ BuildFails(x)
          \/ \E k \in Keys : Request(x, k)

Spec == Init /\ [][Next]_vars

(* Threads run on and builds end; nobody has to ask, change or fail.  A    *)
(* waiter that is slower than the TTL can find the entry expired again and *)
(* again, so that every request ends only with PromptThreads.              *)
FairSpec == Spec /\ \A x \in Threads : WF_vars(Step(x))

-----------------------------------------------------------------------------
EntryType == [present : BOOLEAN, age : Ages, ttl : 0..TTL]
NotifiedType == [local : BOOLEAN, remote : BOOLEAN]

(* Types of the cache, of its callers and of the listener.                 *)
TypeOK ==
    /\ entry \in [Keys -> EntryType]
    /\ inflight \in [Keys -> Threads \cup {NoThread}]
    /\ pc \in [Threads -> PCs]
    /\ key \in [Threads -> Keys]
    /\ value \in [Threads -> Ages]
    /\ building \in [Threads -> 0..MaxBuildTicks]
    /\ waitsFor \in [Threads -> Threads \cup {NoThread}]
    /\ failed \in [Threads -> BOOLEAN]
    /\ answer \in [Threads -> Ages]
    /\ listening \in BOOLEAN
    /\ notified \in NotifiedType
    /\ changes \in 0..MaxChanges
    /\ losses \in 0..MaxLosses

(* A slow topology build runs once per key, however many requests miss at  *)
(* the same time, and clears do not change that.                           *)
Building(k) == {x \in Threads : key[x] = k /\ pc[x] \in {"build", "built", "store", "pop"}}
OneBuildPerKey ==
    \A k \in Keys : /\ Cardinality(Building(k)) <= 1
                    /\ \A x \in Building(k) : inflight[k] = x

(* Whatever notifications are lost and whatever is put back after a clear, *)
(* no request gets a value superseded longer ago than a build and the TTL. *)
StalenessBounded == \A x \in Threads : answer[x] <= TTL + MaxBuildTicks

(* Every request is answered or fails: a build that fails, or a clear      *)
(* between the event and the second look, leaves nobody waiting.           *)
EveryRequestEnds ==
    \A x \in Threads : pc[x] # "idle" ~> pc[x] = "idle"

=============================================================================
