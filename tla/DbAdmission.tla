---------------------------- MODULE DbAdmission ----------------------------
(***************************************************************************)
(* What the threads of one web process wait for: the admission slots of    *)
(* PostgresTransactionRunner, the connections of the pool and the          *)
(* _enqueue_lock of the scan queue.                                        *)
(*                                                                         *)
(* Sources: app/services/database_transactions.py, app/database.py and     *)
(* app/main.py (a slot per connection), the routes of app/routes/api.py,   *)
(* app/services/scan_queue.py and app/services/import_testing.py.          *)
(*                                                                         *)
(* A handler is the sequence of the points where it takes something or     *)
(* gives it back:                                                          *)
(*    enter, leave      a slot (semaphore, waits without limit)            *)
(*    lock, unlock      _enqueue_lock (waits without limit)                *)
(*    connect           a connection, on the first statement of a session  *)
(*                      (waits pool_timeout seconds, then fails)           *)
(*    commit            the end of a transaction of run: the connection    *)
(*                      goes back, or a conflict starts another attempt    *)
(*    close             the end of another session or transaction          *)
(*    remote            waits for SSH or WinRM                             *)
(***************************************************************************)
EXTENDS Integers, Sequences, FiniteSets

CONSTANTS
    Threads,     \* threads of the process
    Mixes,       \* the handlers they execute, in each case considered
    Capacity,    \* db_pool_size + db_max_overflow
    MaxRetries   \* len(retry_delays)

Kinds == {"delete", "update", "create", "scan", "schedule", "execute",
          "import", "heartbeat", "read"}

ASSUME MixesAssumption == Mixes \subseteq [Threads -> Kinds]
ASSUME ThreadsAssumption == IsFiniteSet(Threads)
ASSUME CapacityAssumption == Capacity \in Nat \ {0} /\ MaxRetries \in Nat

VARIABLES
    kind,    \* the handler each thread executes
    pc,      \* the point it has reached
    tries    \* attempts that ended in a conflict, of the current run
vars == <<kind, pc, tries>>

-----------------------------------------------------------------------------
(***************************************************************************)
(* The handlers.                                                           *)
(***************************************************************************)

(* A call of run, and of run under _enqueue_lock with the read after it.   *)
Run == <<"enter", "connect", "commit", "leave">>
RunLocked == <<"lock">> \o Run \o <<"unlock", "connect", "close">>

(* The route takes its slot first and _enqueue_lock, in cancel_device,     *)
(* with it.                                                                *)
DeleteDevice == <<"enter", "connect", "lock", "unlock", "close", "leave">>

(* The session of the request has read the device when the test begins.    *)
UpdateDevice ==
    <<"connect", "remote", "enter", "close", "connect", "leave", "close">>

CreateDevice == <<"remote", "enter", "connect", "close", "connect", "leave", "close">>

(* enqueue_device from a route (its session has read the device) and from  *)
(* the scheduler.                                                          *)
RunScan == <<"connect">> \o RunLocked \o <<"close">>
EnqueueScheduled == RunLocked

(* Mutant of ExecuteTask: the session that loaded the target stays open.   *)
ExecuteTaskInSession ==
    <<"connect", "close", "connect", "remote", "close">> \o Run

(* The lease check, _load_target, the collection, persist_scan.            *)
ExecuteTask == <<"connect", "close", "connect", "close", "remote">> \o Run

(* An import test that completes its batch creates the scan batch.         *)
TestRow == Run \o <<"remote">> \o Run \o RunLocked

Heartbeat == Run
ReadOnly == <<"connect", "close">>

Handler ==
    [delete    |-> DeleteDevice,
     update    |-> UpdateDevice,
     create    |-> CreateDevice,
     scan      |-> RunScan,
     schedule  |-> EnqueueScheduled,
     execute   |-> ExecuteTask,
     import    |-> TestRow,
     heartbeat |-> Heartbeat,
     read      |-> ReadOnly]

-----------------------------------------------------------------------------
(* What a handler holds before its i-th point: acquired minus released.    *)
Balance(acquire, release) ==
    [k \in Kinds |-> [i \in 1..Len(Handler[k]) |->
        Cardinality({j \in 1..(i - 1) : Handler[k][j] \in acquire})
          - Cardinality({j \in 1..(i - 1) : Handler[k][j] \in release})]]
SlotsAt       == Balance({"enter"}, {"leave"})
LocksAt       == Balance({"lock"}, {"unlock"})
ConnectionsAt == Balance({"connect"}, {"commit", "close"})

Done(x)        == pc[x] > Len(Handler[kind[x]])
At(x, op)      == ~Done(x) /\ Handler[kind[x]][pc[x]] = op
HasSlot(x)     == ~Done(x) /\ SlotsAt[kind[x]][pc[x]] > 0
HasLock(x)     == ~Done(x) /\ LocksAt[kind[x]][pc[x]] > 0
Connections(x) == IF Done(x) THEN 0 ELSE ConnectionsAt[kind[x]][pc[x]]

FreeSlot == Cardinality({x \in Threads : HasSlot(x)}) < Capacity
FreeLock == \A x \in Threads : ~HasLock(x)

(* No thread holds more than two.                                          *)
FreeConnection ==
    Cardinality({x \in Threads : Connections(x) >= 1})
      + Cardinality({x \in Threads : Connections(x) >= 2}) < Capacity

Init ==
    /\ kind \in Mixes
    /\ pc = [x \in Threads |-> 1]
    /\ tries = [x \in Threads |-> 0]

Advance(x) == pc' = [pc EXCEPT ![x] = @ + 1]

Enter(x) == At(x, "enter") /\ FreeSlot /\ Advance(x) /\ UNCHANGED <<kind, tries>>
Lock(x) == At(x, "lock") /\ FreeLock /\ Advance(x) /\ UNCHANGED <<kind, tries>>
Connect(x) == At(x, "connect") /\ FreeConnection /\ Advance(x) /\ UNCHANGED <<kind, tries>>

(* Everything that waits for nobody in this process.                       *)
Proceed(x) ==
    /\ \E op \in {"leave", "unlock", "close", "remote"} : At(x, op)
    /\ Advance(x)
    /\ UNCHANGED <<kind, tries>>

Commit(x) ==
    /\ At(x, "commit")
    /\ Advance(x)
    /\ tries' = [tries EXCEPT ![x] = 0]
    /\ UNCHANGED kind

(* 40P01 or 40001: the session is closed and the slot given back before    *)
(* the next attempt, _enqueue_lock is not.                                 *)
Retry(x) ==
    /\ At(x, "commit")
    /\ tries[x] < MaxRetries
    /\ tries' = [tries EXCEPT ![x] = @ + 1]
    /\ pc' = [pc EXCEPT ![x] = @ - 2]
    /\ UNCHANGED kind

(* An exception unwinds the handler and gives everything back: the pool's  *)
(* timeout ...                                                             *)
Unwind(x) ==
    /\ pc' = [pc EXCEPT ![x] = Len(Handler[kind[x]]) + 1]
    /\ tries' = [tries EXCEPT ![x] = 0]
    /\ UNCHANGED kind

(* Mutant of PoolTimeout: the pool waits without limit.                    *)
PoolTimeoutNever(x) == FALSE

PoolTimeout(x) == At(x, "connect") /\ ~FreeConnection /\ Unwind(x)

(* ... a collector's error, a database error, a conflict that outlived the *)
(* retries.                                                                *)
Fail(x) ==
    /\ \E op \in {"connect", "commit", "close", "remote"} : At(x, op)
    /\ Unwind(x)

Step(x) ==
    \/ Enter(x) \/ Lock(x) \/ Connect(x) \/ Proceed(x) \/ Commit(x)
    \/ PoolTimeout(x)

Next == \E x \in Threads : Step(x) \/ Retry(x) \/ Fail(x)

Spec == Init /\ [][Next]_vars

(* Threads are scheduled, remote calls and transactions end, the pool's    *)
(* timeout fires; a conflict or an error need not happen.                  *)
FairSpec == Spec /\ \A x \in Threads : WF_vars(Step(x))

(* The same, but a remote call may hang for ever.                          *)
HangSpec == Spec /\ \A x \in Threads : WF_vars(Step(x) /\ ~At(x, "remote"))

-----------------------------------------------------------------------------
(* Every handler ends: no threads wait for each other for ever.            *)
EveryHandlerEnds == \A x \in Threads : <>Done(x)

(* Deletions hold all slots and wait for _enqueue_lock, while its holder   *)
(* waits for a slot.                                                       *)
DeletionsBlock ==
    /\ ~FreeSlot
    /\ \A x \in Threads : HasSlot(x) => kind[x] = "delete" /\ At(x, "lock")
    /\ \E y \in Threads : HasLock(y) /\ At(y, "enter")

(* A device that never answers keeps nobody else waiting: but for one      *)
(* deadlock, the one between deletions and an enqueue, every handler ends, *)
(* or is itself the one that waits for a device for ever.                  *)
HangingBlocksNobody ==
    \/ \A x \in Threads : <>Done(x) \/ <>[]At(x, "remote")
    \/ <>[]DeletionsBlock

(* No connection and no slot is held while a handler waits for SSH or      *)
(* WinRM.                                                                  *)
RemoteHoldsNothing ==
    \A x \in Threads : At(x, "remote") => Connections(x) = 0 /\ ~HasSlot(x)

(* What is kept at most: no slot, and no connection but the one of the     *)
(* session with which update_device has read the device.                   *)
RemoteHoldsLittle ==
    \A x \in Threads : At(x, "remote") =>
        /\ ~HasSlot(x)
        /\ Connections(x) = 0 \/ (kind[x] = "update" /\ Connections(x) = 1)

=============================================================================
