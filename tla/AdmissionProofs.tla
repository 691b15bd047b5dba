-------------------------- MODULE AdmissionProofs --------------------------
(***************************************************************************)
(* What the threads of DbAdmission hold, for any number of them, any       *)
(* handlers they execute and any capacity of the pool.                     *)
(*                                                                         *)
(* The handlers are computed point by point, and so is what each has taken *)
(* and not given back: Balance counts points, the lemmas say how it        *)
(* changes from one point to the next.  A step of a thread goes on to the  *)
(* next point, back to the start of a transaction after a conflict, or to  *)
(* the end after an error.                                                 *)
(***************************************************************************)
EXTENDS DbAdmission, FiniteSetTheorems, SequenceTheorems, TLAPS

-----------------------------------------------------------------------------
(***************************************************************************)
(* The handlers.                                                           *)
(***************************************************************************)

(* The operations at the points of a handler.                              *)
Ops == {"enter", "leave", "lock", "unlock", "connect", "commit", "close", "remote"}

(* Two pieces of a handler, one after the other.                           *)
LEMMA Joined ==
    ASSUME NEW s \in Seq(Ops), NEW t \in Seq(Ops), NEW u \in Seq(Ops),
           Len(u) = Len(s) + Len(t),
           \A i \in 1..Len(s) : u[i] = s[i],
           \A i \in 1..Len(t) : u[Len(s) + i] = t[i]
    PROVE  s \o t = u
<1>1. PICK v : v = s \o t
  OBVIOUS
<1>2. /\ v \in Seq(Ops) /\ Len(v) = Len(s) + Len(t)
      /\ \A i \in 1..Len(s) + Len(t) : v[i] = IF i <= Len(s) THEN s[i] ELSE t[i - Len(s)]
  BY <1>1, ConcatProperties
<1>3. Len(s) \in Nat /\ Len(t) \in Nat
  BY LenProperties
<1>4. ASSUME NEW i \in 1..Len(v) PROVE v[i] = u[i]
  <2>1. CASE i <= Len(s)
    BY <1>2, <1>3, <2>1
  <2>2. CASE ~(i <= Len(s))
    <3>1. PICK j \in 1..Len(t) : i = Len(s) + j
      BY <1>2, <1>3, <2>2
    <3>2. v[i] = t[j] /\ u[i] = t[j]
      BY <1>2, <1>3, <2>2, <3>1
    <3>3. QED
      BY <3>2
  <2>3. QED
    BY <2>1, <2>2
<1>5. QED
  BY <1>1, <1>2, <1>4, SeqEqual

(* The handlers point by point.                                            *)
LEMMA RunLockedPoints ==
    RunLocked = <<"lock", "enter", "connect", "commit", "leave", "unlock",
                  "connect", "close">>
<1>1. <<"lock">> \o <<"enter", "connect", "commit", "leave">>
        = <<"lock", "enter", "connect", "commit", "leave">>
  <2>1. PICK s, t, u : /\ s = <<"lock">>
                       /\ t = <<"enter", "connect", "commit", "leave">>
                       /\ u = <<"lock", "enter", "connect", "commit", "leave">>
    OBVIOUS
  <2>2. /\ s \in Seq(Ops) /\ t \in Seq(Ops) /\ u \in Seq(Ops)
        /\ Len(s) = 1 /\ Len(t) = 4 /\ Len(u) = 5
    BY <2>1 DEF Ops
  <2>3. /\ \A i \in 1..1 : u[i] = s[i]
        /\ \A i \in 1..4 : u[1 + i] = t[i]
    BY <2>1
  <2>4. /\ Len(u) = Len(s) + Len(t)
        /\ \A i \in 1..Len(s) : u[i] = s[i]
        /\ \A i \in 1..Len(t) : u[Len(s) + i] = t[i]
    BY <2>2, <2>3
  <2>5. s \o t = u
    BY <2>2, <2>4, Joined
  <2>6. QED
    BY <2>1, <2>5
<1>2. <<"lock", "enter", "connect", "commit", "leave">> \o <<"unlock", "connect", "close">>
        = <<"lock", "enter", "connect", "commit", "leave", "unlock", "connect",
            "close">>
  <2>1. PICK s, t, u : /\ s = <<"lock", "enter", "connect", "commit", "leave">>
                       /\ t = <<"unlock", "connect", "close">>
                       /\ u = <<"lock", "enter", "connect", "commit", "leave",
                                "unlock", "connect", "close">>
    OBVIOUS
  <2>2. /\ s \in Seq(Ops) /\ t \in Seq(Ops) /\ u \in Seq(Ops)
        /\ Len(s) = 5 /\ Len(t) = 3 /\ Len(u) = 8
    BY <2>1 DEF Ops
  <2>3. /\ \A i \in 1..5 : u[i] = s[i]
        /\ \A i \in 1..3 : u[5 + i] = t[i]
    BY <2>1
  <2>4. /\ Len(u) = Len(s) + Len(t)
        /\ \A i \in 1..Len(s) : u[i] = s[i]
        /\ \A i \in 1..Len(t) : u[Len(s) + i] = t[i]
    BY <2>2, <2>3
  <2>5. s \o t = u
    BY <2>2, <2>4, Joined
  <2>6. QED
    BY <2>1, <2>5
<1>3. QED
  BY <1>1, <1>2 DEF RunLocked, Run

(* A scan that a route asks for.                                           *)
LEMMA RunScanPoints ==
    RunScan = <<"connect", "lock", "enter", "connect", "commit", "leave", "unlock",
                "connect", "close", "close">>
<1>1. <<"connect">>
        \o <<"lock", "enter", "connect", "commit", "leave", "unlock", "connect", "close">>
        = <<"connect", "lock", "enter", "connect", "commit", "leave", "unlock",
            "connect", "close">>
  <2>1. PICK s, t, u : /\ s = <<"connect">>
                       /\ t = <<"lock", "enter", "connect", "commit", "leave",
                                "unlock", "connect", "close">>
                       /\ u = <<"connect", "lock", "enter", "connect", "commit",
                                "leave", "unlock", "connect", "close">>
    OBVIOUS
  <2>2. /\ s \in Seq(Ops) /\ t \in Seq(Ops) /\ u \in Seq(Ops)
        /\ Len(s) = 1 /\ Len(t) = 8 /\ Len(u) = 9
    BY <2>1 DEF Ops
  <2>3. /\ \A i \in 1..1 : u[i] = s[i]
        /\ \A i \in 1..8 : u[1 + i] = t[i]
    BY <2>1
  <2>4. /\ Len(u) = Len(s) + Len(t)
        /\ \A i \in 1..Len(s) : u[i] = s[i]
        /\ \A i \in 1..Len(t) : u[Len(s) + i] = t[i]
    BY <2>2, <2>3
  <2>5. s \o t = u
    BY <2>2, <2>4, Joined
  <2>6. QED
    BY <2>1, <2>5
<1>2. <<"connect", "lock", "enter", "connect", "commit", "leave", "unlock",
       "connect", "close">> \o <<"close">>
        = <<"connect", "lock", "enter", "connect", "commit", "leave", "unlock",
            "connect", "close", "close">>
  <2>1. PICK s, t, u : /\ s = <<"connect", "lock", "enter", "connect", "commit",
                                "leave", "unlock", "connect", "close">>
                       /\ t = <<"close">>
                       /\ u = <<"connect", "lock", "enter", "connect", "commit",
                                "leave", "unlock", "connect", "close", "close">>
    OBVIOUS
  <2>2. /\ s \in Seq(Ops) /\ t \in Seq(Ops) /\ u \in Seq(Ops)
        /\ Len(s) = 9 /\ Len(t) = 1 /\ Len(u) = 10
    BY <2>1 DEF Ops
  <2>3. /\ \A i \in 1..9 : u[i] = s[i]
        /\ \A i \in 1..1 : u[9 + i] = t[i]
    BY <2>1
  <2>4. /\ Len(u) = Len(s) + Len(t)
        /\ \A i \in 1..Len(s) : u[i] = s[i]
        /\ \A i \in 1..Len(t) : u[Len(s) + i] = t[i]
    BY <2>2, <2>3
  <2>5. s \o t = u
    BY <2>2, <2>4, Joined
  <2>6. QED
    BY <2>1, <2>5
<1>3. QED
  BY <1>1, <1>2, RunLockedPoints DEF RunScan

(* A scan that is executed.                                                *)
LEMMA ExecuteTaskPoints ==
    ExecuteTask = <<"connect", "close", "connect", "close", "remote", "enter",
                    "connect", "commit", "leave">>
<1>1. <<"connect", "close", "connect", "close", "remote">>
        \o <<"enter", "connect", "commit", "leave">>
        = <<"connect", "close", "connect", "close", "remote", "enter", "connect",
            "commit", "leave">>
  <2>1. PICK s, t, u : /\ s = <<"connect", "close", "connect", "close", "remote">>
                       /\ t = <<"enter", "connect", "commit", "leave">>
                       /\ u = <<"connect", "close", "connect", "close", "remote",
                                "enter", "connect", "commit", "leave">>
    OBVIOUS
  <2>2. /\ s \in Seq(Ops) /\ t \in Seq(Ops) /\ u \in Seq(Ops)
        /\ Len(s) = 5 /\ Len(t) = 4 /\ Len(u) = 9
    BY <2>1 DEF Ops
  <2>3. /\ \A i \in 1..5 : u[i] = s[i]
        /\ \A i \in 1..4 : u[5 + i] = t[i]
    BY <2>1
  <2>4. /\ Len(u) = Len(s) + Len(t)
        /\ \A i \in 1..Len(s) : u[i] = s[i]
        /\ \A i \in 1..Len(t) : u[Len(s) + i] = t[i]
    BY <2>2, <2>3
  <2>5. s \o t = u
    BY <2>2, <2>4, Joined
  <2>6. QED
    BY <2>1, <2>5
<1>2. QED
  BY <1>1 DEF ExecuteTask, Run

(* An import test.                                                         *)
LEMMA TestRowPoints ==
    TestRow = <<"enter", "connect", "commit", "leave", "remote", "enter",
                "connect", "commit", "leave", "lock", "enter", "connect", "commit",
                "leave", "unlock", "connect", "close">>
<1>1. <<"enter", "connect", "commit", "leave">> \o <<"remote">>
        = <<"enter", "connect", "commit", "leave", "remote">>
  <2>1. PICK s, t, u : /\ s = <<"enter", "connect", "commit", "leave">>
                       /\ t = <<"remote">>
                       /\ u = <<"enter", "connect", "commit", "leave", "remote">>
    OBVIOUS
  <2>2. /\ s \in Seq(Ops) /\ t \in Seq(Ops) /\ u \in Seq(Ops)
        /\ Len(s) = 4 /\ Len(t) = 1 /\ Len(u) = 5
    BY <2>1 DEF Ops
  <2>3. /\ \A i \in 1..4 : u[i] = s[i]
        /\ \A i \in 1..1 : u[4 + i] = t[i]
    BY <2>1
  <2>4. /\ Len(u) = Len(s) + Len(t)
        /\ \A i \in 1..Len(s) : u[i] = s[i]
        /\ \A i \in 1..Len(t) : u[Len(s) + i] = t[i]
    BY <2>2, <2>3
  <2>5. s \o t = u
    BY <2>2, <2>4, Joined
  <2>6. QED
    BY <2>1, <2>5
<1>2. <<"enter", "connect", "commit", "leave", "remote">>
        \o <<"enter", "connect", "commit", "leave">>
        = <<"enter", "connect", "commit", "leave", "remote", "enter", "connect",
            "commit", "leave">>
  <2>1. PICK s, t, u : /\ s = <<"enter", "connect", "commit", "leave", "remote">>
                       /\ t = <<"enter", "connect", "commit", "leave">>
                       /\ u = <<"enter", "connect", "commit", "leave", "remote",
                                "enter", "connect", "commit", "leave">>
    OBVIOUS
  <2>2. /\ s \in Seq(Ops) /\ t \in Seq(Ops) /\ u \in Seq(Ops)
        /\ Len(s) = 5 /\ Len(t) = 4 /\ Len(u) = 9
    BY <2>1 DEF Ops
  <2>3. /\ \A i \in 1..5 : u[i] = s[i]
        /\ \A i \in 1..4 : u[5 + i] = t[i]
    BY <2>1
  <2>4. /\ Len(u) = Len(s) + Len(t)
        /\ \A i \in 1..Len(s) : u[i] = s[i]
        /\ \A i \in 1..Len(t) : u[Len(s) + i] = t[i]
    BY <2>2, <2>3
  <2>5. s \o t = u
    BY <2>2, <2>4, Joined
  <2>6. QED
    BY <2>1, <2>5
<1>3. <<"enter", "connect", "commit", "leave", "remote", "enter", "connect",
       "commit", "leave">>
         \o <<"lock", "enter", "connect", "commit", "leave", "unlock", "connect", "close">>
        = <<"enter", "connect", "commit", "leave", "remote", "enter", "connect",
            "commit", "leave", "lock", "enter", "connect", "commit", "leave",
            "unlock", "connect", "close">>
  <2>1. PICK s, t, u : /\ s = <<"enter", "connect", "commit", "leave", "remote",
                                "enter", "connect", "commit", "leave">>
                       /\ t = <<"lock", "enter", "connect", "commit", "leave",
                                "unlock", "connect", "close">>
                       /\ u = <<"enter", "connect", "commit", "leave", "remote",
                                "enter", "connect", "commit", "leave", "lock",
                                "enter", "connect", "commit", "leave", "unlock",
                                "connect", "close">>
    OBVIOUS
  <2>2. /\ s \in Seq(Ops) /\ t \in Seq(Ops) /\ u \in Seq(Ops)
        /\ Len(s) = 9 /\ Len(t) = 8 /\ Len(u) = 17
    BY <2>1 DEF Ops
  <2>3. /\ \A i \in 1..9 : u[i] = s[i]
        /\ \A i \in 1..8 : u[9 + i] = t[i]
    BY <2>1
  <2>4. /\ Len(u) = Len(s) + Len(t)
        /\ \A i \in 1..Len(s) : u[i] = s[i]
        /\ \A i \in 1..Len(t) : u[Len(s) + i] = t[i]
    BY <2>2, <2>3
  <2>5. s \o t = u
    BY <2>2, <2>4, Joined
  <2>6. QED
    BY <2>1, <2>5
<1>4. QED
  BY <1>1, <1>2, <1>3, RunLockedPoints DEF TestRow, Run

(* Deleting a device.                                                      *)
LEMMA DeletePoints ==
    Handler["delete"] = <<"enter", "connect", "lock", "unlock", "close", "leave">>
BY DEF Handler, DeleteDevice

(* Changing a device.                                                      *)
LEMMA UpdatePoints ==
    Handler["update"] = <<"connect", "remote", "enter", "close", "connect",
                           "leave", "close">>
BY DEF Handler, UpdateDevice

(* Adding a device.                                                        *)
LEMMA CreatePoints ==
    Handler["create"] = <<"remote", "enter", "connect", "close", "connect",
                           "leave", "close">>
BY DEF Handler, CreateDevice

(* A scan that a user asks for.                                            *)
LEMMA ScanPoints ==
    Handler["scan"] = <<"connect", "lock", "enter", "connect", "commit", "leave",
                         "unlock", "connect", "close", "close">>
BY RunScanPoints DEF Handler

(* A scan that is due.                                                     *)
LEMMA SchedulePoints ==
    Handler["schedule"] = <<"lock", "enter", "connect", "commit", "leave",
                             "unlock", "connect", "close">>
BY RunLockedPoints DEF Handler, EnqueueScheduled

(* Executing a scan.                                                       *)
LEMMA ExecutePoints ==
    Handler["execute"] = <<"connect", "close", "connect", "close", "remote",
                            "enter", "connect", "commit", "leave">>
BY ExecuteTaskPoints DEF Handler

(* Testing a row of an import.                                             *)
LEMMA ImportPoints ==
    Handler["import"] = <<"enter", "connect", "commit", "leave", "remote",
                           "enter", "connect", "commit", "leave", "lock", "enter",
                           "connect", "commit", "leave", "unlock", "connect",
                           "close">>
BY TestRowPoints DEF Handler

(* Heartbeats.                                                             *)
LEMMA HeartbeatPoints ==
    Handler["heartbeat"] = <<"enter", "connect", "commit", "leave">>
BY DEF Handler, Heartbeat, Run

(* Requests that only read.                                                *)
LEMMA ReadPoints ==
    Handler["read"] = <<"connect", "close">>
BY DEF Handler, ReadOnly

(* Every handler is a sequence of points, one at least.                    *)
LEMMA HandlerTyped ==
    ASSUME NEW k \in Kinds
    PROVE  /\ Handler[k] \in Seq(Ops) /\ Len(Handler[k]) \in 2..17
           /\ \A i \in 1..Len(Handler[k]) : Handler[k][i] \in Ops
<1>1. Handler["delete"] \in Seq(Ops) /\ Len(Handler["delete"]) = 6
  BY DeletePoints DEF Ops
<1>2. Handler["update"] \in Seq(Ops) /\ Len(Handler["update"]) = 7
  BY UpdatePoints DEF Ops
<1>3. Handler["create"] \in Seq(Ops) /\ Len(Handler["create"]) = 7
  BY CreatePoints DEF Ops
<1>4. Handler["scan"] \in Seq(Ops) /\ Len(Handler["scan"]) = 10
  BY ScanPoints DEF Ops
<1>5. Handler["schedule"] \in Seq(Ops) /\ Len(Handler["schedule"]) = 8
  BY SchedulePoints DEF Ops
<1>6. Handler["execute"] \in Seq(Ops) /\ Len(Handler["execute"]) = 9
  BY ExecutePoints DEF Ops
<1>7. Handler["import"] \in Seq(Ops) /\ Len(Handler["import"]) = 17
  BY ImportPoints DEF Ops
<1>8. Handler["heartbeat"] \in Seq(Ops) /\ Len(Handler["heartbeat"]) = 4
  BY HeartbeatPoints DEF Ops
<1>9. Handler["read"] \in Seq(Ops) /\ Len(Handler["read"]) = 2
  BY ReadPoints DEF Ops
<1>10. PICK h : h = Handler[k]
  OBVIOUS
<1>11. \/ k = "delete" \/ k = "update" \/ k = "create" \/ k = "scan" \/ k = "schedule"
       \/ k = "execute" \/ k = "import" \/ k = "heartbeat" \/ k = "read"
  BY DEF Kinds
<1>12. h \in Seq(Ops)
  BY <1>1, <1>2, <1>3, <1>4, <1>5, <1>6, <1>7, <1>8, <1>9, <1>10, <1>11
<1>13. Len(h) \in 2..17
  BY <1>1, <1>2, <1>3, <1>4, <1>5, <1>6, <1>7, <1>8, <1>9, <1>10, <1>11
<1>14. \A i \in 1..Len(h) : h[i] \in Ops
  BY <1>12, ElementOfSeq
<1>15. QED
  BY <1>10, <1>12, <1>13, <1>14

(* How many of the first points of a handler are among some operations.    *)
Count(h, ops, i) == Cardinality({j \in 1..(i - 1) : h[j] \in ops})

(* None before the first point.                                            *)
LEMMA CountZero ==
    ASSUME NEW h, NEW ops
    PROVE  Count(h, ops, 1) = 0
<1>1. {j \in 1..(1 - 1) : h[j] \in ops} = {}
  OBVIOUS
<1>2. QED
  BY <1>1, FS_EmptySet DEF Count

(* From one point to the next it grows by one or not.                      *)
LEMMA CountSteps ==
    ASSUME NEW h, NEW ops, NEW i \in Nat, i > 0
    PROVE  /\ Count(h, ops, 1) = 0 /\ Count(h, ops, i) \in Nat
           /\ Count(h, ops, i + 1) = Count(h, ops, i) + (IF h[i] \in ops THEN 1 ELSE 0)
<1>1. PICK S, T : /\ S = {j \in 1..(i - 1) : h[j] \in ops}
                  /\ T = {j \in 1..((i + 1) - 1) : h[j] \in ops}
  OBVIOUS
<1>2. IsFiniteSet(1..(i - 1))
  BY FS_Interval
<1>3. S \subseteq 1..(i - 1) /\ i \notin S
  BY <1>1
<1>4. IsFiniteSet(S)
  BY <1>2, <1>3, FS_Subset
<1>5. Cardinality(S) \in Nat
  BY <1>4, FS_CardinalityType
<1>9. Count(h, ops, i) = Cardinality(S) /\ Count(h, ops, i + 1) = Cardinality(T)
  BY <1>1 DEF Count
<1>6. CASE h[i] \in ops
  <2>1. T = S \cup {i}
    BY <1>1, <1>6
  <2>2. Cardinality(T) = Cardinality(S) + 1
    BY <1>3, <1>4, <2>1, FS_AddElement
  <2>3. QED
    BY <1>5, <1>6, <1>9, <2>2, CountZero
<1>7. CASE h[i] \notin ops
  <2>1. T = S
    BY <1>1, <1>7
  <2>2. QED
    BY <1>5, <1>7, <1>9, <2>1, CountZero
<1>8. QED
  BY <1>6, <1>7


(* What the first points acquired and did not release.                     *)
Held(h, acquire, release, i) == Count(h, acquire, i) - Count(h, release, i)

(* From one point to the next, what is held changes by what the point      *)
(* acquires or releases.                                                   *)
LEMMA HeldSteps ==
    ASSUME NEW h, NEW acquire, NEW release, NEW i \in Nat, i > 0
    PROVE  /\ Held(h, acquire, release, 1) = 0 /\ Held(h, acquire, release, i) \in Int
           /\ Held(h, acquire, release, i + 1)
                = (Held(h, acquire, release, i) + (IF h[i] \in acquire THEN 1 ELSE 0))
                      - (IF h[i] \in release THEN 1 ELSE 0)
<1>1. PICK a, b : a = Count(h, acquire, i) /\ b = Count(h, acquire, i + 1)
  OBVIOUS
<1>2. PICK c, d : c = Count(h, release, i) /\ d = Count(h, release, i + 1)
  OBVIOUS
<1>3. a \in Nat /\ b = a + (IF h[i] \in acquire THEN 1 ELSE 0)
  BY <1>1, CountSteps
<1>4. c \in Nat /\ d = c + (IF h[i] \in release THEN 1 ELSE 0)
  BY <1>2, CountSteps
<1>5. Count(h, acquire, 1) = 0 /\ Count(h, release, 1) = 0
  BY CountZero
<1>6. QED
  BY <1>1, <1>2, <1>3, <1>4, <1>5 DEF Held

(* What a handler holds changes from point to point by what is taken and   *)
(* given back there.                                                       *)
Stepwise(h, B, acquire, release) ==
    /\ B[1] = 0
    /\ \A i \in 1..Len(h) : B[i] \in Int
    /\ \A i \in 1..(Len(h) - 1) :
          B[i + 1] = (B[i] + (IF h[i] \in acquire THEN 1 ELSE 0))
                           - (IF h[i] \in release THEN 1 ELSE 0)

(* So does Balance.                                                        *)
LEMMA BalanceSteps ==
    ASSUME NEW k \in Kinds, NEW acquire, NEW release
    PROVE  Stepwise(Handler[k], Balance(acquire, release)[k], acquire, release)
<1>1. PICK n \in 2..17 : n = Len(Handler[k])
  BY HandlerTyped
<1>2. PICK h, B : h = Handler[k] /\ B = Balance(acquire, release)[k]
  OBVIOUS
<1>3. \A i \in 1..n : B[i] = Held(h, acquire, release, i)
  BY <1>1, <1>2 DEF Balance, Count, Held
<1>4. \A i \in 1..n : i \in Nat /\ i > 0
  OBVIOUS
<1>5. 1 \in 1..n /\ \A i \in 1..(n - 1) : i \in 1..n /\ i + 1 \in 1..n
  OBVIOUS
<1>6. B[1] = 0
  <2>1. 1 \in Nat /\ 1 > 0
    OBVIOUS
  <2>2. Held(h, acquire, release, 1) = 0
    BY <2>1, HeldSteps
  <2>3. QED
    BY <1>3, <1>5, <2>2
<1>7. \A i \in 1..n : B[i] \in Int
  BY <1>3, <1>4, HeldSteps
<1>8. ASSUME NEW i \in 1..(n - 1)
      PROVE  B[i + 1] = (B[i] + (IF h[i] \in acquire THEN 1 ELSE 0))
                              - (IF h[i] \in release THEN 1 ELSE 0)
  <2>1. i \in Nat /\ i > 0 /\ i \in 1..n /\ i + 1 \in 1..n
    BY <1>4, <1>5
  <2>2. Held(h, acquire, release, i + 1)
          = (Held(h, acquire, release, i) + (IF h[i] \in acquire THEN 1 ELSE 0))
                - (IF h[i] \in release THEN 1 ELSE 0)
    BY <2>1, HeldSteps
  <2>3. B[i] = Held(h, acquire, release, i) /\ B[i + 1] = Held(h, acquire, release, i + 1)
    BY <1>3, <2>1
  <2>4. QED
    BY <2>2, <2>3
<1>9. QED
  BY <1>1, <1>2, <1>6, <1>7, <1>8 DEF Stepwise

(* Where a handler waits for SSH or WinRM.                                 *)
LEMMA RemotePoints ==
    ASSUME NEW k \in Kinds, NEW i \in 1..Len(Handler[k]), Handler[k][i] = "remote"
    PROVE  \/ (k = "update" /\ i = 2) \/ (k = "create" /\ i = 1)
           \/ (k = "execute" /\ i = 5) \/ (k = "import" /\ i = 5)
<1>upd. ASSUME NEW h, h = Handler["update"], NEW j \in 1..Len(h), h[j] = "remote" PROVE j = 2
  BY <1>upd, UpdatePoints
<1>1. ASSUME NEW h, h = Handler["delete"], NEW j \in 1..Len(h) PROVE h[j] # "remote"
  BY <1>1, DeletePoints
<1>2. ASSUME NEW h, h = Handler["create"], NEW j \in 1..Len(h), h[j] = "remote" PROVE j = 1
  BY <1>2, CreatePoints
<1>3. ASSUME NEW h, h = Handler["scan"], NEW j \in 1..Len(h) PROVE h[j] # "remote"
  BY <1>3, ScanPoints
<1>4. ASSUME NEW h, h = Handler["schedule"], NEW j \in 1..Len(h) PROVE h[j] # "remote"
  BY <1>4, SchedulePoints
<1>5. ASSUME NEW h, h = Handler["execute"], NEW j \in 1..Len(h), h[j] = "remote" PROVE j = 5
  BY <1>5, ExecutePoints
<1>6. ASSUME NEW h, h = Handler["import"], NEW j \in 1..Len(h), h[j] = "remote" PROVE j = 5
  <2>1. h = <<"enter", "connect", "commit", "leave", "remote", "enter", "connect", "commit",
              "leave", "lock", "enter", "connect", "commit", "leave", "unlock", "connect",
              "close">>
    BY <1>6, ImportPoints
  <2>2. Len(h) = 17
    BY <2>1
  <2>3. h[1] # "remote" /\ h[2] # "remote" /\ h[3] # "remote" /\ h[4] # "remote"
    BY <2>1
  <2>4. h[6] # "remote" /\ h[7] # "remote" /\ h[8] # "remote" /\ h[9] # "remote"
        /\ h[10] # "remote" /\ h[11] # "remote" /\ h[12] # "remote"
    BY <2>1
  <2>5. h[13] # "remote" /\ h[14] # "remote" /\ h[15] # "remote" /\ h[16] # "remote"
        /\ h[17] # "remote"
    BY <2>1
  <2>6. j \in 1..17
    BY <1>6, <2>2
  <2>7. j \in 1..5 \/ j \in 6..12 \/ j \in 13..17
    BY <2>6
  <2>8. ASSUME j \in 1..5 PROVE j = 5
    <3>1. j = 1 \/ j = 2 \/ j = 3 \/ j = 4 \/ j = 5
      BY <2>8
    <3>2. QED
      BY <1>6, <2>3, <3>1
  <2>9. j \notin 6..12
    <3>1. j \in 6..12 =>
            j = 6 \/ j = 7 \/ j = 8 \/ j = 9 \/ j = 10 \/ j = 11 \/ j = 12
      OBVIOUS
    <3>2. QED
      BY <1>6, <2>4, <3>1
  <2>10. j \notin 13..17
    <3>1. j \in 13..17 => j = 13 \/ j = 14 \/ j = 15 \/ j = 16 \/ j = 17
      OBVIOUS
    <3>2. QED
      BY <1>6, <2>5, <3>1
  <2>11. QED
    BY <2>7, <2>8, <2>9, <2>10
<1>7. ASSUME NEW h, h = Handler["heartbeat"], NEW j \in 1..Len(h) PROVE h[j] # "remote"
  BY <1>7, HeartbeatPoints
<1>8. ASSUME NEW h, h = Handler["read"], NEW j \in 1..Len(h) PROVE h[j] # "remote"
  BY <1>8, ReadPoints
<1>9. \/ k = "delete" \/ k = "create" \/ k = "scan" \/ k = "schedule"
      \/ k = "execute" \/ k = "import" \/ k = "heartbeat" \/ k = "read" \/ k = "update"
  BY DEF Kinds
<1>10. QED
  BY <1>upd, <1>1, <1>2, <1>3, <1>4, <1>5, <1>6, <1>7, <1>8, <1>9

(* There, what it has taken it has given back, but for the connection with *)
(* which update_device has read the device.                                *)
LEMMA RemoteHeld ==
    ASSUME NEW k \in Kinds, NEW i \in 1..Len(Handler[k]), Handler[k][i] = "remote"
    PROVE  SlotsAt[k][i] = 0 /\ ConnectionsAt[k][i] = IF k = "update" THEN 1 ELSE 0
<1>1. ASSUME NEW a, NEW r PROVE Balance(a, r)["create"][1] = 0
  <2>1. Stepwise(Handler["create"], Balance(a, r)["create"], a, r)
    BY BalanceSteps DEF Kinds
  <2>2. QED
    BY <2>1 DEF Stepwise
<1>2. ASSUME NEW h, Len(h) \in 5..17, NEW B, NEW a, NEW r, Stepwise(h, B, a, r)
      PROVE  /\ B[1] = 0
             /\ B[2] = (B[1] + (IF h[1] \in a THEN 1 ELSE 0)) - (IF h[1] \in r THEN 1 ELSE 0)
             /\ B[3] = (B[2] + (IF h[2] \in a THEN 1 ELSE 0)) - (IF h[2] \in r THEN 1 ELSE 0)
             /\ B[4] = (B[3] + (IF h[3] \in a THEN 1 ELSE 0)) - (IF h[3] \in r THEN 1 ELSE 0)
             /\ B[5] = (B[4] + (IF h[4] \in a THEN 1 ELSE 0)) - (IF h[4] \in r THEN 1 ELSE 0)
  <2>1. PICK n \in 5..17 : n = Len(h)
    BY <1>2
  <2>2. 1 \in 1..(n - 1) /\ 2 \in 1..(n - 1) /\ 3 \in 1..(n - 1) /\ 4 \in 1..(n - 1)
    OBVIOUS
  <2>3. 1 + 1 = 2 /\ 2 + 1 = 3 /\ 3 + 1 = 4 /\ 4 + 1 = 5
    OBVIOUS
  <2>4. /\ B[1] = 0
        /\ \A j \in 1..(n - 1) :
              B[j + 1] = (B[j] + (IF h[j] \in a THEN 1 ELSE 0)) - (IF h[j] \in r THEN 1 ELSE 0)
    BY <1>2, <2>1 DEF Stepwise
  <2>5. QED
    BY <2>2, <2>3, <2>4
<1>3. ASSUME NEW h, NEW S, NEW C, h = Handler["execute"],
             Stepwise(h, S, {"enter"}, {"leave"}),
             Stepwise(h, C, {"connect"}, {"commit", "close"})
      PROVE  S[5] = 0 /\ C[5] = 0
  <2>1. /\ Len(h) \in 5..17
        /\ h[1] = "connect" /\ h[2] = "close" /\ h[3] = "connect" /\ h[4] = "close"
    BY <1>3, ExecutePoints
  <2>2. /\ S[1] = 0 /\ S[2] = S[1] /\ S[3] = S[2] /\ S[4] = S[3] /\ S[5] = S[4]
    BY <1>2, <1>3, <2>1
  <2>3. /\ C[1] = 0 /\ C[2] = 1 /\ C[3] = 0 /\ C[4] = 1 /\ C[5] = 0
    BY <1>2, <1>3, <2>1
  <2>4. QED
    BY <2>2, <2>3
<1>4. ASSUME NEW h, NEW S, NEW C, h = Handler["import"],
             Stepwise(h, S, {"enter"}, {"leave"}),
             Stepwise(h, C, {"connect"}, {"commit", "close"})
      PROVE  S[5] = 0 /\ C[5] = 0
  <2>1. /\ Len(h) \in 5..17
        /\ h[1] = "enter" /\ h[2] = "connect" /\ h[3] = "commit" /\ h[4] = "leave"
    BY <1>4, ImportPoints
  <2>2. /\ S[1] = 0 /\ S[2] = 1 /\ S[3] = 1 /\ S[4] = 1 /\ S[5] = 0
    BY <1>2, <1>4, <2>1
  <2>3. /\ C[1] = 0 /\ C[2] = 0 /\ C[3] = 1 /\ C[4] = 0 /\ C[5] = 0
    BY <1>2, <1>4, <2>1
  <2>4. QED
    BY <2>2, <2>3
<1>upd. ASSUME NEW h, NEW S, NEW C, h = Handler["update"],
             Stepwise(h, S, {"enter"}, {"leave"}),
             Stepwise(h, C, {"connect"}, {"commit", "close"})
      PROVE  S[2] = 0 /\ C[2] = 1
  <2>1. Len(h) \in 5..17 /\ h[1] = "connect"
    BY <1>upd, UpdatePoints
  <2>2. S[1] = 0 /\ S[2] = S[1]
    BY <1>2, <1>upd, <2>1
  <2>3. C[1] = 0 /\ C[2] = 1
    BY <1>2, <1>upd, <2>1
  <2>4. QED
    BY <2>2, <2>3
<1>5. PICK h, S, C : h = Handler[k] /\ S = SlotsAt[k] /\ C = ConnectionsAt[k]
  OBVIOUS
<1>6. /\ Stepwise(h, S, {"enter"}, {"leave"})
      /\ Stepwise(h, C, {"connect"}, {"commit", "close"})
  BY <1>5, BalanceSteps DEF SlotsAt, ConnectionsAt
<1>7. CASE k = "create" /\ i = 1
  BY <1>1, <1>7 DEF SlotsAt, ConnectionsAt
<1>8. CASE k = "execute" /\ i = 5
  BY <1>3, <1>5, <1>6, <1>8
<1>9. CASE k = "import" /\ i = 5
  BY <1>4, <1>5, <1>6, <1>9
<1>10. CASE k = "update" /\ i = 2
  BY <1>upd, <1>5, <1>6, <1>10
<1>11. QED
  BY <1>7, <1>8, <1>9, <1>10, RemotePoints

(* A conflict comes at the end of a transaction, two points after its      *)
(* slot was taken and one after its connection was.                        *)
LEMMA CommitPoints ==
    ASSUME NEW k \in Kinds, NEW i \in 1..Len(Handler[k]), Handler[k][i] = "commit"
    PROVE  /\ i - 2 \in 1..Len(Handler[k]) /\ i - 1 \in 1..Len(Handler[k])
           /\ Handler[k][i - 2] = "enter" /\ Handler[k][i - 1] = "connect"
<1> DEFINE Ok(h) == \A j \in 1..Len(h) : h[j] = "commit" =>
                      /\ j - 2 \in 1..Len(h) /\ j - 1 \in 1..Len(h)
                      /\ h[j - 2] = "enter" /\ h[j - 1] = "connect"
<1>1. ASSUME NEW h, h = Handler["delete"] PROVE Ok(h)
  BY <1>1, DeletePoints
<1>2. ASSUME NEW h, h = Handler["update"] PROVE Ok(h)
  BY <1>2, UpdatePoints
<1>3. ASSUME NEW h, h = Handler["create"] PROVE Ok(h)
  BY <1>3, CreatePoints
<1>4. ASSUME NEW h, h = Handler["scan"] PROVE Ok(h)
  BY <1>4, ScanPoints
<1>5. ASSUME NEW h, h = Handler["schedule"] PROVE Ok(h)
  BY <1>5, SchedulePoints
<1>6. ASSUME NEW h, h = Handler["execute"] PROVE Ok(h)
  BY <1>6, ExecutePoints
<1>7. ASSUME NEW h, h = Handler["import"] PROVE Ok(h)
  <2>1. h = <<"enter", "connect", "commit", "leave", "remote", "enter", "connect", "commit",
              "leave", "lock", "enter", "connect", "commit", "leave", "unlock", "connect",
              "close">>
    BY <1>7, ImportPoints
  <2>2. Len(h) = 17
    BY <2>1
  <2>3. SUFFICES ASSUME NEW j \in 1..17, h[j] = "commit"
                 PROVE  /\ j - 2 \in 1..17 /\ j - 1 \in 1..17
                        /\ h[j - 2] = "enter" /\ h[j - 1] = "connect"
    BY <2>2
  <2>4. /\ h[1] = "enter" /\ h[2] = "connect" /\ h[3] = "commit" /\ h[4] = "leave"
        /\ h[5] = "remote" /\ h[6] = "enter" /\ h[7] = "connect" /\ h[8] = "commit"
        /\ h[9] = "leave" /\ h[10] = "lock" /\ h[11] = "enter" /\ h[12] = "connect"
        /\ h[13] = "commit" /\ h[14] = "leave" /\ h[15] = "unlock" /\ h[16] = "connect"
        /\ h[17] = "close"
    BY <2>1
  <2>5. j = 3 \/ j = 8 \/ j = 13
    <3>1. \/ j = 1 \/ j = 2 \/ j = 3 \/ j = 4 \/ j = 5 \/ j = 6 \/ j = 7 \/ j = 8 \/ j = 9
          \/ j = 10 \/ j = 11 \/ j = 12 \/ j = 13 \/ j = 14 \/ j = 15 \/ j = 16 \/ j = 17
      OBVIOUS
    <3>2. QED
      BY <2>3, <2>4, <3>1
  <2>6. QED
    BY <2>4, <2>5
<1>8. ASSUME NEW h, h = Handler["heartbeat"] PROVE Ok(h)
  BY <1>8, HeartbeatPoints
<1>9. ASSUME NEW h, h = Handler["read"] PROVE Ok(h)
  BY <1>9, ReadPoints
<1>10. \/ k = "delete" \/ k = "update" \/ k = "create" \/ k = "scan" \/ k = "schedule"
       \/ k = "execute" \/ k = "import" \/ k = "heartbeat" \/ k = "read"
  BY DEF Kinds
<1> HIDE DEF Ok
<1>11. Ok(Handler[k])
  BY <1>1, <1>2, <1>3, <1>4, <1>5, <1>6, <1>7, <1>8, <1>9, <1>10
<1>12. QED
  BY <1>11 DEF Ok

-----------------------------------------------------------------------------
(***************************************************************************)
(* The threads.                                                            *)
(***************************************************************************)
(* Every thread executes a handler of the mix and is at one of its points, *)
(* or past the last.                                                       *)
AdmissionTyped ==
    /\ kind \in Mixes /\ pc \in [Threads -> Nat]
    /\ \A x \in Threads : pc[x] \in 1..(Len(Handler[kind[x]]) + 1)

(* A thread executes a known handler.                                      *)
LEMMA ThreadTyped ==
    ASSUME AdmissionTyped, NEW x \in Threads
    PROVE  /\ kind[x] \in Kinds /\ Len(Handler[kind[x]]) \in 2..17
           /\ pc[x] \in 1..(Len(Handler[kind[x]]) + 1)
           /\ ~Done(x) => pc[x] \in 1..Len(Handler[kind[x]])
<1>1. kind[x] \in Kinds
  BY MixesAssumption DEF AdmissionTyped
<1>2. PICK n \in 2..17 : n = Len(Handler[kind[x]])
  BY <1>1, HandlerTyped
<1>3. PICK i : i = pc[x]
  OBVIOUS
<1>4. i \in 1..(n + 1)
  BY <1>2, <1>3 DEF AdmissionTyped
<1>5. Done(x) <=> i > n
  BY <1>2, <1>3 DEF Done
<1>6. ~(i > n) => i \in 1..n
  BY <1>4
<1>7. QED
  BY <1>1, <1>2, <1>3, <1>4, <1>5, <1>6

(* A step of a thread: on to the next point, with what it waits for there, *)
(* or back to the start of a transaction, or to its end.                   *)
Advances(x, j) ==
    /\ ~Done(x) /\ j = pc[x] + 1
    /\ Handler[kind[x]][pc[x]] = "enter" => FreeSlot
    /\ Handler[kind[x]][pc[x]] = "lock" => FreeLock
    /\ Handler[kind[x]][pc[x]] = "connect" => FreeConnection

Retries(x, j) == ~Done(x) /\ Handler[kind[x]][pc[x]] = "commit" /\ j = pc[x] - 2

Unwinds(x, j) == j = Len(Handler[kind[x]]) + 1

(* Every action of a thread is such a step.                                *)
LEMMA Moves ==
    ASSUME NEW x \in Threads, Step(x) \/ Retry(x) \/ Fail(x)
    PROVE  /\ kind' = kind
           /\ \E j : /\ pc' = [pc EXCEPT ![x] = j]
                     /\ Advances(x, j) \/ Retries(x, j) \/ Unwinds(x, j)
<1>1. CASE Enter(x)
  BY <1>1 DEF Enter, At, Advance, Advances
<1>2. CASE Lock(x)
  BY <1>2 DEF Lock, At, Advance, Advances
<1>3. CASE Connect(x)
  BY <1>3 DEF Connect, At, Advance, Advances
<1>4. CASE Proceed(x)
  BY <1>4 DEF Proceed, At, Advance, Advances
<1>5. CASE Commit(x)
  BY <1>5 DEF Commit, At, Advance, Advances
<1>6. CASE Retry(x)
  BY <1>6 DEF Retry, At, Retries
<1>7. CASE PoolTimeout(x) \/ Fail(x)
  BY <1>7 DEF PoolTimeout, Fail, Unwind, Unwinds
<1>8. QED
  BY <1>1, <1>2, <1>3, <1>4, <1>5, <1>6, <1>7 DEF Step

(* A thread is always at a point of its handler, or past its end.          *)
LEMMA AdmissionStep ==
    ASSUME AdmissionTyped, [Next]_vars
    PROVE  AdmissionTyped'
<1>1. CASE UNCHANGED vars
  BY <1>1 DEF vars, AdmissionTyped
<1>2. ASSUME NEW x \in Threads, Step(x) \/ Retry(x) \/ Fail(x)
      PROVE  AdmissionTyped'
  <2>1. kind' = kind
    BY <1>2, Moves
  <2>2. PICK j : /\ pc' = [pc EXCEPT ![x] = j]
                 /\ Advances(x, j) \/ Retries(x, j) \/ Unwinds(x, j)
    BY <1>2, Moves
  <2>3. PICK n \in 2..17 : n = Len(Handler[kind[x]])
    BY ThreadTyped
  <2>4. PICK i \in 1..(n + 1) : i = pc[x]
    BY <2>3, ThreadTyped
  <2>5. CASE Advances(x, j)
    <3>1. i \in 1..n /\ j = i + 1
      BY <2>3, <2>4, <2>5, ThreadTyped DEF Advances
    <3>2. j \in 1..(n + 1) /\ j \in Nat
      BY <3>1
    <3>3. QED
      BY <2>1, <2>2, <2>3, <3>2 DEF AdmissionTyped
  <2>6. CASE Retries(x, j)
    <3>1. i \in 1..n /\ j = i - 2 /\ kind[x] \in Kinds
      BY <2>3, <2>4, <2>6, ThreadTyped DEF Retries
    <3>2. i - 2 \in 1..n
      BY <2>3, <2>4, <2>6, <3>1, CommitPoints DEF Retries
    <3>3. j \in 1..(n + 1) /\ j \in Nat
      BY <3>1, <3>2
    <3>4. QED
      BY <2>1, <2>2, <2>3, <3>3 DEF AdmissionTyped
  <2>7. CASE Unwinds(x, j)
    <3>1. j \in 1..(n + 1) /\ j \in Nat
      BY <2>3, <2>7 DEF Unwinds
    <3>2. QED
      BY <2>1, <2>2, <2>3, <3>1 DEF AdmissionTyped
  <2>8. QED
    BY <2>2, <2>5, <2>6, <2>7
<1>3. QED
  BY <1>1, <1>2 DEF Next

(* At first each is at the first point.                                    *)
LEMMA AdmissionStart ==
    ASSUME Init
    PROVE  AdmissionTyped
<1>1. kind \in Mixes /\ pc \in [Threads -> Nat] /\ \A x \in Threads : pc[x] = 1
  BY DEF Init
<1>2. ASSUME NEW x \in Threads PROVE pc[x] \in 1..(Len(Handler[kind[x]]) + 1)
  <2>1. kind[x] \in Kinds
    BY <1>1, MixesAssumption
  <2>2. PICK n \in 2..17 : n = Len(Handler[kind[x]])
    BY <2>1, HandlerTyped
  <2>3. 1 \in 1..(n + 1)
    OBVIOUS
  <2>4. QED
    BY <1>1, <2>2, <2>3
<1>3. QED
  BY <1>1, <1>2 DEF AdmissionTyped

(* So it stays.                                                            *)
LEMMA AdmissionInvariant == Spec => []AdmissionTyped
BY AdmissionStart, AdmissionStep, PTL DEF Spec

(* While it waits for SSH or WinRM a thread holds no slot, and no          *)
(* connection unless it executes update_device, which keeps one: however   *)
(* many threads execute whichever handlers, conflicts and failures         *)
(* included.                                                               *)
THEOREM RemoteHoldsLittleHolds == Spec => []RemoteHoldsLittle
<1>1. AdmissionTyped => RemoteHoldsLittle
  <2> SUFFICES ASSUME AdmissionTyped, NEW x \in Threads, At(x, "remote")
               PROVE  /\ ~HasSlot(x)
                      /\ Connections(x) = 0 \/ (kind[x] = "update" /\ Connections(x) = 1)
    BY DEF RemoteHoldsLittle
  <2>1. /\ kind[x] \in Kinds /\ ~Done(x) /\ pc[x] \in 1..Len(Handler[kind[x]])
        /\ Handler[kind[x]][pc[x]] = "remote"
    BY ThreadTyped DEF At
  <2>2. /\ SlotsAt[kind[x]][pc[x]] = 0
        /\ ConnectionsAt[kind[x]][pc[x]] = IF kind[x] = "update" THEN 1 ELSE 0
    BY <2>1, RemoteHeld
  <2>3. QED
    BY <2>1, <2>2 DEF Connections, HasSlot
<1>2. QED
  BY <1>1, AdmissionInvariant, PTL

-----------------------------------------------------------------------------
(***************************************************************************)
(* The limits.                                                             *)
(***************************************************************************)

(* What a thread holds at a point of its handler, and past its end.        *)
Amount(acquire, release, k, i) ==
    IF i > Len(Handler[k]) THEN 0 ELSE Balance(acquire, release)[k][i]

(* A thread holds no more than before after a step, but for one more of    *)
(* what that step takes.                                                   *)
LEMMA AmountMoves ==
    ASSUME AdmissionTyped, NEW x \in Threads, NEW j, NEW acquire, NEW release,
           "enter" \notin release, "connect" \notin release,
           Advances(x, j) \/ Retries(x, j) \/ Unwinds(x, j),
           NEW before, before = Amount(acquire, release, kind[x], pc[x]),
           NEW after, after = Amount(acquire, release, kind[x], j)
    PROVE  /\ before \in Int /\ after \in Int
           /\ \/ after <= 0
              \/ after <= before
              \/ after <= before + 1 /\ Advances(x, j) /\ Handler[kind[x]][pc[x]] \in acquire
<1>1. PICK k \in Kinds : k = kind[x]
  BY ThreadTyped
<1>2. PICK n \in 2..17 : n = Len(Handler[k])
  BY <1>1, HandlerTyped
<1>3. PICK i \in 1..(n + 1) : i = pc[x]
  BY <1>1, <1>2, ThreadTyped
<1>4. PICK h, B : h = Handler[k] /\ B = Balance(acquire, release)[k]
  OBVIOUS
<1>5. /\ \A m \in 1..n : B[m] \in Int
      /\ \A m \in 1..(n - 1) :
            B[m + 1] = (B[m] + (IF h[m] \in acquire THEN 1 ELSE 0))
                             - (IF h[m] \in release THEN 1 ELSE 0)
  BY <1>2, <1>4, BalanceSteps DEF Stepwise
<1>6. before = IF i > n THEN 0 ELSE B[i]
  BY <1>1, <1>2, <1>3, <1>4 DEF Amount
<1>7. after = IF j > n THEN 0 ELSE B[j]
  BY <1>1, <1>2, <1>4 DEF Amount
<1>8. i <= n => i \in 1..n
  OBVIOUS
<1>9. before \in Int
  BY <1>5, <1>6, <1>8
<1>10. Done(x) <=> i > n
  BY <1>1, <1>2, <1>3 DEF Done
<1>11. CASE Advances(x, j)
  <2>1. i \in 1..n /\ j = i + 1
    BY <1>3, <1>10, <1>11 DEF Advances
  <2>2. CASE i = n
    <3>1. j > n
      BY <2>1, <2>2
    <3>2. after = 0
      BY <1>7, <3>1
    <3>3. QED
      BY <1>9, <3>2
  <2>3. CASE i # n
    <3>1. i \in 1..(n - 1) /\ ~(j > n) /\ ~(i > n) /\ j \in 1..n
      BY <2>1, <2>3
    <3>2. before = B[i] /\ after = B[i + 1] /\ after \in Int
      BY <1>5, <1>6, <1>7, <2>1, <3>1
    <3>3. B[i + 1] = (B[i] + (IF h[i] \in acquire THEN 1 ELSE 0))
                           - (IF h[i] \in release THEN 1 ELSE 0)
      BY <1>5, <3>1
    <3>4. after <= before \/ (after <= before + 1 /\ h[i] \in acquire)
      BY <1>9, <3>2, <3>3
    <3>5. QED
      BY <1>1, <1>3, <1>4, <1>9, <1>11, <3>2, <3>4
  <2>4. QED
    BY <2>2, <2>3
<1>12. CASE Retries(x, j)
  <2>1. i \in 1..n /\ j = i - 2 /\ h[i] = "commit"
    BY <1>1, <1>3, <1>4, <1>10, <1>12 DEF Retries
  <2>2. /\ i - 2 \in 1..n /\ i - 1 \in 1..n
        /\ h[i - 2] = "enter" /\ h[i - 1] = "connect"
    BY <1>2, <1>4, <2>1, CommitPoints
  <2>3. i - 2 \in 1..(n - 1) /\ i - 1 \in 1..(n - 1) /\ (i - 2) + 1 = i - 1 /\ (i - 1) + 1 = i
    BY <2>1, <2>2
  <2>4. /\ B[i - 1] = (B[i - 2] + (IF h[i - 2] \in acquire THEN 1 ELSE 0)) - 0
        /\ B[i] = (B[i - 1] + (IF h[i - 1] \in acquire THEN 1 ELSE 0)) - 0
    BY <1>5, <2>2, <2>3
  <2>5. B[i - 2] \in Int /\ B[i - 1] \in Int /\ B[i] \in Int
    BY <1>5, <2>1, <2>2
  <2>6. B[i - 2] <= B[i]
    BY <2>4, <2>5
  <2>7. ~(j > n) /\ ~(i > n)
    BY <2>1, <2>2
  <2>8. after = B[i - 2] /\ before = B[i]
    BY <1>6, <1>7, <2>1, <2>7
  <2>9. QED
    BY <2>5, <2>6, <2>8
<1>13. CASE Unwinds(x, j)
  <2>1. j = n + 1
    BY <1>1, <1>2, <1>13 DEF Unwinds
  <2>2. after = 0
    BY <1>7, <2>1
  <2>3. QED
    BY <1>9, <2>2
<1>14. QED
  BY <1>11, <1>12, <1>13

(* What a point of a handler does to the connections it holds.             *)
Change(op) == IF op = "connect" THEN 1 ELSE IF op \in {"commit", "close"} THEN -1 ELSE 0

(* Only these three points do.                                             *)
LEMMA Changes ==
    /\ Change("connect") = 1 /\ Change("commit") = -1 /\ Change("close") = -1
    /\ Change("enter") = 0 /\ Change("leave") = 0 /\ Change("lock") = 0
    /\ Change("unlock") = 0 /\ Change("remote") = 0
BY DEF Change

(* The connections a handler holds, from point to point.                   *)
LEMMA ConnectionSteps ==
    ASSUME NEW h, NEW C, NEW n \in 2..17, Len(h) = n,
           Stepwise(h, C, {"connect"}, {"commit", "close"})
    PROVE  C[1] = 0 /\ \A m \in 1..(n - 1) : C[m + 1] = C[m] + Change(h[m])
<1>1. /\ C[1] = 0 /\ \A m \in 1..n : C[m] \in Int
      /\ \A m \in 1..(n - 1) :
            C[m + 1] = (C[m] + (IF h[m] \in {"connect"} THEN 1 ELSE 0))
                             - (IF h[m] \in {"commit", "close"} THEN 1 ELSE 0)
  BY DEF Stepwise
<1>2. \A m \in 1..(n - 1) : m \in 1..n
  OBVIOUS
<1>3. QED
  BY <1>1, <1>2 DEF Change

(* No handler ever holds more than two connections: that of its request's  *)
(* session and that of one transaction.                                    *)
LEMMA ConnectionsBounded ==
    \A k \in Kinds : \A i \in 1..Len(Handler[k]) : ConnectionsAt[k][i] \in 0..2
<1>1. ASSUME NEW h, h = Handler["delete"],
             NEW C, Stepwise(h, C, {"connect"}, {"commit", "close"})
      PROVE  \A j \in 1..Len(h) : C[j] \in 0..2
  <2>1. Stepwise(h, C, {"connect"}, {"commit", "close"})
    BY <1>1
  <2>2. /\ h[1] = "enter" /\ h[2] = "connect" /\ h[3] = "lock" /\ h[4] = "unlock"
        /\ h[5] = "close" /\ h[6] = "leave"
    BY <1>1, DeletePoints
  <2>3. Len(h) = 6
    BY <1>1, DeletePoints
  <2>4. C[1] = 0 /\ \A m \in 1..(6 - 1) : C[m + 1] = C[m] + Change(h[m])
    BY <2>1, <2>3, ConnectionSteps
  <2>5. /\ C[1 + 1] = C[1] + Change(h[1]) /\ C[2 + 1] = C[2] + Change(h[2])
        /\ C[3 + 1] = C[3] + Change(h[3]) /\ C[4 + 1] = C[4] + Change(h[4])
        /\ C[5 + 1] = C[5] + Change(h[5])
    BY <2>4
  <2>6. /\ C[1] = 0 /\ C[2] = 0 /\ C[3] = 1 /\ C[4] = 1 /\ C[5] = 1 /\ C[6] = 0
    BY <2>2, <2>4, <2>5, Changes
  <2>7. ASSUME NEW j \in 1..6 PROVE C[j] \in 0..2
    <3>1. \/ j = 1 \/ j = 2 \/ j = 3 \/ j = 4 \/ j = 5 \/ j = 6
      OBVIOUS
    <3>2. QED
      BY <2>6, <3>1
  <2>8. QED
    BY <2>3, <2>7
<1>2. ASSUME NEW h, h = Handler["update"],
             NEW C, Stepwise(h, C, {"connect"}, {"commit", "close"})
      PROVE  \A j \in 1..Len(h) : C[j] \in 0..2
  <2>1. Stepwise(h, C, {"connect"}, {"commit", "close"})
    BY <1>2
  <2>2. /\ h[1] = "connect" /\ h[2] = "remote" /\ h[3] = "enter" /\ h[4] = "close"
        /\ h[5] = "connect" /\ h[6] = "leave" /\ h[7] = "close"
    BY <1>2, UpdatePoints
  <2>3. Len(h) = 7
    BY <1>2, UpdatePoints
  <2>4. C[1] = 0 /\ \A m \in 1..(7 - 1) : C[m + 1] = C[m] + Change(h[m])
    BY <2>1, <2>3, ConnectionSteps
  <2>5. /\ C[1 + 1] = C[1] + Change(h[1]) /\ C[2 + 1] = C[2] + Change(h[2])
        /\ C[3 + 1] = C[3] + Change(h[3]) /\ C[4 + 1] = C[4] + Change(h[4])
        /\ C[5 + 1] = C[5] + Change(h[5]) /\ C[6 + 1] = C[6] + Change(h[6])
    BY <2>4
  <2>6. /\ C[1] = 0 /\ C[2] = 1 /\ C[3] = 1 /\ C[4] = 1 /\ C[5] = 0 /\ C[6] = 1
        /\ C[7] = 1
    BY <2>2, <2>4, <2>5, Changes
  <2>7. ASSUME NEW j \in 1..7 PROVE C[j] \in 0..2
    <3>1. \/ j = 1 \/ j = 2 \/ j = 3 \/ j = 4 \/ j = 5 \/ j = 6 \/ j = 7
      OBVIOUS
    <3>2. QED
      BY <2>6, <3>1
  <2>8. QED
    BY <2>3, <2>7
<1>3. ASSUME NEW h, h = Handler["create"],
             NEW C, Stepwise(h, C, {"connect"}, {"commit", "close"})
      PROVE  \A j \in 1..Len(h) : C[j] \in 0..2
  <2>1. Stepwise(h, C, {"connect"}, {"commit", "close"})
    BY <1>3
  <2>2. /\ h[1] = "remote" /\ h[2] = "enter" /\ h[3] = "connect" /\ h[4] = "close"
        /\ h[5] = "connect" /\ h[6] = "leave" /\ h[7] = "close"
    BY <1>3, CreatePoints
  <2>3. Len(h) = 7
    BY <1>3, CreatePoints
  <2>4. C[1] = 0 /\ \A m \in 1..(7 - 1) : C[m + 1] = C[m] + Change(h[m])
    BY <2>1, <2>3, ConnectionSteps
  <2>5. /\ C[1 + 1] = C[1] + Change(h[1]) /\ C[2 + 1] = C[2] + Change(h[2])
        /\ C[3 + 1] = C[3] + Change(h[3]) /\ C[4 + 1] = C[4] + Change(h[4])
        /\ C[5 + 1] = C[5] + Change(h[5]) /\ C[6 + 1] = C[6] + Change(h[6])
    BY <2>4
  <2>6. /\ C[1] = 0 /\ C[2] = 0 /\ C[3] = 0 /\ C[4] = 1 /\ C[5] = 0 /\ C[6] = 1
        /\ C[7] = 1
    BY <2>2, <2>4, <2>5, Changes
  <2>7. ASSUME NEW j \in 1..7 PROVE C[j] \in 0..2
    <3>1. \/ j = 1 \/ j = 2 \/ j = 3 \/ j = 4 \/ j = 5 \/ j = 6 \/ j = 7
      OBVIOUS
    <3>2. QED
      BY <2>6, <3>1
  <2>8. QED
    BY <2>3, <2>7
<1>4. ASSUME NEW h, h = Handler["scan"],
             NEW C, Stepwise(h, C, {"connect"}, {"commit", "close"})
      PROVE  \A j \in 1..Len(h) : C[j] \in 0..2
  <2>1. Stepwise(h, C, {"connect"}, {"commit", "close"})
    BY <1>4
  <2>2. /\ h[1] = "connect" /\ h[2] = "lock" /\ h[3] = "enter" /\ h[4] = "connect"
        /\ h[5] = "commit" /\ h[6] = "leave" /\ h[7] = "unlock" /\ h[8] = "connect"
        /\ h[9] = "close" /\ h[10] = "close"
    BY <1>4, ScanPoints
  <2>3. Len(h) = 10
    BY <1>4, ScanPoints
  <2>4. C[1] = 0 /\ \A m \in 1..(10 - 1) : C[m + 1] = C[m] + Change(h[m])
    BY <2>1, <2>3, ConnectionSteps
  <2>5. /\ C[1 + 1] = C[1] + Change(h[1]) /\ C[2 + 1] = C[2] + Change(h[2])
        /\ C[3 + 1] = C[3] + Change(h[3]) /\ C[4 + 1] = C[4] + Change(h[4])
        /\ C[5 + 1] = C[5] + Change(h[5]) /\ C[6 + 1] = C[6] + Change(h[6])
        /\ C[7 + 1] = C[7] + Change(h[7]) /\ C[8 + 1] = C[8] + Change(h[8])
        /\ C[9 + 1] = C[9] + Change(h[9])
    BY <2>4
  <2>6. /\ C[1] = 0 /\ C[2] = 1 /\ C[3] = 1 /\ C[4] = 1 /\ C[5] = 2 /\ C[6] = 1
        /\ C[7] = 1 /\ C[8] = 1 /\ C[9] = 2 /\ C[10] = 1
    BY <2>2, <2>4, <2>5, Changes
  <2>7. ASSUME NEW j \in 1..10 PROVE C[j] \in 0..2
    <3>1. \/ j = 1 \/ j = 2 \/ j = 3 \/ j = 4 \/ j = 5 \/ j = 6 \/ j = 7 \/ j = 8 \/ j = 9
          \/ j = 10
      OBVIOUS
    <3>2. QED
      BY <2>6, <3>1
  <2>8. QED
    BY <2>3, <2>7
<1>5. ASSUME NEW h, h = Handler["schedule"],
             NEW C, Stepwise(h, C, {"connect"}, {"commit", "close"})
      PROVE  \A j \in 1..Len(h) : C[j] \in 0..2
  <2>1. Stepwise(h, C, {"connect"}, {"commit", "close"})
    BY <1>5
  <2>2. /\ h[1] = "lock" /\ h[2] = "enter" /\ h[3] = "connect" /\ h[4] = "commit"
        /\ h[5] = "leave" /\ h[6] = "unlock" /\ h[7] = "connect" /\ h[8] = "close"
    BY <1>5, SchedulePoints
  <2>3. Len(h) = 8
    BY <1>5, SchedulePoints
  <2>4. C[1] = 0 /\ \A m \in 1..(8 - 1) : C[m + 1] = C[m] + Change(h[m])
    BY <2>1, <2>3, ConnectionSteps
  <2>5. /\ C[1 + 1] = C[1] + Change(h[1]) /\ C[2 + 1] = C[2] + Change(h[2])
        /\ C[3 + 1] = C[3] + Change(h[3]) /\ C[4 + 1] = C[4] + Change(h[4])
        /\ C[5 + 1] = C[5] + Change(h[5]) /\ C[6 + 1] = C[6] + Change(h[6])
        /\ C[7 + 1] = C[7] + Change(h[7])
    BY <2>4
  <2>6. /\ C[1] = 0 /\ C[2] = 0 /\ C[3] = 0 /\ C[4] = 1 /\ C[5] = 0 /\ C[6] = 0
        /\ C[7] = 0 /\ C[8] = 1
    BY <2>2, <2>4, <2>5, Changes
  <2>7. ASSUME NEW j \in 1..8 PROVE C[j] \in 0..2
    <3>1. \/ j = 1 \/ j = 2 \/ j = 3 \/ j = 4 \/ j = 5 \/ j = 6 \/ j = 7 \/ j = 8
      OBVIOUS
    <3>2. QED
      BY <2>6, <3>1
  <2>8. QED
    BY <2>3, <2>7
<1>6. ASSUME NEW h, h = Handler["execute"],
             NEW C, Stepwise(h, C, {"connect"}, {"commit", "close"})
      PROVE  \A j \in 1..Len(h) : C[j] \in 0..2
  <2>1. Stepwise(h, C, {"connect"}, {"commit", "close"})
    BY <1>6
  <2>2. /\ h[1] = "connect" /\ h[2] = "close" /\ h[3] = "connect" /\ h[4] = "close"
        /\ h[5] = "remote" /\ h[6] = "enter" /\ h[7] = "connect" /\ h[8] = "commit"
        /\ h[9] = "leave"
    BY <1>6, ExecutePoints
  <2>3. Len(h) = 9
    BY <1>6, ExecutePoints
  <2>4. C[1] = 0 /\ \A m \in 1..(9 - 1) : C[m + 1] = C[m] + Change(h[m])
    BY <2>1, <2>3, ConnectionSteps
  <2>5. /\ C[1 + 1] = C[1] + Change(h[1]) /\ C[2 + 1] = C[2] + Change(h[2])
        /\ C[3 + 1] = C[3] + Change(h[3]) /\ C[4 + 1] = C[4] + Change(h[4])
        /\ C[5 + 1] = C[5] + Change(h[5]) /\ C[6 + 1] = C[6] + Change(h[6])
        /\ C[7 + 1] = C[7] + Change(h[7]) /\ C[8 + 1] = C[8] + Change(h[8])
    BY <2>4
  <2>6. /\ C[1] = 0 /\ C[2] = 1 /\ C[3] = 0 /\ C[4] = 1 /\ C[5] = 0 /\ C[6] = 0
        /\ C[7] = 0 /\ C[8] = 1 /\ C[9] = 0
    BY <2>2, <2>4, <2>5, Changes
  <2>7. ASSUME NEW j \in 1..9 PROVE C[j] \in 0..2
    <3>1. \/ j = 1 \/ j = 2 \/ j = 3 \/ j = 4 \/ j = 5 \/ j = 6 \/ j = 7 \/ j = 8 \/ j = 9
      OBVIOUS
    <3>2. QED
      BY <2>6, <3>1
  <2>8. QED
    BY <2>3, <2>7
<1>7. ASSUME NEW h, h = Handler["import"],
             NEW C, Stepwise(h, C, {"connect"}, {"commit", "close"})
      PROVE  \A j \in 1..Len(h) : C[j] \in 0..2
  <2>1. Stepwise(h, C, {"connect"}, {"commit", "close"})
    BY <1>7
  <2>2. /\ h[1] = "enter" /\ h[2] = "connect" /\ h[3] = "commit" /\ h[4] = "leave"
        /\ h[5] = "remote" /\ h[6] = "enter" /\ h[7] = "connect" /\ h[8] = "commit"
        /\ h[9] = "leave" /\ h[10] = "lock" /\ h[11] = "enter" /\ h[12] = "connect"
        /\ h[13] = "commit" /\ h[14] = "leave" /\ h[15] = "unlock" /\ h[16] = "connect"
        /\ h[17] = "close"
    BY <1>7, ImportPoints
  <2>3. Len(h) = 17
    BY <1>7, ImportPoints
  <2>4. C[1] = 0 /\ \A m \in 1..(17 - 1) : C[m + 1] = C[m] + Change(h[m])
    BY <2>1, <2>3, ConnectionSteps
  <2>5. /\ C[1 + 1] = C[1] + Change(h[1]) /\ C[2 + 1] = C[2] + Change(h[2])
        /\ C[3 + 1] = C[3] + Change(h[3]) /\ C[4 + 1] = C[4] + Change(h[4])
        /\ C[5 + 1] = C[5] + Change(h[5]) /\ C[6 + 1] = C[6] + Change(h[6])
        /\ C[7 + 1] = C[7] + Change(h[7]) /\ C[8 + 1] = C[8] + Change(h[8])
        /\ C[9 + 1] = C[9] + Change(h[9]) /\ C[10 + 1] = C[10] + Change(h[10])
        /\ C[11 + 1] = C[11] + Change(h[11]) /\ C[12 + 1] = C[12] + Change(h[12])
        /\ C[13 + 1] = C[13] + Change(h[13]) /\ C[14 + 1] = C[14] + Change(h[14])
        /\ C[15 + 1] = C[15] + Change(h[15]) /\ C[16 + 1] = C[16] + Change(h[16])
    BY <2>4
  <2>6. /\ C[1] = 0 /\ C[2] = 0 /\ C[3] = 1 /\ C[4] = 0 /\ C[5] = 0 /\ C[6] = 0
        /\ C[7] = 0 /\ C[8] = 1 /\ C[9] = 0 /\ C[10] = 0 /\ C[11] = 0 /\ C[12] = 0
        /\ C[13] = 1 /\ C[14] = 0 /\ C[15] = 0 /\ C[16] = 0 /\ C[17] = 1
    BY <2>2, <2>4, <2>5, Changes
  <2>7. ASSUME NEW j \in 1..17 PROVE C[j] \in 0..2
    <3>1. \/ j = 1 \/ j = 2 \/ j = 3 \/ j = 4 \/ j = 5 \/ j = 6 \/ j = 7 \/ j = 8 \/ j = 9
          \/ j = 10 \/ j = 11 \/ j = 12 \/ j = 13 \/ j = 14 \/ j = 15 \/ j = 16 \/ j = 17
      OBVIOUS
    <3>2. QED
      BY <2>6, <3>1
  <2>8. QED
    BY <2>3, <2>7
<1>8. ASSUME NEW h, h = Handler["heartbeat"],
             NEW C, Stepwise(h, C, {"connect"}, {"commit", "close"})
      PROVE  \A j \in 1..Len(h) : C[j] \in 0..2
  <2>1. Stepwise(h, C, {"connect"}, {"commit", "close"})
    BY <1>8
  <2>2. /\ h[1] = "enter" /\ h[2] = "connect" /\ h[3] = "commit" /\ h[4] = "leave"
    BY <1>8, HeartbeatPoints
  <2>3. Len(h) = 4
    BY <1>8, HeartbeatPoints
  <2>4. C[1] = 0 /\ \A m \in 1..(4 - 1) : C[m + 1] = C[m] + Change(h[m])
    BY <2>1, <2>3, ConnectionSteps
  <2>5. /\ C[1 + 1] = C[1] + Change(h[1]) /\ C[2 + 1] = C[2] + Change(h[2])
        /\ C[3 + 1] = C[3] + Change(h[3])
    BY <2>4
  <2>6. /\ C[1] = 0 /\ C[2] = 0 /\ C[3] = 1 /\ C[4] = 0
    BY <2>2, <2>4, <2>5, Changes
  <2>7. ASSUME NEW j \in 1..4 PROVE C[j] \in 0..2
    <3>1. \/ j = 1 \/ j = 2 \/ j = 3 \/ j = 4
      OBVIOUS
    <3>2. QED
      BY <2>6, <3>1
  <2>8. QED
    BY <2>3, <2>7
<1>9. ASSUME NEW h, h = Handler["read"],
             NEW C, Stepwise(h, C, {"connect"}, {"commit", "close"})
      PROVE  \A j \in 1..Len(h) : C[j] \in 0..2
  <2>1. Stepwise(h, C, {"connect"}, {"commit", "close"})
    BY <1>9
  <2>2. /\ h[1] = "connect" /\ h[2] = "close"
    BY <1>9, ReadPoints
  <2>3. Len(h) = 2
    BY <1>9, ReadPoints
  <2>4. C[1] = 0 /\ \A m \in 1..(2 - 1) : C[m + 1] = C[m] + Change(h[m])
    BY <2>1, <2>3, ConnectionSteps
  <2>5. /\ C[1 + 1] = C[1] + Change(h[1])
    BY <2>4
  <2>6. /\ C[1] = 0 /\ C[2] = 1
    BY <2>2, <2>4, <2>5, Changes
  <2>7. ASSUME NEW j \in 1..2 PROVE C[j] \in 0..2
    <3>1. \/ j = 1 \/ j = 2
      OBVIOUS
    <3>2. QED
      BY <2>6, <3>1
  <2>8. QED
    BY <2>3, <2>7
<1>10. SUFFICES ASSUME NEW k \in Kinds
                PROVE  \A i \in 1..Len(Handler[k]) : ConnectionsAt[k][i] \in 0..2
  OBVIOUS
<1>11. PICK h, C : h = Handler[k] /\ C = ConnectionsAt[k]
  OBVIOUS
<1>12. Stepwise(h, C, {"connect"}, {"commit", "close"})
  BY <1>11, BalanceSteps DEF ConnectionsAt
<1>13. \/ k = "delete" \/ k = "update" \/ k = "create" \/ k = "scan" \/ k = "schedule"
       \/ k = "execute" \/ k = "import" \/ k = "heartbeat" \/ k = "read"
  BY DEF Kinds
<1>14. \A j \in 1..Len(h) : C[j] \in 0..2
  BY <1>1, <1>2, <1>3, <1>4, <1>5, <1>6, <1>7, <1>8, <1>9, <1>11, <1>12, <1>13
<1>15. QED
  BY <1>11, <1>14

(* What the semaphore, the lock and the pool are there for: no more slots  *)
(* and connections than the pool has, one thread under _enqueue_lock.      *)
WithinSlots == Cardinality({x \in Threads : HasSlot(x)}) <= Capacity
OneUnderLock == \A x, y \in Threads : HasLock(x) /\ HasLock(y) => x = y
WithinPool ==
    /\ \A x \in Threads : Connections(x) \in 0..2
    /\ Cardinality({x \in Threads : Connections(x) >= 1})
         + Cardinality({x \in Threads : Connections(x) >= 2}) <= Capacity
Limits == AdmissionTyped /\ WithinSlots /\ OneUnderLock /\ WithinPool

(* What a thread holds depends on its handler and its point.               *)
LEMMA HeldAt ==
    ASSUME AdmissionTyped, NEW x \in Threads
    PROVE  /\ HasSlot(x) <=> Amount({"enter"}, {"leave"}, kind[x], pc[x]) > 0
           /\ HasLock(x) <=> Amount({"lock"}, {"unlock"}, kind[x], pc[x]) > 0
           /\ Connections(x) = Amount({"connect"}, {"commit", "close"}, kind[x], pc[x])
<1>1. ~(0 > 0)
  OBVIOUS
<1>2. QED
  BY <1>1 DEF HasSlot, HasLock, Connections, Done, Amount, SlotsAt, LocksAt, ConnectionsAt

(* The connections of a thread are none, one or two.                       *)
LEMMA PointConnections ==
    ASSUME NEW k \in Kinds, NEW i \in 1..(Len(Handler[k]) + 1)
    PROVE  (IF i > Len(Handler[k]) THEN 0 ELSE ConnectionsAt[k][i]) \in 0..2
<1>1. PICK n \in 2..17 : n = Len(Handler[k])
  BY HandlerTyped
<1>2. i \in 1..(n + 1)
  BY <1>1
<1>3. i > n \/ i \in 1..n
  BY <1>2
<1>4. i \in 1..n => ConnectionsAt[k][i] \in 0..2
  BY <1>1, ConnectionsBounded
<1>5. QED
  BY <1>1, <1>3, <1>4

(* So Connections is what FreeConnection counts.                           *)
LEMMA ConnectionsTyped ==
    ASSUME AdmissionTyped, NEW x \in Threads
    PROVE  Connections(x) \in 0..2
BY MixesAssumption, PointConnections DEF AdmissionTyped, Connections, Done

(* A step of a thread leaves the others as they are.                       *)
Others(x) ==
    \A y \in Threads \ {x} :
        /\ HasSlot(y)' <=> HasSlot(y)
        /\ HasLock(y)' <=> HasLock(y)
        /\ Connections(y)' = Connections(y)

(* What it may take itself, it takes when there is one.                    *)
Takes(x) ==
    /\ HasSlot(x)' => HasSlot(x) \/ FreeSlot
    /\ HasLock(x)' => HasLock(x) \/ FreeLock
    /\ \/ Connections(x)' <= Connections(x)
       \/ FreeConnection /\ Connections(x)' <= Connections(x) + 1

(* Every step is so: a conflict and an error only give back.               *)
LEMMA StepTakes ==
    ASSUME AdmissionTyped, AdmissionTyped', NEW x \in Threads, Step(x) \/ Retry(x) \/ Fail(x)
    PROVE  Others(x) /\ Takes(x)
<1>1. kind' = kind
  BY Moves
<1>2. PICK j : /\ pc' = [pc EXCEPT ![x] = j]
               /\ Advances(x, j) \/ Retries(x, j) \/ Unwinds(x, j)
  BY Moves
<1>3. pc \in [Threads -> Nat]
  BY DEF AdmissionTyped
<1>4. pc'[x] = j /\ \A y \in Threads \ {x} : pc'[y] = pc[y]
  BY <1>2, <1>3
<1>5. Others(x)
  BY <1>1, <1>4 DEF Others, HasSlot, HasLock, Connections, Done
<1>6. /\ HasSlot(x)' <=> Amount({"enter"}, {"leave"}, kind[x], j) > 0
      /\ HasLock(x)' <=> Amount({"lock"}, {"unlock"}, kind[x], j) > 0
      /\ Connections(x)' = Amount({"connect"}, {"commit", "close"}, kind[x], j)
  <2>1. ~(0 > 0)
    OBVIOUS
  <2>2. QED
    BY <1>1, <1>4, <2>1 DEF HasSlot, HasLock, Connections, Done, Amount, SlotsAt, LocksAt,
                            ConnectionsAt
<1>7. PICK op : op = Handler[kind[x]][pc[x]]
  OBVIOUS
<1>8. HasSlot(x)' => HasSlot(x) \/ FreeSlot
  <2>1. PICK a, b : /\ a = Amount({"enter"}, {"leave"}, kind[x], pc[x])
                    /\ b = Amount({"enter"}, {"leave"}, kind[x], j)
    OBVIOUS
  <2>2. /\ a \in Int /\ b \in Int
        /\ b <= 0 \/ b <= a \/ (b <= a + 1 /\ Advances(x, j) /\ op \in {"enter"})
    BY <1>2, <1>7, <2>1, AmountMoves
  <2>3. Advances(x, j) /\ op \in {"enter"} => FreeSlot
    BY <1>7 DEF Advances
  <2>4. (HasSlot(x)' <=> b > 0) /\ (HasSlot(x) <=> a > 0)
    BY <1>6, <2>1, HeldAt
  <2>5. QED
    BY <2>2, <2>3, <2>4
<1>9. HasLock(x)' => HasLock(x) \/ FreeLock
  <2>1. PICK a, b : /\ a = Amount({"lock"}, {"unlock"}, kind[x], pc[x])
                    /\ b = Amount({"lock"}, {"unlock"}, kind[x], j)
    OBVIOUS
  <2>2. /\ a \in Int /\ b \in Int
        /\ b <= 0 \/ b <= a \/ (b <= a + 1 /\ Advances(x, j) /\ op \in {"lock"})
    BY <1>2, <1>7, <2>1, AmountMoves
  <2>3. Advances(x, j) /\ op \in {"lock"} => FreeLock
    BY <1>7 DEF Advances
  <2>4. (HasLock(x)' <=> b > 0) /\ (HasLock(x) <=> a > 0)
    BY <1>6, <2>1, HeldAt
  <2>5. QED
    BY <2>2, <2>3, <2>4
<1>10. \/ Connections(x)' <= Connections(x)
       \/ FreeConnection /\ Connections(x)' <= Connections(x) + 1
  <2>1. PICK a, b : /\ a = Amount({"connect"}, {"commit", "close"}, kind[x], pc[x])
                    /\ b = Amount({"connect"}, {"commit", "close"}, kind[x], j)
    OBVIOUS
  <2>2. /\ a \in Int /\ b \in Int
        /\ b <= 0 \/ b <= a \/ (b <= a + 1 /\ Advances(x, j) /\ op \in {"connect"})
    BY <1>2, <1>7, <2>1, AmountMoves
  <2>3. Advances(x, j) /\ op \in {"connect"} => FreeConnection
    BY <1>7 DEF Advances
  <2>4. Connections(x)' = b /\ Connections(x) = a
    BY <1>6, <2>1, HeldAt
  <2>5. a \in 0..2
    BY <2>4, ConnectionsTyped
  <2>6. QED
    BY <2>2, <2>3, <2>4, <2>5
<1>11. QED
  BY <1>5, <1>8, <1>9, <1>10 DEF Takes

(* A set that gains one element at most, and only when there is room.      *)
LEMMA Gains ==
    ASSUME NEW S, NEW T, NEW x, IsFiniteSet(S), T \subseteq S \cup {x}
    PROVE  /\ Cardinality(S) \in Nat /\ Cardinality(T) \in Nat
           /\ Cardinality(T) <= Cardinality(S) + 1
           /\ T \subseteq S => Cardinality(T) <= Cardinality(S)
<1>1. IsFiniteSet(S \cup {x}) /\ Cardinality(S) \in Nat
  BY FS_AddElement, FS_CardinalityType
<1>2. IsFiniteSet(T) /\ Cardinality(T) <= Cardinality(S \cup {x})
  BY <1>1, FS_Subset
<1>3. Cardinality(T) \in Nat
  BY <1>2, FS_CardinalityType
<1>4. Cardinality(S \cup {x}) <= Cardinality(S) + 1
  BY <1>1, FS_AddElement
<1>5. Cardinality(S \cup {x}) \in Nat
  BY <1>1, FS_CardinalityType
<1>6. T \subseteq S => Cardinality(T) <= Cardinality(S)
  BY FS_Subset
<1>7. QED
  BY <1>1, <1>2, <1>3, <1>4, <1>5, <1>6

(* The limits are kept by every step.                                      *)
LEMMA LimitsStep ==
    ASSUME Limits, [Next]_vars
    PROVE  Limits'
<1>1. AdmissionTyped /\ AdmissionTyped'
  BY AdmissionStep DEF Limits
<1>2. CASE UNCHANGED vars
  BY <1>1, <1>2 DEF vars, Limits, WithinSlots, OneUnderLock, WithinPool, HasSlot, HasLock,
                    Connections, Done
<1>3. ASSUME NEW x \in Threads, Step(x) \/ Retry(x) \/ Fail(x)
      PROVE  Limits'
  <2>1. Others(x) /\ Takes(x)
    BY <1>1, <1>3, StepTakes
  <2>2. WithinSlots'
    <3>1. PICK S, T : S = {y \in Threads : HasSlot(y)} /\ T = {y \in Threads : HasSlot(y)'}
      OBVIOUS
    <3>2. IsFiniteSet(S)
      BY <3>1, ThreadsAssumption, FS_Subset
    <3>3. T \subseteq S \cup {x} /\ (T \subseteq S \/ FreeSlot)
      BY <2>1, <3>1 DEF Others, Takes
    <3>4. Cardinality(S) <= Capacity /\ (FreeSlot => Cardinality(S) < Capacity)
      BY <3>1 DEF Limits, WithinSlots, FreeSlot
    <3>5. Cardinality(T) <= Capacity
      BY <3>2, <3>3, <3>4, Gains, CapacityAssumption
    <3>6. QED
      BY <3>1, <3>5 DEF WithinSlots
  <2>3. OneUnderLock'
    BY <2>1 DEF Others, Takes, Limits, OneUnderLock, FreeLock
  <2>4. WithinPool'
    <3>1. PICK S, T : /\ S = {y \in Threads : Connections(y) >= 1}
                      /\ T = {y \in Threads : Connections(y)' >= 1}
      OBVIOUS
    <3>2. PICK U, V : /\ U = {y \in Threads : Connections(y) >= 2}
                      /\ V = {y \in Threads : Connections(y)' >= 2}
      OBVIOUS
    <3>3. IsFiniteSet(S) /\ IsFiniteSet(U)
      BY <3>1, <3>2, ThreadsAssumption, FS_Subset
    <3>4. \A y \in Threads : Connections(y) \in 0..2 /\ Connections(y)' \in 0..2
      <4>1. \A y \in Threads : Connections(y)' \in 0..2
        BY <1>1, MixesAssumption, PointConnections DEF AdmissionTyped, Connections, Done
      <4>2. QED
        BY <1>1, <4>1, ConnectionsTyped
    <3>5. T \subseteq S \cup {x} /\ V \subseteq U \cup {x}
      BY <2>1, <3>1, <3>2 DEF Others
    <3>6. \/ T \subseteq S /\ V \subseteq U
          \/ FreeConnection /\ (T \subseteq S \/ V \subseteq U)
      BY <2>1, <3>1, <3>2, <3>4 DEF Others, Takes
    <3>7. /\ Cardinality(S) + Cardinality(U) <= Capacity
          /\ FreeConnection => Cardinality(S) + Cardinality(U) < Capacity
      BY <3>1, <3>2 DEF Limits, WithinPool, FreeConnection
    <3>8. /\ Cardinality(S) \in Nat /\ Cardinality(T) \in Nat
          /\ Cardinality(T) <= Cardinality(S) + 1
          /\ T \subseteq S => Cardinality(T) <= Cardinality(S)
      BY <3>3, <3>5, Gains
    <3>9. /\ Cardinality(U) \in Nat /\ Cardinality(V) \in Nat
          /\ Cardinality(V) <= Cardinality(U) + 1
          /\ V \subseteq U => Cardinality(V) <= Cardinality(U)
      BY <3>3, <3>5, Gains
    <3>10. Cardinality(T) + Cardinality(V) <= Capacity
      BY <3>6, <3>7, <3>8, <3>9, CapacityAssumption
    <3>11. QED
      BY <3>1, <3>2, <3>4, <3>10 DEF WithinPool
  <2>5. QED
    BY <1>1, <2>2, <2>3, <2>4 DEF Limits
<1>4. QED
  BY <1>2, <1>3 DEF Next

(* However many threads execute whichever handlers, with conflicts, pool   *)
(* timeouts and errors: no more slots and connections are taken than the   *)
(* pool has, no thread holds more than two connections, and one thread at  *)
(* most is under _enqueue_lock.                                            *)
THEOREM LimitsHold == Spec => [](WithinSlots /\ OneUnderLock /\ WithinPool)
<1>1. Init => Limits
  <2> SUFFICES ASSUME Init PROVE Limits
    OBVIOUS
  <2>1. AdmissionTyped
    BY AdmissionStart
  <2>2. ASSUME NEW x \in Threads PROVE Connections(x) = 0 /\ ~HasSlot(x) /\ ~HasLock(x)
    <3>1. kind[x] \in Kinds /\ pc[x] = 1
      BY <2>1, ThreadTyped DEF Init
    <3>2. ASSUME NEW a, NEW r PROVE Balance(a, r)[kind[x]][1] = 0
      BY <3>1, BalanceSteps DEF Stepwise
    <3>3. ~(0 > 0)
      OBVIOUS
    <3>4. SlotsAt[kind[x]][1] = 0 /\ LocksAt[kind[x]][1] = 0 /\ ConnectionsAt[kind[x]][1] = 0
      BY <3>2 DEF SlotsAt, LocksAt, ConnectionsAt
    <3>5. QED
      BY <3>1, <3>3, <3>4 DEF Connections, HasSlot, HasLock
  <2>3. /\ {x \in Threads : HasSlot(x)} = {}
        /\ {x \in Threads : Connections(x) >= 1} = {}
        /\ {x \in Threads : Connections(x) >= 2} = {}
    BY <2>2
  <2>4. Cardinality({}) = 0
    BY FS_EmptySet
  <2>5. WithinSlots
    BY <2>3, <2>4, CapacityAssumption DEF WithinSlots
  <2>6. OneUnderLock
    BY <2>2 DEF OneUnderLock
  <2>7. WithinPool
    BY <2>2, <2>3, <2>4, CapacityAssumption DEF WithinPool
  <2>8. QED
    BY <2>1, <2>5, <2>6, <2>7 DEF Limits
<1>2. Limits => WithinSlots /\ OneUnderLock /\ WithinPool
  BY DEF Limits
<1>3. QED
  BY <1>1, <1>2, LimitsStep, PTL DEF Spec
=============================================================================
