------------------------ MODULE TopologyCacheProofs ------------------------
(***************************************************************************)
(* Theorems about TopologyCache for every set of keys and threads, every   *)
(* TTL and every number of changes and lost connections.                   *)
(***************************************************************************)
EXTENDS TopologyCache, FiniteSetTheorems, TLAPS

(* Times are numbers.                                                      *)
LEMMA TicksNat == TTL \in Nat /\ MaxBuildTicks \in Nat /\ Oldest \in Nat /\ TTL > 0
BY TicksAssumption DEF Oldest

(* Ages stay ages.                                                         *)
LEMMA AgeType == \A a \in Ages : Superseded(a) \in Ages /\ Older(a) \in Ages
BY TicksNat DEF Ages, Superseded, Older, Oldest

(* The type invariant is inductive.                                        *)
THEOREM TypeCorrect == Spec => []TypeOK
<1>0. /\ NoEntry \in EntryType /\ 0 \in Ages /\ 0 \in 0..MaxBuildTicks
      /\ 0 \in 0..MaxChanges /\ 0 \in 0..MaxLosses
  BY TicksNat, BoundsAssumption DEF NoEntry, EntryType, Ages
<1>1. Init => TypeOK
  <2> SUFFICES ASSUME Init PROVE TypeOK
    OBVIOUS
  <2>1. notified \in NotifiedType /\ listening \in BOOLEAN
    BY DEF Init, NotifiedType
  <2>2. entry \in [Keys -> EntryType] /\ failed \in [Threads -> BOOLEAN]
    BY <1>0 DEF Init
  <2>3. QED
    BY <1>0, <2>1, <2>2 DEF Init, TypeOK, PCs
<1>2. TypeOK /\ [Next]_vars => TypeOK'
  <2> SUFFICES ASSUME TypeOK, [Next]_vars PROVE TypeOK'
    OBVIOUS
  <2>1. CASE UNCHANGED vars
    BY <2>1 DEF vars, TypeOK
  <2>2. CASE Change
    <3>0. entry \in [Keys -> EntryType] /\ value \in [Threads -> Ages]
      BY DEF TypeOK
    <3>1. entry' \in [Keys -> EntryType]
      BY <2>2, <3>0, AgeType DEF Change, EntryType
    <3>2. value' \in [Threads -> Ages]
      BY <2>2, <3>0, AgeType DEF Change
    <3>3. notified' \in NotifiedType
      BY <2>2 DEF Change, TypeOK, NotifiedType
    <3>4. changes' \in 0..MaxChanges
      BY <2>2, BoundsAssumption DEF Change, TypeOK
    <3>5. QED
      BY <2>2, <3>1, <3>2, <3>3, <3>4 DEF Change, TypeOK
  <2>3. CASE Clear
    <3>1. notified' \in NotifiedType
      BY <2>3 DEF Clear, TypeOK, NotifiedType
    <3>2. QED
      BY <1>0, <2>3, <3>1 DEF Clear, TypeOK, threadVars
  <2>4. CASE Listen
    BY <2>4 DEF Listen, TypeOK, threadVars
  <2>5. CASE Disconnect
    <3>1. notified' \in NotifiedType
      BY <2>5 DEF Disconnect, TypeOK, NotifiedType
    <3>2. losses' \in 0..MaxLosses
      BY <2>5, BoundsAssumption DEF Disconnect, TypeOK
    <3>3. QED
      BY <2>5, <3>1, <3>2 DEF Disconnect, TypeOK, threadVars
  <2>6. CASE Tick
    <3>0. /\ entry \in [Keys -> EntryType] /\ value \in [Threads -> Ages]
          /\ building \in [Threads -> 0..MaxBuildTicks]
      BY DEF TypeOK
    <3>1. ASSUME NEW k \in Keys PROVE entry'[k] \in EntryType
      <4>1. entry[k] \in EntryType
        BY <3>0
      <4>2. /\ Older(entry[k].age) \in Ages
            /\ (IF entry[k].ttl = 0 THEN 0 ELSE entry[k].ttl - 1) \in 0..TTL
        BY <4>1, AgeType, TicksNat DEF EntryType
      <4>3. entry'[k] = IF entry[k].present
               THEN [entry[k] EXCEPT !.age = Older(entry[k].age),
                         !.ttl = IF entry[k].ttl = 0 THEN 0 ELSE entry[k].ttl - 1]
               ELSE entry[k]
        BY <2>6 DEF Tick
      <4>4. QED
        BY <4>1, <4>2, <4>3 DEF EntryType
    <3>2. entry' \in [Keys -> EntryType]
      BY <2>6, <3>1 DEF Tick
    <3>3. value' \in [Threads -> Ages]
      BY <2>6, <3>0, AgeType DEF Tick
    <3>4. ASSUME NEW x \in Threads PROVE building'[x] \in 0..MaxBuildTicks
      <4>1. building[x] \in 0..MaxBuildTicks
        BY <3>0
      <4>2. CASE pc[x] \in {"built", "store"}
        <5>1. building'[x] = building[x] + 1 /\ building[x] < MaxBuildTicks
          BY <2>6, <4>2 DEF Tick
        <5>2. QED
          BY <4>1, <5>1, TicksNat
      <4>3. CASE pc[x] \notin {"built", "store"}
        BY <2>6, <4>1, <4>3 DEF Tick
      <4>4. QED
        BY <4>2, <4>3
    <3>5. building' \in [Threads -> 0..MaxBuildTicks]
      BY <2>6, <3>4 DEF Tick
    <3>6. QED
      BY <2>6, <3>2, <3>3, <3>5 DEF Tick, TypeOK, sourceVars
  <2>7. ASSUME NEW x \in Threads, NEW k \in Keys, Request(x, k) PROVE TypeOK'
    BY <1>0, <2>7 DEF Request, Goto, TypeOK, PCs, sourceVars
  <2>8. ASSUME NEW x \in Threads, Look(x) PROVE TypeOK'
    <3>1. entry[key[x]] \in EntryType
      BY DEF TypeOK
    <3>2. entry[key[x]].age \in Ages
      BY <3>1 DEF EntryType
    <3>3. pc' \in [Threads -> PCs]
      BY <2>8 DEF Look, Goto, TypeOK, PCs
    <3>4. CASE Usable(entry[key[x]])
      <4>1. UNCHANGED entry /\ answer' = [answer EXCEPT ![x] = entry[key[x]].age]
        BY <2>8, <3>4 DEF Look
      <4>2. QED
        BY <2>8, <3>2, <3>3, <4>1 DEF Look, TypeOK, sourceVars
    <3>5. CASE ~Usable(entry[key[x]])
      <4>1. UNCHANGED answer /\ entry' = [entry EXCEPT ![key[x]] = NoEntry]
        BY <2>8, <3>5 DEF Look
      <4>2. QED
        BY <1>0, <2>8, <3>3, <4>1 DEF Look, TypeOK, sourceVars
    <3>6. QED
      BY <3>4, <3>5
  <2>9. ASSUME NEW x \in Threads, Enter(x) PROVE TypeOK'
    BY <2>9 DEF Enter, Goto, TypeOK, PCs, sourceVars
  <2>10. ASSUME NEW x \in Threads, BuildReads(x) PROVE TypeOK'
    <3>1. failed' \in [Threads -> BOOLEAN]
      BY <2>10, Zenon DEF BuildReads, TypeOK
    <3>2. QED
      BY <1>0, <2>10, <3>1 DEF BuildReads, Goto, TypeOK, PCs, sourceVars
  <2>11. ASSUME NEW x \in Threads, BuildEnds(x) PROVE TypeOK'
    BY <2>11 DEF BuildEnds, Goto, TypeOK, PCs, sourceVars
  <2>12. ASSUME NEW x \in Threads, BuildFails(x) PROVE TypeOK'
    <3>1. failed' \in [Threads -> BOOLEAN]
      BY <2>12, Zenon DEF BuildFails, TypeOK
    <3>2. QED
      BY <2>12, <3>1 DEF BuildFails, Goto, TypeOK, PCs, sourceVars
  <2>13. ASSUME NEW x \in Threads, Put(x) PROVE TypeOK'
    <3>1. FreshEntry(value[x]) \in EntryType
      BY TicksNat DEF TypeOK, EntryType, FreshEntry
    <3>2. entry' \in [Keys -> EntryType] /\ answer' \in [Threads -> Ages]
      BY <2>13, <3>1 DEF Put, TypeOK
    <3>3. pc' \in [Threads -> PCs]
      BY <2>13 DEF Put, Goto, TypeOK, PCs
    <3>4. QED
      BY <2>13, <3>2, <3>3 DEF Put, TypeOK, sourceVars
  <2>14. ASSUME NEW x \in Threads, PopInflight(x) PROVE TypeOK'
    BY <2>14 DEF PopInflight, Goto, TypeOK, PCs, sourceVars
  <2>15. ASSUME NEW x \in Threads, Signal(x) PROVE TypeOK'
    <3>1. pc' \in [Threads -> PCs] /\ waitsFor' \in [Threads -> Threads \cup {NoThread}]
      BY <2>15 DEF Signal, TypeOK, PCs
    <3>2. failed' \in [Threads -> BOOLEAN]
      BY <2>15, Zenon DEF Signal, TypeOK
    <3>3. QED
      BY <1>0, <2>15, <3>1, <3>2 DEF Signal, TypeOK, sourceVars
  <2>16. QED
    BY <2>1, <2>2, <2>3, <2>4, <2>5, <2>6, <2>7, <2>8, <2>9, <2>10, <2>11, <2>12,
       <2>13, <2>14, <2>15
    DEF Next, Step
<1>3. QED
  BY <1>1, <1>2, PTL DEF Spec

-----------------------------------------------------------------------------
(***************************************************************************)
(* One build per key: _inflight names the thread that builds.              *)
(***************************************************************************)
BuildPCs == {"build", "built", "store", "pop"}
BuilderRegistered ==
    \A x \in Threads : pc[x] \in BuildPCs => inflight[key[x]] = x

(* A step that starts no build, moves nobody to another key and takes no   *)
(* registration away.                                                      *)
LEMMA RegistrationKept ==
    ASSUME BuilderRegistered,
           \A x \in Threads : pc'[x] \in BuildPCs => pc[x] \in BuildPCs /\ key'[x] = key[x],
           UNCHANGED inflight
    PROVE  BuilderRegistered'
BY DEF BuilderRegistered

(* The build of a key runs in one thread at a time, which _inflight names. *)
THEOREM OneBuildPerKeyHolds == Spec => []OneBuildPerKey
<1>1. Init => BuilderRegistered
  BY DEF Init, BuilderRegistered, BuildPCs
<1>2. TypeOK /\ BuilderRegistered /\ [Next]_vars => BuilderRegistered'
  <2> SUFFICES ASSUME TypeOK, BuilderRegistered, [Next]_vars PROVE BuilderRegistered'
    OBVIOUS
  <2>1. CASE UNCHANGED <<pc, key, inflight>>
    BY <2>1, RegistrationKept
  <2>2. ASSUME NEW x \in Threads, NEW k \in Keys, Request(x, k)
        PROVE  BuilderRegistered'
    BY <2>2, RegistrationKept DEF Request, Goto, TypeOK, BuildPCs
  <2>3. ASSUME NEW x \in Threads,
               Look(x) \/ BuildReads(x) \/ BuildEnds(x) \/ BuildFails(x) \/ Put(x)
        PROVE  BuilderRegistered'
    <3>1. UNCHANGED <<key, inflight>>
      BY <2>3 DEF Look, BuildReads, BuildEnds, BuildFails, Put
    <3>2. \A y \in Threads : pc'[y] \in BuildPCs => pc[y] \in BuildPCs
      BY <2>3 DEF Look, BuildReads, BuildEnds, BuildFails, Put, Goto, TypeOK, BuildPCs
    <3>3. QED
      BY <3>1, <3>2, RegistrationKept
  <2>4. ASSUME NEW x \in Threads, Enter(x) PROVE BuilderRegistered'
    <3>1. CASE Builds(x)
      <4>1. /\ inflight[key[x]] = NoThread
            /\ inflight' = [inflight EXCEPT ![key[x]] = x]
            /\ pc' = [pc EXCEPT ![x] = "build"] /\ key' = key
        BY <2>4, <3>1 DEF Enter, Goto, Builds
      <4>2. QED
        BY <4>1, ThreadsAssumption DEF BuilderRegistered, TypeOK
    <3>2. CASE ~Builds(x)
      <4>1. pc' = [pc EXCEPT ![x] = "wait"] /\ UNCHANGED <<key, inflight>>
        BY <2>4, <3>2 DEF Enter, Goto
      <4>2. \A y \in Threads : pc'[y] \in BuildPCs => pc[y] \in BuildPCs
        BY <4>1 DEF TypeOK, BuildPCs
      <4>3. QED
        BY <4>1, <4>2, RegistrationKept
    <3>3. QED
      BY <3>1, <3>2
  <2>5. ASSUME NEW x \in Threads, PopInflight(x) PROVE BuilderRegistered'
    <3>1. /\ pc[x] \in BuildPCs /\ inflight[key[x]] = x
          /\ inflight' = [inflight EXCEPT ![key[x]] = NoThread]
          /\ pc' = [pc EXCEPT ![x] = "signal"] /\ key' = key
      BY <2>5 DEF PopInflight, Goto, BuilderRegistered, BuildPCs
    <3>2. ASSUME NEW y \in Threads, pc'[y] \in BuildPCs
          PROVE  inflight'[key'[y]] = y
      <4>1. y # x /\ pc[y] \in BuildPCs
        BY <3>1, <3>2 DEF TypeOK, BuildPCs
      <4>2. inflight[key[y]] = y
        BY <4>1 DEF BuilderRegistered
      <4>3. key[y] # key[x]
        BY <3>1, <4>1, <4>2
      <4>4. QED
        BY <3>1, <4>2, <4>3 DEF TypeOK
    <3>3. QED
      BY <3>2 DEF BuilderRegistered
  <2>6. ASSUME NEW x \in Threads, Signal(x) PROVE BuilderRegistered'
    <3>1. \A y \in Threads : pc'[y] \in BuildPCs => pc[y] \in BuildPCs
      BY <2>6 DEF Signal, BuildPCs
    <3>2. QED
      BY <2>6, <3>1, RegistrationKept DEF Signal
  <2>7. QED
    BY <2>1, <2>2, <2>3, <2>4, <2>5, <2>6
    DEF Next, Step, Change, Clear, Listen, Disconnect, Tick, threadVars, vars
<1>3. BuilderRegistered => OneBuildPerKey
  <2> SUFFICES ASSUME BuilderRegistered, NEW k \in Keys
               PROVE  /\ Cardinality(Building(k)) <= 1
                      /\ \A x \in Building(k) : inflight[k] = x
    BY DEF OneBuildPerKey
  <2>1. \A x \in Building(k) : inflight[k] = x
    BY DEF Building, BuilderRegistered, BuildPCs
  <2>2. CASE Building(k) = {}
    BY <2>1, <2>2, FS_EmptySet
  <2>3. CASE Building(k) # {}
    <3>1. Building(k) = {inflight[k]}
      BY <2>1, <2>3
    <3>2. Cardinality(Building(k)) = 1
      BY <3>1, FS_Singleton, Zenon
    <3>3. QED
      BY <2>1, <3>2
  <2>4. QED
    BY <2>2, <2>3
<1>4. QED
  BY <1>1, <1>2, <1>3, TypeCorrect, PTL DEF Spec

-----------------------------------------------------------------------------
(***************************************************************************)
(* How old an answer can be.  A value ages while it is built, and an entry *)
(* has aged at most as many ticks as it has lost of its TTL.               *)
(***************************************************************************)
AgesBounded ==
    /\ \A x \in Threads : pc[x] \in {"built", "store"} => value[x] <= building[x] + 1
    /\ \A k \in Keys : entry[k].present /\ entry[k].ttl > 0 =>
          entry[k].age <= MaxBuildTicks + 1 + (TTL - entry[k].ttl)
    /\ StalenessBounded

(* No request gets a value that was superseded longer ago than the TTL and *)
(* a build, whatever notifications are lost.                               *)
THEOREM StalenessBoundedHolds == Spec => []StalenessBounded
<1>1. Init => AgesBounded
  BY TicksNat DEF Init, AgesBounded, StalenessBounded, NoEntry
<1>2. TypeOK /\ AgesBounded /\ [Next]_vars => AgesBounded'
  <2> SUFFICES ASSUME TypeOK, AgesBounded, [Next]_vars PROVE AgesBounded'
    OBVIOUS
  <2>0. /\ entry \in [Keys -> EntryType] /\ value \in [Threads -> Ages]
        /\ building \in [Threads -> 0..MaxBuildTicks] /\ Ages \subseteq Nat
        /\ pc \in [Threads -> PCs] /\ key \in [Threads -> Keys]
        /\ answer \in [Threads -> Ages]
    BY TicksNat DEF TypeOK, Ages
  <2>1. CASE UNCHANGED <<entry, pc, value, building, answer>>
    BY <2>1 DEF AgesBounded, StalenessBounded
  <2>2. CASE Change
    <3>1. ASSUME NEW x \in Threads, pc'[x] \in {"built", "store"}
          PROVE  value'[x] <= building'[x] + 1
      BY <2>0, <2>2, <3>1, TicksNat DEF Change, AgesBounded, Superseded
    <3>2. ASSUME NEW k \in Keys, entry'[k].present, entry'[k].ttl > 0
          PROVE  entry'[k].age <= MaxBuildTicks + 1 + (TTL - entry'[k].ttl)
      <4>1. /\ entry[k].present /\ entry'[k].ttl = entry[k].ttl
            /\ entry'[k].age = Superseded(entry[k].age)
        BY <2>0, <2>2, <3>2 DEF Change, EntryType
      <4>2. /\ entry[k].age <= MaxBuildTicks + 1 + (TTL - entry[k].ttl)
            /\ entry[k].ttl \in 0..TTL
        BY <2>0, <3>2, <4>1 DEF AgesBounded, EntryType
      <4>3. QED
        BY <4>1, <4>2, TicksNat DEF Superseded
    <3>3. QED
      BY <2>2, <3>1, <3>2 DEF Change, AgesBounded, StalenessBounded
  <2>3. CASE Clear
    BY <2>0, <2>3 DEF Clear, AgesBounded, StalenessBounded, NoEntry, threadVars
  <2>4. CASE Tick
    <3>1. ASSUME NEW x \in Threads, pc'[x] \in {"built", "store"}
          PROVE  value'[x] <= building'[x] + 1
      <4>1. /\ value'[x] = Older(value[x]) /\ building'[x] = building[x] + 1
            /\ value[x] <= building[x] + 1
        BY <2>0, <2>4, <3>1 DEF Tick, AgesBounded
      <4>2. value[x] \in Ages /\ building[x] \in 0..MaxBuildTicks
        BY <2>0
      <4>3. value[x] \in Nat /\ building[x] \in Nat
        BY <4>2, TicksNat DEF Ages
      <4>4. QED
        BY <4>1, <4>3, TicksNat DEF Older
    <3>2. ASSUME NEW k \in Keys, entry'[k].present, entry'[k].ttl > 0
          PROVE  entry'[k].age <= MaxBuildTicks + 1 + (TTL - entry'[k].ttl)
      <4>1. entry[k].present /\ entry[k].ttl \in 0..TTL /\ entry[k].age \in Nat
        BY <2>0, <2>4, <3>2, TicksNat DEF Tick, EntryType
      <4>2. /\ entry'[k].age = Older(entry[k].age)
            /\ entry'[k].ttl = IF entry[k].ttl = 0 THEN 0 ELSE entry[k].ttl - 1
        BY <2>0, <2>4, <4>1 DEF Tick, EntryType
      <4>3. entry[k].ttl > 0 /\ entry'[k].ttl = entry[k].ttl - 1
        BY <3>2, <4>1, <4>2, TicksNat
      <4>4. entry[k].age <= MaxBuildTicks + 1 + (TTL - entry[k].ttl)
        BY <4>1, <4>3 DEF AgesBounded
      <4>5. QED
        BY <4>1, <4>2, <4>3, <4>4, TicksNat DEF Older
    <3>3. QED
      BY <2>4, <3>1, <3>2 DEF Tick, AgesBounded, StalenessBounded
  <2>5. ASSUME NEW x \in Threads, Look(x) PROVE AgesBounded'
    <3>1. CASE Usable(entry[key[x]])
      <4>1. /\ entry[key[x]].age <= MaxBuildTicks + 1 + (TTL - entry[key[x]].ttl)
            /\ entry[key[x]].ttl \in 0..TTL /\ entry[key[x]].ttl > 0
            /\ entry[key[x]].age \in Nat
        BY <2>0, <3>1 DEF Usable, AgesBounded, EntryType
      <4>2. entry[key[x]].age <= TTL + MaxBuildTicks
        BY <4>1, TicksNat
      <4>3. /\ pc' = [pc EXCEPT ![x] = "idle"]
            /\ answer' = [answer EXCEPT ![x] = entry[key[x]].age]
            /\ UNCHANGED <<entry, value, building>>
        BY <2>5, <3>1 DEF Look, Goto
      <4>4. QED
        BY <2>0, <4>2, <4>3 DEF AgesBounded, StalenessBounded
    <3>2. CASE ~Usable(entry[key[x]])
      <4>1. /\ pc' = [pc EXCEPT ![x] = "enter"]
            /\ entry' = [entry EXCEPT ![key[x]] = NoEntry]
            /\ UNCHANGED <<value, building, answer>>
        BY <2>5, <3>2 DEF Look, Goto
      <4>2. QED
        BY <2>0, <4>1 DEF AgesBounded, StalenessBounded, NoEntry
    <3>3. QED
      BY <3>1, <3>2
  <2>6. ASSUME NEW x \in Threads, NEW k \in Keys, Request(x, k) PROVE AgesBounded'
    BY <2>0, <2>6, TicksNat DEF Request, Goto, AgesBounded, StalenessBounded
  <2>7. ASSUME NEW x \in Threads,
               Enter(x) \/ BuildEnds(x) \/ BuildFails(x) \/ PopInflight(x)
        PROVE  AgesBounded'
    <3>1. UNCHANGED <<entry, value, building, answer>>
      BY <2>7 DEF Enter, BuildEnds, BuildFails, PopInflight
    <3>2. \A y \in Threads : pc'[y] \in {"built", "store"} => pc[y] \in {"built", "store"}
      BY <2>0, <2>7 DEF Enter, BuildEnds, BuildFails, PopInflight, Goto
    <3>3. QED
      BY <3>1, <3>2 DEF AgesBounded, StalenessBounded
  <2>8. ASSUME NEW x \in Threads, BuildReads(x) PROVE AgesBounded'
    BY <2>0, <2>8 DEF BuildReads, Goto, AgesBounded, StalenessBounded
  <2>9. ASSUME NEW x \in Threads, Put(x) PROVE AgesBounded'
    <3>1. value[x] <= MaxBuildTicks + 1 /\ value[x] \in Nat
      <4>1. value[x] <= building[x] + 1 /\ building[x] \in 0..MaxBuildTicks
        BY <2>0, <2>9 DEF Put, AgesBounded
      <4>2. value[x] \in Ages
        BY <2>0
      <4>3. value[x] \in Nat
        BY <2>0, <4>2
      <4>4. QED
        BY <4>1, <4>3, TicksNat
    <3>2. /\ pc' = [pc EXCEPT ![x] = "pop"]
          /\ entry' = [entry EXCEPT ![key[x]] = FreshEntry(value[x])]
          /\ answer' = [answer EXCEPT ![x] = value[x]]
          /\ UNCHANGED <<value, building>>
      BY <2>9 DEF Put, Goto
    <3>3. ASSUME NEW k \in Keys, entry'[k].present, entry'[k].ttl > 0
          PROVE  entry'[k].age <= MaxBuildTicks + 1 + (TTL - entry'[k].ttl)
      <4>1. CASE k = key[x]
        <5>1. entry'[k].age = value[x] /\ entry'[k].ttl = TTL
          BY <2>0, <3>2, <4>1 DEF FreshEntry
        <5>2. QED
          BY <3>1, <5>1, TicksNat
      <4>2. CASE k # key[x]
        BY <2>0, <3>2, <3>3, <4>2 DEF AgesBounded
      <4>3. QED
        BY <4>1, <4>2
    <3>4. \A y \in Threads : answer'[y] <= TTL + MaxBuildTicks
      BY <2>0, <3>1, <3>2, TicksNat DEF AgesBounded, StalenessBounded
    <3>5. \A y \in Threads : pc'[y] \in {"built", "store"} => value'[y] <= building'[y] + 1
      BY <2>0, <3>2 DEF AgesBounded
    <3>6. QED
      BY <3>3, <3>4, <3>5 DEF AgesBounded, StalenessBounded
  <2>10. ASSUME NEW x \in Threads, Signal(x) PROVE AgesBounded'
    <3>1. \A y \in Threads : pc'[y] \in {"built", "store"} =>
             y # x /\ pc[y] \in {"built", "store"}
      BY <2>10 DEF Signal
    <3>2. \A y \in Threads : y # x => value'[y] = value[y] /\ building'[y] = building[y]
      BY <2>0, <2>10 DEF Signal
    <3>3. QED
      BY <2>10, <3>1, <3>2 DEF Signal, AgesBounded, StalenessBounded
  <2>11. QED
    BY <2>1, <2>2, <2>3, <2>4, <2>5, <2>6, <2>7, <2>8, <2>9, <2>10
    DEF Next, Step, Listen, Disconnect, threadVars, vars
<1>3. AgesBounded => StalenessBounded
  BY DEF AgesBounded
<1>4. QED
  BY <1>1, <1>2, <1>3, TypeCorrect, PTL DEF Spec

=============================================================================
