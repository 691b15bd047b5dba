--------------------------- MODULE TopologyHistory ---------------------------
(***************************************************************************)
(* What the scans have seen, as the topology views read it                 *)
(* (services/service_observations.py, services/topology_history.py,        *)
(* services/topology.py).                                                  *)
(*                                                                         *)
(* A successful scan leaves raw connection records and, aggregated from    *)
(* them, one observation per service and remote address.  The device view  *)
(* and the scan diff read raw records; the history and the cluster views   *)
(* read observations, in three queries of one READ COMMITTED transaction,  *)
(* each of which sees what has been committed meanwhile.  The purge of     *)
(* Retention takes raw records away first and whole scans later.           *)
(*                                                                         *)
(* A protocol, a remote port and a process name are one service here; an   *)
(* address is an ip and whether it is written in its IPv4-mapped form.     *)
(* remote_hostname, which nothing in the application sets, is left out.    *)
(***************************************************************************)
EXTENDS Retention, Functions

CONSTANTS
    Ips, Loopback,  \* normalised addresses; the loopback address
    NoAddress,      \* None, the remote address of a listener
    Udp,            \* services over UDP
    Reports,        \* what a collector may return: sequences of connections
    Legacy,         \* what is stored at first: scans of versions that did
                    \* not normalise, or none
    Readers,        \* requests for a history or cluster view
    Windows, Current  \* lengths of history in days; the current view

(* A sequence of connections: a remote address is an ip in one of its      *)
(* forms, a listener has none.                                             *)
IsReport(rows) ==
    /\ rows \in Seq(Range(rows))
    /\ \A k \in DOMAIN rows :
          rows[k].remote \in [ip : Ips, mapped : BOOLEAN] \cup {NoAddress}

ASSUME HistoryConstants ==
    /\ KeptScans >= 2
    /\ \A report \in Reports : IsReport(report)
    /\ \A c \in Legacy : /\ c \in Seq(Range(c)) /\ Len(c) <= MaxScans
                         /\ \A i \in DOMAIN c : IsReport(c[i])

VARIABLES
    content,  \* content[i]: the records scan i was saved with, by id
    reader    \* the request each reader serves

historyVars == <<content, reader>>

Form(ip) == [ip |-> ip, mapped |-> FALSE]
Null == "null"

(* normalize_ip_address of an address a scan has stored                    *)
Normalize(form) == form.ip

-----------------------------------------------------------------------------
(***************************************************************************)
(* Saving a scan.                                                          *)
(***************************************************************************)
(* keep_connection_record                                                  *)
Keep(row) ==
    \/ row.remote = NoAddress
    \/ row.service \in Udp
    \/ row.state = "ESTAB"

(* add_scan_outcome: the records that are kept, normalised by the          *)
(* collector, with ids in the order of the report; a scan that failed has  *)
(* none.                                                                   *)
AddScanOutcome(d, report, success) ==
    /\ SaveScan(d, success)
    /\ content' = Append(content, IF success THEN RestrictValues(report, Keep) ELSE <<>>)
    /\ UNCHANGED reader

Succeeded == {i \in Present : scans[i].success}
Remotes(i) == {k \in DOMAIN content[i] : content[i][k].remote # NoAddress}

(* Mutant of SampleOf: the first record.                                   *)
FirstSample(same) == Min(same)

(* MAX(record.id)                                                          *)
SampleOf(same) == Max(same)

(* sync_service_observations: one row per service and remote address, with *)
(* the last of its records for a sample.                                   *)
ObservationsOf(i) ==
    {LET same == {k \in Remotes(i) : /\ content[i][k].service = key[1]
                                     /\ content[i][k].remote = key[2]}
     IN  [scan |-> i, device |-> scans[i].device, service |-> key[1],
          remote |-> key[2], sample |-> SampleOf(same),
          locals |-> {content[i][k].local : k \in same}]
       : key \in {<<content[i][k].service, content[i][k].remote>> : k \in Remotes(i)}}

Observations == UNION {ObservationsOf(i) : i \in Succeeded}

(* load_current_scans: the latest successful scan of each device.          *)
CurrentScans == {i \in Succeeded : Newer(i) = {}}

(* The order of rows: started_at, scan id, record id.                      *)
Before(i, k, j, l) == Older(i, j) \/ (i = j /\ k < l)

-----------------------------------------------------------------------------
(***************************************************************************)
(* aggregate_service_connections: what a service is when its raw records   *)
(* are gone through in order.  A loopback address is left out.             *)
(***************************************************************************)
AggregateRecords(ids, current) ==
    LET rows == {r \in UNION {{i} \X Remotes(i) : i \in ids} :
                    /\ scans[r[1]].raw
                    /\ Normalize(content[r[1]][r[2]].remote) # Loopback}
        key(r) == [device |-> scans[r[1]].device,
                   service |-> content[r[1]][r[2]].service,
                   ip |-> Normalize(content[r[1]][r[2]].remote)]
        bucket(k) ==
            LET same == {r \in rows : key(r) = k}
                last == CHOOSE r \in same : \A q \in same :
                            q = r \/ Before(q[1], q[2], r[1], r[2])
            IN  [key |-> k,
                 scanIds |-> {r[1] : r \in same},
                 firstSeen |-> Min({scans[r[1]].started : r \in same}),
                 lastSeen |-> scans[last[1]].started,
                 isCurrent |-> {r[1] : r \in same} \cap current # {},
                 sample |-> last,
                 state |-> content[last[1]][last[2]].state,
                 locals |-> {content[r[1]][r[2]].local : r \in same}]
    IN  {bucket(key(r)) : r \in rows}

-----------------------------------------------------------------------------
(***************************************************************************)
(* _aggregate_observation_groups: the same from observations.              *)
(***************************************************************************)
(* Mutant of InWindow: a current scan that has left the window is lost.    *)
WindowOnly(o, window, now, current) ==
    IF window = Current THEN o.scan \in current
    ELSE scans[o.scan].started + window >= now

(* The conditions both of its aggregate queries use.                       *)
InWindow(o, window, now, current) ==
    \/ o.scan \in current
    \/ window # Current /\ scans[o.scan].started + window >= now

RawKey(o) == [device |-> o.device, service |-> o.service, remote |-> o.remote]

(* First query: group by the address as stored.                            *)
GroupsOf(obs) ==
    {LET same == {o \in obs : RawKey(o) = k}
         last == CHOOSE o \in same : \A q \in same :
                    q = o \/ Before(q.scan, q.sample, o.scan, o.sample)
     IN  [key |-> k,
          firstSeen |-> Min({scans[o.scan].started : o \in same}),
          lastSeen |-> Max({scans[o.scan].started : o \in same}),
          sample |-> <<last.scan, last.sample>>,
          scanIds |-> {o.scan : o \in same}]
       : k \in {RawKey(o) : o \in obs}}

(* Second query: the local addresses of each group, none if it is gone.    *)
LocalsOf(obs) ==
    [k \in {RawKey(o) : o \in obs} |->
        UNION {o.locals : o \in {q \in obs : RawKey(q) = k}}]

LocalsFor(locals, k) == IF k \in DOMAIN locals THEN locals[k] ELSE {}

(* Mutant of Usable: no stand-in is made for a sample.                     *)
SampleOnly(g, locals, samples) == g.sample \in samples

(* A group has its sample record, or _degraded_sample makes a stand-in.    *)
Usable(g, locals, samples) ==
    \/ g.sample \in samples
    \/ LocalsFor(locals, g.key) # {}

GroupKey(g) == [device |-> g.key.device, service |-> g.key.service,
                ip |-> Normalize(g.key.remote)]

(* The groups of one normalised address become one bucket.                 *)
MergeGroups(groups, locals, samples, current) ==
    LET rows == {g \in groups : /\ Normalize(g.key.remote) # Loopback
                                /\ Usable(g, locals, samples)}
        bucket(k) ==
            LET same == {g \in rows : GroupKey(g) = k}
                ids  == UNION {g.scanIds : g \in same}
                last == CHOOSE g \in same : \A q \in same :
                            q = g \/ Before(q.sample[1], q.sample[2],
                                            g.sample[1], g.sample[2])
                s    == last.sample
            IN  [key |-> k,
                 scanIds |-> ids,
                 firstSeen |-> Min({g.firstSeen : g \in same}),
                 lastSeen |-> Max({g.lastSeen : g \in same}),
                 isCurrent |-> ids \cap current # {},
                 sample |-> s,
                 state |-> IF s \in samples THEN content[s[1]][s[2]].state ELSE Null,
                 locals |-> UNION {LocalsFor(locals, g.key) : g \in same}]
    IN  {bucket(GroupKey(g)) : g \in rows}

(* Third query: which of the sample records are there.                     *)
SamplesOf(groups) == {g.sample : g \in {h \in groups : scans[h.sample[1]].raw}}

(* All three at one moment.                                                *)
Aggregate(obs, current) ==
    MergeGroups(GroupsOf(obs), LocalsOf(obs), SamplesOf(GroupsOf(obs)), current)

(* build_topology of scan i: an edge per remote address with its services, *)
(* and the listeners among the records.                                    *)
BuildTopology(i, services) ==
    [edges |-> {LET rows == {s \in services : s.key.ip = ip}
                IN  [remote |-> ip, connections |-> rows,
                     currentCount |-> Cardinality({s \in rows : s.isCurrent}),
                     count |-> Cardinality(rows)]
                  : ip \in {s.key.ip : s \in services}},
     listeners |-> {k \in DOMAIN content[i] : scans[i].raw /\ k \notin Remotes(i)}]

-----------------------------------------------------------------------------
(***************************************************************************)
(* A request, query by query.                                              *)
(***************************************************************************)
NoRead == [pc |-> "idle", window |-> Current, now |-> 0, current |-> {},
           seen |-> 0, groups |-> {}, locals |-> <<>>, shown |-> {}]

Candidates(r) ==
    {o \in Observations : InWindow(o, r.window, r.now, r.current)}

SetReader(q, r) ==
    /\ reader' = [reader EXCEPT ![q] = r]
    /\ UNCHANGED <<retentionVars, content>>

LoadCurrentScans(q, window) ==
    /\ reader[q].pc = "idle"
    /\ SetReader(q, [NoRead EXCEPT !.pc = "groups", !.window = window,
                                   !.current = CurrentScans])

(* seen, the last scan of that moment, is history for the property below.  *)
QueryGroups(q) ==
    /\ reader[q].pc = "groups"
    /\ LET r == [reader[q] EXCEPT !.now = day, !.seen = Len(scans)]
           groups == GroupsOf(Candidates(r))
       IN  SetReader(q, [r EXCEPT !.pc = IF groups = {} THEN "done" ELSE "locals",
                                  !.groups = groups])

QueryLocals(q) ==
    /\ reader[q].pc = "locals"
    /\ SetReader(q, [reader[q] EXCEPT !.pc = "samples",
                                      !.locals = LocalsOf(Candidates(reader[q]))])

QuerySamples(q) ==
    /\ reader[q].pc = "samples"
    /\ LET r == reader[q]
       IN  SetReader(q, [r EXCEPT
              !.pc = "done", !.groups = {}, !.locals = <<>>,
              !.shown = MergeGroups(r.groups, r.locals, SamplesOf(r.groups),
                                    r.current)])

Answer(q) ==
    /\ reader[q].pc = "done"
    /\ SetReader(q, NoRead)

ReaderStep(q) ==
    \/ \E window \in Windows \cup {Current} : LoadCurrentScans(q, window)
    \/ QueryGroups(q) \/ QueryLocals(q) \/ QuerySamples(q) \/ Answer(q)

-----------------------------------------------------------------------------
(***************************************************************************)
(* GET /scans/{id}/diff                                                    *)
(***************************************************************************)
(* The successful scan before i, as the request looks for it.              *)
Previous(i) ==
    LET before == {j \in Succeeded : /\ scans[j].device = scans[i].device
                                    /\ scans[j].started < scans[i].started}
    IN  {j \in before : \A k \in before : scans[k].started <= scans[j].started}

(* connection_key of the records of a scan                                 *)
ConnectionKeys(i) ==
    {[service |-> row.service, local |-> row.local,
      remote |-> IF row.remote = NoAddress THEN NoAddress ELSE Normalize(row.remote)]
       : row \in Range(content[i])}

(* diff_scans of what the two scans have left                              *)
DiffScans(i, j) ==
    LET keys(s) == IF scans[s].raw THEN ConnectionKeys(s) ELSE {}
    IN  [added |-> keys(j) \ keys(i), removed |-> keys(i) \ keys(j)]

-----------------------------------------------------------------------------
HistoryInit ==
    /\ day = 0
    /\ purge = [p \in Purgers |-> NoPurge]
    /\ content \in Legacy
    /\ scans \in [DOMAIN content ->
          [device : Scanned, success : {TRUE}, started : {0},
           raw : {TRUE}, here : {TRUE}]]
    /\ \A i, j \in DOMAIN scans : scans[i].device = scans[j].device => i = j
    /\ reader = [q \in Readers |-> NoRead]

HistoryTypeOK ==
    /\ RetentionTypeOK
    /\ DOMAIN content = DOMAIN scans
    /\ \A q \in Readers :
          /\ reader[q].pc \in {"idle", "groups", "locals", "samples", "done"}
          /\ reader[q].current \subseteq DOMAIN scans
          /\ reader[q].seen \in 0..Len(scans)

HistoryNext ==
    \/ \E d \in Scanned, report \in Reports, success \in BOOLEAN :
          AddScanOutcome(d, report, success)
    \/ NextDay /\ UNCHANGED historyVars
    \/ \E p \in Purgers :
          /\ StartPurge(p) \/ PurgeStep(p) \/ PurgeFails(p)
          /\ UNCHANGED historyVars
    \/ \E q \in Readers : ReaderStep(q)

allVars == <<retentionVars, historyVars>>

Spec == HistoryInit /\ [][HistoryNext]_allVars

-----------------------------------------------------------------------------
ScansIn(window) ==
    {i \in Succeeded : \/ i \in CurrentScans
                       \/ window # Current /\ scans[i].started + window >= day}

Idle == \A q \in Readers : reader[q].pc = "idle"

(* The SQL aggregation over observations gives what the Python one makes   *)
(* of the raw records (test_sql_history_matches_python_aggregation), for   *)
(* every window whose raw records are still there.  Reads change nothing,  *)
(* so the moments without one are all there is to check.                   *)
SqlMatchesPython ==
    Idle => \A window \in Windows :
        (\A i \in ScansIn(window) : scans[i].raw) =>
            Aggregate({o \in Observations : InWindow(o, window, day, CurrentScans)},
                      CurrentScans)
              = AggregateRecords(ScansIn(window), CurrentScans)

(* The current view of a device, made from raw records, shows the services *)
(* and counts that its observations hold, and all listeners, at every      *)
(* moment of every purge.                                                  *)
CurrentViewsAgree ==
    Idle => \A i \in CurrentScans :
        LET view == BuildTopology(i, AggregateRecords({i}, {i}))
        IN  /\ view = BuildTopology(i, Aggregate(
                         {o \in Observations : /\ InWindow(o, Current, day, {i})
                                               /\ o.device = scans[i].device}, {i}))
            /\ view.listeners = DOMAIN content[i] \ Remotes(i)

(* The diff of a device's latest scan compares two whole scans: neither    *)
(* has lost its records to the purge (scheduler.py on the raw retention:   *)
(* the latest successful scan and the one before it).                      *)
LatestDiffIsWhole ==
    \A j \in CurrentScans : \A i \in Previous(j) :
        DiffScans(i, j) = [added   |-> ConnectionKeys(j) \ ConnectionKeys(i),
                           removed |-> ConnectionKeys(i) \ ConnectionKeys(j)]

(* A history view shows every service of every scan that was in its window *)
(* when it asked and is still stored when it answers, with that scan       *)
(* counted, although purges took raw records or other scans away between   *)
(* its queries (_degraded_sample: the group stays visible).                *)
StoredIsShown ==
    \A q \in Readers : reader[q].pc = "done" =>
        LET r == reader[q] IN
        \A o \in Observations :
            /\ o.scan <= r.seen
            /\ InWindow(o, r.window, r.now, r.current)
            /\ Normalize(o.remote) # Loopback
            => \E s \in r.shown :
                  /\ s.key = [device |-> o.device, service |-> o.service,
                              ip |-> Normalize(o.remote)]
                  /\ o.scan \in s.scanIds
                  /\ scans[o.scan].started \in s.firstSeen..s.lastSeen
                  /\ o.scan \in r.current => s.isCurrent

=============================================================================
