-------------------------- MODULE MCClusterTopology --------------------------
(* A small instance of ClusterTopology. *)
EXTENDS ClusterTopology, TLC

CONSTANTS a, b, lo, d1, d2, c1, c2, web, dns, x, y, p1, p2, q1

Connection(service, remote, state, local) ==
    [service |-> service, remote |-> remote, state |-> state, local |-> local]
Mapped(ip) == [ip |-> ip, mapped |-> TRUE]

(* Two connections of one service; a service beside a transient connection, *)
(* a loopback one and a listener.                                           *)
MCReports ==
    {<<Connection(web, Form(a), "ESTAB", x), Connection(web, Form(a), "ESTAB", y)>>,
     <<Connection(web, Form(b), "ESTAB", x), Connection(web, Form(a), "TIME-WAIT", x),
       Connection(dns, Form(lo), "NONE", x), Connection(web, NoAddress, "LISTEN", x)>>}

(* One address in both forms, one in the other form only.                   *)
MCLegacy == {<<<<Connection(web, Mapped(a), "ESTAB", y),
                 Connection(web, Form(a), "ESTAB", x),
                 Connection(web, Mapped(b), "ESTAB", x)>>>>}

Inventory(cluster1, cluster2, host1, host2, internal1) ==
    [cluster  |-> (d1 :> cluster1 @@ d2 :> cluster2),
     host     |-> (d1 :> host1 @@ d2 :> host2),
     internal |-> (c1 :> internal1 @@ c2 :> {})]

(* Two clusters; one cluster with an internal network; a device without a   *)
(* cluster; one address of two devices.                                     *)
MCInventories ==
    {Inventory(c1, c2, {a}, {b}, {}),
     Inventory(c1, c1, {a}, {}, {b}),
     Inventory(c1, NoCluster, {a}, {b}, {b}),
     Inventory(c1, c2, {a}, {a, b}, {a})}

MCDeviceDays  == (d1 :> 1 @@ d2 :> Unset)
MCClusterDays == (d1 :> 2 @@ d2 :> Unset)

MCFilters == {[services |-> {web, dns}, state |-> AnyState],
              [services |-> {web}, state |-> "ESTAB"]}

PurgerSymmetry == Permutations(Purgers)

(* A request is read beside one purge, and two purges run together on the  *)
(* last day without one.  The second device is scanned once.               *)
Scenario ==
    /\ \/ Cardinality({p \in Purgers : ~At(p, "idle")}) <= 1
       \/ Idle /\ day = MaxDay
    /\ Cardinality({i \in DOMAIN scans : scans[i].device = d2}) <= 1
=============================================================================
