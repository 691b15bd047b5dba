--------------------------- MODULE ClusterTopology ---------------------------
(***************************************************************************)
(* The cluster graph (services/topology.py): services become edges between *)
(* clusters, devices without a cluster and external addresses.             *)
(*                                                                         *)
(* inv is a ClusterGraphContext: the cluster of each device, the addresses *)
(* its host resolves to and the addresses inside each cluster's internal   *)
(* networks.                                                               *)
(***************************************************************************)
EXTENDS TopologyHistory

CONSTANTS
    Clusters, NoCluster,  \* cluster ids; None
    Inventories,          \* the contexts to check
    Filters, AnyState     \* filters of a request: the services whose protocol
                          \* and process match, and a state or AnyState

ASSUME ClusterConstants ==
    /\ NoCluster \notin Clusters
    /\ Inventories \subseteq [cluster  : [Scanned -> Clusters \cup {NoCluster}],
                              host     : [Scanned -> SUBSET Ips],
                              internal : [Clusters -> SUBSET Ips]]

MemberOf(inv, c) == {d \in Scanned : inv.cluster[d] = c}
Owners(inv, ip) == {d \in Scanned : ip \in inv.host[d]}

(* _managed_node_id                                                        *)
ManagedNode(inv, d) ==
    IF inv.cluster[d] # NoCluster THEN [kind |-> "cluster", id |-> inv.cluster[d]]
                                  ELSE [kind |-> "device", id |-> d]
External(ip) == [kind |-> "external", id |-> ip]
ClusterNode(c) == [kind |-> "cluster", id |-> c]

(* _is_cluster_internal_address                                            *)
InternalAddress(inv, ip, c) == c # NoCluster /\ ip \in inv.internal[c]

(* _service_edge_target: none for what stays inside, else one node.  An    *)
(* address with several owners is an external one.                         *)
EdgeTargets(inv, s) ==
    LET d       == s.key.device
        owners  == Owners(inv, s.key.ip)
        outside == {o \in owners \ {d} : \/ inv.cluster[d] = NoCluster
                                        \/ inv.cluster[o] # inv.cluster[d]}
    IN  IF Cardinality(owners) = 1 THEN {ManagedNode(inv, o) : o \in outside}
        ELSE IF owners = {} /\ InternalAddress(inv, s.key.ip, inv.cluster[d]) THEN {}
        ELSE {External(s.key.ip)}

(* group_cluster_edges                                                     *)
GroupEdges(inv, services) ==
    UNION {[source : {ManagedNode(inv, s.key.device)},
            target : EdgeTargets(inv, s) \ {ManagedNode(inv, s.key.device)},
            service : {s}] : s \in services}

(* filter_service_connections                                              *)
FilterServices(services, filter) ==
    {s \in services : /\ s.key.service \in filter.services
                      /\ filter.state \in {AnyState, s.state}}

(* aggregate_current_connections, aggregate_historical_connections with    *)
(* the observations that their conditions let through                      *)
ServicesWhere(window, candidates) ==
    Aggregate({o \in candidates : InWindow(o, window, day, CurrentScans)},
              CurrentScans)

Addresses(inv, S) == UNION {inv.host[d] : d \in S}

(* Mutant of StoredForms: the IPv4-mapped forms are forgotten.             *)
PlainForms(ips) == [ip : ips, mapped : {FALSE}]

(* The forms in which observations may have stored the addresses.          *)
StoredForms(ips) == [ip : ips, mapped : BOOLEAN]

(* build_cluster_topology without a target cluster: all edges, and a node  *)
(* for each cluster, device without one, and external target.              *)
FullGraph(inv, services) ==
    LET edges == GroupEdges(inv, services)
    IN  [edges |-> edges,
         nodes |-> {ClusterNode(c) : c \in Clusters}
                   \cup {ManagedNode(inv, d) : d \in MemberOf(inv, NoCluster)}
                   \cup {e.target : e \in {g \in edges : g.target.kind = "external"}}]

OneHop(c, edges) ==
    {e \in edges : ClusterNode(c) \in {e.source, e.target}}

(* build_cluster_topology with one: only observations of its members or of *)
(* their addresses, only its edges, and the nodes these have.              *)
TargetGraph(inv, window, filter, c) ==
    LET members == MemberOf(inv, c)
        candidates == {o \in Observations :
                          \/ o.device \in members
                          \/ o.remote \in StoredForms(Addresses(inv, members))}
        graph == FullGraph(inv, FilterServices(ServicesWhere(window, candidates), filter))
        edges == OneHop(c, graph.edges)
    IN  [edges |-> edges,
         nodes |-> graph.nodes \cap ({ClusterNode(c)} \cup
                      UNION {{e.source, e.target} : e \in edges})]

(* _node_source_devices                                                    *)
NodeDevices(inv, node) ==
    CASE node.kind = "cluster"  -> MemberOf(inv, node.id)
      [] node.kind = "device"   -> {node.id}
      [] node.kind = "external" -> {}

(* Mutant of TargetForms: only the first form of a managed address.        *)
TargetFormsPlain(inv, node) ==
    IF node.kind = "external" THEN {Form(node.id)}
    ELSE {Form(ip) : ip \in Addresses(inv, NodeDevices(inv, node))}

(* _node_target_addresses                                                  *)
TargetForms(inv, node) ==
    IF node.kind = "external" THEN {Form(node.id)}
    ELSE StoredForms(Addresses(inv, NodeDevices(inv, node)))

(* build_edge_connections                                                  *)
EdgeConnections(inv, window, filter, source, target) ==
    LET candidates == {o \in Observations :
                          /\ o.device \in NodeDevices(inv, source)
                          /\ o.remote \in TargetForms(inv, target)}
        edges == GroupEdges(inv, FilterServices(ServicesWhere(window, candidates), filter))
    IN  {e.service : e \in {g \in edges : g.source = source /\ g.target = target}}

-----------------------------------------------------------------------------
(* The graph of one cluster, built from the observations its query lets    *)
(* through, is the full graph seen from it: the same edges with the same   *)
(* services, and no edge without its nodes, for every inventory, window    *)
(* and filter.                                                             *)
TargetGraphIsOneHop ==
    Idle => \A window \in Windows \cup {Current} :
        LET all == ServicesWhere(window, Observations) IN
        \A inv \in Inventories, filter \in Filters, c \in Clusters :
            LET edges == OneHop(c, FullGraph(inv, FilterServices(all, filter)).edges)
            IN  TargetGraph(inv, window, filter, c) =
                  [edges |-> edges,
                   nodes |-> {ClusterNode(c)} \cup
                             UNION {{e.source, e.target} : e \in edges}]

(* The connections listed for an edge are those the graph counted on it    *)
(* (build_edge_connections: what the graph would place on this exact       *)
(* edge), for every target that is managed; for an external one as long as *)
(* no observation of it is stored in the IPv4-mapped form.                 *)
EdgeListsMatchGraph ==
    Idle => \A window \in Windows \cup {Current} :
        LET all == ServicesWhere(window, Observations) IN
        \A inv \in Inventories, filter \in Filters :
            LET edges == GroupEdges(inv, FilterServices(all, filter)) IN
            \A e \in edges :
                \/ /\ e.target.kind = "external"
                   /\ \E o \in Observations :
                         o.remote = [ip |-> e.target.id, mapped |-> TRUE]
                \/ EdgeConnections(inv, window, filter, e.source, e.target) =
                      {g.service : g \in {h \in edges :
                            h.source = e.source /\ h.target = e.target}}

=============================================================================
