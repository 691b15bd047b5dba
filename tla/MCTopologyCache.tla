-------------------------- MODULE MCTopologyCache --------------------------
(* TopologyCache for TLC: one key, since keys do not interact.             *)
EXTENDS TopologyCache

CONSTANTS k1, x1, x2, x3

OneKey == {k1}
ThreeThreads == {x1, x2, x3}
=============================================================================
