--------------------------- MODULE MCScanBatches ---------------------------
(* Instances of ScanBatches for TLC.                                       *)
EXTENDS ScanBatches, TLC

CONSTANTS r1, r2, p1, p2

OneProcess   == [r \in Requests |-> p1]
TwoProcesses == [r \in Requests |-> IF r = r1 THEN p1 ELSE p2]

(* Threads that claim and settle are interchangeable.                      *)
SessionSymmetry == Permutations(Sessions)
=============================================================================
