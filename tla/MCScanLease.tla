---------------------------- MODULE MCScanLease ----------------------------
(***************************************************************************)
(* ScanLease for TLC: two or three tasks whose priorities invert their     *)
(* creation order, and the symmetries of processes and threads.            *)
(***************************************************************************)
EXTENDS ScanLease, TLC

(* The scheduled priority for the first task, the manual one for the rest. *)
MCPriority == [t \in Tasks |-> IF t = 1 THEN 20 ELSE 100]

(* Bound: at most two executions at a time, of one process or of two.      *)
TwoExecutions ==
    Cardinality({x \in Workers \X Slots : pc[x[1]][x[2]] # "idle"}) <= 2

ProcessSymmetry == Permutations(Workers) \cup Permutations(Slots)

=============================================================================
