------------------------- MODULE MCSchedulerService -------------------------
(* Small instances of SchedulerService. *)
EXTENDS SchedulerService

CONSTANTS p1, p2, d1

MCDeviceDays  == [d \in Devices |-> Unset]
MCClusterDays == [d \in Devices |-> 1]

(* Requests and purges share no state.  A behaviour has one or the other,  *)
(* beside every change of leader: a request comes while nothing is stored, *)
(* and no day begins, no scan and no purge after it.                       *)
RequestOrPurge ==
    /\ edits' # edits => day = 0 /\ scans = <<>> /\ \A p \in Purgers : At(p, "idle")
    /\ edits < MaxEdits =>
         /\ day' = day /\ Len(scans') = Len(scans)
         /\ \A p \in Purgers : At(p, "idle") => purge'[p] = purge[p]

=============================================================================
