--------------------------- MODULE MCDbAdmission ---------------------------
(* Instances of DbAdmission for TLC.                                       *)
EXTENDS DbAdmission

CONSTANTS t1, t2, t3, t4, t5

(* Each thread executes another handler; one mix has as many deletions as  *)
(* there are slots.                                                        *)
Scans ==
    [x \in Threads |-> CASE x = t1 -> "delete"
                         [] x = t2 -> "scan"
                         [] x = t3 -> "execute"
                         [] x = t4 -> "heartbeat"
                         [] x = t5 -> "update"]
Imports ==
    [x \in Threads |-> CASE x = t1 -> "delete"
                         [] x = t2 -> "import"
                         [] x = t3 -> "schedule"
                         [] x = t4 -> "read"
                         [] x = t5 -> "create"]
Deletions ==
    [x \in Threads |-> CASE x = t1 -> "delete"
                         [] x = t2 -> "delete"
                         [] x = t3 -> "schedule"
                         [] x = t4 -> "update"
                         [] x = t5 -> "execute"]
AllHandlers == {Scans, Imports, Deletions}

(* As many deletions as slots, and a scheduled scan to enqueue.            *)
ManyDeletions == {[x \in Threads |-> IF x = t1 THEN "schedule" ELSE "delete"]}

(* Devices are changed while others are scanned.                           *)
Updates == {[x \in Threads |-> IF x = t1 THEN "update" ELSE "execute"]}
=============================================================================
