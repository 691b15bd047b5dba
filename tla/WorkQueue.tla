----------------------------- MODULE WorkQueue -----------------------------
(***************************************************************************)
(* What the leased queues of the application promise, without leases,      *)
(* clocks, threads or transactions: an item belongs to at most one process *)
(* at a time, may pass from one process to another while it is unfinished, *)
(* and gets its result once, from the process it belongs to.  ScanLease    *)
(* (scan tasks) implements it; ImportPipeline (connection tests) does not: *)
(* ResultsAreFinal fails there.                                            *)
(***************************************************************************)
CONSTANTS
    Items,      \* units of work
    Workers,    \* processes
    Nobody,     \* the owner of an item that nobody works on
    Results     \* how an item can end

VARIABLES
    known,      \* the items that have been enqueued
    owner,      \* the process an item belongs to
    result      \* the result of an item, Unfinished before

queueVars == <<known, owner, result>>

Unfinished == "unfinished"
Open == {i \in known : result[i] = Unfinished}

(* Any set of items may wait from the beginning.                           *)
Init ==
    /\ known \in SUBSET Items
    /\ owner = [i \in Items |-> Nobody]
    /\ result = [i \in Items |-> Unfinished]

Add(i) ==
    /\ i \in Items \ known
    /\ known' = known \cup {i}
    /\ UNCHANGED <<owner, result>>

(* A process takes open items, waiting or another's; others lose theirs.   *)
(* When an owner may lose an item is the implementation's business.        *)
Grant(w) ==
    /\ \E taken, freed \in SUBSET Open :
          owner' = [i \in Items |-> IF i \in taken THEN w
                                    ELSE IF i \in freed THEN Nobody
                                    ELSE owner[i]]
    /\ UNCHANGED <<known, result>>

(* Only the owner ends an item, and with that gives it up.                 *)
Settle(w, i, r) ==
    /\ i \in Open /\ owner[i] = w
    /\ owner' = [owner EXCEPT ![i] = Nobody]
    /\ result' = [result EXCEPT ![i] = r]
    /\ UNCHANGED known

Next ==
    \/ \E i \in Items : Add(i)
    \/ \E w \in Workers :
         \/ Grant(w)
         \/ \E i \in Items, r \in Results : Settle(w, i, r)

Spec == Init /\ [][Next]_queueVars

=============================================================================
