SPECIFICATION Spec
CONSTANTS
    t1 = t1
    t2 = t2
    t3 = t3
    t4 = t4
    t5 = t5
    Threads = {t1, t2, t3}
    Mixes <- Updates
    Capacity = 2
    MaxRetries = 1
INVARIANTS
    RemoteHoldsNothing
CHECK_DEADLOCK FALSE
