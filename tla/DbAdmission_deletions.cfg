SPECIFICATION FairSpec
CONSTANTS
    t1 = t1
    t2 = t2
    t3 = t3
    t4 = t4
    t5 = t5
    Threads = {t1, t2, t3}
    Mixes <- ManyDeletions
    Capacity = 2
    MaxRetries = 1
PROPERTIES
    EveryHandlerEnds
CHECK_DEADLOCK FALSE
