SPECIFICATION HangSpec
CONSTANTS
    t1 = t1
    t2 = t2
    t3 = t3
    t4 = t4
    t5 = t5
    Threads = {t1, t2, t3, t4, t5}
    Mixes <- AllHandlers
    Capacity = 2
    MaxRetries = 1
INVARIANTS
    RemoteHoldsLittle
PROPERTIES
    HangingBlocksNobody
CHECK_DEADLOCK FALSE
