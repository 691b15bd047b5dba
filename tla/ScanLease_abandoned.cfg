SPECIFICATION FairSpec
CONSTANTS
    Tasks = {1}
    Priority <- MCPriority
    Workers = {w1}
    Slots = {s1, s2}
    NoWorker = NoWorker
    LeaseTicks = 2
    MaxFaults = 2
    MaxCrashes = 1
    SlowTransactions = TRUE
    TimelyHeartbeats = FALSE
PROPERTIES
    AbandonedLeaseEnds
CHECK_DEADLOCK FALSE
