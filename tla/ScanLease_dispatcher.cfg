SPECIFICATION FairSpec
CONSTANTS
    Tasks = {1}
    Priority <- MCPriority
    Workers = {w1, w2}
    Slots = {s1}
    NoWorker = NoWorker
    LeaseTicks = 2
    MaxFaults = 1
    MaxCrashes = 1
    SlowTransactions = FALSE
    TimelyHeartbeats = TRUE
PROPERTIES
    Takeover
CHECK_DEADLOCK FALSE
