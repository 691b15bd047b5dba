SPECIFICATION Spec
CONSTANTS
    Tasks = {1}
    Priority <- MCPriority
    Workers = {w1}
    Slots = {s1, s2}
    NoWorker = NoWorker
    LeaseTicks = 1
    MaxFaults = 0
    MaxCrashes = 0
    SlowTransactions = FALSE
    TimelyHeartbeats = FALSE
INVARIANTS
    CollectionIsRenewed
CHECK_DEADLOCK FALSE
