SPECIFICATION Spec
CONSTANTS
    Tasks = {1, 2}
    Priority <- MCPriority
    Workers = {w1, w2}
    Slots = {s1}
    NoWorker = NoWorker
    LeaseTicks = 1
    MaxFaults = 0
    MaxCrashes = 0
    SlowTransactions = FALSE
    TimelyHeartbeats = FALSE
INVARIANTS
    RemoteCap
CHECK_DEADLOCK FALSE
