SPECIFICATION Spec
CONSTANTS
    Tasks = {1, 2}
    Priority <- MCPriority
    Workers = {w1, w2}
    Slots = {s1}
    NoWorker = NoWorker
    LeaseTicks = 2
    MaxFaults = 0
    MaxCrashes = 0
    SlowTransactions = TRUE
    TimelyHeartbeats = TRUE
INVARIANTS
    RunningCap
CHECK_DEADLOCK FALSE
