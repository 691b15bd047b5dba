SPECIFICATION FairSpec
CONSTANTS
    Tasks = {1, 2}
    Priority <- MCPriority
    Workers = {w1, w2}
    Slots = {s1}
    NoWorker = NoWorker
    LeaseTicks = 2
    MaxFaults = 0
    MaxCrashes = 1
    SlowTransactions = FALSE
    TimelyHeartbeats = TRUE
INVARIANTS
    RunningCap
    RemoteCap
    OneExecution
    ShutdownLeavesNothing
PROPERTIES
    Takeover
    EveryTaskSettles
CHECK_DEADLOCK FALSE
