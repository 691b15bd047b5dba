SPECIFICATION Spec
CONSTANTS
    Tasks = {1}
    Priority <- MCPriority
    Workers = {w1, w2}
    Slots = {s1, s2}
    NoWorker = NoWorker
    LeaseTicks = 1
    MaxFaults = 1
    MaxCrashes = 1
    SlowTransactions = TRUE
    TimelyHeartbeats = FALSE
CONSTRAINT TwoExecutions
SYMMETRY ProcessSymmetry
INVARIANTS
    TypeOK
    LockedRowStaysOwned
    RecordedOnce
PROPERTIES
    SettledByOwner
    ImplementsQueue
CHECK_DEADLOCK FALSE
