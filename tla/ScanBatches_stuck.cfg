SPECIFICATION Spec
CONSTANTS
    r1 = r1
    r2 = r2
    p1 = p1
    p2 = p2
    Devices = {1}
    Processes = {p1, p2}
    Requests = {r1}
    ProcessOf <- OneProcess
    Sessions = {s1}
    Priorities = {20, 30}
    BatchPriority = 20
    QueueSize = 1
    MaxTasks = 1
    MaxBatches = 2
    Deletions = FALSE
SYMMETRY SessionSymmetry
INVARIANTS
    UnfinishedHasTask
CHECK_DEADLOCK FALSE
