SPECIFICATION Spec
CONSTANTS
    r1 = r1
    r2 = r2
    p1 = p1
    p2 = p2
    Devices = {1, 2}
    Processes = {p1, p2}
    Requests = {r1}
    ProcessOf <- OneProcess
    Sessions = {s1, s2}
    Priorities = {20, 30}
    BatchPriority = 20
    QueueSize = 2
    MaxTasks = 2
    MaxBatches = 2
    Deletions = TRUE
SYMMETRY SessionSymmetry
INVARIANTS
    CountersMatchItems
    CompletedIsSettled
CHECK_DEADLOCK FALSE
