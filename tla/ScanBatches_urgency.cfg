SPECIFICATION Spec
CONSTANTS
    r1 = r1
    r2 = r2
    p1 = p1
    p2 = p2
    Devices = {1, 2}
    Processes = {p1, p2}
    Requests = {r1, r2}
    ProcessOf <- TwoProcesses
    Sessions = {s1}
    Priorities = {10, 20, 30}
    BatchPriority = 20
    QueueSize = 1
    MaxTasks = 2
    MaxBatches = 1
    Deletions = TRUE
SYMMETRY SessionSymmetry
PROPERTIES
    PriorityOnlyRises
CHECK_DEADLOCK FALSE
