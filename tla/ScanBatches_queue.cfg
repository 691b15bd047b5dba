SPECIFICATION Spec
CONSTANTS
    r1 = r1
    r2 = r2
    p1 = p1
    p2 = p2
    Devices = {1, 2, 3}
    Processes = {p1, p2}
    Requests = {r1, r2}
    ProcessOf <- TwoProcesses
    Sessions = {}
    Priorities = {20, 30}
    BatchPriority = 20
    QueueSize = 1
    MaxTasks = 3
    MaxBatches = 1
    Deletions = TRUE
INVARIANTS
    QueueOverrunBounded
CHECK_DEADLOCK FALSE
