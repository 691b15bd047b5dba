SPECIFICATION Spec
CONSTANTS
    Rows = {1}
    k1 = k1
    k2 = k2
    k3 = k3
    Keys = {k1, k2, k3}
    Existing = {k3}
    Sheets <- OneDevice
    Workers = {w1, w2}
    Slots = {s1}
    NoWorker = NoWorker
    Limits = {2}
    LeaseTicks = 1
    MaxFaults = 1
    Mortal = {w1}
INVARIANTS
    TestedIsScanned
CHECK_DEADLOCK FALSE
