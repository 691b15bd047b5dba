SPECIFICATION FairSpec
CONSTANTS
    Rows = {1, 2}
    k1 = k1
    k2 = k2
    k3 = k3
    Keys = {k1, k2, k3}
    Existing = {k3}
    Sheets <- MCSheets
    Workers = {w1, w2}
    Slots = {s1}
    NoWorker = NoWorker
    Limits = {1, 2}
    LeaseTicks = 2
    MaxFaults = 2
    Mortal = {w1}
INVARIANTS
    TestCap
    OneFirstScan
    RowsAccounted
PROPERTIES
    SettledByOwner
    EveryRowTested
CHECK_DEADLOCK FALSE
