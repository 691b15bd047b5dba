SPECIFICATION Spec
CONSTANTS
    Rows = {1, 2}
    k1 = k1
    k2 = k2
    k3 = k3
    Keys = {k1, k2, k3}
    Existing = {k3}
    Sheets <- MCSheets
    Workers = {w1, w2}
    Slots = {s1}
    NoWorker = NoWorker
    Limits = {2}
    LeaseTicks = 1
    MaxFaults = 2
    Mortal = {w1}
PROPERTIES
    ResultsAreFinal
CHECK_DEADLOCK FALSE
