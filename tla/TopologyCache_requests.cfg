SPECIFICATION FairSpec
CONSTANTS
    k1 = k1
    x1 = x1
    x2 = x2
    x3 = x3
    Keys <- OneKey
    Threads <- ThreeThreads
    NoThread = NoThread
    TTL = 1
    MaxBuildTicks = 1
    MaxChanges = 1
    MaxLosses = 1
    PromptThreads = TRUE
INVARIANTS
    OneBuildPerKey
    StalenessBounded
PROPERTIES
    EveryRequestEnds
