\* Two processes, one of which may die or stop; one lost connection or
\* failing election; and either one request, or two scans on four days and
\* purges of several chunks by the process that may lose the lock.
SPECIFICATION FairSpec
CONSTANTS
    p1 = p1
    p2 = p2
    d1 = d1
    Processes = {p1, p2}
    Mortal = {p1}
    Nobody = Nobody
    Devices = {d1}
    MaxDrops = 1
    MaxEdits = 1
    Purgers = {p1}
    Scanned = {d1}
    RawDays = 0
    DeviceDays <- MCDeviceDays
    ClusterDays <- MCClusterDays
    SystemDays = 3
    Unset = Unset
    KeptScans = 1
    ChunkSize = 1
    MaxScans = 2
    MaxDay = 3
ACTION_CONSTRAINT RequestOrPurge
INVARIANTS
    OnlyHolderStays
    LeaderFollowsItsRequests
PROPERTIES
    LoserYields
    SomeoneLeads
    PurgeEnds
CHECK_DEADLOCK FALSE
