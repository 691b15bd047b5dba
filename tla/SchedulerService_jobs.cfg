\* Two processes that stay up and one request; no scans and no purge.
SPECIFICATION Spec
CONSTANTS
    p1 = p1
    p2 = p2
    d1 = d1
    Processes = {p1, p2}
    Mortal = {}
    Nobody = Nobody
    Devices = {d1}
    MaxDrops = 0
    MaxEdits = 1
    Purgers = {}
    Scanned = {d1}
    RawDays = 0
    DeviceDays <- MCDeviceDays
    ClusterDays <- MCClusterDays
    SystemDays = 3
    Unset = Unset
    KeptScans = 1
    ChunkSize = 1
    MaxScans = 0
    MaxDay = 0
INVARIANTS
    JobsFollowDevices
CHECK_DEADLOCK FALSE
