\* Two devices, up to three scans, one of them perhaps of an older version,
\* two purges and a request.
SPECIFICATION Spec
CONSTANTS
    a = a
    b = b
    lo = lo
    d1 = d1
    d2 = d2
    c1 = c1
    c2 = c2
    web = web
    dns = dns
    x = x
    y = y
    p1 = p1
    p2 = p2
    q1 = q1
    Ips = {a, b, lo}
    Loopback = lo
    NoAddress = NoAddress
    Udp = {dns}
    Reports <- MCReports
    Legacy <- MCLegacy
    Readers = {q1}
    Windows = {1}
    Current = Current
    Clusters = {c1, c2}
    NoCluster = NoCluster
    Inventories <- MCInventories
    Filters <- MCFilters
    AnyState = AnyState
    Purgers = {p1, p2}
    Scanned = {d1, d2}
    RawDays = 0
    DeviceDays <- MCDeviceDays
    ClusterDays <- MCClusterDays
    SystemDays = 1
    Unset = Unset
    KeptScans = 2
    ChunkSize = 1
    MaxScans = 3
    MaxDay = 2
CONSTRAINT Scenario
SYMMETRY PurgerSymmetry
INVARIANTS
    LatestTwoReadable
    NothingOverdue
    SqlMatchesPython
    CurrentViewsAgree
    LatestDiffIsWhole
    StoredIsShown
    TargetGraphIsOneHop
    EdgeListsMatchGraph
CHECK_DEADLOCK FALSE
