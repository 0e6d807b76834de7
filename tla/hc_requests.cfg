SPECIFICATION FairSpec
CONSTANTS
    Requests = {r1, r2}
    NoRequest = NoRequest
    s1 = s1
    s2 = s2
    c1 = c1
    c2 = c2
    Servers = {s1}
    Clusters = {c1}
    ServerOf <- OneServer
    ClusterOf <- OneCluster
    NumPods = 1
    ShardOf <- OnePod
    MaxCrashes = 2
    MaxDrifts = 1
INVARIANTS
    TypeOK
    OneRunPerKey
    NoMutexIsLeft
    ReadYourWrites
PROPERTIES
    LatestMovesForward
    LatestIsRegister
    QuietDriftIsKept
    DoneRunWindsDown
    EveryRequestEnds
