SPECIFICATION Spec
CONSTANTS
    Requests = {r1, r2}
    NoRequest = NoRequest
    s1 = s1
    s2 = s2
    c1 = c1
    c2 = c2
    Servers = {s1}
    Clusters = {c1}
    ServerOf <- OneServer
    ClusterOf <- OneCluster
    NumPods = 3
    ShardOf <- TwoShards
    MaxCrashes = 0
    MaxDrifts = 0
SYMMETRY Symmetry
INVARIANTS
    FailIsExplained
    PassMeansReplicated
PROPERTIES
    DriftedTableUntouched
