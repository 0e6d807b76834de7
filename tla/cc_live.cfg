SPECIFICATION FairSpec
CONSTANTS
    r1 = r1
    r2 = r2
    v1 = v1
    v2 = v2
    o1 = o1
    o2 = o2
    Requests = {r1, r2}
    Absent = Absent
    NoPackage = NoPackage
    Units <- SmallAndWide
    UnitSetName <- UnitSetNames
    Clusters = {"a"}
    Versions = {v1}
    Topologies = {"small"}
    Options = {o1, o2}
    KeeperOptions <- OneKeeperPart
    BodyOf <- TwoOptions
    Foreign <- NoForeign
    InitialPackage <- Small
    MaxFaults = 1
    MaxInstalls = 0
    MaxDeletes = 0
INVARIANTS
    LeftoversNeverConflict
PROPERTIES
    RepeatingSucceeds
