SPECIFICATION Spec
CONSTANTS
    r1 = r1
    r2 = r2
    v1 = v1
    v2 = v2
    o1 = o1
    o2 = o2
    Requests = {r1, r2}
    Absent = Absent
    NoPackage = NoPackage
    Units <- SmallAndWide
    UnitSetName <- UnitSetNames
    Clusters = {"a"}
    Versions = {v1, v2}
    Topologies = {"small", "wide"}
    Options = {o1}
    KeeperOptions <- OneKeeperPart
    BodyOf <- TwoVersions
    Foreign <- OneForeign
    InitialPackage <- SmallThenWide
    MaxFaults = 1
    MaxInstalls = 1
    MaxDeletes = 1
INVARIANTS
    TypeOK
    OneAccepted
    AcceptedIsBuilt
    ServerStandsOnKeeper
    LeftoversAreAPrefix
PROPERTIES
    CreatesAreARegistry
