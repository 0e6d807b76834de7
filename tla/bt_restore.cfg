SPECIFICATION FairSpec
CONSTANTS
    c1 = c1
    NoTable = NoTable
    Clients = {c1}
    Tables = {"events", "copy"}
    Given = {"weekly"}
    Asked <- OneTarget
    ScheduledTables = {}
    MaxTasks = 2
    MaxSeconds = 0
    MaxFaults = 1
    MaxDdl = 1
INVARIANTS
    TypeOK
    ShownSuccessIsReal
PROPERTIES
    TargetsAreClaimed
    EndedStatusIsFinal
    TaskIsSeenToEnd
CHECK_DEADLOCK FALSE
