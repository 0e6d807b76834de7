SPECIFICATION Spec
CONSTANTS
    c1 = c1
    NoTable = NoTable
    Clients = {c1}
    Tables = {"events"}
    Given = {"weekly"}
    Asked <- Defaults
    ScheduledTables = {"events"}
    MaxTasks = 2
    MaxSeconds = 1
    MaxFaults = 1
    MaxDdl = 0
INVARIANTS
    ShownSuccessIsReal
    ScheduledPathIsFree
CHECK_DEADLOCK FALSE
