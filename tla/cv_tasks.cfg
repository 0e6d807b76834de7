SPECIFICATION Spec
CONSTANTS
    NumServers = 2
    NumTasks = 1
    NumKeepers = 1
    NumStrangers = 0
    NumStrangeKeepers = 0
    Place <- MCPlace
    MaxFaults = 0
INVARIANT TasksDoNotDisturb
