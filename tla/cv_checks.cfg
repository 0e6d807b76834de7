SPECIFICATION Spec
CONSTANTS
    NumServers = 2
    NumTasks = 1
    NumKeepers = 1
    NumStrangers = 1
    NumStrangeKeepers = 0
    Place <- MCPlace
    MaxFaults = 1
INVARIANTS
    TypeOK
    
    PassMeansAllUp
    ReadyIsOfServers
