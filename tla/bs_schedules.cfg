SPECIFICATION Spec
CONSTANTS
    Requests = {r1, r2}
    Pairs <- MCPairs
    Names <- MCNames
    ResourceName <- MCResourceName
    TooLong <- MCTooLong
    Unlabelled = Unlabelled
    Absent = Absent
    InitialCronJobs <- MCInitialCronJobs
    NoCall = NoCall
    MaxLate = 1
SYMMETRY MCSymmetry
INVARIANT TypeOK
PROPERTY ForeignCronJobsAreKept
PROPERTY PrivateScheduleIsKept
PROPERTY SchedulesAreARegistry
