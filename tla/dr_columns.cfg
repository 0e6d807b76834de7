SPECIFICATION Spec
CONSTANTS
    Thresholds <- MCThresholds
    Rows <- MCRows
    MaxRows = 2
    MaxLimit = 2
    DefaultLimit = 1
    MaxKeepers = 2
    ExpectedPVCs = 2
INVARIANT QueueThresholdIsReported
CHECK_DEADLOCK FALSE
