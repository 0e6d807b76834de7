SPECIFICATION Spec
CONSTANTS
    Thresholds <- MCThresholds
    Rows <- MCRows
    MaxRows = 2
    MaxLimit = 2
    DefaultLimit = 1
    MaxKeepers = 2
    ExpectedPVCs = 2
INVARIANTS
    TypeOK
    EveryCategoryOnce
    BlindIsNotHealthy
    OrderSurvivesLimit
CHECK_DEADLOCK FALSE
