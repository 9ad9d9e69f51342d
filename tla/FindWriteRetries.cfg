SPECIFICATION Spec
CONSTANTS
    Configurations <- OfAerospike
    RequestTTLs <- MCRequestTTLs
    MaxRecords = 0
    Half <- MCHalf
    ThirtyDays <- MCThirtyDays
    Now <- MCNow
INVARIANT WriteRetriesApply
CHECK_DEADLOCK FALSE
