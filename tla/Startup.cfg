SPECIFICATION FairSpec
CONSTANTS
    Configurations <- MCConfigurations
    RequestTTLs <- MCRequestTTLs
    MaxRecords = 2
    Half <- MCHalf
    ThirtyDays <- MCThirtyDays
    Now <- MCNow
INVARIANTS
    TypeOK
    ValidIsConstructible
    PanicsOnlyOverNames
    LifeWithinLimit
    TighterLimitHolds
    SeriesExact
PROPERTIES
    SeriesPreloaded
    MetricsArePublished
    StartEnds
CHECK_DEADLOCK FALSE
