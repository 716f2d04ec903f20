SPECIFICATION BackgroundFairSpec
CONSTANTS
    f1 = f1
    f2 = f2
    Flushes <- MCFlushes
    MaxEvents = 1
    MaxItems = 2
    Batch = 2
    MaxAttempts = 2
    i1 = i1
    i2 = i2
    Ingests = {i1, i2}
    Times = {1}
    Values = {1, 2, 3}
    Limits <- MCLimits
    MaxAlarms = 3
INVARIANTS
    ClaimsAreTrue
    GivenUpAtLimit
    OrderKept
    TypeOK
    AlarmTracksLast
    NeverSilenced
    MeterFollowsTag
PROPERTIES
    PendingSettles
    AlarmsReturn
CHECK_DEADLOCK FALSE
