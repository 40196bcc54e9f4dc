SPECIFICATION Spec
CONSTANTS
    Signals <- Instant
    Prices = {2}
    Target = 2
    SpreadLimit = 1
    TriggerTimeout = 9
    CheckPeriod = 0
    CloseWindow = 2
    MonitorTimeout = 48
    CloseAt = 51
    Day = 144
    MaxTime = 53
    MaxConfirms = 1
    MaxSyncs = 1
    MaxCloseFails = 0
INVARIANT IntradayClosedAtClose
CHECK_DEADLOCK FALSE
