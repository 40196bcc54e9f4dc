SPECIFICATION FairSpec
CONSTANTS
    Signals <- SomeSignals
    Prices = {0, 1, 2, 4}
    Target = 2
    SpreadLimit = 1
    TriggerTimeout = 1
    CheckPeriod = 1
    CloseWindow = 5
    MonitorTimeout = 5
    CloseAt = 6
    Day = 9
    MaxTime = 7
    MaxConfirms = 2
    MaxSyncs = 2
    MaxCloseFails = 1
INVARIANTS
    OneOrderPerSignal
    OrphanOnlyAfterFailure
    SyncsOnlyClosedPositions
    WatchedUntilClosed
    FlatAtClose
PROPERTIES
    NoLateOrder
    ImplementsLedger
    EndsUnlessSilent
CHECK_DEADLOCK FALSE
