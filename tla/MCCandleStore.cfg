SPECIFICATION Spec
CONSTANTS
    None = None
    Timeframes <- MCTimeframes
    Prices = {1, 2}
    Points = 2
    Horizon = 4
    MaxTicks = 3
    MaxDelay = 1
    MaxCalls = 1
    MaxFaults = 1
    Asked <- MCAsked
    Offsets <- MCOffsets
    Absent <- MCAbsent
CHECK_DEADLOCK FALSE
INVARIANTS
    TypeOK
    RowsAreBars
    NoGaps
    AnswerIsFresh
PROPERTIES
    RowsNeverChange
