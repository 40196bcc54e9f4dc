SPECIFICATION Spec
CONSTANTS
    RiskNum = 1
    RiskDen = 4
    Floor = 8
    SizeUnit = 4
    Balances <- SomeBalances
    Levels <- SomeLevels
    ATRs <- SomeATRs
INVARIANTS
    TypeOK
    SizeIsLargestInRisk
    StopKeepsFloor
CHECK_DEADLOCK FALSE
