SPECIFICATION Spec
CONSTANTS
    Prices = {1, 2, 3, 4, 5, 6, 7, 8, 9, 10, 11, 12, 13, 14, 15, 16, 17, 18, 19, 20, 21, 22}
    Trades <- SomeTrades
    TrailDistance = 6
    StepSize = 1
    TriggerNum = 3
    TriggerDen = 2
    Grid = 2
INVARIANTS
    BrokerNoLooser
    BreakevenLocked
    BreakevenReached
    TrailKeepsUp
PROPERTIES
    StopOnlyTightens
