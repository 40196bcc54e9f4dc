SPECIFICATION SensorSpec
CONSTANTS
    None = None
    Bids = {0, 100, 101, 102}
    ThresholdNum = 15
    ThresholdDen = 1000
    Window = 3
    Cooldown = 4
    Retry = 1
    MaxDelay = 1
PROPERTIES
    AlertsAreMoves
    MovesAreAlerted
