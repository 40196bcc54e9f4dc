SPECIFICATION Spec
CONSTANTS
    None = None
    Interval = 2
    Stale = 10
    Grace = 4
    Limit = 60
    MaxDelay = 1
INVARIANTS
    SentWhileDark
PROPERTIES
    NoFalseAlarm
    NoRepeatedAlarm
