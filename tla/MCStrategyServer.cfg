SPECIFICATION FairSpec
CONSTANTS
    m1 = m1
    m2 = m2
    Markets <- TwoMarkets
    Listener = Listener
    Deals = {1, 2, 3}
    Interval = 2
    Duration = 1
    Balances <- SomeBalances
    OtherAccounts = {12}
    MaxBalance = 9
    MaxFires = 2
    MaxCommands = 2
    MaxDeaths = 1
    RiskNum = 1
    RiskDen = 4
    Floor = 8
    SizeUnit = 10
INVARIANTS
    FloorHoldsOneByOne
PROPERTIES
    EveryCommandRuns
    Quiesces
CHECK_DEADLOCK FALSE
