SPECIFICATION FairSpec
CONSTANTS
    Tasks <- TwoTasks
    MaxTokens = 7
    MaxClients = 5
    MaxFaults = 3
    InitStores <- OwnOrShared
INVARIANTS
    TypeOK
    NeverTwice
    NoOlderLogin
PROPERTY Heals
