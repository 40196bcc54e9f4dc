SPECIFICATION FairSpec
CONSTANTS
    None = None
    Markets = {"ftse"}
    InitialBackoff = 10
    MaxBackoff = 40
    MuteLinks = FALSE
    InitStores = {None}
PROPERTIES
    StreamsAlways
