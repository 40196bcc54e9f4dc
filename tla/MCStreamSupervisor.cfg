SPECIFICATION FairSpec
CONSTANTS
    None = None
    Markets = {"ftse", "spx"}
    InitialBackoff = 10
    MaxBackoff = 300
    MuteLinks = TRUE
    InitStores = {None, "good"}
INVARIANTS
    TypeOK
    AlertedExactlyAtCap
    LoginTriedThrice
PROPERTIES
    TicksComeBack
