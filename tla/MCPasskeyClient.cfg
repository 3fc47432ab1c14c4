SPECIFICATION Spec
CONSTANTS
    c1 = c1
    c2 = c2
    Clients <- MCClients
    Null = Null
    Empty = Empty
    Window = 1
    MaxClock = 3
    BaseFees = {0, 1}
    BundlerLimits <- MCBundlerLimits
    Stake = 24
    MaxNonce = 1
INVARIANTS
    TypeOK
    SubmittedAsSigned
    CompletedMeansAccepted
    PaysBaseFeeOnly
PROPERTIES
    EveryRunEnds
CHECK_DEADLOCK FALSE
