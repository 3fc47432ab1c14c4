CONSTANTS
    ep1 = ep1
    ep2 = ep2
    k1 = k1
    k2 = k2
    g1 = g1
    EntryPoints = {ep1, ep2}
    Keys = {k1, k2}
    Salts <- MCSalts
    Guardians = {g1}
    Ops <- MCOps
    Payers <- MCPayers
    MaxBundle = 2
    RequiredPreFund = 1
    Stake = 0
    MaxEth = 2
SPECIFICATION Spec
INVARIANTS
    TypeOK
    AtMostOnce
    SignedByKeyAtStart
    LossBounded
PROPERTIES
    ControlChangesAuthorised
