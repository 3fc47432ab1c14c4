CONSTANTS
    gasNFT = gasNFT
    otherNFT = otherNFT
    EntryPoints = {ep1}
    Ops <- MCOps
    Payers <- MCPayers
    MaxBundle = 2
    RequiredPreFund = 2
    Stake = 4
    MaxTime = 1
    MaxApprovals = 2
    MaxFunding = 4
    NFTs = {gasNFT, otherNFT}
    Limits <- MCLimits
    MaxCalls = 1
    MaxSupply = 2
SPECIFICATION Spec
INVARIANTS
    TypeOK
    WithinLimits
    ExecutedAreCounted
PROPERTIES
    QuotaReserved
