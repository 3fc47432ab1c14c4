CONSTANTS
    usdc = usdc
    usdt = usdt
    EntryPoints = {ep1}
    Ops <- MCOps
    Payers <- MCPayers
    MaxBundle = 2
    RequiredPreFund = 3
    Stake = 6
    MaxTime = 1
    MaxApprovals = 2
    MaxFunding = 7
    Tokens = {usdc, usdt}
    FeeLogics <- MCFeeLogics
    MaxTokens = 3
    PostOpGas = 1
SPECIFICATION Spec
INVARIANTS
    TypeOK
    FeesCoverGas
    OthersKeepTokens
