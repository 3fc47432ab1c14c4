CONSTANTS
    EntryPoints = {ep1}
    Ops <- MCOps
    Payers <- MCPayers
    MaxBundle = 2
    RequiredPreFund = 2
    Stake = 4
    MaxTime = 2
    MaxApprovals = 2
    MaxFunding = 5
    Version = 0
    Tokens = {"weth", "usdc"}
    SelfSpendable = {"weth"}
    MaxTokens = 1
SPECIFICATION Spec
PROPERTY SignatureLengthSupported
