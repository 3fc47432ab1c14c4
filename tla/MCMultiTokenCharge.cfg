CONSTANTS
    usdc = usdc
    usdt = usdt
    EntryPoints = {ep1}
    Ops <- MCOps
    Payers <- MCPayers
    MaxBundle = 2
    RequiredPreFund = 2
    Stake = 4
    MaxTime = 1
    MaxApprovals = 3
    MaxFunding = 5
    Tokens = {usdc, usdt}
    FeeLogics = {"fee1", "fee2"}
SPECIFICATION Spec
PROPERTY TransferSucceeds
