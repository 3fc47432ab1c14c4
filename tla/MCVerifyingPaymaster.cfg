CONSTANTS
    EntryPoints = {ep1}
    Ops <- MCOps
    Payers <- MCPayers
    MaxBundle = 2
    RequiredPreFund = 2
    Stake = 4
    MaxTime = 2
    MaxApprovals = 3
    MaxFunding = 5
SPECIFICATION VerifyingSpec
INVARIANTS
    SponsorTypeOK
    GrantsApproved
    OneGrantPerReading
    OneOpPerSenderPerBundle
    ExposureBounded
