SPECIFICATION Spec
CONSTANTS
    Plans <- MCPlans
    Networks <- MCNetworks
    MaxAttempts = 2
    MaxFaults = 2
INVARIANTS
    TypeOK
    PaymasterFunded
    LossExplained
    AccountsHaveRegistry
    DocumentedAddresses
PROPERTIES
    DepositArrives
CHECK_DEADLOCK FALSE
