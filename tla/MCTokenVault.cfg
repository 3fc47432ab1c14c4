CONSTANTS
    Tokens = {usdc, feeToken}
    Exact = {usdc}
    N = 2
    Supply = 1
    Amounts = {0, 1}
    MaxCredit = 2
SPECIFICATION Spec
INVARIANTS
    TypeOK
    Solvency
    ManagerExists
PROPERTIES
    WealthProtected
    RefinesLedger
