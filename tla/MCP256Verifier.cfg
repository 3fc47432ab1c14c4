CONSTANTS
    p = 23
    b = 15
    GX = 1
    GY = 6
    n = 17
    WordBits = 5
    Malformed = Malformed
    Inputs <- MCInputs
CHECK_DEADLOCK FALSE
SPECIFICATION Spec
INVARIANTS
    TypeOK
    Accumulates
    AnswerCorrect
