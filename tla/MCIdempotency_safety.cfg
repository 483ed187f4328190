SPECIFICATION IdempotencySpec
CONSTANTS
    Calls = {c1, c2, c3}
    Messages <- AllMessages
    InitFunds <- MCFunds
    CacheExpires = TRUE
SYMMETRY CallSymmetry
INVARIANTS
    IdempotencyTypeOK
    PaidAtMostOnce
    SuccessesAreTrue
CHECK_DEADLOCK FALSE
