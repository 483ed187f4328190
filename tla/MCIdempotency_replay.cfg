SPECIFICATION IdempotencySpec
CONSTANTS
    Calls = {c1, c2}
    Messages <- AllMessages
    InitFunds <- MCFunds
    CacheExpires = FALSE
SYMMETRY CallSymmetry
INVARIANTS
    CarriedOutIsNotRefused
CHECK_DEADLOCK FALSE
