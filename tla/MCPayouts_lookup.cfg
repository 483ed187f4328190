SPECIFICATION PayoutsSpec
CONSTANTS
    Users <- MCUsers
    SystemUserID = "system"
    Currencies <- MCCurrencies
    Wallets <- MCWallets
    TxLimit <- MCTxLimit
    Convert <- MCConvert
    Inputs <- PlainInputs
    Requests = {r1, r2}
    InitBalance <- AmplePools
    Processors = {w1}
    PollLimit = 2
    LookupFails = TRUE
SYMMETRY MCSymmetry
INVARIANTS
    FailuresAreRetried
CHECK_DEADLOCK FALSE
