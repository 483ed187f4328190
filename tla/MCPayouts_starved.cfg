SPECIFICATION FairPayoutsSpec
CONSTANTS
    Users <- MCUsers
    SystemUserID = "system"
    Currencies <- MCCurrencies
    Wallets <- MCWallets
    TxLimit <- MCTxLimit
    Convert <- MCConvert
    Inputs <- DrainInputs
    Requests = {r1, r2, r3}
    InitBalance <- ScarcePools
    Processors = {w1}
    PollLimit = 1
    LookupFails = FALSE
PROPERTIES
    SuccessesAreApplied
CHECK_DEADLOCK FALSE
