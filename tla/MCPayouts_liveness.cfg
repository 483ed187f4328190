SPECIFICATION FairPayoutsSpec
CONSTANTS
    Users <- MCUsers
    SystemUserID = "system"
    Currencies <- MCCurrencies
    Wallets <- MCWallets
    TxLimit <- MCTxLimit
    Convert <- MCConvert
    Inputs <- PlainInputs
    Requests = {r1, r2}
    InitBalance <- AmplePools
    Processors = {w1}
    PollLimit = 1
    LookupFails = FALSE
INVARIANTS
    ShutdownKeepsEvents
PROPERTIES
    StoredVerdictsAreApplied
CHECK_DEADLOCK FALSE
