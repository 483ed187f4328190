SPECIFICATION PayoutsSpec
CONSTANTS
    Users <- MCUsers
    SystemUserID = "system"
    Currencies <- MCCurrencies
    Wallets <- MCWallets
    TxLimit <- MCTxLimit
    Convert <- MCConvert
    Inputs <- DrainInputs
    Requests = {r1, r2, r3}
    InitBalance <- ScarcePools
    Processors = {w1, w2}
    PollLimit = 2
    LookupFails = TRUE
SYMMETRY MCSymmetry
INVARIANTS
    PayoutsTypeOK
    SettledAsProviderSaid
    DispatchedMeansSettled
    PayoutsOfPayments
    ProviderIsCovered
CHECK_DEADLOCK FALSE
