SPECIFICATION Spec
CONSTANTS
    Users <- MCUsers
    SystemUserID = "system"
    Currencies <- MCCurrencies
    Wallets <- MCWallets
    TxLimit <- MCTxLimit
    Convert <- MCConvert
    Inputs <- FlowInputs
    Requests = {r1, r2, r3}
    InitBalance <- MCInitBalance
    InitVersion <- MCInitVersion
    Processors = {w1}
    PoolSize = 3
    LockRank <- MCLockRank
    ManagedAccounts <- BothSides
    ManagedStatuses <- FreezeOnly
SYMMETRY RequestSymmetry
INVARIANTS
    RefundAlwaysPossible
CHECK_DEADLOCK FALSE
