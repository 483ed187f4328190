SPECIFICATION FairSpec
CONSTANTS
    Users <- MCUsers
    SystemUserID = "system"
    Currencies <- MCCurrencies
    Wallets <- MCWallets
    TxLimit <- MCTxLimit
    Convert <- MCConvert
    Inputs <- FlowInputs
    Requests = {r1, r2}
    InitBalance <- MCInitBalance
    InitVersion <- MCInitVersion
    Processors = {w1, w2}
    PoolSize = 2
    LockRank <- MCLockRank
    ManagedAccounts <- BothSides
    ManagedStatuses <- FreezeOnly
PROPERTIES
    ImplementsBank
    TransactionsEnd
CHECK_DEADLOCK FALSE
