SPECIFICATION Spec
CONSTANTS
    Users <- MCUsers
    SystemUserID = "system"
    Currencies <- MCCurrencies
    Wallets <- MCWallets
    TxLimit <- MCTxLimit
    Convert <- MCConvert
    Inputs <- CoreInputs
    Requests = {r1, r2, r3}
    InitBalance <- MCInitBalance
    InitVersion <- MCInitVersion
    Processors = {w1, w2}
    PoolSize = 4
    LockRank <- MCLockRank
    ManagedAccounts <- BothSides
    ManagedStatuses <- FreezeOnly
SYMMETRY RequestSymmetry
INVARIANTS
    TypeOK
    LockedRowsAreCurrent
    LedgerExplainsBalance
    NoDeadlock
    BooksMatchPayments
    EventsMatchStatus
    MoneyConserved
    OutgoingHoldsPayouts
    OnlyPoolRefusesRefund
PROPERTIES
    InactiveAccountsDoNotPay
CHECK_DEADLOCK FALSE
