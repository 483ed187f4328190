SPECIFICATION FairServerSpec
CONSTANTS
    Calls = {c1, c2}
    Users = {"alice", "bob"}
    Currencies = {"USD"}
    PaymentOwner <- MCPaymentOwner
    Asks <- MCAsks
    MaxStarts = 2
INVARIANTS
    ServerTypeOK
    OneAccountPerCurrency
    CreateAnswersAreTrue
    OnlyOwnersAreServed
PROPERTIES
    CleanStopCutsNothing
    SignalEndsProcess
CHECK_DEADLOCK FALSE
