------------------------------ MODULE GreyDomain ------------------------------
(***************************************************************************)
(* The vocabulary shared by the payment modules: who owns which account,   *)
(* what a payment request says, which payment row it turns into, and which *)
(* accounts that payment touches (internal/domain and the validation half  *)
(* of internal/service/payment).                                           *)
(*                                                                         *)
(* An account is identified by what GetByUserAndCurrency looks it up by:   *)
(* its owner, its type and its currency (unique, migration 000002).        *)
(* Amounts are integers in minor units, as in the code.                    *)
(***************************************************************************)
EXTENDS FiniteSetsExt

CONSTANTS
    Users,            \* customers
    SystemUserID,     \* owner of the FX pools and of the outgoing accounts
    Currencies,
    Wallets,          \* <<user, currency>> pairs that have a user account
    TxLimit,          \* per-currency limit of one payment, from the config
    Convert(_, _, _), \* FX conversion: amount, from, to |-> dest amount
    Inputs,           \* payment requests that clients may send
    Requests,         \* payment ids, one per request that reaches the API
    InitBalance       \* the seeded balances, migration 000007

Amounts == Nat \ {0}
Keys    == {in.key : in \in Inputs}

\* The code also declares the payment statuses (and events) "processing" and
\* "reversed", but never writes them.
PaymentTypes    == {"internal_transfer", "external_payout"}
PaymentStatuses == {"pending", "completed", "failed"}
AccountStatuses == {"pending", "active", "frozen", "closed"}
EntryTypes      == {"debit", "credit"}

UserAccount(u, c) == [owner |-> u, type |-> "user", cur |-> c]
FXPool(c)         == [owner |-> SystemUserID, type |-> "fx_pool", cur |-> c]
Outgoing(c)       == [owner |-> SystemUserID, type |-> "outgoing", cur |-> c]

UserAccounts == {UserAccount(w[1], w[2]) : w \in Wallets}
Accounts     == UserAccounts \cup {FXPool(c) : c \in Currencies}
                             \cup {Outgoing(c) : c \in Currencies}

ASSUME BalanceAssumption == InitBalance \in [Accounts -> Nat]

\* Partial functions: the empty one, and f with x mapped to v.
EmptyMap      == [x \in {} |-> x]
Put(f, x, v)  == [y \in DOMAIN f \cup {x} |-> IF y = x THEN v ELSE f[y]]
Remove(f, x)  == [y \in DOMAIN f \ {x} |-> f[y]]

-----------------------------------------------------------------------------
(***************************************************************************)
(* Requests.  The recipient of a transfer is a unique name, which may      *)
(* belong to nobody; bank says whether a payout names an IBAN and a bank.  *)
(***************************************************************************)
IsRequest(in) ==
    /\ DOMAIN in = {"type", "sender", "recipient", "srcCur", "dstCur",
                    "amount", "key", "bank"}
    /\ in.type \in PaymentTypes
    /\ in.sender \in Users
    /\ in.srcCur \in Currencies
    /\ in.dstCur \in Currencies
    /\ in.amount \in Int
    /\ in.bank \in BOOLEAN

ASSUME WalletAssumption == Wallets \subseteq Users \X Currencies
ASSUME LimitAssumption  == TxLimit \in [Currencies -> Nat]
ASSUME InputAssumption  == \A in \in Inputs : IsRequest(in)
\* fx.Convert rounds to at least one minor unit.
ASSUME ConvertAssumption ==
    \A in \in Inputs :
        in.amount > 0 => Convert(in.amount, in.srcCur, in.dstCur) \in Amounts

\* The user accounts that a request resolves to, when they exist.
SourceAccount(in) == UserAccount(in.sender, in.srcCur)
DestAccount(in)   == UserAccount(in.recipient, in.dstCur)

\* resolveTransferAccounts, and the sender lookup of CreateExternalPayout.
Resolves(in) ==
    /\ <<in.sender, in.srcCur>> \in Wallets
    /\ in.type = "internal_transfer" => <<in.recipient, in.dstCur>> \in Wallets

\* The checks of validateTransfer and validateExternalPayout that depend on
\* the request alone; the account status checks are about CheckedAccounts.
ValidRequest(in) ==
    /\ in.amount > 0
    /\ in.type = "internal_transfer" =>
           ~(in.sender = in.recipient /\ in.srcCur = in.dstCur)
    /\ in.type = "external_payout" => in.bank
    /\ in.amount <= TxLimit[in.srcCur]

\* The accounts whose status the code checks: the sender's, and for a
\* transfer the recipient's.
CheckedAccounts(in) ==
    IF in.type = "internal_transfer"
    THEN {SourceAccount(in), DestAccount(in)}
    ELSE {SourceAccount(in)}

Acceptable(in) == Resolves(in) /\ ValidRequest(in)

-----------------------------------------------------------------------------
(***************************************************************************)
(* Payment rows.  dst is the account that receives the money inside the    *)
(* system: the recipient of a transfer, the clearing account of a payout   *)
(* (whose row has a NULL dest_account_id).                                 *)
(***************************************************************************)
Payment == [type : PaymentTypes, status : PaymentStatuses, key : Keys,
            src : Accounts, dst : Accounts,
            srcAmt : Amounts, srcCur : Currencies,
            dstAmt : Amounts, dstCur : Currencies]

DestAmount(in) == IF in.srcCur = in.dstCur THEN in.amount
                  ELSE Convert(in.amount, in.srcCur, in.dstCur)

\* The row the four execute... functions insert: a transfer is completed at
\* once, a payout (buildExternalPayment) waits for the provider.
NewPayment(in) ==
    [type   |-> in.type,
     status |-> IF in.type = "internal_transfer" THEN "completed" ELSE "pending",
     key    |-> in.key,
     src    |-> SourceAccount(in),
     dst    |-> IF in.type = "internal_transfer" THEN DestAccount(in)
                ELSE Outgoing(in.dstCur),
     srcAmt |-> in.amount,      srcCur |-> in.srcCur,
     dstAmt |-> DestAmount(in), dstCur |-> in.dstCur]

IsTerminal(status) == status \in {"completed", "failed", "reversed"}

\* idx_payments_idempotency_key: a key is used once per source account.
KeyIsFree(rows, p) ==
    \A q \in DOMAIN rows : ~(rows[q].key = p.key /\ rows[q].src = p.src)

IsCross(p) == p.srcCur # p.dstCur

FXPools(p) == IF IsCross(p) THEN {FXPool(p.srcCur), FXPool(p.dstCur)} ELSE {}

\* The accounts that posting p locks and updates.
PostFootprint(p) == {p.src, p.dst} \cup FXPools(p)

\* The accounts that handleFailed locks and updates to undo p.
ReversalFootprint(p) == {p.src, Outgoing(p.dstCur)} \cup FXPools(p)

-----------------------------------------------------------------------------
(***************************************************************************)
(* What a payment does to the balances b, and what undoing it does.        *)
(***************************************************************************)
\* Double entry: what account from loses, account to gains.
Move(b, from, to, amount) ==
    [b EXCEPT ![from] = @ - amount, ![to] = @ + amount]

\* A cross-currency payment goes through the FX pools of both currencies.
Pay(b, p) ==
    IF IsCross(p)
    THEN Move(Move(b, p.src, FXPool(p.srcCur), p.srcAmt),
              FXPool(p.dstCur), p.dst, p.dstAmt)
    ELSE Move(b, p.src, p.dst, p.srcAmt)

Unpay(b, p) ==
    IF IsCross(p)
    THEN Move(Move(b, p.dst, FXPool(p.dstCur), p.dstAmt),
              FXPool(p.srcCur), p.src, p.srcAmt)
    ELSE Move(b, p.dst, p.src, p.srcAmt)

\* The payouts among the rows P whose money is in the clearing account of
\* currency c, and how much that is.
Held(P, c) == {r \in DOMAIN P : P[r].dst = Outgoing(c) /\ P[r].status # "failed"}

AmountOf(P, S) == SumFunctionOnSet([r \in S |-> P[r].dstAmt], S)

AmountHeld(P, c) == AmountOf(P, Held(P, c))
=============================================================================
