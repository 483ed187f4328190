----------------------------- MODULE AccountAPI -----------------------------
(***************************************************************************)
(* The endpoints beside the payments: login and the tokens it issues, the  *)
(* accounts, user and payment resources of a customer (internal/auth,      *)
(* middleware/auth.go, handler/auth.go, ownership.go, account.go, user.go, *)
(* PaymentHandler.Get, service/account.go).                                *)
(*                                                                         *)
(* A call is a goroutine.  It is authenticated, matched with the owner of  *)
(* what it asks for and validated at once, for these steps read only the   *)
(* request and rows that never change; every statement after that is a     *)
(* step of its own, and other calls run in between.                        *)
(***************************************************************************)
EXTENDS Naturals

CONSTANTS
    Calls,        \* HTTP calls
    Users,        \* the rows of users
    Currencies,   \* the currencies that exist
    PaymentOwner, \* payment id |-> the owner of its source account
    Asks          \* what calls may ask for: [op, user, target, cur]

Ops == {"create", "list", "user", "payment"}

\* user is the one the token names; target the id in the path, of a user or of
\* a payment; cur the currency of a new account.
ASSUME AskAssumption ==
    /\ \A k \in Asks : /\ DOMAIN k = {"op", "user", "target", "cur"}
                       /\ k.op \in Ops
                       /\ k.user \in Users
    /\ \A p \in DOMAIN PaymentOwner : PaymentOwner[p] \in Users

VARIABLES
    sessions,  \* user |-> the best token that was issued to them
    calls,     \* partial: call |-> what it asks, how far it is, its answer
    accounts   \* the user accounts, each named by the call that created it

apiVars == <<sessions, calls, accounts>>

Account == [id : Calls, owner : Users, cur : Currencies]

Codes == {"none", "ok", "unauthorized", "not_found", "bad_request",
          "account_exists", "internal_error"}

IsCall(x) ==
    /\ DOMAIN x = {"ask", "pc", "code", "data"}
    /\ x.ask \in Asks
    /\ x.pc \in {"check", "insert", "read", "done", "cut"}
    /\ x.code \in Codes
    /\ x.data \subseteq Account

APITypeOK ==
    /\ sessions \in [Users -> {"none", "live", "expired"}]
    /\ DOMAIN calls \subseteq Calls
    /\ \A c \in DOMAIN calls : IsCall(calls[c])
    /\ accounts \subseteq Account

APIInit ==
    /\ sessions = [u \in Users |-> "none"]
    /\ calls = [c \in {} |-> c]
    /\ accounts = {}

InFlight == {c \in DOMAIN calls : calls[c].pc \in {"check", "insert", "read"}}

-----------------------------------------------------------------------------
(***************************************************************************)
(* Login and tokens.                                                       *)
(***************************************************************************)
\* The password matches, a token for 24 hours is signed.  A wrong password or
\* an unknown email changes nothing.
Login(u) ==
    /\ sessions' = [sessions EXCEPT ![u] = "live"]
    /\ UNCHANGED <<calls, accounts>>

\* The 24 hours of a token are over.
TokenExpires(u) ==
    /\ sessions[u] = "live"
    /\ sessions' = [sessions EXCEPT ![u] = "expired"]
    /\ UNCHANGED <<calls, accounts>>

\* The middleware lets a call through with a token this API signed that has
\* not expired.  signed is FALSE also for a missing or malformed header.
ValidateToken(u, signed) == signed /\ sessions[u] = "live"

-----------------------------------------------------------------------------
(***************************************************************************)
(* Calls.                                                                  *)
(***************************************************************************)
At(k, pc)               == [ask |-> k, pc |-> pc, code |-> "none", data |-> {}]
Answered(k, code, data) == [ask |-> k, pc |-> "done", code |-> code, data |-> data]

\* Faulty variant: any valid token will do.
AnyOwner(k) == TRUE

\* ownerFromPath; a payment is matched with its owner when it is read.
OwnerFromPath(k) == k.op = "payment" \/ k.target = k.user

\* Faulty variant: any currency taken.
AnyBody(k) == TRUE

\* createAccountRequest.Validate, and currency.IsValid in CreateAccount.
ValidBody(k) == k.op = "create" => k.cur \in Currencies

FirstStep(k, signed) ==
    IF ~ValidateToken(k.user, signed) THEN Answered(k, "unauthorized", {})
    ELSE IF ~OwnerFromPath(k)         THEN Answered(k, "not_found", {})
    ELSE IF ~ValidBody(k)             THEN Answered(k, "bad_request", {})
    ELSE At(k, IF k.op = "create" THEN "check" ELSE "read")

\* A token can be used once it has been issued; anything else is not signed.
Arrive(c, k, signed) ==
    /\ c \notin DOMAIN calls
    /\ signed => sessions[k.user] # "none"
    /\ calls' = [d \in DOMAIN calls \cup {c} |->
                    IF d = c THEN FirstStep(k, signed) ELSE calls[d]]
    /\ UNCHANGED <<sessions, accounts>>

GoOn(c, pc) == calls' = [calls EXCEPT ![c] = At(calls[c].ask, pc)]

\* RespondSuccess, RespondAppError, RespondDomainError.
Reply(c, code, data) ==
    calls' = [calls EXCEPT ![c] = Answered(calls[c].ask, code, data)]

AccountsOf(u) == {a \in accounts : a.owner = u}

\* GetByUserAndCurrency.
Holds(k) == \E a \in AccountsOf(k.target) : a.cur = k.cur

\* CreateAccount up to the insert.
CheckExisting(c) ==
    /\ c \in DOMAIN calls /\ calls[c].pc = "check"
    /\ IF Holds(calls[c].ask) THEN Reply(c, "account_exists", {})
                              ELSE GoOn(c, "insert")
    /\ UNCHANGED <<sessions, accounts>>

NewAccount(c) == [id |-> c, owner |-> calls[c].ask.target, cur |-> calls[c].ask.cur]

\* Faulty variant: no unique index behind the check.
IndexDropped(k) == FALSE

\* idx_accounts_user_currency_type.
ViolatesIndex(k) == Holds(k)

\* Faulty variant: ON CONFLICT DO NOTHING with the result not looked at.
InsertOrNothing(c) ==
    /\ c \in DOMAIN calls /\ calls[c].pc = "insert"
    /\ accounts' = IF ViolatesIndex(calls[c].ask) THEN accounts
                   ELSE accounts \cup {NewAccount(c)}
    /\ Reply(c, "ok", {NewAccount(c)})
    /\ UNCHANGED sessions

\* AccountRepository.Create.  Losing the race for the unique index is an error
\* that RespondDomainError does not know.
InsertAccount(c) ==
    /\ c \in DOMAIN calls /\ calls[c].pc = "insert"
    /\ IF ViolatesIndex(calls[c].ask)
       THEN Reply(c, "internal_error", {}) /\ UNCHANGED accounts
       ELSE /\ accounts' = accounts \cup {NewAccount(c)}
            /\ Reply(c, "ok", {NewAccount(c)})
    /\ UNCHANGED sessions

\* The insert is done and its acknowledgement lost.
InsertUnacknowledged(c) ==
    /\ c \in DOMAIN calls /\ calls[c].pc = "insert"
    /\ ~ViolatesIndex(calls[c].ask)
    /\ accounts' = accounts \cup {NewAccount(c)}
    /\ Reply(c, "internal_error", {})
    /\ UNCHANGED sessions

\* AccountHandler.List.
ListAccounts(c) ==
    /\ c \in DOMAIN calls /\ calls[c].pc = "read" /\ calls[c].ask.op = "list"
    /\ Reply(c, "ok", AccountsOf(calls[c].ask.target))
    /\ UNCHANGED <<sessions, accounts>>

\* UserHandler.GetByID.
GetUser(c) ==
    /\ c \in DOMAIN calls /\ calls[c].pc = "read" /\ calls[c].ask.op = "user"
    /\ Reply(c, "ok", {})
    /\ UNCHANGED <<sessions, accounts>>

\* GetPaymentForUser.
IsSender(k) == k.target \in DOMAIN PaymentOwner /\ PaymentOwner[k.target] = k.user

\* PaymentHandler.Get.
GetPayment(c) ==
    /\ c \in DOMAIN calls /\ calls[c].pc = "read" /\ calls[c].ask.op = "payment"
    /\ Reply(c, IF IsSender(calls[c].ask) THEN "ok" ELSE "not_found", {})
    /\ UNCHANGED <<sessions, accounts>>

\* Any statement may fail, also because the client has gone away.
CallError(c) ==
    /\ c \in InFlight
    /\ Reply(c, "internal_error", {})
    /\ UNCHANGED <<sessions, accounts>>

CallStep(c) ==
    \/ CheckExisting(c) \/ InsertAccount(c) \/ InsertUnacknowledged(c)
    \/ ListAccounts(c) \/ GetUser(c) \/ GetPayment(c)
    \/ CallError(c)

-----------------------------------------------------------------------------
(***************************************************************************)
(* Properties                                                              *)
(***************************************************************************)
\* A user has one account per currency, although CreateAccount looks first and
\* inserts later, and although clients repeat what seemed to fail.
OneAccountPerCurrency ==
    \A a, b \in accounts : a.owner = b.owner /\ a.cur = b.cur => a = b

\* What CreateAccount says is so, and stays so: an account it reports as
\* created is in the table under this call's id, and account_exists is only
\* said to a user who has that account, be it from a call that was cut off.
CreateAnswersAreTrue ==
    \A c \in DOMAIN calls :
        LET x == calls[c] IN
        x.ask.op = "create" =>
            /\ x.code = "ok" => x.data = {NewAccount(c)} /\ x.data \subseteq accounts
            /\ x.code = "account_exists" =>
                   \E a \in accounts : /\ a.owner = x.ask.user
                                       /\ a.cur = x.ask.cur /\ a.id # c

\* Accounts are opened by, and data is given to, nobody but their owner, who
\* has logged in before; for a payment that is the sender.
OnlyOwnersAreServed ==
    /\ \A a \in accounts : calls[a.id].ask.user = a.owner
    /\ \A c \in DOMAIN calls :
          LET x == calls[c] IN
          x.code = "ok" =>
              /\ sessions[x.ask.user] # "none"
              /\ \A a \in x.data : a.owner = x.ask.user
              /\ x.ask.op = "user" => x.ask.target = x.ask.user
              /\ x.ask.op = "payment" => PaymentOwner[x.ask.target] = x.ask.user
=============================================================================
