------------------------------ MODULE PaymentTx ------------------------------
(***************************************************************************)
(* The database transactions that move money: the four execute...          *)
(* functions of internal/service/payment, run by one goroutine per API     *)
(* request, and handleCompleted and handleFailed of the webhook processor, *)
(* run by one goroutine per API process.  All of them work on the same     *)
(* Postgres rows at READ COMMITTED.                                        *)
(*                                                                         *)
(* A transaction reads what it needs without locks, begins, locks its      *)
(* accounts one by one with SELECT ... FOR UPDATE in UUID order, keeping   *)
(* the rows it read, checks them, and writes everything computed from      *)
(* those rows.  Each lock is a step of its own.  The writes and the commit *)
(* are one step: nobody sees them before the commit, every account they    *)
(* touch is locked, and two updates of one payment row wait for each       *)
(* other.  A rollback may come at any time (DBFailure).                    *)
(***************************************************************************)
EXTENDS GreyDomain, Sequences

CONSTANTS
    InitVersion,      \* account |-> version it is created with
    Processors,       \* webhook processors, one per API process
    PoolSize,         \* DB_MAX_OPEN_CONNS of all API processes together
    LockRank,         \* account |-> position of its UUID in string order
    ManagedAccounts,  \* accounts an operator may freeze, close or reactivate
    ManagedStatuses   \* the statuses the operator gives them

ASSUME VersionAssumption == InitVersion \in [Accounts -> Nat]
ASSUME PoolAssumption == PoolSize \in Nat \ {0}
ASSUME ProcessorAssumption == Processors \cap Requests = {}
ASSUME RankAssumption ==
    /\ IsFiniteSet(Accounts)
    /\ LockRank \in [Accounts -> 1 .. Cardinality(Accounts)]
    /\ \A a, b \in Accounts : LockRank[a] = LockRank[b] => a = b
ASSUME ManagedAssumption ==
    ManagedAccounts \subseteq UserAccounts /\ ManagedStatuses \subseteq AccountStatuses

VARIABLES
    accounts,  \* account |-> its row: balance, version, status
    payments,  \* partial: payment id |-> its row
    ledger,    \* account |-> its ledger entries, oldest first
    events,    \* payment id |-> its payment_events, oldest first
    txn,       \* partial: goroutine |-> its open transaction
    served     \* the requests that have reached the API

vars == <<accounts, payments, ledger, events, txn, served>>

Actors == Requests \cup Processors

AccountRow  == [balance : Nat, version : Nat, status : AccountStatuses]
LedgerEntry == [payment : Requests, type : EntryTypes, amount : Amounts,
                before : Nat, after : Nat]
EventTypes  == {"created", "completed", "failed"}

\* An open transaction: what it does, to which payment (the row to insert, or
\* the row that was read before BeginTx), and the account rows it has locked,
\* as they were when it locked them.
IsTxn(t) ==
    /\ DOMAIN t = {"op", "id", "pay", "locked"}
    /\ t.op \in {"post", "complete", "reverse"}
    /\ t.id \in Requests
    /\ t.pay \in Payment
    /\ DOMAIN t.locked \subseteq Accounts
    /\ t.locked \in [DOMAIN t.locked -> AccountRow]

-----------------------------------------------------------------------------
(***************************************************************************)
(* Locks: lockAccountsInOrder (one copy in each service), GetForUpdate.    *)
(***************************************************************************)
Footprint(t) ==
    CASE t.op = "post"     -> PostFootprint(t.pay)
      [] t.op = "reverse"  -> ReversalFootprint(t.pay)
      [] OTHER             -> {}

Unlocked(t) == Footprint(t) \ DOMAIN t.locked

IsLocked(a) == \E x \in DOMAIN txn : a \in DOMAIN txn[x].locked

\* Faulty variant: the source account first, as if the ids were not sorted.
SourceFirst(t, a) ==
    /\ a \in Unlocked(t)
    /\ \A b \in Unlocked(t) :
          a = t.pay.src \/ (b # t.pay.src /\ LockRank[a] <= LockRank[b])

\* The account that transaction t asks for next: the least UUID it has not
\* locked yet.
IsNextLock(t, a) ==
    /\ a \in Unlocked(t)
    /\ \A b \in Unlocked(t) : LockRank[a] <= LockRank[b]

\* Faulty variant: a SELECT without FOR UPDATE.
ReadWithoutLock(a) == TRUE

\* SELECT ... FOR UPDATE waits until no other transaction holds the row.
CanLock(a) == ~IsLocked(a)

\* A connection of the pool is free.  A transaction holds its connection from
\* BeginTx to its end, and the code runs all its statements on it.
HasConnection == Cardinality(DOMAIN txn) < PoolSize

\* Faulty variant: the account read through the pool instead of the
\* transaction, on a second connection.
LockThroughPool(x) ==
    /\ x \in DOMAIN txn
    /\ HasConnection
    /\ \E a \in Accounts :
          /\ IsNextLock(txn[x], a)
          /\ CanLock(a)
          /\ txn' = [txn EXCEPT ![x].locked = Put(@, a, accounts[a])]
    /\ UNCHANGED <<accounts, payments, ledger, events, served>>

LockAccount(x) ==
    /\ x \in DOMAIN txn
    /\ \E a \in Accounts :
          /\ IsNextLock(txn[x], a)
          /\ CanLock(a)
          /\ txn' = [txn EXCEPT ![x].locked = Put(@, a, accounts[a])]
    /\ UNCHANGED <<accounts, payments, ledger, events, served>>

HasAllLocks(x, op) ==
    /\ x \in DOMAIN txn
    /\ txn[x].op = op
    /\ Unlocked(txn[x]) = {}

-----------------------------------------------------------------------------
(***************************************************************************)
(* Writes, all computed from the rows read under the locks.                *)
(***************************************************************************)
\* What posting p does to account a of its footprint: writeLedgerEntries and
\* its three variants.  OTHER is the FX pool of the destination currency.
PostingEntry(p, a) ==
    CASE a = p.src            -> [type |-> "debit",  amount |-> p.srcAmt]
      [] a = p.dst            -> [type |-> "credit", amount |-> p.dstAmt]
      [] a = FXPool(p.srcCur) -> [type |-> "credit", amount |-> p.srcAmt]
      [] OTHER                -> [type |-> "debit",  amount |-> p.dstAmt]

\* Faulty variants: the converted amount returned to the sender, the source
\* amount taken from the clearing account.
RefundConverted(p, a) ==
    CASE a = Outgoing(p.dstCur) -> [type |-> "debit",  amount |-> p.dstAmt]
      [] a = FXPool(p.dstCur)   -> [type |-> "credit", amount |-> p.dstAmt]
      [] a = FXPool(p.srcCur)   -> [type |-> "debit",  amount |-> p.srcAmt]
      [] OTHER                  -> [type |-> "credit", amount |-> p.dstAmt]

DebitUnconverted(p, a) ==
    CASE a = Outgoing(p.dstCur) -> [type |-> "debit",  amount |-> p.srcAmt]
      [] a = FXPool(p.dstCur)   -> [type |-> "credit", amount |-> p.dstAmt]
      [] a = FXPool(p.srcCur)   -> [type |-> "debit",  amount |-> p.srcAmt]
      [] OTHER                  -> [type |-> "credit", amount |-> p.srcAmt]

\* What undoing p does to it: writeSameCurrencyReversal and
\* writeCrossCurrencyReversal.  OTHER is the sender.
ReversalEntry(p, a) ==
    CASE a = Outgoing(p.dstCur) -> [type |-> "debit",  amount |-> p.dstAmt]
      [] a = FXPool(p.dstCur)   -> [type |-> "credit", amount |-> p.dstAmt]
      [] a = FXPool(p.srcCur)   -> [type |-> "debit",  amount |-> p.srcAmt]
      [] OTHER                  -> [type |-> "credit", amount |-> p.srcAmt]

Entry(t, a) == IF t.op = "post" THEN PostingEntry(t.pay, a)
                                ELSE ReversalEntry(t.pay, a)

NewBalance(t, a) == IF Entry(t, a).type = "debit"
                    THEN t.locked[a].balance - Entry(t, a).amount
                    ELSE t.locked[a].balance + Entry(t, a).amount

\* UpdateBalance: the row must still have the version that was read.
VersionMatches(t, a) == accounts[a].version = t.locked[a].version

\* Faulty variant: no chk_accounts_balance.
BalanceUnchecked(t, a) == TRUE

\* CHECK (balance >= 0), migration 000002.
BalanceAllowed(t, a) == NewBalance(t, a) >= 0

WritesAccepted(t) ==
    \A a \in Footprint(t) : VersionMatches(t, a) /\ BalanceAllowed(t, a)

\* Faulty variant: the UpdateBalance of the source FX pool forgotten.
PoolNotUpdated(t, a) ==
    IF a = FXPool(t.pay.srcCur) THEN accounts[a]
    ELSE [balance |-> NewBalance(t, a), version |-> t.locked[a].version + 1,
          status  |-> accounts[a].status]

NewRow(t, a) ==
    [balance |-> NewBalance(t, a), version |-> t.locked[a].version + 1,
     status  |-> accounts[a].status]

NewEntry(t, a) ==
    [payment |-> t.id, type |-> Entry(t, a).type, amount |-> Entry(t, a).amount,
     before |-> t.locked[a].balance, after |-> NewBalance(t, a)]

\* One ledger entry and one balance update for every account of the footprint.
WriteBooks(t) ==
    /\ accounts' = [a \in Accounts |-> IF a \in Footprint(t)
                                       THEN NewRow(t, a) ELSE accounts[a]]
    /\ ledger'   = [a \in Accounts |-> IF a \in Footprint(t)
                                       THEN Append(ledger[a], NewEntry(t, a))
                                       ELSE ledger[a]]

\* PaymentEventRepository.Create.
WriteEvent(id, type) == events' = [events EXCEPT ![id] = Append(@, type)]

End(x) == txn' = Remove(txn, x)

-----------------------------------------------------------------------------
(***************************************************************************)
(* A payment request: CreateInternalTransfer and CreateExternalPayout.     *)
(***************************************************************************)
\* The unlocked reads say that every account the code checks is active.
LooksActive(in) == \A a \in CheckedAccounts(in) : accounts[a].status = "active"

\* BeginTx waits for a connection.
Begin(x, op, id, p) ==
    /\ HasConnection
    /\ txn' = Put(txn, x, [op |-> op, id |-> id, pay |-> p, locked |-> EmptyMap])

\* Accounts resolved and validated, conversion done, transaction begun.
BeginPost(r) ==
    /\ r \notin served
    /\ \E in \in Inputs :
          /\ Acceptable(in)
          /\ LooksActive(in)
          /\ Begin(r, "post", r, NewPayment(in))
    /\ served' = served \cup {r}
    /\ UNCHANGED <<accounts, payments, ledger, events>>

\* The early returns before BeginTx.
RefuseRequest(r) ==
    /\ r \notin served
    /\ \E in \in Inputs : ~(Acceptable(in) /\ LooksActive(in))
    /\ served' = served \cup {r}
    /\ UNCHANGED <<accounts, payments, ledger, events, txn>>

\* Faulty variant: only the sender is verified again.
SenderVerifiedActive(t) == t.locked[t.pay.src].status = "active"

\* verifyAccountActive on the locked rows: the sender, and the recipient of a
\* transfer.
VerifiedActive(t) ==
    /\ t.locked[t.pay.src].status = "active"
    /\ t.pay.type = "internal_transfer" => t.locked[t.pay.dst].status = "active"

\* The sender's funds and, for a conversion, those of the destination pool.
SufficientFunds(t) ==
    /\ t.locked[t.pay.src].balance >= t.pay.srcAmt
    /\ IsCross(t.pay) => t.locked[FXPool(t.pay.dstCur)].balance >= t.pay.dstAmt

PostAccepted(t) ==
    /\ VerifiedActive(t)
    /\ SufficientFunds(t)
    /\ KeyIsFree(payments, t.pay)
    /\ WritesAccepted(t)

CommitPost(r) ==
    /\ HasAllLocks(r, "post")
    /\ PostAccepted(txn[r])
    /\ payments' = Put(payments, r, txn[r].pay)
    /\ WriteBooks(txn[r])
    /\ WriteEvent(r, IF txn[r].pay.type = "internal_transfer"
                     THEN "completed" ELSE "created")
    /\ End(r)
    /\ UNCHANGED served

RefusePost(r) ==
    /\ HasAllLocks(r, "post")
    /\ ~PostAccepted(txn[r])
    /\ End(r)
    /\ UNCHANGED <<accounts, payments, ledger, events, served>>

-----------------------------------------------------------------------------
(***************************************************************************)
(* A provider verdict: processEvent has read the payment, found it not     *)
(* terminal, and calls handleCompleted or handleFailed.  Verdicts are      *)
(* arbitrary here: they may be repeated and may contradict each other.     *)
(***************************************************************************)
BeginVerdict(w, op) ==
    /\ w \notin DOMAIN txn
    /\ \E r \in DOMAIN payments :
          /\ ~IsTerminal(payments[r].status)
          /\ Begin(w, op, r, payments[r])
    /\ UNCHANGED <<accounts, payments, ledger, events, served>>

BeginCompletion(w) == BeginVerdict(w, "complete")
BeginReversal(w)   == BeginVerdict(w, "reverse")

\* Faulty variant: UPDATE payments without the NOT IN (...) condition.
AlwaysUpdatable(id) == TRUE

\* PaymentRepository.UpdateStatus changes no row that is terminal by now.
StatusUpdatable(id) == ~IsTerminal(payments[id].status)

SetPaymentStatus(id, status) ==
    payments' = [payments EXCEPT ![id].status = status]

CommitCompletion(w) ==
    /\ HasAllLocks(w, "complete")
    /\ StatusUpdatable(txn[w].id)
    /\ SetPaymentStatus(txn[w].id, "completed")
    /\ WriteEvent(txn[w].id, "completed")
    /\ End(w)
    /\ UNCHANGED <<accounts, ledger, served>>

RefuseCompletion(w) ==
    /\ HasAllLocks(w, "complete")
    /\ ~StatusUpdatable(txn[w].id)
    /\ End(w)
    /\ UNCHANGED <<accounts, payments, ledger, events, served>>

ReversalAccepted(t) == StatusUpdatable(t.id) /\ WritesAccepted(t)

CommitReversal(w) ==
    /\ HasAllLocks(w, "reverse")
    /\ ReversalAccepted(txn[w])
    /\ SetPaymentStatus(txn[w].id, "failed")
    /\ WriteBooks(txn[w])
    /\ WriteEvent(txn[w].id, "failed")
    /\ End(w)
    /\ UNCHANGED served

\* ErrPaymentTerminal, or a write the database rejects.
RefuseReversal(w) ==
    /\ HasAllLocks(w, "reverse")
    /\ ~ReversalAccepted(txn[w])
    /\ End(w)
    /\ UNCHANGED <<accounts, payments, ledger, events, served>>

-----------------------------------------------------------------------------
\* Any statement or the commit may fail, the context may be cancelled, the
\* process may die: the deferred Rollback, or Postgres, undoes everything.
DBFailure(x) ==
    /\ x \in DOMAIN txn
    /\ End(x)
    /\ UNCHANGED <<accounts, payments, ledger, events, served>>

\* An operator changes the status of an account (no code under src/ does; the
\* code reacts to it).  The UPDATE waits for the row lock.
SetAccountStatus(a, s) ==
    /\ CanLock(a)
    /\ accounts[a].status # s
    /\ accounts' = [accounts EXCEPT ![a].status = s]
    /\ UNCHANGED <<payments, ledger, events, txn, served>>

Init ==
    /\ accounts = [a \in Accounts |-> [balance |-> InitBalance[a],
                                       version |-> InitVersion[a],
                                       status  |-> "active"]]
    /\ payments = EmptyMap
    /\ ledger = [a \in Accounts |-> <<>>]
    /\ events = [r \in Requests |-> <<>>]
    /\ txn = EmptyMap
    /\ served = {}

RequestStep(r) == BeginPost(r) \/ RefuseRequest(r) \/ CommitPost(r) \/ RefusePost(r)

VerdictStep(w) ==
    \/ BeginCompletion(w) \/ CommitCompletion(w) \/ RefuseCompletion(w)
    \/ BeginReversal(w)   \/ CommitReversal(w)   \/ RefuseReversal(w)

Next ==
    \/ \E r \in Requests : RequestStep(r)
    \/ \E w \in Processors : VerdictStep(w)
    \/ \E x \in Actors : LockAccount(x) \/ DBFailure(x)
    \/ \E a \in ManagedAccounts, s \in ManagedStatuses : SetAccountStatus(a, s)

Spec == Init /\ [][Next]_vars

-----------------------------------------------------------------------------
(***************************************************************************)
(* Properties                                                              *)
(***************************************************************************)
\* The types of the variables.  Balances are natural numbers: no interleaving
\* of postings and reversals overdraws an account (chk_accounts_balance).
TypeOK ==
    /\ accounts \in [Accounts -> AccountRow]
    /\ DOMAIN payments \subseteq Requests
    /\ payments \in [DOMAIN payments -> Payment]
    /\ ledger \in [Accounts -> Seq(LedgerEntry)]
    /\ events \in [Requests -> Seq(EventTypes)]
    /\ DOMAIN txn \subseteq Actors
    /\ txn = [x \in DOMAIN txn |-> txn[x]]
    /\ \A x \in DOMAIN txn : IsTxn(txn[x])
    /\ served \subseteq Requests

\* No two transactions hold one row, and the rows a transaction computes its
\* balances from are still the rows of the table when it writes: what
\* FOR UPDATE is for, so that UpdateBalance's version check never fires.
LockedRowsAreCurrent ==
    \A x \in DOMAIN txn : \A a \in DOMAIN txn[x].locked :
        /\ txn[x].locked[a] = accounts[a]
        /\ \A y \in DOMAIN txn : a \in DOMAIN txn[y].locked => x = y

\* The balance of account a before its i-th ledger entry.
BalanceBefore(a, es, i) == IF i = 1 THEN InitBalance[a] ELSE es[i - 1].after

Explains(es, a, row) ==
    /\ row.version = InitVersion[a] + Len(es)
    /\ row.balance = BalanceBefore(a, es, Len(es) + 1)
    /\ \A i \in 1 .. Len(es) :
          /\ es[i].before = BalanceBefore(a, es, i)
          /\ es[i].after  = IF es[i].type = "debit"
                            THEN es[i].before - es[i].amount
                            ELSE es[i].before + es[i].amount

\* The ledger of an account is a chain from its seeded balance to its present
\* one, with one entry per version: no update without its entry, no entry
\* computed from a balance that another transaction had already replaced.
LedgerExplainsBalance == \A a \in Accounts : Explains(ledger[a], a, accounts[a])

\* x waits for a row that y has locked.
WaitsFor(x, y) ==
    \E a \in DOMAIN txn[y].locked : IsNextLock(txn[x], a)

\* No set of transactions waits for one another in a circle, whatever pairs of
\* transfers, payouts and reversals meet (lockAccountsInOrder sorts the UUIDs).
NoDeadlock ==
    \A S \in SUBSET DOMAIN txn :
        S # {} => \E x \in S : \A y \in S : ~WaitsFor(x, y)

\* The places of payment r's entries in the ledger of account a.
EntriesOf(r, a) == {i \in 1 .. Len(ledger[a]) : ledger[a][i].payment = r}

SameMove(e, m) == e.type = m.type /\ e.amount = m.amount

\* Each payment has been posted once to each account of its footprint, has
\* been undone once there if it failed, and has no entry anywhere else; a
\* refused or rolled back request has none at all.
BooksMatchPayments ==
    \A r \in Requests, a \in Accounts :
        IF r \notin DOMAIN payments \/ a \notin PostFootprint(payments[r])
        THEN EntriesOf(r, a) = {}
        ELSE \E i \in EntriesOf(r, a) :
                /\ SameMove(ledger[a][i], PostingEntry(payments[r], a))
                /\ IF payments[r].status = "failed"
                   THEN \E j \in EntriesOf(r, a) :
                           /\ i < j /\ EntriesOf(r, a) = {i, j}
                           /\ SameMove(ledger[a][j], ReversalEntry(payments[r], a))
                   ELSE EntriesOf(r, a) = {i}

\* The events of a payment with row p.
Trail(p) ==
    CASE p.type = "internal_transfer" -> <<"completed">>
      [] p.status = "pending"         -> <<"created">>
      [] OTHER                        -> <<"created", p.status>>

\* The audit trail of a payment tells how it got its status.
EventsMatchStatus ==
    \A r \in Requests :
        events[r] = IF r \in DOMAIN payments THEN Trail(payments[r]) ELSE <<>>

Balances == [a \in Accounts |-> accounts[a].balance]

\* Money is neither made nor lost: the balances of the accounts of a currency
\* always add up to what was seeded, conversions and reversals included.
MoneyConserved ==
    \A c \in Currencies :
        LET mine == {a \in Accounts : a.cur = c} IN
        SumFunctionOnSet(Balances, mine) = SumFunctionOnSet(InitBalance, mine)

\* The clearing account of a currency holds exactly the payouts of that
\* currency that have not failed, so that the first debit of a reversal can
\* always be paid.
OutgoingHoldsPayouts ==
    \A c \in Currencies :
        accounts[Outgoing(c)].balance =
            InitBalance[Outgoing(c)] + AmountHeld(payments, c)

\* What docs/ARCHITECTURE.md section 6 promises of a failed payout: that the
\* reversal entries are created.  A reversal of a payout that is still pending
\* is never turned down by the database.
RefundAlwaysPossible ==
    \A w \in Processors :
        HasAllLocks(w, "reverse") /\ StatusUpdatable(txn[w].id)
            => WritesAccepted(txn[w])

\* It can be turned down for one reason only: the FX pool of the source currency
\* no longer has what the payout brought it.  The clearing account can always
\* pay, and the row versions are those the reversal read.
OnlyPoolRefusesRefund ==
    \A w \in Processors :
        HasAllLocks(w, "reverse") /\ StatusUpdatable(txn[w].id) =>
            \A a \in Footprint(txn[w]) :
                /\ VersionMatches(txn[w], a)
                /\ a # FXPool(txn[w].pay.srcCur) => BalanceAllowed(txn[w], a)

PayersActive(p) ==
    /\ accounts[p.src].status = "active"
    /\ p.type = "internal_transfer" => accounts[p.dst].status = "active"

\* A payment is created only while its source account, and for a transfer its
\* destination account, is active: a freeze between the validation and the
\* lock is not missed, and a freeze under the lock has to wait.
InactiveAccountsDoNotPay ==
    [][\A r \in Requests :
          r \notin DOMAIN payments /\ r \in DOMAIN payments' =>
              PayersActive(payments'[r])]_vars

\* The transactions implement the abstract bank, whatever they are interleaved
\* with and wherever they fail.
AbstractBank ==
    INSTANCE Bank WITH balance <- Balances

ImplementsBank == AbstractBank!BankSpec

-----------------------------------------------------------------------------
(***************************************************************************)
(* Fairness.  A goroutine in a transaction keeps going (its steps cannot   *)
(* be skipped for ever), and Postgres queues the waiters of a row, so one  *)
(* that asks again and again for a row that is free again and again gets   *)
(* it.  Nothing obliges a request to come, a verdict to arrive, an         *)
(* operator to act or the database to fail.                                *)
(***************************************************************************)
Finish(x) ==
    \/ CommitPost(x) \/ RefusePost(x)
    \/ CommitCompletion(x) \/ RefuseCompletion(x)
    \/ CommitReversal(x) \/ RefuseReversal(x)

Fairness == \A x \in Actors : SF_vars(LockAccount(x)) /\ WF_vars(Finish(x))

FairSpec == Spec /\ Fairness

\* Every transaction ends: no goroutine holds its locks or waits for ever.
TransactionsEnd ==
    \A x \in Actors : x \in DOMAIN txn ~> x \notin DOMAIN txn
=============================================================================
