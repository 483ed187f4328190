# A TLA+ model of the Grey payment backend

The repository is a payments API in Go on PostgreSQL: customers hold one wallet
per currency, transfer money to each other, convert between currencies, and pay
out to external banks through a provider that answers later by webhook. These
modules model the parts that carry money and the process and the endpoints
around them, check them with TLC on small instances, and prove the safety
properties that hold of the transactions, the payouts, the idempotency middleware,
the accounts, the shutdown and the conversions for every instance with TLAPS,
among them that the interleaved transactions implement an atomic bank.

## The system and its parts

| Part | State it keeps | Operations | Talks to | What makes it correct |
|---|---|---|---|---|
| Payment service (`internal/service/payment`) | rows of `accounts`, `payments`, `ledger_entries`, `payment_events` | `CreateInternalTransfer`, `CreateExternalPayout`, each with and without conversion | repositories, FX service, provider client | money conserved, ledger explains balances, no lost update, no deadlock, frozen accounts do not pay |
| Webhook processor (`internal/service/webhook_*.go`) | the same rows, status of `webhook_events` | `Start`, `poll`, `processEvent`, `handleCompleted`, `handleFailed` | repositories | each verdict applied once, in spite of retries, restarts and other processors; every stored verdict applied |
| Webhook endpoint (`internal/handler/webhook.go`) | `webhook_events` | `ReceiveProviderWebhook` | the provider, the processor (through the table) | only signed verdicts, each stored once |
| Idempotency middleware | `idempotency_cache` | lookup, replay, store | payment handlers | a request is paid at most once; a replayed success is true |
| FX service (`internal/fx`) | fixed rates | `GetRate`, `Convert` | payment service | correct rounding, no gain from splitting and converting to and fro |
| Provider client, mock provider | payouts in progress | `SubmitPayment`; `POST /process`, `processPayment` | each other, the webhook endpoint | one verdict per payout |
| Repositories and migrations | the tables | SQL | PostgreSQL | row locks, CHECK, unique indexes |
| Account service (`internal/service/account.go`, `handler/account.go`) | `accounts` | `CreateAccount`, list | repositories | one account per user and currency; what a call was told is so |
| Login and tokens (`internal/auth`, `handler/auth.go`, `middleware/auth.go`), user and payment resources | none; a token carries its own expiry | login, validate, get | repositories | nobody sees or changes what is not theirs |
| `cmd/api` | one processor goroutine, the HTTP server | start, shutdown, forced stop | all | a stop cuts nothing off, or what it cuts off is done later; a signal always ends the process |
| FX rate endpoint, logging, tracing, recovery, headers, health, docs, config | none that concerns money | | | |

What is hard here: requests and processors run concurrently on the same rows;
the balance is computed in Go between a read and a write; the status of an
account is checked before it is locked; the submission, the callback, the
storing of an event, its processing and its marking are five separate steps of
three processes, any of which can fail; the idempotency lookup and the storing
of the response bracket a handler with nothing held in between; an account is
looked for in one statement and inserted in another; and a process may be told to
stop in the middle of any of this. `PROJECT.json`
lists each such hazard at its line with the properties that would catch it.

## Modules

| Module | Models |
|---|---|
| `GreyDomain` | accounts, requests, validation, the payment row a request becomes, the accounts it touches, how a payment and its reversal move balances |
| `SumTheorems` | sums over finite sets: how they change with one summand or one element |
| `GreyDomain_proof` | payment rows and the moves of money: conserved per currency, held for payouts |
| `Bank` | the abstract specification: a payment is one atomic move of money, a payout is settled or refunded once |
| `PaymentTx` | the database transactions, one step per row lock, any number of goroutines |
| `PaymentTx_proof` | types, row locks, the chain of the ledger, frozen accounts and deadlock, proved |
| `PaymentTx_books_proof` | books, audit trail, money, clearing accounts and the refinement of `Bank`, proved from the former |
| `Payouts` | a payout's way through submission, provider, callback, event table and processors, across shutdowns and restarts |
| `Payouts_proof` | one event per payout, the provider's word, event marks, shutdown and cover, proved |
| `Idempotency` | the middleware around the payment endpoints |
| `Idempotency_proof` | at most one payment, only true successes, proved |
| `AccountAPI` | login, tokens, and the account, user and payment resources |
| `Server` | the life of an API process around the calls it serves |
| `Server_proof` | accounts, owners and the clean stop, proved |
| `FXRates` | rates, spread, conversion and fee in integers |
| `FXRates_proof` | rounding for every amount, no profit from one whole unit on, proved |
| `MC...` | instances for TLC |

`Payouts` composes the parts: it extends `Bank`, and its `CreatePayment` and
`ApplyVerdict` take `Bank`'s steps, which is sound because `PaymentTx` is checked and
proved to implement `Bank`. `Server` extends `AccountAPI`: whether a call can arrive,
and whether it is cut off, depends on where `main` is. `MCPaymentTx` and `MCPayouts`
take their conversion from `FXRates`. The accounts of users, the FX pools and the
clearing accounts are told apart by their kind, as in the code by `account_type`;
nothing assumes that the seeded system user is not also a customer.

### How `PaymentTx` corresponds to the code

* A request goroutine reads accounts without a lock, validates, converts and
  begins a transaction (`BeginPost`), or returns early (`RefuseRequest`). The
  unlocked reads are one step: only the status read there can become stale in a
  way the code tells apart, and it is read again under the lock; accounts are
  never deleted and ids never change.
* `lockAccountsInOrder` is one `LockAccount` step per account, in the order of
  `LockRank`, which stands for the order of the UUIDs as strings. The row read
  with the lock is kept in `txn[x].locked`, and everything written later is
  computed from it, as in the code.
* `CommitPost`, `CommitCompletion` and `CommitReversal` are the rest of the
  function up to the commit: payment row, ledger entries, event, balances,
  under the version check of `UpdateBalance`, the CHECK constraint, the unique
  index and the `NOT IN` condition of `UpdateStatus`. They are one step because
  at READ COMMITTED nobody sees the writes earlier, all the accounts are
  locked, and of two updates of one payment row the second waits for the first
  and then evaluates its condition again. That wait cannot close a circle: a
  completion holds the payment row and waits for nothing, and a reversal takes
  the payment row only after all its accounts.
* `Refuse...` are the error returns under the locks; `DBFailure` is a failing
  statement, a cancelled context or a crash at any point. Both roll back.
* A transaction holds a connection of the pool from `Begin` to its end, and
  `BeginTx` waits for one (`HasConnection`, `PoolSize`). All statements of a
  transaction run on that connection, so a full pool delays and does not block;
  `LockThroughPool` shows what becomes of a statement that asks for a second one.
* Verdicts in `PaymentTx` are arbitrary, repeated and contradictory: what
  protects the books must not depend on the event table.
* `SetAccountStatus` is external: nothing in the repository freezes or closes
  an account, but the code checks for it, so an operator may do it in SQL.

Left out of the data: fees (recorded, never moved), IBANs, timestamps, the
provider reference, the failure reason, and the statuses `processing` and
`reversed`, which are declared and never written. Amounts are unbounded
integers: the configured limits keep one payment far below `int64`.

### How `Payouts` corresponds to the code

`CreatePayment` ends with the commit; `SubmitToProvider` or `SubmissionLost` is
what becomes of the call after it, and a commit whose acknowledgement got lost
(the code then returns an error and does not submit) is a `SubmissionLost` too.
The provider decides once and sends one callback; the callback may be delivered
any number of times, or never. Unsigned callbacks arrive at any time.
`webhooks` is the table in order of arrival, which stands for `created_at`; a
payout has one event, so its id also stands for the event id. A processor's batch
is the set of the places of its events, worked off in their order. A processor's
`lookup`, `handle` and `mark` are the three accesses of `processEvent` to the
database; each can fail, and the process can die before each (`Restart`). An
orderly stop is `Cancel`: the processor runs on to the end of its batch, but every
access takes the cancelled context and so fails: a lookup that fails gives the
event up, and the mark that would record this fails too.
Malformed payloads are refused at the endpoint and so never reach the processor.

### How `Idempotency` corresponds to the code

One step per database access: lookup (`MissingKey`, `LookUpError`, `CacheHit`,
`CacheMiss`), handler (`Handle`, `HandleError`), store (`Store`, `StoreError`).
The handler is reduced to the two checks on which the answer to a repeated call
depends, in their order: funds, then the unique index. `Store` does nothing when
the key has a row, also an expired one: `CleanExpired` has no caller.

### How `AccountAPI` and `Server` correspond to the code

A call is authenticated, matched with the owner of what it asks for and validated
when it arrives (`FirstStep`, in the order of middleware and handler): these steps
read the request, the clock and rows that never change. After that every statement
is a step: `CheckExisting` and `InsertAccount` of `CreateAccount`, `ListAccounts`,
`GetUser`, `GetPayment`. `CallError` is a failing statement, `InsertUnacknowledged`
an insert whose acknowledgement is lost. `sessions` says whether a user has been
issued a token and whether the latest still is valid; the API itself keeps no
sessions. A payment resource is shown to the owner of its source account only.

`main` goes `serving`, `stopping` (the processor is cancelled, the listener still
open), `draining` (`srv.Shutdown`), and ends `stopped`, or `exited` when the timer,
a failing listener or a kill comes first. `Drain` needs the processor to have
returned, as `processorWg.Wait` does. Calls in flight when a process ends are `cut`;
a next process may start. The processor here only sleeps, polls or has returned:
what it does with its batch is in `Payouts`.

## Runs

All bounds are in the `.cfg` files and the sets they name in the MC modules.

| Run | Instance | Result |
|---|---|---|
| `tx_safety` | 2 users, 2 currencies, 8 accounts, 3 requests out of 8, 2 processors, freezes of two accounts; 328,704 states | ten properties hold |
| `tx_flow` | 2 requests out of 5, 2 processors, 2 connections; 6,712 states | implements `Bank`; every transaction ends |
| `tx_refund` | as above, 3 requests, 1 processor | **violated**: a drained FX pool blocks a refund (`OnlyPoolRefusesRefund` of `tx_safety` says that nothing else can) |
| `payouts_safety` | 3 requests, 2 processors, scarce pools, batch of 2; 181,588 states | five properties hold |
| `payouts_liveness` | 2 requests, 1 processor, ample pools, batch of 1; 3,391 states | stored verdicts are applied; a shutdown gives up no event |
| `payouts_lookup` | 2 requests, 1 processor | **violated**: one failed read gives an event up |
| `payouts_starved` | 3 requests, 1 processor, batch of 1, scarce pools | **violated**: failing events block those behind |
| `idem_safety` | 3 calls out of 6 messages, expiry; 63,571 states | three properties hold |
| `idem_replay` | 2 calls | **violated**: a repeated call can be refused after the payment was made |
| `idem_payloads` | 2 calls | **violated**: one key can pay for two payloads |
| `fx_rounding` | 3 wallets, starts of 2.00 USD, 1.20 EUR and 1.10 GBP, all splits into parts of at least 100 minor units, default spread; 364,080 states | two properties hold |
| `server` | 2 users, 2 calls out of 9 asks, 2 processes one after the other; 98,423 states | five safety properties hold; a signal ends the process |

Why the bounds are enough: two opposed transfers and a third payment that needs the FX
pools of both make every kind of lock conflict; two processors make every race over one
verdict; a batch of one or two is to two or three events what ten is to more than ten.
Two calls make the race for the unique index of the accounts, and the second may also
repeat the first in the next process; what a third would add, the proofs cover. The pool
always has fewer connections than there are goroutines that may want one (2 for 4 in
`tx_flow`). Balances are small multiples of the amounts so that refusals for lack of
funds happen, and the conversion is the real one. In `fx_rounding` two US dollars can be
converted in two parts at once, and the other starts leave remainders behind; larger
amounts and other spreads are left to the proof. The lock order of the instance puts
neither senders nor system accounts first. Symmetry is used only over requests,
processors and calls, which no definition distinguishes, and never in a run with a
temporal property that needs fairness. CHECK_DEADLOCK is off because the clients may
stop sending: a finished system is not stuck. What must not get stuck is said by
`NoDeadlock`, `TransactionsEnd`, `StoredVerdictsAreApplied` and `SignalEndsProcess`.

The five violations are real disagreements between docs and code; `PROJECT.json` quotes
the lines. (On `idem_replay` the repository disagrees with itself:
`test_idempotency.sh:226` calls the losers of such a race expected.) `payouts_starved`
combines with `tx_refund`: ten blocked refunds stop all webhook processing.
`payouts_lookup` is about a failing read in a process that goes on; the same failure at
a shutdown is harmless, because the mark fails with it (`ShutdownKeepsEvents`). Four
smaller mismatches are not worth a run: `docs/ARCHITECTURE.md:194` promises completion
ledger entries (none are written, and none are needed: the money left the wallet when
the payout was created); line 94 says all system accounts are seeded (the outgoing ones
start at 0); `docs/openapi.yaml:195` promises 409 for an account that exists, but of two
concurrent calls the one that loses the race for the unique index gets 500; and
`docs/openapi.yaml:13` requires an idempotency key on every POST (creating an account
takes none).

### Fairness

`FairSpec`: a goroutine in a transaction keeps going (weak fairness of its last
step), and PostgreSQL queues the waiters of a row, so a waiter whose row becomes
free again and again gets it (strong fairness of `LockAccount`). Nothing is
assumed of clients, operators, verdicts or failures.

`FairPayoutsSpec`: the ticker keeps firing and a processor keeps going; failures
and restarts may recur for ever but not at every attempt, so each database access
that is tried infinitely often succeeds infinitely often. Nothing is assumed of
the network or the provider: the liveness properties start from a stored event.

`FairServerSpec`: `main` goes on, the 30 seconds of `Shutdown` end, a batch with a
cancelled context ends, and `select`, which picks at random among what is ready, does
not prefer the ticker to `ctx.Done` for ever (strong fairness of `ProcessorReturns`).
That the batch ends is an assumption on the driver, `lib/pq`: it must give up a
statement whose context is cancelled. `processorWg.Wait` (`cmd/api/main.go:134`) has no
timeout, so a read that blocked in the driver would hold up the stop until the process
is killed. Nothing is assumed of the calls.

## Proofs

All theorems hold for every value of the constants that satisfies the named ASSUMEs,
which TLC evaluates in the runs.

`PaymentTx`, for every set of users, wallets, currencies, requests and processors,
every lock order, every size of the pool, every conversion to positive amounts and
every input. Assumed: well-formed inputs, natural initial balances, processors that
are not requests, a pool that is not empty, and a lock order that is total and
injective on finitely many accounts.

* `TypeCorrect`: `Spec => []TypeOK`. Inductive as it stands. The one part that is
  not bookkeeping is that balances are natural numbers: every write is admitted
  by `WritesAccepted`, which contains the CHECK constraint.
* `LocksHold`: `Spec => []LockedRowsAreCurrent`. A row cannot change under its
  lock: a commit writes only rows it has locked (`WriteBooksFrame`), a lock is
  granted only on a free row, and the operator waits too. Needs, besides the
  types, that a request has no transaction before it begins (`PostsAreServed`).
* `LedgerExplains`: `Spec => []LedgerExplainsBalance`. The rows a commit computes
  from are current by `LocksHold`, so one more entry continues the chain
  (`ExplainsAppend`).
* `OnlyActivePay`: `Spec => InactiveAccountsDoNotPay`, an action property. What
  `verifyAccountActive` saw under the lock is still so at the commit.
* `DeadlockFree`: `Spec => []NoDeadlock`. `NoDeadlock` is not inductive; the
  strengthening is `OrderedLocks`, that all the locks a transaction holds have a
  lower rank than all it still needs. Among transactions that all wait for each
  other, take one that waits for the row of the greatest rank (`GreatestRank`):
  the holder of that row waits for a row of greater rank, a contradiction.

The rest of `PaymentTx` (`PaymentTx_books_proof`) needs to know what an open
transaction knows of its payment. That is the inductive invariant `BooksInv`: the
rows of `payments` are well formed and those of served requests (`RowsOK`); the row
a post is about to insert is that of an acceptable request and is not in the table
yet; and a completion or reversal holds the row of a payout as it was before
anybody decided it (`TxnMatches`). The last part is what makes the stale read of the
processor harmless: if `UpdateStatus` finds the row undecided, it is the row that
was read. `StepKinds` sorts the steps into the three commits and those that change
neither payments nor balances, ledger and events, so each proof has four cases.

* `BooksAreTrue`: `Spec => []BooksMatchPayments`. A commit appends one entry to each
  account of the footprint and none elsewhere, so it adds one place to the places of
  its payment and none to those of another (`PlacesAppend`); the posting comes before
  the reversal, and a decided payment gets no more entries.
* `TrailsAreTrue`: `Spec => []EventsMatchStatus`, in the same way.
* `MoneyIsConserved` and `OutgoingIsBacked`: `Spec => []MoneyConserved` and
  `Spec => []OutgoingHoldsPayouts`. The entries that a commit writes, computed row by
  row from the locked rows, are together the move `Pay` or `Unpay` of `Bank`
  (`PostBalances`, `ReversalBalances`); a move takes from one account what it gives
  to another of the same currency (`PayConserves`). The sums are recursive;
  `SumTheorems` proves what is needed of them by looking at a smallest
  counterexample, which needs no induction theorem. It is here that the number of
  accounts must be finite.
* `RefundsNeedOnlyThePool`: `Spec => []OnlyPoolRefusesRefund`. The clearing account
  holds this payout among others (`SumAtLeast`), the wallet is credited, and the pool
  of the destination currency is too. This is the exact extent of the violation that
  `tx_refund` shows.
* `TransactionsImplementBank`: `Spec => ImplementsBank`, the refinement. The three
  commits are `Post`, `Settle` and `Refund` of `Bank`, all other steps stutter.

`Payouts`, for any number of processors, any batch size and finitely many requests.

* `PayoutsTypeCorrect`, `OnlyBookedIsPaid` (`PayoutsOfPayments`), `ProviderObeyed`
  (`SettledAsProviderSaid`) and `DispatchIsTrue` (`DispatchedMeansSettled`) follow
  from one inductive invariant, `PInv`. A payment is settled from an event, an event
  comes from a callback, a callback from the provider's decision, so the invariant
  says of each stage that it agrees with the one before: signed callbacks and stored
  events carry the provider's verdict; a payout is in one stage at a time
  (`OneStage`), so the provider decides once; a payout has one event (`OneEvent`, a
  part of `PayoutsTypeOK`, for which the unique index is needed); and a
  processor about to mark an event as dispatched does so because the verdict is
  already in the books, where it stays.
* `ShutdownIsSafe`: if lookups of existing rows do not fail by themselves
  (`~LookupFails`), no event is ever given up, although a cancelled context makes
  every lookup fail: a processor about to mark an event as failed is cancelled,
  and then cannot mark it. The assumption is needed: `payouts_lookup` violates the
  like without it.
* `ExposureIsCovered`: `PayoutsSpec => []ProviderIsCovered`: the clearing account of a
  currency covers the payouts that the provider has accepted, may still be told of, or
  has decided to pay, also when answers and callbacks get lost. Two facts meet here. The
  clearing account holds the payouts that are not refunded (`Cleared`, which each step of
  `Bank` keeps: `PostClears`, `SettleClears`, `RefundClears`), and by `PInv` none of the
  payouts in question is refunded, since a refund needs the provider's refusal; so they
  are a part of those (`SumOfPart`). The mutant `SubmitTimedOut` refunds a payout whose
  submission got no answer, and breaks it.

`Idempotency`, for any calls, messages and funds, with or without expiry:
`IdempotencyTypeCorrect`, `NeverPaidTwice` (`PaidAtMostOnce`) and `NoFalseSuccess`
(`SuccessesAreTrue`). What protects against a second payment is the unique index, not
the cache; the cache must only hold true successes (`StoredSuccessesAreTrue`), and a
call's progress must determine what it has been told (`Progress`).

`Server`, for any calls, users, currencies and number of processes:
`ServerTypeCorrect`, `OneAccount` (`OneAccountPerCurrency`), `TrueAnswers`
(`CreateAnswersAreTrue`), `OwnersOnly` (`OnlyOwnersAreServed`) and `CleanStop`
(`CleanStopCutsNothing`). The strengthening `ServerInv` says that every call beyond
its arrival was authenticated and asks for what is its own (`CallsOK`), that every
account comes from a call that is past its insert (`AccountsHaveCalls`), so that a
call about to insert has no account yet, and that the processor has returned once
the server drains (`ProcessorFirst`).

`FXRates`, for every set of starting currencies and amounts:

* `ConversionsAreNearest`: `FXSpec => []ConversionIsNearest`, for every spread from 0
  to 1 (any fraction, as `FX_SPREAD_PCT` may be any decimal number) and amounts of any
  size.
* `WholeUnitsMakeNoProfit`: with a spread of at least the default 0.005, a customer who
  converts at least 100 minor units at a time satisfies `NoConversionProfit`, whatever he
  starts with, however he splits it and how often he converts. `NoConversionProfit`
  speaks of the wallet of the start only and is not inductive. The strengthening
  `WorthBounded` gives a minor unit of each currency a worth such that each effective
  rate loses worth, and bounds the worth of all wallets together; one conversion gains at
  most half a unit by rounding, which the spread outweighs from 100 minor units on
  (`ConversionLoses`).

Below one whole unit rounding and the minimum of one can favour the customer (1 US cent
is credited as 1 penny), and `NoConversionProfit` does not hold. Nothing in the
repository promises otherwise, so there is no finding; how much a single
conversion can gain is what `ConversionIsNearest` says, half a minor unit or, for the
minimum of one, less than one.

Only model-checked: `TransactionsEnd`, `StoredVerdictsAreApplied` and
`SignalEndsProcess`, because liveness under fairness is out of the prover's reach. Every
other invariant and action property of a passing run is a theorem.

## Not modelled

The FX rate endpoint (a pure function of the rates in `FXRates`); logging, tracing,
recovery, headers, health, docs and configuration (no state); the generation of
account numbers and IBANs and the hashing of passwords (random strings, external
functions); the test utilities; and repository queries that nothing calls.

## Plan

1. Proofs: the balance of each FX pool as a sum over the payments (what conversions
   brought and took), so that the condition under which a refund is blocked can be
   read from the payments alone.
2. A wider `Idempotency`: responses of validation errors, which are cached too.
