------------------------------- MODULE Payouts -------------------------------
(***************************************************************************)
(* The life of an external payout, from the API call to the last word of   *)
(* the provider: the submission that follows the commit, the provider      *)
(* (cmd/mock-provider), its callback over an unreliable network, the       *)
(* webhook endpoint, the webhook_events table and the processors that poll *)
(* it.                                                                     *)
(*                                                                         *)
(* Money moves by the actions of Bank: the database transactions are       *)
(* atomic here, which is what PaymentTx shows of them.  Everything around  *)
(* the transactions is a step of its own, because a process may die or a   *)
(* call may fail between any two of them.                                  *)
(***************************************************************************)
EXTENDS Bank, Sequences

CONSTANTS
    Processors,  \* API processes, each with one webhook processor
    PollLimit,   \* GetPending's limit: 10 in the code
    LookupFails  \* whether GetByID may fail although the row exists

ASSUME PollAssumption    == PollLimit \in Nat \ {0} /\ LookupFails \in BOOLEAN
ASSUME RequestAssumption == IsFiniteSet(Requests)

VARIABLES
    submitting,  \* payouts committed but not yet sent to the provider
    accepted,    \* payouts the provider is working on
    verdict,     \* payout |-> what the provider decided, "none" before
    network,     \* callbacks on their way to the webhook endpoint
    webhooks,    \* the webhook_events table, in order of arrival
    proc         \* processor |-> where it is in its polling loop

flowVars == <<submitting, accepted, verdict, network>>
hookVars == <<webhooks, proc>>
vars     == <<bankVars, flowVars, hookVars>>

Verdicts      == {"completed", "failed"}
EventStatuses == {"pending", "dispatched", "failed"}

\* A callback.  The provider gives each verdict one event id; with one verdict
\* per payout the payment id serves for both.  signed: the HMAC is right.
Callback == [pay : Requests, status : Verdicts, signed : BOOLEAN]

WebhookEvent == [pay : Requests, verdict : Verdicts, status : EventStatuses]

\* A processor: what it does next with the first event of its batch, the status
\* it will give that event, and whether its context has been cancelled.  The
\* batch is a set of places in webhooks, and gone through in their order.
Idle == [pc |-> "idle", batch |-> {}, mark |-> "pending", cancelled |-> FALSE]

Processor == [pc : {"idle", "lookup", "handle", "mark"},
              batch : SUBSET (1 .. Cardinality(Requests)), mark : EventStatuses,
              cancelled : BOOLEAN]

\* The unique index on the provider's event ids.
OneEvent ==
    \A i, j \in 1 .. Len(webhooks) : webhooks[i].pay = webhooks[j].pay => i = j

\* The variables have their types, and a payout has at most one event, however
\* often and however close together its callback is delivered.
PayoutsTypeOK ==
    /\ BankTypeOK
    /\ submitting \subseteq Requests
    /\ accepted \subseteq Requests
    /\ verdict \in [Requests -> Verdicts \cup {"none"}]
    /\ network \subseteq Callback
    /\ webhooks \in Seq(WebhookEvent)
    /\ OneEvent
    /\ proc \in [Processors -> Processor]

PayoutsInit ==
    /\ BankInit
    /\ submitting = {}
    /\ accepted = {}
    /\ verdict = [r \in Requests |-> "none"]
    /\ network = {}
    /\ webhooks = <<>>
    /\ proc = [w \in Processors |-> Idle]

-----------------------------------------------------------------------------
(***************************************************************************)
(* The API goroutine and the provider.                                     *)
(***************************************************************************)
\* Faulty variant: submitted from within the transaction, which then fails.
SubmitFirst(r) ==
    /\ r \notin DOMAIN payments
    /\ submitting' = submitting \cup {r}
    /\ UNCHANGED <<bankVars, accepted, verdict, network, hookVars>>

\* CreateInternalTransfer or CreateExternalPayout has committed; a payout is
\* still to be submitted.
CreatePayment(r) ==
    /\ Post(r)
    /\ submitting' = IF payments'[r].type = "external_payout"
                     THEN submitting \cup {r} ELSE submitting
    /\ UNCHANGED <<accepted, verdict, network, hookVars>>

\* Faulty variant: a submission without an answer is taken for one that did not
\* arrive, and the money given back at once.
SubmitTimedOut(r) ==
    /\ r \in submitting
    /\ submitting' = submitting \ {r}
    /\ accepted' = accepted \cup {r}
    /\ Refund(r)
    /\ UNCHANGED <<verdict, network, hookVars>>

\* The provider accepts (202), even when the client times out and only logs.
SubmitToProvider(r) ==
    /\ r \in submitting
    /\ submitting' = submitting \ {r}
    /\ accepted' = accepted \cup {r}
    /\ UNCHANGED <<bankVars, verdict, network, hookVars>>

\* The submission never reaches the provider: a refused connection, a
\* cancelled request, an acknowledgement of the commit that got lost, a crash.
\* submitToProvider logs and nothing tries again.
SubmissionLost(r) ==
    /\ r \in submitting
    /\ submitting' = submitting \ {r}
    /\ UNCHANGED <<bankVars, accepted, verdict, network, hookVars>>

\* processPayment: decide, sign, send one callback.
ProviderDecides(r, v) ==
    /\ r \in accepted
    /\ accepted' = accepted \ {r}
    /\ verdict' = [verdict EXCEPT ![r] = v]
    /\ network' = network \cup {[pay |-> r, status |-> v, signed |-> TRUE]}
    /\ UNCHANGED <<bankVars, submitting, hookVars>>

-----------------------------------------------------------------------------
(***************************************************************************)
(* The network between them, and the webhook endpoint.                     *)
(***************************************************************************)
\* Anybody can post to the endpoint, at any time, but not sign.
Unsigned == {m \in Callback : ~m.signed}

\* A callback is gone: undelivered, or delivered for the last time.  The
\* provider does not send it again.
CallbackGone(m) ==
    /\ m \in network
    /\ network' = network \ {m}
    /\ UNCHANGED <<bankVars, submitting, accepted, verdict, hookVars>>

\* Faulty variant: the signature header ignored.
SkipHMAC(m) == TRUE

VerifyHMAC(m) == m.signed

\* Faulty variant: no unique index.
NeverStored(r) == FALSE

\* idx_webhook_events_idempotency_key.
AlreadyStored(r) == \E i \in 1 .. Len(webhooks) : webhooks[i].pay = r

\* The callback stays in the network: it may be delivered again, and is then
\* acknowledged as already_received.
ReceiveProviderWebhook(m) ==
    /\ VerifyHMAC(m)
    /\ ~AlreadyStored(m.pay)
    /\ webhooks' = Append(webhooks, [pay |-> m.pay, verdict |-> m.status,
                                     status |-> "pending"])
    /\ UNCHANGED <<bankVars, flowVars, proc>>

-----------------------------------------------------------------------------
(***************************************************************************)
(* The webhook processor: poll, and processEvent for each event in turn.   *)
(***************************************************************************)
\* Faulty variant: the oldest events of any status.
GetOldest == {i \in 1 .. Len(webhooks) : i <= PollLimit}

\* GetPending: the oldest pending events, at most PollLimit of them.
GetPending ==
    LET pending == {i \in 1 .. Len(webhooks) : webhooks[i].status = "pending"}
    IN  {i \in pending : Cardinality({j \in pending : j < i}) < PollLimit}

Become(w, pc, batch, mark) ==
    proc' = [proc EXCEPT ![w] = [pc |-> pc, batch |-> batch, mark |-> mark,
                                 cancelled |-> proc[w].cancelled]]

Poll(w) ==
    /\ proc[w].pc = "idle"
    /\ GetPending # {}
    /\ Become(w, "lookup", GetPending, "pending")
    /\ UNCHANGED <<bankVars, flowVars, webhooks>>

Current(w) == Min(proc[w].batch)

Event(w) == webhooks[Current(w)]

At(w, pc) == proc[w].pc = pc

GoOn(w, pc, mark) == Become(w, pc, proc[w].batch, mark)

\* Every database access takes the processor's context: once that is cancelled
\* they all return an error.
Alive(w) == ~proc[w].cancelled

\* On to the next event of the batch, or to sleep until the next tick.  With a
\* cancelled context the sleep ends the process, and Idle is the next one.
NextEvent(w) ==
    LET rest == proc[w].batch \ {Current(w)} IN
    IF rest = {} THEN proc' = [proc EXCEPT ![w] = Idle]
                 ELSE Become(w, "lookup", rest, "pending")

\* GetByID finds the payment: skip it if terminal, else handle the verdict.
LookUpPayment(w) ==
    /\ At(w, "lookup") /\ Alive(w)
    /\ Event(w).pay \in DOMAIN payments
    /\ IF IsTerminal(payments[Event(w).pay].status)
       THEN GoOn(w, "mark", "dispatched")
       ELSE GoOn(w, "handle", "pending")
    /\ UNCHANGED <<bankVars, flowVars, webhooks>>

\* GetByID finds no row, or fails for any other reason: the event is given up.
LookUpError(w) ==
    /\ At(w, "lookup")
    /\ LookupFails \/ ~Alive(w) \/ Event(w).pay \notin DOMAIN payments
    /\ GoOn(w, "mark", "failed")
    /\ UNCHANGED <<bankVars, flowVars, webhooks>>

\* handleCompleted or handleFailed commits.
ApplyVerdict(w) ==
    /\ At(w, "handle") /\ Alive(w)
    /\ IF Event(w).verdict = "completed" THEN Settle(Event(w).pay)
                                         ELSE Refund(Event(w).pay)
    /\ GoOn(w, "mark", "dispatched")
    /\ UNCHANGED <<flowVars, webhooks>>

\* ErrPaymentTerminal: another processor was faster.
VerdictTooLate(w) ==
    /\ At(w, "handle") /\ Alive(w)
    /\ IsTerminal(payments[Event(w).pay].status)
    /\ GoOn(w, "mark", "dispatched")
    /\ UNCHANGED <<bankVars, flowVars, webhooks>>

\* Faulty variant: the error is logged and the event marked all the same.
HandlerErrorMarks(w) ==
    /\ At(w, "handle")
    /\ GoOn(w, "mark", "dispatched")
    /\ UNCHANGED <<bankVars, flowVars, webhooks>>

\* The transaction fails, or the database turns it down (Refund not possible):
\* the error is logged and the event left pending.
HandlerError(w) ==
    /\ At(w, "handle")
    /\ NextEvent(w)
    /\ UNCHANGED <<bankVars, flowVars, webhooks>>

\* Faulty variant: the mark made with a context of its own, so that it outlives
\* the shutdown.
MarkRegardless(w) ==
    /\ At(w, "mark")
    /\ webhooks' = [webhooks EXCEPT ![Current(w)].status = proc[w].mark]
    /\ NextEvent(w)
    /\ UNCHANGED <<bankVars, flowVars>>

\* WebhookEventRepository.UpdateStatus.
MarkEvent(w) ==
    /\ At(w, "mark") /\ Alive(w)
    /\ webhooks' = [webhooks EXCEPT ![Current(w)].status = proc[w].mark]
    /\ NextEvent(w)
    /\ UNCHANGED <<bankVars, flowVars>>

\* That update fails, after the payment has been dealt with.
MarkError(w) ==
    /\ At(w, "mark")
    /\ NextEvent(w)
    /\ UNCHANGED <<bankVars, flowVars, webhooks>>

\* SIGTERM: main calls processorCancel, and the processor runs on to the end of
\* its batch.  In a processor that sleeps, this is a Restart.
Cancel(w) ==
    /\ proc[w] # Idle /\ Alive(w)
    /\ proc' = [proc EXCEPT ![w] = [@ EXCEPT !.cancelled = TRUE]]
    /\ UNCHANGED <<bankVars, flowVars, webhooks>>

\* The process dies, and comes back.
Restart(w) ==
    /\ proc[w] # Idle
    /\ proc' = [proc EXCEPT ![w] = Idle]
    /\ UNCHANGED <<bankVars, flowVars, webhooks>>

-----------------------------------------------------------------------------
ProcessorStep(w) ==
    \/ Poll(w) \/ LookUpPayment(w) \/ LookUpError(w)
    \/ ApplyVerdict(w) \/ VerdictTooLate(w) \/ HandlerError(w)
    \/ MarkEvent(w) \/ MarkError(w)

PayoutsNext ==
    \/ \E r \in Requests : CreatePayment(r) \/ SubmitToProvider(r) \/ SubmissionLost(r)
    \/ \E r \in Requests, v \in Verdicts : ProviderDecides(r, v)
    \/ \E m \in network : CallbackGone(m)
    \/ \E m \in network \cup Unsigned : ReceiveProviderWebhook(m)
    \/ \E w \in Processors : ProcessorStep(w) \/ Cancel(w) \/ Restart(w)

PayoutsSpec == PayoutsInit /\ [][PayoutsNext]_vars

(***************************************************************************)
(* Fairness of the processors.  The ticker fires for ever and a processor  *)
(* keeps going.  Failures and restarts may happen again and again, but not *)
(* every single time: a step that gets its chance infinitely often         *)
(* succeeds infinitely often.                                              *)
(***************************************************************************)
ProcessorFairness ==
    \A w \in Processors :
        /\ WF_vars(ProcessorStep(w))
        /\ \A i \in 1 .. Cardinality(Requests) :
              /\ SF_vars(LookUpPayment(w) /\ Current(w) = i)
              /\ SF_vars((ApplyVerdict(w) \/ VerdictTooLate(w)) /\ Current(w) = i)
              /\ SF_vars(MarkEvent(w) /\ Current(w) = i)

FairPayoutsSpec == PayoutsSpec /\ ProcessorFairness

-----------------------------------------------------------------------------
(***************************************************************************)
(* Properties                                                              *)
(***************************************************************************)
PaymentStatus(r) == IF r \in DOMAIN payments THEN payments[r].status ELSE "none"

\* A payout is completed or refunded only by the provider's own word, whatever
\* else reaches the webhook endpoint and however often it does.
SettledAsProviderSaid ==
    \A r \in DOMAIN payments :
        payments[r].type = "external_payout" /\ payments[r].status # "pending"
            => verdict[r] = payments[r].status

\* An event leaves the queue as dispatched only when its verdict is in the
\* books, across failed writes, restarts and a second processor.
DispatchedMeansSettled ==
    \A i \in 1 .. Len(webhooks) :
        webhooks[i].status = "dispatched" =>
            PaymentStatus(webhooks[i].pay) = webhooks[i].verdict

\* The provider works only on payouts that are in the books, with their money
\* taken from the customer: a payment is never paid out that a failed, refused
\* or crashed transaction did not create, and no transfer is.
PayoutsOfPayments ==
    \A r \in submitting \cup accepted \cup {q \in Requests : verdict[q] # "none"} :
        r \in DOMAIN payments /\ payments[r].type = "external_payout"

\* The payouts in currency c that the provider has paid, or may yet pay.
Exposed(c) ==
    {r \in DOMAIN payments :
        /\ payments[r].dst = Outgoing(c)
        /\ r \in submitting \cup accepted \/ verdict[r] = "completed"}

\* The clearing account covers whatever the provider has paid or may yet pay:
\* nothing is given back to the customer before the provider has said no, also
\* when the answer to a submission is lost, or the callback of a payout that was
\* paid never arrives and the books say pending for ever.
ProviderIsCovered ==
    \A c \in Currencies :
        balance[Outgoing(c)] >=
            InitBalance[Outgoing(c)] + AmountOf(payments, Exposed(c))

\* A shutdown gives no event up.  The cancelled context makes the lookup of the
\* payment fail, which the code takes for a missing payment; only that the mark
\* fails for the same reason keeps the event pending for the next process.
ShutdownKeepsEvents ==
    \A i \in 1 .. Len(webhooks) : webhooks[i].status # "failed"

\* What docs/ARCHITECTURE.md section 14 says of the processor: it retries
\* indefinitely on failure.  So no event is given up while its payout waits.
FailuresAreRetried ==
    \A i \in 1 .. Len(webhooks) :
        webhooks[i].status = "failed" => PaymentStatus(webhooks[i].pay) # "pending"

Stored(r) == \E i \in 1 .. Len(webhooks) : webhooks[i].pay = r

\* A verdict that has been stored is eventually in the books, through failed
\* transactions, failed status updates and restarts.
StoredVerdictsAreApplied ==
    \A r \in Requests : Stored(r) ~> PaymentStatus(r) = verdict[r]

\* docs/ARCHITECTURE.md section 14: the processor polls for pending events and
\* processes each one.  A success that has been stored reaches its payout,
\* whatever happens to the events before it.
SuccessesAreApplied ==
    \A r \in Requests :
        Stored(r) /\ verdict[r] = "completed" ~> PaymentStatus(r) = "completed"
=============================================================================
