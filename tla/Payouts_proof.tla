---------------------------- MODULE Payouts_proof ----------------------------
(***************************************************************************)
(* Proofs about Payouts, for every set of requests, processors, accounts   *)
(* and inputs, every batch limit, and every pattern of lost, repeated and  *)
(* forged callbacks, failing statements, shutdowns and crashes.            *)
(***************************************************************************)
EXTENDS Payouts, GreyDomain_proof

-----------------------------------------------------------------------------
(***************************************************************************)
(* The steps of Bank.                                                      *)
(***************************************************************************)
\* A request becomes a payment: a transfer is completed, a payout pending.
LEMMA PostFacts ==
    ASSUME BankTypeOK, NEW r \in Requests, Post(r)
    PROVE  /\ BankTypeOK'
           /\ DOMAIN payments' = DOMAIN payments \cup {r}
           /\ r \notin DOMAIN payments
           /\ \A q \in DOMAIN payments : payments'[q] = payments[q]
           /\ payments'[r].type = "external_payout" => payments'[r].status = "pending"
<1>1. PICK in \in Inputs : Acceptable(in) /\ payments' = Put(payments, r, NewPayment(in))
  BY DEF Post
<1>2. NewPayment(in) \in Payment
  BY <1>1, NewPaymentType
<1>3. /\ DOMAIN payments' = DOMAIN payments \cup {r}
      /\ \A q \in DOMAIN payments' : payments'[q] = IF q = r THEN NewPayment(in) ELSE payments[q]
      /\ payments' = [q \in DOMAIN payments' |-> payments'[q]]
  BY <1>1 DEF Put
<1>4. BankTypeOK'
  BY <1>2, <1>3 DEF BankTypeOK, Post
<1>5. /\ r \notin DOMAIN payments
      /\ \A q \in DOMAIN payments : payments'[q] = payments[q]
  BY <1>3 DEF Post
<1>6. payments'[r].type = "external_payout" => payments'[r].status = "pending"
  BY <1>3 DEF NewPayment
<1> QED BY <1>3, <1>4, <1>5, <1>6

\* A verdict changes the status of one pending payment.
LEMMA VerdictFacts ==
    ASSUME BankTypeOK, NEW r, NEW v \in Verdicts,
           v = "completed" => Settle(r), v = "failed" => Refund(r)
    PROVE  /\ BankTypeOK'
           /\ DOMAIN payments' = DOMAIN payments
           /\ r \in DOMAIN payments /\ payments[r].status = "pending"
           /\ \A q \in DOMAIN payments \ {r} : payments'[q] = payments[q]
           /\ payments'[r].type = payments[r].type
           /\ payments'[r].status = v
<1>1. /\ r \in DOMAIN payments /\ payments[r].status = "pending"
      /\ payments' = [payments EXCEPT ![r].status = v]
      /\ balance' = balance \/ balance' \in [Accounts -> Nat]
  BY DEF Verdicts, Settle, Refund
<1>2. PICK p : p = [payments[r] EXCEPT !.status = v]
  OBVIOUS
<1>3. payments' = [payments EXCEPT ![r] = p]
  BY <1>1, <1>2
<1>4. payments[r] \in Payment
  BY <1>1 DEF BankTypeOK
<1>5. p \in Payment /\ p.status = v /\ p.type = payments[r].type
  BY <1>2, <1>4 DEF Payment, Verdicts, PaymentStatuses
<1>6. /\ DOMAIN payments' = DOMAIN payments
      /\ payments' \in [DOMAIN payments -> Payment]
      /\ \A q \in DOMAIN payments \ {r} : payments'[q] = payments[q]
      /\ payments'[r] = p
  BY <1>1, <1>3, <1>5 DEF BankTypeOK
<1> QED BY <1>1, <1>5, <1>6 DEF BankTypeOK

\* A processor that has a batch is at one of its events.
LEMMA MinInSet ==
    ASSUME NEW S, S \subseteq Nat, S # {}
    PROVE  Min(S) \in S
<1>1. PICK x \in S : \A y \in S : ~(<<y, x>> \in OpToRel(<, Nat))
  BY NatLessThanWellFounded, WFMin
<1>2. \A y \in S : ~(y < x)
  BY <1>1 DEF OpToRel
<1>3. x \in S /\ \A y \in S : x =< y
  BY <1>2
<1>4. \E z \in S : \A y \in S : z =< y
  BY <1>3
<1> QED BY <1>4 DEF Min
-----------------------------------------------------------------------------
(***************************************************************************)
(* The inductive invariant.                                                *)
(***************************************************************************)
FlowTypes ==
    /\ BankTypeOK
    /\ submitting \subseteq Requests
    /\ accepted \subseteq Requests
    /\ verdict \in [Requests -> Verdicts \cup {"none"}]
    /\ network \subseteq Callback
    /\ webhooks \in Seq(WebhookEvent)

\* A payout is submitted once and decided once.
OneStage ==
    /\ submitting \cap accepted = {}
    /\ \A r \in submitting \cup accepted : verdict[r] = "none"

\* What is signed is what the provider decided.
CallbacksAreTrue == \A m \in network : m.signed /\ verdict[m.pay] = m.status

\* The verdict of event e is in the payments P.
Applied(e, P) == e.pay \in DOMAIN P /\ P[e.pay].status = e.verdict

GoodEvent(e, V, P) ==
    /\ V[e.pay] = e.verdict
    /\ e.status = "dispatched" => Applied(e, P)
    /\ e.status = "failed" => LookupFails

EventsOK == \A i \in 1 .. Len(webhooks) : GoodEvent(webhooks[i], verdict, payments)

\* A processor in the middle of a batch of events W knows what it will mark.
GoodProc(p, W, P) ==
    /\ p \in [pc : {"idle", "lookup", "handle", "mark"}, batch : SUBSET Nat,
              mark : EventStatuses, cancelled : BOOLEAN]
    /\ p.batch \subseteq 1 .. Len(W)
    /\ p.pc # "idle" => p.batch # {}
    /\ p.pc = "mark" /\ p.mark = "dispatched" => Applied(W[Min(p.batch)], P)
    /\ p.pc = "mark" /\ p.mark = "failed" => LookupFails \/ p.cancelled

ProcsOK ==
    /\ DOMAIN proc = Processors
    /\ proc = [w \in Processors |-> proc[w]]
    /\ \A w \in Processors : GoodProc(proc[w], webhooks, payments)

FlowInv == /\ FlowTypes /\ PayoutsOfPayments /\ OneStage /\ CallbacksAreTrue
           /\ SettledAsProviderSaid

PInv == FlowInv /\ EventsOK /\ OneEvent /\ ProcsOK

\* Initially no payout is on its way.
LEMMA PInvInit == PayoutsInit => PInv
<1> SUFFICES ASSUME PayoutsInit PROVE PInv
  OBVIOUS
<1>1. FlowTypes
  BY BalanceAssumption DEF PayoutsInit, BankInit, EmptyMap, FlowTypes, BankTypeOK
<1>2. PayoutsOfPayments /\ OneStage /\ CallbacksAreTrue /\ SettledAsProviderSaid
  BY DEF PayoutsInit, BankInit, EmptyMap, PayoutsOfPayments, OneStage, CallbacksAreTrue,
         SettledAsProviderSaid
<1>3. EventsOK /\ OneEvent
  BY DEF PayoutsInit, EventsOK, OneEvent
<1>4. GoodProc(Idle, webhooks, payments)
  BY DEF GoodProc, Idle, EventStatuses
<1>5. ProcsOK
  BY <1>4 DEF PayoutsInit, ProcsOK
<1> QED BY <1>1, <1>2, <1>3, <1>5 DEF PInv, FlowInv

\* What a step may do to the payments: add some, and end pending ones.
PaymentsGrow ==
    /\ DOMAIN payments \subseteq DOMAIN payments'
    /\ \A r \in DOMAIN payments :
          /\ payments'[r].type = payments[r].type
          /\ payments[r].status # "pending" => payments'[r].status = payments[r].status

\* A verdict in the books stays there.
LEMMA AppliedStays ==
    ASSUME PaymentsGrow, NEW e \in WebhookEvent, Applied(e, payments)
    PROVE  Applied(e, payments')
<1>1. e.verdict # "pending"
  BY DEF WebhookEvent, Verdicts
<1> QED BY <1>1 DEF PaymentsGrow, Applied

\* Every stored event is that of a payout, and its verdict the provider's.
LEMMA EventFacts ==
    ASSUME PInv, NEW i \in 1 .. Len(webhooks)
    PROVE  /\ webhooks[i] \in WebhookEvent
           /\ webhooks[i].pay \in Requests /\ webhooks[i].verdict \in Verdicts
           /\ verdict[webhooks[i].pay] = webhooks[i].verdict
           /\ webhooks[i].pay \in DOMAIN payments
           /\ payments[webhooks[i].pay].type = "external_payout"
<1>1. webhooks[i] \in WebhookEvent
  BY DEF PInv, FlowInv, FlowTypes
<1>2. webhooks[i].pay \in Requests /\ webhooks[i].verdict \in Verdicts
  BY <1>1 DEF WebhookEvent
<1>3. verdict[webhooks[i].pay] = webhooks[i].verdict
  BY DEF PInv, EventsOK, GoodEvent
<1>4. verdict[webhooks[i].pay] # "none"
  BY <1>2, <1>3 DEF Verdicts
<1> QED BY <1>1, <1>2, <1>3, <1>4 DEF PInv, FlowInv, PayoutsOfPayments

\* Where a processor with a batch stands.
LEMMA CurrentFacts ==
    ASSUME PInv, NEW w \in Processors, proc[w].pc # "idle"
    PROVE  /\ Current(w) \in proc[w].batch /\ Current(w) \in 1 .. Len(webhooks)
           /\ GoodProc(proc[w], webhooks, payments)
<1>1. GoodProc(proc[w], webhooks, payments)
  BY DEF PInv, ProcsOK
<1>2. proc[w].batch \subseteq Nat /\ proc[w].batch # {} /\ proc[w].batch \subseteq 1 .. Len(webhooks)
  BY <1>1 DEF GoodProc
<1>3. Min(proc[w].batch) \in proc[w].batch
  BY <1>2, MinInSet
<1> QED BY <1>1, <1>2, <1>3 DEF Current

\* Events and processors that are left alone stay good while payments grow and
\* verdicts stay.
LEMMA GoodStays ==
    ASSUME PInv, webhooks' = webhooks, PaymentsGrow,
           \A r \in Requests : verdict[r] # "none" => verdict'[r] = verdict[r]
    PROVE  /\ EventsOK' /\ OneEvent'
           /\ \A w \in Processors : GoodProc(proc[w], webhooks, payments')
<1>1. ASSUME NEW i \in 1 .. Len(webhooks)
      PROVE  GoodEvent(webhooks[i], verdict', payments')
  <2>1. GoodEvent(webhooks[i], verdict, payments)
    BY DEF PInv, EventsOK
  <2>2. verdict'[webhooks[i].pay] = verdict[webhooks[i].pay]
    BY EventFacts DEF Verdicts
  <2>3. Applied(webhooks[i], payments) => Applied(webhooks[i], payments')
    BY EventFacts, AppliedStays
  <2> QED BY <2>1, <2>2, <2>3 DEF GoodEvent
<1>2. ASSUME NEW w \in Processors
      PROVE  GoodProc(proc[w], webhooks, payments')
  <2>1. GoodProc(proc[w], webhooks, payments)
    BY DEF PInv, ProcsOK
  <2>2. CASE proc[w].pc # "idle"
    <3>1. Current(w) \in 1 .. Len(webhooks)
      BY <2>2, CurrentFacts
    <3>2. Applied(webhooks[Current(w)], payments) => Applied(webhooks[Current(w)], payments')
      BY <3>1, EventFacts, AppliedStays
    <3> QED BY <2>1, <3>2 DEF GoodProc, Current
  <2>3. CASE proc[w].pc = "idle"
    BY <2>1, <2>3 DEF GoodProc
  <2> QED BY <2>2, <2>3
<1>3. EventsOK' /\ OneEvent'
  BY <1>1 DEF EventsOK, OneEvent, PInv
<1> QED BY <1>2, <1>3

\* A step beside event table and processors keeps what is said of them.
LEMMA HooksStay ==
    ASSUME PInv, UNCHANGED hookVars, PaymentsGrow,
           \A r \in Requests : verdict[r] # "none" => verdict'[r] = verdict[r]
    PROVE  EventsOK' /\ OneEvent' /\ ProcsOK'
<1>1. webhooks' = webhooks /\ proc' = proc
  BY DEF hookVars
<1> QED BY <1>1, GoodStays DEF ProcsOK, PInv
-----------------------------------------------------------------------------
(***************************************************************************)
(* The steps outside the processors.                                       *)
(***************************************************************************)
\* A new payment starts at the first stage.
LEMMA CreatePaymentStep ==
    ASSUME PInv, NEW r \in Requests, CreatePayment(r)
    PROVE  PInv'
<1>1. /\ Post(r) /\ UNCHANGED <<accepted, verdict, network, hookVars>>
      /\ submitting' = IF payments'[r].type = "external_payout"
                       THEN submitting \cup {r} ELSE submitting
  BY DEF CreatePayment
<1>2. /\ BankTypeOK'
      /\ DOMAIN payments' = DOMAIN payments \cup {r}
      /\ r \notin DOMAIN payments
      /\ \A q \in DOMAIN payments : payments'[q] = payments[q]
      /\ payments'[r].type = "external_payout" => payments'[r].status = "pending"
  BY <1>1, PostFacts DEF PInv, FlowInv, FlowTypes
<1>3. r \notin submitting \cup accepted /\ verdict[r] = "none"
  BY <1>2 DEF PInv, FlowInv, PayoutsOfPayments
<1>4. FlowTypes'
  BY <1>1, <1>2 DEF PInv, FlowInv, FlowTypes, hookVars
<1>5. PayoutsOfPayments'
  BY <1>1, <1>2 DEF PInv, FlowInv, PayoutsOfPayments
<1>6. OneStage' /\ CallbacksAreTrue'
  BY <1>1, <1>3 DEF PInv, FlowInv, OneStage, CallbacksAreTrue
<1>7. SettledAsProviderSaid'
  BY <1>1, <1>2 DEF PInv, FlowInv, SettledAsProviderSaid
<1>8. PaymentsGrow
  BY <1>2 DEF PaymentsGrow
<1>9. EventsOK' /\ OneEvent' /\ ProcsOK'
  BY <1>1, <1>8, HooksStay
<1> QED BY <1>4, <1>5, <1>6, <1>7, <1>9 DEF PInv, FlowInv

\* A submission moves a payout on by one stage, or loses it.
LEMMA SubmitStep ==
    ASSUME PInv, NEW r \in Requests, SubmitToProvider(r) \/ SubmissionLost(r)
    PROVE  PInv'
<1>1. /\ r \in submitting /\ submitting' = submitting \ {r}
      /\ accepted' = accepted \cup {r} \/ accepted' = accepted
      /\ UNCHANGED <<balance, payments, verdict, network, hookVars>>
  BY DEF SubmitToProvider, SubmissionLost, bankVars
<1>2. FlowTypes'
  BY <1>1 DEF PInv, FlowInv, FlowTypes, BankTypeOK, hookVars
<1>3. PayoutsOfPayments' /\ OneStage'
  BY <1>1 DEF PInv, FlowInv, PayoutsOfPayments, OneStage
<1>4. CallbacksAreTrue' /\ SettledAsProviderSaid'
  BY <1>1 DEF PInv, FlowInv, CallbacksAreTrue, SettledAsProviderSaid
<1>5. PaymentsGrow
  BY <1>1 DEF PaymentsGrow
<1>6. EventsOK' /\ OneEvent' /\ ProcsOK'
  BY <1>1, <1>5, HooksStay
<1> QED BY <1>2, <1>3, <1>4, <1>6 DEF PInv, FlowInv

\* The provider decides what it has accepted, once.
LEMMA ProviderDecidesStep ==
    ASSUME PInv, NEW r \in Requests, NEW v \in Verdicts, ProviderDecides(r, v)
    PROVE  PInv'
<1>1. /\ r \in accepted /\ accepted' = accepted \ {r}
      /\ verdict' = [verdict EXCEPT ![r] = v]
      /\ network' = network \cup {[pay |-> r, status |-> v, signed |-> TRUE]}
      /\ UNCHANGED <<balance, payments, submitting, hookVars>>
  BY DEF ProviderDecides, bankVars
<1>2. verdict \in [Requests -> Verdicts \cup {"none"}] /\ verdict[r] = "none"
  BY <1>1 DEF PInv, FlowInv, FlowTypes, OneStage
<1>3. \A q \in Requests : verdict'[q] = IF q = r THEN v ELSE verdict[q]
  BY <1>1, <1>2
<1>4. \A q \in Requests : verdict[q] # "none" => verdict'[q] = verdict[q]
  BY <1>2, <1>3
<1>5. FlowTypes'
  <2>1. [pay |-> r, status |-> v, signed |-> TRUE] \in Callback
    BY DEF Callback
  <2>2. verdict' \in [Requests -> Verdicts \cup {"none"}]
    BY <1>1, <1>2
  <2> QED BY <1>1, <2>1, <2>2 DEF PInv, FlowInv, FlowTypes, BankTypeOK, hookVars
<1>6. PayoutsOfPayments'
  BY <1>1, <1>3 DEF PInv, FlowInv, PayoutsOfPayments
<1>7. OneStage'
  BY <1>1, <1>3 DEF PInv, FlowInv, FlowTypes, OneStage
<1>8. CallbacksAreTrue'
  <2>1. ASSUME NEW m \in network
        PROVE  m.signed /\ verdict'[m.pay] = m.status
    <3>1. m.pay \in Requests /\ m.status # "none" /\ m.signed /\ verdict[m.pay] = m.status
      BY DEF PInv, FlowInv, FlowTypes, CallbacksAreTrue, Callback, Verdicts
    <3> QED BY <1>4, <3>1
  <2> QED BY <1>1, <1>3, <2>1 DEF CallbacksAreTrue
<1>9. SettledAsProviderSaid'
  <2>1. ASSUME NEW q \in DOMAIN payments, payments[q].type = "external_payout",
               payments[q].status # "pending"
        PROVE  verdict'[q] = payments[q].status
    <3>1. q \in Requests /\ verdict[q] = payments[q].status
      BY <2>1 DEF PInv, FlowInv, FlowTypes, BankTypeOK, SettledAsProviderSaid
    <3>2. payments[q].status # "none"
      BY DEF PInv, FlowInv, FlowTypes, BankTypeOK, Payment, PaymentStatuses
    <3> QED BY <1>4, <3>1, <3>2
  <2> QED BY <1>1, <2>1 DEF SettledAsProviderSaid
<1>10. PaymentsGrow
  BY <1>1 DEF PaymentsGrow
<1>11. EventsOK' /\ OneEvent' /\ ProcsOK'
  BY <1>1, <1>4, <1>10, HooksStay
<1> QED BY <1>5, <1>6, <1>7, <1>8, <1>9, <1>11 DEF PInv, FlowInv

\* Losing a callback breaks nothing.
LEMMA CallbackGoneStep ==
    ASSUME PInv, NEW m, CallbackGone(m)
    PROVE  PInv'
<1>1. /\ network' = network \ {m}
      /\ UNCHANGED <<balance, payments, submitting, accepted, verdict, hookVars>>
  BY DEF CallbackGone, bankVars
<1>2. FlowInv'
  BY <1>1 DEF PInv, FlowInv, FlowTypes, BankTypeOK, PayoutsOfPayments, OneStage,
              CallbacksAreTrue, SettledAsProviderSaid, hookVars
<1>3. PaymentsGrow
  BY <1>1 DEF PaymentsGrow
<1>4. EventsOK' /\ OneEvent' /\ ProcsOK'
  BY <1>1, <1>3, HooksStay
<1> QED BY <1>2, <1>4 DEF PInv

\* Nothing but the events and the processors changes, and the events keep
\* their types.
LEMMA FlowStays ==
    ASSUME PInv, UNCHANGED <<bankVars, flowVars>>, webhooks' \in Seq(WebhookEvent)
    PROVE  FlowInv'
<1>1. UNCHANGED <<balance, payments, submitting, accepted, verdict, network>>
  BY DEF bankVars, flowVars
<1> QED BY <1>1 DEF PInv, FlowInv, FlowTypes, BankTypeOK, PayoutsOfPayments, OneStage,
                    CallbacksAreTrue, SettledAsProviderSaid

\* The endpoint stores only what the provider signed, once.
LEMMA ReceiveStep ==
    ASSUME PInv, NEW m \in network \cup Unsigned, ReceiveProviderWebhook(m)
    PROVE  PInv'
<1>1. PICK e : e = [pay |-> m.pay, verdict |-> m.status, status |-> "pending"]
  OBVIOUS
<1>2. /\ m.signed /\ ~AlreadyStored(m.pay) /\ webhooks' = Append(webhooks, e)
      /\ UNCHANGED <<bankVars, flowVars, proc>>
  BY <1>1 DEF ReceiveProviderWebhook, VerifyHMAC
<1>3. m \in network /\ m \in Callback /\ verdict[m.pay] = m.status
  BY <1>2 DEF Unsigned, PInv, FlowInv, FlowTypes, CallbacksAreTrue
<1>4. e \in WebhookEvent /\ e.pay = m.pay /\ e.verdict = m.status /\ e.status = "pending"
  BY <1>1, <1>3 DEF WebhookEvent, Callback, EventStatuses
<1>5. webhooks \in Seq(WebhookEvent) /\ Len(webhooks) \in Nat
  BY DEF PInv, FlowInv, FlowTypes
<1>6. /\ webhooks' \in Seq(WebhookEvent)
      /\ Len(webhooks') = Len(webhooks) + 1
      /\ webhooks'[Len(webhooks) + 1] = e
      /\ \A i \in 1 .. Len(webhooks) : webhooks'[i] = webhooks[i]
  BY <1>2, <1>4, <1>5
<1>7. FlowInv'
  BY <1>2, <1>6, FlowStays
<1>8. verdict' = verdict /\ payments' = payments
  BY <1>2 DEF bankVars, flowVars
<1>9. EventsOK'
  <2>1. GoodEvent(e, verdict, payments)
    BY <1>3, <1>4 DEF GoodEvent
  <2>2. \A i \in 1 .. Len(webhooks) : GoodEvent(webhooks[i], verdict, payments)
    BY DEF PInv, EventsOK
  <2>3. \A i \in 1 .. Len(webhooks) + 1 : i \in 1 .. Len(webhooks) \/ i = Len(webhooks) + 1
    BY <1>5
  <2>4. \A i \in 1 .. Len(webhooks') : GoodEvent(webhooks'[i], verdict, payments)
    BY <1>6, <2>1, <2>2, <2>3
  <2> QED BY <1>8, <2>4 DEF EventsOK
<1>10. OneEvent'
  <2>1. \A i \in 1 .. Len(webhooks) : webhooks[i].pay # e.pay
    BY <1>2, <1>4 DEF AlreadyStored
  <2>2. \A i, j \in 1 .. Len(webhooks) : webhooks[i].pay = webhooks[j].pay => i = j
    BY DEF PInv, OneEvent
  <2>3. \A i \in 1 .. Len(webhooks) + 1 : i \in 1 .. Len(webhooks) \/ i = Len(webhooks) + 1
    BY <1>5
  <2> QED BY <1>6, <2>1, <2>2, <2>3 DEF OneEvent
<1>11. ProcsOK'
  <2>1. ASSUME NEW w \in Processors PROVE GoodProc(proc[w], webhooks', payments)
    <3>1. GoodProc(proc[w], webhooks, payments)
      BY DEF PInv, ProcsOK
    <3>2. proc[w].pc # "idle" =>
              webhooks'[Min(proc[w].batch)] = webhooks[Min(proc[w].batch)]
      BY <1>6, CurrentFacts DEF Current
    <3>3. 1 .. Len(webhooks) \subseteq 1 .. Len(webhooks')
      BY <1>5, <1>6
    <3> QED BY <3>1, <3>2, <3>3 DEF GoodProc
  <2> QED BY <1>2, <1>8, <2>1 DEF ProcsOK, PInv
<1> QED BY <1>7, <1>9, <1>10, <1>11 DEF PInv
-----------------------------------------------------------------------------
(***************************************************************************)
(* The steps of the processors.                                            *)
(***************************************************************************)
\* One processor moves to a good state p, over good events.
LEMMA ProcMoves ==
    ASSUME PInv, NEW w \in Processors, NEW p, proc' = [proc EXCEPT ![w] = p],
           GoodProc(p, webhooks', payments'),
           \A v \in Processors \ {w} : GoodProc(proc[v], webhooks', payments')
    PROVE  ProcsOK'
BY DEF PInv, ProcsOK

\* The same, when nothing else changes.
LEMMA OnlyProcMoves ==
    ASSUME PInv, NEW w \in Processors, NEW p, proc' = [proc EXCEPT ![w] = p],
           GoodProc(p, webhooks, payments), UNCHANGED <<bankVars, flowVars, webhooks>>
    PROVE  PInv'
<1>1. UNCHANGED <<payments, verdict, webhooks>>
  BY DEF bankVars, flowVars
<1>2. FlowInv'
  BY FlowStays DEF PInv, FlowInv, FlowTypes
<1>3. EventsOK' /\ OneEvent'
  BY <1>1 DEF PInv, EventsOK, OneEvent
<1>4. \A v \in Processors : GoodProc(proc[v], webhooks, payments)
  BY DEF PInv, ProcsOK
<1>5. ProcsOK'
  BY <1>1, <1>4, ProcMoves
<1> QED BY <1>2, <1>3, <1>5 DEF PInv

\* NextEvent leads to a good state, whatever the events then are.
LEMMA NextEventIs ==
    ASSUME PInv, NEW w \in Processors, proc[w].pc # "idle", NextEvent(w),
           NEW W, Len(W) = Len(webhooks), NEW P
    PROVE  \E p : proc' = [proc EXCEPT ![w] = p] /\ GoodProc(p, W, P)
<1>1. /\ proc[w].cancelled \in BOOLEAN /\ proc[w].batch \subseteq 1 .. Len(W)
      /\ proc[w].batch \in SUBSET Nat
  BY CurrentFacts DEF GoodProc
<1>2. PICK rest : rest = proc[w].batch \ {Current(w)}
  OBVIOUS
<1>3. CASE rest = {}
  <2>1. proc' = [proc EXCEPT ![w] = Idle]
    BY <1>2, <1>3 DEF NextEvent
  <2>2. GoodProc(Idle, W, P)
    BY DEF GoodProc, Idle, EventStatuses
  <2> QED BY <2>1, <2>2
<1>4. CASE rest # {}
  <2>1. Become(w, "lookup", rest, "pending")
    BY <1>2, <1>4 DEF NextEvent
  <2>2. PICK p : /\ proc' = [proc EXCEPT ![w] = p]
                 /\ p = [pc |-> "lookup", batch |-> rest, mark |-> "pending",
                         cancelled |-> proc[w].cancelled]
    BY <2>1 DEF Become
  <2>3. GoodProc(p, W, P)
    BY <1>1, <1>2, <1>4, <2>2 DEF GoodProc, EventStatuses
  <2> QED BY <2>2, <2>3
<1> QED BY <1>3, <1>4

\* GoOn leads to a good state if what it will mark is so.
LEMMA GoOnIs ==
    ASSUME PInv, NEW w \in Processors, proc[w].pc # "idle",
           NEW pc \in {"handle", "mark"}, NEW mark \in EventStatuses, GoOn(w, pc, mark),
           NEW P,
           mark = "dispatched" => Applied(Event(w), P),
           mark = "failed" => LookupFails \/ proc[w].cancelled
    PROVE  \E p : proc' = [proc EXCEPT ![w] = p] /\ GoodProc(p, webhooks, P)
<1>1. /\ proc[w].cancelled \in BOOLEAN /\ proc[w].batch \subseteq 1 .. Len(webhooks)
      /\ proc[w].batch \in SUBSET Nat /\ proc[w].batch # {}
  BY CurrentFacts DEF GoodProc
<1>2. PICK p : /\ proc' = [proc EXCEPT ![w] = p]
               /\ p = [pc |-> pc, batch |-> proc[w].batch, mark |-> mark,
                       cancelled |-> proc[w].cancelled]
  BY DEF GoOn, Become
<1>3. GoodProc(p, webhooks, P)
  BY <1>1, <1>2 DEF GoodProc, Event, Current
<1> QED BY <1>2, <1>3

\* A batch consists of stored events.
LEMMA PollStep ==
    ASSUME PInv, NEW w \in Processors, Poll(w)
    PROVE  PInv'
<1>1. PICK p : /\ proc' = [proc EXCEPT ![w] = p]
               /\ p = [pc |-> "lookup", batch |-> GetPending, mark |-> "pending",
                       cancelled |-> proc[w].cancelled]
  BY DEF Poll, Become
<1>2. GetPending # {} /\ UNCHANGED <<bankVars, flowVars, webhooks>>
  BY DEF Poll
<1>3. GetPending \subseteq 1 .. Len(webhooks)
  BY DEF GetPending
<1>4. proc[w].cancelled \in BOOLEAN
  BY DEF PInv, ProcsOK, GoodProc
<1>5. GetPending \in SUBSET Nat
  BY <1>3
<1>6. GoodProc(p, webhooks, payments)
  BY <1>1, <1>2, <1>3, <1>4, <1>5 DEF GoodProc, EventStatuses
<1> QED BY <1>1, <1>2, <1>6, OnlyProcMoves

\* A payment that is no longer pending has the verdict of its event.
LEMMA TerminalIsApplied ==
    ASSUME PInv, NEW i \in 1 .. Len(webhooks), IsTerminal(payments[webhooks[i].pay].status)
    PROVE  Applied(webhooks[i], payments)
<1>1. payments[webhooks[i].pay].status # "pending"
  BY DEF IsTerminal
<1> QED BY <1>1, EventFacts DEF PInv, FlowInv, SettledAsProviderSaid, Applied

\* What a lookup decides agrees with the event looked at.
LEMMA LookUpStep ==
    ASSUME PInv, NEW w \in Processors,
           LookUpPayment(w) \/ LookUpError(w) \/ VerdictTooLate(w)
    PROVE  PInv'
<1>1. proc[w].pc # "idle" /\ UNCHANGED <<bankVars, flowVars, webhooks>>
  BY DEF LookUpPayment, LookUpError, VerdictTooLate, At
<1>2. Current(w) \in 1 .. Len(webhooks) /\ Event(w) = webhooks[Current(w)]
  BY <1>1, CurrentFacts DEF Event
<1>3. IsTerminal(payments[Event(w).pay].status) => Applied(Event(w), payments)
  BY <1>2, TerminalIsApplied
<1>4. Event(w).pay \in DOMAIN payments
  BY <1>2, EventFacts
<1>5. PICK pc \in {"handle", "mark"}, mark \in EventStatuses :
          /\ GoOn(w, pc, mark)
          /\ mark = "dispatched" => Applied(Event(w), payments)
          /\ mark = "failed" => LookupFails \/ proc[w].cancelled
  <2>1. CASE LookUpPayment(w)
    BY <1>3, <2>1 DEF LookUpPayment, EventStatuses
  <2>2. CASE LookUpError(w)
    BY <1>4, <2>2 DEF LookUpError, EventStatuses, Alive
  <2>3. CASE VerdictTooLate(w)
    BY <1>3, <2>3 DEF VerdictTooLate, EventStatuses
  <2> QED BY <2>1, <2>2, <2>3
<1>6. \E p : proc' = [proc EXCEPT ![w] = p] /\ GoodProc(p, webhooks, payments)
  BY <1>1, <1>5, GoOnIs
<1> QED BY <1>1, <1>6, OnlyProcMoves

\* The statement fails, and the processor goes on with the next event.
LEMMA ErrorStep ==
    ASSUME PInv, NEW w \in Processors, HandlerError(w) \/ MarkError(w)
    PROVE  PInv'
<1>1. /\ proc[w].pc # "idle" /\ NextEvent(w)
      /\ UNCHANGED <<bankVars, flowVars, webhooks>>
  BY DEF HandlerError, MarkError, At
<1>2. \E p : proc' = [proc EXCEPT ![w] = p] /\ GoodProc(p, webhooks, payments)
  BY <1>1, NextEventIs
<1> QED BY <1>1, <1>2, OnlyProcMoves

\* Stopping or restarting a processor breaks nothing.
LEMMA StopStep ==
    ASSUME PInv, NEW w \in Processors, Cancel(w) \/ Restart(w)
    PROVE  PInv'
<1>1. UNCHANGED <<bankVars, flowVars, webhooks>>
  BY DEF Cancel, Restart
<1>2. GoodProc(proc[w], webhooks, payments)
  BY DEF PInv, ProcsOK
<1>3. CASE Cancel(w)
  <2>1. PICK p : /\ p = [proc[w] EXCEPT !.cancelled = TRUE]
                 /\ proc' = [proc EXCEPT ![w] = p]
    BY <1>3 DEF Cancel
  <2>2. p \in [pc : {"idle", "lookup", "handle", "mark"}, batch : SUBSET Nat,
               mark : EventStatuses, cancelled : BOOLEAN]
    BY <1>2, <2>1 DEF GoodProc
  <2>3. /\ p.pc = proc[w].pc /\ p.batch = proc[w].batch /\ p.mark = proc[w].mark
        /\ p.cancelled = TRUE
    BY <1>2, <2>1 DEF GoodProc
  <2>4. GoodProc(p, webhooks, payments)
    BY <1>2, <2>2, <2>3 DEF GoodProc
  <2> QED BY <1>1, <2>1, <2>4, OnlyProcMoves
<1>4. CASE Restart(w)
  <2>1. proc' = [proc EXCEPT ![w] = Idle]
    BY <1>4 DEF Restart
  <2>2. GoodProc(Idle, webhooks, payments)
    BY DEF GoodProc, Idle, EventStatuses
  <2> QED BY <1>1, <2>1, <2>2, OnlyProcMoves
<1> QED BY <1>3, <1>4
\* The verdict is committed: the payment follows it, and the event may be marked.
LEMMA ApplyVerdictStep ==
    ASSUME PInv, NEW w \in Processors, ApplyVerdict(w)
    PROVE  PInv'
<1>1. proc[w].pc # "idle" /\ GoOn(w, "mark", "dispatched") /\ UNCHANGED <<flowVars, webhooks>>
  BY DEF ApplyVerdict, At
<1>2. UNCHANGED <<submitting, accepted, verdict, network, webhooks>>
  BY <1>1 DEF flowVars
<1>3. Current(w) \in 1 .. Len(webhooks) /\ Event(w) = webhooks[Current(w)]
  BY <1>1, CurrentFacts DEF Event
<1>4. PICK r, v : r = Event(w).pay /\ v = Event(w).verdict
  OBVIOUS
<1>5. /\ r \in Requests /\ v \in Verdicts /\ verdict[r] = v
      /\ payments[r].type = "external_payout"
  BY <1>3, <1>4, EventFacts
<1>6. (v = "completed" => Settle(r)) /\ (v = "failed" => Refund(r))
  BY <1>4 DEF ApplyVerdict
<1>7. /\ BankTypeOK' /\ DOMAIN payments' = DOMAIN payments
      /\ r \in DOMAIN payments /\ payments[r].status = "pending"
      /\ \A q \in DOMAIN payments \ {r} : payments'[q] = payments[q]
      /\ payments'[r].type = payments[r].type /\ payments'[r].status = v
  <2>1. BankTypeOK
    BY DEF PInv, FlowInv, FlowTypes
  <2> QED BY <1>5, <1>6, <2>1, VerdictFacts
<1>8. FlowTypes' /\ OneStage' /\ CallbacksAreTrue'
  BY <1>2, <1>7 DEF PInv, FlowInv, FlowTypes, OneStage, CallbacksAreTrue
<1>9. PayoutsOfPayments' /\ SettledAsProviderSaid'
  BY <1>2, <1>5, <1>7 DEF PInv, FlowInv, PayoutsOfPayments, SettledAsProviderSaid
<1>10. PaymentsGrow
  BY <1>7 DEF PaymentsGrow
<1>11. /\ EventsOK' /\ OneEvent'
       /\ \A u \in Processors : GoodProc(proc[u], webhooks, payments')
  BY <1>2, <1>10, GoodStays
<1>12. Applied(Event(w), payments')
  BY <1>4, <1>7 DEF Applied
<1>13. "dispatched" \in EventStatuses /\ "mark" \in {"handle", "mark"}
  BY DEF EventStatuses
<1>14. PICK p : proc' = [proc EXCEPT ![w] = p] /\ GoodProc(p, webhooks, payments')
  BY <1>1, <1>12, <1>13, GoOnIs
<1>15. ProcsOK'
  BY <1>2, <1>11, <1>14, ProcMoves
<1> QED BY <1>8, <1>9, <1>11, <1>15 DEF PInv, FlowInv

\* The event is marked, with what the processor knows of it.
LEMMA MarkEventStep ==
    ASSUME PInv, NEW w \in Processors, MarkEvent(w)
    PROVE  PInv'
<1>1. /\ proc[w].pc = "mark" /\ proc[w].pc # "idle" /\ ~proc[w].cancelled
      /\ NextEvent(w) /\ UNCHANGED <<bankVars, flowVars>>
      /\ webhooks' = [webhooks EXCEPT ![Current(w)].status = proc[w].mark]
  BY DEF MarkEvent, At, Alive
<1>2. PICK c : c = Current(w) /\ c \in 1 .. Len(webhooks)
  BY <1>1, CurrentFacts
<1>3. PICK e : e = [webhooks[c] EXCEPT !.status = proc[w].mark]
  OBVIOUS
<1>4. webhooks' = [webhooks EXCEPT ![c] = e]
  BY <1>1, <1>2, <1>3
<1>5. GoodProc(proc[w], webhooks, payments)
  BY <1>1, CurrentFacts
<1>6. webhooks[c] \in WebhookEvent /\ proc[w].mark \in EventStatuses
  BY <1>2, <1>5, EventFacts DEF GoodProc
<1>7. /\ e \in WebhookEvent /\ e.pay = webhooks[c].pay /\ e.verdict = webhooks[c].verdict
      /\ e.status = proc[w].mark
  BY <1>3, <1>6 DEF WebhookEvent
<1>8. webhooks \in Seq(WebhookEvent)
  BY DEF PInv, FlowInv, FlowTypes
<1>9. /\ webhooks' \in Seq(WebhookEvent) /\ Len(webhooks') = Len(webhooks)
      /\ \A i \in 1 .. Len(webhooks) : webhooks'[i] = IF i = c THEN e ELSE webhooks[i]
  BY <1>2, <1>4, <1>7, <1>8
<1>10. payments' = payments /\ verdict' = verdict
  BY <1>1 DEF bankVars, flowVars
<1>11. FlowInv'
  BY <1>1, <1>9, FlowStays
<1>12. EventsOK'
  <2>1. GoodEvent(webhooks[c], verdict, payments)
    BY <1>2 DEF PInv, EventsOK
  <2>2. GoodEvent(e, verdict, payments)
    BY <1>1, <1>2, <1>5, <1>7, <2>1 DEF GoodEvent, GoodProc, Applied, Current
  <2>3. \A i \in 1 .. Len(webhooks) : GoodEvent(webhooks'[i], verdict, payments)
    BY <1>9, <2>2 DEF PInv, EventsOK
  <2> QED BY <1>9, <1>10, <2>3 DEF EventsOK
<1>13. \A i \in 1 .. Len(webhooks) :
           webhooks'[i].pay = webhooks[i].pay /\ webhooks'[i].verdict = webhooks[i].verdict
  BY <1>7, <1>9
<1>14. OneEvent'
  BY <1>9, <1>13 DEF PInv, OneEvent
<1>15. ASSUME NEW u \in Processors PROVE GoodProc(proc[u], webhooks', payments)
  <2>1. GoodProc(proc[u], webhooks, payments)
    BY DEF PInv, ProcsOK
  <2>2. proc[u].pc # "idle" => Min(proc[u].batch) \in 1 .. Len(webhooks)
    BY CurrentFacts DEF Current
  <2>3. proc[u].pc # "idle" /\ Applied(webhooks[Min(proc[u].batch)], payments)
            => Applied(webhooks'[Min(proc[u].batch)], payments)
    BY <1>13, <2>2 DEF Applied
  <2> QED BY <1>9, <2>1, <2>3 DEF GoodProc
<1>16. PICK p : proc' = [proc EXCEPT ![w] = p] /\ GoodProc(p, webhooks', payments)
  BY <1>1, <1>9, NextEventIs
<1>17. ProcsOK'
  BY <1>10, <1>15, <1>16, ProcMoves
<1> QED BY <1>11, <1>12, <1>14, <1>17 DEF PInv

\* Every step keeps the inductive invariant.
LEMMA PInvStep == PInv /\ [PayoutsNext]_vars => PInv'
<1> SUFFICES ASSUME PInv, [PayoutsNext]_vars PROVE PInv'
  OBVIOUS
<1>1. CASE \E r \in Requests : CreatePayment(r) \/ SubmitToProvider(r) \/ SubmissionLost(r)
  BY <1>1, CreatePaymentStep, SubmitStep
<1>2. CASE \E r \in Requests, v \in Verdicts : ProviderDecides(r, v)
  BY <1>2, ProviderDecidesStep
<1>3. CASE \E m \in network : CallbackGone(m)
  BY <1>3, CallbackGoneStep
<1>4. CASE \E m \in network \cup Unsigned : ReceiveProviderWebhook(m)
  BY <1>4, ReceiveStep
<1>5. ASSUME NEW w \in Processors, ProcessorStep(w) PROVE PInv'
  BY <1>5, PollStep, LookUpStep, ApplyVerdictStep, ErrorStep, MarkEventStep
     DEF ProcessorStep
<1>6. CASE \E w \in Processors : Cancel(w) \/ Restart(w)
  BY <1>6, StopStep
<1>7. CASE UNCHANGED vars
  <2>1. /\ UNCHANGED <<bankVars, flowVars>> /\ UNCHANGED hookVars
        /\ webhooks' = webhooks /\ payments' = payments /\ verdict' = verdict
    BY <1>7 DEF vars, hookVars, bankVars, flowVars
  <2>2. FlowInv'
    BY <2>1, FlowStays DEF PInv, FlowInv, FlowTypes
  <2>3. PaymentsGrow
    BY <2>1 DEF PaymentsGrow
  <2> QED BY <2>1, <2>2, <2>3, HooksStay DEF PInv
<1> QED BY <1>1, <1>2, <1>3, <1>4, <1>5, <1>6, <1>7 DEF PayoutsNext

\* The inductive invariant always holds.
LEMMA PInvAlways == PayoutsSpec => []PInv
BY PInvInit, PInvStep, PTL DEF PayoutsSpec

-----------------------------------------------------------------------------
\* There are no more events than payouts, for each is stored once.
LEMMA EventsAreFew ==
    ASSUME PInv
    PROVE  Cardinality(Requests) \in Nat /\ Len(webhooks) <= Cardinality(Requests)
<1>1. webhooks \in Seq(WebhookEvent) /\ Len(webhooks) \in Nat
  BY DEF PInv, FlowInv, FlowTypes
<1>2. PICK f : f = [i \in 1 .. Len(webhooks) |-> webhooks[i].pay]
  OBVIOUS
<1>3. f \in [1 .. Len(webhooks) -> Requests]
  BY <1>2, EventFacts
<1>4. f \in Injection(1 .. Len(webhooks), Requests)
  BY <1>2, <1>3 DEF Injection, IsInjective, PInv, OneEvent
<1>5. Cardinality(1 .. Len(webhooks)) <= Cardinality(Requests)
  BY <1>4, RequestAssumption, FS_Injection
<1>6. Cardinality(1 .. Len(webhooks)) = Len(webhooks)
  <2>1. \A n \in Nat : n \in Int /\ (IF 1 > n THEN 0 ELSE n - 1 + 1) = n
    OBVIOUS
  <2>2. Cardinality(1 .. Len(webhooks))
          = IF 1 > Len(webhooks) THEN 0 ELSE Len(webhooks) - 1 + 1
    <3>1. Len(webhooks) \in Int /\ 1 \in Int
      BY <1>1, <2>1
    <3> QED BY <3>1, FS_Interval, Zenon
  <2> QED BY <1>1, <2>1, <2>2, Zenon
<1>7. Cardinality(Requests) \in Nat
  BY RequestAssumption, FS_CardinalityType
<1> QED BY <1>5, <1>6, <1>7

\* Payments, events and processors keep their types, no balance is negative, and
\* a payout has at most one event: the unique index keeps repeated callbacks out.
THEOREM PayoutsTypeCorrect == PayoutsSpec => []PayoutsTypeOK
<1>1. PInv => PayoutsTypeOK
  <2> SUFFICES ASSUME PInv PROVE PayoutsTypeOK
    OBVIOUS
  <2>1. 1 .. Len(webhooks) \subseteq 1 .. Cardinality(Requests)
    <3>1. Len(webhooks) \in Nat
      BY DEF PInv, FlowInv, FlowTypes
    <3> QED BY <3>1, EventsAreFew
  <2>2. \A w \in Processors : proc[w] \in Processor
    BY <2>1 DEF PInv, ProcsOK, GoodProc, Processor
  <2> QED BY <2>2 DEF PayoutsTypeOK, PInv, FlowInv, FlowTypes, ProcsOK
<1> QED BY <1>1, PInvAlways, PTL

\* handleCompleted and handleFailed only ever do what the provider said, whatever
\* reaches the webhook endpoint.
THEOREM ProviderObeyed == PayoutsSpec => []SettledAsProviderSaid
<1>1. PInv => SettledAsProviderSaid
  BY DEF PInv, FlowInv
<1> QED BY <1>1, PInvAlways, PTL

\* processEvent marks an event dispatched only when its verdict is in the books.
THEOREM DispatchIsTrue == PayoutsSpec => []DispatchedMeansSettled
<1>1. PInv => DispatchedMeansSettled
  BY DEF PInv, EventsOK, GoodEvent, Applied, DispatchedMeansSettled, PaymentStatus
<1> QED BY <1>1, PInvAlways, PTL

\* submitToProvider, after the commit, submits nothing but booked payouts.
THEOREM OnlyBookedIsPaid == PayoutsSpec => []PayoutsOfPayments
<1>1. PInv => PayoutsOfPayments
  BY DEF PInv, FlowInv
<1> QED BY <1>1, PInvAlways, PTL

\* If lookups fail only because of a shutdown, no event is ever given up.
THEOREM ShutdownIsSafe ==
    ASSUME ~LookupFails PROVE PayoutsSpec => []ShutdownKeepsEvents
<1>1. PInv => ShutdownKeepsEvents
  BY DEF PInv, EventsOK, GoodEvent, ShutdownKeepsEvents
<1> QED BY <1>1, PInvAlways, PTL

-----------------------------------------------------------------------------
(***************************************************************************)
(* The clearing accounts.                                                  *)
(***************************************************************************)
Cleared == BankTypeOK /\ RowsOK(payments) /\ ClearingOK(balance, payments)

\* Before the first payment the clearing accounts hold what was seeded.
LEMMA ClearedInit == PayoutsInit => Cleared
<1> SUFFICES ASSUME PayoutsInit PROVE Cleared
  OBVIOUS
<1>1. balance = InitBalance /\ DOMAIN payments = {} /\ payments \in [{} -> Payment]
  BY DEF PayoutsInit, BankInit, EmptyMap
<1>2. BankTypeOK
  BY <1>1, BalanceAssumption DEF BankTypeOK
<1>3. RowsOK(payments)
  BY <1>1, FS_EmptySet DEF RowsOK
<1>4. \A c \in Currencies : AmountHeld(payments, c) = 0
  BY <1>1, SumEmpty DEF AmountHeld, AmountOf, Held
<1>5. \A c \in Currencies : InitBalance[Outgoing(c)] \in Int
  BY SystemAccounts, BalanceAssumption
<1> QED BY <1>1, <1>2, <1>3, <1>4, <1>5 DEF Cleared, ClearingOK

\* A new payout is in the clearing account.
LEMMA ClearedPost ==
    ASSUME Cleared, NEW r \in Requests, Post(r)
    PROVE  Cleared'
<1>1. PICK in \in Inputs :
         /\ Acceptable(in) /\ payments' = Put(payments, r, NewPayment(in))
         /\ balance' = Pay(balance, NewPayment(in))
  BY DEF Post
<1>2. NewPayment(in) \in Payment /\ Consistent(NewPayment(in))
  BY <1>1, NewPaymentType, NewPaymentConsistent
<1>3. NewPayment(in).status # "failed"
  BY DEF NewPayment
<1>4. BankTypeOK' /\ r \notin DOMAIN payments
  BY PostFacts DEF Cleared
<1>5. balance \in [Accounts -> Int]
  BY DEF Cleared, BankTypeOK
<1>6. RowsOK(payments')
  BY <1>1, <1>2, RowAdded DEF Cleared
<1>7. ClearingOK(balance', payments')
  BY <1>1, <1>2, <1>3, <1>4, <1>5, PostClears DEF Cleared
<1> QED BY <1>4, <1>6, <1>7 DEF Cleared, RowsOK, ClearingOK

\* Only a payout is ever pending.
LEMMA ClearedVerdict ==
    ASSUME Cleared, NEW r, Settle(r) \/ Refund(r)
    PROVE  Cleared'
<1>1. r \in DOMAIN payments /\ payments[r].status = "pending"
  BY DEF Settle, Refund
<1>2. payments[r].type = "external_payout"
  <2>1. payments[r] \in Payment /\ Consistent(payments[r])
    BY <1>1 DEF Cleared, RowsOK
  <2> QED BY <1>1, <2>1 DEF Payment, PaymentTypes, Consistent
<1>3. balance \in [Accounts -> Int]
  BY DEF Cleared, BankTypeOK
<1>4. CASE Settle(r)
  <2>1. BankTypeOK'
    BY <1>4, VerdictFacts DEF Cleared, Verdicts
  <2>2. payments' = [payments EXCEPT ![r].status = "completed"] /\ balance' = balance
    BY <1>4 DEF Settle
  <2>3. RowsOK(payments')
    BY <1>1, <1>2, <2>2, RowUpdated DEF Cleared, PaymentStatuses
  <2>4. ClearingOK(balance', payments')
    BY <1>1, <1>2, <2>2, SettleClears DEF Cleared
  <2> QED BY <2>1, <2>3, <2>4 DEF Cleared, RowsOK, ClearingOK
<1>5. CASE Refund(r)
  <2>1. BankTypeOK'
    BY <1>5, VerdictFacts DEF Cleared, Verdicts
  <2>2. /\ payments' = [payments EXCEPT ![r].status = "failed"]
        /\ balance' = Unpay(balance, payments[r])
    BY <1>5 DEF Refund
  <2>3. RowsOK(payments')
    BY <1>1, <1>2, <2>2, RowUpdated DEF Cleared, PaymentStatuses
  <2>4. ClearingOK(balance', payments')
    BY <1>1, <1>2, <1>3, <2>2, RefundClears DEF Cleared
  <2> QED BY <2>1, <2>3, <2>4 DEF Cleared, RowsOK, ClearingOK
<1> QED BY <1>4, <1>5

\* Everything but the transactions leaves the money alone.
LEMMA ClearedStep == Cleared /\ [PayoutsNext]_vars => Cleared'
<1> SUFFICES ASSUME Cleared, [PayoutsNext]_vars PROVE Cleared'
  OBVIOUS
<1>1. CASE UNCHANGED bankVars
  BY <1>1 DEF bankVars, Cleared, BankTypeOK, RowsOK, ClearingOK
<1>2. ASSUME NEW r \in Requests, CreatePayment(r) PROVE Cleared'
  BY <1>2, ClearedPost DEF CreatePayment
<1>3. ASSUME NEW w \in Processors, ApplyVerdict(w) PROVE Cleared'
  BY <1>3, ClearedVerdict DEF ApplyVerdict
<1>4. ASSUME NEW w \in Processors, ProcessorStep(w), ~ApplyVerdict(w)
      PROVE  UNCHANGED bankVars
  BY <1>4 DEF ProcessorStep, Poll, LookUpPayment, LookUpError, VerdictTooLate,
     HandlerError, MarkEvent, MarkError
<1>5. ASSUME NEW w \in Processors, Cancel(w) \/ Restart(w) PROVE UNCHANGED bankVars
  BY <1>5 DEF Cancel, Restart
<1>6. ASSUME NEW m, CallbackGone(m) \/ ReceiveProviderWebhook(m)
      PROVE  UNCHANGED bankVars
  BY <1>6 DEF CallbackGone, ReceiveProviderWebhook
<1>7. ASSUME NEW r, NEW v, SubmitToProvider(r) \/ SubmissionLost(r) \/ ProviderDecides(r, v)
      PROVE  UNCHANGED bankVars
  BY <1>7 DEF SubmitToProvider, SubmissionLost, ProviderDecides
<1>8. CASE UNCHANGED vars
  BY <1>1, <1>8 DEF vars
<1> QED BY <1>1, <1>2, <1>3, <1>4, <1>5, <1>6, <1>7, <1>8 DEF PayoutsNext

\* The clearing account of a currency covers every payout that the provider has
\* paid or may yet pay, whatever submission, callback or event was lost on the
\* way: such a payout has not been given back, so it is among those held.
THEOREM ExposureIsCovered == PayoutsSpec => []ProviderIsCovered
<1>1. PInv /\ Cleared => ProviderIsCovered
  <2> SUFFICES ASSUME PInv, Cleared, NEW c \in Currencies
               PROVE  balance[Outgoing(c)] >=
                          InitBalance[Outgoing(c)] + AmountOf(payments, Exposed(c))
    BY DEF ProviderIsCovered
  <2>1. Exposed(c) \subseteq Held(payments, c)
    <3> SUFFICES ASSUME NEW r \in Exposed(c) PROVE r \in Held(payments, c)
      OBVIOUS
    <3>1. /\ r \in DOMAIN payments /\ payments[r].dst = Outgoing(c)
          /\ r \in submitting \cup accepted \/ verdict[r] = "completed"
      BY DEF Exposed
    <3>2. verdict[r] # "failed"
      BY <3>1 DEF PInv, FlowInv, OneStage
    <3>3. payments[r].status = "failed" => payments[r].type = "external_payout"
      <4>1. payments[r] \in Payment /\ Consistent(payments[r])
        BY <3>1 DEF Cleared, RowsOK
      <4> QED BY <4>1 DEF Payment, PaymentTypes, Consistent
    <3>4. payments[r].status = "failed" => verdict[r] = "failed"
      BY <3>1, <3>3 DEF PInv, FlowInv, SettledAsProviderSaid
    <3> QED BY <3>1, <3>2, <3>4 DEF Held
  <2>2. /\ AmountOf(payments, Exposed(c)) \in Int
        /\ AmountOf(payments, Exposed(c)) <= AmountHeld(payments, c)
    BY <2>1, HeldCovers DEF Cleared
  <2>3. balance[Outgoing(c)] = InitBalance[Outgoing(c)] + AmountHeld(payments, c)
    BY DEF Cleared, ClearingOK
  <2>4. InitBalance[Outgoing(c)] \in Int /\ AmountHeld(payments, c) \in Int
    BY SystemAccounts, BalanceAssumption, HeldFinite DEF Cleared
  <2> QED BY <2>2, <2>3, <2>4
<1> QED BY <1>1, PInvAlways, ClearedInit, ClearedStep, PTL DEF PayoutsSpec
=============================================================================
