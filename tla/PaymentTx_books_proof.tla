------------------------ MODULE PaymentTx_books_proof ------------------------
(***************************************************************************)
(* What the transactions write, for every set of users, accounts, requests *)
(* and processors, every conversion and every lock order: the ledger and   *)
(* the events tell what happened to each payment, money is conserved, the  *)
(* clearing accounts hold the payouts, and all of it is what Bank does in  *)
(* atomic steps.                                                           *)
(***************************************************************************)
EXTENDS PaymentTx_proof, SequenceTheorems

\* What an open transaction knows of its payment: a post inserts the row of an
\* acceptable request, which is not in the table yet; a verdict holds the row
\* of a payout as it was before anybody decided it.
TxnMatches(P, x, t) ==
    /\ t.op = "post" =>
          /\ t.id = x /\ x \in Requests /\ x \notin DOMAIN P
          /\ \E in \in Inputs : Acceptable(in) /\ t.pay = NewPayment(in)
    /\ t.op # "post" =>
          /\ t.id \in DOMAIN P
          /\ P[t.id].type = "external_payout"
          /\ t.pay = [P[t.id] EXCEPT !.status = "pending"]

BooksInv ==
    /\ Inv
    /\ DOMAIN payments \subseteq served
    /\ RowsOK(payments)
    /\ \A x \in DOMAIN txn : TxnMatches(payments, x, txn[x])

\* Initially there are no payments and no transactions.
LEMMA BooksInit == Init => BooksInv
<1> SUFFICES ASSUME Init PROVE BooksInv
  OBVIOUS
<1>1. DOMAIN payments = {} /\ payments \in [{} -> Payment] /\ DOMAIN txn = {}
  BY DEF Init, EmptyMap
<1>2. RowsOK(payments)
  BY <1>1, FS_EmptySet DEF RowsOK
<1> QED BY <1>1, <1>2, InvInit DEF BooksInv

\* A row that nobody has decided yet is that of a payout.
LEMMA PendingRow ==
    ASSUME BooksInv, NEW r \in DOMAIN payments, ~IsTerminal(payments[r].status)
    PROVE  /\ payments[r] \in Payment /\ Consistent(payments[r])
           /\ payments[r].status = "pending"
           /\ payments[r].type = "external_payout"
           /\ payments[r].dst = Outgoing(payments[r].dstCur)
           /\ payments[r] = [payments[r] EXCEPT !.status = "pending"]
<1>1. payments[r] \in Payment /\ Consistent(payments[r])
  BY DEF BooksInv, RowsOK
<1>2. payments[r].status = "pending"
  BY <1>1 DEF Payment, PaymentStatuses, IsTerminal
<1>3. payments[r].type = "external_payout"
  BY <1>1, <1>2 DEF Payment, PaymentTypes, Consistent
<1>4. payments[r] = [payments[r] EXCEPT !.status = "pending"]
  BY <1>1, <1>2 DEF Payment
<1> QED BY <1>1, <1>2, <1>3, <1>4 DEF Consistent

\* A commit of a verdict decides the row it read.
LEMMA VerdictRow ==
    ASSUME BooksInv, NEW w \in DOMAIN txn, txn[w].op # "post", StatusUpdatable(txn[w].id)
    PROVE  /\ txn[w].id \in DOMAIN payments
           /\ txn[w].pay = payments[txn[w].id]
           /\ payments[txn[w].id] \in Payment /\ Consistent(payments[txn[w].id])
           /\ payments[txn[w].id].status = "pending"
           /\ payments[txn[w].id].type = "external_payout"
           /\ payments[txn[w].id].dst = Outgoing(payments[txn[w].id].dstCur)
<1>1. /\ txn[w].id \in DOMAIN payments
      /\ txn[w].pay = [payments[txn[w].id] EXCEPT !.status = "pending"]
  BY DEF BooksInv, TxnMatches
<1>2. ~IsTerminal(payments[txn[w].id].status)
  BY DEF StatusUpdatable
<1> QED BY <1>1, <1>2, PendingRow

\* A transaction stays matched when the table changes the rows of others, or
\* the status of its own.
LEMMA MatchStays ==
    ASSUME NEW P, NEW Q, NEW x, NEW t, NEW u, TxnMatches(P, x, t),
           u.op = t.op, u.id = t.id, u.pay = t.pay,
           t.op = "post" => x \notin DOMAIN Q,
           t.op # "post" =>
               /\ t.id \in DOMAIN Q /\ Q[t.id].type = P[t.id].type
               /\ [Q[t.id] EXCEPT !.status = "pending"] =
                  [P[t.id] EXCEPT !.status = "pending"]
    PROVE  TxnMatches(Q, x, u)
BY DEF TxnMatches

\* The steps that leave the tables of payments, entries and events alone.
Quiet ==
    /\ UNCHANGED <<payments, ledger, events>>
    /\ \A a \in Accounts : accounts'[a].balance = accounts[a].balance

\* Everything else is one of the three commits.
LEMMA StepKinds ==
    ASSUME Inv, [Next]_vars
    PROVE  \/ Quiet
           \/ \E r \in Requests : CommitPost(r)
           \/ \E w \in Processors : CommitCompletion(w) \/ CommitReversal(w)
<1>1. ASSUME UNCHANGED <<accounts, payments, ledger, events>> PROVE Quiet
  BY <1>1 DEF Quiet
<1>2. ASSUME NEW r \in Requests, RequestStep(r), ~CommitPost(r) PROVE Quiet
  BY <1>1, <1>2 DEF RequestStep, BeginPost, RefuseRequest, RefusePost
<1>3. ASSUME NEW w \in Processors, VerdictStep(w), ~CommitCompletion(w), ~CommitReversal(w)
      PROVE  Quiet
  BY <1>1, <1>3 DEF VerdictStep, BeginCompletion, BeginReversal, BeginVerdict,
     RefuseCompletion, RefuseReversal
<1>4. ASSUME NEW x \in Actors, LockAccount(x) \/ DBFailure(x) PROVE Quiet
  BY <1>1, <1>4 DEF LockAccount, DBFailure
<1>5. ASSUME NEW a \in ManagedAccounts, NEW s \in ManagedStatuses, SetAccountStatus(a, s)
      PROVE  Quiet
  <2>1. accounts' = [accounts EXCEPT ![a].status = s]
    BY <1>5 DEF SetAccountStatus
  <2>2. \A b \in Accounts : accounts[b] \in AccountRow
    BY DEF Inv, TypeOK
  <2>3. \A b \in Accounts : accounts'[b].balance = accounts[b].balance
    BY <2>1, <2>2 DEF Inv, TypeOK, AccountRow
  <2> QED BY <1>5, <2>3 DEF SetAccountStatus, Quiet
<1>6. CASE UNCHANGED vars
  BY <1>1, <1>6 DEF vars
<1> QED BY <1>2, <1>3, <1>4, <1>5, <1>6 DEF Next

-----------------------------------------------------------------------------
(***************************************************************************)
(* The inductive invariant.                                                *)
(***************************************************************************)
\* The new row of a commit of a post.
LEMMA PostedRow ==
    ASSUME BooksInv, NEW r \in Requests, CommitPost(r)
    PROVE  /\ r \in DOMAIN txn /\ txn[r].op = "post" /\ txn[r].id = r
           /\ r \notin DOMAIN payments /\ payments' = Put(payments, r, txn[r].pay)
           /\ \E in \in Inputs : Acceptable(in) /\ txn[r].pay = NewPayment(in)
           /\ txn[r].pay \in Payment /\ Consistent(txn[r].pay)
           /\ txn[r].pay.status # "failed"
           /\ RowsOK(payments')
<1>1. /\ r \in DOMAIN txn /\ txn[r].op = "post"
      /\ payments' = Put(payments, r, txn[r].pay)
  BY DEF CommitPost, HasAllLocks
<1>2. TxnMatches(payments, r, txn[r])
  BY <1>1 DEF BooksInv
<1>3. PICK in \in Inputs : Acceptable(in) /\ txn[r].pay = NewPayment(in)
  BY <1>1, <1>2 DEF TxnMatches
<1>4. txn[r].id = r /\ r \notin DOMAIN payments
  BY <1>1, <1>2 DEF TxnMatches
<1>5. /\ txn[r].pay \in Payment /\ Consistent(txn[r].pay)
      /\ txn[r].pay.status # "failed"
  BY <1>3, NewPaymentType, NewPaymentConsistent DEF NewPayment
<1>6. RowsOK(payments')
  BY <1>1, <1>5, RowAdded DEF BooksInv
<1> QED BY <1>1, <1>3, <1>4, <1>5, <1>6

\* A commit of a verdict changes the status of one pending payout.
LEMMA DecidedRow ==
    ASSUME BooksInv, NEW w \in DOMAIN txn, txn[w].op # "post", StatusUpdatable(txn[w].id),
           NEW s \in PaymentStatuses, SetPaymentStatus(txn[w].id, s)
    PROVE  /\ RowsOK(payments')
           /\ DOMAIN payments' = DOMAIN payments
           /\ payments'[txn[w].id] = [payments[txn[w].id] EXCEPT !.status = s]
           /\ \A q \in DOMAIN payments : q # txn[w].id => payments'[q] = payments[q]
           /\ \A q \in DOMAIN payments :
                 /\ payments'[q].type = payments[q].type
                 /\ [payments'[q] EXCEPT !.status = "pending"] =
                    [payments[q] EXCEPT !.status = "pending"]
<1> DEFINE id == txn[w].id
<1>1. id \in DOMAIN payments /\ payments[id].type = "external_payout" /\ payments[id] \in Payment
  BY VerdictRow
<1>2. payments' = [payments EXCEPT ![id].status = s]
  BY DEF SetPaymentStatus
<1>3. RowsOK(payments')
  BY <1>1, <1>2, RowUpdated DEF BooksInv
<1>4. /\ DOMAIN payments' = DOMAIN payments
      /\ payments'[id] = [payments[id] EXCEPT !.status = s]
      /\ \A q \in DOMAIN payments : q # id => payments'[q] = payments[q]
  BY <1>1, <1>2 DEF BooksInv, RowsOK
<1>5. \A p \in Payment : /\ [p EXCEPT !.status = s].type = p.type
                         /\ [[p EXCEPT !.status = s] EXCEPT !.status = "pending"] =
                            [p EXCEPT !.status = "pending"]
  BY DEF Payment
<1>6. ASSUME NEW q \in DOMAIN payments
      PROVE  /\ payments'[q].type = payments[q].type
             /\ [payments'[q] EXCEPT !.status = "pending"] =
                [payments[q] EXCEPT !.status = "pending"]
  <2>1. CASE q # id
    <3>1. payments'[q] = payments[q]
      BY <1>4, <2>1
    <3> QED BY <3>1
  <2>2. CASE q = id
    <3>1. /\ [payments[id] EXCEPT !.status = s].type = payments[id].type
          /\ [[payments[id] EXCEPT !.status = s] EXCEPT !.status = "pending"] =
             [payments[id] EXCEPT !.status = "pending"]
      BY <1>1, <1>5
    <3> QED BY <1>4, <2>2, <3>1, Zenon
  <2> QED BY <2>1, <2>2
<1> QED BY <1>3, <1>4, <1>6

\* Every step keeps the inductive invariant.
LEMMA BooksStep == BooksInv /\ [Next]_vars => BooksInv'
<1> SUFFICES ASSUME BooksInv, [Next]_vars PROVE BooksInv'
  OBVIOUS
<1>1. Inv' /\ Inv /\ TypeOK
  BY InvStep DEF BooksInv, Inv
<1>2. \A x \in DOMAIN txn : TxnMatches(payments, x, txn[x])
  BY DEF BooksInv
<1>3. ASSUME NEW x, End(x), payments' = payments, served' = served PROVE BooksInv'
  <2>1. \A y \in DOMAIN txn' : y \in DOMAIN txn /\ txn'[y] = txn[y]
    BY <1>1, <1>3, EndType
  <2> QED BY <1>1, <1>2, <1>3, <2>1 DEF BooksInv, RowsOK
<1>4. ASSUME NEW x, NEW op, NEW id, NEW p, Begin(x, op, id, p), payments' = payments,
             served \subseteq served',
             TxnMatches(payments, x, [op |-> op, id |-> id, pay |-> p, locked |-> EmptyMap])
      PROVE  BooksInv'
  <2> DEFINE new == [op |-> op, id |-> id, pay |-> p, locked |-> EmptyMap]
  <2>1. /\ DOMAIN txn' = DOMAIN txn \cup {x}
        /\ \A y \in DOMAIN txn' : txn'[y] = IF y = x THEN new ELSE txn[y]
    BY <1>4 DEF Begin, Put
  <2>2. TxnMatches(payments, x, new)
    BY <1>4
  <2> HIDE DEF new
  <2>3. \A y \in DOMAIN txn' : TxnMatches(payments', y, txn'[y])
    BY <1>2, <1>4, <2>1, <2>2
  <2> QED BY <1>1, <1>4, <2>3 DEF BooksInv, RowsOK
<1>5. ASSUME NEW r \in Requests, BeginPost(r) PROVE BooksInv'
  <2>1. PICK in \in Inputs : Acceptable(in) /\ Begin(r, "post", r, NewPayment(in))
    BY <1>5 DEF BeginPost
  <2>2. r \notin DOMAIN payments /\ payments' = payments /\ served \subseteq served'
    BY <1>5 DEF BeginPost, BooksInv
  <2>3. TxnMatches(payments, r, [op |-> "post", id |-> r, pay |-> NewPayment(in),
                                 locked |-> EmptyMap])
    BY <2>1, <2>2 DEF TxnMatches
  <2> QED BY <1>4, <2>1, <2>2, <2>3
<1>6. ASSUME NEW w \in Processors, NEW op \in {"complete", "reverse"}, BeginVerdict(w, op)
      PROVE  BooksInv'
  <2>1. PICK r \in DOMAIN payments :
           ~IsTerminal(payments[r].status) /\ Begin(w, op, r, payments[r])
    BY <1>6 DEF BeginVerdict
  <2>2. /\ payments[r].type = "external_payout"
        /\ payments[r] = [payments[r] EXCEPT !.status = "pending"]
    BY <2>1, PendingRow
  <2>3. TxnMatches(payments, w, [op |-> op, id |-> r, pay |-> payments[r],
                                 locked |-> EmptyMap])
    BY <2>2 DEF TxnMatches
  <2>4. payments' = payments /\ served \subseteq served'
    BY <1>6 DEF BeginVerdict
  <2> QED BY <1>4, <2>1, <2>3, <2>4
<1>7. ASSUME NEW r \in Requests, CommitPost(r) PROVE BooksInv'
  <2>1. /\ r \in DOMAIN txn /\ txn[r].op = "post" /\ r \notin DOMAIN payments
        /\ payments' = Put(payments, r, txn[r].pay) /\ RowsOK(payments')
    BY <1>7, PostedRow
  <2>2. /\ DOMAIN payments' = DOMAIN payments \cup {r}
        /\ \A q \in DOMAIN payments : payments'[q] = payments[q]
    BY <2>1 DEF Put
  <2>3. DOMAIN txn' = DOMAIN txn \ {r} /\ \A y \in DOMAIN txn' : txn'[y] = txn[y]
    BY <1>1, <1>7, EndType DEF CommitPost
  <2>4. DOMAIN payments' \subseteq served'
    BY <1>1, <1>7, <2>1, <2>2 DEF CommitPost, BooksInv, Inv, PostsAreServed
  <2>5. ASSUME NEW y \in DOMAIN txn' PROVE TxnMatches(payments', y, txn'[y])
    <3>1. y \in DOMAIN txn /\ y # r /\ txn'[y] = txn[y]
      BY <2>3
    <3>2. TxnMatches(payments, y, txn[y])
      BY <1>2, <3>1
    <3>3. txn[y].op = "post" => y \notin DOMAIN payments
      BY <3>2 DEF TxnMatches
    <3>4. txn[y].op # "post" => txn[y].id \in DOMAIN payments
      BY <3>2 DEF TxnMatches
    <3> QED BY <2>2, <3>1, <3>2, <3>3, <3>4, MatchStays
  <2> QED BY <1>1, <2>1, <2>4, <2>5 DEF BooksInv, RowsOK
<1>8. ASSUME NEW w \in DOMAIN txn, txn[w].op # "post", StatusUpdatable(txn[w].id), End(w),
             NEW s \in PaymentStatuses, SetPaymentStatus(txn[w].id, s), served' = served
      PROVE  BooksInv'
  <2>1. /\ RowsOK(payments') /\ DOMAIN payments' = DOMAIN payments
        /\ \A q \in DOMAIN payments :
              /\ payments'[q].type = payments[q].type
              /\ [payments'[q] EXCEPT !.status = "pending"] =
                 [payments[q] EXCEPT !.status = "pending"]
    BY <1>8, DecidedRow
  <2>2. \A y \in DOMAIN txn' : y \in DOMAIN txn /\ txn'[y] = txn[y]
    BY <1>1, <1>8, EndType
  <2>3. ASSUME NEW y \in DOMAIN txn' PROVE TxnMatches(payments', y, txn'[y])
    <3>1. y \in DOMAIN txn /\ txn'[y] = txn[y] /\ TxnMatches(payments, y, txn[y])
      BY <1>2, <2>2
    <3>2. /\ txn[y].op = "post" => y \notin DOMAIN payments
          /\ txn[y].op # "post" => txn[y].id \in DOMAIN payments
      BY <3>1 DEF TxnMatches
    <3> QED BY <2>1, <3>1, <3>2, MatchStays
  <2> QED BY <1>1, <1>8, <2>1, <2>3 DEF BooksInv, RowsOK
<1>9. ASSUME NEW r \in Requests, RequestStep(r) PROVE BooksInv'
  <2>1. CASE RefuseRequest(r)
    BY <1>1, <1>2, <2>1 DEF RefuseRequest, BooksInv, RowsOK
  <2>2. CASE RefusePost(r)
    BY <1>3, <2>2 DEF RefusePost
  <2> QED BY <1>5, <1>7, <1>9, <2>1, <2>2 DEF RequestStep
<1>10. ASSUME NEW w \in Processors, VerdictStep(w) PROVE BooksInv'
  <2>1. CASE BeginCompletion(w) \/ BeginReversal(w)
    BY <1>6, <2>1 DEF BeginCompletion, BeginReversal
  <2>2. CASE RefuseCompletion(w) \/ RefuseReversal(w)
    BY <1>3, <2>2 DEF RefuseCompletion, RefuseReversal
  <2>3. CASE CommitCompletion(w)
    BY <1>8, <2>3 DEF CommitCompletion, HasAllLocks, PaymentStatuses
  <2>4. CASE CommitReversal(w)
    BY <1>8, <2>4 DEF CommitReversal, ReversalAccepted, HasAllLocks, PaymentStatuses
  <2> QED BY <1>10, <2>1, <2>2, <2>3, <2>4 DEF VerdictStep
<1>11. ASSUME NEW x \in Actors, LockAccount(x) PROVE BooksInv'
  <2>1. PICK a \in Accounts :
           txn' = [txn EXCEPT ![x].locked = Put(@, a, accounts[a])]
    BY <1>11 DEF LockAccount
  <2>2. /\ x \in DOMAIN txn /\ IsTxn(txn[x])
        /\ payments' = payments /\ served' = served
    BY <1>1, <1>11 DEF LockAccount, TypeOK
  <2>3. DOMAIN txn' = DOMAIN txn /\ \A y \in DOMAIN txn : y # x => txn'[y] = txn[y]
    BY <2>1
  <2>4. txn'[x].op = txn[x].op /\ txn'[x].id = txn[x].id /\ txn'[x].pay = txn[x].pay
    BY <2>1, <2>2 DEF IsTxn
  <2>5. TxnMatches(payments, x, txn'[x])
    BY <1>2, <2>2, <2>4 DEF TxnMatches
  <2>6. \A y \in DOMAIN txn' : TxnMatches(payments', y, txn'[y])
    BY <1>2, <2>2, <2>3, <2>5
  <2> QED BY <1>1, <2>2, <2>6 DEF BooksInv, RowsOK
<1>12. ASSUME NEW x \in Actors, DBFailure(x) PROVE BooksInv'
  BY <1>3, <1>12 DEF DBFailure
<1>13. ASSUME txn' = txn, payments' = payments, served' = served PROVE BooksInv'
  BY <1>1, <1>2, <1>13 DEF BooksInv, RowsOK
<1>14. ASSUME NEW a, NEW s, SetAccountStatus(a, s) PROVE BooksInv'
  BY <1>13, <1>14 DEF SetAccountStatus
<1>15. CASE UNCHANGED vars
  BY <1>13, <1>15 DEF vars
<1> QED BY <1>9, <1>10, <1>11, <1>12, <1>14, <1>15 DEF Next

\* The inductive invariant always holds.
LEMMA BooksAlways == Spec => []BooksInv
BY BooksInit, BooksStep, PTL DEF Spec

-----------------------------------------------------------------------------
(***************************************************************************)
(* The audit trail.                                                        *)
(***************************************************************************)
\* A row's trail has one step, a decided payout's two.
LEMMA Trails ==
    ASSUME NEW p, p \in Payment, Consistent(p)
    PROVE  /\ p.type = "internal_transfer" => Trail(p) = <<"completed">>
           /\ p.type = "external_payout" /\ p.status = "pending" => Trail(p) = <<"created">>
           /\ p.type = "external_payout" /\ p.status # "pending" =>
                 Trail(p) = <<"created", p.status>>
<1>1. p.type = "internal_transfer" => p.status # "pending"
  BY DEF Consistent
<1>2. p.type = "internal_transfer" => Trail(p) = <<"completed">>
  BY <1>1 DEF Trail
<1>3. "external_payout" # "internal_transfer"
  OBVIOUS
<1>4. p.type = "external_payout" /\ p.status = "pending" => Trail(p) = <<"created">>
  BY <1>3, Zenon DEF Trail
<1>5. p.type = "external_payout" /\ p.status # "pending" => Trail(p) = <<"created", p.status>>
  BY <1>3, Zenon DEF Trail
<1> QED BY <1>2, <1>4, <1>5

\* The trail of a payout after its verdict has two events.
LEMMA TwoSteps ==
    ASSUME NEW S, NEW a \in S, NEW b \in S
    PROVE  Append(<<a>>, b) = <<a, b>>
<1> DEFINE s == Append(<<a>>, b)
<1>1. <<a>> \in Seq(S) /\ Len(<<a>>) = 1 /\ <<a>>[1] = a
  OBVIOUS
<1>2. s \in Seq(S) /\ Len(s) = 2 /\ s[1] = a /\ s[2] = b
  BY <1>1, AppendProperties
<1>3. PICK t : t = <<a, b>>
  OBVIOUS
<1>4. t \in Seq(S) /\ Len(t) = 2 /\ t[1] = a /\ t[2] = b
  BY <1>3
<1> HIDE DEF s
<1>5. \A i \in 1 .. 2 : s[i] = t[i]
  BY <1>2, <1>4
<1>6. s = t
  BY <1>2, <1>4, <1>5, SeqEqual
<1> QED BY <1>3, <1>6 DEF s

\* A new payment gets the first event of its trail.
LEMMA TrailPost ==
    ASSUME BooksInv, EventsMatchStatus, NEW r \in Requests, CommitPost(r)
    PROVE  EventsMatchStatus'
<1> DEFINE p == txn[r].pay
<1>1. /\ r \notin DOMAIN payments /\ payments' = Put(payments, r, p)
      /\ p \in Payment /\ Consistent(p)
      /\ \E in \in Inputs : Acceptable(in) /\ p = NewPayment(in)
  BY PostedRow
<1>2. p.type = "external_payout" => p.status = "pending"
  BY <1>1, NewPaymentConsistent
<1>3. /\ DOMAIN payments' = DOMAIN payments \cup {r} /\ payments'[r] = p
      /\ \A q \in DOMAIN payments : payments'[q] = payments[q]
  BY <1>1 DEF Put
<1> DEFINE e == IF p.type = "internal_transfer" THEN "completed" ELSE "created"
<1>4. WriteEvent(r, e)
  BY DEF CommitPost
<1>5. events[r] = <<>>
  BY <1>1 DEF EventsMatchStatus
<1>6. events'[r] = <<e>> /\ \A q \in Requests : q # r => events'[q] = events[q]
  BY <1>4, <1>5 DEF WriteEvent, BooksInv, Inv, TypeOK
<1>7. Trail(p) = <<e>>
  <2>1. p.type \in PaymentTypes
    BY <1>1 DEF Payment
  <2> QED BY <1>1, <1>2, <2>1, Trails DEF PaymentTypes
<1>8. \A q \in Requests : events[q] = IF q \in DOMAIN payments THEN Trail(payments[q]) ELSE <<>>
  BY DEF EventsMatchStatus
<1> HIDE DEF p, e
<1>9. \A q \in Requests :
         events'[q] = IF q \in DOMAIN payments' THEN Trail(payments'[q]) ELSE <<>>
  BY <1>3, <1>6, <1>7, <1>8
<1> QED BY <1>9 DEF EventsMatchStatus

\* A verdict adds the second event, once.
LEMMA TrailVerdict ==
    ASSUME BooksInv, EventsMatchStatus, NEW w \in DOMAIN txn, txn[w].op # "post",
           StatusUpdatable(txn[w].id), NEW s \in {"completed", "failed"},
           SetPaymentStatus(txn[w].id, s), WriteEvent(txn[w].id, s)
    PROVE  EventsMatchStatus'
<1> DEFINE id == txn[w].id
<1>1. /\ id \in DOMAIN payments /\ payments[id] \in Payment /\ Consistent(payments[id])
      /\ payments[id].status = "pending" /\ payments[id].type = "external_payout"
  BY VerdictRow
<1>2. /\ DOMAIN payments' = DOMAIN payments
      /\ payments'[id] = [payments[id] EXCEPT !.status = s]
      /\ \A q \in DOMAIN payments : q # id => payments'[q] = payments[q]
      /\ RowsOK(payments')
  BY DecidedRow DEF PaymentStatuses
<1>3. /\ payments'[id] \in Payment /\ Consistent(payments'[id]) /\ payments'[id].status = s
      /\ payments'[id].type = "external_payout"
  BY <1>1, <1>2 DEF Payment, PaymentStatuses, RowsOK
<1>4. \A q \in Requests : events[q] = IF q \in DOMAIN payments THEN Trail(payments[q]) ELSE <<>>
  BY DEF EventsMatchStatus
<1>5. id \in Requests
  BY <1>1 DEF BooksInv, Inv, TypeOK
<1>6. events[id] = <<"created">>
  BY <1>1, <1>4, <1>5, Trails
<1>7. events'[id] = <<"created", s>> /\ \A q \in Requests : q # id => events'[q] = events[q]
  <2>1. /\ events'[id] = Append(events[id], s)
        /\ \A q \in Requests : q # id => events'[q] = events[q]
    BY <1>5 DEF WriteEvent, BooksInv, Inv, TypeOK
  <2>2. Append(<<"created">>, s) = <<"created", s>>
    <3>1. "created" \in EventTypes /\ s \in EventTypes
      BY DEF EventTypes
    <3> QED BY <3>1, TwoSteps
  <2> QED BY <1>6, <2>1, <2>2, Zenon
<1>8. Trail(payments'[id]) = <<"created", s>>
  BY <1>3, Trails
<1> HIDE DEF id
<1>9. ASSUME NEW q \in Requests
      PROVE  events'[q] = IF q \in DOMAIN payments' THEN Trail(payments'[q]) ELSE <<>>
  <2>1. CASE q = id
    BY <1>1, <1>2, <1>7, <1>8, <2>1, Zenon
  <2>2. CASE q # id
    BY <1>2, <1>4, <1>7, <2>2, Zenon
  <2> QED BY <2>1, <2>2
<1> QED BY <1>9 DEF EventsMatchStatus

\* The events of a payment are exactly those of its life so far: no commit adds
\* a second verdict, and no rolled back transaction leaves an event behind.
THEOREM TrailsAreTrue == Spec => []EventsMatchStatus
<1>1. Init => EventsMatchStatus
  BY DEF Init, EventsMatchStatus, EmptyMap
<1>2. BooksInv /\ EventsMatchStatus /\ [Next]_vars => EventsMatchStatus'
  <2> SUFFICES ASSUME BooksInv, EventsMatchStatus, [Next]_vars PROVE EventsMatchStatus'
    OBVIOUS
  <2>1. CASE Quiet
    BY <2>1 DEF Quiet, EventsMatchStatus
  <2>2. ASSUME NEW r \in Requests, CommitPost(r) PROVE EventsMatchStatus'
    BY <2>2, TrailPost
  <2>3. ASSUME NEW w \in Processors, CommitCompletion(w) PROVE EventsMatchStatus'
    BY <2>3, TrailVerdict DEF CommitCompletion, HasAllLocks
  <2>4. ASSUME NEW w \in Processors, CommitReversal(w) PROVE EventsMatchStatus'
    BY <2>4, TrailVerdict DEF CommitReversal, ReversalAccepted, HasAllLocks
  <2> QED BY <2>1, <2>2, <2>3, <2>4, StepKinds DEF BooksInv
<1> QED BY <1>1, <1>2, BooksAlways, PTL DEF Spec

-----------------------------------------------------------------------------
(***************************************************************************)
(* The balances move as Bank moves them.                                   *)
(***************************************************************************)
\* What entry e adds to a balance.
Signed(e) == IF e.type = "debit" THEN -e.amount ELSE e.amount

\* The entries of a posting are what the payment brings to each account.
LEMMA PostingGain ==
    ASSUME NEW p, NEW a, p \in Payment, Consistent(p)
    PROVE  Gain(p, a) = IF a \in PostFootprint(p) THEN Signed(PostingEntry(p, a)) ELSE 0
<1>1. /\ p.src # p.dst
      /\ FXPool(p.srcCur) # p.src /\ FXPool(p.srcCur) # p.dst
      /\ FXPool(p.dstCur) # p.src /\ FXPool(p.dstCur) # p.dst
      /\ IsCross(p) => FXPool(p.srcCur) # FXPool(p.dstCur)
  BY DistinctAccounts
<1>2. p.srcAmt \in Int /\ p.dstAmt \in Int
  BY DEF Payment, Amounts
<1>3. CASE a = p.src
  <2>1. PostingEntry(p, a) = [type |-> "debit", amount |-> p.srcAmt]
    BY <1>1, <1>3 DEF PostingEntry
  <2> QED BY <1>2, <1>3, <2>1 DEF Gain, Signed, PostFootprint
<1>4. CASE a = p.dst
  <2>1. PostingEntry(p, a) = [type |-> "credit", amount |-> p.dstAmt]
    BY <1>1, <1>4 DEF PostingEntry
  <2> QED BY <1>1, <1>2, <1>4, <2>1 DEF Gain, Signed, PostFootprint
<1>5. CASE a = FXPool(p.srcCur) /\ IsCross(p)
  <2>1. PostingEntry(p, a) = [type |-> "credit", amount |-> p.srcAmt]
    BY <1>1, <1>5 DEF PostingEntry
  <2> QED BY <1>1, <1>2, <1>5, <2>1 DEF Gain, Signed, PostFootprint, FXPools
<1>6. CASE a = FXPool(p.dstCur) /\ IsCross(p)
  <2>1. PostingEntry(p, a) = [type |-> "debit", amount |-> p.dstAmt]
    BY <1>1, <1>6 DEF PostingEntry
  <2> QED BY <1>1, <1>2, <1>6, <2>1 DEF Gain, Signed, PostFootprint, FXPools
<1>7. CASE /\ a # p.src /\ a # p.dst
           /\ ~IsCross(p) \/ (a # FXPool(p.srcCur) /\ a # FXPool(p.dstCur))
  BY <1>7 DEF Gain, PostFootprint, FXPools
<1> QED BY <1>3, <1>4, <1>5, <1>6, <1>7

\* The entries of a reversal take it back.
LEMMA ReversalGain ==
    ASSUME NEW p, NEW a, p \in Payment, Consistent(p), p.dst = Outgoing(p.dstCur)
    PROVE  /\ ReversalFootprint(p) = PostFootprint(p)
           /\ a \in PostFootprint(p) =>
                 /\ Signed(ReversalEntry(p, a)) = -Gain(p, a)
                 /\ ReversalEntry(p, a).amount = PostingEntry(p, a).amount
           /\ a \notin PostFootprint(p) => Gain(p, a) = 0
<1>1. /\ p.src # p.dst
      /\ FXPool(p.srcCur) # p.src /\ FXPool(p.srcCur) # p.dst
      /\ FXPool(p.dstCur) # p.src /\ FXPool(p.dstCur) # p.dst
      /\ IsCross(p) => FXPool(p.srcCur) # FXPool(p.dstCur)
  BY DistinctAccounts
<1>2. p.srcAmt \in Int /\ p.dstAmt \in Int
  BY DEF Payment, Amounts
<1>3. ReversalFootprint(p) = PostFootprint(p)
  BY DEF ReversalFootprint, PostFootprint
<1>4. a \notin PostFootprint(p) => Gain(p, a) = 0
  BY PostingGain
<1>5. CASE a = p.src
  <2>1. /\ ReversalEntry(p, a) = [type |-> "credit", amount |-> p.srcAmt]
        /\ PostingEntry(p, a) = [type |-> "debit", amount |-> p.srcAmt]
    BY <1>1, <1>5 DEF PostingEntry, ReversalEntry
  <2>2. Signed(ReversalEntry(p, a)) = -Gain(p, a)
    BY <1>2, <1>5, <2>1 DEF Gain, Signed
  <2> QED BY <1>3, <1>4, <2>1, <2>2
<1>6. CASE a = p.dst
  <2>1. /\ ReversalEntry(p, a) = [type |-> "debit", amount |-> p.dstAmt]
        /\ PostingEntry(p, a) = [type |-> "credit", amount |-> p.dstAmt]
    BY <1>1, <1>6 DEF PostingEntry, ReversalEntry
  <2>2. Signed(ReversalEntry(p, a)) = -Gain(p, a)
    BY <1>1, <1>2, <1>6, <2>1 DEF Gain, Signed
  <2> QED BY <1>3, <1>4, <2>1, <2>2
<1>7. CASE a = FXPool(p.srcCur) /\ IsCross(p)
  <2>1. /\ ReversalEntry(p, a) = [type |-> "debit", amount |-> p.srcAmt]
        /\ PostingEntry(p, a) = [type |-> "credit", amount |-> p.srcAmt]
    BY <1>1, <1>7 DEF PostingEntry, ReversalEntry
  <2>2. Signed(ReversalEntry(p, a)) = -Gain(p, a)
    BY <1>1, <1>2, <1>7, <2>1 DEF Gain, Signed
  <2> QED BY <1>3, <1>4, <2>1, <2>2
<1>8. CASE a = FXPool(p.dstCur) /\ IsCross(p)
  <2>1. /\ ReversalEntry(p, a) = [type |-> "credit", amount |-> p.dstAmt]
        /\ PostingEntry(p, a) = [type |-> "debit", amount |-> p.dstAmt]
    BY <1>1, <1>8 DEF PostingEntry, ReversalEntry
  <2>2. Signed(ReversalEntry(p, a)) = -Gain(p, a)
    BY <1>1, <1>2, <1>8, <2>1 DEF Gain, Signed
  <2> QED BY <1>3, <1>4, <2>1, <2>2
<1>9. CASE a \notin PostFootprint(p)
  BY <1>3, <1>4, <1>9
<1> QED BY <1>5, <1>6, <1>7, <1>8, <1>9 DEF PostFootprint, FXPools

\* A commit adds its entries to the balances, which are still those it read.
LEMMA WrittenBalances ==
    ASSUME BooksInv, NEW x \in DOMAIN txn, Unlocked(txn[x]) = {},
           WritesAccepted(txn[x]), WriteBooks(txn[x]), NEW a \in Accounts
    PROVE  /\ accounts'[a].balance \in Nat
           /\ accounts'[a].balance =
              accounts[a].balance + IF a \in Footprint(txn[x])
                                    THEN Signed(Entry(txn[x], a)) ELSE 0
<1> DEFINE t == txn[x]
<1>1. accounts[a].balance \in Nat
  BY DEF BooksInv, Inv, TypeOK, AccountRow
<1>2. CASE a \notin Footprint(t)
  BY <1>1, <1>2 DEF WriteBooks
<1>3. CASE a \in Footprint(t)
  <2>1. a \in DOMAIN t.locked /\ NewBalance(t, a) \in Nat
    BY <1>3, WriteTypes DEF BooksInv, Inv
  <2>2. t.locked[a] = accounts[a]
    BY <2>1 DEF BooksInv, Inv, LockedRowsAreCurrent
  <2>3. accounts'[a].balance = NewBalance(t, a)
    BY <1>3 DEF WriteBooks, NewRow
  <2>4. Entry(t, a).amount \in Int
    <3>1. IsTxn(t)
      BY DEF BooksInv, Inv, TypeOK
    <3> QED BY <1>3, <3>1, EntryType DEF Amounts
  <2>5. NewBalance(t, a) = accounts[a].balance + Signed(Entry(t, a))
    BY <1>1, <2>2, <2>4 DEF NewBalance, Signed
  <2> QED BY <1>3, <2>1, <2>3, <2>5
<1> QED BY <1>2, <1>3

\* Posting moves the balances as Bank pays.
LEMMA PostBalances ==
    ASSUME BooksInv, NEW r \in Requests, CommitPost(r)
    PROVE  Balances' = Pay(Balances, txn[r].pay) /\ Balances' \in [Accounts -> Nat]
<1> DEFINE t == txn[r]
           p == txn[r].pay
<1>1. p \in Payment /\ Consistent(p) /\ r \in DOMAIN txn /\ t.op = "post"
  BY PostedRow
<1>2. Unlocked(t) = {} /\ WritesAccepted(t) /\ WriteBooks(t)
  BY DEF CommitPost, HasAllLocks, PostAccepted
<1>3. Footprint(t) = PostFootprint(p) /\ \A a : Entry(t, a) = PostingEntry(p, a)
  BY <1>1 DEF Footprint, Entry
<1>4. Balances \in [Accounts -> Int]
  BY DEF Balances, BooksInv, Inv, TypeOK, AccountRow
<1>5. Pay(Balances, p) = [a \in Accounts |-> Balances[a] + Gain(p, a)]
  BY <1>1, <1>4, PayEffect
<1>6. ASSUME NEW a \in Accounts
      PROVE  /\ accounts'[a].balance = Balances[a] + Gain(p, a)
             /\ accounts'[a].balance \in Nat
  <2>1. Balances[a] = accounts[a].balance
    BY DEF Balances
  <2>2. Gain(p, a) = IF a \in Footprint(t) THEN Signed(Entry(t, a)) ELSE 0
    BY <1>1, <1>3, PostingGain
  <2> QED BY <1>1, <1>2, <2>1, <2>2, WrittenBalances
<1>7. Balances' = [a \in Accounts |-> accounts'[a].balance]
  BY DEF Balances
<1> QED BY <1>5, <1>6, <1>7

\* A reversal moves the balances as Bank takes a payment back.
LEMMA ReversalBalances ==
    ASSUME BooksInv, NEW w \in Processors, CommitReversal(w)
    PROVE  /\ Balances' = Unpay(Balances, payments[txn[w].id])
           /\ Balances' \in [Accounts -> Nat]
<1> DEFINE t == txn[w]
           p == payments[txn[w].id]
<1>1. /\ w \in DOMAIN txn /\ t.op = "reverse" /\ StatusUpdatable(t.id)
      /\ Unlocked(t) = {} /\ WritesAccepted(t) /\ WriteBooks(t)
  BY DEF CommitReversal, HasAllLocks, ReversalAccepted
<1>2. t.pay = p /\ p \in Payment /\ Consistent(p) /\ p.dst = Outgoing(p.dstCur)
  BY <1>1, VerdictRow
<1>3. Footprint(t) = ReversalFootprint(p) /\ \A a : Entry(t, a) = ReversalEntry(p, a)
  BY <1>1, <1>2 DEF Footprint, Entry
<1>4. Balances \in [Accounts -> Int]
  BY DEF Balances, BooksInv, Inv, TypeOK, AccountRow
<1>5. Unpay(Balances, p) = [a \in Accounts |-> Balances[a] - Gain(p, a)]
  BY <1>2, <1>4, PayEffect
<1>6. ASSUME NEW a \in Accounts
      PROVE  /\ accounts'[a].balance = Balances[a] - Gain(p, a)
             /\ accounts'[a].balance \in Nat
  <2>1. Balances[a] = accounts[a].balance /\ Balances[a] \in Int
    BY <1>4 DEF Balances
  <2>2. Gain(p, a) \in Int
    BY <1>2 DEF Gain, Payment, Amounts
  <2>3. -Gain(p, a) = IF a \in Footprint(t) THEN Signed(Entry(t, a)) ELSE 0
    BY <1>2, <1>3, ReversalGain
  <2> QED BY <1>1, <2>1, <2>2, <2>3, WrittenBalances
<1>7. Balances' = [a \in Accounts |-> accounts'[a].balance]
  BY DEF Balances
<1> QED BY <1>5, <1>6, <1>7

\* No other step moves money.
LEMMA SameBalances ==
    ASSUME BooksInv, Quiet \/ (\E w \in Processors : CommitCompletion(w))
    PROVE  Balances' = Balances
<1>1. \A a \in Accounts : accounts'[a].balance = accounts[a].balance
  BY DEF Quiet, CommitCompletion
<1> QED BY <1>1 DEF Balances

-----------------------------------------------------------------------------
(***************************************************************************)
(* Money is conserved, and the clearing accounts hold the payouts.         *)
(***************************************************************************)
\* Balances are numbers.
LEMMA BalancesType == BooksInv => Balances \in [Accounts -> Int]
BY DEF Balances, BooksInv, Inv, TypeOK, AccountRow

\* MoneyConserved in terms of the sums that the lemmas are about.
LEMMA MoneyMeans ==
    MoneyConserved <=>
        \A c \in Currencies :
            SumFunctionOnSet(Balances, Mine(c)) = SumFunctionOnSet(InitBalance, Mine(c))
BY DEF MoneyConserved, Mine

\* The balances of a currency always add up to what was seeded: no transfer,
\* conversion, payout or reversal makes or loses money, in whatever order the
\* transactions run and wherever they fail.
THEOREM MoneyIsConserved == Spec => []MoneyConserved
<1> DEFINE Kept(b) == \A c \in Currencies :
               SumFunctionOnSet(b, Mine(c)) = SumFunctionOnSet(InitBalance, Mine(c))
<1>1. Init => MoneyConserved
  <2> SUFFICES ASSUME Init PROVE MoneyConserved
    OBVIOUS
  <2>1. Balances = InitBalance
    BY BalanceAssumption DEF Init, Balances
  <2> QED BY <2>1 DEF MoneyConserved
<1>2. BooksInv /\ MoneyConserved /\ [Next]_vars => MoneyConserved'
  <2> SUFFICES ASSUME BooksInv, MoneyConserved, [Next]_vars PROVE MoneyConserved'
    OBVIOUS
  <2>1. Kept(Balances) /\ Balances \in [Accounts -> Int] /\ IsFiniteSet(Accounts)
    BY MoneyMeans, BalancesType, RankAssumption
  <2>2. ASSUME Kept(Balances') PROVE MoneyConserved'
    BY <2>2 DEF MoneyConserved, Mine
  <2>3. CASE Quiet
    BY <2>1, <2>2, <2>3, SameBalances
  <2>4. ASSUME NEW r \in Requests, CommitPost(r) PROVE MoneyConserved'
    <3>1. txn[r].pay \in Payment /\ Consistent(txn[r].pay)
      BY <2>4, PostedRow
    <3>2. Balances' = Pay(Balances, txn[r].pay)
      BY <2>4, PostBalances
    <3>3. \A c : SumFunctionOnSet(Balances', Mine(c)) = SumFunctionOnSet(Balances, Mine(c))
      BY <2>1, <3>1, <3>2, PayConserves
    <3> QED BY <2>1, <2>2, <3>3
  <2>5. ASSUME NEW w \in Processors, CommitCompletion(w) PROVE MoneyConserved'
    BY <2>1, <2>2, <2>5, SameBalances
  <2>6. ASSUME NEW w \in Processors, CommitReversal(w) PROVE MoneyConserved'
    <3>1. payments[txn[w].id] \in Payment /\ Consistent(payments[txn[w].id])
      BY <2>6, VerdictRow DEF CommitReversal, HasAllLocks, ReversalAccepted
    <3>2. Balances' = Unpay(Balances, payments[txn[w].id])
      BY <2>6, ReversalBalances
    <3>3. \A c : SumFunctionOnSet(Balances', Mine(c)) = SumFunctionOnSet(Balances, Mine(c))
      BY <2>1, <3>1, <3>2, PayConserves
    <3> QED BY <2>1, <2>2, <3>3
  <2> QED BY <2>3, <2>4, <2>5, <2>6, StepKinds DEF BooksInv
<1> QED BY <1>1, <1>2, BooksAlways, PTL DEF Spec

\* OutgoingHoldsPayouts in the terms of GreyDomain_proof.
LEMMA ClearingMeans == OutgoingHoldsPayouts <=> ClearingOK(Balances, payments)
<1>1. \A c \in Currencies : Balances[Outgoing(c)] = accounts[Outgoing(c)].balance
  BY SystemAccounts DEF Balances
<1> QED BY <1>1 DEF OutgoingHoldsPayouts, ClearingOK

\* The same of the next state.
LEMMA ClearingMeansNext == OutgoingHoldsPayouts' <=> ClearingOK(Balances', payments')
<1>1. \A c \in Currencies : Balances'[Outgoing(c)] = accounts'[Outgoing(c)].balance
  BY SystemAccounts DEF Balances
<1> QED BY <1>1 DEF OutgoingHoldsPayouts, ClearingOK

\* The clearing account of a currency holds exactly its payouts that have not
\* failed: the first debit of a reversal can always be paid.
THEOREM OutgoingIsBacked == Spec => []OutgoingHoldsPayouts
<1>1. Init => OutgoingHoldsPayouts
  <2> SUFFICES ASSUME Init PROVE OutgoingHoldsPayouts
    OBVIOUS
  <2>1. DOMAIN payments = {}
    BY DEF Init, EmptyMap
  <2>2. \A c \in Currencies : AmountHeld(payments, c) = 0
    BY <2>1, SumEmpty DEF AmountHeld, AmountOf, Held
  <2>3. \A c \in Currencies :
           /\ accounts[Outgoing(c)].balance = InitBalance[Outgoing(c)]
           /\ InitBalance[Outgoing(c)] \in Int
    BY SystemAccounts, BalanceAssumption DEF Init
  <2> QED BY <2>2, <2>3 DEF OutgoingHoldsPayouts
<1>2. BooksInv /\ OutgoingHoldsPayouts /\ [Next]_vars => OutgoingHoldsPayouts'
  <2> SUFFICES ASSUME BooksInv, ClearingOK(Balances, payments), [Next]_vars
               PROVE  ClearingOK(Balances', payments')
    BY ClearingMeans, ClearingMeansNext
  <2>1. Balances \in [Accounts -> Int] /\ RowsOK(payments)
    BY BalancesType DEF BooksInv
  <2>2. CASE Quiet
    <3>1. Balances' = Balances /\ payments' = payments
      BY <2>2, SameBalances DEF Quiet
    <3> QED BY <3>1
  <2>3. ASSUME NEW r \in Requests, CommitPost(r) PROVE ClearingOK(Balances', payments')
    <3>1. /\ txn[r].pay \in Payment /\ Consistent(txn[r].pay)
          /\ txn[r].pay.status # "failed" /\ r \notin DOMAIN payments
          /\ payments' = Put(payments, r, txn[r].pay)
      BY <2>3, PostedRow
    <3>2. Balances' = Pay(Balances, txn[r].pay)
      BY <2>3, PostBalances
    <3> QED BY <2>1, <3>1, <3>2, PostClears
  <2>4. ASSUME NEW w \in Processors, CommitCompletion(w) PROVE ClearingOK(Balances', payments')
    <3>1. /\ txn[w].id \in DOMAIN payments
          /\ payments[txn[w].id].type = "external_payout"
          /\ payments[txn[w].id].status = "pending"
      BY <2>4, VerdictRow DEF CommitCompletion, HasAllLocks
    <3>2. Balances' = Balances
      BY <2>4, SameBalances
    <3>3. payments' = [payments EXCEPT ![txn[w].id].status = "completed"]
      BY <2>4 DEF CommitCompletion, SetPaymentStatus
    <3> QED BY <2>1, <3>1, <3>2, <3>3, SettleClears
  <2>5. ASSUME NEW w \in Processors, CommitReversal(w) PROVE ClearingOK(Balances', payments')
    <3>1. /\ txn[w].id \in DOMAIN payments
          /\ payments[txn[w].id].type = "external_payout"
          /\ payments[txn[w].id].status = "pending"
      BY <2>5, VerdictRow DEF CommitReversal, HasAllLocks, ReversalAccepted
    <3>2. Balances' = Unpay(Balances, payments[txn[w].id])
      BY <2>5, ReversalBalances
    <3>3. payments' = [payments EXCEPT ![txn[w].id].status = "failed"]
      BY <2>5 DEF CommitReversal, SetPaymentStatus
    <3> QED BY <2>1, <3>1, <3>2, <3>3, RefundClears
  <2> QED BY <2>2, <2>3, <2>4, <2>5, StepKinds DEF BooksInv
<1> QED BY <1>1, <1>2, BooksAlways, PTL DEF Spec

\* The reversal of a pending payout fails for want of money in the FX pool of
\* the source currency, or not at all.
THEOREM RefundsNeedOnlyThePool == Spec => []OnlyPoolRefusesRefund
<1>1. BooksInv /\ OutgoingHoldsPayouts => OnlyPoolRefusesRefund
  <2> SUFFICES ASSUME BooksInv, OutgoingHoldsPayouts, NEW w \in Processors,
                      HasAllLocks(w, "reverse"), StatusUpdatable(txn[w].id),
                      NEW a \in Footprint(txn[w])
               PROVE  /\ VersionMatches(txn[w], a)
                      /\ a # FXPool(txn[w].pay.srcCur) => BalanceAllowed(txn[w], a)
    BY DEF OnlyPoolRefusesRefund
  <2> DEFINE t == txn[w]
             p == payments[txn[w].id]
             b == accounts[a].balance
  <2>1. w \in DOMAIN txn /\ t.op = "reverse" /\ Unlocked(t) = {} /\ IsTxn(t)
    BY DEF HasAllLocks, BooksInv, Inv, TypeOK
  <2>2. /\ t.id \in DOMAIN payments /\ t.pay = p /\ p \in Payment /\ Consistent(p)
        /\ p.status = "pending" /\ p.dst = Outgoing(p.dstCur)
    BY <2>1, VerdictRow
  <2>3. a \in DOMAIN t.locked /\ a \in Accounts
    BY <2>1, FootprintType DEF Unlocked
  <2>4. t.locked[a] = accounts[a] /\ b \in Nat
    BY <2>1, <2>3 DEF BooksInv, Inv, LockedRowsAreCurrent, TypeOK, AccountRow
  <2>5. Entry(t, a) = ReversalEntry(p, a)
    BY <2>1, <2>2 DEF Entry
  <2>6. p.srcAmt \in Nat /\ p.dstAmt \in Nat /\ p.dstCur \in Currencies
    BY <2>2 DEF Payment, Amounts
  <2>7. a \in {p.src, p.dst} \cup FXPools(p)
    BY <2>1, <2>2 DEF Footprint, ReversalFootprint
  <2>8. VersionMatches(t, a)
    BY <2>4 DEF VersionMatches
  <2>9. ASSUME ReversalEntry(p, a).type = "credit", ReversalEntry(p, a).amount \in Nat
        PROVE  BalanceAllowed(t, a)
    BY <2>4, <2>5, <2>9 DEF BalanceAllowed, NewBalance
  <2>10. /\ p.src # p.dst
         /\ FXPool(p.srcCur) # p.src /\ FXPool(p.srcCur) # p.dst
         /\ FXPool(p.dstCur) # p.src /\ FXPool(p.dstCur) # p.dst
    BY <2>2, DistinctAccounts
  <2>11. CASE a = p.src
    <3>1. ReversalEntry(p, a) = [type |-> "credit", amount |-> p.srcAmt]
      BY <2>2, <2>10, <2>11 DEF ReversalEntry
    <3> QED BY <2>6, <2>8, <2>9, <3>1
  <2>12. CASE a = p.dst
    <3>1. ReversalEntry(p, a) = [type |-> "debit", amount |-> p.dstAmt]
      BY <2>2, <2>10, <2>12 DEF ReversalEntry
    <3>2. b = InitBalance[a] + AmountHeld(payments, p.dstCur)
      BY <2>2, <2>6, <2>12 DEF OutgoingHoldsPayouts
    <3>3. t.id \in Held(payments, p.dstCur) /\ RowsOK(payments)
      BY <2>2 DEF Held, BooksInv
    <3>4. AmountHeld(payments, p.dstCur) >= p.dstAmt /\ AmountHeld(payments, p.dstCur) \in Int
      BY <3>3, HeldAtLeast, HeldFinite
    <3>5. InitBalance[a] \in Nat
      BY <2>3, BalanceAssumption
    <3>6. NewBalance(t, a) = b - p.dstAmt
      BY <2>4, <2>5, <3>1 DEF NewBalance
    <3>7. b - p.dstAmt >= 0
      BY <2>4, <2>6, <3>2, <3>4, <3>5
    <3> QED BY <2>8, <3>6, <3>7 DEF BalanceAllowed
  <2>13. CASE a = FXPool(p.dstCur) /\ a # FXPool(p.srcCur)
    <3>1. ReversalEntry(p, a) = [type |-> "credit", amount |-> p.dstAmt]
      BY <2>2, <2>10, <2>13 DEF ReversalEntry
    <3> QED BY <2>6, <2>8, <2>9, <3>1
  <2>14. CASE a = FXPool(p.srcCur)
    BY <2>2, <2>8, <2>14
  <2> QED BY <2>7, <2>11, <2>12, <2>13, <2>14 DEF FXPools
<1> QED BY <1>1, BooksAlways, OutgoingIsBacked, PTL

-----------------------------------------------------------------------------
(***************************************************************************)
(* The transactions implement Bank.                                        *)
(***************************************************************************)
\* Bank's vocabulary is that of GreyDomain.
LEMMA SameVocabulary ==
    /\ \A b, p : AbstractBank!Pay(b, p) = Pay(b, p)
    /\ \A b, p : AbstractBank!Unpay(b, p) = Unpay(b, p)
    /\ \A in : AbstractBank!NewPayment(in) = NewPayment(in)
    /\ \A in : AbstractBank!Acceptable(in) <=> Acceptable(in)
    /\ \A P, p : AbstractBank!KeyIsFree(P, p) <=> KeyIsFree(P, p)
    /\ \A P, r, p : AbstractBank!Put(P, r, p) = Put(P, r, p)
    /\ AbstractBank!Accounts = Accounts
    /\ AbstractBank!EmptyMap = EmptyMap
<1>1. /\ \A b, f, t, n : AbstractBank!Move(b, f, t, n) = Move(b, f, t, n)
      /\ \A p : AbstractBank!IsCross(p) <=> IsCross(p)
      /\ \A c : AbstractBank!FXPool(c) = FXPool(c)
      /\ \A c : AbstractBank!Outgoing(c) = Outgoing(c)
      /\ \A u, c : AbstractBank!UserAccount(u, c) = UserAccount(u, c)
  BY DEF AbstractBank!Move, Move, AbstractBank!IsCross, IsCross, AbstractBank!FXPool,
     FXPool, AbstractBank!Outgoing, Outgoing, AbstractBank!UserAccount, UserAccount
<1>2. /\ \A b, p : AbstractBank!Pay(b, p) = Pay(b, p)
      /\ \A b, p : AbstractBank!Unpay(b, p) = Unpay(b, p)
  BY <1>1 DEF AbstractBank!Pay, Pay, AbstractBank!Unpay, Unpay
<1>3. /\ \A in : AbstractBank!SourceAccount(in) = SourceAccount(in)
      /\ \A in : AbstractBank!DestAccount(in) = DestAccount(in)
      /\ \A in : AbstractBank!DestAmount(in) = DestAmount(in)
  BY <1>1 DEF AbstractBank!SourceAccount, SourceAccount, AbstractBank!DestAccount,
     DestAccount, AbstractBank!DestAmount, DestAmount
<1>4. \A in : AbstractBank!NewPayment(in) = NewPayment(in)
  BY <1>1, <1>3 DEF AbstractBank!NewPayment, NewPayment
<1>5. \A in : AbstractBank!Acceptable(in) <=> Acceptable(in)
  BY DEF AbstractBank!Acceptable, Acceptable, AbstractBank!Resolves, Resolves,
     AbstractBank!ValidRequest, ValidRequest
<1>6. /\ \A P, p : AbstractBank!KeyIsFree(P, p) <=> KeyIsFree(P, p)
      /\ \A P, r, p : AbstractBank!Put(P, r, p) = Put(P, r, p)
      /\ AbstractBank!EmptyMap = EmptyMap
  BY DEF AbstractBank!KeyIsFree, KeyIsFree, AbstractBank!Put, Put,
     AbstractBank!EmptyMap, EmptyMap
<1>7. AbstractBank!Accounts = Accounts
  BY DEF AbstractBank!Accounts, Accounts, AbstractBank!UserAccounts, UserAccounts,
     AbstractBank!UserAccount, UserAccount, AbstractBank!FXPool, FXPool,
     AbstractBank!Outgoing, Outgoing
<1> QED BY <1>2, <1>4, <1>5, <1>6, <1>7

\* Every step is a step of Bank or leaves what Bank sees unchanged.
LEMMA BankStep ==
    ASSUME BooksInv, [Next]_vars
    PROVE  [AbstractBank!BankNext]_(AbstractBank!bankVars)
<1>1. CASE Quiet
  BY <1>1, SameBalances DEF Quiet, AbstractBank!bankVars
<1>2. ASSUME NEW r \in Requests, CommitPost(r) PROVE AbstractBank!Post(r)
  <2>1. PICK in \in Inputs : Acceptable(in) /\ txn[r].pay = NewPayment(in)
    BY <1>2, PostedRow
  <2>2. r \notin DOMAIN payments /\ payments' = Put(payments, r, NewPayment(in))
    BY <1>2, <2>1, PostedRow
  <2>3. KeyIsFree(payments, NewPayment(in))
    BY <1>2, <2>1 DEF CommitPost, PostAccepted
  <2>4. Balances' = Pay(Balances, NewPayment(in)) /\ Balances' \in [Accounts -> Nat]
    BY <1>2, <2>1, PostBalances
  <2> QED BY <2>1, <2>2, <2>3, <2>4, SameVocabulary DEF AbstractBank!Post
<1>3. ASSUME NEW w \in Processors, CommitCompletion(w)
      PROVE  txn[w].id \in Requests /\ AbstractBank!Settle(txn[w].id)
  <2>1. /\ txn[w].id \in DOMAIN payments
        /\ payments[txn[w].id].status = "pending"
    BY <1>3, VerdictRow DEF CommitCompletion, HasAllLocks
  <2>2. Balances' = Balances
    BY <1>3, SameBalances
  <2>3. payments' = [payments EXCEPT ![txn[w].id].status = "completed"]
    BY <1>3 DEF CommitCompletion, SetPaymentStatus
  <2>4. txn[w].id \in Requests
    BY <2>1 DEF BooksInv, Inv, TypeOK
  <2> QED BY <2>1, <2>2, <2>3, <2>4 DEF AbstractBank!Settle
<1>4. ASSUME NEW w \in Processors, CommitReversal(w)
      PROVE  txn[w].id \in Requests /\ AbstractBank!Refund(txn[w].id)
  <2>1. /\ txn[w].id \in DOMAIN payments
        /\ payments[txn[w].id].status = "pending"
    BY <1>4, VerdictRow DEF CommitReversal, HasAllLocks, ReversalAccepted
  <2>2. /\ Balances' = Unpay(Balances, payments[txn[w].id])
        /\ Balances' \in [Accounts -> Nat]
    BY <1>4, ReversalBalances
  <2>3. payments' = [payments EXCEPT ![txn[w].id].status = "failed"]
    BY <1>4 DEF CommitReversal, SetPaymentStatus
  <2>4. txn[w].id \in Requests
    BY <2>1 DEF BooksInv, Inv, TypeOK
  <2> QED BY <2>1, <2>2, <2>3, <2>4, SameVocabulary DEF AbstractBank!Refund
<1> QED BY <1>1, <1>2, <1>3, <1>4, StepKinds DEF BooksInv, AbstractBank!BankNext

\* The transactions implement the abstract bank: each commit is one atomic move
\* of Bank, everything else - locks, refusals, rollbacks, freezes - is none.
THEOREM TransactionsImplementBank == Spec => ImplementsBank
<1>1. Init => AbstractBank!BankInit
  <2> SUFFICES ASSUME Init PROVE AbstractBank!BankInit
    OBVIOUS
  <2>1. Balances = InitBalance
    BY BalanceAssumption DEF Init, Balances
  <2> QED BY <2>1, SameVocabulary DEF Init, AbstractBank!BankInit
<1>2. BooksInv /\ [Next]_vars => [AbstractBank!BankNext]_(AbstractBank!bankVars)
  BY BankStep
<1> QED BY <1>1, <1>2, BooksAlways, PTL DEF Spec, ImplementsBank, AbstractBank!BankSpec

-----------------------------------------------------------------------------
(***************************************************************************)
(* The entries of a payment.                                               *)
(***************************************************************************)
Places(es, r) == {i \in 1 .. Len(es) : es[i].payment = r}

\* Ledger es of account a shows what became of payment r with row p.
Booked(es, r, p, a) ==
    \E i \in Places(es, r) :
        /\ SameMove(es[i], PostingEntry(p, a))
        /\ IF p.status = "failed"
           THEN \E j \in Places(es, r) :
                   /\ i < j /\ Places(es, r) = {i, j}
                   /\ SameMove(es[j], ReversalEntry(p, a))
           ELSE Places(es, r) = {i}

BookedIn(L, P) ==
    \A r \in Requests, a \in Accounts :
        IF r \notin DOMAIN P \/ a \notin PostFootprint(P[r])
        THEN Places(L[a], r) = {} ELSE Booked(L[a], r, P[r], a)

\* BooksMatchPayments, account by account.
LEMMA BooksMean ==
    /\ BooksMatchPayments <=> BookedIn(ledger, payments)
    /\ BooksMatchPayments' <=> BookedIn(ledger', payments')
<1>1. BooksMatchPayments <=> BookedIn(ledger, payments)
  BY Zenon DEF BooksMatchPayments, BookedIn, Booked, EntriesOf, Places
<1>2. BooksMatchPayments' <=> BookedIn(ledger', payments')
  BY Zenon DEF BooksMatchPayments, BookedIn, Booked, EntriesOf, Places
<1> QED BY <1>1, <1>2

\* One more entry adds a place for its own payment and for no other.
LEMMA PlacesAppend ==
    ASSUME NEW es, NEW e, NEW r, es \in Seq(LedgerEntry), e \in LedgerEntry
    PROVE  Places(Append(es, e), r) =
               IF e.payment = r THEN Places(es, r) \cup {Len(es) + 1} ELSE Places(es, r)
<1> DEFINE fs == Append(es, e)
<1>1. Len(es) \in Nat /\ Len(fs) = Len(es) + 1 /\ fs[Len(es) + 1] = e
  OBVIOUS
<1>2. \A i \in 1 .. Len(es) : fs[i] = es[i]
  OBVIOUS
<1> HIDE DEF fs
<1>3. 1 .. Len(fs) = (1 .. Len(es)) \cup {Len(es) + 1}
  BY <1>1
<1>4. ASSUME NEW i
      PROVE  i \in Places(fs, r) <=> \/ i \in Places(es, r)
                                     \/ i = Len(es) + 1 /\ e.payment = r
  <2>1. CASE i \in 1 .. Len(es)
    <3>1. i # Len(es) + 1
      BY <1>1, <2>1
    <3> QED BY <1>2, <1>3, <2>1, <3>1 DEF Places
  <2>2. CASE i = Len(es) + 1
    BY <1>1, <1>3, <2>2 DEF Places
  <2>3. CASE i \notin 1 .. Len(es) /\ i # Len(es) + 1
    BY <1>3, <2>3 DEF Places
  <2> QED BY <2>1, <2>2, <2>3
<1>5. Places(fs, r) = IF e.payment = r THEN Places(es, r) \cup {Len(es) + 1} ELSE Places(es, r)
  BY <1>4
<1> QED BY <1>5 DEF fs

\* The entry of another payment changes nothing.
LEMMA BookedOther ==
    ASSUME NEW es, NEW e, NEW r, NEW p, NEW a, es \in Seq(LedgerEntry), e \in LedgerEntry,
           e.payment # r
    PROVE  /\ Places(es, r) = {} => Places(Append(es, e), r) = {}
           /\ Booked(es, r, p, a) => Booked(Append(es, e), r, p, a)
<1> DEFINE fs == Append(es, e)
<1>1. Places(fs, r) = Places(es, r) /\ \A i \in Places(es, r) : fs[i] = es[i]
  <2>1. Places(fs, r) = Places(es, r)
    BY PlacesAppend
  <2>2. \A i \in 1 .. Len(es) : fs[i] = es[i]
    OBVIOUS
  <2> HIDE DEF fs
  <2> QED BY <2>1, <2>2 DEF Places
<1> HIDE DEF fs
<1>2. Places(es, r) = {} => Places(fs, r) = {}
  BY <1>1
<1>3. Booked(es, r, p, a) => Booked(fs, r, p, a)
  <2> SUFFICES ASSUME Booked(es, r, p, a) PROVE Booked(fs, r, p, a)
    OBVIOUS
  <2>1. PICK i \in Places(es, r) :
           /\ SameMove(es[i], PostingEntry(p, a))
           /\ IF p.status = "failed"
              THEN \E j \in Places(es, r) :
                      /\ i < j /\ Places(es, r) = {i, j}
                      /\ SameMove(es[j], ReversalEntry(p, a))
              ELSE Places(es, r) = {i}
    BY DEF Booked
  <2>2. CASE p.status = "failed"
    <3>1. PICK j \in Places(es, r) :
             /\ i < j /\ Places(es, r) = {i, j}
             /\ SameMove(es[j], ReversalEntry(p, a))
      BY <2>1, <2>2
    <3> QED BY <1>1, <2>1, <2>2, <3>1 DEF Booked
  <2>3. CASE p.status # "failed"
    BY <1>1, <2>1, <2>3 DEF Booked
  <2> QED BY <2>2, <2>3
<1> QED BY <1>2, <1>3 DEF fs

\* The first entry of a payment.
LEMMA BookedFirst ==
    ASSUME NEW es, NEW e, NEW r, NEW p, NEW a, es \in Seq(LedgerEntry), e \in LedgerEntry,
           e.payment = r, Places(es, r) = {}, SameMove(e, PostingEntry(p, a)),
           p.status # "failed"
    PROVE  Booked(Append(es, e), r, p, a)
<1> DEFINE fs == Append(es, e)
<1>1. Places(fs, r) = {Len(es) + 1}
  BY PlacesAppend
<1>2. fs[Len(es) + 1] = e
  OBVIOUS
<1> HIDE DEF fs
<1>3. Booked(fs, r, p, a)
  BY <1>1, <1>2 DEF Booked
<1> QED BY <1>3 DEF fs

\* What a row says apart from its status.
LEMMA StatusAside ==
    ASSUME NEW p, NEW s, p \in Payment
    PROVE  LET q == [p EXCEPT !.status = s] IN
           /\ PostFootprint(q) = PostFootprint(p)
           /\ \A a : PostingEntry(q, a) = PostingEntry(p, a)
           /\ \A a : ReversalEntry(q, a) = ReversalEntry(p, a)
           /\ q.status = s
<1> DEFINE q == [p EXCEPT !.status = s]
<1>1. /\ q.src = p.src /\ q.dst = p.dst /\ q.srcCur = p.srcCur /\ q.dstCur = p.dstCur
      /\ q.srcAmt = p.srcAmt /\ q.dstAmt = p.dstAmt /\ q.status = s
  BY DEF Payment
<1> HIDE DEF q
<1>2. PostFootprint(q) = PostFootprint(p)
  BY <1>1 DEF PostFootprint, FXPools, IsCross
<1>3. \A a : PostingEntry(q, a) = PostingEntry(p, a)
  BY <1>1, Zenon DEF PostingEntry
<1>4. \A a : ReversalEntry(q, a) = ReversalEntry(p, a)
  BY <1>1, Zenon DEF ReversalEntry
<1> QED BY <1>1, <1>2, <1>3, <1>4 DEF q

\* The second and last entry of a payment that failed.
LEMMA BookedAgain ==
    ASSUME NEW es, NEW e, NEW r, NEW p, NEW a, es \in Seq(LedgerEntry), e \in LedgerEntry,
           p \in Payment, e.payment = r, Booked(es, r, p, a), p.status # "failed",
           SameMove(e, ReversalEntry(p, a))
    PROVE  Booked(Append(es, e), r, [p EXCEPT !.status = "failed"], a)
<1> DEFINE fs == Append(es, e)
           q  == [p EXCEPT !.status = "failed"]
           j  == Len(es) + 1
<1>1. PICK i \in Places(es, r) :
         SameMove(es[i], PostingEntry(p, a)) /\ Places(es, r) = {i}
  BY DEF Booked
<1>2. /\ Places(fs, r) = Places(es, r) \cup {j} /\ fs[j] = e /\ fs[i] = es[i] /\ i < j
  <2>1. Places(fs, r) = Places(es, r) \cup {j}
    BY PlacesAppend
  <2>2. i < j
    BY DEF Places
  <2>3. fs[j] = e /\ \A k \in 1 .. Len(es) : fs[k] = es[k]
    OBVIOUS
  <2> HIDE DEF fs
  <2> QED BY <2>1, <2>2, <2>3 DEF Places
<1>3. /\ PostingEntry(q, a) = PostingEntry(p, a)
      /\ ReversalEntry(q, a) = ReversalEntry(p, a) /\ q.status = "failed"
  BY StatusAside
<1> HIDE DEF fs, q, j
<1>4. Places(fs, r) = {i, j} /\ i \in Places(fs, r) /\ j \in Places(fs, r)
  BY <1>1, <1>2
<1>5. Booked(fs, r, q, a)
  BY <1>1, <1>2, <1>3, <1>4 DEF Booked
<1> QED BY <1>5 DEF fs, q

\* Completing a payment needs no entries.
LEMMA BookedSettled ==
    ASSUME NEW es, NEW r, NEW p, NEW a, p \in Payment, Booked(es, r, p, a),
           p.status # "failed"
    PROVE  Booked(es, r, [p EXCEPT !.status = "completed"], a)
<1> DEFINE q == [p EXCEPT !.status = "completed"]
<1>1. PostingEntry(q, a) = PostingEntry(p, a) /\ q.status = "completed"
  BY StatusAside
<1> HIDE DEF q
<1>2. Booked(es, r, q, a)
  BY <1>1 DEF Booked
<1> QED BY <1>2 DEF q

\* A commit appends one entry, for its own payment, to each account it locked.
LEMMA WrittenEntries ==
    ASSUME BooksInv, NEW x \in DOMAIN txn, Unlocked(txn[x]) = {},
           WritesAccepted(txn[x]), WriteBooks(txn[x]), NEW a \in Accounts
    PROVE  /\ ledger[a] \in Seq(LedgerEntry)
           /\ a \notin Footprint(txn[x]) => ledger'[a] = ledger[a]
           /\ a \in Footprint(txn[x]) =>
                 /\ NewEntry(txn[x], a) \in LedgerEntry
                 /\ NewEntry(txn[x], a).payment = txn[x].id
                 /\ SameMove(NewEntry(txn[x], a), Entry(txn[x], a))
                 /\ ledger'[a] = Append(ledger[a], NewEntry(txn[x], a))
<1>1. ledger[a] \in Seq(LedgerEntry)
  BY DEF BooksInv, Inv, TypeOK
<1>2. a \notin Footprint(txn[x]) => ledger'[a] = ledger[a]
  BY DEF WriteBooks
<1>3. a \in Footprint(txn[x]) =>
         /\ NewEntry(txn[x], a) \in LedgerEntry
         /\ ledger'[a] = Append(ledger[a], NewEntry(txn[x], a))
  BY WriteTypes DEF WriteBooks, BooksInv, Inv
<1>4. /\ NewEntry(txn[x], a).payment = txn[x].id
      /\ SameMove(NewEntry(txn[x], a), Entry(txn[x], a))
  BY DEF NewEntry, SameMove
<1> QED BY <1>1, <1>2, <1>3, <1>4

\* The books of the payments that a commit is not about stay as they are.
LEMMA OthersBooked ==
    ASSUME BooksInv, BookedIn(ledger, payments),
           NEW x \in DOMAIN txn, Unlocked(txn[x]) = {},
           WritesAccepted(txn[x]), WriteBooks(txn[x]),
           NEW q \in Requests, q # txn[x].id, NEW a \in Accounts,
           q \in DOMAIN payments' <=> q \in DOMAIN payments,
           q \in DOMAIN payments => payments'[q] = payments[q]
    PROVE  IF q \notin DOMAIN payments' \/ a \notin PostFootprint(payments'[q])
           THEN Places(ledger'[a], q) = {} ELSE Booked(ledger'[a], q, payments'[q], a)
<1>1. IF q \notin DOMAIN payments \/ a \notin PostFootprint(payments[q])
      THEN Places(ledger[a], q) = {} ELSE Booked(ledger[a], q, payments[q], a)
  BY DEF BookedIn
<1>2. CASE a \notin Footprint(txn[x])
  <2>1. ledger'[a] = ledger[a]
    BY <1>2, WrittenEntries
  <2> QED BY <1>1, <2>1
<1>3. CASE a \in Footprint(txn[x])
  <2> DEFINE e == NewEntry(txn[x], a)
  <2>1. /\ ledger[a] \in Seq(LedgerEntry) /\ e \in LedgerEntry /\ e.payment # q
        /\ ledger'[a] = Append(ledger[a], e)
    BY <1>3, WrittenEntries
  <2> HIDE DEF e
  <2>2. /\ Places(ledger[a], q) = {} => Places(ledger'[a], q) = {}
        /\ Booked(ledger[a], q, payments[q], a) => Booked(ledger'[a], q, payments[q], a)
    BY <2>1, BookedOther
  <2> QED BY <1>1, <2>2
<1> QED BY <1>2, <1>3

\* Posting writes the entries of the new payment and no others.
LEMMA BookedPost ==
    ASSUME BooksInv, BookedIn(ledger, payments), NEW r \in Requests, CommitPost(r)
    PROVE  BookedIn(ledger', payments')
<1> DEFINE t == txn[r]
           p == txn[r].pay
<1>1. /\ r \in DOMAIN txn /\ t.op = "post" /\ t.id = r /\ r \notin DOMAIN payments
      /\ payments' = Put(payments, r, p) /\ p \in Payment /\ p.status # "failed"
  BY PostedRow
<1>2. Unlocked(t) = {} /\ WritesAccepted(t) /\ WriteBooks(t)
  BY DEF CommitPost, HasAllLocks, PostAccepted
<1>3. /\ DOMAIN payments' = DOMAIN payments \cup {r} /\ payments'[r] = p
      /\ \A q \in DOMAIN payments : payments'[q] = payments[q]
  BY <1>1 DEF Put
<1>4. Footprint(t) = PostFootprint(p) /\ \A a : Entry(t, a) = PostingEntry(p, a)
  BY <1>1 DEF Footprint, Entry
<1>5. ASSUME NEW a \in Accounts
      PROVE  IF a \notin PostFootprint(p) THEN Places(ledger'[a], r) = {}
             ELSE Booked(ledger'[a], r, p, a)
  <2>1. Places(ledger[a], r) = {}
    BY <1>1 DEF BookedIn
  <2>2. CASE a \notin Footprint(t)
    <3>1. ledger'[a] = ledger[a]
      BY <1>1, <1>2, <2>2, WrittenEntries
    <3> QED BY <1>4, <2>1, <2>2, <3>1
  <2>3. CASE a \in Footprint(t)
    <3> DEFINE e == NewEntry(t, a)
    <3>1. /\ ledger[a] \in Seq(LedgerEntry) /\ e \in LedgerEntry /\ e.payment = r
          /\ SameMove(e, PostingEntry(p, a)) /\ ledger'[a] = Append(ledger[a], e)
      BY <1>1, <1>2, <1>4, <2>3, WrittenEntries
    <3> HIDE DEF e
    <3>2. Booked(ledger'[a], r, p, a)
      BY <1>1, <2>1, <3>1, BookedFirst
    <3> QED BY <1>4, <2>3, <3>2
  <2> QED BY <2>2, <2>3
<1>6. ASSUME NEW q \in Requests, NEW a \in Accounts
      PROVE  IF q \notin DOMAIN payments' \/ a \notin PostFootprint(payments'[q])
             THEN Places(ledger'[a], q) = {} ELSE Booked(ledger'[a], q, payments'[q], a)
  <2>1. CASE q = r
    <3> HIDE DEF p
    <3> QED BY <1>3, <1>5, <2>1
  <2>2. CASE q # r
    BY <1>1, <1>2, <1>3, <2>2, OthersBooked
  <2> QED BY <2>1, <2>2
<1> QED BY <1>6 DEF BookedIn

\* A reversal writes the second entries of its payment and no others.
LEMMA BookedReversal ==
    ASSUME BooksInv, BookedIn(ledger, payments), NEW w \in Processors, CommitReversal(w)
    PROVE  BookedIn(ledger', payments')
<1> DEFINE t  == txn[w]
           id == txn[w].id
           p  == payments[id]
<1>1. /\ w \in DOMAIN txn /\ t.op = "reverse" /\ StatusUpdatable(id)
      /\ Unlocked(t) = {} /\ WritesAccepted(t) /\ WriteBooks(t)
      /\ SetPaymentStatus(id, "failed")
  BY DEF CommitReversal, HasAllLocks, ReversalAccepted
<1>2. /\ id \in DOMAIN payments /\ t.pay = p /\ p \in Payment /\ Consistent(p)
      /\ p.status = "pending" /\ p.dst = Outgoing(p.dstCur)
  BY <1>1, VerdictRow
<1>3. /\ DOMAIN payments' = DOMAIN payments
      /\ payments'[id] = [p EXCEPT !.status = "failed"]
      /\ \A q \in DOMAIN payments : q # id => payments'[q] = payments[q]
  BY <1>1, DecidedRow DEF PaymentStatuses
<1>4. /\ Footprint(t) = PostFootprint(p) /\ \A a : Entry(t, a) = ReversalEntry(p, a)
  <2>1. Footprint(t) = ReversalFootprint(p)
    BY <1>1, <1>2 DEF Footprint
  <2> QED BY <1>1, <1>2, <2>1, ReversalGain DEF Entry
<1>5. PostFootprint(payments'[id]) = PostFootprint(p)
  BY <1>2, <1>3, StatusAside
<1>6. id \in Requests
  BY <1>2 DEF BooksInv, Inv, TypeOK
<1>7. ASSUME NEW a \in Accounts
      PROVE  IF a \notin PostFootprint(p) THEN Places(ledger'[a], id) = {}
             ELSE Booked(ledger'[a], id, payments'[id], a)
  <2>1. IF a \notin PostFootprint(p) THEN Places(ledger[a], id) = {}
        ELSE Booked(ledger[a], id, p, a)
    BY <1>2, <1>6 DEF BookedIn
  <2>2. CASE a \notin Footprint(t)
    <3>1. ledger'[a] = ledger[a]
      BY <1>1, <2>2, WrittenEntries
    <3> QED BY <1>4, <2>1, <2>2, <3>1
  <2>3. CASE a \in Footprint(t)
    <3> DEFINE e == NewEntry(t, a)
    <3>1. /\ ledger[a] \in Seq(LedgerEntry) /\ e \in LedgerEntry /\ e.payment = id
          /\ SameMove(e, ReversalEntry(p, a)) /\ ledger'[a] = Append(ledger[a], e)
      BY <1>1, <1>4, <2>3, WrittenEntries
    <3> HIDE DEF e
    <3>2. Booked(ledger[a], id, p, a) /\ p.status # "failed"
      BY <1>2, <1>4, <2>1, <2>3
    <3>3. Booked(Append(ledger[a], e), id, [p EXCEPT !.status = "failed"], a)
      BY <1>2, <3>1, <3>2, BookedAgain
    <3> QED BY <1>3, <1>4, <2>3, <3>1, <3>3
  <2> QED BY <2>2, <2>3
<1>8. ASSUME NEW q \in Requests, NEW a \in Accounts
      PROVE  IF q \notin DOMAIN payments' \/ a \notin PostFootprint(payments'[q])
             THEN Places(ledger'[a], q) = {} ELSE Booked(ledger'[a], q, payments'[q], a)
  <2>1. CASE q = id
    <3> HIDE DEF id, p
    <3> QED BY <1>2, <1>3, <1>5, <1>7, <2>1
  <2>2. CASE q # id
    BY <1>1, <1>3, <2>2, OthersBooked
  <2> QED BY <2>1, <2>2
<1> QED BY <1>8 DEF BookedIn

\* A completion writes no entries, and none are due.
LEMMA BookedCompletion ==
    ASSUME BooksInv, BookedIn(ledger, payments), NEW w \in Processors, CommitCompletion(w)
    PROVE  BookedIn(ledger', payments')
<1> DEFINE id == txn[w].id
           p  == payments[id]
<1>1. /\ w \in DOMAIN txn /\ txn[w].op = "complete" /\ StatusUpdatable(id)
      /\ SetPaymentStatus(id, "completed") /\ ledger' = ledger
  BY DEF CommitCompletion, HasAllLocks
<1>2. id \in DOMAIN payments /\ p \in Payment /\ p.status # "failed"
  BY <1>1, VerdictRow
<1>3. /\ DOMAIN payments' = DOMAIN payments
      /\ payments'[id] = [p EXCEPT !.status = "completed"]
      /\ \A q \in DOMAIN payments : q # id => payments'[q] = payments[q]
  BY <1>1, DecidedRow DEF PaymentStatuses
<1>4. PostFootprint(payments'[id]) = PostFootprint(p)
  BY <1>2, <1>3, StatusAside
<1>5. ASSUME NEW a, Booked(ledger[a], id, p, a)
      PROVE  Booked(ledger'[a], id, payments'[id], a)
  <2>1. Booked(ledger[a], id, [p EXCEPT !.status = "completed"], a)
    BY <1>2, <1>5, BookedSettled
  <2> QED BY <1>1, <1>3, <2>1
<1>6. ASSUME NEW q \in Requests, NEW a \in Accounts
      PROVE  IF q \notin DOMAIN payments' \/ a \notin PostFootprint(payments'[q])
             THEN Places(ledger'[a], q) = {} ELSE Booked(ledger'[a], q, payments'[q], a)
  <2>1. IF q \notin DOMAIN payments \/ a \notin PostFootprint(payments[q])
        THEN Places(ledger[a], q) = {} ELSE Booked(ledger[a], q, payments[q], a)
    BY DEF BookedIn
  <2>2. CASE q = id
    <3> HIDE DEF id
    <3> QED BY <1>1, <1>2, <1>3, <1>4, <1>5, <2>1, <2>2
  <2>3. CASE q # id
    BY <1>1, <1>3, <2>1, <2>3
  <2> QED BY <2>2, <2>3
<1> QED BY <1>6 DEF BookedIn

\* Every payment has been posted once to each of its accounts, and undone once
\* there if it failed; nothing else is in the ledger.
THEOREM BooksAreTrue == Spec => []BooksMatchPayments
<1>1. Init => BooksMatchPayments
  <2> SUFFICES ASSUME Init, NEW r \in Requests, NEW a \in Accounts
               PROVE  r \notin DOMAIN payments /\ EntriesOf(r, a) = {}
    BY DEF BooksMatchPayments
  <2>1. DOMAIN payments = {} /\ ledger[a] = <<>>
    BY DEF Init, EmptyMap
  <2> QED BY <2>1 DEF EntriesOf
<1>2. BooksInv /\ BooksMatchPayments /\ [Next]_vars => BooksMatchPayments'
  <2> SUFFICES ASSUME BooksInv, BookedIn(ledger, payments), [Next]_vars
               PROVE  BookedIn(ledger', payments')
    BY BooksMean
  <2>1. CASE Quiet
    BY <2>1 DEF Quiet
  <2> QED BY <2>1, BookedPost, BookedReversal, BookedCompletion, StepKinds DEF BooksInv
<1> QED BY <1>1, <1>2, BooksAlways, PTL DEF Spec
=============================================================================
