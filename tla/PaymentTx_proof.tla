--------------------------- MODULE PaymentTx_proof ---------------------------
(***************************************************************************)
(* Proofs about PaymentTx, for every set of users, currencies, accounts,   *)
(* requests and processors, every lock order and every conversion.         *)
(***************************************************************************)
EXTENDS PaymentTx, GreyDomain_proof

-----------------------------------------------------------------------------
(***************************************************************************)
(* What a transaction writes.                                              *)
(***************************************************************************)
\* A transaction locks and updates accounts, nothing else.
LEMMA FootprintType ==
    ASSUME NEW t, IsTxn(t)
    PROVE  Footprint(t) \subseteq Accounts
<1>1. t.pay \in Payment /\ t.op \in {"post", "complete", "reverse"}
  BY DEF IsTxn
<1>2. FXPools(t.pay) \subseteq Accounts
  BY <1>1, SystemAccounts DEF FXPools, Payment
<1>3. /\ PostFootprint(t.pay) \subseteq Accounts
      /\ ReversalFootprint(t.pay) \subseteq Accounts
  BY <1>1, <1>2, SystemAccounts DEF PostFootprint, ReversalFootprint, Payment
<1> QED BY <1>1, <1>3 DEF Footprint

\* Each account of the footprint gets a debit or a credit of a positive amount.
LEMMA EntryType ==
    ASSUME NEW t, IsTxn(t), NEW a \in Footprint(t)
    PROVE  Entry(t, a).type \in EntryTypes /\ Entry(t, a).amount \in Amounts
<1>1. t.pay \in Payment /\ t.op \in {"post", "complete", "reverse"}
  BY DEF IsTxn
<1>2. t.pay.srcAmt \in Amounts /\ t.pay.dstAmt \in Amounts
  BY <1>1 DEF Payment
<1>3. CASE t.op = "post"
  <2>1. a \in PostFootprint(t.pay)
    BY <1>3 DEF Footprint
  <2>2. a \in {t.pay.src, t.pay.dst, FXPool(t.pay.srcCur), FXPool(t.pay.dstCur)}
    BY <2>1 DEF PostFootprint, FXPools
  <2>3. /\ PostingEntry(t.pay, a).type \in EntryTypes
        /\ PostingEntry(t.pay, a).amount \in Amounts
    BY <1>2, <2>2 DEF PostingEntry, EntryTypes
  <2> QED BY <1>3, <2>3 DEF Entry
<1>4. CASE t.op = "reverse"
  <2>1. a \in ReversalFootprint(t.pay)
    BY <1>4 DEF Footprint
  <2>2. a \in {t.pay.src, Outgoing(t.pay.dstCur), FXPool(t.pay.srcCur), FXPool(t.pay.dstCur)}
    BY <2>1 DEF ReversalFootprint, FXPools
  <2>3. /\ ReversalEntry(t.pay, a).type \in EntryTypes
        /\ ReversalEntry(t.pay, a).amount \in Amounts
    BY <1>2, <2>2 DEF ReversalEntry, EntryTypes
  <2> QED BY <1>4, <2>3 DEF Entry
<1>5. CASE t.op = "complete"
  BY <1>5 DEF Footprint
<1> QED BY <1>1, <1>3, <1>4, <1>5

\* The rows and ledger entries that a transaction with all its locks writes
\* are well formed; that no balance is negative is chk_accounts_balance.
LEMMA WriteTypes ==
    ASSUME TypeOK, NEW x \in DOMAIN txn, Unlocked(txn[x]) = {},
           WritesAccepted(txn[x]), NEW a \in Footprint(txn[x])
    PROVE  /\ a \in Accounts
           /\ a \in DOMAIN txn[x].locked
           /\ NewBalance(txn[x], a) \in Nat
           /\ NewRow(txn[x], a) \in AccountRow
           /\ NewEntry(txn[x], a) \in LedgerEntry
<1> DEFINE t == txn[x]
<1>1. IsTxn(t)
  BY DEF TypeOK
<1>2. a \in Accounts
  BY <1>1, FootprintType
<1>3. a \in DOMAIN t.locked
  BY DEF Unlocked
<1>4. t.locked[a] \in AccountRow
  BY <1>1, <1>3 DEF IsTxn
<1>5. Entry(t, a).type \in EntryTypes /\ Entry(t, a).amount \in Amounts
  BY <1>1, EntryType
<1>6. NewBalance(t, a) \in Nat
  <2>1. NewBalance(t, a) >= 0
    BY DEF WritesAccepted, BalanceAllowed
  <2>2. NewBalance(t, a) \in Int
    BY <1>4, <1>5 DEF NewBalance, AccountRow, Amounts
  <2> QED BY <2>1, <2>2
<1>7. NewRow(t, a) \in AccountRow
  <2>1. accounts[a] \in AccountRow
    BY <1>2 DEF TypeOK
  <2> QED BY <1>4, <1>6, <2>1 DEF NewRow, AccountRow
<1>8. NewEntry(t, a) \in LedgerEntry
  <2>1. t.id \in Requests
    BY <1>1 DEF IsTxn
  <2> QED BY <1>4, <1>5, <1>6, <2>1 DEF NewEntry, LedgerEntry, AccountRow
<1> QED BY <1>2, <1>3, <1>6, <1>7, <1>8

\* The rows and entries that a commit writes have their types.
LEMMA WriteBooksType ==
    ASSUME TypeOK, NEW x \in DOMAIN txn, Unlocked(txn[x]) = {},
           WritesAccepted(txn[x]), WriteBooks(txn[x])
    PROVE  /\ accounts' \in [Accounts -> AccountRow]
           /\ ledger' \in [Accounts -> Seq(LedgerEntry)]
<1>1. \A a \in Accounts : accounts[a] \in AccountRow /\ ledger[a] \in Seq(LedgerEntry)
  BY DEF TypeOK
<1>2. \A a \in Footprint(txn[x]) :
         NewRow(txn[x], a) \in AccountRow /\ NewEntry(txn[x], a) \in LedgerEntry
  BY WriteTypes
<1>3. \A a \in Footprint(txn[x]) \cap Accounts :
         Append(ledger[a], NewEntry(txn[x], a)) \in Seq(LedgerEntry)
  BY <1>1, <1>2
<1> QED BY <1>1, <1>2, <1>3 DEF WriteBooks

\* Opening a transaction, and closing one.
LEMMA BeginType ==
    ASSUME TypeOK, NEW x \in Actors, NEW op \in {"post", "complete", "reverse"},
           NEW id \in Requests, NEW p \in Payment, Begin(x, op, id, p)
    PROVE  /\ DOMAIN txn' \subseteq Actors
           /\ txn' = [y \in DOMAIN txn' |-> txn'[y]]
           /\ \A y \in DOMAIN txn' : IsTxn(txn'[y])
<1> DEFINE new == [op |-> op, id |-> id, pay |-> p, locked |-> EmptyMap]
<1>1. IsTxn(new)
  <2>1. DOMAIN EmptyMap = {}
    BY DEF EmptyMap
  <2>2. EmptyMap \in [{} -> AccountRow]
    BY DEF EmptyMap
  <2> QED BY <2>1, <2>2 DEF IsTxn
<1>2. txn' = [y \in DOMAIN txn \cup {x} |-> IF y = x THEN new ELSE txn[y]]
  BY DEF Begin, Put
<1>3. DOMAIN txn \subseteq Actors /\ \A y \in DOMAIN txn : IsTxn(txn[y])
  BY DEF TypeOK
<1>4. DOMAIN txn' = DOMAIN txn \cup {x}
  BY <1>2
<1>5. \A y \in DOMAIN txn' : txn'[y] = IF y = x THEN new ELSE txn[y]
  BY <1>2, <1>4
<1>6. \A y \in DOMAIN txn' : IsTxn(txn'[y])
  <2> HIDE DEF new
  <2> QED BY <1>1, <1>3, <1>4, <1>5
<1>7. txn' = [y \in DOMAIN txn' |-> txn'[y]]
  BY <1>2, <1>4
<1> QED BY <1>3, <1>4, <1>6, <1>7

\* Ending a transaction leaves the others as they are.
LEMMA EndType ==
    ASSUME TypeOK, NEW x, End(x)
    PROVE  /\ DOMAIN txn' = DOMAIN txn \ {x}
           /\ \A y \in DOMAIN txn' : txn'[y] = txn[y]
           /\ DOMAIN txn' \subseteq Actors
           /\ txn' = [y \in DOMAIN txn' |-> txn'[y]]
           /\ \A y \in DOMAIN txn' : IsTxn(txn'[y])
<1>1. txn' = [y \in DOMAIN txn \ {x} |-> txn[y]]
  BY DEF End, Remove
<1>2. DOMAIN txn' = DOMAIN txn \ {x} /\ \A y \in DOMAIN txn' : txn'[y] = txn[y]
  BY <1>1
<1> QED BY <1>1, <1>2 DEF TypeOK
-----------------------------------------------------------------------------
(***************************************************************************)
(* Type correctness, balances that are never negative included.            *)
(***************************************************************************)
\* Initially the types are right.
LEMMA InitType == Init => TypeOK
<1> SUFFICES ASSUME Init PROVE TypeOK
  OBVIOUS
<1>1. accounts \in [Accounts -> AccountRow]
  BY BalanceAssumption, VersionAssumption DEF Init, AccountRow, AccountStatuses
<1>2. DOMAIN payments = {} /\ payments \in [DOMAIN payments -> Payment]
  BY DEF Init, EmptyMap
<1>3. ledger \in [Accounts -> Seq(LedgerEntry)] /\ events \in [Requests -> Seq(EventTypes)]
  BY DEF Init
<1>4. DOMAIN txn = {} /\ txn = [x \in DOMAIN txn |-> txn[x]]
  BY DEF Init, EmptyMap
<1> QED BY <1>1, <1>2, <1>3, <1>4 DEF Init, TypeOK

\* Recording an event keeps the type of the audit trail.
LEMMA EventType ==
    ASSUME TypeOK, NEW id \in Requests, NEW e \in EventTypes, WriteEvent(id, e)
    PROVE  events' \in [Requests -> Seq(EventTypes)]
<1>1. events[id] \in Seq(EventTypes)
  BY DEF TypeOK
<1>2. Append(events[id], e) \in Seq(EventTypes)
  BY <1>1
<1> QED BY <1>2 DEF TypeOK, WriteEvent

\* Deciding a payment keeps the type of the table.
LEMMA StatusType ==
    ASSUME TypeOK, NEW id, NEW s \in PaymentStatuses, SetPaymentStatus(id, s)
    PROVE  DOMAIN payments' = DOMAIN payments /\ payments' \in [DOMAIN payments -> Payment]
<1>1. DOMAIN payments' = DOMAIN payments
  BY DEF SetPaymentStatus
<1>2. CASE id \in DOMAIN payments
  <2>1. payments[id] \in Payment
    BY <1>2 DEF TypeOK
  <2>2. [payments[id] EXCEPT !.status = s] \in Payment
    BY <2>1 DEF Payment
  <2> QED BY <1>1, <1>2, <2>2 DEF TypeOK, SetPaymentStatus
<1>3. CASE id \notin DOMAIN payments
  BY <1>3 DEF TypeOK, SetPaymentStatus
<1> QED BY <1>1, <1>2, <1>3

\* Every step keeps the types.
LEMMA TypeStep == TypeOK /\ [Next]_vars => TypeOK'
<1> SUFFICES ASSUME TypeOK, [Next]_vars PROVE TypeOK'
  OBVIOUS
<1>1. ASSUME NEW r \in Requests, BeginPost(r) PROVE TypeOK'
  <2>1. PICK in \in Inputs : Acceptable(in) /\ Begin(r, "post", r, NewPayment(in))
    BY <1>1 DEF BeginPost
  <2>2. NewPayment(in) \in Payment
    BY <2>1, NewPaymentType
  <2>3. /\ DOMAIN txn' \subseteq Actors
        /\ txn' = [y \in DOMAIN txn' |-> txn'[y]]
        /\ \A y \in DOMAIN txn' : IsTxn(txn'[y])
    BY <2>1, <2>2, BeginType DEF Actors
  <2> QED BY <1>1, <2>3 DEF BeginPost, TypeOK
<1>2. ASSUME NEW r \in Requests, RefuseRequest(r) PROVE TypeOK'
  BY <1>2 DEF RefuseRequest, TypeOK
<1>3. ASSUME NEW r \in Requests, CommitPost(r) PROVE TypeOK'
  <2>1. /\ r \in DOMAIN txn /\ Unlocked(txn[r]) = {} /\ WritesAccepted(txn[r])
        /\ WriteBooks(txn[r]) /\ End(r)
    BY <1>3 DEF CommitPost, HasAllLocks, PostAccepted
  <2>2. txn[r].pay \in Payment
    BY <2>1 DEF TypeOK, IsTxn
  <2>3. DOMAIN payments' \subseteq Requests /\ payments' \in [DOMAIN payments' -> Payment]
    BY <1>3, <2>2 DEF CommitPost, Put, TypeOK
  <2>4. events' \in [Requests -> Seq(EventTypes)]
    <3>1. PICK e \in EventTypes : WriteEvent(r, e)
      BY <1>3 DEF CommitPost, EventTypes
    <3> QED BY <3>1, EventType
  <2>5. accounts' \in [Accounts -> AccountRow] /\ ledger' \in [Accounts -> Seq(LedgerEntry)]
    BY <2>1, WriteBooksType
  <2>6. /\ DOMAIN txn' \subseteq Actors
        /\ txn' = [y \in DOMAIN txn' |-> txn'[y]]
        /\ \A y \in DOMAIN txn' : IsTxn(txn'[y])
    BY <2>1, EndType
  <2> QED BY <1>3, <2>3, <2>4, <2>5, <2>6 DEF CommitPost, TypeOK
<1>4. ASSUME NEW x, End(x), UNCHANGED <<accounts, payments, ledger, events, served>>
      PROVE TypeOK'
  <2>1. /\ DOMAIN txn' \subseteq Actors
        /\ txn' = [y \in DOMAIN txn' |-> txn'[y]]
        /\ \A y \in DOMAIN txn' : IsTxn(txn'[y])
    BY <1>4, EndType
  <2> QED BY <1>4, <2>1 DEF TypeOK
<1>5. ASSUME NEW r \in Requests, RefusePost(r) PROVE TypeOK'
  BY <1>4, <1>5 DEF RefusePost
<1>6. ASSUME NEW w \in Processors, NEW op \in {"complete", "reverse"}, BeginVerdict(w, op)
      PROVE TypeOK'
  <2>1. PICK r \in DOMAIN payments : Begin(w, op, r, payments[r])
    BY <1>6 DEF BeginVerdict
  <2>2. r \in Requests /\ payments[r] \in Payment
    BY DEF TypeOK
  <2>3. /\ DOMAIN txn' \subseteq Actors
        /\ txn' = [y \in DOMAIN txn' |-> txn'[y]]
        /\ \A y \in DOMAIN txn' : IsTxn(txn'[y])
    BY <2>1, <2>2, BeginType DEF Actors
  <2> QED BY <1>6, <2>3 DEF BeginVerdict, TypeOK
<1>7. ASSUME NEW w \in Processors, CommitCompletion(w) PROVE TypeOK'
  <2>1. /\ w \in DOMAIN txn /\ End(w) /\ SetPaymentStatus(txn[w].id, "completed")
        /\ WriteEvent(txn[w].id, "completed")
    BY <1>7 DEF CommitCompletion, HasAllLocks
  <2>2. txn[w].id \in Requests
    BY <2>1 DEF TypeOK, IsTxn
  <2>3. DOMAIN payments' = DOMAIN payments /\ payments' \in [DOMAIN payments -> Payment]
    BY <2>1, StatusType DEF PaymentStatuses
  <2>4. events' \in [Requests -> Seq(EventTypes)]
    BY <2>1, <2>2, EventType DEF EventTypes
  <2>5. /\ DOMAIN txn' \subseteq Actors
        /\ txn' = [y \in DOMAIN txn' |-> txn'[y]]
        /\ \A y \in DOMAIN txn' : IsTxn(txn'[y])
    BY <2>1, EndType
  <2> QED BY <1>7, <2>3, <2>4, <2>5 DEF CommitCompletion, TypeOK
<1>8. ASSUME NEW w \in Processors, RefuseCompletion(w) PROVE TypeOK'
  BY <1>4, <1>8 DEF RefuseCompletion
<1>9. ASSUME NEW w \in Processors, CommitReversal(w) PROVE TypeOK'
  <2>1. /\ w \in DOMAIN txn /\ Unlocked(txn[w]) = {} /\ WritesAccepted(txn[w])
        /\ WriteBooks(txn[w]) /\ End(w) /\ SetPaymentStatus(txn[w].id, "failed")
        /\ WriteEvent(txn[w].id, "failed")
    BY <1>9 DEF CommitReversal, HasAllLocks, ReversalAccepted
  <2>2. txn[w].id \in Requests
    BY <2>1 DEF TypeOK, IsTxn
  <2>3. DOMAIN payments' = DOMAIN payments /\ payments' \in [DOMAIN payments -> Payment]
    BY <2>1, StatusType DEF PaymentStatuses
  <2>4. events' \in [Requests -> Seq(EventTypes)]
    BY <2>1, <2>2, EventType DEF EventTypes
  <2>5. accounts' \in [Accounts -> AccountRow] /\ ledger' \in [Accounts -> Seq(LedgerEntry)]
    BY <2>1, WriteBooksType
  <2>6. /\ DOMAIN txn' \subseteq Actors
        /\ txn' = [y \in DOMAIN txn' |-> txn'[y]]
        /\ \A y \in DOMAIN txn' : IsTxn(txn'[y])
    BY <2>1, EndType
  <2> QED BY <1>9, <2>3, <2>4, <2>5, <2>6 DEF CommitReversal, TypeOK
<1>10. ASSUME NEW w \in Processors, RefuseReversal(w) PROVE TypeOK'
  BY <1>4, <1>10 DEF RefuseReversal
<1>11. ASSUME NEW x \in Actors, LockAccount(x) PROVE TypeOK'
  <2>1. PICK a \in Accounts :
           txn' = [txn EXCEPT ![x].locked = Put(@, a, accounts[a])]
    BY <1>11 DEF LockAccount
  <2>2. x \in DOMAIN txn /\ IsTxn(txn[x]) /\ accounts[a] \in AccountRow
    BY <1>11 DEF LockAccount, TypeOK
  <2> DEFINE lk  == Put(txn[x].locked, a, accounts[a])
             new == [txn[x] EXCEPT !.locked = lk]
  <2>3. DOMAIN lk \subseteq Accounts /\ lk \in [DOMAIN lk -> AccountRow]
    BY <2>2 DEF Put, IsTxn
  <2>4. IsTxn(new)
    <3> HIDE DEF lk
    <3> QED BY <2>2, <2>3 DEF IsTxn
  <2>5. txn' = [txn EXCEPT ![x] = new]
    BY <2>1
  <2>6. DOMAIN txn' = DOMAIN txn /\ \A y \in DOMAIN txn : txn'[y] = IF y = x THEN new ELSE txn[y]
    <3> HIDE DEF new
    <3> QED BY <2>5 DEF TypeOK
  <2>7. \A y \in DOMAIN txn' : IsTxn(txn'[y])
    <3> HIDE DEF new
    <3> QED BY <2>4, <2>6 DEF TypeOK
  <2>8. txn' = [y \in DOMAIN txn' |-> txn'[y]]
    <3> HIDE DEF new
    <3> QED BY <2>5, <2>6 DEF TypeOK
  <2> QED BY <1>11, <2>6, <2>7, <2>8 DEF LockAccount, TypeOK
<1>12. ASSUME NEW x \in Actors, DBFailure(x) PROVE TypeOK'
  BY <1>4, <1>12 DEF DBFailure
<1>13. ASSUME NEW a \in ManagedAccounts, NEW s \in ManagedStatuses, SetAccountStatus(a, s)
       PROVE TypeOK'
  <2>1. a \in Accounts /\ s \in AccountStatuses
    BY ManagedAssumption DEF Accounts
  <2>2. [accounts[a] EXCEPT !.status = s] \in AccountRow
    BY <2>1 DEF TypeOK, AccountRow
  <2>3. accounts' \in [Accounts -> AccountRow]
    BY <1>13, <2>1, <2>2 DEF SetAccountStatus, TypeOK
  <2> QED BY <1>13, <2>3 DEF SetAccountStatus, TypeOK
<1>14. CASE UNCHANGED vars
  BY <1>14 DEF vars, TypeOK
<1> QED
  BY <1>1, <1>2, <1>3, <1>5, <1>6, <1>7, <1>8, <1>9, <1>10, <1>11, <1>12, <1>13, <1>14
     DEF Next, RequestStep, VerdictStep, BeginCompletion, BeginReversal

\* In every reachable state the variables have their types; in particular no
\* interleaving of payments, payouts, reversals and failures makes a balance
\* negative.
THEOREM TypeCorrect == Spec => []TypeOK
BY InitType, TypeStep, PTL DEF Spec
-----------------------------------------------------------------------------
(***************************************************************************)
(* Row locks.                                                              *)
(***************************************************************************)
\* Ending a transaction, with or without writes to the accounts it holds,
\* leaves the locked rows of the others as they were.
LEMMA EndKeepsLocks ==
    ASSUME TypeOK, LockedRowsAreCurrent, NEW x \in DOMAIN txn, End(x),
           \A a \in Accounts \ DOMAIN txn[x].locked : accounts'[a] = accounts[a]
    PROVE  LockedRowsAreCurrent'
<1>1. DOMAIN txn' = DOMAIN txn \ {x} /\ \A y \in DOMAIN txn' : txn'[y] = txn[y]
  BY EndType
<1>2. ASSUME NEW y \in DOMAIN txn', NEW a \in DOMAIN txn'[y].locked
      PROVE  /\ txn'[y].locked[a] = accounts'[a]
             /\ \A z \in DOMAIN txn' : a \in DOMAIN txn'[z].locked => y = z
  <2>1. y \in DOMAIN txn /\ y # x /\ a \in DOMAIN txn[y].locked /\ txn'[y] = txn[y]
    BY <1>1, <1>2
  <2>2. a \in Accounts
    BY <2>1 DEF TypeOK, IsTxn
  <2>3. a \notin DOMAIN txn[x].locked
    BY <2>1 DEF LockedRowsAreCurrent
  <2>4. txn[y].locked[a] = accounts[a]
    BY <2>1 DEF LockedRowsAreCurrent
  <2>5. \A z \in DOMAIN txn : a \in DOMAIN txn[z].locked => y = z
    BY <2>1 DEF LockedRowsAreCurrent
  <2> QED BY <1>1, <2>1, <2>2, <2>3, <2>4, <2>5
<1> QED BY <1>2 DEF LockedRowsAreCurrent

\* A new transaction holds no lock.
LEMMA BeginKeepsLocks ==
    ASSUME TypeOK, LockedRowsAreCurrent, NEW x, NEW op, NEW id, NEW p,
           x \notin DOMAIN txn, Begin(x, op, id, p), accounts' = accounts
    PROVE  LockedRowsAreCurrent'
<1> DEFINE new == [op |-> op, id |-> id, pay |-> p, locked |-> EmptyMap]
<1>1. /\ DOMAIN txn' = DOMAIN txn \cup {x}
      /\ \A y \in DOMAIN txn' : txn'[y] = IF y = x THEN new ELSE txn[y]
  BY DEF Begin, Put
<1>2. DOMAIN txn'[x].locked = {}
  BY <1>1 DEF EmptyMap
<1>3. \A y \in DOMAIN txn' : y # x => y \in DOMAIN txn /\ txn'[y] = txn[y]
  <2> HIDE DEF new
  <2> QED BY <1>1
<1> QED BY <1>2, <1>3 DEF LockedRowsAreCurrent

\* Commits write only what they have locked.
LEMMA WriteBooksFrame ==
    ASSUME TypeOK, NEW x \in DOMAIN txn, Unlocked(txn[x]) = {}, WriteBooks(txn[x])
    PROVE  \A a \in Accounts \ DOMAIN txn[x].locked :
               accounts'[a] = accounts[a] /\ ledger'[a] = ledger[a]
<1>1. Footprint(txn[x]) \subseteq DOMAIN txn[x].locked
  BY DEF Unlocked
<1> QED BY <1>1 DEF WriteBooks

\* A goroutine begins its transaction when it has none: a request runs once.
PostsAreServed == \A x \in DOMAIN txn \cap Requests : x \in served

\* Initially there is no transaction.
LEMMA ServedInit == Init => PostsAreServed
BY DEF Init, PostsAreServed, EmptyMap

\* A request is served from the moment its transaction begins.
LEMMA ServedStep == TypeOK /\ PostsAreServed /\ [Next]_vars => PostsAreServed'
<1> SUFFICES ASSUME TypeOK, PostsAreServed, [Next]_vars PROVE PostsAreServed'
  OBVIOUS
<1>1. ASSUME NEW x, End(x), UNCHANGED served PROVE PostsAreServed'
  BY <1>1, EndType DEF PostsAreServed
<1>2. ASSUME NEW r \in Requests, BeginPost(r) PROVE PostsAreServed'
  <2>1. DOMAIN txn' = DOMAIN txn \cup {r} /\ served' = served \cup {r}
    BY <1>2 DEF BeginPost, Begin, Put
  <2> QED BY <2>1 DEF PostsAreServed
<1>3. ASSUME NEW w \in Processors, NEW op, BeginVerdict(w, op) PROVE PostsAreServed'
  <2>1. DOMAIN txn' = DOMAIN txn \cup {w} /\ served' = served
    BY <1>3 DEF BeginVerdict, Begin, Put
  <2> QED BY <2>1, ProcessorAssumption DEF PostsAreServed
<1>4. ASSUME NEW x \in Actors, LockAccount(x) PROVE PostsAreServed'
  BY <1>4 DEF LockAccount, PostsAreServed
<1>5. ASSUME NEW r \in Requests, RequestStep(r) PROVE PostsAreServed'
  BY <1>1, <1>2, <1>5 DEF RequestStep, RefuseRequest, CommitPost, RefusePost, PostsAreServed
<1>6. ASSUME NEW w \in Processors, VerdictStep(w) PROVE PostsAreServed'
  BY <1>1, <1>3, <1>6 DEF VerdictStep, BeginCompletion, BeginReversal, CommitCompletion,
     RefuseCompletion, CommitReversal, RefuseReversal
<1> QED
  BY <1>1, <1>4, <1>5, <1>6 DEF Next, DBFailure, SetAccountStatus, PostsAreServed, vars

\* No step changes a row under a lock that another transaction holds.
LEMMA LockStep ==
    TypeOK /\ PostsAreServed /\ LockedRowsAreCurrent /\ [Next]_vars => LockedRowsAreCurrent'
<1> SUFFICES ASSUME TypeOK, PostsAreServed, LockedRowsAreCurrent, [Next]_vars
             PROVE  LockedRowsAreCurrent'
  OBVIOUS
<1>1. ASSUME NEW x \in DOMAIN txn, End(x), UNCHANGED accounts PROVE LockedRowsAreCurrent'
  BY <1>1, EndKeepsLocks
<1>2. ASSUME NEW x \in DOMAIN txn, Unlocked(txn[x]) = {}, WriteBooks(txn[x]), End(x)
      PROVE LockedRowsAreCurrent'
  BY <1>2, EndKeepsLocks, WriteBooksFrame
<1>3. ASSUME NEW r \in Requests, RequestStep(r) PROVE LockedRowsAreCurrent'
  <2>1. CASE BeginPost(r)
    <3>1. PICK in \in Inputs : Begin(r, "post", r, NewPayment(in))
      BY <2>1 DEF BeginPost
    <3>2. r \notin DOMAIN txn /\ accounts' = accounts
      BY <2>1 DEF BeginPost, PostsAreServed
    <3> QED BY <3>1, <3>2, BeginKeepsLocks
  <2>2. CASE RefuseRequest(r)
    BY <2>2 DEF RefuseRequest, LockedRowsAreCurrent
  <2>3. CASE CommitPost(r)
    BY <1>2, <2>3 DEF CommitPost, HasAllLocks
  <2>4. CASE RefusePost(r)
    BY <1>1, <2>4 DEF RefusePost, HasAllLocks
  <2> QED BY <1>3, <2>1, <2>2, <2>3, <2>4 DEF RequestStep
<1>4. ASSUME NEW w \in Processors, VerdictStep(w) PROVE LockedRowsAreCurrent'
  <2>1. ASSUME NEW op, BeginVerdict(w, op) PROVE LockedRowsAreCurrent'
    <3>1. PICK r \in DOMAIN payments : Begin(w, op, r, payments[r])
      BY <2>1 DEF BeginVerdict
    <3> QED BY <2>1, <3>1, BeginKeepsLocks DEF BeginVerdict
  <2>2. CASE CommitReversal(w)
    BY <1>2, <2>2 DEF CommitReversal, HasAllLocks
  <2>3. CASE CommitCompletion(w) \/ RefuseCompletion(w) \/ RefuseReversal(w)
    BY <1>1, <2>3 DEF CommitCompletion, RefuseCompletion, RefuseReversal, HasAllLocks
  <2> QED BY <1>4, <2>1, <2>2, <2>3 DEF VerdictStep, BeginCompletion, BeginReversal
<1>5. ASSUME NEW x \in Actors, LockAccount(x) PROVE LockedRowsAreCurrent'
  <2>1. PICK a \in Accounts :
           CanLock(a) /\ txn' = [txn EXCEPT ![x].locked = Put(@, a, accounts[a])]
    BY <1>5 DEF LockAccount
  <2>2. x \in DOMAIN txn /\ accounts' = accounts
    BY <1>5 DEF LockAccount
  <2> DEFINE lk == Put(txn[x].locked, a, accounts[a])
  <2>3. DOMAIN lk = DOMAIN txn[x].locked \cup {a}
    BY DEF Put
  <2>4. \A b \in DOMAIN lk : lk[b] = IF b = a THEN accounts[a] ELSE txn[x].locked[b]
    BY DEF Put
  <2>5. DOMAIN txn' = DOMAIN txn /\ txn'[x].locked = lk
    BY <2>1, <2>2 DEF TypeOK, IsTxn
  <2>6. \A y \in DOMAIN txn : y # x => txn'[y] = txn[y]
    BY <2>1
  <2>7. \A y \in DOMAIN txn : a \notin DOMAIN txn[y].locked
    BY <2>1 DEF CanLock, IsLocked
  <2>8. ASSUME NEW y \in DOMAIN txn', NEW b \in DOMAIN txn'[y].locked
        PROVE  /\ txn'[y].locked[b] = accounts'[b]
               /\ \A z \in DOMAIN txn' : b \in DOMAIN txn'[z].locked => y = z
    <3> HIDE DEF lk
    <3> QED BY <2>2, <2>3, <2>4, <2>5, <2>6, <2>7, <2>8 DEF LockedRowsAreCurrent
  <2> QED BY <2>8 DEF LockedRowsAreCurrent
<1>6. ASSUME NEW x \in Actors, DBFailure(x) PROVE LockedRowsAreCurrent'
  BY <1>1, <1>6 DEF DBFailure
<1>7. ASSUME NEW a \in ManagedAccounts, NEW s \in ManagedStatuses, SetAccountStatus(a, s)
      PROVE LockedRowsAreCurrent'
  <2>1. \A y \in DOMAIN txn : a \notin DOMAIN txn[y].locked
    BY <1>7 DEF SetAccountStatus, CanLock, IsLocked
  <2>2. txn' = txn /\ \A b \in Accounts : b # a => accounts'[b] = accounts[b]
    BY <1>7 DEF SetAccountStatus, TypeOK
  <2>3. \A y \in DOMAIN txn : DOMAIN txn[y].locked \subseteq Accounts
    BY DEF TypeOK, IsTxn
  <2> QED BY <2>1, <2>2, <2>3 DEF LockedRowsAreCurrent
<1>8. CASE UNCHANGED vars
  BY <1>8 DEF vars, LockedRowsAreCurrent
<1> QED BY <1>3, <1>4, <1>5, <1>6, <1>7, <1>8 DEF Next

\* At most one transaction holds a row, and what it read under the lock is
\* still there when it writes: no update is lost, and the optimistic version
\* check never rejects anything.
THEOREM LocksHold == Spec => []LockedRowsAreCurrent
<1>1. Init => LockedRowsAreCurrent
  BY DEF Init, LockedRowsAreCurrent, EmptyMap
<1> QED
  BY <1>1, InitType, TypeStep, ServedInit, ServedStep, LockStep, PTL DEF Spec
-----------------------------------------------------------------------------
(***************************************************************************)
(* What follows from the locks: the ledger explains the balances, frozen   *)
(* accounts do not pay, and no transactions wait for one another in a      *)
(* circle.                                                                 *)
(***************************************************************************)
\* What the commits rely on: types, one transaction per request, and rows
\* that are still those of the table.
Inv == TypeOK /\ PostsAreServed /\ LockedRowsAreCurrent

\* Initially the common invariant holds.
LEMMA InvInit == Init => Inv
<1>1. Init => LockedRowsAreCurrent
  BY DEF Init, LockedRowsAreCurrent, EmptyMap
<1> QED BY <1>1, InitType, ServedInit DEF Inv

\* Every step keeps the common invariant.
LEMMA InvStep == Inv /\ [Next]_vars => Inv'
BY TypeStep, ServedStep, LockStep DEF Inv
-----------------------------------------------------------------------------
(***************************************************************************)
(* The ledger.                                                             *)
(***************************************************************************)
\* One more entry, made from the present row, explains the next row.
LEMMA ExplainsAppend ==
    ASSUME NEW a \in Accounts, NEW es \in Seq(LedgerEntry), NEW e \in LedgerEntry,
           NEW row \in AccountRow, NEW next \in AccountRow, Explains(es, a, row),
           e.before = row.balance,
           e.after = (IF e.type = "debit" THEN e.before - e.amount ELSE e.before + e.amount),
           next.version = row.version + 1, next.balance = e.after
    PROVE  Explains(Append(es, e), a, next)
<1> DEFINE fs == Append(es, e)
<1>1. Len(es) \in Nat /\ Len(fs) = Len(es) + 1 /\ fs[Len(es) + 1] = e
  OBVIOUS
<1>2. \A i \in 1 .. Len(es) : fs[i] = es[i]
  OBVIOUS
<1>3. next.version = InitVersion[a] + Len(fs)
  BY <1>1, VersionAssumption DEF Explains
<1> HIDE DEF fs
<1>4. next.balance = BalanceBefore(a, fs, Len(fs) + 1)
  BY <1>1 DEF BalanceBefore
<1>5. \A i \in 1 .. Len(es) + 1 : BalanceBefore(a, fs, i) = BalanceBefore(a, es, i)
  BY <1>1, <1>2 DEF BalanceBefore
<1>6. ASSUME NEW i \in 1 .. Len(fs)
      PROVE /\ fs[i].before = BalanceBefore(a, fs, i)
            /\ fs[i].after = IF fs[i].type = "debit" THEN fs[i].before - fs[i].amount
                             ELSE fs[i].before + fs[i].amount
  <2>1. CASE i = Len(es) + 1
    <3>1. fs[i] = e
      BY <1>1, <2>1
    <3>2. row.balance = BalanceBefore(a, fs, i)
      BY <1>1, <1>5, <2>1 DEF Explains
    <3> QED BY <3>1, <3>2
  <2>2. CASE i \in 1 .. Len(es)
    BY <1>1, <1>2, <1>5, <2>2 DEF Explains
  <2> QED BY <1>1, <2>1, <2>2
<1> QED BY <1>3, <1>4, <1>6 DEF Explains, fs

\* A commit that writes the books keeps them explained: the rows it computed
\* from are current, and it writes a row and an entry for the same accounts.
LEMMA WriteBooksExplains ==
    ASSUME Inv, LedgerExplainsBalance, NEW x \in DOMAIN txn, Unlocked(txn[x]) = {},
           WritesAccepted(txn[x]), WriteBooks(txn[x])
    PROVE  LedgerExplainsBalance'
<1> DEFINE t == txn[x]
<1> SUFFICES ASSUME NEW a \in Accounts PROVE Explains(ledger'[a], a, accounts'[a])
  BY DEF LedgerExplainsBalance, Explains, BalanceBefore
<1>1. Explains(ledger[a], a, accounts[a])
  BY DEF LedgerExplainsBalance
<1>2. accounts[a] \in AccountRow /\ ledger[a] \in Seq(LedgerEntry)
  BY DEF Inv, TypeOK
<1>3. CASE a \notin Footprint(t)
  BY <1>1, <1>3 DEF WriteBooks
<1>4. CASE a \in Footprint(t)
  <2>1. /\ a \in DOMAIN t.locked
        /\ NewRow(t, a) \in AccountRow /\ NewEntry(t, a) \in LedgerEntry
    BY <1>4, WriteTypes DEF Inv
  <2>2. t.locked[a] = accounts[a]
    BY <2>1 DEF Inv, LockedRowsAreCurrent
  <2>3. accounts'[a] = NewRow(t, a) /\ ledger'[a] = Append(ledger[a], NewEntry(t, a))
    BY <1>4 DEF WriteBooks
  <2>4. /\ NewEntry(t, a).before = accounts[a].balance
        /\ NewEntry(t, a).after = NewBalance(t, a)
        /\ NewEntry(t, a).type = Entry(t, a).type
        /\ NewEntry(t, a).amount = Entry(t, a).amount
    BY <2>2 DEF NewEntry
  <2>5. NewRow(t, a).version = accounts[a].version + 1 /\ NewRow(t, a).balance = NewBalance(t, a)
    BY <2>2 DEF NewRow
  <2>6. NewBalance(t, a) = IF Entry(t, a).type = "debit"
                           THEN accounts[a].balance - Entry(t, a).amount
                           ELSE accounts[a].balance + Entry(t, a).amount
    BY <2>2 DEF NewBalance
  <2> HIDE DEF t
  <2>7. Explains(Append(ledger[a], NewEntry(t, a)), a, NewRow(t, a))
    BY <1>1, <1>2, <2>1, <2>4, <2>5, <2>6, ExplainsAppend
  <2> QED BY <2>3, <2>7
<1> QED BY <1>3, <1>4

\* Every step keeps the chain of each ledger unbroken.
LEMMA LedgerStep ==
    Inv /\ LedgerExplainsBalance /\ [Next]_vars => LedgerExplainsBalance'
<1> SUFFICES ASSUME Inv, LedgerExplainsBalance, [Next]_vars PROVE LedgerExplainsBalance'
  OBVIOUS
<1>1. ASSUME UNCHANGED <<accounts, ledger>> PROVE LedgerExplainsBalance'
  BY <1>1 DEF LedgerExplainsBalance, Explains, BalanceBefore
<1>2. ASSUME NEW r \in Requests, RequestStep(r) PROVE LedgerExplainsBalance'
  <2>1. CASE CommitPost(r)
    BY <2>1, WriteBooksExplains DEF CommitPost, HasAllLocks, PostAccepted
  <2>2. CASE BeginPost(r) \/ RefuseRequest(r) \/ RefusePost(r)
    BY <1>1, <2>2 DEF BeginPost, RefuseRequest, RefusePost
  <2> QED BY <1>2, <2>1, <2>2 DEF RequestStep
<1>3. ASSUME NEW w \in Processors, VerdictStep(w) PROVE LedgerExplainsBalance'
  <2>1. CASE CommitReversal(w)
    BY <2>1, WriteBooksExplains DEF CommitReversal, HasAllLocks, ReversalAccepted
  <2>2. CASE BeginCompletion(w) \/ BeginReversal(w)
    BY <1>1, <2>2 DEF BeginCompletion, BeginReversal, BeginVerdict
  <2>3. CASE CommitCompletion(w) \/ RefuseCompletion(w) \/ RefuseReversal(w)
    BY <1>1, <2>3 DEF CommitCompletion, RefuseCompletion, RefuseReversal
  <2> QED BY <1>3, <2>1, <2>2, <2>3 DEF VerdictStep
<1>4. ASSUME NEW x \in Actors, LockAccount(x) \/ DBFailure(x) PROVE LedgerExplainsBalance'
  BY <1>1, <1>4 DEF LockAccount, DBFailure
<1>5. ASSUME NEW a \in ManagedAccounts, NEW s \in ManagedStatuses, SetAccountStatus(a, s)
      PROVE LedgerExplainsBalance'
  <2>1. ASSUME NEW b \in Accounts
        PROVE /\ accounts'[b].version = accounts[b].version
              /\ accounts'[b].balance = accounts[b].balance
    BY <1>5 DEF SetAccountStatus, Inv, TypeOK, AccountRow
  <2>2. ledger' = ledger
    BY <1>5 DEF SetAccountStatus
  <2> QED BY <2>1, <2>2 DEF LedgerExplainsBalance, Explains, BalanceBefore
<1>6. CASE UNCHANGED vars
  BY <1>1, <1>6 DEF vars
<1> QED BY <1>2, <1>3, <1>4, <1>5, <1>6 DEF Next

\* The ledger of every account leads from its seeded balance to its present
\* one, entry by entry, with one entry per version.
THEOREM LedgerExplains == Spec => []LedgerExplainsBalance
<1>1. Init => LedgerExplainsBalance
  <2> SUFFICES ASSUME Init, NEW a \in Accounts PROVE Explains(ledger[a], a, accounts[a])
    BY DEF LedgerExplainsBalance
  <2>1. ledger[a] = <<>> /\ Len(ledger[a]) = 0
    BY DEF Init
  <2>2. accounts[a].version = InitVersion[a] /\ accounts[a].balance = InitBalance[a]
    BY DEF Init
  <2> QED BY <2>1, <2>2, VersionAssumption DEF Explains, BalanceBefore
<1> QED BY <1>1, InvInit, InvStep, LedgerStep, PTL DEF Spec
-----------------------------------------------------------------------------
(***************************************************************************)
(* Frozen and closed accounts.                                             *)
(***************************************************************************)
\* A payment is committed only while the accounts the code checks are active:
\* what verifyAccountActive saw under the lock is still so at the commit.
LEMMA PayersActiveStep ==
    ASSUME Inv, [Next]_vars, NEW q \in Requests,
           q \notin DOMAIN payments, q \in DOMAIN payments'
    PROVE  PayersActive(payments'[q])
<1>1. ASSUME NEW r \in Requests, CommitPost(r) PROVE PayersActive(payments'[q])
  <2> DEFINE t == txn[r]
  <2>1. r \in DOMAIN txn /\ t.op = "post" /\ Unlocked(t) = {} /\ VerifiedActive(t)
    BY <1>1 DEF CommitPost, HasAllLocks, PostAccepted
  <2>2. q = r /\ payments'[q] = t.pay
    BY <1>1 DEF CommitPost, Put
  <2>3. t.pay.src \in DOMAIN t.locked /\ t.pay.dst \in DOMAIN t.locked
    <3>1. Footprint(t) = PostFootprint(t.pay)
      BY <2>1 DEF Footprint
    <3> QED BY <2>1, <3>1 DEF Unlocked, PostFootprint
  <2>4. \A a \in DOMAIN t.locked : t.locked[a] = accounts[a]
    BY <2>1 DEF Inv, LockedRowsAreCurrent
  <2> HIDE DEF t
  <2> QED BY <2>1, <2>2, <2>3, <2>4 DEF VerifiedActive, PayersActive
<1>2. ASSUME NEW w \in Processors, VerdictStep(w) PROVE DOMAIN payments' = DOMAIN payments
  BY <1>2 DEF VerdictStep, BeginCompletion, BeginReversal, BeginVerdict, CommitCompletion,
     RefuseCompletion, CommitReversal, RefuseReversal, SetPaymentStatus
<1>3. ASSUME NEW r \in Requests, BeginPost(r) \/ RefuseRequest(r) \/ RefusePost(r)
      PROVE payments' = payments
  BY <1>3 DEF BeginPost, RefuseRequest, RefusePost
<1> QED BY <1>1, <1>2, <1>3 DEF Next, RequestStep, LockAccount, DBFailure, SetAccountStatus, vars

\* No payment is ever created from, or to, an account that is not active at
\* that moment, whenever it was frozen or closed.
THEOREM OnlyActivePay == Spec => InactiveAccountsDoNotPay
<1>1. Inv /\ [Next]_vars =>
        [\A r \in Requests : r \notin DOMAIN payments /\ r \in DOMAIN payments'
                                => PayersActive(payments'[r])]_vars
  BY PayersActiveStep
<1> QED BY <1>1, InvInit, InvStep, PTL DEF Spec, InactiveAccountsDoNotPay
-----------------------------------------------------------------------------
(***************************************************************************)
(* Deadlock.  The inductive part: a transaction holds only locks of lower  *)
(* rank than those it still needs.                                         *)
(***************************************************************************)
OrderedLocks ==
    \A x \in DOMAIN txn : \A a \in DOMAIN txn[x].locked : \A b \in Unlocked(txn[x]) :
        LockRank[a] < LockRank[b]

\* Initially no locks are held.
LEMMA OrderInit == Init => OrderedLocks
BY DEF Init, OrderedLocks, EmptyMap

\* Locks are taken in increasing order of rank.
LEMMA OrderStep == Inv /\ OrderedLocks /\ [Next]_vars => OrderedLocks'
<1> SUFFICES ASSUME Inv, OrderedLocks, [Next]_vars PROVE OrderedLocks'
  OBVIOUS
<1>1. TypeOK
  BY DEF Inv
<1>2. ASSUME NEW x, End(x) PROVE OrderedLocks'
  <2>1. DOMAIN txn' = DOMAIN txn \ {x} /\ \A y \in DOMAIN txn' : txn'[y] = txn[y]
    BY <1>1, <1>2, EndType
  <2>2. \A y \in DOMAIN txn' : Unlocked(txn'[y]) = Unlocked(txn[y])
    BY <2>1
  <2> QED BY <2>1, <2>2 DEF OrderedLocks, Unlocked, Footprint
<1>3. ASSUME NEW x, NEW op, NEW id, NEW p, Begin(x, op, id, p) PROVE OrderedLocks'
  <2> DEFINE new == [op |-> op, id |-> id, pay |-> p, locked |-> EmptyMap]
  <2>1. /\ DOMAIN txn' = DOMAIN txn \cup {x}
        /\ \A y \in DOMAIN txn' : txn'[y] = IF y = x THEN new ELSE txn[y]
    BY <1>3 DEF Begin, Put
  <2>2. DOMAIN txn'[x].locked = {}
    BY <2>1 DEF EmptyMap
  <2>3. \A y \in DOMAIN txn' : y # x => y \in DOMAIN txn /\ txn'[y] = txn[y]
    <3> HIDE DEF new
    <3> QED BY <2>1
  <2>4. \A y \in DOMAIN txn' : y # x => Unlocked(txn'[y]) = Unlocked(txn[y])
    BY <2>3
  <2> QED BY <2>2, <2>3, <2>4 DEF OrderedLocks, Unlocked, Footprint
<1>4. ASSUME NEW x \in Actors, LockAccount(x) PROVE OrderedLocks'
  <2>1. PICK a \in Accounts :
           /\ IsNextLock(txn[x], a)
           /\ txn' = [txn EXCEPT ![x].locked = Put(@, a, accounts[a])]
    BY <1>4 DEF LockAccount
  <2>2. x \in DOMAIN txn /\ IsTxn(txn[x])
    BY <1>1, <1>4 DEF LockAccount, TypeOK
  <2> DEFINE lk == Put(txn[x].locked, a, accounts[a])
  <2>3. DOMAIN lk = DOMAIN txn[x].locked \cup {a}
    BY DEF Put
  <2>4. /\ DOMAIN txn' = DOMAIN txn
        /\ txn'[x].locked = lk /\ txn'[x].op = txn[x].op /\ txn'[x].pay = txn[x].pay
    BY <2>1, <2>2 DEF IsTxn
  <2>5. \A y \in DOMAIN txn : y # x => txn'[y] = txn[y]
    BY <2>1
  <2>6. Footprint(txn'[x]) = Footprint(txn[x])
    BY <2>4, Zenon DEF Footprint
  <2>7. Unlocked(txn'[x]) = Unlocked(txn[x]) \ {a}
    <3> HIDE DEF lk
    <3> QED BY <2>3, <2>4, <2>6 DEF Unlocked
  <2>8. Footprint(txn[x]) \subseteq Accounts
    BY <2>2, FootprintType
  <2>9. \A b \in Unlocked(txn[x]) \ {a} : LockRank[a] < LockRank[b]
    <3>1. \A b \in Unlocked(txn[x]) : b \in Accounts /\ LockRank[a] <= LockRank[b]
      BY <2>1, <2>8 DEF IsNextLock, Unlocked
    <3>2. \A b \in Accounts : LockRank[b] \in Int /\ (LockRank[a] = LockRank[b] => a = b)
      BY RankAssumption
    <3> QED BY <3>1, <3>2
  <2>10. a \in Unlocked(txn[x])
    BY <2>1 DEF IsNextLock
  <2>11. \A y \in DOMAIN txn' : y # x => Unlocked(txn'[y]) = Unlocked(txn[y])
    BY <2>4, <2>5
  <2>12. ASSUME NEW y \in DOMAIN txn', NEW c \in DOMAIN txn'[y].locked,
                NEW b \in Unlocked(txn'[y])
         PROVE  LockRank[c] < LockRank[b]
    <3> HIDE DEF lk
    <3>1. CASE y = x
      BY <2>2, <2>3, <2>4, <2>7, <2>9, <2>12, <3>1 DEF OrderedLocks
    <3>2. CASE y # x
      BY <2>4, <2>5, <2>11, <2>12, <3>2 DEF OrderedLocks
    <3> QED BY <3>1, <3>2
  <2> QED BY <2>12 DEF OrderedLocks, Unlocked, Footprint
<1>5. ASSUME UNCHANGED txn PROVE OrderedLocks'
  BY <1>5 DEF OrderedLocks, Unlocked, Footprint
<1>6. ASSUME NEW r \in Requests, RequestStep(r) PROVE OrderedLocks'
  BY <1>2, <1>3, <1>5, <1>6 DEF RequestStep, BeginPost, RefuseRequest, CommitPost, RefusePost
<1>7. ASSUME NEW w \in Processors, VerdictStep(w) PROVE OrderedLocks'
  BY <1>2, <1>3, <1>7 DEF VerdictStep, BeginCompletion, BeginReversal, BeginVerdict,
     CommitCompletion, RefuseCompletion, CommitReversal, RefuseReversal
<1> QED BY <1>2, <1>4, <1>5, <1>6, <1>7 DEF Next, DBFailure, SetAccountStatus, vars

\* A non-empty set of numbers up to n has a greatest element.
LEMMA GreatestRank ==
    ASSUME NEW n \in Nat, NEW R \in SUBSET (1 .. n), R # {}
    PROVE  \E m \in R : \A k \in R : k <= m
<1> DEFINE T == {n - k : k \in R}
<1>1. T \subseteq Nat /\ T # {}
  <2>1. \A k \in R : k \in Nat /\ k <= n
    OBVIOUS
  <2>2. \A k \in R : n - k \in Nat
    BY <2>1
  <2>3. \A k \in R : n - k \in T
    OBVIOUS
  <2>4. \A d \in T : \E k \in R : d = n - k
    OBVIOUS
  <2>5. T \subseteq Nat
    <3> HIDE DEF T
    <3> QED BY <2>2, <2>4
  <2>6. T # {}
    <3> HIDE DEF T
    <3> QED BY <2>3
  <2> QED BY <2>5, <2>6
<1>2. PICK d \in T : \A e \in T : ~(<<e, d>> \in OpToRel(<, Nat))
  BY <1>1, WFMin, NatLessThanWellFounded
<1>3. \A e \in T : ~(e < d)
  BY <1>1, <1>2 DEF OpToRel
<1>4. PICK m \in R : d = n - m
  OBVIOUS
<1>5. ASSUME NEW k \in R PROVE k <= m
  <2>1. n - k \in T
    OBVIOUS
  <2>2. ~(n - k < n - m)
    BY <1>3, <1>4, <2>1
  <2> QED BY <2>2
<1> QED BY <1>5

\* Among transactions that all wait, the one that waits for the row of the
\* greatest rank waits for nobody in the set: a holder of that row would have
\* to wait for a row of greater rank still.
LEMMA OrderPreventsDeadlock == TypeOK /\ OrderedLocks => NoDeadlock
<1> SUFFICES ASSUME TypeOK, OrderedLocks,
                    NEW S \in SUBSET DOMAIN txn, S # {},
                    \A x \in S : \E y \in S : WaitsFor(x, y)
             PROVE  FALSE
  BY DEF NoDeadlock
<1> DEFINE Awaited == {a \in Accounts : \E x \in S : IsNextLock(txn[x], a)}
           Ranks   == {LockRank[a] : a \in Awaited}
           n       == Cardinality(Accounts)
<1>1. n \in Nat
  BY RankAssumption, FS_CardinalityType
<1>2. \A y \in S : DOMAIN txn[y].locked \subseteq Accounts
  BY DEF TypeOK, IsTxn
<1>3. \A x \in S : \E y \in S, a \in Awaited :
         IsNextLock(txn[x], a) /\ a \in DOMAIN txn[y].locked
  BY <1>2 DEF WaitsFor
<1>4. Ranks \in SUBSET (1 .. n) /\ Ranks # {}
  <2>1. \A a \in Accounts : LockRank[a] \in 1 .. n
    BY RankAssumption
  <2>2. Awaited # {}
    BY <1>3
  <2> HIDE DEF n
  <2> QED BY <2>1, <2>2
<1>5. PICK m \in Ranks : \A k \in Ranks : k <= m
  <2> HIDE DEF n, Ranks
  <2> QED BY <1>1, <1>4, GreatestRank
<1>6. PICK a \in Awaited : LockRank[a] = m
  OBVIOUS
<1>7. PICK x \in S : IsNextLock(txn[x], a)
  OBVIOUS
<1>8. PICK y \in S : a \in DOMAIN txn[y].locked
  <2>1. PICK y \in S, b \in Awaited : IsNextLock(txn[x], b) /\ b \in DOMAIN txn[y].locked
    BY <1>3
  <2>2. a = b
    <3>1. LockRank[a] <= LockRank[b] /\ LockRank[b] <= LockRank[a]
      BY <1>7, <2>1 DEF IsNextLock
    <3> QED BY <3>1, RankAssumption
  <2> QED BY <2>1, <2>2
<1>9. PICK b \in Awaited : IsNextLock(txn[y], b)
  BY <1>3
<1>10. LockRank[a] < LockRank[b]
  BY <1>8, <1>9 DEF OrderedLocks, IsNextLock
<1>11. LockRank[b] <= m
  BY <1>5
<1>12. LockRank[a] \in Int /\ LockRank[b] \in Int
  BY RankAssumption
<1> QED BY <1>6, <1>10, <1>11, <1>12

\* No transactions ever wait for one another in a circle.
THEOREM DeadlockFree == Spec => []NoDeadlock
BY InvInit, InvStep, OrderInit, OrderStep, OrderPreventsDeadlock, PTL DEF Spec, Inv
=============================================================================
