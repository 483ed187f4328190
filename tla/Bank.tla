-------------------------------- MODULE Bank --------------------------------
(***************************************************************************)
(* What the payment system promises, without locks, transactions, rows or  *)
(* retries: a payment is one atomic move of money between accounts, a      *)
(* payout is later settled or refunded exactly once, and no balance is     *)
(* ever negative.  PaymentTx, the transactions of the code, is shown to    *)
(* implement it.                                                           *)
(***************************************************************************)
EXTENDS GreyDomain

VARIABLES
    balance,   \* account |-> amount
    payments   \* partial: request |-> payment row

bankVars == <<balance, payments>>

BankTypeOK ==
    /\ balance \in [Accounts -> Nat]
    /\ DOMAIN payments \subseteq Requests
    /\ payments \in [DOMAIN payments -> Payment]

-----------------------------------------------------------------------------
BankInit ==
    /\ balance = InitBalance
    /\ payments = EmptyMap

\* A request becomes a payment, with its money moved.
Post(r) ==
    /\ r \notin DOMAIN payments
    /\ \E in \in Inputs :
          LET p == NewPayment(in) IN
          /\ Acceptable(in)
          /\ KeyIsFree(payments, p)
          /\ payments' = Put(payments, r, p)
          /\ balance'  = Pay(balance, p)
    /\ balance' \in [Accounts -> Nat]

\* The provider paid out.
Settle(r) ==
    /\ r \in DOMAIN payments
    /\ payments[r].status = "pending"
    /\ payments' = [payments EXCEPT ![r].status = "completed"]
    /\ UNCHANGED balance

\* The provider refused; the customer gets the money back.
Refund(r) ==
    /\ r \in DOMAIN payments
    /\ payments[r].status = "pending"
    /\ payments' = [payments EXCEPT ![r].status = "failed"]
    /\ balance'  = Unpay(balance, payments[r])
    /\ balance' \in [Accounts -> Nat]

BankNext == \E r \in Requests : Post(r) \/ Settle(r) \/ Refund(r)

BankSpec == BankInit /\ [][BankNext]_bankVars
=============================================================================
