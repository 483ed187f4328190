----------------------------- MODULE MCPaymentTx -----------------------------
(***************************************************************************)
(* Small instances of PaymentTx: two customers, two currencies, the real   *)
(* conversion with the default spread of 0.5%.                             *)
(***************************************************************************)
EXTENDS PaymentTx, TLC

FX == INSTANCE FXRates WITH Spread <- 5, SpreadScale <- 1000

MCConvert(amount, from, to) == FX!ConvertAmount(amount, from, to)

MCUsers      == {"alice", "bob"}
MCCurrencies == {"USD", "EUR"}
MCWallets    == {<<"alice", "USD">>, <<"alice", "EUR">>,
                 <<"bob", "USD">>, <<"bob", "EUR">>}
MCTxLimit    == [c \in MCCurrencies |-> 50]

Transfer(from, to, src, dst, amount, key) ==
    [type |-> "internal_transfer", sender |-> from, recipient |-> to,
     srcCur |-> src, dstCur |-> dst, amount |-> amount, key |-> key, bank |-> FALSE]

Payout(from, src, dst, amount, key) ==
    [type |-> "external_payout", sender |-> from, recipient |-> "nobody",
     srcCur |-> src, dstCur |-> dst, amount |-> amount, key |-> key, bank |-> TRUE]

\* UUIDs are random: an order that puts neither the senders nor the system
\* accounts first.
MCLockRank ==
    LET order == <<Outgoing("USD"), UserAccount("bob", "USD"), FXPool("EUR"),
                   UserAccount("alice", "USD"), Outgoing("EUR"),
                   UserAccount("alice", "EUR"), FXPool("USD"),
                   UserAccount("bob", "EUR")>>
    IN  [a \in Accounts |-> CHOOSE i \in DOMAIN order : order[i] = a]

MCInitBalance ==
    [a \in Accounts |-> CASE a.type = "user"     -> 20
                          [] a.type = "fx_pool"  -> 12
                          [] a.type = "outgoing" -> 0]

\* Seeded rows start at version 0, accounts created over the API at 1.
MCInitVersion == [a \in Accounts |-> IF a = UserAccount("bob", "EUR") THEN 1 ELSE 0]

\* Opposing transfers, payouts with and without conversion, a conversion that
\* drains the pool a reversal needs, a repeated key, and requests the
\* validation turns down.
CoreInputs ==
    {Transfer("alice", "bob", "USD", "USD", 15, "k1"),
     Transfer("bob", "alice", "USD", "USD", 10, "k2"),
     Transfer("bob", "alice", "EUR", "USD", 12, "k3"),
     Payout("alice", "USD", "EUR", 10, "k1"),
     Payout("bob", "USD", "USD", 15, "k2"),
     Payout("bob", "EUR", "USD", 8, "k3"),
     Transfer("alice", "alice", "USD", "EUR", 5, "k2"),
     Transfer("bob", "bob", "USD", "USD", 5, "k3")}

\* Fewer requests for the temporal properties: opposing transfers, a payout
\* with conversion and the conversion that competes with its refund.
FlowInputs ==
    {Transfer("alice", "bob", "USD", "USD", 15, "k1"),
     Transfer("bob", "alice", "USD", "USD", 10, "k2"),
     Transfer("bob", "alice", "EUR", "USD", 12, "k3"),
     Payout("alice", "USD", "EUR", 10, "k1"),
     Transfer("bob", "bob", "USD", "USD", 5, "k3")}

BothSides  == {UserAccount("alice", "USD"), UserAccount("bob", "USD")}
FreezeOnly == {"active", "frozen"}

RequestSymmetry == Permutations(Requests) \cup Permutations(Processors)
=============================================================================
