------------------------------ MODULE MCPayouts ------------------------------
(***************************************************************************)
(* Small instances of Payouts: one customer with a USD and a EUR wallet    *)
(* who pays out with and without conversion and converts between them.     *)
(***************************************************************************)
EXTENDS Payouts, TLC

FX == INSTANCE FXRates WITH Spread <- 5, SpreadScale <- 1000

MCConvert(amount, from, to) == FX!ConvertAmount(amount, from, to)

MCUsers      == {"alice"}
MCCurrencies == {"USD", "EUR"}
MCWallets    == {<<"alice", "USD">>, <<"alice", "EUR">>}
MCTxLimit    == [c \in MCCurrencies |-> 50]

Convert2(src, dst, amount, key) ==
    [type |-> "internal_transfer", sender |-> "alice", recipient |-> "alice",
     srcCur |-> src, dstCur |-> dst, amount |-> amount, key |-> key, bank |-> FALSE]

PayoutOf(src, dst, amount, key) ==
    [type |-> "external_payout", sender |-> "alice", recipient |-> "nobody",
     srcCur |-> src, dstCur |-> dst, amount |-> amount, key |-> key, bank |-> TRUE]

SeededBalance(pool) ==
    [a \in Accounts |-> CASE a.type = "user"     -> 30
                          [] a.type = "fx_pool"  -> pool
                          [] a.type = "outgoing" -> 0]

\* Pools that no sequence of the requests can empty, as seeded.
AmplePools == SeededBalance(60)

\* A USD pool that one conversion leaves short of an earlier payout.
ScarcePools == SeededBalance(12)

PlainInputs ==
    {PayoutOf("USD", "USD", 10, "k1"), PayoutOf("USD", "EUR", 10, "k2")}

\* A payout through the pools, the conversion that takes its money out of the
\* USD pool again, and a payout that has nothing to do with either.
DrainInputs ==
    {PayoutOf("USD", "EUR", 10, "k1"), Convert2("EUR", "USD", 12, "k2"),
     PayoutOf("EUR", "EUR", 10, "k3")}

MCSymmetry == Permutations(Requests) \cup Permutations(Processors)
=============================================================================
