----------------------------- MODULE MCFXRates -----------------------------
(***************************************************************************)
(* The conversions of FXRates at work: a customer with a wallet in every   *)
(* currency converts any part of what a wallet holds, as often and in      *)
(* whatever order he likes (cross-currency transfers to oneself are        *)
(* allowed, docs/ARCHITECTURE.md section 11).                              *)
(***************************************************************************)
EXTENDS FXRates

CONSTANTS
    MinPart,   \* the least amount that the customer converts at a time
    Starts     \* currencies and amounts to start from

ASSUME PartAssumption  == MinPart \in Nat \ {0}
ASSUME StartAssumption == Starts \subseteq FXCurrencies \X (Nat \ {0})

VARIABLES origin, start, wallet

vars == <<origin, start, wallet>>

FXInit ==
    /\ \E s \in Starts : origin = s[1] /\ start = s[2]
    /\ wallet = [c \in FXCurrencies |-> IF c = origin THEN start ELSE 0]

ConvertPart(from, to, part) ==
    /\ from # to
    /\ part >= MinPart
    /\ wallet' = [wallet EXCEPT ![from] = @ - part,
                                ![to] = @ + ConvertAmount(part, from, to)]
    /\ UNCHANGED <<origin, start>>

FXNext ==
    \E from, to \in FXCurrencies :
        \E part \in 1 .. wallet[from] : ConvertPart(from, to, part)

FXSpec == FXInit /\ [][FXNext]_vars

\* A customer who converts at least MinPart minor units at a time never gets
\* back more than he started with, however he splits his money and whatever he
\* leaves in the other wallets.  The spread is what pays for rounding in the
\* customer's favour, and for mid-market rates whose products exceed 1; it does
\* so from one whole unit (MinPart = 100) on.
NoConversionProfit == wallet[origin] <= start

\* What a conversion credits is the integer nearest to the exact product of
\* amount and effective rate, the greater one in a tie, and at least 1; the
\* fee shown makes up the difference to the mid-market value, unless rounding
\* was in the customer's favour.  This holds for amounts of any size.
ConversionIsNearest ==
    \A from \in {c \in FXCurrencies : wallet[c] > 0} :
    \A to \in FXCurrencies \ {from} :
        LET exact == wallet[from] * EffectiveRate(from, to)
            got   == ConvertAmount(wallet[from], from, to)
            mid   == wallet[from] * MidMilli(from, to)
            fee   == ConvertFee(wallet[from], from, to)
        IN  /\ got >= 1
            /\ 2 * exact < (2 * got + 1) * RateScale
            /\ got > 1 => (2 * got - 1) * RateScale <= 2 * exact
            /\ fee >= 0
            /\ fee > 0 => LET gross == got + fee
                          IN  /\ (2 * gross - 1) * 1000 <= 2 * mid
                              /\ 2 * mid < (2 * gross + 1) * 1000

\* Starts that leave room for a remainder, and one for two parts at once.
MCStarts == {<<"USD", 200>>, <<"EUR", 120>>, <<"GBP", 110>>}
=============================================================================
