------------------------------- MODULE FXRates -------------------------------
(***************************************************************************)
(* The in-process FX service (internal/fx/service.go) in exact integer     *)
(* arithmetic: shopspring decimals are exact, so a mid-market rate is an   *)
(* integer number of thousandths, the spread a fraction of integers, and   *)
(* an effective rate an integer number of parts of RateScale.              *)
(***************************************************************************)
EXTENDS Integers

\* FX_SPREAD_PCT is Spread / SpreadScale; the default 0.005 is 5 / 1000.
CONSTANTS Spread, SpreadScale

ASSUME SpreadAssumption == SpreadScale \in Nat \ {0} /\ Spread \in 0 .. SpreadScale

FXCurrencies == {"USD", "EUR", "GBP"}

\* NewRateService: mid-market rates, in thousandths.
MidMilli(from, to) ==
    CASE <<from, to>> = <<"USD", "EUR">> -> 920
      [] <<from, to>> = <<"EUR", "USD">> -> 1087
      [] <<from, to>> = <<"USD", "GBP">> -> 790
      [] <<from, to>> = <<"GBP", "USD">> -> 1266
      [] <<from, to>> = <<"EUR", "GBP">> -> 858
      [] <<from, to>> = <<"GBP", "EUR">> -> 1166

\* Faulty variant: the spread forgotten.
NoSpread(from, to) == MidMilli(from, to) * SpreadScale

\* What a rate of 1 is, in the units of EffectiveRate.
RateScale == 1000 * SpreadScale

\* GetRate: mid * (1 - spread).
EffectiveRate(from, to) == MidMilli(from, to) * (SpreadScale - Spread)

\* Faulty variant: IntPart() without Round(0).
TruncDiv(n, d) == n \div d

\* Round(0).IntPart() of n / d for n >= 0: half away from zero.
RoundDiv(n, d) == (2 * n + d) \div (2 * d)

\* Convert: the amount credited, at least one minor unit.
ConvertAmount(amount, from, to) ==
    IF from = to THEN amount
    ELSE LET raw == RoundDiv(amount * EffectiveRate(from, to), RateScale)
         IN  IF raw < 1 THEN 1 ELSE raw

\* Convert: the fee shown, never negative.
ConvertFee(amount, from, to) ==
    IF from = to THEN 0
    ELSE LET mid == RoundDiv(amount * MidMilli(from, to), 1000)
             fee == mid - ConvertAmount(amount, from, to)
         IN  IF fee < 0 THEN 0 ELSE fee
=============================================================================
