---------------------------- MODULE FXRates_proof ----------------------------
(***************************************************************************)
(* What the rounding of internal/fx/service.go guarantees for every amount *)
(* and for every spread that FX_SPREAD_PCT can name.  Two results: a       *)
(* conversion credits the nearest integer; and with a spread of at least   *)
(* the default 0.005 a customer who converts one whole unit or more at a   *)
(* time never makes a profit, however he splits his money.                 *)
(***************************************************************************)
EXTENDS MCFXRates, TLAPS

-----------------------------------------------------------------------------
(***************************************************************************)
(* The operators.                                                          *)
(***************************************************************************)
\* Multiplication by a natural number is monotone.
LEMMA Monotone ==
    ASSUME NEW k \in Nat, NEW i \in Nat, NEW j \in Nat, i <= j
    PROVE  k * i <= k * j
  OBVIOUS

\* Products of natural numbers are natural numbers.
LEMMA ProductNat ==
    ASSUME NEW i \in Nat, NEW j \in Nat
    PROVE  i * j \in Nat
  OBVIOUS

\* A positive factor can be cancelled.
LEMMA Cancel ==
    ASSUME NEW i \in Nat, NEW j \in Nat, NEW k \in Nat \ {0}, i * k <= j * k
    PROVE  i <= j
<1> SUFFICES ASSUME j + 1 <= i PROVE FALSE
  OBVIOUS
<1>1. k * (j + 1) <= k * i
  BY Monotone
<1>2. k * (j + 1) = j * k + k /\ k * i = i * k
  OBVIOUS
<1>3. j * k \in Nat /\ i * k \in Nat
  BY ProductNat
<1> QED
  BY <1>1, <1>2, <1>3

\* A rate of the table is a positive integer.
LEMMA MidType ==
    ASSUME NEW from \in FXCurrencies, NEW to \in FXCurrencies, from # to
    PROVE  MidMilli(from, to) \in Nat \ {0}
  BY DEF MidMilli, FXCurrencies

\* The scale of the effective rates is positive.
LEMMA ScaleType == RateScale \in Nat \ {0}
  BY SpreadAssumption DEF RateScale

\* With a spread between 0 and 1 the effective rate is not negative.
LEMMA EffectiveType ==
    ASSUME NEW from \in FXCurrencies, NEW to \in FXCurrencies, from # to
    PROVE  EffectiveRate(from, to) \in Nat
<1> DEFINE m == MidMilli(from, to)
           s == SpreadScale - Spread
<1>1. m \in Nat /\ s \in Nat
  BY MidType, SpreadAssumption
<1> HIDE DEF m, s
<1>2. m * s \in Nat
  BY <1>1, ProductNat
<1> QED
  BY <1>2 DEF EffectiveRate, m, s

\* Round(0) of a fraction is the integer nearest to it, the greater one in a
\* tie.
LEMMA RoundDivNearest ==
    ASSUME NEW n \in Nat, NEW d \in Nat \ {0}
    PROVE  /\ RoundDiv(n, d) \in Nat
           /\ (2 * RoundDiv(n, d) - 1) * d <= 2 * n
           /\ 2 * n < (2 * RoundDiv(n, d) + 1) * d
<1> DEFINE x == 2 * n + d
           y == 2 * d
           q == x \div y
<1>1. x \in Nat /\ y \in Nat /\ y > 0
  OBVIOUS
<1>2. q \in Nat /\ y * q <= x /\ x < y * (q + 1)
  <2> HIDE DEF x, y
  <2> QED
    BY <1>1
<1>3. RoundDiv(n, d) = q
  BY DEF RoundDiv
<1> HIDE DEF q
<1>4. y * q = 2 * (q * d) /\ y * (q + 1) = 2 * (q * d) + 2 * d
  BY <1>2
<1>5. (2 * q - 1) * d = 2 * (q * d) - d /\ (2 * q + 1) * d = 2 * (q * d) + d
  BY <1>2
<1>6. q * d \in Nat
  BY <1>2, ProductNat
<1>7. (2 * q - 1) * d <= 2 * n /\ 2 * n < (2 * q + 1) * d
  BY <1>2, <1>4, <1>5, <1>6
<1> QED
  BY <1>2, <1>3, <1>7

\* The products that Convert rounds.
LEMMA ProductType ==
    ASSUME NEW h \in Nat, NEW from \in FXCurrencies, NEW to \in FXCurrencies,
           from # to
    PROVE  /\ h * EffectiveRate(from, to) \in Nat
           /\ h * MidMilli(from, to) \in Nat
  BY EffectiveType, MidType, ProductNat

\* Convert credits the rounded product, or 1 when that is less than 1.
LEMMA ConvertNearest ==
    ASSUME NEW h \in Nat, NEW from \in FXCurrencies, NEW to \in FXCurrencies,
           from # to
    PROVE  /\ ConvertAmount(h, from, to) \in Nat \ {0}
           /\ 2 * (h * EffectiveRate(from, to))
                < (2 * ConvertAmount(h, from, to) + 1) * RateScale
           /\ ConvertAmount(h, from, to) > 1
                => (2 * ConvertAmount(h, from, to) - 1) * RateScale
                     <= 2 * (h * EffectiveRate(from, to))
<1> DEFINE x == h * EffectiveRate(from, to)
           d == RateScale
           r == RoundDiv(x, d)
           g == ConvertAmount(h, from, to)
<1>1. x \in Nat
  BY ProductType
<1>2. d \in Nat \ {0}
  BY ScaleType
<1>3. g = IF r < 1 THEN 1 ELSE r
  BY DEF ConvertAmount
<1> HIDE DEF x, d, g
<1>4. /\ r \in Nat
      /\ (2 * r - 1) * d <= 2 * x
      /\ 2 * x < (2 * r + 1) * d
  BY <1>1, <1>2, RoundDivNearest
<1> HIDE DEF r
<1>5. CASE r < 1
  <2>1. r = 0 /\ g = 1
    BY <1>3, <1>4, <1>5
  <2>2. 2 * x < d /\ (2 * g + 1) * d = 3 * d
    BY <1>2, <1>4, <2>1
  <2> QED
    BY <1>1, <1>2, <2>1, <2>2 DEF x, d, g
<1>6. CASE ~(r < 1)
  <2>1. g = r /\ g \in Nat \ {0}
    BY <1>3, <1>4, <1>6
  <2> QED
    BY <1>4, <2>1 DEF x, d, g
<1> QED
  BY <1>5, <1>6

-----------------------------------------------------------------------------
(***************************************************************************)
(* Every conversion is the nearest integer.                                *)
(***************************************************************************)
\* The customer's wallets hold natural numbers.
WalletType ==
    /\ origin \in FXCurrencies
    /\ start \in Nat \ {0}
    /\ wallet \in [FXCurrencies -> Nat]

\* Initially one wallet holds the amount to start from.
LEMMA WalletInit == FXInit => WalletType
<1> SUFFICES ASSUME FXInit PROVE WalletType
  OBVIOUS
<1>1. PICK s \in Starts : origin = s[1] /\ start = s[2]
  BY DEF FXInit
<1>2. origin \in FXCurrencies /\ start \in Nat \ {0}
  BY <1>1, StartAssumption
<1> QED
  BY <1>2 DEF FXInit, WalletType

\* A conversion takes a part from one wallet and credits another.
LEMMA ConvertEffect ==
    ASSUME WalletType, NEW from \in FXCurrencies, NEW to \in FXCurrencies,
           NEW part \in 1 .. wallet[from], ConvertPart(from, to, part)
    PROVE  /\ part \in Nat \ {0} /\ part <= wallet[from] /\ from # to
           /\ ConvertAmount(part, from, to) \in Nat
           /\ wallet' \in [FXCurrencies -> Nat]
           /\ wallet'[from] = wallet[from] - part
           /\ wallet'[to] = wallet[to] + ConvertAmount(part, from, to)
           /\ \A c \in FXCurrencies \ {from, to} : wallet'[c] = wallet[c]
           /\ origin' = origin /\ start' = start
<1> DEFINE g == ConvertAmount(part, from, to)
<1>1. wallet \in [FXCurrencies -> Nat]
  BY DEF WalletType
<1>2. part \in Nat \ {0} /\ part <= wallet[from]
  BY <1>1
<1>3. from # to /\ g \in Nat
  BY <1>2, ConvertNearest DEF ConvertPart
<1>4. wallet' = [wallet EXCEPT ![from] = @ - part, ![to] = @ + g]
  BY DEF ConvertPart
<1> HIDE DEF g
<1>5. /\ wallet' \in [FXCurrencies -> Nat]
      /\ wallet'[from] = wallet[from] - part
      /\ wallet'[to] = wallet[to] + g
      /\ \A c \in FXCurrencies \ {from, to} : wallet'[c] = wallet[c]
  BY <1>1, <1>2, <1>3, <1>4
<1> QED
  BY <1>2, <1>3, <1>5 DEF ConvertPart, g

\* No conversion overdraws a wallet.
LEMMA WalletStep == WalletType /\ [FXNext]_vars => WalletType'
<1> SUFFICES ASSUME WalletType, [FXNext]_vars PROVE WalletType'
  OBVIOUS
<1>1. CASE UNCHANGED vars
  BY <1>1 DEF WalletType, vars
<1>2. CASE FXNext
  <2>0. PICK from \in FXCurrencies, to \in FXCurrencies :
           \E part \in 1 .. wallet[from] : ConvertPart(from, to, part)
    BY <1>2 DEF FXNext
  <2>1. PICK part \in 1 .. wallet[from] : ConvertPart(from, to, part)
    BY <2>0
  <2> QED
    BY <2>1, ConvertEffect DEF WalletType
<1> QED
  BY <1>1, <1>2

\* The wallets always hold natural numbers.
LEMMA WalletAlways == FXSpec => []WalletType
  BY WalletInit, WalletStep, PTL DEF FXSpec

\* What converting the whole of a wallet would credit, and the fee shown.
LEMMA NearestInState == WalletType => ConversionIsNearest
<1> SUFFICES ASSUME WalletType,
                    NEW from \in {c \in FXCurrencies : wallet[c] > 0},
                    NEW to \in FXCurrencies \ {from}
             PROVE
        LET exact == wallet[from] * EffectiveRate(from, to)
            got   == ConvertAmount(wallet[from], from, to)
            mid   == wallet[from] * MidMilli(from, to)
            fee   == ConvertFee(wallet[from], from, to)
        IN  /\ got >= 1
            /\ 2 * exact < (2 * got + 1) * RateScale
            /\ got > 1 => (2 * got - 1) * RateScale <= 2 * exact
            /\ fee >= 0
            /\ fee > 0 => LET gross == got + fee
                          IN  /\ (2 * gross - 1) * 1000 <= 2 * mid
                              /\ 2 * mid < (2 * gross + 1) * 1000
  BY DEF ConversionIsNearest
<1> DEFINE h == wallet[from]
           x == h * EffectiveRate(from, to)
           m == h * MidMilli(from, to)
           g == ConvertAmount(h, from, to)
           f == ConvertFee(h, from, to)
           d == RateScale
           r == RoundDiv(m, 1000)
<1>0. h \in Nat /\ from \in FXCurrencies /\ to \in FXCurrencies /\ from # to
  BY DEF WalletType
<1>1. /\ g \in Nat \ {0}
      /\ 2 * x < (2 * g + 1) * d
      /\ g > 1 => (2 * g - 1) * d <= 2 * x
  BY <1>0, ConvertNearest
<1>2. m \in Nat
  BY <1>0, ProductType
<1>3. f = IF r - g < 0 THEN 0 ELSE r - g
  BY <1>0 DEF ConvertFee
<1> HIDE DEF h, x, m, g, f, d
<1>4. /\ r \in Nat
      /\ (2 * r - 1) * 1000 <= 2 * m
      /\ 2 * m < (2 * r + 1) * 1000
  BY <1>2, RoundDivNearest
<1> HIDE DEF r
<1>5. f >= 0 /\ (f > 0 => g + f = r)
  BY <1>1, <1>3, <1>4
<1>6. /\ f > 0 => /\ (2 * (g + f) - 1) * 1000 <= 2 * m
                  /\ 2 * m < (2 * (g + f) + 1) * 1000
      /\ g >= 1
  BY <1>1, <1>4, <1>5
<1> QED
  BY <1>1, <1>5, <1>6 DEF h, x, m, g, f, d

\* For every amount, every spread and every pair of currencies, Convert
\* credits the nearest integer to the exact product, at least 1, and shows the
\* fee that makes up the difference to the mid-market value.
THEOREM ConversionsAreNearest == FXSpec => []ConversionIsNearest
  BY WalletAlways, NearestInState, PTL

-----------------------------------------------------------------------------
(***************************************************************************)
(* Conversions of one whole unit or more make no profit.                   *)
(***************************************************************************)
\* One minor unit of each currency, in units in which no conversion at a
\* spread of 0.005 or more gains anything but rounding.
Worth(c) == CASE c = "USD" -> 1000
              [] c = "EUR" -> 1086
              [] c = "GBP" -> 1265

\* One dollar, euro or pound in minor units: from here on the spread pays for
\* rounding.
WholeUnit == 100

\* A spread of at least 0.005 leaves at most 995 thousandths of the product.
LEMMA SpreadTakes ==
    ASSUME 1000 * Spread >= 5 * SpreadScale,
           NEW h \in Nat, NEW from \in FXCurrencies,
           NEW to \in FXCurrencies, from # to
    PROVE  /\ ConvertAmount(h, from, to) \in Nat \ {0}
           /\ ConvertAmount(h, from, to) > 1
                => (2 * ConvertAmount(h, from, to) - 1) * 1000000
                     <= 2 * (995 * (h * MidMilli(from, to)))
<1> DEFINE g == ConvertAmount(h, from, to)
           k == h * MidMilli(from, to)
           s == SpreadScale - Spread
           S == SpreadScale
<1>1. S \in Nat \ {0} /\ s \in Nat /\ 1000 * s <= 995 * S
  BY SpreadAssumption
<1>2. k \in Nat
  BY ProductType
<1>3. h * EffectiveRate(from, to) = k * s
  <2> DEFINE m == MidMilli(from, to)
  <2>1. m \in Nat
    BY MidType
  <2> HIDE DEF m, s
  <2>2. h * (m * s) = (h * m) * s
    BY <1>1, <2>1
  <2> QED
    BY <2>2 DEF EffectiveRate, m, s
<1>4. /\ g \in Nat \ {0}
      /\ g > 1 => (2 * g - 1) * (1000 * S) <= 2 * (k * s)
  BY <1>3, ConvertNearest DEF RateScale
<1> HIDE DEF g, k, s, S
<1>5. ASSUME g > 1 PROVE (2 * g - 1) * 1000000 <= 2 * (995 * k)
  <2> DEFINE b == 2 * g - 1
             u == b * S
             v == k * S
  <2>1. b \in Nat /\ u \in Nat /\ v \in Nat
    BY <1>1, <1>2, <1>4, <1>5, ProductNat
  <2>2. k * (1000 * s) <= k * (995 * S)
    BY <1>1, <1>2, Monotone
  <2>3. k * (1000 * s) = 1000 * (k * s) /\ k * (995 * S) = 995 * v
    BY <1>1, <1>2
  <2>4. b * (1000 * S) = 1000 * u
    BY <1>1, <2>1
  <2>5. k * s \in Nat
    BY <1>1, <1>2, ProductNat
  <2>6. 1000 * u <= 2 * (k * s)
    BY <1>4, <1>5, <2>4
  <2>7. 1000000 * u <= 2 * (995 * v)
    <3> DEFINE z == k * s
    <3>1. 1000 * z <= 995 * v /\ 1000 * u <= 2 * z /\ z \in Nat
      BY <2>2, <2>3, <2>5, <2>6
    <3> HIDE DEF z, u, v
    <3> QED
      BY <2>1, <3>1
  <2>8. 1000000 * u = (1000000 * b) * S /\ 2 * (995 * v) = (1990 * k) * S
    BY <1>1, <1>2, <2>1
  <2>9. (1000000 * b) * S <= (1990 * k) * S
    BY <2>7, <2>8
  <2>10. 1000000 * b <= 1990 * k
    <3> DEFINE i == 1000000 * b
               j == 1990 * k
    <3>1. i \in Nat /\ j \in Nat /\ i * S <= j * S
      BY <1>2, <2>1, <2>9
    <3> HIDE DEF i, j
    <3>2. i <= j
      BY <1>1, <3>1, Cancel
    <3> QED
      BY <3>2 DEF i, j
  <2> QED
    BY <1>2, <2>1, <2>10
<1> QED
  BY <1>4, <1>5 DEF g, k

\* One conversion of at least a whole unit credits no more than it takes.
LEMMA ConversionLoses ==
    ASSUME 1000 * Spread >= 5 * SpreadScale,
           NEW h \in Nat, h >= WholeUnit, NEW from \in FXCurrencies,
           NEW to \in FXCurrencies, from # to
    PROVE  Worth(to) * ConvertAmount(h, from, to) <= Worth(from) * h
<1> DEFINE g == ConvertAmount(h, from, to)
<1>1. /\ g \in Nat \ {0}
      /\ g > 1 => (2 * g - 1) * 1000000
                     <= 2 * (995 * (h * MidMilli(from, to)))
  BY SpreadTakes
<1> HIDE DEF g
<1>2. CASE from = "USD" /\ to = "EUR"
  <2>1. MidMilli(from, to) = 920 /\ Worth(from) = 1000 /\ Worth(to) = 1086
    BY <1>2 DEF MidMilli, Worth
  <2> QED
    BY <1>1, <2>1 DEF WholeUnit, g
<1>3. CASE from = "EUR" /\ to = "USD"
  <2>1. MidMilli(from, to) = 1087 /\ Worth(from) = 1086 /\ Worth(to) = 1000
    BY <1>3 DEF MidMilli, Worth
  <2> QED
    BY <1>1, <2>1 DEF WholeUnit, g
<1>4. CASE from = "USD" /\ to = "GBP"
  <2>1. MidMilli(from, to) = 790 /\ Worth(from) = 1000 /\ Worth(to) = 1265
    BY <1>4 DEF MidMilli, Worth
  <2> QED
    BY <1>1, <2>1 DEF WholeUnit, g
<1>5. CASE from = "GBP" /\ to = "USD"
  <2>1. MidMilli(from, to) = 1266 /\ Worth(from) = 1265 /\ Worth(to) = 1000
    BY <1>5 DEF MidMilli, Worth
  <2> QED
    BY <1>1, <2>1 DEF WholeUnit, g
<1>6. CASE from = "EUR" /\ to = "GBP"
  <2>1. MidMilli(from, to) = 858 /\ Worth(from) = 1086 /\ Worth(to) = 1265
    BY <1>6 DEF MidMilli, Worth
  <2> QED
    BY <1>1, <2>1 DEF WholeUnit, g
<1>7. CASE from = "GBP" /\ to = "EUR"
  <2>1. MidMilli(from, to) = 1166 /\ Worth(from) = 1265 /\ Worth(to) = 1086
    BY <1>7 DEF MidMilli, Worth
  <2> QED
    BY <1>1, <2>1 DEF WholeUnit, g
<1> QED
  BY <1>2, <1>3, <1>4, <1>5, <1>6, <1>7 DEF FXCurrencies

\* What the wallets are worth together.
TotalWorth(w) == Worth("USD") * w["USD"] + Worth("EUR") * w["EUR"]
                   + Worth("GBP") * w["GBP"]

WorthAtMost(w, c, n) == TotalWorth(w) <= Worth(c) * n

\* The inductive invariant: together the wallets are never worth more than the
\* amount at the start.
WorthBounded == WorthAtMost(wallet, origin, start)

\* Initially all the worth is in the wallet of the start.
LEMMA WorthInit == FXInit => WorthBounded
<1> SUFFICES ASSUME FXInit PROVE WorthBounded
  OBVIOUS
<1>1. WalletType
  BY WalletInit
<1>2. \A c \in FXCurrencies : wallet[c] = IF c = origin THEN start ELSE 0
  BY DEF FXInit
<1>3. CASE origin = "USD"
  BY <1>1, <1>2, <1>3 DEF WorthBounded, WorthAtMost, TotalWorth, Worth, FXCurrencies, WalletType
<1>4. CASE origin = "EUR"
  BY <1>1, <1>2, <1>4 DEF WorthBounded, WorthAtMost, TotalWorth, Worth, FXCurrencies, WalletType
<1>5. CASE origin = "GBP"
  BY <1>1, <1>2, <1>5 DEF WorthBounded, WorthAtMost, TotalWorth, Worth, FXCurrencies, WalletType
<1> QED
  BY <1>1, <1>3, <1>4, <1>5 DEF WalletType, FXCurrencies

\* No conversion of a whole unit or more adds worth.
LEMMA WorthStep ==
    ASSUME 1000 * Spread >= 5 * SpreadScale, MinPart >= WholeUnit,
           WalletType, WorthBounded, [FXNext]_vars
    PROVE  WorthBounded'
<1>0. /\ wallet \in [FXCurrencies -> Nat]
      /\ Worth("USD") = 1000 /\ Worth("EUR") = 1086 /\ Worth("GBP") = 1265
  BY DEF WalletType, Worth
<1>1. CASE UNCHANGED vars
  <2>1. wallet' = wallet /\ origin' = origin /\ start' = start
    BY <1>1 DEF vars
  <2> QED
    BY <2>1 DEF WorthBounded
<1>2. CASE FXNext
  <2>0. PICK from \in FXCurrencies, to \in FXCurrencies :
           \E part \in 1 .. wallet[from] : ConvertPart(from, to, part)
    BY <1>2 DEF FXNext
  <2>1. PICK part \in 1 .. wallet[from] : ConvertPart(from, to, part)
    BY <2>0
  <2> DEFINE g == ConvertAmount(part, from, to)
             w == wallet
             v == wallet'
  <2>2. /\ part \in Nat \ {0} /\ part <= w[from] /\ from # to /\ g \in Nat
        /\ v \in [FXCurrencies -> Nat]
        /\ v[from] = w[from] - part
        /\ v[to] = w[to] + g
        /\ \A c \in FXCurrencies \ {from, to} : v[c] = w[c]
        /\ origin' = origin /\ start' = start
    BY <2>1, ConvertEffect
  <2>3. part >= WholeUnit
    BY <2>1, <2>2, PartAssumption DEF ConvertPart, WholeUnit
  <2>4. Worth(to) * g <= Worth(from) * part
    BY <2>2, <2>3, ConversionLoses
  <2>5. TotalWorth(v) <= TotalWorth(w)
    <3> HIDE DEF g, w, v
    <3>0. w \in [FXCurrencies -> Nat]
      BY <1>0 DEF w
    <3>1. CASE from = "USD" /\ to = "EUR"
      <4>1. /\ v["USD"] = w["USD"] - part /\ v["EUR"] = w["EUR"] + g
            /\ v["GBP"] = w["GBP"] /\ 1086 * g <= 1000 * part
        BY <1>0, <2>2, <2>4, <3>1 DEF FXCurrencies
      <4> QED
        BY <1>0, <2>2, <3>0, <4>1 DEF TotalWorth, FXCurrencies
    <3>2. CASE from = "EUR" /\ to = "USD"
      <4>1. /\ v["EUR"] = w["EUR"] - part /\ v["USD"] = w["USD"] + g
            /\ v["GBP"] = w["GBP"] /\ 1000 * g <= 1086 * part
        BY <1>0, <2>2, <2>4, <3>2 DEF FXCurrencies
      <4> QED
        BY <1>0, <2>2, <3>0, <4>1 DEF TotalWorth, FXCurrencies
    <3>3. CASE from = "USD" /\ to = "GBP"
      <4>1. /\ v["USD"] = w["USD"] - part /\ v["GBP"] = w["GBP"] + g
            /\ v["EUR"] = w["EUR"] /\ 1265 * g <= 1000 * part
        BY <1>0, <2>2, <2>4, <3>3 DEF FXCurrencies
      <4> QED
        BY <1>0, <2>2, <3>0, <4>1 DEF TotalWorth, FXCurrencies
    <3>4. CASE from = "GBP" /\ to = "USD"
      <4>1. /\ v["GBP"] = w["GBP"] - part /\ v["USD"] = w["USD"] + g
            /\ v["EUR"] = w["EUR"] /\ 1000 * g <= 1265 * part
        BY <1>0, <2>2, <2>4, <3>4 DEF FXCurrencies
      <4> QED
        BY <1>0, <2>2, <3>0, <4>1 DEF TotalWorth, FXCurrencies
    <3>5. CASE from = "EUR" /\ to = "GBP"
      <4>1. /\ v["EUR"] = w["EUR"] - part /\ v["GBP"] = w["GBP"] + g
            /\ v["USD"] = w["USD"] /\ 1265 * g <= 1086 * part
        BY <1>0, <2>2, <2>4, <3>5 DEF FXCurrencies
      <4> QED
        BY <1>0, <2>2, <3>0, <4>1 DEF TotalWorth, FXCurrencies
    <3>6. CASE from = "GBP" /\ to = "EUR"
      <4>1. /\ v["GBP"] = w["GBP"] - part /\ v["EUR"] = w["EUR"] + g
            /\ v["USD"] = w["USD"] /\ 1086 * g <= 1265 * part
        BY <1>0, <2>2, <2>4, <3>6 DEF FXCurrencies
      <4> QED
        BY <1>0, <2>2, <3>0, <4>1 DEF TotalWorth, FXCurrencies
    <3> QED
      BY <2>2, <3>1, <3>2, <3>3, <3>4, <3>5, <3>6 DEF FXCurrencies
  <2>6. TotalWorth(w) <= Worth(origin) * start
    BY DEF WorthBounded, WorthAtMost
  <2>7. TotalWorth(w) \in Nat /\ TotalWorth(v) \in Nat /\ Worth(origin) * start \in Nat
    BY <1>0, <2>2, ProductNat DEF TotalWorth, WalletType, FXCurrencies
  <2>8. TotalWorth(v) <= Worth(origin) * start
    <3> DEFINE a == TotalWorth(v)
               b == TotalWorth(w)
               c == Worth(origin) * start
    <3>1. a <= b /\ b <= c /\ a \in Nat /\ b \in Nat /\ c \in Nat
      BY <2>5, <2>6, <2>7
    <3> HIDE DEF a, b, c
    <3>2. a <= c
      BY <3>1
    <3> QED
      BY <3>2 DEF a, c
  <2>9. WorthAtMost(wallet', origin, start)
    BY <2>8 DEF WorthAtMost
  <2> QED
    BY <2>2, <2>9 DEF WorthBounded
<1> QED
  BY <1>1, <1>2

\* The wallet of the start alone is worth no more than all of them.
LEMMA BoundedMeansNoProfit ==
    ASSUME WalletType, WorthBounded
    PROVE  NoConversionProfit
<1>1. wallet["USD"] \in Nat /\ wallet["EUR"] \in Nat /\ wallet["GBP"] \in Nat
  BY DEF WalletType, FXCurrencies
<1>2. start \in Nat
  BY DEF WalletType
<1>3. CASE origin = "USD"
  BY <1>1, <1>2, <1>3 DEF WorthBounded, WorthAtMost, TotalWorth, Worth, NoConversionProfit
<1>4. CASE origin = "EUR"
  BY <1>1, <1>2, <1>4 DEF WorthBounded, WorthAtMost, TotalWorth, Worth, NoConversionProfit
<1>5. CASE origin = "GBP"
  BY <1>1, <1>2, <1>5 DEF WorthBounded, WorthAtMost, TotalWorth, Worth, NoConversionProfit
<1> QED
  BY <1>3, <1>4, <1>5 DEF WalletType, FXCurrencies

\* With the default spread of 0.005 or a greater one, a customer who converts at
\* least one whole unit at a time never gets back more than he started with, for
\* every amount, every split and every number of conversions.
THEOREM WholeUnitsMakeNoProfit ==
    ASSUME 1000 * Spread >= 5 * SpreadScale, MinPart >= WholeUnit
    PROVE  FXSpec => []NoConversionProfit
<1>1. FXInit => WorthBounded
  BY WorthInit
<1>2. WalletType /\ WorthBounded /\ [FXNext]_vars => WorthBounded'
  BY WorthStep
<1>3. WalletType /\ WorthBounded => NoConversionProfit
  BY BoundedMeansNoProfit
<1> QED
  BY <1>1, <1>2, <1>3, WalletAlways, PTL DEF FXSpec
=============================================================================
