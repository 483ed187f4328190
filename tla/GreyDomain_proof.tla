-------------------------- MODULE GreyDomain_proof --------------------------
(***************************************************************************)
(* Facts about payment rows, for every set of users, wallets, currencies   *)
(* and inputs and every conversion: what a request turns into, what paying *)
(* and undoing it does to each balance, and to the sums of balances.       *)
(***************************************************************************)
EXTENDS GreyDomain, SumTheorems

\* The system accounts exist.
LEMMA SystemAccounts ==
    \A c \in Currencies : FXPool(c) \in Accounts /\ Outgoing(c) \in Accounts
BY DEF Accounts

\* What a request resolves to is an account.
LEMMA ResolvedAccounts ==
    ASSUME NEW in \in Inputs, Acceptable(in)
    PROVE  /\ SourceAccount(in) \in UserAccounts
           /\ in.type = "internal_transfer" => DestAccount(in) \in UserAccounts
<1>1. \A w \in Wallets : UserAccount(w[1], w[2]) \in UserAccounts
  BY DEF UserAccounts
<1>2. <<in.sender, in.srcCur>> \in Wallets
  BY DEF Acceptable, Resolves
<1>3. in.type = "internal_transfer" => <<in.recipient, in.dstCur>> \in Wallets
  BY DEF Acceptable, Resolves
<1>4. SourceAccount(in) \in UserAccounts
  BY <1>1, <1>2 DEF SourceAccount
<1>5. in.type = "internal_transfer" => DestAccount(in) \in UserAccounts
  BY <1>1, <1>3 DEF DestAccount
<1> QED BY <1>4, <1>5

\* The payment row of an acceptable request is well formed.
LEMMA NewPaymentType ==
    ASSUME NEW in \in Inputs, Acceptable(in)
    PROVE  NewPayment(in) \in Payment
<1>1. /\ in.type \in PaymentTypes /\ in.srcCur \in Currencies
      /\ in.dstCur \in Currencies /\ in.amount \in Int
  BY InputAssumption DEF IsRequest
<1>2. in.amount \in Amounts
  BY <1>1 DEF Acceptable, ValidRequest, Amounts
<1>3. DestAmount(in) \in Amounts
  BY <1>1, <1>2, ConvertAssumption DEF DestAmount, Amounts
<1>4. in.key \in Keys
  BY DEF Keys
<1>5. /\ SourceAccount(in) \in Accounts
      /\ (IF in.type = "internal_transfer" THEN DestAccount(in)
          ELSE Outgoing(in.dstCur)) \in Accounts
  BY <1>1, ResolvedAccounts, SystemAccounts DEF Accounts
<1> QED BY <1>1, <1>2, <1>3, <1>4, <1>5 DEF NewPayment, Payment, PaymentStatuses

-----------------------------------------------------------------------------
(***************************************************************************)
(* The accounts of a payment are different accounts.                       *)
(***************************************************************************)
\* What more is known of a row than its type.
Consistent(p) ==
    /\ p.src \in UserAccounts /\ p.src.cur = p.srcCur
    /\ p.dst.cur = p.dstCur /\ p.dst # p.src
    /\ p.type = "internal_transfer" => p.dst \in UserAccounts /\ p.status = "completed"
    /\ p.type = "external_payout" => p.dst = Outgoing(p.dstCur)
    /\ p.srcCur = p.dstCur => p.srcAmt = p.dstAmt

\* User accounts, FX pools and clearing accounts are told apart by their type.
LEMMA AccountKinds ==
    /\ \A a \in UserAccounts : a.type = "user"
    /\ \A c : FXPool(c).type = "fx_pool" /\ FXPool(c).cur = c
    /\ \A c : Outgoing(c).type = "outgoing" /\ Outgoing(c).cur = c
BY DEF UserAccounts, UserAccount, FXPool, Outgoing

\* The row of an acceptable request is consistent.
LEMMA NewPaymentConsistent ==
    ASSUME NEW in \in Inputs, Acceptable(in)
    PROVE  /\ Consistent(NewPayment(in))
           /\ NewPayment(in).type = "external_payout" => NewPayment(in).status = "pending"
<1>1. /\ SourceAccount(in) \in UserAccounts
      /\ in.type = "internal_transfer" => DestAccount(in) \in UserAccounts
  BY ResolvedAccounts
<1>2. in.type \in PaymentTypes
  BY InputAssumption DEF IsRequest
<1>3. SourceAccount(in).cur = in.srcCur /\ DestAccount(in).cur = in.dstCur
  BY DEF SourceAccount, DestAccount, UserAccount
<1>4. in.type = "internal_transfer" => DestAccount(in) # SourceAccount(in)
  BY DEF Acceptable, ValidRequest, SourceAccount, DestAccount, UserAccount
<1>5. Outgoing(in.dstCur) # SourceAccount(in) /\ Outgoing(in.dstCur).cur = in.dstCur
  BY <1>1, AccountKinds
<1>6. in.srcCur = in.dstCur => DestAmount(in) = in.amount
  BY DEF DestAmount
<1> QED BY <1>1, <1>2, <1>3, <1>4, <1>5, <1>6 DEF Consistent, NewPayment, PaymentTypes

\* The accounts a payment touches are different ones.
LEMMA DistinctAccounts ==
    ASSUME NEW p \in Payment, Consistent(p)
    PROVE  /\ p.src # p.dst
           /\ \A c : FXPool(c) # p.src /\ FXPool(c) # p.dst /\ Outgoing(c) # p.src
           /\ \A c, d : Outgoing(c) # FXPool(d)
           /\ IsCross(p) => FXPool(p.srcCur) # FXPool(p.dstCur)
<1>1. p.type \in PaymentTypes
  BY DEF Payment
<1>2. p.src.type = "user" /\ p.dst.type \in {"user", "outgoing"}
  BY <1>1, AccountKinds DEF Consistent, PaymentTypes
<1>3. \A c : FXPool(c) # p.src /\ FXPool(c) # p.dst /\ Outgoing(c) # p.src
  BY <1>2, AccountKinds
<1>4. \A c, d : Outgoing(c) # FXPool(d)
  BY AccountKinds
<1>5. IsCross(p) => FXPool(p.srcCur) # FXPool(p.dstCur)
  BY AccountKinds DEF IsCross
<1> QED BY <1>3, <1>4, <1>5 DEF Consistent

-----------------------------------------------------------------------------
(***************************************************************************)
(* What paying and undoing a payment does to every balance.                *)
(***************************************************************************)
\* What payment p brings to account a.
Gain(p, a) ==
    IF a = p.src THEN -p.srcAmt
    ELSE IF a = p.dst THEN p.dstAmt
    ELSE IF ~IsCross(p) THEN 0
    ELSE IF a = FXPool(p.srcCur) THEN p.srcAmt
    ELSE IF a = FXPool(p.dstCur) THEN -p.dstAmt
    ELSE 0

\* A move takes from one account, gives to one, and leaves the others alone.
LEMMA MoveEffect ==
    ASSUME NEW b, NEW from, NEW to, NEW amount,
           b \in [Accounts -> Int], from \in Accounts, to \in Accounts,
           from # to, amount \in Int
    PROVE  /\ Move(b, from, to, amount) \in [Accounts -> Int]
           /\ \A a \in Accounts :
                 Move(b, from, to, amount)[a] = IF a = from THEN b[a] - amount
                                                ELSE IF a = to THEN b[a] + amount
                                                ELSE b[a]
BY DEF Move

\* Undoing a payment takes back from every account what it brought.
LEMMA PayEffect ==
    ASSUME NEW b, NEW p, b \in [Accounts -> Int], p \in Payment, Consistent(p)
    PROVE  /\ Pay(b, p) = [a \in Accounts |-> b[a] + Gain(p, a)]
           /\ Unpay(b, p) = [a \in Accounts |-> b[a] - Gain(p, a)]
<1>1. /\ p.src \in Accounts /\ p.dst \in Accounts
      /\ p.srcAmt \in Int /\ p.dstAmt \in Int
      /\ p.srcCur \in Currencies /\ p.dstCur \in Currencies
  BY DEF Payment, Amounts
<1>2. FXPool(p.srcCur) \in Accounts /\ FXPool(p.dstCur) \in Accounts
  BY <1>1, SystemAccounts
<1>3. /\ p.src # p.dst
      /\ FXPool(p.srcCur) # p.src /\ FXPool(p.srcCur) # p.dst
      /\ FXPool(p.dstCur) # p.src /\ FXPool(p.dstCur) # p.dst
      /\ IsCross(p) => FXPool(p.srcCur) # FXPool(p.dstCur)
  BY DistinctAccounts
<1>4. CASE ~IsCross(p)
  <2>1. p.srcAmt = p.dstAmt
    BY <1>4 DEF Consistent, IsCross
  <2>2. /\ Pay(b, p) = Move(b, p.src, p.dst, p.srcAmt)
        /\ Unpay(b, p) = Move(b, p.dst, p.src, p.srcAmt)
    BY <1>4 DEF Pay, Unpay
  <2> QED BY <1>1, <1>3, <1>4, <2>1, <2>2, MoveEffect DEF Gain
<1>5. CASE IsCross(p)
  <2> DEFINE in  == Move(b, p.src, FXPool(p.srcCur), p.srcAmt)
             out == Move(b, p.dst, FXPool(p.dstCur), p.dstAmt)
  <2>1. /\ Pay(b, p) = Move(in, FXPool(p.dstCur), p.dst, p.dstAmt)
        /\ Unpay(b, p) = Move(out, FXPool(p.srcCur), p.src, p.srcAmt)
    BY <1>5 DEF Pay, Unpay
  <2>2. /\ in \in [Accounts -> Int]
        /\ \A a \in Accounts : in[a] = IF a = p.src THEN b[a] - p.srcAmt
                                       ELSE IF a = FXPool(p.srcCur) THEN b[a] + p.srcAmt
                                       ELSE b[a]
    BY <1>1, <1>2, <1>3, MoveEffect
  <2>3. /\ out \in [Accounts -> Int]
        /\ \A a \in Accounts : out[a] = IF a = p.dst THEN b[a] - p.dstAmt
                                        ELSE IF a = FXPool(p.dstCur) THEN b[a] + p.dstAmt
                                        ELSE b[a]
    BY <1>1, <1>2, <1>3, MoveEffect
  <2> HIDE DEF in, out
  <2>4. /\ Pay(b, p) \in [Accounts -> Int]
        /\ \A a \in Accounts : Pay(b, p)[a] = IF a = FXPool(p.dstCur) THEN in[a] - p.dstAmt
                                              ELSE IF a = p.dst THEN in[a] + p.dstAmt
                                              ELSE in[a]
    BY <1>1, <1>2, <1>3, <2>1, <2>2, MoveEffect
  <2>5. /\ Unpay(b, p) \in [Accounts -> Int]
        /\ \A a \in Accounts : Unpay(b, p)[a] = IF a = FXPool(p.srcCur) THEN out[a] - p.srcAmt
                                                ELSE IF a = p.src THEN out[a] + p.srcAmt
                                                ELSE out[a]
    BY <1>1, <1>2, <1>3, <2>1, <2>3, MoveEffect
  <2>6. \A a \in Accounts : Pay(b, p)[a] = b[a] + Gain(p, a)
    BY <1>1, <1>2, <1>3, <1>5, <2>2, <2>4 DEF Gain
  <2>7. \A a \in Accounts : Unpay(b, p)[a] = b[a] - Gain(p, a)
    BY <1>1, <1>2, <1>3, <1>5, <2>3, <2>5 DEF Gain
  <2> QED BY <2>4, <2>5, <2>6, <2>7
<1> QED BY <1>4, <1>5

-----------------------------------------------------------------------------
(***************************************************************************)
(* Money is conserved, currency by currency.                               *)
(***************************************************************************)
Mine(c) == {a \in Accounts : a.cur = c}

\* Moving money between two accounts of one currency conserves every currency.
LEMMA MoveConserves ==
    ASSUME NEW b, NEW from, NEW to, NEW amount, NEW c,
           IsFiniteSet(Accounts), b \in [Accounts -> Int],
           from \in Accounts, to \in Accounts, from # to, amount \in Int,
           from.cur = to.cur
    PROVE  SumFunctionOnSet(Move(b, from, to, amount), Mine(c)) =
           SumFunctionOnSet(b, Mine(c))
<1> DEFINE half == [b EXCEPT ![from] = @ - amount]
           all  == Move(b, from, to, amount)
<1>1. IsFiniteSet(Mine(c)) /\ Mine(c) \subseteq Accounts
  BY FS_Subset DEF Mine
<1>2. /\ half \in [Accounts -> Int] /\ half[from] = b[from] - amount
      /\ \A a \in Accounts \ {from} : half[a] = b[a]
  OBVIOUS
<1>3. /\ all \in [Accounts -> Int] /\ all[to] = half[to] + amount
      /\ \A a \in Accounts \ {to} : all[a] = half[a]
  BY DEF Move
<1> HIDE DEF half, all
<1>4. \A a \in Mine(c) : b[a] \in Int /\ half[a] \in Int /\ all[a] \in Int
  BY <1>1, <1>2, <1>3
<1>5. CASE from.cur = c
  <2>1. from \in Mine(c) /\ to \in Mine(c)
    BY <1>5 DEF Mine
  <2>2. SumFunctionOnSet(half, Mine(c)) =
        SumFunctionOnSet(b, Mine(c)) + (half[from] - b[from])
    <3>1. \A a \in Mine(c) \ {from} : b[a] = half[a]
      BY <1>1, <1>2
    <3> QED BY <1>1, <1>4, <2>1, <3>1, SumChanged
  <2>3. SumFunctionOnSet(all, Mine(c)) =
        SumFunctionOnSet(half, Mine(c)) + (all[to] - half[to])
    <3>1. \A a \in Mine(c) \ {to} : half[a] = all[a]
      BY <1>1, <1>3
    <3> QED BY <1>1, <1>4, <2>1, <3>1, SumChanged
  <2>4. SumFunctionOnSet(b, Mine(c)) \in Int
    BY <1>1, <1>4, SumType
  <2> QED BY <1>2, <1>3, <2>2, <2>3, <2>4 DEF all
<1>6. CASE from.cur # c
  <2>1. \A a \in Mine(c) : b[a] = all[a]
    BY <1>1, <1>2, <1>3, <1>6 DEF Mine
  <2> QED BY <1>1, <2>1, SumSame DEF all
<1> QED BY <1>5, <1>6

\* Neither a payment nor its undoing makes or loses money in any currency,
\* conversions through the FX pools included.
THEOREM PayConserves ==
    ASSUME NEW b, NEW p, NEW c, IsFiniteSet(Accounts),
           b \in [Accounts -> Int], p \in Payment, Consistent(p)
    PROVE  /\ SumFunctionOnSet(Pay(b, p), Mine(c)) = SumFunctionOnSet(b, Mine(c))
           /\ SumFunctionOnSet(Unpay(b, p), Mine(c)) = SumFunctionOnSet(b, Mine(c))
<1>1. /\ p.src \in Accounts /\ p.dst \in Accounts
      /\ p.srcAmt \in Int /\ p.dstAmt \in Int
      /\ p.srcCur \in Currencies /\ p.dstCur \in Currencies
  BY DEF Payment, Amounts
<1>2. /\ FXPool(p.srcCur) \in Accounts /\ FXPool(p.dstCur) \in Accounts
      /\ FXPool(p.srcCur).cur = p.srcCur /\ FXPool(p.dstCur).cur = p.dstCur
  BY <1>1, SystemAccounts, AccountKinds
<1>3. /\ p.src # p.dst /\ FXPool(p.srcCur) # p.src /\ FXPool(p.dstCur) # p.dst
      /\ p.src.cur = p.srcCur /\ p.dst.cur = p.dstCur
  BY DistinctAccounts DEF Consistent
<1>4. CASE ~IsCross(p)
  <2>1. p.src.cur = p.dst.cur
    BY <1>3, <1>4 DEF IsCross
  <2>2. /\ Pay(b, p) = Move(b, p.src, p.dst, p.srcAmt)
        /\ Unpay(b, p) = Move(b, p.dst, p.src, p.srcAmt)
    BY <1>4 DEF Pay, Unpay
  <2> QED BY <1>1, <1>3, <2>1, <2>2, MoveConserves
<1>5. CASE IsCross(p)
  <2> DEFINE in  == Move(b, p.src, FXPool(p.srcCur), p.srcAmt)
             out == Move(b, p.dst, FXPool(p.dstCur), p.dstAmt)
  <2>1. /\ Pay(b, p) = Move(in, FXPool(p.dstCur), p.dst, p.dstAmt)
        /\ Unpay(b, p) = Move(out, FXPool(p.srcCur), p.src, p.srcAmt)
    BY <1>5 DEF Pay, Unpay
  <2>2. in \in [Accounts -> Int] /\ out \in [Accounts -> Int]
    BY <1>1, <1>2, <1>3, MoveEffect
  <2>3. /\ SumFunctionOnSet(in, Mine(c)) = SumFunctionOnSet(b, Mine(c))
        /\ SumFunctionOnSet(out, Mine(c)) = SumFunctionOnSet(b, Mine(c))
    BY <1>1, <1>2, <1>3, MoveConserves
  <2> HIDE DEF in, out
  <2>4. /\ SumFunctionOnSet(Pay(b, p), Mine(c)) = SumFunctionOnSet(in, Mine(c))
        /\ SumFunctionOnSet(Unpay(b, p), Mine(c)) = SumFunctionOnSet(out, Mine(c))
    BY <1>1, <1>2, <1>3, <2>1, <2>2, MoveConserves
  <2> QED BY <2>3, <2>4
<1> QED BY <1>4, <1>5

-----------------------------------------------------------------------------
(***************************************************************************)
(* What the clearing accounts hold.                                        *)
(***************************************************************************)
\* A payment touches a clearing account only as its destination.
LEMMA ClearingGain ==
    ASSUME NEW p, NEW c, p \in Payment, Consistent(p)
    PROVE  Gain(p, Outgoing(c)) = IF p.dst = Outgoing(c) THEN p.dstAmt ELSE 0
BY DistinctAccounts DEF Gain

\* The amount held does not change with rows that were not and are not held.
LEMMA HeldSame ==
    ASSUME NEW P, NEW Q, NEW c, IsFiniteSet(Held(P, c)), Held(Q, c) = Held(P, c),
           \A r \in Held(P, c) : Q[r].dstAmt = P[r].dstAmt
    PROVE  AmountHeld(Q, c) = AmountHeld(P, c)
<1> DEFINE f == [r \in Held(P, c) |-> P[r].dstAmt]
           g == [r \in Held(P, c) |-> Q[r].dstAmt]
<1>1. \A r \in Held(P, c) : f[r] = g[r]
  OBVIOUS
<1>2. AmountHeld(P, c) = SumFunctionOnSet(f, Held(P, c))
  BY DEF AmountHeld, AmountOf
<1>3. AmountHeld(Q, c) = SumFunctionOnSet(g, Held(P, c))
  BY DEF AmountHeld, AmountOf
<1> HIDE DEF f, g
<1> QED BY <1>1, <1>2, <1>3, SumSame

\* A payout more in the clearing account is its amount more.
LEMMA HeldMore ==
    ASSUME NEW P, NEW Q, NEW c, NEW r,
           IsFiniteSet(Held(P, c)), r \notin Held(P, c),
           Held(Q, c) = Held(P, c) \cup {r},
           \A q \in Held(P, c) : Q[q].dstAmt = P[q].dstAmt,
           \A q \in Held(Q, c) : Q[q].dstAmt \in Int
    PROVE  AmountHeld(Q, c) = AmountHeld(P, c) + Q[r].dstAmt
<1> DEFINE f == [q \in Held(P, c) |-> P[q].dstAmt]
           g == [q \in Held(P, c) \cup {r} |-> Q[q].dstAmt]
<1>1. \A q \in Held(P, c) : f[q] = g[q]
  OBVIOUS
<1>2. (\A q \in Held(P, c) \cup {r} : g[q] \in Int) /\ g[r] = Q[r].dstAmt
  OBVIOUS
<1>3. AmountHeld(P, c) = SumFunctionOnSet(f, Held(P, c))
  BY DEF AmountHeld, AmountOf
<1>4. AmountHeld(Q, c) = SumFunctionOnSet(g, Held(P, c) \cup {r})
  BY DEF AmountHeld, AmountOf
<1> HIDE DEF f, g
<1>5. SumFunctionOnSet(f, Held(P, c)) = SumFunctionOnSet(g, Held(P, c))
  BY <1>1, SumSame
<1>6. SumFunctionOnSet(g, Held(P, c) \cup {r}) = SumFunctionOnSet(g, Held(P, c)) + g[r]
  BY <1>2, SumAdded
<1> QED BY <1>2, <1>3, <1>4, <1>5, <1>6

-----------------------------------------------------------------------------
(***************************************************************************)
(* The rows of the payments table, and the clearing accounts beside them.  *)
(***************************************************************************)
RowsOK(P) ==
    /\ IsFiniteSet(DOMAIN P)
    /\ P \in [DOMAIN P -> Payment]
    /\ \A r \in DOMAIN P : Consistent(P[r])

ClearingOK(b, P) ==
    \A c \in Currencies :
        b[Outgoing(c)] = InitBalance[Outgoing(c)] + AmountHeld(P, c)

\* A consistent row may be added to the table.
LEMMA RowAdded ==
    ASSUME NEW P, NEW r, NEW p, RowsOK(P), p \in Payment, Consistent(p)
    PROVE  RowsOK(Put(P, r, p))
<1> DEFINE Q == Put(P, r, p)
<1>1. DOMAIN Q = DOMAIN P \cup {r}
  BY DEF Put
<1>2. \A q \in DOMAIN P \cup {r} : Q[q] = IF q = r THEN p ELSE P[q]
  BY DEF Put
<1>3. Q \in [DOMAIN P \cup {r} -> Payment]
  BY DEF Put, RowsOK
<1>4. IsFiniteSet(DOMAIN P \cup {r})
  BY FS_AddElement DEF RowsOK
<1> HIDE DEF Q
<1>5. RowsOK(Q)
  BY <1>1, <1>2, <1>3, <1>4 DEF RowsOK
<1> QED BY <1>5 DEF Q

\* Rows q and p credit the same account with the same amount.
SameCredit(q, p) == q.dst = p.dst /\ q.dstAmt = p.dstAmt /\ q.type = p.type

\* A new status leaves the money of a row alone, and a payout consistent.
LEMMA RowUpdated ==
    ASSUME NEW P, NEW r, NEW s, RowsOK(P), r \in DOMAIN P,
           s \in PaymentStatuses, P[r].type = "external_payout"
    PROVE  /\ RowsOK([P EXCEPT ![r].status = s])
           /\ SameCredit([P EXCEPT ![r].status = s][r], P[r])
<1> DEFINE Q  == [P EXCEPT ![r].status = s]
           q0 == [P[r] EXCEPT !.status = s]
<1>1. P[r] \in Payment /\ Consistent(P[r])
  BY DEF RowsOK
<1>2. q0 \in Payment /\ SameCredit(q0, P[r])
  BY <1>1 DEF Payment, SameCredit
<1>3. Consistent(q0)
  BY <1>1 DEF Consistent, Payment
<1>4. DOMAIN Q = DOMAIN P /\ Q[r] = q0 /\ \A q \in DOMAIN P : q # r => Q[q] = P[q]
  BY DEF RowsOK
<1>5. Q = [P EXCEPT ![r] = q0]
  OBVIOUS
<1> HIDE DEF Q, q0
<1>6. Q \in [DOMAIN P -> Payment]
  BY <1>2, <1>5 DEF RowsOK
<1>7. RowsOK(Q)
  BY <1>3, <1>4, <1>6 DEF RowsOK
<1> QED BY <1>2, <1>4, <1>7 DEF Q

\* The payouts held are finitely many, and their amount is a number.
LEMMA HeldFinite ==
    ASSUME NEW P, NEW c, RowsOK(P)
    PROVE  /\ IsFiniteSet(Held(P, c))
           /\ \A q \in Held(P, c) : q \in DOMAIN P /\ P[q].dstAmt \in Int
           /\ AmountHeld(P, c) \in Int
<1>1. IsFiniteSet(Held(P, c))
  BY FS_Subset DEF Held, RowsOK
<1>2. \A q \in Held(P, c) : q \in DOMAIN P /\ P[q].dstAmt \in Int
  BY DEF Held, RowsOK, Payment, Amounts
<1> DEFINE f == [q \in Held(P, c) |-> P[q].dstAmt]
<1>3. \A q \in Held(P, c) : f[q] \in Int
  BY <1>2
<1>4. AmountHeld(P, c) = SumFunctionOnSet(f, Held(P, c))
  BY DEF AmountHeld, AmountOf
<1> HIDE DEF f
<1> QED BY <1>1, <1>2, <1>3, <1>4, SumType

\* What is held is at least each payout that is.
LEMMA HeldAtLeast ==
    ASSUME NEW P, NEW c, NEW r, RowsOK(P), r \in Held(P, c)
    PROVE  AmountHeld(P, c) >= P[r].dstAmt
<1> DEFINE f == [q \in Held(P, c) |-> P[q].dstAmt]
<1>1. IsFiniteSet(Held(P, c))
  BY HeldFinite
<1>2. \A q \in Held(P, c) : f[q] \in Nat
  BY DEF Held, RowsOK, Payment, Amounts
<1>3. AmountHeld(P, c) = SumFunctionOnSet(f, Held(P, c)) /\ f[r] = P[r].dstAmt
  BY DEF AmountHeld, AmountOf
<1> HIDE DEF f
<1> QED BY <1>1, <1>2, <1>3, SumAtLeast

\* What is held is at least the amount of some of the payouts that are.
LEMMA HeldCovers ==
    ASSUME NEW P, NEW c, NEW S, RowsOK(P), S \subseteq Held(P, c)
    PROVE  AmountOf(P, S) \in Int /\ AmountOf(P, S) <= AmountHeld(P, c)
<1> DEFINE f == [q \in Held(P, c) |-> P[q].dstAmt]
           h == [q \in S |-> P[q].dstAmt]
<1>1. IsFiniteSet(Held(P, c)) /\ IsFiniteSet(S)
  BY HeldFinite, FS_Subset
<1>2. \A q \in Held(P, c) : f[q] \in Nat
  BY DEF Held, RowsOK, Payment, Amounts
<1>3. \A q \in S : h[q] = f[q]
  OBVIOUS
<1>4. /\ AmountHeld(P, c) = SumFunctionOnSet(f, Held(P, c))
      /\ AmountOf(P, S) = SumFunctionOnSet(h, S)
  BY DEF AmountHeld, AmountOf
<1> HIDE DEF f, h
<1>5. SumFunctionOnSet(h, S) = SumFunctionOnSet(f, S)
  BY <1>1, <1>3, SumSame
<1>6. SumFunctionOnSet(f, S) <= SumFunctionOnSet(f, Held(P, c))
  BY <1>1, <1>2, SumOfPart
<1>7. \A q \in S : f[q] \in Int
  BY <1>2
<1>8. SumFunctionOnSet(f, S) \in Int
  BY <1>1, <1>7, SumType
<1> QED BY <1>4, <1>5, <1>6, <1>8

\* Posting a payment keeps the clearing accounts and the table in step.
LEMMA PostClears ==
    ASSUME NEW P, NEW b, NEW r, NEW p, RowsOK(P), ClearingOK(b, P),
           b \in [Accounts -> Int], r \notin DOMAIN P, p \in Payment, Consistent(p),
           p.status # "failed"
    PROVE  ClearingOK(Pay(b, p), Put(P, r, p))
<1> DEFINE Q == Put(P, r, p)
<1>rows. RowsOK(Q)
  BY RowAdded
<1>1. /\ DOMAIN Q = DOMAIN P \cup {r} /\ Q[r] = p
      /\ \A q \in DOMAIN P : Q[q] = P[q]
  BY DEF Put
<1> HIDE DEF Q
<1> SUFFICES ASSUME NEW c \in Currencies
             PROVE  Pay(b, p)[Outgoing(c)] = InitBalance[Outgoing(c)] + AmountHeld(Q, c)
  BY DEF ClearingOK, Q
<1>2. b[Outgoing(c)] = InitBalance[Outgoing(c)] + AmountHeld(P, c)
  BY DEF ClearingOK
<1>3. /\ Outgoing(c) \in Accounts /\ InitBalance[Outgoing(c)] \in Int
      /\ b[Outgoing(c)] \in Int
  BY SystemAccounts, BalanceAssumption
<1>4. Pay(b, p)[Outgoing(c)] = b[Outgoing(c)] + Gain(p, Outgoing(c))
  BY <1>3, PayEffect
<1>5. Gain(p, Outgoing(c)) = IF p.dst = Outgoing(c) THEN p.dstAmt ELSE 0
  BY ClearingGain
<1>6. /\ IsFiniteSet(Held(P, c)) /\ AmountHeld(P, c) \in Int
      /\ \A q \in Held(P, c) : q \in DOMAIN P
      /\ \A q \in Held(Q, c) : Q[q].dstAmt \in Int
  BY <1>rows, HeldFinite
<1>7. p.dstAmt \in Int
  BY DEF Payment, Amounts
<1>8. CASE p.dst = Outgoing(c)
  <2>1. Held(Q, c) = Held(P, c) \cup {r}
    BY <1>1, <1>8 DEF Held
  <2>2. r \notin Held(P, c)
    BY DEF Held
  <2>3. AmountHeld(Q, c) = AmountHeld(P, c) + Q[r].dstAmt
    BY <1>1, <1>6, <2>1, <2>2, HeldMore
  <2> QED BY <1>1, <1>2, <1>3, <1>4, <1>5, <1>6, <1>7, <1>8, <2>3
<1>9. CASE p.dst # Outgoing(c)
  <2>1. Held(Q, c) = Held(P, c)
    BY <1>1, <1>9 DEF Held
  <2>2. AmountHeld(Q, c) = AmountHeld(P, c)
    <3>1. \A q \in Held(P, c) : Q[q].dstAmt = P[q].dstAmt
      BY <1>1, <1>6
    <3> QED BY <1>6, <2>1, <3>1, HeldSame
  <2> QED BY <1>2, <1>3, <1>4, <1>5, <1>6, <1>9, <2>2
<1> QED BY <1>8, <1>9

\* So does settling a payout, which moves nothing.
LEMMA SettleClears ==
    ASSUME NEW P, NEW b, NEW r, RowsOK(P), ClearingOK(b, P), r \in DOMAIN P,
           P[r].type = "external_payout", P[r].status # "failed"
    PROVE  ClearingOK(b, [P EXCEPT ![r].status = "completed"])
<1> DEFINE Q == [P EXCEPT ![r].status = "completed"]
<1>rows. RowsOK(Q) /\ SameCredit(Q[r], P[r])
  BY RowUpdated DEF PaymentStatuses
<1>1. /\ DOMAIN Q = DOMAIN P /\ Q[r].status = "completed"
      /\ \A q \in DOMAIN P : q # r => Q[q] = P[q]
  BY DEF RowsOK, Payment
<1> HIDE DEF Q
<1>same. \A q \in DOMAIN P : Q[q].dst = P[q].dst /\ Q[q].dstAmt = P[q].dstAmt
  BY <1>rows, <1>1 DEF SameCredit
<1>2. \A c : Held(Q, c) = Held(P, c)
  BY <1>1, <1>same DEF Held
<1>3. \A c : IsFiniteSet(Held(P, c)) /\ \A q \in Held(P, c) : q \in DOMAIN P
  BY HeldFinite
<1>4. \A c : AmountHeld(Q, c) = AmountHeld(P, c)
  BY <1>same, <1>2, <1>3, HeldSame
<1> QED BY <1>4 DEF ClearingOK, Q

\* And refunding one, which takes its amount out again.
LEMMA RefundClears ==
    ASSUME NEW P, NEW b, NEW r, RowsOK(P), ClearingOK(b, P),
           b \in [Accounts -> Int], r \in DOMAIN P,
           P[r].type = "external_payout", P[r].status # "failed"
    PROVE  ClearingOK(Unpay(b, P[r]), [P EXCEPT ![r].status = "failed"])
<1> DEFINE Q == [P EXCEPT ![r].status = "failed"]
<1>rows. RowsOK(Q) /\ SameCredit(Q[r], P[r])
  BY RowUpdated DEF PaymentStatuses
<1>1. /\ DOMAIN Q = DOMAIN P /\ Q[r].status = "failed"
      /\ \A q \in DOMAIN P : q # r => Q[q] = P[q]
  BY DEF RowsOK, Payment
<1> HIDE DEF Q
<1>same. \A q \in DOMAIN P : Q[q].dst = P[q].dst /\ Q[q].dstAmt = P[q].dstAmt
  BY <1>rows, <1>1 DEF SameCredit
<1>2. P[r] \in Payment /\ Consistent(P[r]) /\ P[r].dstAmt \in Int
  BY DEF RowsOK, Payment, Amounts
<1> SUFFICES ASSUME NEW c \in Currencies
             PROVE  Unpay(b, P[r])[Outgoing(c)] = InitBalance[Outgoing(c)] + AmountHeld(Q, c)
  BY DEF ClearingOK, Q
<1>3. b[Outgoing(c)] = InitBalance[Outgoing(c)] + AmountHeld(P, c)
  BY DEF ClearingOK
<1>4. /\ Outgoing(c) \in Accounts /\ InitBalance[Outgoing(c)] \in Int
      /\ b[Outgoing(c)] \in Int
  BY SystemAccounts, BalanceAssumption
<1>5. Unpay(b, P[r])[Outgoing(c)] = b[Outgoing(c)] - Gain(P[r], Outgoing(c))
  BY <1>2, <1>4, PayEffect
<1>6. Gain(P[r], Outgoing(c)) = IF P[r].dst = Outgoing(c) THEN P[r].dstAmt ELSE 0
  BY <1>2, ClearingGain
<1>7. /\ IsFiniteSet(Held(P, c)) /\ AmountHeld(P, c) \in Int
      /\ IsFiniteSet(Held(Q, c)) /\ AmountHeld(Q, c) \in Int
      /\ \A q \in Held(Q, c) : q \in DOMAIN Q
      /\ \A q \in Held(P, c) : q \in DOMAIN P /\ P[q].dstAmt \in Int
  BY <1>rows, HeldFinite
<1>8. CASE P[r].dst = Outgoing(c)
  <2>1. Held(P, c) = Held(Q, c) \cup {r}
    BY <1>1, <1>8, <1>same DEF Held
  <2>2. r \notin Held(Q, c)
    BY <1>1, <1>same DEF Held
  <2>3. \A q \in Held(Q, c) : P[q].dstAmt = Q[q].dstAmt
    BY <1>1, <1>7, <1>same
  <2>4. AmountHeld(P, c) = AmountHeld(Q, c) + P[r].dstAmt
    BY <1>7, <2>1, <2>2, <2>3, HeldMore
  <2> QED BY <1>2, <1>3, <1>4, <1>5, <1>6, <1>7, <1>8, <2>4
<1>9. CASE P[r].dst # Outgoing(c)
  <2>1. Held(Q, c) = Held(P, c)
    BY <1>1, <1>9, <1>same DEF Held
  <2>2. AmountHeld(Q, c) = AmountHeld(P, c)
    BY <1>7, <1>same, <2>1, HeldSame
  <2> QED BY <1>3, <1>4, <1>5, <1>6, <1>7, <1>9, <2>2
<1> QED BY <1>8, <1>9
=============================================================================
