---------------------------- MODULE SumTheorems ----------------------------
(***************************************************************************)
(* What SumFunctionOnSet of the community modules computes: how a sum      *)
(* changes with one summand and with one element of the set.  The sums of  *)
(* the payment modules are of balances over the accounts of a currency,    *)
(* and of amounts over the open payouts.                                   *)
(*                                                                         *)
(* The sum is defined by recursion over subsets.  Statements about all     *)
(* finite subsets are shown by looking at a smallest counterexample.       *)
(***************************************************************************)
EXTENDS FiniteSetsExt, FiniteSetTheorems, TLAPS

\* The element that the sum over s takes first.
Chosen(s) == CHOOSE x \in s : TRUE

Rest(s) == s \ {Chosen(s)}

\* g maps the sets of D, among them the rest of each, to their sums.
IsFold(f, D, g) ==
    g = [s \in D |-> IF s = {} THEN 0 ELSE f[Chosen(s)] + g[Rest(s)]]

\* The subsets of S with at most n elements.
Small(S, n) == {s \in SUBSET S : Cardinality(s) <= n}

-----------------------------------------------------------------------------
\* A non-empty set of numbers has a least element.
LEMMA LeastNumber ==
    ASSUME NEW N, N \subseteq Nat, N # {}
    PROVE  \E m \in N : \A k \in N : m <= k
<1>1. PICK m \in N : \A k \in N : ~(<<k, m>> \in OpToRel(<, Nat))
  BY WFMin, NatLessThanWellFounded
<1>2. \A k \in N : ~(k < m)
  BY <1>1 DEF OpToRel
<1> QED BY <1>2

\* A non-empty set of finite sets has a smallest member.
LEMMA SmallestSet ==
    ASSUME NEW B, B # {}, \A T \in B : IsFiniteSet(T)
    PROVE  \E T \in B : \A U \in B : Cardinality(T) <= Cardinality(U)
<1> DEFINE N == {Cardinality(T) : T \in B}
<1>1. \A T \in B : Cardinality(T) \in Nat
  BY FS_CardinalityType
<1>2. N \subseteq Nat /\ N # {}
  BY <1>1
<1>3. PICK m \in N : \A k \in N : m <= k
  <2> HIDE DEF N
  <2> QED BY <1>2, LeastNumber
<1> QED BY <1>3

\* Without its first element a set is smaller.
LEMMA RestIsSmaller ==
    ASSUME NEW s, IsFiniteSet(s), s # {}
    PROVE  /\ Chosen(s) \in s
           /\ IsFiniteSet(Rest(s)) /\ Rest(s) \subseteq s
           /\ Cardinality(s) \in Nat /\ Cardinality(Rest(s)) \in Nat
           /\ Cardinality(Rest(s)) = Cardinality(s) - 1
<1>1. Chosen(s) \in s
  BY DEF Chosen
<1>2. IsFiniteSet(s \ {Chosen(s)}) /\ Cardinality(s \ {Chosen(s)}) = Cardinality(s) - 1
  BY <1>1, FS_RemoveElement
<1>3. Cardinality(s) \in Nat /\ Cardinality(s \ {Chosen(s)}) \in Nat
  BY <1>2, FS_CardinalityType
<1> QED BY <1>1, <1>2, <1>3 DEF Rest

\* If the sums of the subsets with up to n elements exist, so do those of the
\* subsets with one more.
LEMMA FoldGrows ==
    ASSUME NEW f, NEW S, IsFiniteSet(S), NEW n \in Nat,
           NEW g, IsFold(f, Small(S, n), g)
    PROVE  \E h : IsFold(f, Small(S, n + 1), h)
<1> DEFINE h == [s \in Small(S, n + 1) |-> IF s = {} THEN 0 ELSE f[Chosen(s)] + g[Rest(s)]]
<1>1. ASSUME NEW s \in Small(S, n + 1), s # {}
      PROVE  Rest(s) \in Small(S, n) /\ Rest(s) \in Small(S, n + 1)
  <2>1. s \subseteq S /\ IsFiniteSet(s) /\ Cardinality(s) <= n + 1
    BY FS_Subset DEF Small
  <2>2. /\ Rest(s) \subseteq s /\ Cardinality(s) \in Nat /\ Cardinality(Rest(s)) \in Nat
        /\ Cardinality(Rest(s)) = Cardinality(s) - 1
    BY <1>1, <2>1, RestIsSmaller
  <2> QED BY <2>1, <2>2 DEF Small
<1>2. ASSUME NEW s \in Small(S, n), s \in Small(S, n + 1)
      PROVE  h[s] = g[s]
  <2>1. g[s] = IF s = {} THEN 0 ELSE f[Chosen(s)] + g[Rest(s)]
    BY DEF IsFold
  <2> QED BY <1>2, <2>1
<1>3. h = [s \in Small(S, n + 1) |-> IF s = {} THEN 0 ELSE f[Chosen(s)] + h[Rest(s)]]
  <2>1. \A s \in Small(S, n + 1) : s # {} => h[Rest(s)] = g[Rest(s)]
    <3> HIDE DEF h
    <3> QED BY <1>1, <1>2
  <2>2. \A s \in Small(S, n + 1) :
           (IF s = {} THEN 0 ELSE f[Chosen(s)] + g[Rest(s)])
             = (IF s = {} THEN 0 ELSE f[Chosen(s)] + h[Rest(s)])
    <3> HIDE DEF h
    <3> QED BY <2>1
  <2> QED BY <2>2
<1> QED BY <1>3 DEF IsFold

\* The sums over all subsets of a finite set exist.
LEMMA FoldExists ==
    ASSUME NEW f, NEW S, IsFiniteSet(S)
    PROVE  \E g : IsFold(f, SUBSET S, g)
<1> DEFINE Bad == {n \in Nat : ~\E g : IsFold(f, Small(S, n), g)}
<1>1. \E g : IsFold(f, Small(S, 0), g)
  <2> DEFINE g == [s \in {{}} |-> 0]
  <2>1. Small(S, 0) = {{}}
    <3>1. \A s \in SUBSET S : IsFiniteSet(s) /\ Cardinality(s) \in Nat
      BY FS_Subset, FS_CardinalityType
    <3>2. \A s \in SUBSET S : Cardinality(s) <= 0 <=> s = {}
      BY <3>1, FS_EmptySet
    <3> QED BY <3>2 DEF Small
  <2>2. g = [s \in {{}} |-> IF s = {} THEN 0 ELSE f[Chosen(s)] + g[Rest(s)]]
    OBVIOUS
  <2> QED BY <2>1, <2>2 DEF IsFold
<1>2. Bad = {}
  <2> SUFFICES ASSUME Bad # {} PROVE FALSE
    OBVIOUS
  <2>1. Bad \subseteq Nat
    OBVIOUS
  <2>2. PICK m \in Bad : \A k \in Bad : m <= k
    <3> HIDE DEF Bad
    <3> QED BY <2>1, LeastNumber
  <2>3. m \in Nat /\ m # 0
    BY <1>1
  <2>4. m - 1 \in Nat /\ ~(m <= m - 1) /\ m = (m - 1) + 1
    BY <2>3
  <2>5. PICK g : IsFold(f, Small(S, m - 1), g)
    <3>1. m - 1 \notin Bad
      BY <2>2, <2>4
    <3> QED BY <2>4, <3>1
  <2>6. \E h : IsFold(f, Small(S, (m - 1) + 1), h)
    BY <2>4, <2>5, FoldGrows
  <2> QED BY <2>4, <2>6
<1>3. Cardinality(S) \in Nat /\ Cardinality(S) \notin Bad
  BY <1>2, FS_CardinalityType
<1>4. Small(S, Cardinality(S)) = SUBSET S
  BY FS_Subset DEF Small
<1> QED BY <1>3, <1>4

\* The sum over S is a value of the fold over the subsets of S.
LEMMA SumIsFold ==
    ASSUME NEW f, NEW S, IsFiniteSet(S)
    PROVE  \E g : IsFold(f, SUBSET S, g) /\ SumFunctionOnSet(f, S) = g[S]
<1>1. SumFunctionOnSet(f, S) = (CHOOSE g : IsFold(f, SUBSET S, g))[S]
  BY DEF SumFunctionOnSet, FoldFunctionOnSet, MapThenFoldSet, IsFold, Chosen, Rest
<1>2. IsFold(f, SUBSET S, CHOOSE g : IsFold(f, SUBSET S, g))
  BY FoldExists, Zenon
<1> QED BY <1>1, <1>2

\* The empty sum.
LEMMA FoldEmpty ==
    ASSUME NEW f, NEW S, NEW g, IsFold(f, SUBSET S, g)
    PROVE  g[{}] = 0
BY DEF IsFold

\* A sum is its first summand and the rest.
LEMMA FoldStep ==
    ASSUME NEW f, NEW S, NEW g, IsFold(f, SUBSET S, g), NEW T \in SUBSET S, T # {}
    PROVE  g[T] = f[Chosen(T)] + g[Rest(T)]
BY DEF IsFold

-----------------------------------------------------------------------------
(***************************************************************************)
(* Folds of two functions.                                                 *)
(***************************************************************************)
\* Sums of numbers of a kind that is closed under addition are of that kind.
LEMMA FoldClosed ==
    ASSUME NEW f, NEW S, NEW g, NEW I, IsFiniteSet(S), IsFold(f, SUBSET S, g),
           0 \in I, \A m, n \in I : m + n \in I, \A x \in S : f[x] \in I
    PROVE  \A T \in SUBSET S : g[T] \in I
<1> DEFINE Bad == {T \in SUBSET S : g[T] \notin I}
<1> SUFFICES ASSUME Bad # {} PROVE FALSE
  OBVIOUS
<1>1. \A T \in Bad : IsFiniteSet(T) /\ T \in SUBSET S
  BY FS_Subset
<1>2. PICK T \in Bad : \A U \in Bad : Cardinality(T) <= Cardinality(U)
  <2> HIDE DEF Bad
  <2> QED BY <1>1, SmallestSet
<1>3. T # {}
  <2>1. g[{}] \in I
    BY FoldEmpty
  <2>2. g[T] \notin I
    OBVIOUS
  <2> QED BY <2>1, <2>2, Zenon
<1>4. /\ Chosen(T) \in T /\ Rest(T) \in SUBSET S
      /\ Cardinality(T) \in Nat /\ Cardinality(Rest(T)) = Cardinality(T) - 1
  BY <1>1, <1>3, RestIsSmaller
<1>5. Rest(T) \notin Bad
  BY <1>2, <1>4
<1>6. g[Rest(T)] \in I /\ f[Chosen(T)] \in I
  BY <1>4, <1>5
<1>7. g[T] = f[Chosen(T)] + g[Rest(T)]
  BY <1>3, FoldStep
<1> QED BY <1>6, <1>7

\* Sums of integers are integers.
LEMMA FoldType ==
    ASSUME NEW f, NEW S, IsFiniteSet(S), NEW g, IsFold(f, SUBSET S, g),
           \A x \in S : f[x] \in Int
    PROVE  \A T \in SUBSET S : g[T] \in Int
<1>1. 0 \in Int /\ \A m, n \in Int : m + n \in Int
  OBVIOUS
<1> QED BY <1>1, FoldClosed

\* Sums of natural numbers are natural numbers.
LEMMA FoldNat ==
    ASSUME NEW f, NEW S, IsFiniteSet(S), NEW g, IsFold(f, SUBSET S, g),
           \A x \in S : f[x] \in Nat
    PROVE  \A T \in SUBSET S : g[T] \in Nat
<1>1. 0 \in Nat /\ \A m, n \in Nat : m + n \in Nat
  OBVIOUS
<1> QED BY <1>1, FoldClosed

\* Functions that agree on T have the same sum over T, whatever set the folds
\* are over.
LEMMA FoldsAgree ==
    ASSUME NEW S, NEW T, NEW e, NEW f, NEW g, NEW h,
           IsFold(e, SUBSET S, g), IsFold(f, SUBSET T, h),
           IsFiniteSet(S), T \in SUBSET S, \A x \in T : e[x] = f[x]
    PROVE  g[T] = h[T]
<1> DEFINE Bad == {U \in SUBSET T : g[U] # h[U]}
<1>1. Bad = {}
  <2> SUFFICES ASSUME Bad # {} PROVE FALSE
    OBVIOUS
  <2>1. \A U \in Bad : IsFiniteSet(U) /\ U \in SUBSET S /\ U \in SUBSET T
    BY FS_Subset
  <2>2. PICK U \in Bad : \A V \in Bad : Cardinality(U) <= Cardinality(V)
    <3> HIDE DEF Bad
    <3> QED BY <2>1, SmallestSet
  <2>3. U # {}
    <3>1. g[{}] = 0 /\ h[{}] = 0
      BY FoldEmpty
    <3> QED BY <3>1
  <2>4. /\ Chosen(U) \in U /\ Rest(U) \in SUBSET T
        /\ Cardinality(U) \in Nat /\ Cardinality(Rest(U)) = Cardinality(U) - 1
    BY <2>1, <2>3, RestIsSmaller
  <2>5. Rest(U) \notin Bad
    BY <2>2, <2>4
  <2>6. g[Rest(U)] = h[Rest(U)] /\ e[Chosen(U)] = f[Chosen(U)]
    BY <2>4, <2>5
  <2>7. g[U] = e[Chosen(U)] + g[Rest(U)] /\ h[U] = f[Chosen(U)] + h[Rest(U)]
    BY <2>1, <2>3, FoldStep
  <2> QED BY <2>6, <2>7
<1> QED BY <1>1

\* The effect of one summand.
LEMMA FoldsDiffer ==
    ASSUME NEW S, IsFiniteSet(S), NEW x \in S, NEW e, NEW f,
           \A y \in S : e[y] \in Int /\ f[y] \in Int,
           \A y \in S \ {x} : e[y] = f[y],
           NEW g, IsFold(e, SUBSET S, g), NEW h, IsFold(f, SUBSET S, h)
    PROVE  h[S] = g[S] + (f[x] - e[x])
<1> DEFINE Diff(T) == IF x \in T THEN f[x] - e[x] ELSE 0
           Bad     == {T \in SUBSET S : h[T] # g[T] + Diff(T)}
<1>1. Bad = {}
  <2> SUFFICES ASSUME Bad # {} PROVE FALSE
    OBVIOUS
  <2>1. \A T \in Bad : IsFiniteSet(T) /\ T \in SUBSET S
    BY FS_Subset
  <2>2. PICK T \in Bad : \A U \in Bad : Cardinality(T) <= Cardinality(U)
    <3> HIDE DEF Bad
    <3> QED BY <2>1, SmallestSet
  <2>3. T # {}
    <3>1. h[{}] = g[{}] + Diff({})
      BY FoldEmpty
    <3>2. h[T] # g[T] + Diff(T)
      OBVIOUS
    <3> QED BY <3>1, <3>2, Zenon
  <2>4. /\ Chosen(T) \in T /\ Rest(T) \in SUBSET S
        /\ Cardinality(T) \in Nat /\ Cardinality(Rest(T)) = Cardinality(T) - 1
    BY <2>1, <2>3, RestIsSmaller
  <2>5. Rest(T) \notin Bad
    BY <2>2, <2>4
  <2>6. h[Rest(T)] = g[Rest(T)] + Diff(Rest(T))
    BY <2>4, <2>5
  <2>7. h[T] = f[Chosen(T)] + h[Rest(T)] /\ g[T] = e[Chosen(T)] + g[Rest(T)]
    BY <2>3, FoldStep
  <2>8. h[Rest(T)] \in Int /\ g[Rest(T)] \in Int
    BY <2>4, FoldType
  <2>9. /\ e[Chosen(T)] \in Int /\ f[Chosen(T)] \in Int /\ e[x] \in Int /\ f[x] \in Int
        /\ Chosen(T) # x => e[Chosen(T)] = f[Chosen(T)]
    BY <2>4
  <2>10. x \in Rest(T) <=> x \in T /\ x # Chosen(T)
    BY DEF Rest
  <2>11. h[T] = g[T] + Diff(T)
    <3>1. CASE x = Chosen(T)
      <4>1. Diff(T) = f[x] - e[x] /\ Diff(Rest(T)) = 0
        BY <2>4, <2>10, <3>1
      <4> QED BY <2>6, <2>7, <2>8, <2>9, <3>1, <4>1
    <3>2. CASE x # Chosen(T)
      <4>1. Diff(T) = Diff(Rest(T)) /\ Diff(T) \in Int
        BY <2>9, <2>10, <3>2
      <4> QED BY <2>6, <2>7, <2>8, <2>9, <3>2, <4>1
    <3> QED BY <3>1, <3>2
  <2> QED BY <2>11
<1>2. h[S] = g[S] + Diff(S)
  BY <1>1
<1> QED BY <1>2

\* Any element may be taken first.
LEMMA FoldTakes ==
    ASSUME NEW f, NEW S, IsFiniteSet(S), \A y \in S : f[y] \in Int,
           NEW g, IsFold(f, SUBSET S, g)
    PROVE  \A T \in SUBSET S : \A x \in T : g[T] = f[x] + g[T \ {x}]
<1> DEFINE Bad == {T \in SUBSET S : \E x \in T : g[T] # f[x] + g[T \ {x}]}
<1> SUFFICES ASSUME Bad # {} PROVE FALSE
  OBVIOUS
<1>1. \A T \in Bad : IsFiniteSet(T) /\ T \in SUBSET S
  BY FS_Subset
<1>2. PICK T \in Bad : \A U \in Bad : Cardinality(T) <= Cardinality(U)
  <2> HIDE DEF Bad
  <2> QED BY <1>1, SmallestSet
<1>3. PICK x \in T : g[T] # f[x] + g[T \ {x}]
  OBVIOUS
<1> DEFINE c == Chosen(T)
<1>4. c \in T /\ Rest(T) = T \ {c} /\ g[T] = f[c] + g[T \ {c}]
  <2>1. Chosen(T) \in T
    BY <1>3 DEF Chosen
  <2> QED BY <1>3, <2>1, FoldStep DEF Rest
<1>5. x # c
  BY <1>3, <1>4
<1> HIDE DEF c
<1>6. \A y \in T : /\ T \ {y} \in SUBSET S /\ IsFiniteSet(T \ {y})
                   /\ Cardinality(T \ {y}) = Cardinality(T) - 1 /\ Cardinality(T) \in Nat
  BY <1>1, FS_RemoveElement, FS_CardinalityType
<1>7. T \ {c} \notin Bad /\ T \ {x} \notin Bad
  <2> HIDE DEF Bad
  <2>1. ASSUME NEW y \in T PROVE ~(Cardinality(T) <= Cardinality(T \ {y}))
    <3>1. Cardinality(T \ {y}) = Cardinality(T) - 1 /\ Cardinality(T) \in Nat
      BY <1>6
    <3> QED BY <3>1
  <2> QED BY <1>2, <1>4, <2>1
<1>8. g[T \ {c}] = f[x] + g[(T \ {c}) \ {x}]
  BY <1>4, <1>5, <1>6, <1>7
<1>9. g[T \ {x}] = f[c] + g[(T \ {x}) \ {c}]
  BY <1>4, <1>5, <1>6, <1>7
<1>10. (T \ {c}) \ {x} = (T \ {x}) \ {c} /\ (T \ {x}) \ {c} \in SUBSET S
  OBVIOUS
<1>11. g[(T \ {x}) \ {c}] \in Int /\ f[c] \in Int /\ f[x] \in Int
  <2>1. \A U \in SUBSET S : g[U] \in Int
    BY FoldType, Zenon
  <2>2. T \in SUBSET S
    BY <1>1
  <2> HIDE DEF Bad
  <2> QED BY <1>4, <1>10, <2>1, <2>2
<1> HIDE DEF Bad
<1>12. g[T \ {c}] = f[x] + g[(T \ {x}) \ {c}]
  BY <1>8, <1>10, Zenon
<1>13. f[c] + g[T \ {c}] = f[x] + g[T \ {x}]
  BY <1>9, <1>11, <1>12
<1> QED BY <1>3, <1>4, <1>13

-----------------------------------------------------------------------------
(***************************************************************************)
(* Sums.                                                                   *)
(***************************************************************************)
\* The sum of integers is an integer, and 0 over no elements.
THEOREM SumType ==
    ASSUME NEW S, NEW f, IsFiniteSet(S), \A x \in S : f[x] \in Int
    PROVE  SumFunctionOnSet(f, S) \in Int
<1>1. PICK g : IsFold(f, SUBSET S, g) /\ SumFunctionOnSet(f, S) = g[S]
  BY SumIsFold
<1>2. S \in SUBSET S
  OBVIOUS
<1> QED BY <1>1, <1>2, FoldType

\* The sum over no accounts or payouts is 0.
THEOREM SumEmpty == ASSUME NEW f PROVE SumFunctionOnSet(f, {}) = 0
<1>1. PICK g : IsFold(f, SUBSET {}, g) /\ SumFunctionOnSet(f, {}) = g[{}]
  BY SumIsFold, FS_EmptySet
<1>2. {} \in SUBSET {}
  OBVIOUS
<1> QED BY <1>1, <1>2, FoldEmpty

\* The sum depends on nothing but the summands.
THEOREM SumSame ==
    ASSUME NEW S, NEW e, NEW f, IsFiniteSet(S), \A x \in S : e[x] = f[x]
    PROVE  SumFunctionOnSet(e, S) = SumFunctionOnSet(f, S)
<1>1. PICK g : IsFold(e, SUBSET S, g) /\ SumFunctionOnSet(e, S) = g[S]
  BY SumIsFold
<1>2. PICK h : IsFold(f, SUBSET S, h) /\ SumFunctionOnSet(f, S) = h[S]
  BY SumIsFold
<1>3. S \in SUBSET S
  OBVIOUS
<1>4. g[S] = h[S]
  BY <1>1, <1>2, <1>3, FoldsAgree
<1> QED BY <1>1, <1>2, <1>4

\* A summand that changes changes the sum by as much.
THEOREM SumChanged ==
    ASSUME NEW S, NEW x, NEW e, NEW f, IsFiniteSet(S), x \in S,
           \A y \in S : e[y] \in Int /\ f[y] \in Int,
           \A y \in S \ {x} : e[y] = f[y]
    PROVE  SumFunctionOnSet(f, S) = SumFunctionOnSet(e, S) + (f[x] - e[x])
<1>1. PICK g : IsFold(e, SUBSET S, g) /\ SumFunctionOnSet(e, S) = g[S]
  BY SumIsFold
<1>2. PICK h : IsFold(f, SUBSET S, h) /\ SumFunctionOnSet(f, S) = h[S]
  BY SumIsFold
<1>3. h[S] = g[S] + (f[x] - e[x])
  BY <1>1, <1>2, FoldsDiffer
<1> QED BY <1>1, <1>2, <1>3

\* A fold over the subsets of S also knows the sums over the subsets.
LEMMA FoldIsSum ==
    ASSUME NEW S, NEW T, NEW f, NEW g, IsFold(f, SUBSET S, g),
           IsFiniteSet(S), T \in SUBSET S
    PROVE  g[T] = SumFunctionOnSet(f, T)
<1>1. IsFiniteSet(T)
  BY FS_Subset
<1>2. PICK h : IsFold(f, SUBSET T, h) /\ SumFunctionOnSet(f, T) = h[T]
  BY <1>1, SumIsFold
<1>3. g[T] = h[T]
  BY <1>2, FoldsAgree
<1> QED BY <1>2, <1>3

\* One element more adds its summand.
THEOREM SumAdded ==
    ASSUME NEW S, NEW x, NEW f, IsFiniteSet(S), x \notin S,
           \A y \in S \cup {x} : f[y] \in Int
    PROVE  SumFunctionOnSet(f, S \cup {x}) = SumFunctionOnSet(f, S) + f[x]
<1> DEFINE T == S \cup {x}
<1>1. IsFiniteSet(T) /\ S \in SUBSET T /\ T \ {x} = S
  BY FS_AddElement
<1>2. x \in T /\ T \in SUBSET T /\ \A y \in T : f[y] \in Int
  OBVIOUS
<1> HIDE DEF T
<1>3. PICK g : IsFold(f, SUBSET T, g) /\ SumFunctionOnSet(f, T) = g[T]
  BY <1>1, SumIsFold
<1>4. g[S] = SumFunctionOnSet(f, S)
  BY <1>1, <1>3, FoldIsSum
<1>5. g[T] = f[x] + g[S]
  BY <1>1, <1>2, <1>3, FoldTakes
<1>6. g[S] \in Int /\ f[x] \in Int
  BY <1>1, <1>2, <1>3, FoldType
<1> QED BY <1>3, <1>4, <1>5, <1>6 DEF T

\* A sum of naturals is at least each of its summands.
THEOREM SumAtLeast ==
    ASSUME NEW S, NEW x, NEW f, IsFiniteSet(S), x \in S, \A y \in S : f[y] \in Nat
    PROVE  SumFunctionOnSet(f, S) >= f[x]
<1>1. PICK g : IsFold(f, SUBSET S, g) /\ SumFunctionOnSet(f, S) = g[S]
  BY SumIsFold
<1>2. S \in SUBSET S /\ S \ {x} \in SUBSET S /\ \A y \in S : f[y] \in Int
  OBVIOUS
<1>3. g[S] = f[x] + g[S \ {x}]
  BY <1>1, <1>2, FoldTakes
<1>4. g[S \ {x}] \in Nat /\ f[x] \in Nat
  BY <1>1, <1>2, FoldNat
<1> QED BY <1>1, <1>3, <1>4

\* A sum of naturals is at least the sum over a part of the set.
THEOREM SumOfPart ==
    ASSUME NEW S, NEW T, NEW f, IsFiniteSet(S), T \subseteq S, \A y \in S : f[y] \in Nat
    PROVE  SumFunctionOnSet(f, T) <= SumFunctionOnSet(f, S)
<1>1. PICK g : IsFold(f, SUBSET S, g) /\ SumFunctionOnSet(f, S) = g[S]
  BY SumIsFold
<1>2. g[T] = SumFunctionOnSet(f, T)
  BY <1>1, FoldIsSum
<1>3. \A U \in SUBSET S : g[U] \in Nat
  BY <1>1, FoldNat
<1>4. \A y \in S : f[y] \in Int
  OBVIOUS
<1> DEFINE Bad == {U \in SUBSET S : T \subseteq U /\ ~(g[T] <= g[U])}
<1>5. Bad = {}
  <2> SUFFICES ASSUME Bad # {} PROVE FALSE
    OBVIOUS
  <2>1. \A U \in Bad : IsFiniteSet(U) /\ U \in SUBSET S
    BY FS_Subset
  <2>2. PICK U \in Bad : \A V \in Bad : Cardinality(U) <= Cardinality(V)
    <3> HIDE DEF Bad
    <3> QED BY <2>1, SmallestSet
  <2>3. U \in SUBSET S /\ T \subseteq U /\ ~(g[T] <= g[U]) /\ g[T] \in Nat
    BY <1>3, <2>2
  <2>4. PICK x \in U : x \notin T
    BY <2>3
  <2>5. U \ {x} \in SUBSET S /\ T \subseteq U \ {x} /\ x \in S
    BY <2>3, <2>4
  <2>6. U \ {x} \notin Bad
    <3> HIDE DEF Bad
    <3>1. Cardinality(U \ {x}) = Cardinality(U) - 1 /\ Cardinality(U) \in Nat
      BY <2>1, <2>2, <2>4, FS_RemoveElement, FS_CardinalityType
    <3>2. ~(Cardinality(U) <= Cardinality(U \ {x}))
      BY <3>1
    <3> QED BY <2>2, <3>2
  <2>7. g[T] <= g[U \ {x}]
    BY <2>5, <2>6
  <2>8. g[U] = f[x] + g[U \ {x}]
    <3> HIDE DEF Bad
    <3> QED BY <1>1, <1>4, <2>3, FoldTakes
  <2>9. f[x] \in Nat /\ g[U \ {x}] \in Nat
    BY <1>3, <2>5
  <2> QED BY <2>3, <2>7, <2>8, <2>9
<1>6. g[T] <= g[S]
  BY <1>5
<1> QED BY <1>1, <1>2, <1>6
=============================================================================
