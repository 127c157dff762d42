--------------------------- MODULE DiscountMathProofs ---------------------------
(***************************************************************************)
(* Facts about sums, of a sequence of amounts of any length and over a       *)
(* finite set, and about the split of a discount.  The library's induction   *)
(* theorems take an operator; induction is done here on a set of numbers, by *)
(* the well-foundedness of the finite subsets of a set.                      *)
(***************************************************************************)
EXTENDS DiscountMath, FiniteSetsExt, FiniteSetTheorems, WellFoundedInduction, TLAPS

\* A set of numbers that is not empty has a least one.
LEMMA LeastNatural ==
  ASSUME NEW T \in SUBSET Nat, T # {}
  PROVE  \E n \in T : \A m \in T : n <= m
<1> DEFINE Below == {0..n : n \in T}
<1>1. Below \subseteq FiniteSubsetsOf(Nat) /\ Below # {}
  <2>1. ASSUME NEW n \in T PROVE IsFiniteSet(0..n) /\ 0..n \in SUBSET Nat
    BY FS_Interval
  <2> QED
    BY <2>1 DEF FiniteSubsetsOf
<1>2. PICK B \in Below : \A C \in Below : ~(<<C, B>> \in StrictSubsetOrdering(Nat))
  <2> HIDE DEF Below
  <2> QED
    BY <1>1, WFMin, FS_StrictSubsetOrderingWellFounded
<1>3. PICK n \in T : B = 0..n
  OBVIOUS
<1>4. ASSUME NEW m \in T PROVE n <= m
  <2>1. 0..m \in Below /\ 0..m \in SUBSET Nat /\ 0..n \in SUBSET Nat
    OBVIOUS
  <2>2. ~(0..m \subseteq 0..n /\ 0..m # 0..n)
    <3> HIDE DEF Below
    <3>1. <<0..m, 0..n>> \notin StrictSubsetOrdering(Nat)
      BY <2>1, <1>2, <1>3
    <3> QED
      BY <2>1, <3>1, Zenon DEF StrictSubsetOrdering
  <2> QED
    BY <2>2
<1> QED
  BY <1>4

\* What holds at zero and with a number at its successor holds up to N.
LEMMA Upto ==
  ASSUME NEW N \in Nat, NEW T \in SUBSET (0..N), 0 \in T,
         \A n \in 1..N : n - 1 \in T => n \in T
  PROVE  T = 0..N
<1> DEFINE B == (0..N) \ T
<1> SUFFICES ASSUME B # {} PROVE FALSE
  OBVIOUS
<1>1. PICK n \in B : \A m \in B : n <= m
  <2>1. B \in SUBSET Nat
    OBVIOUS
  <2> HIDE DEF B
  <2> QED
    BY <2>1, LeastNatural
<1>2. n \in 1..N
  OBVIOUS
<1>3. n - 1 \in 0..N /\ n - 1 \notin B
  BY <1>1, <1>2
<1> QED
  BY <1>2, <1>3

\* f solves the recursion over numbers that starts with a and has the step F.
Solves(f, N, a, F) == f[0] = a /\ \A n \in 1..N : f[n] = F[<<n, f[n - 1]>>]

\* A recursion over numbers whose step is a function has a solution.
LEMMA RecursionExists ==
  ASSUME NEW N \in Nat, NEW S, NEW a \in S, NEW F \in [(1..N) \X S -> S]
  PROVE  \E f \in [0..N -> S] : Solves(f, N, a, F)
<1> DEFINE T == {m \in 0..N : \E f \in [0..m -> S] : Solves(f, m, a, F)}
<1>1. 0 \in T
  <2> DEFINE f == [i \in 0..0 |-> a]
  <2>1. f \in [0..0 -> S] /\ Solves(f, 0, a, F) /\ 0 \in 0..N
    BY DEF Solves
  <2> HIDE DEF f
  <2> QED
    BY <2>1
<1>2. ASSUME NEW m \in 1..N, m - 1 \in T PROVE m \in T
  <2>1. PICK g \in [0..(m - 1) -> S] : Solves(g, m - 1, a, F)
    BY <1>2
  <2> DEFINE f == [i \in 0..m |-> IF i = m THEN F[<<m, g[m - 1]>>] ELSE g[i]]
  <2>2. g[m - 1] \in S /\ <<m, g[m - 1]>> \in (1..N) \X S
    BY <2>1
  <2>3. f \in [0..m -> S]
    BY <2>1, <2>2
  <2>4. f[0] = a
    BY <2>1 DEF Solves
  <2>5. ASSUME NEW n \in 1..m PROVE f[n] = F[<<n, f[n - 1]>>]
    <3>1. f[n - 1] = g[n - 1]
      OBVIOUS
    <3>2. CASE n = m
      <4>1. f[n] = F[<<m, g[m - 1]>>]
        BY <3>2
      <4> QED
        BY <3>1, <3>2, <4>1
    <3>3. CASE n # m
      <4>1. n \in 1..(m - 1) /\ f[n] = g[n]
        BY <3>3
      <4> QED
        BY <2>1, <3>1, <4>1 DEF Solves
    <3> QED
      BY <3>2, <3>3
  <2> HIDE DEF f
  <2> QED
    BY <2>3, <2>4, <2>5 DEF Solves
<1>3. T = 0..N
  <2>1. T \in SUBSET (0..N)
    OBVIOUS
  <2> HIDE DEF T
  <2> QED
    BY <1>1, <1>2, <2>1, Upto
<1>4. N \in T
  <2> HIDE DEF T
  <2> QED
    BY <1>3
<1> QED
  BY <1>4

-----------------------------------------------------------------------------
(***************************************************************************)
(* The sum of a sequence of amounts                                          *)
(***************************************************************************)

\* The partial sums of a sequence: the function inside Total.
PartialSums(s) == CHOOSE f : f = [i \in 0..Len(s) |-> IF i = 0 THEN 0 ELSE f[i - 1] + s[i]]

\* A function with the equations of the partial sums.
SumsUp(f, n, s) == f[0] = 0 /\ \A i \in 1..n : f[i] = f[i - 1] + s[i]

LEMMA SumsExist ==
  ASSUME NEW N \in Nat, NEW s \in [1..N -> Int]
  PROVE  \E f \in [0..N -> Int] : SumsUp(f, N, s)
<1> DEFINE T == {n \in 0..N : \E f \in [0..n -> Int] : SumsUp(f, n, s)}
<1>1. 0 \in T
  <2> DEFINE f == [i \in 0..0 |-> 0]
  <2>1. f \in [0..0 -> Int] /\ SumsUp(f, 0, s)
    BY DEF SumsUp
  <2> QED
    BY <2>1
<1>2. ASSUME NEW n \in 1..N, n - 1 \in T PROVE n \in T
  <2>1. PICK g \in [0..(n - 1) -> Int] : SumsUp(g, n - 1, s)
    BY <1>2
  <2> DEFINE f == [i \in 0..n |-> IF i = n THEN g[n - 1] + s[n] ELSE g[i]]
  <2>2. f \in [0..n -> Int]
    OBVIOUS
  <2>3. f[0] = 0
    BY <2>1 DEF SumsUp
  <2>4. ASSUME NEW i \in 1..n PROVE f[i] = f[i - 1] + s[i]
    <3>1. CASE i = n
      BY <3>1
    <3>2. CASE i # n
      BY <2>1, <3>2 DEF SumsUp
    <3> QED
      BY <3>1, <3>2
  <2> HIDE DEF f
  <2>5. SumsUp(f, n, s)
    BY <2>3, <2>4 DEF SumsUp
  <2> QED
    BY <2>2, <2>5
<1>3. T = 0..N
  <2>1. T \in SUBSET (0..N)
    OBVIOUS
  <2> HIDE DEF T
  <2> QED
    BY <1>1, <1>2, <2>1, Upto
<1> QED
  BY <1>3

\* Total is the last of the partial sums, which are what they are called.
LEMMA TotalSumsUp ==
  ASSUME NEW N \in Nat, NEW s \in [1..N -> Int]
  PROVE  /\ PartialSums(s) \in [0..N -> Int]
         /\ SumsUp(PartialSums(s), N, s)
         /\ Total(s) = PartialSums(s)[N]
<1>1. s \in Seq(Int) /\ Len(s) = N
  OBVIOUS
<1>2. PICK f \in [0..N -> Int] : SumsUp(f, N, s)
  BY SumsExist
<1>3. f = [i \in 0..Len(s) |-> IF i = 0 THEN 0 ELSE f[i - 1] + s[i]]
  BY <1>1, <1>2 DEF SumsUp
<1>4. PartialSums(s) = [i \in 0..Len(s) |-> IF i = 0 THEN 0 ELSE PartialSums(s)[i - 1] + s[i]]
  BY <1>3, Zenon DEF PartialSums
<1>5. Total(s) = PartialSums(s)[Len(s)]
  BY Zenon DEF Total, PartialSums
<1> DEFINE p == PartialSums(s)
<1>6. p = [i \in 0..N |-> IF i = 0 THEN 0 ELSE p[i - 1] + s[i]]
  BY <1>1, <1>4
<1> HIDE DEF p
<1>7. SumsUp(p, N, s)
  BY <1>6 DEF SumsUp
<1>8. \A i \in 0..N : p[i] \in Int
  <2> DEFINE T == {i \in 0..N : p[i] \in Int}
  <2>1. 0 \in T
    BY <1>7 DEF SumsUp
  <2>2. \A i \in 1..N : i - 1 \in T => i \in T
    BY <1>7 DEF SumsUp
  <2>3. T = 0..N
    <3>1. T \in SUBSET (0..N)
      OBVIOUS
    <3> HIDE DEF T
    <3> QED
      BY <2>1, <2>2, <3>1, Upto
  <2> QED
    BY <2>3
<1>9. p \in [0..N -> Int]
  <2>1. DOMAIN p = 0..N /\ p = [i \in 0..N |-> p[i]]
    BY <1>6
  <2> QED
    BY <1>8, <2>1
<1> QED
  BY <1>1, <1>5, <1>7, <1>9 DEF p

\* The sum is additive.
LEMMA TotalAdds ==
  ASSUME NEW N \in Nat, NEW a \in [1..N -> Int], NEW b \in [1..N -> Int], NEW c \in [1..N -> Int],
         \A i \in 1..N : c[i] = a[i] + b[i]
  PROVE  Total(c) = Total(a) + Total(b)
<1> DEFINE p == PartialSums(a)
           q == PartialSums(b)
           r == PartialSums(c)
           T == {i \in 0..N : r[i] = p[i] + q[i]}
<1>1. /\ p \in [0..N -> Int] /\ q \in [0..N -> Int] /\ r \in [0..N -> Int]
      /\ SumsUp(p, N, a) /\ SumsUp(q, N, b) /\ SumsUp(r, N, c)
      /\ Total(a) = p[N] /\ Total(b) = q[N] /\ Total(c) = r[N]
  BY TotalSumsUp
<1> HIDE DEF p, q, r
<1>2. 0 \in T /\ T \in SUBSET (0..N)
  BY <1>1 DEF SumsUp
<1>3. ASSUME NEW n \in 1..N, n - 1 \in T PROVE n \in T
  BY <1>1, <1>3 DEF SumsUp
<1>4. T = 0..N
  <2> HIDE DEF T
  <2> QED
    BY <1>2, <1>3, Upto
<1>5. N \in T
  <2> HIDE DEF T
  <2> QED
    BY <1>4
<1> QED
  BY <1>1, <1>5

LEMMA ScaledSum ==
  ASSUME NEW x \in Int, NEW y \in Int, NEW u \in Int, NEW v \in Int, NEW k \in Int, NEW l \in Int,
         x * k <= l * u, y * k <= l * v
  PROVE  (x + y) * k <= l * (u + v)
<1>1. (x + y) * k = x * k + y * k /\ l * (u + v) = l * u + l * v
  OBVIOUS
<1>2. x * k \in Int /\ y * k \in Int /\ l * u \in Int /\ l * v \in Int
  OBVIOUS
<1> QED
  BY <1>1, <1>2

\* The sum is monotone, also when one side has a factor.
LEMMA TotalScaled ==
  ASSUME NEW N \in Nat, NEW a \in [1..N -> Int], NEW b \in [1..N -> Int], NEW k \in Int, NEW l \in Int,
         \A i \in 1..N : a[i] * k <= l * b[i]
  PROVE  Total(a) * k <= l * Total(b)
<1> DEFINE p == PartialSums(a)
           q == PartialSums(b)
           T == {i \in 0..N : p[i] * k <= l * q[i]}
<1>1. /\ p \in [0..N -> Int] /\ q \in [0..N -> Int]
      /\ SumsUp(p, N, a) /\ SumsUp(q, N, b)
      /\ Total(a) = p[N] /\ Total(b) = q[N]
  BY TotalSumsUp
<1> HIDE DEF p, q
<1>2. 0 \in T /\ T \in SUBSET (0..N)
  BY <1>1 DEF SumsUp
<1>3. ASSUME NEW n \in 1..N, n - 1 \in T PROVE n \in T
  <2>1. /\ p[n - 1] \in Int /\ q[n - 1] \in Int /\ a[n] \in Int /\ b[n] \in Int
        /\ p[n] = p[n - 1] + a[n] /\ q[n] = q[n - 1] + b[n]
    BY <1>1 DEF SumsUp
  <2>2. p[n - 1] * k <= l * q[n - 1] /\ a[n] * k <= l * b[n]
    BY <1>3
  <2>3. p[n] * k <= l * q[n]
    BY <2>1, <2>2, ScaledSum
  <2> QED
    BY <2>3
<1>4. T = 0..N
  <2> HIDE DEF T
  <2> QED
    BY <1>2, <1>3, Upto
<1>5. N \in T
  <2> HIDE DEF T
  <2> QED
    BY <1>4
<1> QED
  BY <1>1, <1>5

LEMMA TotalIsInt == ASSUME NEW N \in Nat, NEW a \in [1..N -> Int] PROVE Total(a) \in Int
  BY TotalSumsUp

LEMMA TotalMonotone ==
  ASSUME NEW N \in Nat, NEW a \in [1..N -> Int], NEW b \in [1..N -> Int], \A i \in 1..N : a[i] <= b[i]
  PROVE  Total(a) <= Total(b)
<1>1. ASSUME NEW k \in Int, k = 1 PROVE Total(a) * k <= k * Total(b)
  <2>1. \A i \in 1..N : a[i] * k <= k * b[i]
    BY <1>1
  <2> QED
    BY <2>1, TotalScaled
<1>2. Total(a) \in Int /\ Total(b) \in Int
  BY TotalIsInt
<1> QED
  BY <1>1, <1>2

\* The sum of one amount, as often as there are places.
LEMMA TotalConstant ==
  ASSUME NEW N \in Nat, NEW k \in Int
  PROVE  Total([i \in 1..N |-> k]) = N * k
<1> DEFINE a == [i \in 1..N |-> k]
           p == PartialSums(a)
           T == {i \in 0..N : p[i] = i * k}
<1>1. a \in [1..N -> Int]
  OBVIOUS
<1>2. p \in [0..N -> Int] /\ SumsUp(p, N, a) /\ Total(a) = p[N]
  BY <1>1, TotalSumsUp
<1>3. \A i \in 1..N : a[i] = k
  OBVIOUS
<1> HIDE DEF a, p
<1>4. 0 \in T /\ T \in SUBSET (0..N)
  BY <1>2 DEF SumsUp
<1>5. ASSUME NEW n \in 1..N, n - 1 \in T PROVE n \in T
  <2>1. p[n] = p[n - 1] + k /\ p[n - 1] = (n - 1) * k
    BY <1>2, <1>3, <1>5 DEF SumsUp
  <2>2. (n - 1) * k + k = n * k
    OBVIOUS
  <2> QED
    BY <2>1, <2>2
<1>6. T = 0..N
  <2> HIDE DEF T
  <2> QED
    BY <1>4, <1>5, Upto
<1>7. Total(a) = N * k
  BY <1>2, <1>6
<1> QED
  BY <1>7 DEF a

LEMMA ZeroTotal == ASSUME NEW N \in Nat PROVE Total([i \in 1..N |-> 0]) = 0
<1>1. PICK k \in Int : k = 0
  OBVIOUS
<1>2. Total([i \in 1..N |-> k]) = N * k
  BY TotalConstant
<1>3. [i \in 1..N |-> k] = [i \in 1..N |-> 0] /\ N * k = 0
  BY <1>1
<1> QED
  BY <1>2, <1>3

\* The sum of amounts that are zero but for one place.
LEMMA TotalSingle ==
  ASSUME NEW N \in Nat, NEW a \in [1..N -> Int], NEW j \in 1..N, \A i \in 1..N : i # j => a[i] = 0
  PROVE  Total(a) = a[j]
<1> DEFINE p == PartialSums(a)
           T == {i \in 0..N : p[i] = IF i < j THEN 0 ELSE a[j]}
<1>1. p \in [0..N -> Int] /\ SumsUp(p, N, a) /\ Total(a) = p[N]
  BY TotalSumsUp
<1> HIDE DEF p
<1>2. 0 \in T /\ T \in SUBSET (0..N)
  BY <1>1 DEF SumsUp
<1>3. ASSUME NEW n \in 1..N, n - 1 \in T PROVE n \in T
  <2>1. p[n] = p[n - 1] + a[n] /\ p[n - 1] = IF n - 1 < j THEN 0 ELSE a[j]
    BY <1>1, <1>3 DEF SumsUp
  <2>2. CASE n < j
    <3>1. a[n] = 0 /\ n - 1 < j
      BY <2>2
    <3>2. p[n] = 0
      BY <2>1, <3>1
    <3> QED
      BY <2>2, <3>2
  <2>3. CASE n = j
    BY <2>1, <2>3
  <2>4. CASE n > j
    BY <2>1, <2>4
  <2> QED
    BY <2>2, <2>3, <2>4
<1>4. T = 0..N
  <2> HIDE DEF T
  <2> QED
    BY <1>2, <1>3, Upto
<1>5. N \in T
  <2> HIDE DEF T
  <2> QED
    BY <1>4
<1> QED
  BY <1>1, <1>5

-----------------------------------------------------------------------------
(***************************************************************************)
(* The sum over a finite set                                                 *)
(***************************************************************************)

\* A set of subsets of S that has the empty one, and every one of which it has all
\* that lack a single element, has them all.
LEMMA EverySubset ==
  ASSUME NEW S, IsFiniteSet(S), NEW P \in SUBSET (SUBSET S), {} \in P,
         \A T \in SUBSET S : T # {} /\ (\A x \in T : T \ {x} \in P) => T \in P
  PROVE  P = SUBSET S
<1> DEFINE N == Cardinality(S)
           K == {n \in 0..N : \A T \in SUBSET S : Cardinality(T) = n => T \in P}
<1>1. \A T \in SUBSET S : IsFiniteSet(T) /\ Cardinality(T) \in Nat /\ Cardinality(T) <= N
  BY FS_Subset, FS_CardinalityType
<1>2. N \in Nat
  BY FS_CardinalityType
<1>3. 0 \in K
  <2>1. ASSUME NEW T \in SUBSET S, Cardinality(T) = 0 PROVE T = {}
    <3>1. IsFiniteSet(T)
      BY <1>1
    <3> QED
      BY <2>1, <3>1, FS_EmptySet
  <2>2. 0 \in 0..N
    BY <1>2
  <2> HIDE DEF N
  <2> QED
    BY <2>1, <2>2
<1>4. ASSUME NEW n \in 1..N, n - 1 \in K PROVE n \in K
  <2> SUFFICES ASSUME NEW T \in SUBSET S, Cardinality(T) = n PROVE T \in P
    BY <1>2
  <2>1. T # {}
    <3>1. Cardinality({}) = 0 /\ n # 0
      BY <1>2, FS_EmptySet
    <3> QED
      BY <3>1
  <2>2. ASSUME NEW x \in T PROVE T \ {x} \in P
    <3>1. T \ {x} \in SUBSET S /\ Cardinality(T \ {x}) = n - 1
      BY <1>1, FS_RemoveElement
    <3> QED
      BY <3>1, <1>4
  <2> QED
    BY <2>1, <2>2
<1>5. K = 0..N
  <2>1. K \in SUBSET (0..N)
    OBVIOUS
  <2> HIDE DEF K, N
  <2> QED
    BY <1>2, <1>3, <1>4, <2>1, Upto
<1>6. ASSUME NEW T \in SUBSET S PROVE T \in P
  <2>1. Cardinality(T) \in 0..N
    BY <1>1, <1>2
  <2> QED
    BY <2>1, <1>5
<1> QED
  BY <1>6

\* The sums over the subsets of S: the function inside MapThenSumSet.
SetSums(f, S) ==
  CHOOSE g : g = [T \in SUBSET S |-> IF T = {} THEN 0
                                     ELSE LET x == CHOOSE y \in T : TRUE IN f[x] + g[T \ {x}]]

\* The sum of f[x] for the x of S.
SumOver(f, S) == SetSums(f, S)[S]

LEMMA MapThenSumSetIsSum ==
  ASSUME NEW f, NEW S PROVE MapThenSumSet(LAMBDA x : f[x], S) = SumOver(f, S)
  BY DEF MapThenSumSet, MapThenFoldSet, SumOver, SetSums

\* The equation of SetSums at T.
AddsUpAt(g, f, T) ==
  g[T] = IF T = {} THEN 0 ELSE LET x == CHOOSE y \in T : TRUE IN f[x] + g[T \ {x}]

LEMMA SetSumsExist ==
  ASSUME NEW S, IsFiniteSet(S), NEW f, \A x \in S : f[x] \in Int
  PROVE  \E g \in [SUBSET S -> Int] : \A T \in SUBSET S : AddsUpAt(g, f, T)
<1> DEFINE N == Cardinality(S)
           Small(n) == {T \in SUBSET S : Cardinality(T) <= n}
           K == {n \in 0..N : \E g \in [Small(n) -> Int] : \A T \in Small(n) : AddsUpAt(g, f, T)}
<1>1. \A T \in SUBSET S : IsFiniteSet(T) /\ Cardinality(T) \in Nat /\ Cardinality(T) <= N
  BY FS_Subset, FS_CardinalityType
<1>2. N \in Nat
  BY FS_CardinalityType
<1>3. 0 \in K
  <2> DEFINE g == [T \in Small(0) |-> 0]
  <2>1. Small(0) = {{}}
    BY <1>1, FS_EmptySet
  <2>2. g \in [Small(0) -> Int] /\ \A T \in Small(0) : AddsUpAt(g, f, T)
    BY <2>1 DEF AddsUpAt
  <2> HIDE DEF g, Small
  <2> QED
    BY <2>2, <1>2
<1>4. ASSUME NEW n \in 1..N, n - 1 \in K PROVE n \in K
  <2>1. PICK g \in [Small(n - 1) -> Int] : \A T \in Small(n - 1) : AddsUpAt(g, f, T)
    BY <1>4
  <2>2. Small(n - 1) \subseteq Small(n)
    BY <1>1, <1>2
  <2> DEFINE h == [T \in Small(n) |->
                    IF T = {} THEN 0 ELSE LET x == CHOOSE y \in T : TRUE IN f[x] + g[T \ {x}]]
  <2>3. ASSUME NEW T \in Small(n), T # {}, NEW x \in T PROVE T \ {x} \in Small(n - 1)
    <3>1. Cardinality(T \ {x}) = Cardinality(T) - 1
      BY <1>1, <2>3, FS_RemoveElement
    <3> QED
      BY <3>1, <1>1, <1>2
  <2>4. ASSUME NEW T \in Small(n) PROVE h[T] \in Int
    <3>1. CASE T = {}
      BY <3>1
    <3>2. CASE T # {}
      <4> DEFINE x == CHOOSE y \in T : TRUE
      <4>1. x \in T
        BY <3>2
      <4>2. f[x] \in Int /\ g[T \ {x}] \in Int
        BY <4>1, <3>2, <2>1, <2>3
      <4> QED
        BY <3>2, <4>2
    <3> QED
      BY <3>1, <3>2
  <2>5. h \in [Small(n) -> Int]
    BY <2>4
  <2>6. ASSUME NEW T \in Small(n - 1) PROVE h[T] = g[T]
    BY <2>1, <2>2 DEF AddsUpAt
  <2>7. ASSUME NEW T \in Small(n) PROVE AddsUpAt(h, f, T)
    <3>1. CASE T = {}
      BY <3>1 DEF AddsUpAt
    <3>2. CASE T # {}
      <4> DEFINE x == CHOOSE y \in T : TRUE
      <4>1. x \in T
        BY <3>2
      <4>2. h[T \ {x}] = g[T \ {x}]
        BY <4>1, <3>2, <2>3, <2>6
      <4>3. h[T] = f[x] + g[T \ {x}]
        BY <3>2
      <4> HIDE DEF h
      <4> QED
        BY <3>2, <4>2, <4>3 DEF AddsUpAt
    <3> QED
      BY <3>1, <3>2
  <2> HIDE DEF h, Small
  <2> QED
    BY <2>5, <2>7, <1>2
<1>5. K = 0..N
  <2>1. K \in SUBSET (0..N)
    OBVIOUS
  <2> HIDE DEF K, N
  <2> QED
    BY <1>2, <1>3, <1>4, <2>1, Upto
<1>6. Small(N) = SUBSET S
  BY <1>1
<1>7. PICK g \in [Small(N) -> Int] : \A T \in Small(N) : AddsUpAt(g, f, T)
  <2>1. N \in K
    <3> HIDE DEF K, N
    <3> QED
      BY <1>5, <1>2
  <2> QED
    BY <2>1
<1> HIDE DEF N, Small
<1> QED
  BY <1>6, <1>7

\* SetSums does what it says.
LEMMA SetSumsAddUp ==
  ASSUME NEW S, IsFiniteSet(S), NEW f, \A x \in S : f[x] \in Int
  PROVE  /\ SetSums(f, S) \in [SUBSET S -> Int]
         /\ \A T \in SUBSET S : AddsUpAt(SetSums(f, S), f, T)
<1>1. PICK g \in [SUBSET S -> Int] : \A T \in SUBSET S : AddsUpAt(g, f, T)
  BY SetSumsExist
<1>2. g = [T \in SUBSET S |-> IF T = {} THEN 0
                              ELSE LET x == CHOOSE y \in T : TRUE IN f[x] + g[T \ {x}]]
  BY <1>1 DEF AddsUpAt
<1>3. SetSums(f, S) = [T \in SUBSET S |-> IF T = {} THEN 0
                              ELSE LET x == CHOOSE y \in T : TRUE IN f[x] + SetSums(f, S)[T \ {x}]]
  BY <1>2 DEF SetSums
<1>4. \A T \in SUBSET S : AddsUpAt(SetSums(f, S), f, T)
  BY <1>3 DEF AddsUpAt
<1> DEFINE P == {T \in SUBSET S : SetSums(f, S)[T] \in Int}
<1>5. {} \in P
  BY <1>4 DEF AddsUpAt
<1>6. ASSUME NEW T \in SUBSET S, T # {}, \A x \in T : T \ {x} \in P PROVE T \in P
  <2> DEFINE x == CHOOSE y \in T : TRUE
  <2>1. x \in T
    BY <1>6
  <2>2. f[x] \in Int /\ SetSums(f, S)[T \ {x}] \in Int
    BY <1>6, <2>1
  <2>3. SetSums(f, S)[T] = f[x] + SetSums(f, S)[T \ {x}]
    BY <1>4, <1>6 DEF AddsUpAt
  <2> QED
    BY <2>2, <2>3
<1>7. P = SUBSET S
  <2>1. P \in SUBSET (SUBSET S)
    OBVIOUS
  <2> HIDE DEF P
  <2> QED
    BY <1>5, <1>6, <2>1, EverySubset
<1> QED
  BY <1>3, <1>4, <1>7

\* A sum depends on what is summed only.
LEMMA SumsAgree ==
  ASSUME NEW S, IsFiniteSet(S), NEW f, \A x \in S : f[x] \in Int,
         NEW T \in SUBSET S, NEW h, \A x \in T : h[x] = f[x]
  PROVE  \A U \in SUBSET T : SetSums(h, T)[U] = SetSums(f, S)[U]
<1>1. IsFiniteSet(T) /\ \A x \in T : h[x] \in Int
  BY FS_Subset
<1> DEFINE P == {U \in SUBSET T : SetSums(h, T)[U] = SetSums(f, S)[U]}
<1>2. {} \in P
  <2>1. SetSums(h, T)[{}] = 0
    BY <1>1, SetSumsAddUp DEF AddsUpAt
  <2>2. SetSums(f, S)[{}] = 0
    BY SetSumsAddUp DEF AddsUpAt
  <2> QED
    BY <2>1, <2>2
<1>3. ASSUME NEW U \in SUBSET T, U # {}, \A x \in U : U \ {x} \in P PROVE U \in P
  <2> DEFINE x == CHOOSE y \in U : TRUE
  <2>1. x \in U /\ h[x] = f[x] /\ U \in SUBSET S
    BY <1>3
  <2>2. SetSums(h, T)[U] = h[x] + SetSums(h, T)[U \ {x}]
    BY <1>1, <1>3, SetSumsAddUp DEF AddsUpAt
  <2>3. SetSums(f, S)[U] = f[x] + SetSums(f, S)[U \ {x}]
    <3>1. AddsUpAt(SetSums(f, S), f, U)
      BY <2>1, SetSumsAddUp
    <3> QED
      BY <3>1, <1>3 DEF AddsUpAt
  <2> QED
    BY <1>3, <2>1, <2>2, <2>3
<1>4. P = SUBSET T
  <2>1. P \in SUBSET (SUBSET T)
    OBVIOUS
  <2> HIDE DEF P
  <2> QED
    BY <1>1, <1>2, <1>3, <2>1, EverySubset
<1> QED
  BY <1>4

\* Equal amounts have equal sums.
LEMMA SumAgrees ==
  ASSUME NEW S, IsFiniteSet(S), NEW f, NEW h, \A x \in S : f[x] \in Int /\ h[x] = f[x]
  PROVE  SumOver(h, S) = SumOver(f, S)
  BY SumsAgree DEF SumOver

LEMMA SumType ==
  ASSUME NEW S, IsFiniteSet(S), NEW f, \A x \in S : f[x] \in Int
  PROVE  SumOver(f, S) \in Int
  BY SetSumsAddUp DEF SumOver

LEMMA SumNothing == ASSUME NEW f PROVE SumOver(f, {}) = 0
<1>1. IsFiniteSet({})
  BY FS_EmptySet
<1> QED
  BY <1>1, SetSumsAddUp DEF SumOver, AddsUpAt

\* Any element can be taken out of a sum first.
LEMMA SumWithout ==
  ASSUME NEW S, IsFiniteSet(S), NEW f, \A x \in S : f[x] \in Int, NEW x \in S
  PROVE  SumOver(f, S) = f[x] + SumOver(f, S \ {x})
<1> DEFINE g == SetSums(f, S)
           P == {T \in SUBSET S : \A y \in T : g[T] = f[y] + g[T \ {y}]}
<1>1. /\ g \in [SUBSET S -> Int]
      /\ \A T \in SUBSET S : T # {} => LET z == CHOOSE y \in T : TRUE IN g[T] = f[z] + g[T \ {z}]
  BY SetSumsAddUp DEF AddsUpAt
<1> HIDE DEF g
<1>2. {} \in P
  OBVIOUS
<1>3. ASSUME NEW T \in SUBSET S, T # {}, \A y \in T : T \ {y} \in P PROVE T \in P
  <2> SUFFICES ASSUME NEW y \in T PROVE g[T] = f[y] + g[T \ {y}]
    OBVIOUS
  <2> DEFINE z == CHOOSE v \in T : TRUE
  <2>1. z \in T /\ g[T] = f[z] + g[T \ {z}]
    BY <1>1, <1>3
  <2> HIDE DEF z
  <2>2. CASE y = z
    BY <2>1, <2>2
  <2>3. CASE y # z
    <3>1. g[T \ {z}] = f[y] + g[(T \ {z}) \ {y}]
      BY <1>3, <2>1, <2>3
    <3>2. g[T \ {y}] = f[z] + g[(T \ {y}) \ {z}]
      BY <1>3, <2>1, <2>3
    <3>3. (T \ {z}) \ {y} = (T \ {y}) \ {z}
      OBVIOUS
    <3>4. f[y] \in Int /\ f[z] \in Int /\ g[(T \ {z}) \ {y}] \in Int
      BY <1>1, <2>1
    <3> DEFINE rest == g[(T \ {z}) \ {y}]
    <3>5. /\ g[T \ {z}] = f[y] + rest /\ g[T \ {y}] = f[z] + rest /\ rest \in Int
      BY <3>1, <3>2, <3>3, <3>4
    <3> HIDE DEF rest
    <3> QED
      BY <2>1, <3>4, <3>5
  <2> QED
    BY <2>2, <2>3
<1>4. P = SUBSET S
  <2>1. P \in SUBSET (SUBSET S)
    OBVIOUS
  <2> HIDE DEF P
  <2> QED
    BY <1>2, <1>3, <2>1, EverySubset
<1>5. g[S] = f[x] + g[S \ {x}]
  BY <1>4
<1>6. SumOver(f, S \ {x}) = g[S \ {x}]
  <2>1. S \ {x} \in SUBSET S
    OBVIOUS
  <2> QED
    BY <2>1, SumsAgree DEF SumOver, g
<1> QED
  BY <1>5, <1>6 DEF SumOver, g

\* Putting an element into a sum.
LEMMA SumWith ==
  ASSUME NEW S, IsFiniteSet(S), NEW x, x \notin S, NEW f, \A y \in S \cup {x} : f[y] \in Int
  PROVE  SumOver(f, S \cup {x}) = SumOver(f, S) + f[x]
<1>1. IsFiniteSet(S \cup {x}) /\ (S \cup {x}) \ {x} = S
  BY FS_AddElement
<1>2. SumOver(f, S) \in Int
  BY SumType
<1> QED
  BY <1>1, <1>2, SumWithout

\* Changing one of the amounts changes the sum by as much.
LEMMA SumChanged ==
  ASSUME NEW S, IsFiniteSet(S), NEW x \in S, NEW f, NEW h, \A y \in S : f[y] \in Int,
         h[x] \in Int, \A y \in S \ {x} : h[y] = f[y]
  PROVE  SumOver(h, S) = SumOver(f, S) - f[x] + h[x]
<1>1. IsFiniteSet(S \ {x}) /\ \A y \in S : h[y] \in Int
  BY FS_RemoveElement
<1>2. SumOver(h, S \ {x}) = SumOver(f, S \ {x}) /\ SumOver(f, S \ {x}) \in Int
  BY <1>1, SumAgrees, SumType
<1>3. SumOver(f, S) = f[x] + SumOver(f, S \ {x})
  BY SumWithout
<1>4. SumOver(h, S) = h[x] + SumOver(h, S \ {x})
  BY <1>1, SumWithout
<1> QED
  BY <1>2, <1>3, <1>4

\* A sum is that of a part and that of the rest.
LEMMA SumApart ==
  ASSUME NEW S, IsFiniteSet(S), NEW f, \A x \in S : f[x] \in Int, NEW T \in SUBSET S
  PROVE  SumOver(f, S) = SumOver(f, T) + SumOver(f, S \ T)
<1> DEFINE P == {U \in SUBSET S : SumOver(f, S) = SumOver(f, U) + SumOver(f, S \ U)}
<1>1. \A U \in SUBSET S : IsFiniteSet(U) /\ SumOver(f, U) \in Int
  <2> SUFFICES ASSUME NEW U \in SUBSET S PROVE IsFiniteSet(U) /\ SumOver(f, U) \in Int
    OBVIOUS
  <2>1. IsFiniteSet(U)
    BY FS_Subset
  <2>2. \A x \in U : f[x] \in Int
    OBVIOUS
  <2> QED
    BY <2>1, <2>2, SumType
<1>2. {} \in P
  <2>1. S \ {} = S /\ S \in SUBSET S
    OBVIOUS
  <2> QED
    BY <1>1, <2>1, SumNothing
<1>3. ASSUME NEW U \in SUBSET S, U # {}, \A x \in U : U \ {x} \in P PROVE U \in P
  <2>1. PICK x \in U : TRUE
    BY <1>3
  <2>2. SumOver(f, S) = SumOver(f, U \ {x}) + SumOver(f, S \ (U \ {x}))
    BY <1>3
  <2>3. S \ (U \ {x}) = (S \ U) \cup {x} /\ x \notin S \ U /\ S \ U \in SUBSET S
    OBVIOUS
  <2>4. SumOver(f, (S \ U) \cup {x}) = SumOver(f, S \ U) + f[x]
    <3>1. IsFiniteSet(S \ U) /\ \A y \in (S \ U) \cup {x} : f[y] \in Int
      BY <1>1, <2>3
    <3> QED
      BY <2>3, <3>1, SumWith
  <2>5. SumOver(f, U) = f[x] + SumOver(f, U \ {x})
    <3>1. IsFiniteSet(U) /\ \A y \in U : f[y] \in Int
      BY <1>1
    <3> QED
      BY <3>1, SumWithout
  <2>6. f[x] \in Int /\ SumOver(f, U \ {x}) \in Int /\ SumOver(f, S \ U) \in Int
    <3>1. U \ {x} \in SUBSET S
      OBVIOUS
    <3> QED
      BY <1>1, <2>3, <3>1
  <2> DEFINE V == S \ (U \ {x})
  <2>7. SumOver(f, V) = SumOver(f, S \ U) + f[x] /\ SumOver(f, S) = SumOver(f, U \ {x}) + SumOver(f, V)
    BY <2>2, <2>3, <2>4
  <2> HIDE DEF V
  <2>8. SumOver(f, S) = SumOver(f, U) + SumOver(f, S \ U)
    BY <2>5, <2>6, <2>7
  <2> QED
    BY <2>8
<1>4. P = SUBSET S
  <2>1. P \in SUBSET (SUBSET S)
    OBVIOUS
  <2> HIDE DEF P
  <2> QED
    BY <1>2, <1>3, <2>1, EverySubset
<1> QED
  BY <1>4

-----------------------------------------------------------------------------
(***************************************************************************)
(* The split of a discount                                                   *)
(***************************************************************************)

\* Go's division of non-negative integers rounds down.
LEMMA DivisionFloors ==
  ASSUME NEW x \in Nat, NEW t \in Nat \ {0}
  PROVE  x \div t \in Nat /\ (x \div t) * t <= x
  OBVIOUS

LEMMA ProductIsNat == ASSUME NEW x \in Nat, NEW y \in Nat PROVE x * y \in Nat
  OBVIOUS

\* The proportional shares, rounded down, do not exceed the discount together.
LEMMA SharesWithin ==
  ASSUME NEW N \in Nat, NEW subs \in [1..N -> Nat], NEW discount \in Nat, Total(subs) > 0,
         NEW share, share = [i \in DOMAIN subs |-> Share(discount, subs[i], Total(subs))]
  PROVE  share \in [1..N -> Nat] /\ Total(share) \in Int /\ Total(share) <= discount
<1> DEFINE total == Total(subs)
<1>1. total \in Nat \ {0}
  BY TotalIsInt
<1> HIDE DEF total
<1>2. ASSUME NEW i \in 1..N
      PROVE  /\ share[i] \in Nat
             /\ share[i] * total <= discount * subs[i]
  <2>1. discount * subs[i] \in Nat
    BY ProductIsNat
  <2>2. share[i] = (discount * subs[i]) \div total
    BY DEF Share, total
  <2> QED
    BY <1>1, <2>1, <2>2, DivisionFloors
<1>3. share \in [1..N -> Nat]
  BY <1>2
<1>4. Total(share) \in Int /\ Total(share) * total <= discount * total
  <2>1. \A i \in 1..N : share[i] * total <= discount * subs[i]
    BY <1>2
  <2>2. share \in [1..N -> Int] /\ subs \in [1..N -> Int] /\ total \in Int /\ discount \in Int
    BY <1>1, <1>3
  <2>3. Total(share) * total <= discount * Total(subs)
    BY <2>1, <2>2, TotalScaled
  <2> QED
    BY <2>2, <2>3, TotalIsInt DEF total
<1>5. ASSUME NEW x \in Int, x * total <= discount * total PROVE x <= discount
  BY <1>1, <1>5
<1> QED
  BY <1>3, <1>4, <1>5

\* DistributeDiscount: no bucket gets more than its subtotal, and the buckets never
\* get more than the discount together, although the last one absorbs the rounding.
LEMMA DistributeWithin ==
  ASSUME NEW N \in Nat, NEW subs \in [1..N -> Nat], NEW discount \in Nat
  PROVE  /\ DistributeDiscount(discount, subs) \in [1..N -> Nat]
         /\ \A i \in 1..N : DistributeDiscount(discount, subs)[i] <= subs[i]
         /\ Total(DistributeDiscount(discount, subs)) <= discount
<1> DEFINE d == DistributeDiscount(discount, subs)
<1>1. Total(subs) \in Int
  BY TotalIsInt
<1>2. CASE discount <= 0 \/ Total(subs) <= 0
  <2>1. d = [i \in 1..N |-> 0]
    BY <1>2 DEF DistributeDiscount
  <2> HIDE DEF d
  <2>2. Total(d) = 0
    BY <2>1, ZeroTotal
  <2>3. d \in [1..N -> Nat] /\ \A i \in 1..N : d[i] <= subs[i]
    BY <2>1
  <2> QED
    BY <2>2, <2>3 DEF d
<1>3. CASE ~(discount <= 0 \/ Total(subs) <= 0)
  <2> DEFINE share == [i \in DOMAIN subs |-> Share(discount, subs[i], Total(subs))]
             last == LastBucket(subs)
             rest == discount - Total(share)
             more == [i \in 1..N |-> IF i = last /\ rest > 0 THEN rest ELSE 0]
             sum == [i \in 1..N |-> share[i] + more[i]]
  <2>1. share \in [1..N -> Nat] /\ Total(share) \in Int /\ Total(share) <= discount
    <3>1. Total(subs) > 0
      BY <1>1, <1>3
    <3> QED
      BY <3>1, SharesWithin
  <2>2. rest \in Nat
    <3> HIDE DEF share
    <3> QED
      BY <2>1
  <2>3. d = [i \in DOMAIN subs |->
               Lower(IF i = last /\ rest > 0 THEN share[i] + rest ELSE share[i], subs[i])]
    BY <1>3, Zenon DEF DistributeDiscount
  <2> HIDE DEF share, last, d
  <2>4. more \in [1..N -> Nat] /\ Total(more) <= rest
    <3> HIDE DEF rest
    <3>1. more \in [1..N -> Nat] /\ more \in [1..N -> Int]
      BY <2>2
    <3>2. CASE last \in 1..N
      <4>1. \A i \in 1..N : i # last => more[i] = 0
        OBVIOUS
      <4>2. Total(more) = more[last]
        <5> HIDE DEF more
        <5> QED
          BY <3>1, <3>2, <4>1, TotalSingle
      <4>3. more[last] <= rest
        BY <2>2, <3>2
      <4> QED
        BY <3>1, <4>2, <4>3
    <3>3. CASE last \notin 1..N
      <4>1. more = [i \in 1..N |-> 0]
        BY <3>3
      <4>2. Total(more) = 0
        BY <4>1, ZeroTotal
      <4> QED
        BY <2>2, <3>1, <4>2
    <3> QED
      BY <3>2, <3>3
  <2>5. \A i \in 1..N : d[i] = Lower(sum[i], subs[i])
    BY <2>1, <2>3
  <2> HIDE DEF more
  <2>6. /\ sum \in [1..N -> Int] /\ \A i \in 1..N : sum[i] \in Nat
        /\ \A i \in 1..N : sum[i] = share[i] + more[i]
        /\ share \in [1..N -> Int] /\ more \in [1..N -> Int]
    <3>1. \A i \in 1..N : share[i] \in Nat /\ more[i] \in Nat
      BY <2>1, <2>4
    <3>2. \A i \in 1..N : share[i] + more[i] \in Nat
      BY <3>1
    <3> QED
      BY <2>1, <2>4, <3>2
  <2> HIDE DEF sum
  <2>7. d \in [1..N -> Nat] /\ \A i \in 1..N : d[i] <= subs[i] /\ d[i] <= sum[i]
    <3>1. d = [i \in 1..N |-> d[i]]
      BY <2>3
    <3>2. \A i \in 1..N : d[i] \in Nat /\ d[i] <= subs[i] /\ d[i] <= sum[i]
      <4> TAKE i \in 1..N
      <4>1. d[i] = Lower(sum[i], subs[i]) /\ sum[i] \in Nat /\ subs[i] \in Nat
        BY <2>5, <2>6
      <4> QED
        BY <4>1 DEF Lower
    <3> QED
      BY <3>1, <3>2
  <2>8. d \in [1..N -> Int]
    BY <2>7
  <2>9. Total(d) <= Total(sum)
    BY <2>6, <2>7, <2>8, TotalMonotone
  <2>10. Total(sum) = Total(share) + Total(more)
    BY <2>6, TotalAdds
  <2>11. Total(d) \in Int /\ Total(more) \in Int
    BY <2>6, <2>8, TotalIsInt
  <2>12. Total(d) <= discount
    BY <2>1, <2>4, <2>9, <2>10, <2>11
  <2> QED
    BY <2>7, <2>12 DEF d
<1> QED
  BY <1>2, <1>3

\* DistributeSellerDiscount: the target's order alone gets the discount.
LEMMA SellerDiscountWithin ==
  ASSUME NEW N \in Nat, NEW subs \in [1..N -> Nat], NEW discount \in Nat, NEW target \in 1..N
  PROVE  /\ DistributeSellerDiscount(discount, subs, target) \in [1..N -> Nat]
         /\ \A i \in 1..N : DistributeSellerDiscount(discount, subs, target)[i] <= subs[i]
         /\ Total(DistributeSellerDiscount(discount, subs, target)) <= discount
<1> DEFINE d == DistributeSellerDiscount(discount, subs, target)
           one == <<subs[target]>>
           part == DistributeDiscount(discount, one)
<1>1. one \in [1..1 -> Nat] /\ one[1] = subs[target]
  OBVIOUS
<1>2. part \in [1..1 -> Nat] /\ part[1] <= one[1] /\ Total(part) <= discount
  <2> HIDE DEF one
  <2>1. PICK n \in Nat : n = 1
    OBVIOUS
  <2>2. /\ part \in [1..n -> Nat] /\ \A i \in 1..n : part[i] <= one[i]
        /\ Total(part) <= discount
    BY <1>1, <2>1, DistributeWithin
  <2> QED
    BY <2>1, <2>2
<1>3. d = [i \in 1..N |-> IF i = target THEN part[1] ELSE 0]
  <2>1. DOMAIN subs = 1..N
    OBVIOUS
  <2> QED
    BY <2>1 DEF DistributeSellerDiscount
<1> HIDE DEF one, part, d
<1>4. Total(part) = part[1]
  <2>1. part \in [1..1 -> Int] /\ \A i \in 1..1 : i # 1 => part[i] = 0
    BY <1>2
  <2>2. PICK n \in Nat : n = 1
    OBVIOUS
  <2>3. part \in [1..n -> Int] /\ 1 \in 1..n /\ \A i \in 1..n : i # 1 => part[i] = 0
    BY <2>1, <2>2
  <2> QED
    BY <2>3, TotalSingle
<1>5. d \in [1..N -> Nat] /\ d \in [1..N -> Int] /\ \A i \in 1..N : d[i] <= subs[i]
  BY <1>1, <1>2, <1>3
<1>6. Total(d) = part[1]
  <2>1. \A i \in 1..N : i # target => d[i] = 0
    BY <1>3
  <2>2. d[target] = part[1]
    BY <1>3
  <2> QED
    BY <1>5, <2>1, <2>2, TotalSingle
<1> QED
  BY <1>2, <1>4, <1>5, <1>6 DEF d
=============================================================================
