------------------------------ MODULE SumTheorems ------------------------------
(****************************************************************************)
(* Facts about SumFunction of the community module Functions, for functions *)
(* with a finite domain.  The program keeps running totals (total_pool,     *)
(* pool_per_outcome, token balances) of amounts that live in separate       *)
(* accounts; every argument about them is an argument about such sums.      *)
(****************************************************************************)
EXTENDS Integers, FiniteSets, Functions, FiniteSetTheorems, NaturalsInduction,
        WellFoundedInduction, TLAPS

Pick(T) == CHOOSE x \in T : TRUE

\* acc is the accumulator that SumFunctionOnSet(f, S) is defined by, on the
\* subsets of S in D.
Accumulates(acc, f, D) ==
  acc = [T \in D |-> IF T = {} THEN 0 ELSE f[Pick(T)] + acc[T \ {Pick(T)}]]

\* Every nonempty set of subsets of a finite set has a minimal element: the
\* form of induction the lemmas below use.
LEMMA NoSmallerCounterexample ==
  ASSUME NEW S, IsFiniteSet(S), NEW Bad \in SUBSET (SUBSET S),
         \A T \in Bad : \E U \in Bad : U \subseteq T /\ U # T
  PROVE  Bad = {}
<1> SUFFICES ASSUME Bad # {} PROVE FALSE
  OBVIOUS
<1>1. IsWellFoundedOn(StrictSubsetOrdering(S), FiniteSubsetsOf(S))
  BY FS_StrictSubsetOrderingWellFounded
<1>2. FiniteSubsetsOf(S) = SUBSET S
  BY FS_FiniteSubsetsOfFinite
<1>3. PICK T \in Bad : \A U \in Bad : ~(<<U, T>> \in StrictSubsetOrdering(S))
  <2>1. Bad \subseteq FiniteSubsetsOf(S)
    BY <1>2
  <2> HIDE <1>2
  <2> QED
    BY <1>1, <2>1, WFMin, Zenon
<1>4. PICK U \in Bad : U \subseteq T /\ U # T
  OBVIOUS
<1>5. <<U, T>> \in StrictSubsetOrdering(S)
  BY <1>4 DEF StrictSubsetOrdering
<1> QED
  BY <1>3, <1>5

LEMMA AccumulatorExists ==
  ASSUME NEW S, IsFiniteSet(S), NEW f
  PROVE  \E acc : Accumulates(acc, f, SUBSET S)
<1> DEFINE D(n) == {T \in SUBSET S : Cardinality(T) <= n}
           Bad == {n \in Nat : ~ \E acc : Accumulates(acc, f, D(n))}
<1>1. \A T \in SUBSET S : /\ IsFiniteSet(T)
                          /\ Cardinality(T) \in Nat
                          /\ Cardinality(T) <= Cardinality(S)
                          /\ T # {} => /\ Pick(T) \in T
                                       /\ Cardinality(T \ {Pick(T)}) = Cardinality(T) - 1
                          /\ Cardinality(T) = 0 <=> T = {}
  BY FS_Subset, FS_CardinalityType, FS_EmptySet, FS_RemoveElement DEF Pick
<1>2. 0 \notin Bad
  <2> DEFINE acc == [T \in D(0) |-> 0]
  <2>1. ASSUME NEW T \in D(0) PROVE T = {}
    <3>1. T \in SUBSET S /\ Cardinality(T) <= 0
      OBVIOUS
    <3>2. Cardinality(T) \in Nat /\ (Cardinality(T) = 0 <=> T = {})
      BY <1>1, <3>1, Zenon
    <3> QED
      BY <3>1, <3>2
  <2>2. Accumulates(acc, f, D(0))
    BY <2>1 DEF Accumulates
  <2> QED
    BY <2>2
<1>3. ASSUME NEW n \in Nat, n \notin Bad
      PROVE  n + 1 \notin Bad
  <2>1. PICK acc : Accumulates(acc, f, D(n))
    BY <1>3
  <2> DEFINE ext == [T \in D(n+1) |-> IF T = {} THEN 0 ELSE f[Pick(T)] + acc[T \ {Pick(T)}]]
  <2>2. ASSUME NEW T \in D(n+1), T # {}
        PROVE  ext[T \ {Pick(T)}] = acc[T \ {Pick(T)}]
    <3> DEFINE R == T \ {Pick(T)}
    <3>1. R \in D(n) /\ R \in D(n+1)
      BY <1>1, <2>2
    <3>2. acc[R] = IF R = {} THEN 0 ELSE f[Pick(R)] + acc[R \ {Pick(R)}]
      BY <2>1, <3>1 DEF Accumulates
    <3> HIDE DEF R
    <3>3. ext[R] = IF R = {} THEN 0 ELSE f[Pick(R)] + acc[R \ {Pick(R)}]
      BY <3>1
    <3> QED
      BY <3>2, <3>3 DEF R
  <2>3. Accumulates(ext, f, D(n+1))
    BY <2>2 DEF Accumulates
  <2> QED
    BY <2>3
<1>4. Bad = {}
  <2> HIDE DEF Bad
  <2> SUFFICES ASSUME Bad # {} PROVE FALSE
    OBVIOUS
  <2>1. Bad \subseteq Nat
    BY DEF Bad
  <2>2. PICK n \in Bad : \A m \in Bad : ~(<<m, n>> \in OpToRel(<, Nat))
    BY <2>1, NatLessThanWellFounded, WFMin
  <2>3. n \in Nat /\ n # 0
    BY <2>1, <1>2
  <2>4. n - 1 \in Nat /\ n - 1 < n /\ (n - 1) + 1 = n
    BY <2>3
  <2>5. <<n - 1, n>> \in OpToRel(<, Nat)
    BY <2>3, <2>4 DEF OpToRel
  <2>6. n - 1 \notin Bad
    BY <2>2, <2>5
  <2> QED
    BY <1>3, <2>4, <2>6
<1>5. Cardinality(S) \in Nat
  BY FS_CardinalityType
<1>6. D(Cardinality(S)) = SUBSET S
  BY <1>1
<1> QED
  BY <1>4, <1>5, <1>6

\* What SumFunctionOnSet means: the value at S of an accumulator that obeys
\* its recursion on every subset of S.
LEMMA SumUnfolds ==
  ASSUME NEW S, IsFiniteSet(S), NEW f
  PROVE  \E acc : /\ acc[{}] = 0
                  /\ \A T \in SUBSET S : T # {} => acc[T] = f[Pick(T)] + acc[T \ {Pick(T)}]
                  /\ SumFunctionOnSet(f, S) = acc[S]
<1> DEFINE acc == CHOOSE iter : Accumulates(iter, f, SUBSET S)
<1>1. Accumulates(acc, f, SUBSET S)
  BY AccumulatorExists
<1>2. SumFunctionOnSet(f, S) = acc[S]
  BY Zenon DEF SumFunctionOnSet, FoldFunctionOnSet, MapThenFoldSet, Accumulates, Pick
<1> HIDE DEF acc
<1> QED
  BY <1>1, <1>2 DEF Accumulates

\* A set of integers closed under addition holds the sums of its members.
LEMMA SumClosed ==
  ASSUME NEW S, IsFiniteSet(S),
         NEW V \in SUBSET Int, 0 \in V, \A x, y \in V : x + y \in V,
         NEW f \in [S -> V]
  PROVE  SumFunction(f) \in V
<1>1. PICK acc : /\ acc[{}] = 0
                 /\ \A T \in SUBSET S : T # {} => acc[T] = f[Pick(T)] + acc[T \ {Pick(T)}]
                 /\ SumFunctionOnSet(f, S) = acc[S]
  BY SumUnfolds
<1> DEFINE Bad == {T \in SUBSET S : acc[T] \notin V}
<1>2. ASSUME NEW T \in Bad
      PROVE  \E U \in Bad : U \subseteq T /\ U # T
  <2>1. T # {} /\ Pick(T) \in T
    BY <1>1 DEF Pick
  <2> DEFINE U == T \ {Pick(T)}
  <2>2. U \in SUBSET S /\ U \subseteq T /\ U # T
    BY <2>1
  <2>3. acc[T] = f[Pick(T)] + acc[U] /\ f[Pick(T)] \in V /\ acc[T] \notin V
    BY <1>1, <2>1
  <2>4. acc[U] \notin V
    BY <2>3
  <2> QED
    BY <2>2, <2>4
<1>3. Bad = {}
  <2> HIDE DEF Bad
  <2> Bad \in SUBSET (SUBSET S)
    BY DEF Bad
  <2> QED
    BY <1>2, NoSmallerCounterexample
<1> QED
  BY <1>1, <1>3 DEF SumFunction

\* The sum of integers is an integer; of naturals, a natural number.
LEMMA SumType ==
  ASSUME NEW S, IsFiniteSet(S)
  PROVE  /\ \A f \in [S -> Int] : SumFunction(f) \in Int
         /\ \A f \in [S -> Nat] : SumFunction(f) \in Nat
<1>1. /\ Int \in SUBSET Int /\ 0 \in Int /\ \A x, y \in Int : x + y \in Int
      /\ Nat \in SUBSET Int /\ 0 \in Nat /\ \A x, y \in Nat : x + y \in Nat
  OBVIOUS
<1>2. ASSUME NEW f \in [S -> Int] PROVE SumFunction(f) \in Int
  BY <1>1, SumClosed, Zenon
<1>3. ASSUME NEW f \in [S -> Nat] PROVE SumFunction(f) \in Nat
  BY <1>1, SumClosed, Zenon
<1> QED
  BY <1>2, <1>3

\* If every term of f times w is at most the term of h times p, so are the sums.
LEMMA SumScaled ==
  ASSUME NEW S, IsFiniteSet(S), NEW f \in [S -> Int], NEW h \in [S -> Int],
         NEW w \in Int, NEW p \in Int,
         \A x \in S : f[x] * w <= h[x] * p
  PROVE  SumFunction(f) * w <= SumFunction(h) * p
<1>1. PICK F : /\ F[{}] = 0
               /\ \A T \in SUBSET S : T # {} => F[T] = f[Pick(T)] + F[T \ {Pick(T)}]
               /\ SumFunctionOnSet(f, S) = F[S]
  BY SumUnfolds
<1>2. PICK H : /\ H[{}] = 0
               /\ \A T \in SUBSET S : T # {} => H[T] = h[Pick(T)] + H[T \ {Pick(T)}]
               /\ SumFunctionOnSet(h, S) = H[S]
  BY SumUnfolds
<1> DEFINE Bad == {T \in SUBSET S : ~(F[T] \in Int /\ H[T] \in Int /\ F[T] * w <= H[T] * p)}
<1>3. ASSUME NEW T \in Bad
      PROVE  \E U \in Bad : U \subseteq T /\ U # T
  <2>1. T # {}
    <3>1. 0 * w = 0 /\ 0 * p = 0
      OBVIOUS
    <3> SUFFICES ASSUME T = {} PROVE FALSE
      OBVIOUS
    <3>2. F[T] = 0 /\ H[T] = 0
      BY <1>1, <1>2
    <3> QED
      BY <3>1, <3>2
  <2> DEFINE x == Pick(T)
             U == T \ {x}
  <2>2. x \in S /\ x \in T /\ U \in SUBSET S /\ U \subseteq T /\ U # T
    BY <2>1 DEF Pick
  <2>3. F[T] = f[x] + F[U] /\ H[T] = h[x] + H[U]
    BY <1>1, <1>2, <2>1
  <2>4. f[x] \in Int /\ h[x] \in Int /\ f[x] * w <= h[x] * p
    BY <2>2
  <2> HIDE DEF x, U
  <2>5. ~(F[U] \in Int /\ H[U] \in Int /\ F[U] * w <= H[U] * p)
    <3> SUFFICES ASSUME F[U] \in Int, H[U] \in Int, F[U] * w <= H[U] * p
                 PROVE  F[T] \in Int /\ H[T] \in Int /\ F[T] * w <= H[T] * p
      OBVIOUS
    <3>1. /\ \A i, j, k \in Int : (i + j) * k = i * k + j * k
          /\ \A i, j \in Int : i * j \in Int
      OBVIOUS
    <3>2. F[T] * w = f[x] * w + F[U] * w
      <4>1. (f[x] + F[U]) * w = f[x] * w + F[U] * w
        BY <2>4, <3>1
      <4> QED
        BY <2>3, <4>1
    <3>4. H[T] * p = h[x] * p + H[U] * p
      <4>1. (h[x] + H[U]) * p = h[x] * p + H[U] * p
        BY <2>4, <3>1
      <4> QED
        BY <2>3, <4>1
    <3>3. f[x] * w \in Int /\ F[U] * w \in Int /\ h[x] * p \in Int /\ H[U] * p \in Int
      BY <2>4, <3>1
    <3> QED
      BY <2>3, <2>4, <3>2, <3>3, <3>4
  <2> QED
    BY <2>2, <2>5
<1>4. Bad = {}
  <2> HIDE DEF Bad
  <2> Bad \in SUBSET (SUBSET S)
    BY DEF Bad
  <2> QED
    BY <1>3, NoSmallerCounterexample
<1> QED
  BY <1>1, <1>2, <1>4 DEF SumFunction

\* What divisions by w leave: less than w for each term that is positive.
LEMMA SumRounded ==
  ASSUME NEW S, IsFiniteSet(S), NEW f \in [S -> Nat], NEW h \in [S -> Nat],
         NEW w \in Nat, w > 0, NEW p \in Nat,
         \A x \in S : h[x] * p <= f[x] * w + (IF h[x] > 0 THEN w - 1 ELSE 0)
  PROVE  SumFunction(h) * p <= SumFunction(f) * w + Cardinality({x \in S : h[x] > 0}) * (w - 1)
<1>1. PICK F : /\ F[{}] = 0
               /\ \A T \in SUBSET S : T # {} => F[T] = f[Pick(T)] + F[T \ {Pick(T)}]
               /\ SumFunctionOnSet(f, S) = F[S]
  BY SumUnfolds
<1>2. PICK H : /\ H[{}] = 0
               /\ \A T \in SUBSET S : T # {} => H[T] = h[Pick(T)] + H[T \ {Pick(T)}]
               /\ SumFunctionOnSet(h, S) = H[S]
  BY SumUnfolds
<1> DEFINE Some(T) == {x \in T : h[x] > 0}
           n(T)    == Cardinality(Some(T))
           Good(T) == F[T] \in Int /\ H[T] \in Int /\ H[T] * p <= F[T] * w + n(T) * (w - 1)
           Bad     == {T \in SUBSET S : ~Good(T)}
<1>3. \A T \in SUBSET S : IsFiniteSet(Some(T)) /\ n(T) \in Nat
  <2>1. ASSUME NEW T \in SUBSET S PROVE IsFiniteSet(Some(T))
    BY FS_Subset
  <2> QED
    BY <2>1, FS_CardinalityType
<1>4. /\ \A i, j, k \in Int : (i + j) * k = i * k + j * k
      /\ \A i, j \in Int : i * j \in Int
  OBVIOUS
<1>5. ASSUME NEW T \in Bad
      PROVE  \E U \in Bad : U \subseteq T /\ U # T
  <2>1. T # {}
    <3> SUFFICES ASSUME T = {} PROVE FALSE
      OBVIOUS
    <3>1. F[T] = 0 /\ H[T] = 0 /\ Some(T) = {} /\ n(T) = 0
      BY <1>1, <1>2, FS_EmptySet
    <3>2. 0 * p = 0 /\ 0 * w = 0 /\ 0 * (w - 1) = 0
      <4>1. \A i \in Int : 0 * i = 0
        OBVIOUS
      <4> QED
        BY <4>1
    <3> QED
      BY <3>1, <3>2
  <2> DEFINE x == Pick(T)
             U == T \ {x}
  <2>2. x \in S /\ x \in T /\ U \in SUBSET S /\ U \subseteq T /\ U # T
    BY <2>1 DEF Pick
  <2>3. F[T] = f[x] + F[U] /\ H[T] = h[x] + H[U]
    BY <1>1, <1>2, <2>1
  <2> DEFINE left == IF h[x] > 0 THEN w - 1 ELSE 0
  <2>4. f[x] \in Int /\ h[x] \in Int /\ left \in Int /\ h[x] * p <= f[x] * w + left
    BY <2>2
  <2>5. n(T) = n(U) + (IF h[x] > 0 THEN 1 ELSE 0) /\ n(U) \in Nat
    <3>1. CASE h[x] > 0
      <4>1. Some(T) = Some(U) \cup {x} /\ x \notin Some(U)
        BY <2>2, <3>1
      <4>2. IsFiniteSet(Some(U))
        BY <1>3, <2>2
      <4> HIDE DEF Some, U, x
      <4>3. Cardinality(Some(U) \cup {x}) = Cardinality(Some(U)) + 1
        BY <4>1, <4>2, FS_AddElement
      <4> QED
        BY <1>3, <2>2, <3>1, <4>1, <4>3
    <3>2. CASE ~(h[x] > 0)
      <4>1. Some(T) = Some(U)
        BY <2>2, <3>2
      <4> HIDE DEF Some, U, x
      <4> QED
        BY <1>3, <2>2, <3>2, <4>1
    <3> QED
      BY <3>1, <3>2
  <2>6. n(T) * (w - 1) = n(U) * (w - 1) + left
    <3> DEFINE one == IF h[x] > 0 THEN 1 ELSE 0
    <3>1. one \in Int /\ w - 1 \in Int /\ n(U) \in Int /\ n(T) = n(U) + one
      BY <2>5
    <3>2. one * (w - 1) = left
      <4>1. 1 * (w - 1) = w - 1 /\ 0 * (w - 1) = 0
        OBVIOUS
      <4> QED
        BY <4>1
    <3> HIDE DEF n, one, left
    <3>3. (n(U) + one) * (w - 1) = n(U) * (w - 1) + one * (w - 1)
      BY <1>4, <3>1
    <3> QED
      BY <3>1, <3>2, <3>3
  <2> HIDE DEF x, U, left, n, Some
  <2>7. ~Good(U)
    <3> SUFFICES ASSUME Good(U) PROVE Good(T)
      OBVIOUS
    <3>1. F[T] * w = f[x] * w + F[U] * w /\ H[T] * p = h[x] * p + H[U] * p
      <4>1. F[U] \in Int /\ H[U] \in Int /\ w \in Int /\ p \in Int
        OBVIOUS
      <4>2. (f[x] + F[U]) * w = f[x] * w + F[U] * w
        BY <1>4, <2>4, <4>1
      <4>3. (h[x] + H[U]) * p = h[x] * p + H[U] * p
        BY <1>4, <2>4, <4>1
      <4> QED
        BY <2>3, <4>2, <4>3
    <3>2. /\ f[x] * w \in Int /\ F[U] * w \in Int /\ h[x] * p \in Int /\ H[U] * p \in Int
          /\ n(U) * (w - 1) \in Int
      BY <1>4, <2>4, <2>5
    <3> QED
      BY <2>3, <2>4, <2>6, <3>1, <3>2
  <2> HIDE DEF Good
  <2> QED
    BY <2>2, <2>7
<1>6. Bad = {}
  <2> HIDE DEF Bad
  <2> Bad \in SUBSET (SUBSET S)
    BY DEF Bad
  <2> QED
    BY <1>5, NoSmallerCounterexample
<1>7. Good(S)
  <2> HIDE DEF Good
  <2> QED
    BY <1>6
<1> QED
  BY <1>1, <1>2, <1>7 DEF SumFunction

\* Changing one term changes the sum by the difference.
LEMMA SumUpdate ==
  ASSUME NEW S, IsFiniteSet(S), NEW f \in [S -> Int], NEW h \in [S -> Int],
         NEW b \in S, \A x \in S \ {b} : h[x] = f[x]
  PROVE  SumFunction(h) = SumFunction(f) - f[b] + h[b]
<1>1. PICK F : /\ F[{}] = 0
               /\ \A T \in SUBSET S : T # {} => F[T] = f[Pick(T)] + F[T \ {Pick(T)}]
               /\ SumFunctionOnSet(f, S) = F[S]
  BY SumUnfolds
<1>2. PICK H : /\ H[{}] = 0
               /\ \A T \in SUBSET S : T # {} => H[T] = h[Pick(T)] + H[T \ {Pick(T)}]
               /\ SumFunctionOnSet(h, S) = H[S]
  BY SumUnfolds
<1> DEFINE Good(T) == /\ F[T] \in Int
                      /\ H[T] = F[T] + (IF b \in T THEN h[b] - f[b] ELSE 0)
           Bad == {T \in SUBSET S : ~Good(T)}
<1>3. ASSUME NEW T \in Bad
      PROVE  \E U \in Bad : U \subseteq T /\ U # T
  <2>1. T # {}
    <3> SUFFICES ASSUME T = {} PROVE FALSE
      OBVIOUS
    <3>1. F[T] = 0 /\ H[T] = 0
      BY <1>1, <1>2
    <3> QED
      BY <3>1
  <2> DEFINE x == Pick(T)
             U == T \ {x}
  <2>2. x \in S /\ x \in T /\ U \in SUBSET S /\ U \subseteq T /\ U # T
    BY <2>1 DEF Pick
  <2>3. F[T] = f[x] + F[U] /\ H[T] = h[x] + H[U]
    BY <1>1, <1>2, <2>1
  <2>4. f[x] \in Int /\ h[x] \in Int /\ f[b] \in Int /\ h[b] \in Int
    BY <2>2
  <2>5. b \in U <=> (b \in T /\ b # x)
    OBVIOUS
  <2> HIDE DEF x, U
  <2>6. ~Good(U)
    <3> SUFFICES ASSUME Good(U) PROVE Good(T)
      OBVIOUS
    <3>1. CASE x = b
      BY <2>2, <2>3, <2>4, <2>5, <3>1
    <3>2. CASE x # b
      <4>1. h[x] = f[x]
        BY <2>2, <3>2
      <4> QED
        BY <2>2, <2>3, <2>4, <2>5, <3>2, <4>1
    <3> QED
      BY <3>1, <3>2
  <2> QED
    BY <2>2, <2>6
<1>4. Bad = {}
  <2> HIDE DEF Bad
  <2> Bad \in SUBSET (SUBSET S)
    BY DEF Bad
  <2> QED
    BY <1>3, NoSmallerCounterexample
<1>5. F[S] \in Int /\ H[S] = F[S] + (h[b] - f[b])
  BY <1>4
<1> QED
  BY <1>1, <1>2, <1>5 DEF SumFunction

\* Termwise comparison of two sums.
LEMMA SumMonotone ==
  ASSUME NEW S, IsFiniteSet(S), NEW f \in [S -> Int], NEW h \in [S -> Int],
         \A x \in S : f[x] <= h[x]
  PROVE  SumFunction(f) <= SumFunction(h)
<1>1. \A x \in S : f[x] * 1 <= h[x] * 1
  OBVIOUS
<1>2. SumFunction(f) * 1 <= SumFunction(h) * 1
  BY <1>1, SumScaled
<1> QED
  BY <1>2, SumType

\* A sum of zeros is zero.
LEMMA SumZero ==
  ASSUME NEW S, IsFiniteSet(S)
  PROVE  SumFunction([x \in S |-> 0]) = 0
<1> DEFINE z == [x \in S |-> 0]
<1>1. z \in [S -> Int] /\ \A x \in S : z[x] * 1 <= z[x] * 0 /\ z[x] * 0 <= z[x] * 1
  OBVIOUS
<1> HIDE DEF z
<1>2. SumFunction(z) * 1 <= SumFunction(z) * 0 /\ SumFunction(z) * 0 <= SumFunction(z) * 1
  BY <1>1, SumScaled
<1>3. SumFunction(z) \in Int
  BY <1>1, SumType
<1>4. SumFunction(z) = 0
  BY <1>2, <1>3
<1> QED
  BY <1>4 DEF z

\* A term of a sum of naturals is at most the sum.
LEMMA SumBoundsTerm ==
  ASSUME NEW S, IsFiniteSet(S), NEW f \in [S -> Nat], NEW b \in S
  PROVE  f[b] <= SumFunction(f)
<1> DEFINE h == [f EXCEPT ![b] = 0]
<1>1. h \in [S -> Nat] /\ f \in [S -> Int] /\ h \in [S -> Int]
  OBVIOUS
<1>2. h[b] = 0 /\ \A x \in S \ {b} : h[x] = f[x]
  OBVIOUS
<1> HIDE DEF h
<1>3. SumFunction(h) = SumFunction(f) - f[b] + h[b]
  BY <1>1, <1>2, SumUpdate
<1>4. SumFunction(h) \in Nat /\ SumFunction(f) \in Nat
  BY <1>1, SumType
<1> QED
  BY <1>2, <1>3, <1>4

=============================================================================
