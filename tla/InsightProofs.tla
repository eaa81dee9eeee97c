---------------------------- MODULE InsightProofs ---------------------------
(***************************************************************************)
(* Proofs about the insights of a set of meetings, for any meetings, rules *)
(* and sets of them: what the sums are that Insights takes with Total, what*)
(* the aggregate of StreamingAnalysis holds of the meetings it is fed, and *)
(* why the views of the dashboard add up.                                  *)
(***************************************************************************)
EXTENDS StreamingAnalysis, FiniteSetTheorems, SequenceTheorems, TLAPS

-----------------------------------------------------------------------------
(* Ranks in a set of numbers.                                              *)

\* How many of T come before m.
RankIn(T, m) == Cardinality({k \in T : k < m})

\* n numbers from a on.
LEMMA IntervalSize ==
    ASSUME NEW a \in Nat, NEW n \in Nat
    PROVE  IsFiniteSet(a..(a + n - 1)) /\ Cardinality(a..(a + n - 1)) = n
<1>1. PICK b \in Int : b = a + n - 1
  OBVIOUS
<1>2. IsFiniteSet(a..b) /\ Cardinality(a..b) = IF a > b THEN 0 ELSE b - a + 1
  BY FS_Interval
<1>3. Cardinality(a..b) = n
  BY <1>1, <1>2
<1> QED BY <1>1, <1>2, <1>3

LEMMA CountingSize ==
    ASSUME NEW n \in Nat
    PROVE  IsFiniteSet(1..n) /\ Cardinality(1..n) = n
<1>1. PICK a \in Int : a = 1
  OBVIOUS
<1>2. IsFiniteSet(a..n) /\ Cardinality(a..n) = IF a > n THEN 0 ELSE n - a + 1
  BY FS_Interval
<1>3. Cardinality(a..n) = n
  BY <1>1, <1>2
<1> QED BY <1>1, <1>2, <1>3

\* A part of the table is finite, and the ranks in it are natural numbers below
\* its size, in the order of the ids.
LEMMA RanksAreOrdered ==
    ASSUME NEW T, T \subseteq Int, IsFiniteSet(T)
    PROVE  /\ \A m \in Int : RankIn(T, m) \in Nat /\ RankIn(T, m) <= Cardinality(T)
           /\ \A m \in T : RankIn(T, m) < Cardinality(T)
           /\ \A k, m \in T : k < m => RankIn(T, k) < RankIn(T, m)
<1>1. ASSUME NEW m \in Int
      PROVE  /\ IsFiniteSet({k \in T : k < m})
             /\ RankIn(T, m) \in Nat /\ RankIn(T, m) <= Cardinality(T)
  <2>1. {k \in T : k < m} \subseteq T
    OBVIOUS
  <2> QED BY <2>1, FS_Subset, FS_CardinalityType DEF RankIn
<1>2. ASSUME NEW m \in T PROVE RankIn(T, m) < Cardinality(T)
  <2>1. m \in Int /\ {k \in T : k < m} \subseteq T /\ m \notin {k \in T : k < m}
    OBVIOUS
  <2>2. RankIn(T, m) # Cardinality(T)
    BY <2>1, FS_Subset DEF RankIn
  <2>3. /\ RankIn(T, m) \in Nat /\ RankIn(T, m) <= Cardinality(T)
        /\ Cardinality(T) \in Nat
    BY <1>1, <2>1, FS_CardinalityType
  <2> QED BY <2>2, <2>3
<1>3. ASSUME NEW k \in T, NEW m \in T, k < m PROVE RankIn(T, k) < RankIn(T, m)
  <2> DEFINE K == {j \in T : j < k}
             M == {j \in T : j < m}
  <2>1. k \in Int /\ m \in Int /\ K \subseteq M /\ k \in M /\ k \notin K
    <3>1. k \in Int /\ m \in Int /\ k \in M /\ k \notin K
      BY <1>3
    <3>2. ASSUME NEW j \in T, j < k PROVE j < m
      <4>1. j \in Int
        OBVIOUS
      <4> QED BY <1>3, <3>1, <3>2, <4>1
    <3> QED BY <3>1, <3>2
  <2>2. IsFiniteSet(K) /\ IsFiniteSet(M)
    BY <1>1, <2>1
  <2>3. Cardinality(K) <= Cardinality(M) /\ Cardinality(K) # Cardinality(M)
    BY <2>1, <2>2, FS_Subset
  <2>4. Cardinality(K) \in Nat /\ Cardinality(M) \in Nat
    BY <2>2, FS_CardinalityType
  <2> QED BY <2>3, <2>4 DEF RankIn
<1> QED BY <1>1, <1>2, <1>3

\* Every rank below the size is taken, once: as many rows as ranks.
LEMMA RanksAreFilled ==
    ASSUME NEW T, T \subseteq Int, IsFiniteSet(T),
           NEW J, J \subseteq 0..(Cardinality(T) - 1)
    PROVE  Cardinality({m \in T : RankIn(T, m) \in J}) = Cardinality(J)
<1> DEFINE c == Cardinality(T)
           f == [m \in T |-> RankIn(T, m)]
           X == {m \in T : RankIn(T, m) \in J}
           g == [m \in X |-> RankIn(T, m)]
<1>1. c \in Nat
  BY FS_CardinalityType
<1>2. ASSUME NEW m \in T PROVE RankIn(T, m) \in 0..(c - 1)
  <2>1. m \in Int
    OBVIOUS
  <2>2. RankIn(T, m) \in Nat /\ RankIn(T, m) < c
    BY <2>1, RanksAreOrdered
  <2> QED BY <1>1, <2>2
<1>3. \A k, m \in T : RankIn(T, k) = RankIn(T, m) => k = m
  <2> SUFFICES ASSUME NEW k \in T, NEW m \in T, k # m
               PROVE  RankIn(T, k) # RankIn(T, m)
    OBVIOUS
  <2>1. k \in Int /\ m \in Int /\ (k < m \/ m < k)
    OBVIOUS
  <2>2. RankIn(T, k) \in Nat /\ RankIn(T, m) \in Nat
    BY <2>1, RanksAreOrdered
  <2>3. RankIn(T, k) < RankIn(T, m) \/ RankIn(T, m) < RankIn(T, k)
    BY <2>1, RanksAreOrdered
  <2> QED BY <2>2, <2>3
<1>4. f \in Injection(T, 0..(c - 1))
  BY <1>2, <1>3 DEF Injection, IsInjective
<1>5. IsFiniteSet(0..(c - 1)) /\ Cardinality(0..(c - 1)) = c
  <2>1. 0 \in Int /\ c - 1 \in Int
    BY <1>1
  <2>2. Cardinality(0..(c - 1)) = IF 0 > c - 1 THEN 0 ELSE c - 1 - 0 + 1
    BY <2>1, FS_Interval
  <2> QED BY <1>1, <2>1, <2>2, FS_Interval
<1>6. f \in Surjection(T, 0..(c - 1))
  BY <1>4, <1>5, FS_Injection
<1>7. \A j \in 0..(c - 1) : \E m \in T : RankIn(T, m) = j
  BY <1>6 DEF Surjection
<1>8. g \in Injection(X, J)
  BY <1>3 DEF Injection, IsInjective
<1>9. g \in Surjection(X, J)
  <2>1. g \in [X -> J]
    OBVIOUS
  <2>2. ASSUME NEW j \in J PROVE \E m \in X : g[m] = j
    <3>1. PICK m \in T : RankIn(T, m) = j
      BY <1>7
    <3>2. m \in X /\ g[m] = j
      BY <3>1
    <3> QED BY <3>2
  <2> QED BY <2>1, <2>2 DEF Surjection
<1>10. IsFiniteSet(J)
  BY <1>5, FS_Subset
<1> QED BY <1>8, <1>9, <1>10, FS_Injection

-----------------------------------------------------------------------------
(* Sums over finite sets.                                                  *)

\* Induction over the subsets of a finite set, as an instance of well-founded
\* minima: what the empty set has, and one more element keeps, every subset has.
LEMMA SmallestSubset ==
    ASSUME NEW S, IsFiniteSet(S), NEW Bad \in SUBSET SUBSET S, Bad # {}
    PROVE  \E T \in Bad : \A U \in SUBSET T : U # T => U \notin Bad
<1>1. FiniteSubsetsOf(S) = SUBSET S
  BY FS_FiniteSubsetsOfFinite
<1>2. IsWellFoundedOn(StrictSubsetOrdering(S), SUBSET S)
  BY <1>1, FS_StrictSubsetOrderingWellFounded
<1>3. PICK T \in Bad : \A U \in Bad : ~ (<<U, T>> \in StrictSubsetOrdering(S))
  BY <1>2, WFMin
<1>4. ASSUME NEW U \in SUBSET T, U # T, U \in Bad PROVE FALSE
  <2>1. <<U, T>> \in StrictSubsetOrdering(S)
    BY <1>4 DEF StrictSubsetOrdering
  <2> QED BY <1>3, <1>4, <2>1
<1> QED BY <1>4

Pick(s) == CHOOSE x \in s : TRUE
Sum(g, S) == Total(LAMBDA x : g[x], S)

LEMMA PickIsIn == ASSUME NEW s, s # {} PROVE Pick(s) \in s
BY DEF Pick

\* What is folded over a set: integers that are added up, or fractions.
Start(op) == IF op = "sum" THEN 0 ELSE <<0, 1>>
Step(op, x, v) == IF op = "sum" THEN x + v ELSE FractionSum(x, v)

Folds(op, it, g, S) ==
    it = [s \in SUBSET S |->
             IF s = {} THEN Start(op) ELSE Step(op, g[Pick(s)], it[s \ {Pick(s)}])]
Folded(op, g, S) == CHOOSE it : Folds(op, it, g, S)

LEMMA OneFold ==
    ASSUME NEW op, NEW g, NEW S, IsFiniteSet(S), NEW a, NEW b,
           Folds(op, a, g, S), Folds(op, b, g, S)
    PROVE  a = b
<1> DEFINE Bad == {s \in SUBSET S : a[s] # b[s]}
<1>1. ASSUME Bad # {} PROVE FALSE
  <2>1. Bad \in SUBSET SUBSET S
    OBVIOUS
  <2>2. PICK T \in Bad : \A U \in SUBSET T : U # T => U \notin Bad
    <3> HIDE DEF Bad
    <3> QED BY <1>1, <2>1, SmallestSubset
  <2>3. T \in SUBSET S /\ a[T] # b[T]
    OBVIOUS
  <2>4. T # {}
    BY <2>3 DEF Folds
  <2>5. Pick(T) \in T
    BY <2>4, PickIsIn
  <2>6. T \ {Pick(T)} \in SUBSET S /\ a[T \ {Pick(T)}] = b[T \ {Pick(T)}]
    BY <2>2, <2>3, <2>5
  <2>7. /\ a[T] = Step(op, g[Pick(T)], a[T \ {Pick(T)}])
        /\ b[T] = Step(op, g[Pick(T)], b[T \ {Pick(T)}])
    BY <2>3, <2>4 DEF Folds
  <2> QED BY <2>3, <2>6, <2>7
<1>2. \A s \in SUBSET S : a[s] = b[s]
  BY <1>1
<1>3. /\ a = [s \in SUBSET S |-> a[s]]
      /\ b = [s \in SUBSET S |-> b[s]]
  BY DEF Folds
<1> QED BY <1>2, <1>3

LEMMA FoldsRestrict ==
    ASSUME NEW op, NEW g, NEW S, NEW T \in SUBSET S, NEW a, Folds(op, a, g, S)
    PROVE  Folds(op, [s \in SUBSET T |-> a[s]], g, T)
<1> DEFINE b == [s \in SUBSET T |-> a[s]]
<1>1. ASSUME NEW s \in SUBSET T
      PROVE  b[s] = IF s = {} THEN Start(op) ELSE Step(op, g[Pick(s)], b[s \ {Pick(s)}])
  <2>1. s \in SUBSET S /\ b[s] = a[s] /\ b[s \ {Pick(s)}] = a[s \ {Pick(s)}]
    OBVIOUS
  <2>2. a[s] = IF s = {} THEN Start(op) ELSE Step(op, g[Pick(s)], a[s \ {Pick(s)}])
    BY <2>1 DEF Folds
  <2> QED BY <2>1, <2>2
<1>2. b = [s \in SUBSET T |-> b[s]]
  OBVIOUS
<1> QED BY <1>1, <1>2 DEF Folds

LEMMA FoldExists ==
    ASSUME NEW op, NEW g, NEW S, IsFiniteSet(S)
    PROVE  Folds(op, Folded(op, g, S), g, S)
<1> DEFINE Bad == {s \in SUBSET S : ~ Folds(op, Folded(op, g, s), g, s)}
<1>1. ASSUME Bad # {} PROVE FALSE
  <2>1. Bad \in SUBSET SUBSET S
    OBVIOUS
  <2>2. PICK T \in Bad : \A U \in SUBSET T : U # T => U \notin Bad
    <3> HIDE DEF Bad
    <3> QED BY <1>1, <2>1, SmallestSubset
  <2>3. \A U \in SUBSET T : U # T => Folds(op, Folded(op, g, U), g, U)
    BY <2>1, <2>2
  <2>4. IsFiniteSet(T)
    BY <2>1, FS_Subset
  <2> DEFINE rest(s) == s \ {Pick(s)}
             it == [s \in SUBSET T |->
                       IF s = {} THEN Start(op)
                       ELSE Step(op, g[Pick(s)], Folded(op, g, rest(s))[rest(s)])]
  <2>5. ASSUME NEW u \in SUBSET T, u # T PROVE it[u] = Folded(op, g, u)[u]
    <3>1. CASE u = {}
      BY <2>3, <2>5, <3>1 DEF Folds
    <3>2. CASE u # {}
      <4> DEFINE v == rest(u)
      <4>1. Pick(u) \in u /\ v \in SUBSET u /\ v \in SUBSET T /\ v # T
        BY <2>5, <3>2, PickIsIn
      <4>2. Folds(op, Folded(op, g, u), g, u) /\ Folds(op, Folded(op, g, v), g, v)
        BY <2>3, <2>5, <4>1
      <4>3. Folded(op, g, u)[u] = Step(op, g[Pick(u)], Folded(op, g, u)[v])
        BY <3>2, <4>2 DEF Folds
      <4>4. it[u] = Step(op, g[Pick(u)], Folded(op, g, v)[v])
        BY <3>2
      <4> HIDE DEF v
      <4>5. Folded(op, g, v) = [s \in SUBSET v |-> Folded(op, g, u)[s]]
        <5> DEFINE a == Folded(op, g, u)
        <5>1. Folds(op, [s \in SUBSET v |-> a[s]], g, v)
          <6>1. Folds(op, a, g, u) /\ v \in SUBSET u
            BY <4>1, <4>2
          <6> HIDE DEF a
          <6> QED BY <6>1, FoldsRestrict
        <5>2. IsFiniteSet(v)
          BY <2>4, <4>1, FS_Subset
        <5> QED BY <4>2, <5>1, <5>2, OneFold
      <4>6. Folded(op, g, v)[v] = Folded(op, g, u)[v]
        BY <4>5
      <4> QED BY <4>3, <4>4, <4>6
    <3> QED BY <3>1, <3>2
  <2>6. ASSUME NEW s \in SUBSET T
        PROVE  it[s] = IF s = {} THEN Start(op) ELSE Step(op, g[Pick(s)], it[rest(s)])
    <3>1. s # {} => rest(s) \in SUBSET T /\ rest(s) # T
      BY PickIsIn
    <3> QED BY <2>5, <3>1
  <2>7. Folds(op, it, g, T)
    <3>1. it = [s \in SUBSET T |-> it[s]]
      OBVIOUS
    <3> HIDE DEF it
    <3> QED BY <2>6, <3>1 DEF Folds
  <2>8. Folds(op, Folded(op, g, T), g, T)
    BY <2>7 DEF Folded
  <2> QED BY <2>1, <2>8
<1>2. S \notin Bad
  BY <1>1
<1> QED BY <1>2

Solves(it, g, S) ==
    it = [s \in SUBSET S |-> IF s = {} THEN 0 ELSE g[Pick(s)] + it[s \ {Pick(s)}]]
Iteration(g, S) == CHOOSE it : Solves(it, g, S)

LEMMA SolvesFolds ==
    ASSUME NEW it, NEW g, NEW S
    PROVE  Solves(it, g, S) <=> Folds("sum", it, g, S)
BY DEF Solves, Folds, Start, Step

LEMMA OneSolution ==
    ASSUME NEW g, NEW S, IsFiniteSet(S), NEW a, NEW b, Solves(a, g, S), Solves(b, g, S)
    PROVE  a = b
BY SolvesFolds, OneFold

LEMMA SolutionsRestrict ==
    ASSUME NEW g, NEW S, NEW T \in SUBSET S, NEW a, Solves(a, g, S)
    PROVE  Solves([s \in SUBSET T |-> a[s]], g, T)
<1> DEFINE b == [s \in SUBSET T |-> a[s]]
<1>1. Folds("sum", b, g, T)
  BY SolvesFolds, FoldsRestrict
<1> HIDE DEF b
<1>2. Solves(b, g, T)
  BY <1>1, SolvesFolds
<1> QED BY <1>2 DEF b

LEMMA SolutionExists ==
    ASSUME NEW g, NEW S, IsFiniteSet(S)
    PROVE  Solves(Iteration(g, S), g, S)
<1>1. Solves(Folded("sum", g, S), g, S)
  BY SolvesFolds, FoldExists
<1> QED BY <1>1 DEF Iteration

LEMMA SumIsIteration ==
    ASSUME NEW g, NEW S, IsFiniteSet(S), NEW it, Solves(it, g, S)
    PROVE  Sum(g, S) = it[S]
<1>1. Sum(g, S) = Iteration(g, S)[S]
  BY DEF Sum, Total, MapThenSumSet, MapThenFoldSet, Iteration, Solves, Pick
<1> QED BY <1>1, SolutionExists, OneSolution

\* A sum, one element after the other, in the order of the choice.
LEMMA SumEquation ==
    ASSUME NEW g, NEW S, IsFiniteSet(S)
    PROVE  Sum(g, S) = IF S = {} THEN 0 ELSE g[Pick(S)] + Sum(g, S \ {Pick(S)})
<1> DEFINE it == Iteration(g, S)
           T == S \ {Pick(S)}
<1>1. Solves(it, g, S)
  BY SolutionExists
<1>2. Sum(g, S) = it[S] /\ S \in SUBSET S /\ T \in SUBSET S
  BY <1>1, SumIsIteration
<1>3. it[S] = IF S = {} THEN 0 ELSE g[Pick(S)] + it[T]
  BY <1>1 DEF Solves
<1>4. Sum(g, T) = it[T]
  <2>1. Solves([s \in SUBSET T |-> it[s]], g, T)
    BY <1>1, <1>2, SolutionsRestrict
  <2>2. IsFiniteSet(T)
    BY FS_Subset
  <2> HIDE DEF T, it
  <2>3. Sum(g, T) = [s \in SUBSET T |-> it[s]][T]
    BY <2>1, <2>2, SumIsIteration
  <2> QED BY <2>3
<1> QED BY <1>2, <1>3, <1>4

LEMMA SumOfNone == \A g : Sum(g, {}) = 0
BY SumEquation, FS_EmptySet

\* Sums of equal values are equal, and of integers integers.
LEMMA SumsAgree ==
    ASSUME NEW S, IsFiniteSet(S), NEW f, NEW g, \A x \in S : f[x] = g[x]
    PROVE  Sum(f, S) = Sum(g, S)
<1> DEFINE Bad == {s \in SUBSET S : Sum(f, s) # Sum(g, s)}
<1>1. ASSUME Bad # {} PROVE FALSE
  <2>1. PICK T \in Bad : \A U \in SUBSET T : U # T => U \notin Bad
    <3>1. Bad \in SUBSET SUBSET S
      OBVIOUS
    <3> HIDE DEF Bad
    <3> QED BY <1>1, <3>1, SmallestSubset
  <2>2. T \in SUBSET S /\ IsFiniteSet(T) /\ Sum(f, T) # Sum(g, T)
    BY FS_Subset
  <2>3. T # {} /\ Pick(T) \in T
    BY <2>2, SumOfNone, PickIsIn
  <2>4. Sum(f, T \ {Pick(T)}) = Sum(g, T \ {Pick(T)}) /\ f[Pick(T)] = g[Pick(T)]
    BY <2>1, <2>2, <2>3
  <2> QED BY <2>2, <2>3, <2>4, SumEquation
<1> QED BY <1>1

LEMMA SumIsInt ==
    ASSUME NEW S, IsFiniteSet(S), NEW g, \A x \in S : g[x] \in Int
    PROVE  Sum(g, S) \in Int
<1> DEFINE Bad == {s \in SUBSET S : Sum(g, s) \notin Int}
<1>1. ASSUME Bad # {} PROVE FALSE
  <2>1. PICK T \in Bad : \A U \in SUBSET T : U # T => U \notin Bad
    <3>1. Bad \in SUBSET SUBSET S
      OBVIOUS
    <3> HIDE DEF Bad
    <3> QED BY <1>1, <3>1, SmallestSubset
  <2>2. T \in SUBSET S /\ IsFiniteSet(T) /\ Sum(g, T) \notin Int
    BY FS_Subset
  <2>3. T # {} /\ Pick(T) \in T
    BY <2>2, SumOfNone, PickIsIn
  <2>4. Sum(g, T \ {Pick(T)}) \in Int /\ g[Pick(T)] \in Int
    BY <2>1, <2>2, <2>3
  <2>5. Sum(g, T) = g[Pick(T)] + Sum(g, T \ {Pick(T)})
    BY <2>2, <2>3, SumEquation
  <2> QED BY <2>2, <2>4, <2>5
<1> QED BY <1>1

\* The choice does not matter: any element can be added last.
LEMMA SumTakesOut ==
    ASSUME NEW S, IsFiniteSet(S), NEW g, \A y \in S : g[y] \in Int, NEW x \in S
    PROVE  Sum(g, S) = g[x] + Sum(g, S \ {x})
<1> DEFINE Holds(s) == \A y \in s : Sum(g, s) = g[y] + Sum(g, s \ {y})
           Bad == {s \in SUBSET S : ~ Holds(s)}
<1>1. ASSUME Bad # {} PROVE FALSE
  <2>1. PICK T \in Bad : \A U \in SUBSET T : U # T => U \notin Bad
    <3>1. Bad \in SUBSET SUBSET S
      OBVIOUS
    <3> HIDE DEF Bad
    <3> QED BY <1>1, <3>1, SmallestSubset
  <2>2. T \in SUBSET S /\ IsFiniteSet(T)
    BY FS_Subset
  <2>3. PICK y \in T : Sum(g, T) # g[y] + Sum(g, T \ {y})
    BY <2>1
  <2> DEFINE p == Pick(T)
             Tp == T \ {p}
             Ty == T \ {y}
             Tpy == T \ {p, y}
  <2>4. p \in T
    BY PickIsIn
  <2>5. Sum(g, T) = g[p] + Sum(g, Tp)
    BY <2>2, <2>4, SumEquation
  <2>6. y # p
    BY <2>3, <2>5
  <2>7. /\ Tp \in SUBSET T /\ Tp # T /\ y \in Tp /\ Tp \ {y} = Tpy
        /\ Ty \in SUBSET T /\ Ty # T /\ p \in Ty /\ Ty \ {p} = Tpy
    BY <2>4, <2>6
  <2>8. Sum(g, Tp) = g[y] + Sum(g, Tpy) /\ Sum(g, Ty) = g[p] + Sum(g, Tpy)
    <3>1. Tp \in SUBSET S /\ Ty \in SUBSET S
      BY <2>2, <2>7
    <3>2. Holds(Tp) /\ Holds(Ty)
      BY <2>1, <2>7, <3>1
    <3> HIDE DEF Tp, Ty, Tpy, p
    <3> QED BY <2>7, <3>2
  <2>9. Sum(g, Tpy) \in Int /\ g[p] \in Int /\ g[y] \in Int
    <3>1. IsFiniteSet(Tpy) /\ Tpy \subseteq S
      BY <2>2, FS_Subset
    <3> HIDE DEF Tpy, p
    <3> QED BY <2>2, <2>4, <3>1, SumIsInt
  <2> HIDE DEF p, Tp, Tpy
  <2> QED BY <2>3, <2>5, <2>8, <2>9
<1>2. Holds(S)
  BY <1>1
<1> QED BY <1>2

\* The sum over two sets that share nothing.
LEMMA SumOfUnion ==
    ASSUME NEW S, IsFiniteSet(S), NEW T, IsFiniteSet(T), S \cap T = {},
           NEW g, \A x \in S \cup T : g[x] \in Int
    PROVE  Sum(g, S \cup T) = Sum(g, S) + Sum(g, T)
<1> DEFINE Bad == {s \in SUBSET S : Sum(g, s \cup T) # Sum(g, s) + Sum(g, T)}
<1>1. ASSUME Bad # {} PROVE FALSE
  <2>1. PICK U \in Bad : \A V \in SUBSET U : V # U => V \notin Bad
    <3>1. Bad \in SUBSET SUBSET S
      OBVIOUS
    <3> HIDE DEF Bad
    <3> QED BY <1>1, <3>1, SmallestSubset
  <2>2. U \in SUBSET S /\ IsFiniteSet(U) /\ Sum(g, U \cup T) # Sum(g, U) + Sum(g, T)
    BY FS_Subset
  <2>3. Sum(g, T) \in Int
    BY SumIsInt
  <2>4. U # {}
    <3>1. {} \cup T = T
      OBVIOUS
    <3> QED BY <2>2, <2>3, <3>1, SumOfNone
  <2>5. PICK x \in U : TRUE
    BY <2>4
  <2>6. Sum(g, U) = g[x] + Sum(g, U \ {x})
    <3>1. \A y \in U : g[y] \in Int
      BY <2>2
    <3> QED BY <2>2, <3>1, SumTakesOut
  <2>7. Sum(g, U \cup T) = g[x] + Sum(g, (U \ {x}) \cup T)
    <3>1. IsFiniteSet(U \cup T)
      BY <2>2, FS_Union
    <3>2. /\ \A y \in U \cup T : g[y] \in Int
          /\ x \in U \cup T /\ (U \cup T) \ {x} = (U \ {x}) \cup T
      BY <2>2
    <3> QED BY <3>1, <3>2, SumTakesOut
  <2>8. Sum(g, (U \ {x}) \cup T) = Sum(g, U \ {x}) + Sum(g, T)
    BY <2>1, <2>2
  <2>9. Sum(g, U \ {x}) \in Int /\ g[x] \in Int
    <3>1. IsFiniteSet(U \ {x}) /\ \A y \in U \ {x} : g[y] \in Int
      BY <2>2, FS_RemoveElement
    <3> QED BY <2>2, <3>1, SumIsInt
  <2> QED BY <2>2, <2>3, <2>6, <2>7, <2>8, <2>9
<1>2. Sum(g, S \cup T) = Sum(g, S) + Sum(g, T)
  BY <1>1
<1> QED BY <1>2

\* No part of a sum of natural numbers is more than the whole.
LEMMA SumBoundsParts ==
    ASSUME NEW S, IsFiniteSet(S), NEW g, \A x \in S : g[x] \in Nat
    PROVE  Sum(g, S) \in Nat /\ \A x \in S : g[x] <= Sum(g, S)
<1> DEFINE Bad == {s \in SUBSET S : Sum(g, s) \notin Nat}
<1>1. ASSUME Bad # {} PROVE FALSE
  <2>1. PICK T \in Bad : \A U \in SUBSET T : U # T => U \notin Bad
    <3>1. Bad \in SUBSET SUBSET S
      OBVIOUS
    <3> HIDE DEF Bad
    <3> QED BY <1>1, <3>1, SmallestSubset
  <2>2. T \in SUBSET S /\ IsFiniteSet(T) /\ Sum(g, T) \notin Nat
    BY FS_Subset
  <2>3. T # {} /\ Pick(T) \in T
    BY <2>2, SumOfNone, PickIsIn
  <2>4. Sum(g, T \ {Pick(T)}) \in Nat /\ g[Pick(T)] \in Nat
    BY <2>1, <2>2, <2>3
  <2>5. Sum(g, T) = g[Pick(T)] + Sum(g, T \ {Pick(T)})
    BY <2>2, <2>3, SumEquation
  <2> QED BY <2>2, <2>4, <2>5
<1>2. \A s \in SUBSET S : Sum(g, s) \in Nat
  BY <1>1
<1>3. ASSUME NEW x \in S PROVE g[x] <= Sum(g, S)
  <2>1. Sum(g, S) = g[x] + Sum(g, S \ {x})
    BY SumTakesOut
  <2>2. Sum(g, S \ {x}) \in Nat /\ g[x] \in Nat
    BY <1>2
  <2> QED BY <2>1, <2>2
<1> QED BY <1>2, <1>3

\* The sum does not depend on what the values are numbered by.
LEMMA SumMoves ==
    ASSUME NEW S, IsFiniteSet(S), NEW T, NEW h \in [S -> T],
           \A x, y \in S : h[x] = h[y] => x = y, \A y \in T : \E x \in S : h[x] = y,
           NEW f, NEW g, \A x \in S : f[x] = g[h[x]], \A y \in T : g[y] \in Int
    PROVE  IsFiniteSet(T) /\ Sum(f, S) = Sum(g, T)
<1>1. IsFiniteSet(T)
  <2>1. h \in Surjection(S, T)
    BY DEF Surjection
  <2> QED BY <2>1, FS_Surjection
<1> DEFINE im(s) == {h[x] : x \in s}
           Bad == {s \in SUBSET S : Sum(f, s) # Sum(g, im(s))}
<1>2. ASSUME Bad # {} PROVE FALSE
  <2>1. PICK U \in Bad : \A V \in SUBSET U : V # U => V \notin Bad
    <3>1. Bad \in SUBSET SUBSET S
      OBVIOUS
    <3> HIDE DEF Bad
    <3> QED BY <1>2, <3>1, SmallestSubset
  <2>2. U \in SUBSET S /\ IsFiniteSet(U) /\ Sum(f, U) # Sum(g, im(U))
    BY FS_Subset
  <2>3. U # {}
    <3>1. im({}) = {}
      OBVIOUS
    <3> HIDE DEF im
    <3> QED BY <2>2, <3>1, SumOfNone
  <2>4. PICK x \in U : TRUE
    BY <2>3
  <2>5. Sum(f, U) = f[x] + Sum(f, U \ {x})
    <3>1. \A y \in U : f[y] \in Int
      BY <2>2
    <3> QED BY <2>2, <3>1, SumTakesOut
  <2>6. Sum(g, im(U)) = g[h[x]] + Sum(g, im(U \ {x}))
    <3>1. h[x] \in im(U) /\ im(U) \subseteq T /\ im(U) \ {h[x]} = im(U \ {x})
      BY <2>2
    <3> DEFINE V == im(U)
               y == h[x]
    <3>2. y \in V /\ V \subseteq T
      BY <3>1
    <3> HIDE DEF im, V, y
    <3>3. IsFiniteSet(V) /\ \A z \in V : g[z] \in Int
      BY <1>1, <3>2, FS_Subset
    <3>4. Sum(g, V) = g[y] + Sum(g, V \ {y})
      BY <3>2, <3>3, SumTakesOut
    <3> QED BY <3>1, <3>4 DEF V, y
  <2>7. Sum(f, U \ {x}) = Sum(g, im(U \ {x}))
    BY <2>1, <2>2
  <2>8. f[x] = g[h[x]]
    BY <2>2
  <2> HIDE DEF im
  <2> QED BY <2>2, <2>5, <2>6, <2>7, <2>8
<1>3. Sum(f, S) = Sum(g, im(S))
  BY <1>2
<1>4. im(S) = T
  OBVIOUS
<1> HIDE DEF im
<1> QED BY <1>1, <1>3, <1>4

\* The sum, group by group: h says which group an element is in.
LEMMA SumByGroups ==
    ASSUME NEW S, IsFiniteSet(S), NEW K, IsFiniteSet(K), NEW h \in [S -> K],
           NEW g, \A x \in S : g[x] \in Int,
           NEW G, \A k \in K : G[k] = Sum(g, {x \in S : h[x] = k})
    PROVE  Sum(g, S) = Sum(G, K)
<1> DEFINE of(L) == {x \in S : h[x] \in L}
           Bad == {L \in SUBSET K : Sum(G, L) # Sum(g, of(L))}
<1>1. \A L : of(L) \in SUBSET S /\ IsFiniteSet(of(L)) /\ \A x \in of(L) : g[x] \in Int
  BY FS_Subset
<1>2. \A k : of({k}) = {x \in S : h[x] = k}
  OBVIOUS
<1>3. \A k \in K : G[k] = Sum(g, of({k})) /\ G[k] \in Int
  <2> SUFFICES ASSUME NEW k \in K PROVE G[k] = Sum(g, of({k})) /\ G[k] \in Int
    OBVIOUS
  <2>1. G[k] = Sum(g, of({k}))
    BY <1>2
  <2> HIDE DEF of
  <2> QED BY <1>1, <2>1, SumIsInt
<1>4. ASSUME Bad # {} PROVE FALSE
  <2>1. PICK L \in Bad : \A M \in SUBSET L : M # L => M \notin Bad
    <3>1. Bad \in SUBSET SUBSET K
      OBVIOUS
    <3> HIDE DEF Bad
    <3> QED BY <1>4, <3>1, SmallestSubset
  <2>2. L \in SUBSET K /\ IsFiniteSet(L) /\ Sum(G, L) # Sum(g, of(L))
    BY FS_Subset
  <2>3. L # {}
    <3>1. of({}) = {}
      OBVIOUS
    <3> HIDE DEF of
    <3> QED BY <2>2, <3>1, SumOfNone
  <2>4. PICK k \in L : TRUE
    BY <2>3
  <2>5. Sum(G, L) = G[k] + Sum(G, L \ {k})
    <3>1. \A y \in L : G[y] \in Int
      BY <1>3, <2>2
    <3> HIDE DEF Bad, of
    <3> QED BY <2>2, <3>1, SumTakesOut
  <2>6. of(L) = of({k}) \cup of(L \ {k}) /\ of({k}) \cap of(L \ {k}) = {}
    OBVIOUS
  <2>7. Sum(G, L \ {k}) = Sum(g, of(L \ {k}))
    BY <2>1, <2>2
  <2> HIDE DEF of
  <2>8. Sum(g, of(L)) = Sum(g, of({k})) + Sum(g, of(L \ {k}))
    <3> DEFINE X == of({k})
               Y == of(L \ {k})
    <3>1. /\ IsFiniteSet(X) /\ IsFiniteSet(Y) /\ X \cap Y = {}
          /\ \A x \in X \cup Y : g[x] \in Int
      BY <1>1, <2>6
    <3> HIDE DEF X, Y
    <3>2. Sum(g, X \cup Y) = Sum(g, X) + Sum(g, Y)
      BY <3>1, SumOfUnion
    <3> QED BY <2>6, <3>2 DEF X, Y
  <2> QED BY <1>3, <2>2, <2>5, <2>7, <2>8
<1>5. Sum(G, K) = Sum(g, of(K))
  BY <1>4
<1>6. of(K) = S
  OBVIOUS
<1> HIDE DEF of
<1> QED BY <1>5, <1>6

\* As many elements as ones.
LEMMA SizeIsSum ==
    ASSUME NEW S, IsFiniteSet(S), NEW g, \A x \in S : g[x] = 1
    PROVE  Cardinality(S) = Sum(g, S)
<1> DEFINE Bad == {s \in SUBSET S : Cardinality(s) # Sum(g, s)}
<1>1. ASSUME Bad # {} PROVE FALSE
  <2>1. PICK T \in Bad : \A U \in SUBSET T : U # T => U \notin Bad
    <3>1. Bad \in SUBSET SUBSET S
      OBVIOUS
    <3> HIDE DEF Bad
    <3> QED BY <1>1, <3>1, SmallestSubset
  <2>2. T \in SUBSET S /\ IsFiniteSet(T) /\ Cardinality(T) # Sum(g, T)
    BY FS_Subset
  <2>3. T # {} /\ Pick(T) \in T
    BY <2>2, SumOfNone, PickIsIn, FS_EmptySet
  <2>4. Cardinality(T \ {Pick(T)}) = Sum(g, T \ {Pick(T)}) /\ g[Pick(T)] = 1
    BY <2>1, <2>2, <2>3
  <2>5. Sum(g, T) = 1 + Sum(g, T \ {Pick(T)})
    BY <2>2, <2>3, <2>4, SumEquation
  <2>6. Cardinality(T \ {Pick(T)}) = Cardinality(T) - 1 /\ Cardinality(T) \in Nat
    BY <2>2, <2>3, FS_RemoveElement, FS_CardinalityType
  <2> QED BY <2>2, <2>4, <2>5, <2>6
<1> QED BY <1>1

\* A set has the elements of its groups.
LEMMA SizeByGroups ==
    ASSUME NEW S, IsFiniteSet(S), NEW K, IsFiniteSet(K), NEW h \in [S -> K],
           NEW G, \A k \in K : G[k] = Cardinality({x \in S : h[x] = k})
    PROVE  Sum(G, K) = Cardinality(S)
<1> DEFINE one == [x \in S |-> 1]
<1>1. Cardinality(S) = Sum(one, S) /\ \A x \in S : one[x] = 1
  <2>1. \A x \in S : one[x] = 1
    OBVIOUS
  <2> HIDE DEF one
  <2> QED BY <2>1, SizeIsSum
<1> HIDE DEF one
<1>2. \A k \in K : G[k] = Sum(one, {x \in S : h[x] = k})
  <2> SUFFICES ASSUME NEW k \in K PROVE G[k] = Sum(one, {x \in S : h[x] = k})
    OBVIOUS
  <2> DEFINE X == {x \in S : h[x] = k}
  <2>1. G[k] = Cardinality(X) /\ X \subseteq S
    OBVIOUS
  <2> HIDE DEF X
  <2>2. Cardinality(X) = Sum(one, X)
    BY <1>1, <2>1, FS_Subset, SizeIsSum
  <2> QED BY <2>1, <2>2 DEF X
<1> QED BY <1>1, <1>2, SumByGroups

-----------------------------------------------------------------------------
(* The meetings by their labels.                                           *)

\* A label is that of a rule, or the default.
LEMMA LabelsAreKnown ==
    ASSUME NEW rules, Len(rules) \in Nat, DOMAIN rules = 1..Len(rules),
           NEW matches, NEW default
    PROVE  FirstMatch(rules, matches, default) \in ToSet(rules) \cup {default}
<1> DEFINE hits == {i \in DOMAIN rules : rules[i] \in matches}
<1>1. CASE hits = {}
  BY <1>1 DEF FirstMatch
<1>2. CASE hits # {}
  <2>1. hits \subseteq Int /\ IsFiniteSet(hits)
    <3>1. Len(rules) \in Nat /\ hits \subseteq 1..Len(rules)
      OBVIOUS
    <3>2. IsFiniteSet(1..Len(rules))
      BY <3>1, FS_Interval
    <3>3. hits \subseteq Int
      BY <3>1
    <3> HIDE DEF hits
    <3>4. IsFiniteSet(hits)
      BY <3>1, <3>2, FS_Subset
    <3> QED BY <3>3, <3>4
  <2>2. PICK i \in hits : RankIn(hits, i) = 0
    <3> DEFINE lowest == {j \in hits : RankIn(hits, j) \in {0}}
    <3> HIDE DEF hits
    <3>1. Cardinality(hits) \in Nat /\ Cardinality(hits) # 0
      BY <1>2, <2>1, FS_CardinalityType, FS_EmptySet
    <3>2. {0} \subseteq 0..(Cardinality(hits) - 1)
      BY <3>1
    <3>3. Cardinality(lowest) = Cardinality({0})
      BY <2>1, <3>2, RanksAreFilled
    <3>4. Cardinality({0}) = 1 /\ Cardinality({}) = 0
      BY FS_Singleton, FS_EmptySet
    <3>5. lowest # {}
      <4> HIDE DEF lowest
      <4>1. Cardinality(lowest) = 1
        BY <3>3, <3>4
      <4>2. lowest = {} => Cardinality(lowest) = 0
        BY <3>4
      <4> QED BY <4>1, <4>2
    <3> QED BY <3>5
  <2>3. \A j \in hits : i <= j
    <3> HIDE DEF hits
    <3> SUFFICES ASSUME NEW j \in hits PROVE ~ (j < i)
      BY <2>1, <2>2
    <3>1. j \in Int /\ i \in Int
      BY <2>1, <2>2
    <3>2. RankIn(hits, j) \in Nat
      BY <2>1, <3>1, RanksAreOrdered
    <3>3. j < i => RankIn(hits, j) < RankIn(hits, i)
      BY <2>1, <2>2, RanksAreOrdered
    <3> QED BY <2>2, <3>2, <3>3
  <2>4. Min(hits) \in hits
    <3> HIDE DEF hits
    <3> QED BY <2>3 DEF Min
  <2>5. FirstMatch(rules, matches, default) = rules[Min(hits)]
    BY <1>2 DEF FirstMatch
  <2> QED BY <2>4, <2>5 DEF ToSet
<1> QED BY <1>1, <1>2

LEMMA LabelsAreCounted ==
    /\ \A m : CallType(m) \in CallTypes /\ Purpose(m) \in Purposes
    /\ \A m \in Meeting : ProductAreas(m) \subseteq Product \cup {"General"}
<1>1. /\ Len(CallTypeRules) = 2 /\ DOMAIN CallTypeRules = 1..Len(CallTypeRules)
      /\ ToSet(CallTypeRules) = {"support", "external"}
  <2>1. Len(CallTypeRules) = 2
    BY DEF CallTypeRules
  <2>2. CallTypeRules[1] = "support" /\ CallTypeRules[2] = "external"
    BY DEF CallTypeRules
  <2>3. DOMAIN CallTypeRules = 1..2
    BY DEF CallTypeRules
  <2>4. \A i \in Int : i \in 1..2 <=> i = 1 \/ i = 2
    OBVIOUS
  <2>5. ToSet(CallTypeRules) = {CallTypeRules[1], CallTypeRules[2]}
    BY <2>3, <2>4 DEF ToSet
  <2> QED BY <2>1, <2>2, <2>3, <2>5
<1>2. \A m : CallType(m) \in CallTypes
  BY <1>1, LabelsAreKnown DEF CallType, CallTypes
<1>3. \A m : Purpose(m) \in Purposes
  <2>1. Len(PurposeRules) \in Nat /\ DOMAIN PurposeRules = 1..Len(PurposeRules)
    BY RulesAssumption
  <2> QED BY <2>1, LabelsAreKnown DEF Purpose, Purposes
<1>4. ASSUME NEW m \in Meeting PROVE ProductAreas(m) \subseteq Product \cup {"General"}
  <2>1. Content[m] \in Kind
    BY ContentAssumption, ContentOfMeetings, StreamAssumption DEF Meeting
  <2>2. Content[m].products \subseteq Product
    BY <2>1 DEF Kind
  <2> QED BY <2>2 DEF ProductAreas
<1> QED BY <1>2, <1>3, <1>4

\* The meetings of S that g labels x, and how many there are, by label.
Labelled(g, S, x) == {m \in S : x \in g[m]}
LabelCounts(g, S) == [x \in UNION {g[m] : m \in S} |-> Cardinality(Labelled(g, S, x))]

\* A table of counters, without the zeros, has the labels that occur in S.
LEMMA PositiveCounts ==
    ASSUME NEW S, IsFiniteSet(S), NEW D, NEW g \in [S -> SUBSET D], NEW f, DOMAIN f = D,
           \A x \in D : f[x] = Cardinality(Labelled(g, S, x))
    PROVE  Positive(f) = LabelCounts(g, S)
<1>1. ASSUME NEW x \in D PROVE f[x] > 0 <=> \E m \in S : x \in g[m]
  <2> DEFINE X == {m \in S : x \in g[m]}
  <2>1. X \subseteq S /\ (X # {} <=> \E m \in S : x \in g[m])
    OBVIOUS
  <2> HIDE DEF X
  <2>2. Cardinality(X) \in Nat /\ (Cardinality(X) = 0 <=> X = {})
    BY <2>1, FS_Subset, FS_CardinalityType, FS_EmptySet
  <2>3. f[x] = Cardinality(X)
    BY DEF X, Labelled
  <2> QED BY <2>1, <2>2, <2>3
<1>2. {x \in DOMAIN f : f[x] > 0} = UNION {g[m] : m \in S}
  BY <1>1
<1>3. \A x \in UNION {g[m] : m \in S} : x \in D
  OBVIOUS
<1> QED BY <1>2, <1>3 DEF Positive, LabelCounts

-----------------------------------------------------------------------------
(* What the insights add up.                                               *)

LEMMA MeetingsAreFinite == IsFiniteSet(Meeting) /\ Meeting \subseteq Int
BY StreamAssumption, FS_Interval DEF Meeting

LEMMA MeetingsAreTyped ==
    ASSUME NEW m \in Meeting
    PROVE  /\ Content[m] \in Kind /\ Content[m].signals \in Nat
           /\ Content[m].sentiment = <<>> \/ Head(Content[m].sentiment) \in 0..5
<1>1. Content[m] \in Kind
  BY ContentAssumption, ContentOfMeetings, StreamAssumption DEF Meeting
<1>2. Content[m].signals \in Nat
  BY <1>1 DEF Kind
<1>3. Content[m].sentiment \in {<<>>} \cup {<<n>> : n \in 0..5}
  BY <1>1 DEF Kind
<1>4. \A n : Head(<<n>>) = n
  OBVIOUS
<1> QED BY <1>1, <1>2, <1>3, <1>4

\* Signals, as a sum of what is in the meetings.
LEMMA SignalsAreSum ==
    ASSUME NEW S, IsFiniteSet(S), NEW g, \A m \in S : g[m] = Content[m].signals
    PROVE  Signals(S) = Sum(g, S)
<1> DEFINE P(it) == it = [s \in SUBSET S |-> IF s = {} THEN 0
                             ELSE Content[Pick(s)].signals + it[s \ {Pick(s)}]]
<1>1. \A it : Solves(it, g, S) <=> P(it)
  BY PickIsIn DEF Solves
<1>2. Signals(S) = (CHOOSE it : P(it))[S]
  BY DEF Signals, Total, MapThenSumSet, MapThenFoldSet, Pick
<1> HIDE DEF P
<1> QED BY <1>1, <1>2, SolutionExists, SumIsIteration

\* The same of the tasks of an owner.
LEMMA LoadIsSum ==
    ASSUME NEW o, NEW S, IsFiniteSet(S), NEW g, \A m \in S : g[m] = Tasks(o, m)
    PROVE  Load(o, S) = Sum(g, S)
<1> DEFINE P(it) == it = [s \in SUBSET S |-> IF s = {} THEN 0
                             ELSE Tasks(o, Pick(s)) + it[s \ {Pick(s)}]]
<1>1. \A it : Solves(it, g, S) <=> P(it)
  BY PickIsIn DEF Solves
<1>2. Load(o, S) = (CHOOSE it : P(it))[S]
  BY DEF Load, Total, MapThenSumSet, MapThenFoldSet, Pick
<1> HIDE DEF P
<1> QED BY <1>1, <1>2, SolutionExists, SumIsIteration

\* The same of the scores.
LEMMA AverageIsSum ==
    ASSUME NEW S, IsFiniteSet(Scored(S)),
           NEW g, \A m \in Scored(S) : g[m] = Head(Content[m].sentiment)
    PROVE  Average(S) = <<Sum(g, Scored(S)), Cardinality(Scored(S))>>
<1> DEFINE T == Scored(S)
           score(m) == Head(Content[m].sentiment)
           P(it) == it = [s \in SUBSET T |-> IF s = {} THEN 0
                             ELSE score(Pick(s)) + it[s \ {Pick(s)}]]
<1>1. \A it : Solves(it, g, T) <=> P(it)
  <2>1. \A m \in T : g[m] = score(m)
    OBVIOUS
  <2> HIDE DEF T, score
  <2> QED BY <2>1, PickIsIn DEF Solves
<1>2. Average(S) = <<(CHOOSE it : P(it))[T], Cardinality(T)>>
  BY DEF Average, Total, MapThenSumSet, MapThenFoldSet, Pick
<1> HIDE DEF P, T
<1>3. Solves(CHOOSE it : P(it), g, T)
  BY <1>1, SolutionExists DEF T
<1>4. Sum(g, T) = (CHOOSE it : P(it))[T]
  BY <1>3, SumIsIteration DEF T
<1> QED BY <1>2, <1>4 DEF T

\* The same of a list of scores.
LEMMA ListAverageIsSum ==
    ASSUME NEW list, IsFiniteSet(DOMAIN list),
           NEW g, \A i \in DOMAIN list : g[i] = Head(list[i])
    PROVE  ListAverage(list) = <<Sum(g, DOMAIN list), Len(list)>>
<1> DEFINE T == DOMAIN list
           score(i) == Head(list[i])
           P(it) == it = [s \in SUBSET T |-> IF s = {} THEN 0
                             ELSE score(Pick(s)) + it[s \ {Pick(s)}]]
<1>1. \A it : Solves(it, g, T) <=> P(it)
  <2>1. \A i \in T : g[i] = score(i)
    OBVIOUS
  <2> HIDE DEF T, score
  <2> QED BY <2>1, PickIsIn DEF Solves
<1>2. ListAverage(list) = <<(CHOOSE it : P(it))[T], Len(list)>>
  BY DEF ListAverage, FoldSeq, FoldFunction, FoldFunctionOnSet, MapThenFoldSet, Pick
<1> HIDE DEF P, T
<1>3. Solves(CHOOSE it : P(it), g, T)
  BY <1>1, SolutionExists DEF T
<1>4. Sum(g, T) = (CHOOSE it : P(it))[T]
  BY <1>3, SumIsIteration DEF T
<1> QED BY <1>2, <1>4 DEF T

\* Two parts of the table that share no meeting.
Apart(S, T) == S \in SUBSET Meeting /\ T \in SUBSET Meeting /\ S \cap T = {}

LEMMA SizesAdd ==
    ASSUME NEW S, NEW T, Apart(S, T)
    PROVE  /\ IsFiniteSet(S) /\ IsFiniteSet(T)
           /\ Cardinality(S \cup T) = Cardinality(S) + Cardinality(T)
<1>1. IsFiniteSet(S) /\ IsFiniteSet(T)
  BY MeetingsAreFinite, FS_Subset DEF Apart
<1>2. Cardinality(S \cap T) = 0
  BY FS_EmptySet DEF Apart
<1>3. Cardinality(S \cup T) = Cardinality(S) + Cardinality(T) - Cardinality(S \cap T)
  BY <1>1, FS_Union
<1>4. Cardinality(S) \in Nat /\ Cardinality(T) \in Nat
  BY <1>1, FS_CardinalityType
<1> QED BY <1>1, <1>2, <1>3, <1>4

LEMMA SignalsAdd ==
    ASSUME NEW S, NEW T, Apart(S, T)
    PROVE  Signals(S \cup T) = Signals(S) + Signals(T)
<1> DEFINE g == [m \in Meeting |-> Content[m].signals]
<1>1. IsFiniteSet(S) /\ IsFiniteSet(T) /\ IsFiniteSet(S \cup T)
  BY SizesAdd, FS_Union
<1>2. /\ \A m \in S \cup T : g[m] = Content[m].signals /\ g[m] \in Int
  BY MeetingsAreTyped DEF Apart
<1> HIDE DEF g
<1>3. Sum(g, S \cup T) = Sum(g, S) + Sum(g, T)
  BY <1>1, <1>2, SumOfUnion DEF Apart
<1> QED BY <1>1, <1>2, <1>3, SignalsAreSum

LEMMA TasksAreCounted ==
    ASSUME NEW m \in Meeting, NEW o
    PROVE  Tasks(o, m) \in Nat
<1>1. IsFiniteSet(DOMAIN Content[m].items)
  <2>1. Content[m].items \in Seq(Owner)
    BY MeetingsAreTyped DEF Kind
  <2>2. DOMAIN Content[m].items = 1..Len(Content[m].items) /\ Len(Content[m].items) \in Nat
    BY <2>1
  <2> QED BY <2>2, FS_Interval
<1> DEFINE X == {i \in DOMAIN Content[m].items : Content[m].items[i] = o}
<1>2. X \subseteq DOMAIN Content[m].items
  OBVIOUS
<1> HIDE DEF X
<1>3. Cardinality(X) \in Nat
  BY <1>1, <1>2, FS_Subset, FS_CardinalityType
<1> QED BY <1>3 DEF X, Tasks

LEMMA LoadsAdd ==
    ASSUME NEW S, NEW T, Apart(S, T), NEW o
    PROVE  Load(o, S \cup T) = Load(o, S) + Load(o, T)
<1> DEFINE g == [m \in Meeting |-> Tasks(o, m)]
<1>1. IsFiniteSet(S) /\ IsFiniteSet(T) /\ IsFiniteSet(S \cup T)
  BY SizesAdd, FS_Union
<1>2. /\ \A m \in S \cup T : g[m] = Tasks(o, m) /\ g[m] \in Int
  BY TasksAreCounted DEF Apart
<1> HIDE DEF g
<1>3. Sum(g, S \cup T) = Sum(g, S) + Sum(g, T)
  BY <1>1, <1>2, SumOfUnion DEF Apart
<1> QED BY <1>1, <1>2, <1>3, LoadIsSum

LEMMA AveragesAdd ==
    ASSUME NEW S, NEW T, Apart(S, T)
    PROVE  Average(S \cup T) = Pair(Average(S), Average(T))
<1> DEFINE g == [m \in Meeting |-> Head(Content[m].sentiment)]
           U == Scored(S)
           V == Scored(T)
<1>1. Scored(S \cup T) = U \cup V /\ Apart(U, V)
  BY DEF Scored, Apart
<1>2. \A m \in U \cup V : g[m] = Head(Content[m].sentiment) /\ g[m] \in Int
  BY MeetingsAreTyped DEF Scored, Apart
<1>3. IsFiniteSet(U) /\ IsFiniteSet(V) /\ IsFiniteSet(U \cup V)
  BY <1>1, SizesAdd, FS_Union
<1> HIDE DEF g
<1>4. /\ Average(S \cup T) = <<Sum(g, U \cup V), Cardinality(U \cup V)>>
      /\ Average(S) = <<Sum(g, U), Cardinality(U)>>
      /\ Average(T) = <<Sum(g, V), Cardinality(V)>>
  BY <1>1, <1>2, <1>3, AverageIsSum
<1> HIDE DEF U, V
<1>5. Sum(g, U \cup V) = Sum(g, U) + Sum(g, V)
  BY <1>1, <1>2, <1>3, SumOfUnion DEF Apart
<1>6. Cardinality(U \cup V) = Cardinality(U) + Cardinality(V)
  BY <1>1, SizesAdd
<1> QED BY <1>4, <1>5, <1>6 DEF Pair

-----------------------------------------------------------------------------
(* Lists of meetings, and of their scores.                                 *)

\* q lists each member of X once, and nothing else.
Lists(q, X) ==
    /\ q \in Seq(X)
    /\ IsInjective(q)
    /\ \A x \in X : \E i \in DOMAIN q : q[i] = x

\* A list of the scores of X, one for each meeting in X.
ScoresOf(q) == [i \in 1..Len(q) |-> Content[q[i]].sentiment]
ListsScores(list, X) == \E q : Lists(q, X) /\ list = ScoresOf(q)

LEMMA RankIsTaken ==
    ASSUME NEW T, T \subseteq Int, IsFiniteSet(T), NEW j \in 0..(Cardinality(T) - 1)
    PROVE  \E m \in T : RankIn(T, m) = j
<1> DEFINE J == {j}
           X == {m \in T : RankIn(T, m) \in J}
<1>1. Cardinality(X) = Cardinality(J)
  <2>1. J \subseteq 0..(Cardinality(T) - 1)
    OBVIOUS
  <2> HIDE DEF J
  <2> QED BY <2>1, RanksAreFilled
<1>2. Cardinality({j}) = 1 /\ Cardinality({}) = 0
  BY FS_Singleton, FS_EmptySet
<1>3. X # {}
  <2> HIDE DEF X
  <2>1. X = {} => Cardinality(X) = 0
    BY <1>2
  <2> QED BY <1>1, <1>2, <2>1
<1> QED BY <1>3

LEMMA SortedLists ==
    ASSUME NEW S \in SUBSET Meeting
    PROVE  Lists(Sorted(S), S) /\ Len(Sorted(S)) = Cardinality(S)
<1> DEFINE n == Cardinality(S)
           q == Sorted(S)
<1>1. IsFiniteSet(S) /\ S \subseteq Int /\ n \in Nat
  BY MeetingsAreFinite, FS_Subset, FS_CardinalityType
<1>2. \A i \in 1..n : q[i] \in S /\ RankIn(S, q[i]) = i - 1
  <2> SUFFICES ASSUME NEW i \in 1..n PROVE q[i] \in S /\ RankIn(S, q[i]) = i - 1
    OBVIOUS
  <2>1. q[i] = CHOOSE m \in S : RankIn(S, m) = i - 1
    BY DEF Sorted, RankIn
  <2>2. i - 1 \in 0..(n - 1)
    BY <1>1
  <2>3. \E m \in S : RankIn(S, m) = i - 1
    BY <1>1, <2>2, RankIsTaken
  <2> QED BY <2>1, <2>3
<1>3. DOMAIN q = 1..n /\ q \in [1..n -> S]
  BY <1>2 DEF Sorted
<1>4. q \in Seq(S) /\ Len(q) = n
  BY <1>1, <1>3, SeqDef
<1>5. IsInjective(q)
  <2> SUFFICES ASSUME NEW i \in 1..n, NEW j \in 1..n, q[i] = q[j] PROVE i = j
    BY <1>3 DEF IsInjective
  <2>1. i - 1 = j - 1
    BY <1>2
  <2> QED BY <2>1
<1>6. ASSUME NEW x \in S PROVE \E i \in DOMAIN q : q[i] = x
  <2>1. x \in Int /\ RankIn(S, x) \in Nat /\ RankIn(S, x) < n
    BY <1>1, RanksAreOrdered
  <2> DEFINE i == RankIn(S, x) + 1
  <2>2. i \in 1..n /\ RankIn(S, q[i]) = RankIn(S, x) /\ q[i] \in S
    BY <1>1, <1>2, <2>1
  <2> HIDE DEF i
  <2>3. q[i] \in Int /\ RankIn(S, q[i]) \in Nat
    BY <1>1, <2>1, <2>2
  <2>4. ~ (q[i] < x) /\ ~ (x < q[i])
    <3> DEFINE y == q[i]
    <3>1. y \in S /\ RankIn(S, y) = RankIn(S, x) /\ RankIn(S, x) \in Nat
      BY <2>1, <2>2
    <3> HIDE DEF y, q
    <3>2. y < x => RankIn(S, y) < RankIn(S, x)
      BY <1>1, <3>1, RanksAreOrdered
    <3>3. x < y => RankIn(S, x) < RankIn(S, y)
      BY <1>1, <3>1, RanksAreOrdered
    <3>4. ~ (y < x) /\ ~ (x < y)
      BY <3>1, <3>2, <3>3
    <3> QED BY <3>4 DEF y
  <2> QED BY <1>3, <2>1, <2>2, <2>3, <2>4
<1> QED BY <1>4, <1>5, <1>6 DEF Lists

LEMMA ListIsAsLong ==
    ASSUME NEW X, IsFiniteSet(X), NEW q, Lists(q, X)
    PROVE  Len(q) = Cardinality(X) /\ DOMAIN q = 1..Len(q) /\ Len(q) \in Nat
<1>1. Len(q) \in Nat /\ DOMAIN q = 1..Len(q) /\ q \in [1..Len(q) -> X]
  BY DEF Lists
<1>2. q \in Surjection(1..Len(q), X) /\ q \in Injection(1..Len(q), X)
  BY <1>1 DEF Lists, Surjection, Injection, IsInjective
<1>3. IsFiniteSet(1..Len(q)) /\ Cardinality(1..Len(q)) = Len(q)
  BY <1>1, CountingSize
<1> QED BY <1>1, <1>2, <1>3, FS_Surjection

LEMMA ListsConcatenate ==
    ASSUME NEW X, NEW Y, X \cap Y = {}, NEW p, Lists(p, X), NEW q, Lists(q, Y)
    PROVE  Lists(p \o q, X \cup Y)
<1> DEFINE U == X \cup Y
           a == Len(p)
           b == Len(q)
           r == p \o q
<1>1. p \in Seq(U) /\ q \in Seq(U)
  BY SeqMonotonic DEF Lists
<1>2. /\ a \in Nat /\ b \in Nat /\ DOMAIN p = 1..a /\ DOMAIN q = 1..b
      /\ \A i \in 1..a : p[i] \in X
      /\ \A i \in 1..b : q[i] \in Y
  BY DEF Lists
<1>3. /\ r \in Seq(U) /\ Len(r) = a + b
      /\ \A i \in 1..(a + b) : r[i] = IF i <= a THEN p[i] ELSE q[i - a]
  BY <1>1, ConcatProperties
<1>4. DOMAIN r = 1..(a + b)
  BY <1>2, <1>3, LenProperties
<1> HIDE DEF r, a, b, U
<1>5. /\ \A i \in 1..a : i \in 1..(a + b) /\ r[i] = p[i]
      /\ \A i \in 1..b : i + a \in 1..(a + b) /\ r[i + a] = q[i]
  BY <1>2, <1>3
<1>6. \A i \in 1..(a + b) : \/ i \in 1..a /\ r[i] = p[i]
                            \/ i - a \in 1..b /\ r[i] = q[i - a]
  BY <1>2, <1>3
<1>7. IsInjective(r)
  <2> SUFFICES ASSUME NEW i \in 1..(a + b), NEW j \in 1..(a + b), r[i] = r[j]
               PROVE  i = j
    BY <1>4 DEF IsInjective
  <2>1. CASE i \in 1..a /\ j \in 1..a
    BY <1>2, <1>5, <2>1 DEF Lists, IsInjective
  <2>2. CASE i - a \in 1..b /\ j - a \in 1..b
    <3>1. q[i - a] = q[j - a]
      BY <1>2, <1>5, <1>6, <2>2
    <3>2. i - a = j - a
      BY <1>2, <2>2, <3>1 DEF Lists, IsInjective
    <3> QED BY <1>2, <3>2
  <2>3. CASE i \in 1..a /\ j - a \in 1..b
    BY <1>2, <1>5, <1>6, <2>3
  <2>4. CASE i - a \in 1..b /\ j \in 1..a
    BY <1>2, <1>5, <1>6, <2>4
  <2> QED BY <1>6, <2>1, <2>2, <2>3, <2>4
<1>8. ASSUME NEW x \in U PROVE \E i \in DOMAIN r : r[i] = x
  <2>1. CASE x \in X
    BY <1>2, <1>4, <1>5, <2>1 DEF Lists
  <2>2. CASE x \in Y
    <3>1. PICK j \in 1..b : q[j] = x
      BY <1>2, <2>2 DEF Lists
    <3>2. j + a \in DOMAIN r /\ r[j + a] = x
      BY <1>4, <1>5, <3>1
    <3> QED BY <3>2
  <2> QED BY <2>1, <2>2 DEF U
<1> QED BY <1>3, <1>7, <1>8 DEF Lists, r, U

LEMMA ScoresConcatenate ==
    ASSUME NEW X, NEW Y, X \cap Y = {}, NEW s, ListsScores(s, X), NEW t, ListsScores(t, Y)
    PROVE  ListsScores(s \o t, X \cup Y)
<1>1. PICK p : Lists(p, X) /\ s = ScoresOf(p)
  BY DEF ListsScores
<1>2. PICK q : Lists(q, Y) /\ t = ScoresOf(q)
  BY DEF ListsScores
<1>3. Lists(p \o q, X \cup Y)
  BY <1>1, <1>2, ListsConcatenate
<1> DEFINE U == X \cup Y
           V == {Content[m].sentiment : m \in U}
           a == Len(p)
           b == Len(q)
<1>4. /\ p \in Seq(U) /\ q \in Seq(U) /\ a \in Nat /\ b \in Nat
      /\ \A i \in 1..a : p[i] \in U
      /\ \A i \in 1..b : q[i] \in U
  BY <1>1, <1>2, SeqMonotonic DEF Lists
<1>5. s \in [1..a -> V] /\ t \in [1..b -> V]
  BY <1>1, <1>2, <1>4 DEF ScoresOf
<1>6. s \in Seq(V) /\ t \in Seq(V) /\ Len(s) = a /\ Len(t) = b
  <2> HIDE DEF V
  <2>1. Len(s) = a /\ Len(t) = b
    BY <1>1, <1>2, <1>4 DEF ScoresOf
  <2> HIDE DEF a, b
  <2>2. a \in Nat /\ b \in Nat /\ s \in [1..a -> V] /\ t \in [1..b -> V]
    BY <1>4, <1>5
  <2>3. s \in Seq(V)
    BY ONLY <2>2, SeqDef
  <2>4. t \in Seq(V)
    BY ONLY <2>2, SeqDef
  <2> QED BY <2>1, <2>3, <2>4
<1> HIDE DEF V, a, b
<1>7. /\ s \o t \in Seq(V) /\ Len(s \o t) = a + b
      /\ \A i \in 1..(a + b) : (s \o t)[i] = IF i <= a THEN s[i] ELSE t[i - a]
  BY <1>6, ConcatProperties
<1> HIDE DEF U
<1>8. /\ Len(p \o q) = a + b
      /\ \A i \in 1..(a + b) : (p \o q)[i] = IF i <= a THEN p[i] ELSE q[i - a]
  BY <1>4, ConcatProperties DEF a, b
<1>9. \A i \in 1..(a + b) : (s \o t)[i] = Content[(p \o q)[i]].sentiment
  <2> USE DEF a, b
  <2> SUFFICES ASSUME NEW i \in 1..(a + b)
               PROVE  (s \o t)[i] = Content[(p \o q)[i]].sentiment
    OBVIOUS
  <2>1. CASE i <= a
    <3>1. i \in 1..a
      BY <1>4, <2>1
    <3> QED BY <1>1, <1>7, <1>8, <2>1, <3>1 DEF ScoresOf
  <2>2. CASE ~ (i <= a)
    <3>1. i - a \in 1..b
      BY <1>4, <2>2
    <3> QED BY <1>2, <1>7, <1>8, <2>2, <3>1 DEF ScoresOf
  <2> QED BY <2>1, <2>2
<1>10. s \o t = ScoresOf(p \o q)
  <2>1. s \o t = [i \in 1..(a + b) |-> (s \o t)[i]]
    <3>1. s \o t \in [1..(a + b) -> V]
      BY <1>7, LenProperties
    <3> QED BY <3>1
  <2> QED BY <1>8, <1>9, <2>1 DEF ScoresOf
<1> QED BY <1>3, <1>10 DEF ListsScores

LEMMA NothingIsListed ==
    Lists(<<>>, {}) /\ ListsScores(<<>>, {})
<1>1. Lists(<<>>, {})
  BY DEF Lists, IsInjective
<1>2. <<>> = ScoresOf(<<>>)
  BY DEF ScoresOf
<1> QED BY <1>1, <1>2 DEF ListsScores

\* The list of the scores of a page.
LEMMA SentimentsAreListed ==
    ASSUME NEW S \in SUBSET Meeting
    PROVE  ListsScores(Sentiments(S), S)
<1>1. Lists(Sorted(S), S) /\ Len(Sorted(S)) = Cardinality(S)
  BY SortedLists
<1>2. Sentiments(S) = ScoresOf(Sorted(S))
  BY <1>1 DEF Sentiments, ScoresOf
<1> QED BY <1>1, <1>2 DEF ListsScores

\* The average of a list of scores is that of the meetings, in whatever order.
LEMMA ListedAverage ==
    ASSUME NEW X \in SUBSET Meeting, Scored(X) = X, NEW list, ListsScores(list, X)
    PROVE  ListAverage(list) = Average(X) /\ Len(list) = Cardinality(X)
<1>1. PICK q : Lists(q, X) /\ list = ScoresOf(q)
  BY DEF ListsScores
<1>2. IsFiniteSet(X)
  BY MeetingsAreFinite, FS_Subset
<1>3. Len(q) = Cardinality(X) /\ DOMAIN q = 1..Len(q) /\ Len(q) \in Nat
  BY <1>1, <1>2, ListIsAsLong
<1>4. DOMAIN list = 1..Len(q) /\ Len(list) = Len(q)
  BY <1>1, <1>3 DEF ScoresOf
<1> DEFINE D == 1..Len(q)
           f == [i \in D |-> Head(list[i])]
           g == [m \in X |-> Head(Content[m].sentiment)]
<1>5. IsFiniteSet(D)
  BY <1>3, FS_Interval
<1>6. \A i \in D : f[i] = Head(list[i])
  OBVIOUS
<1>7. ListAverage(list) = <<Sum(f, D), Len(list)>>
  <2> HIDE DEF f, D
  <2> QED BY <1>4, <1>5, <1>6, ListAverageIsSum DEF D
<1>8. /\ q \in [D -> X]
      /\ \A i, j \in D : q[i] = q[j] => i = j
      /\ \A m \in X : \E i \in D : q[i] = m
  BY <1>1, <1>3 DEF Lists, IsInjective
<1>9. \A i \in D : f[i] = g[q[i]]
  BY <1>1, <1>8 DEF ScoresOf
<1>10. \A m \in X : g[m] \in Int
  BY MeetingsAreTyped DEF Scored
<1>11. \A m \in X : g[m] = Head(Content[m].sentiment)
  OBVIOUS
<1> HIDE DEF f, g, D
<1>12. Sum(f, D) = Sum(g, X)
  BY ONLY <1>5, <1>8, <1>9, <1>10, SumMoves
<1>13. Average(X) = <<Sum(g, X), Cardinality(X)>>
  BY <1>2, <1>11, AverageIsSum
<1> QED BY <1>3, <1>4, <1>7, <1>12, <1>13

-----------------------------------------------------------------------------
(* What an aggregate holds of the meetings it was fed.                     *)

OfPurpose(p, S) == {m \in S : Purpose(m) = p}
OfProduct(p, S) == {m \in S : p \in ProductAreas(m)}

\* The totals of a are those of the meetings S, and its lists list them in some
\* order.
Represents(a, S) ==
    /\ a.meetings = Cardinality(S)
    /\ a.callTypes = [ct \in CallTypes |-> Cardinality(OfType(ct, S))]
    /\ a.purposes = [p \in Purposes |-> Cardinality(OfPurpose(p, S))]
    /\ a.products = [p \in Product \cup {"General"} |-> Cardinality(OfProduct(p, S))]
    /\ a.total = Average(S)
    /\ DOMAIN a.byType = CallTypes
    /\ \A ct \in CallTypes : ListsScores(a.byType[ct], Scored(OfType(ct, S)))
    /\ DOMAIN a.scores = Customer \ {""}
    /\ \A c \in Customer \ {""} : ListsScores(a.scores[c], Of(c, S))
    /\ a.churn = [c \in Customer \ {""} |-> Signals(Of(c, S))]
    /\ Lists(a.pivots, NegativePivots(S))
    /\ a.owners = [o \in Owner |-> Load(o, S)]

\* The groups of two parts are the groups of both together.
LEMMA TypesParted ==
    ASSUME NEW S, NEW T, Apart(S, T), NEW ct
    PROVE  /\ OfType(ct, S \cup T) = OfType(ct, S) \cup OfType(ct, T)
           /\ Apart(OfType(ct, S), OfType(ct, T))
BY DEF OfType, Apart

LEMMA PurposesParted ==
    ASSUME NEW S, NEW T, Apart(S, T), NEW p
    PROVE  /\ OfPurpose(p, S \cup T) = OfPurpose(p, S) \cup OfPurpose(p, T)
           /\ Apart(OfPurpose(p, S), OfPurpose(p, T))
BY DEF OfPurpose, Apart

LEMMA ProductsParted ==
    ASSUME NEW S, NEW T, Apart(S, T), NEW p
    PROVE  /\ OfProduct(p, S \cup T) = OfProduct(p, S) \cup OfProduct(p, T)
           /\ Apart(OfProduct(p, S), OfProduct(p, T))
BY DEF OfProduct, Apart

LEMMA CustomersParted ==
    ASSUME NEW S, NEW T, Apart(S, T), NEW c
    PROVE  /\ Of(c, S \cup T) = Of(c, S) \cup Of(c, T)
           /\ Apart(Of(c, S), Of(c, T))
BY DEF Of, Apart

LEMMA PivotsParted ==
    ASSUME NEW S, NEW T, Apart(S, T)
    PROVE  /\ NegativePivots(S \cup T) = NegativePivots(S) \cup NegativePivots(T)
           /\ Apart(NegativePivots(S), NegativePivots(T))
BY DEF NegativePivots, Spoken, Apart

\* Merged aggregates of two parts are an aggregate of both.
LEMMA MergeRepresents ==
    ASSUME NEW S, NEW T, Apart(S, T), NEW a, Represents(a, S), NEW b, Represents(b, T)
    PROVE  Represents(Merge(a, b), S \cup T)
<1> DEFINE c == Merge(a, b)
           U == S \cup T
<1>1. Represents(a, S) /\ Represents(b, T) /\ Apart(S, T)
  OBVIOUS
<1>2. c.meetings = Cardinality(U)
  <2>1. c.meetings = a.meetings + b.meetings
    BY ONLY TRUE DEF Merge
  <2>2. a.meetings = Cardinality(S) /\ b.meetings = Cardinality(T)
    BY ONLY <1>1 DEF Represents
  <2>3. Cardinality(U) = Cardinality(S) + Cardinality(T)
    BY ONLY <1>1, SizesAdd
  <2> HIDE DEF c, U
  <2> QED BY ONLY <2>1, <2>2, <2>3
<1>3. c.callTypes = [ct \in CallTypes |-> Cardinality(OfType(ct, U))]
  <2>1. c.callTypes = [ct \in DOMAIN a.callTypes |-> a.callTypes[ct] + b.callTypes[ct]]
    BY ONLY TRUE DEF Merge, Added
  <2>2. /\ a.callTypes = [ct \in CallTypes |-> Cardinality(OfType(ct, S))]
        /\ b.callTypes = [ct \in CallTypes |-> Cardinality(OfType(ct, T))]
    BY ONLY <1>1 DEF Represents
  <2>3. ASSUME NEW ct
        PROVE  Cardinality(OfType(ct, U)) = Cardinality(OfType(ct, S)) + Cardinality(OfType(ct, T))
    BY ONLY <1>1, TypesParted, SizesAdd
  <2> HIDE DEF c, U
  <2> QED BY ONLY <2>1, <2>2, <2>3
<1>4. c.purposes = [p \in Purposes |-> Cardinality(OfPurpose(p, U))]
  <2>1. c.purposes = [p \in DOMAIN a.purposes |-> a.purposes[p] + b.purposes[p]]
    BY ONLY TRUE DEF Merge, Added
  <2>2. /\ a.purposes = [p \in Purposes |-> Cardinality(OfPurpose(p, S))]
        /\ b.purposes = [p \in Purposes |-> Cardinality(OfPurpose(p, T))]
    BY ONLY <1>1 DEF Represents
  <2>3. ASSUME NEW p
        PROVE  Cardinality(OfPurpose(p, U))
                 = Cardinality(OfPurpose(p, S)) + Cardinality(OfPurpose(p, T))
    BY ONLY <1>1, PurposesParted, SizesAdd
  <2> HIDE DEF c, U
  <2> QED BY ONLY <2>1, <2>2, <2>3
<1>5. c.products = [p \in Product \cup {"General"} |-> Cardinality(OfProduct(p, U))]
  <2>1. c.products = [p \in DOMAIN a.products |-> a.products[p] + b.products[p]]
    BY ONLY TRUE DEF Merge, Added
  <2>2. /\ a.products = [p \in Product \cup {"General"} |-> Cardinality(OfProduct(p, S))]
        /\ b.products = [p \in Product \cup {"General"} |-> Cardinality(OfProduct(p, T))]
    BY ONLY <1>1 DEF Represents
  <2>3. ASSUME NEW p
        PROVE  Cardinality(OfProduct(p, U))
                 = Cardinality(OfProduct(p, S)) + Cardinality(OfProduct(p, T))
    BY ONLY <1>1, ProductsParted, SizesAdd
  <2> HIDE DEF c, U
  <2> QED BY ONLY <2>1, <2>2, <2>3
<1>6. c.total = Average(U)
  <2>1. c.total = Pair(a.total, b.total)
    BY ONLY TRUE DEF Merge
  <2>2. a.total = Average(S) /\ b.total = Average(T)
    BY ONLY <1>1 DEF Represents
  <2>3. Average(U) = Pair(Average(S), Average(T))
    BY ONLY <1>1, AveragesAdd
  <2> HIDE DEF c, U
  <2> QED BY ONLY <2>1, <2>2, <2>3
<1>7. /\ DOMAIN c.byType = CallTypes
      /\ \A ct \in CallTypes : ListsScores(c.byType[ct], Scored(OfType(ct, U)))
  <2>1. c.byType = [ct \in DOMAIN a.byType |-> a.byType[ct] \o b.byType[ct]]
    BY ONLY TRUE DEF Merge, Extended
  <2>2. /\ DOMAIN a.byType = CallTypes
        /\ \A ct \in CallTypes : /\ ListsScores(a.byType[ct], Scored(OfType(ct, S)))
                                 /\ ListsScores(b.byType[ct], Scored(OfType(ct, T)))
    BY ONLY <1>1 DEF Represents
  <2>3. ASSUME NEW ct
        PROVE  /\ Scored(OfType(ct, U)) = Scored(OfType(ct, S)) \cup Scored(OfType(ct, T))
               /\ Scored(OfType(ct, S)) \cap Scored(OfType(ct, T)) = {}
    BY ONLY <1>1 DEF Scored, OfType, Apart
  <2> HIDE DEF c, U
  <2>4. DOMAIN c.byType = CallTypes
    BY ONLY <2>1, <2>2
  <2>5. ASSUME NEW ct \in CallTypes
        PROVE  ListsScores(c.byType[ct], Scored(OfType(ct, U)))
    <3>1. c.byType[ct] = a.byType[ct] \o b.byType[ct]
      BY ONLY <2>1, <2>2, ct \in CallTypes
    <3> QED BY ONLY <2>2, <2>3, <3>1, ct \in CallTypes, ScoresConcatenate
  <2> QED BY <2>4, <2>5
<1>8. /\ DOMAIN c.scores = Customer \ {""}
      /\ \A d \in Customer \ {""} : ListsScores(c.scores[d], Of(d, U))
  <2> DEFINE N == Customer \ {""}
  <2>1. c.scores = [d \in DOMAIN a.scores |-> a.scores[d] \o b.scores[d]]
    BY ONLY TRUE DEF Merge, Extended
  <2>2. /\ DOMAIN a.scores = N
        /\ \A d \in N : /\ ListsScores(a.scores[d], Of(d, S))
                        /\ ListsScores(b.scores[d], Of(d, T))
    BY ONLY <1>1 DEF Represents
  <2>3. ASSUME NEW d
        PROVE  Of(d, U) = Of(d, S) \cup Of(d, T) /\ Of(d, S) \cap Of(d, T) = {}
    BY ONLY <1>1 DEF Of, Apart
  <2> HIDE DEF c, U, N
  <2>4. DOMAIN c.scores = N
    BY ONLY <2>1, <2>2
  <2>5. ASSUME NEW d \in N
        PROVE  ListsScores(c.scores[d], Of(d, U))
    <3>1. c.scores[d] = a.scores[d] \o b.scores[d]
      BY ONLY <2>1, <2>2, d \in N
    <3> QED BY ONLY <2>2, <2>3, <3>1, d \in N, ScoresConcatenate
  <2> QED BY ONLY <2>4, <2>5 DEF N
<1>9. c.churn = [d \in Customer \ {""} |-> Signals(Of(d, U))]
  <2> DEFINE N == Customer \ {""}
  <2>1. c.churn = [d \in DOMAIN a.churn |-> a.churn[d] + b.churn[d]]
    BY ONLY TRUE DEF Merge, Added
  <2>2. /\ a.churn = [d \in N |-> Signals(Of(d, S))]
        /\ b.churn = [d \in N |-> Signals(Of(d, T))]
    BY ONLY <1>1 DEF Represents
  <2>3. ASSUME NEW d
        PROVE  Signals(Of(d, U)) = Signals(Of(d, S)) + Signals(Of(d, T))
    BY ONLY <1>1, CustomersParted, SignalsAdd
  <2> HIDE DEF c, U, N
  <2>4. c.churn = [d \in N |-> Signals(Of(d, U))]
    BY ONLY <2>1, <2>2, <2>3
  <2> QED BY ONLY <2>4 DEF N
<1>10. Lists(c.pivots, NegativePivots(U))
  <2>1. c.pivots = a.pivots \o b.pivots
    BY ONLY TRUE DEF Merge
  <2>2. Lists(a.pivots, NegativePivots(S)) /\ Lists(b.pivots, NegativePivots(T))
    BY ONLY <1>1 DEF Represents
  <2>3. /\ NegativePivots(U) = NegativePivots(S) \cup NegativePivots(T)
        /\ NegativePivots(S) \cap NegativePivots(T) = {}
    BY ONLY <1>1, PivotsParted DEF Apart
  <2> HIDE DEF c, U
  <2> QED BY ONLY <2>1, <2>2, <2>3, ListsConcatenate
<1>11. c.owners = [o \in Owner |-> Load(o, U)]
  <2>1. c.owners = [o \in DOMAIN a.owners |-> a.owners[o] + b.owners[o]]
    BY ONLY TRUE DEF Merge, Added
  <2>2. /\ a.owners = [o \in Owner |-> Load(o, S)]
        /\ b.owners = [o \in Owner |-> Load(o, T)]
    BY ONLY <1>1 DEF Represents
  <2>3. ASSUME NEW o
        PROVE  Load(o, U) = Load(o, S) + Load(o, T)
    BY ONLY <1>1, LoadsAdd
  <2> HIDE DEF c, U
  <2> QED BY ONLY <2>1, <2>2, <2>3
<1> HIDE DEF c, U
<1>12. Represents(c, U)
  BY ONLY <1>2, <1>3, <1>4, <1>5, <1>6, <1>7, <1>8, <1>9, <1>10, <1>11 DEF Represents
<1> QED BY <1>12 DEF c, U

\* The new aggregate has seen nothing.
LEMMA ZeroRepresents == Represents(Zero, {})
<1>1. Cardinality({}) = 0 /\ IsFiniteSet({})
  <2>1. IsFiniteSet({})
    BY FS_EmptySet
  <2> QED BY <2>1, FS_EmptySet
<1>2. \A ct : OfType(ct, {}) = {} /\ Of(ct, {}) = {}
  BY DEF OfType, Of
<1>3. \A p : OfPurpose(p, {}) = {} /\ OfProduct(p, {}) = {}
  BY DEF OfPurpose, OfProduct
<1>4. Scored({}) = {} /\ NegativePivots({}) = {}
  BY DEF Scored, NegativePivots, Spoken
<1> DEFINE g == [m \in {} |-> 0]
<1>5. Sum(g, {}) = 0
  BY SumOfNone
<1>6. Signals({}) = 0
  BY <1>1, <1>5, SignalsAreSum
<1>7. \A o : Load(o, {}) = 0
  BY <1>1, <1>5, LoadIsSum
<1>8. Average({}) = <<0, 0>>
  BY <1>1, <1>4, <1>5, AverageIsSum
<1> HIDE DEF g
<1> DEFINE z == Zero
<1>9. z.meetings = Cardinality({}) /\ z.total = Average({})
  BY <1>1, <1>8 DEF Zero
<1>10. /\ z.callTypes = [ct \in CallTypes |-> Cardinality(OfType(ct, {}))]
       /\ z.purposes = [p \in Purposes |-> Cardinality(OfPurpose(p, {}))]
       /\ z.products = [p \in Product \cup {"General"} |-> Cardinality(OfProduct(p, {}))]
  BY <1>1, <1>2, <1>3 DEF Zero
<1>11. /\ DOMAIN z.byType = CallTypes
       /\ \A ct \in CallTypes : ListsScores(z.byType[ct], Scored(OfType(ct, {})))
  BY <1>2, <1>4, NothingIsListed DEF Zero
<1>12. /\ DOMAIN z.scores = Customer \ {""}
       /\ \A c \in Customer \ {""} : ListsScores(z.scores[c], Of(c, {}))
  BY <1>2, NothingIsListed DEF Zero
<1>13. /\ z.churn = [c \in Customer \ {""} |-> Signals(Of(c, {}))]
       /\ z.owners = [o \in Owner |-> Load(o, {})]
  BY <1>2, <1>6, <1>7 DEF Zero
<1>14. Lists(z.pivots, NegativePivots({}))
  BY <1>4, NothingIsListed DEF Zero
<1> HIDE DEF z
<1>15. Represents(z, {})
  BY ONLY <1>9, <1>10, <1>11, <1>12, <1>13, <1>14 DEF Represents
<1> QED BY <1>15 DEF z

\* What the fold adds for a page.
OfPage(page) ==
    [meetings  |-> Cardinality(page), sentences |-> Sentences(page),
     callTypes |-> [ct \in CallTypes |-> Cardinality(OfType(ct, page))],
     purposes  |-> [p \in Purposes |-> Cardinality(OfPurpose(p, page))],
     products  |-> [p \in Product \cup {"General"} |-> Cardinality(OfProduct(p, page))],
     total     |-> Average(page),
     byType    |-> [ct \in CallTypes |-> Sentiments(Scored(OfType(ct, page)))],
     scores    |-> [c \in Customer \ {""} |-> Sentiments(Of(c, page))],
     churn     |-> [c \in Customer \ {""} |-> Signals(Of(c, page))],
     pivots    |-> Sorted(NegativePivots(page)),
     owners    |-> [o \in Owner |-> Load(o, page)]]

LEMMA PageRepresents ==
    ASSUME NEW page \in SUBSET Meeting
    PROVE  Represents(OfPage(page), page)
<1>1. \A ct : ListsScores(Sentiments(Scored(OfType(ct, page))), Scored(OfType(ct, page)))
  <2>1. \A ct : Scored(OfType(ct, page)) \in SUBSET Meeting
    BY DEF Scored, OfType
  <2> QED BY <2>1, SentimentsAreListed
<1>2. \A c : ListsScores(Sentiments(Of(c, page)), Of(c, page))
  <2>1. \A c : Of(c, page) \in SUBSET Meeting
    BY DEF Of
  <2> QED BY <2>1, SentimentsAreListed
<1>3. Lists(Sorted(NegativePivots(page)), NegativePivots(page))
  <2>1. NegativePivots(page) \in SUBSET Meeting
    BY DEF NegativePivots, Spoken
  <2> QED BY <2>1, SortedLists
<1> QED BY <1>1, <1>2, <1>3 DEF Represents, OfPage

\* The fold of a page is a merge with the aggregate of the page.
LEMMA FoldIsMerge ==
    ASSUME NEW S, NEW a, Represents(a, S), NEW page
    PROVE  FoldBatch(a, page) = Merge(a, OfPage(page))
<1>1. /\ DOMAIN a.callTypes = CallTypes /\ DOMAIN a.purposes = Purposes
      /\ DOMAIN a.products = Product \cup {"General"} /\ DOMAIN a.byType = CallTypes
      /\ DOMAIN a.scores = Customer \ {""} /\ DOMAIN a.churn = Customer \ {""}
      /\ DOMAIN a.owners = Owner
  BY DEF Represents
<1> QED BY <1>1 DEF FoldBatch, Merge, OfPage, Added, Extended, Scores, OfPurpose, OfProduct

\* A page of meetings that were not there before.
LEMMA FoldRepresents ==
    ASSUME NEW S, NEW page, Apart(S, page), NEW a, Represents(a, S)
    PROVE  Represents(FoldBatch(a, page), S \cup page)
<1>1. page \in SUBSET Meeting
  BY DEF Apart
<1> QED BY <1>1, FoldIsMerge, PageRepresents, MergeRepresents

-----------------------------------------------------------------------------
(* What is reported of such an aggregate.                                  *)

LEMMA MinIsIn ==
    ASSUME NEW H, H \subseteq Int, IsFiniteSet(H), H # {}
    PROVE  Min(H) \in H /\ \A j \in H : Min(H) <= j
<1>1. Cardinality(H) \in Nat /\ Cardinality(H) # 0
  BY FS_CardinalityType, FS_EmptySet
<1>2. 0 \in 0..(Cardinality(H) - 1)
  BY <1>1
<1>3. PICK i \in H : RankIn(H, i) = 0
  BY <1>2, RankIsTaken
<1>4. ASSUME NEW j \in H PROVE ~ (j < i)
  <2>1. j \in Int /\ i \in Int
    BY <1>3
  <2>2. RankIn(H, j) \in Nat
    BY <2>1, RanksAreOrdered
  <2>3. j < i => RankIn(H, j) < RankIn(H, i)
    BY <2>1, <1>3, RanksAreOrdered
  <2> QED BY <1>3, <2>2, <2>3
<1>5. \A j \in H : i <= j
  BY <1>3, <1>4
<1> QED BY <1>3, <1>5 DEF Min

\* The customer of a meeting is a name that is found, and the only one.
LEMMA CustomersAreKnown ==
    ASSUME NEW m \in Meeting
    PROVE  /\ CustomerOf(m) \subseteq Customer
           /\ \A c, d \in CustomerOf(m) : c = d
<1> DEFINE names == Content[m].names
           hits == {i \in DOMAIN names : names[i] # <<>>}
<1>1. names \in Seq({<<>>} \cup {<<c>> : c \in Customer})
  BY MeetingsAreTyped DEF Kind
<1>2. /\ Len(names) \in Nat /\ DOMAIN names = 1..Len(names)
      /\ \A i \in 1..Len(names) : names[i] = <<>> \/ \E c \in Customer : names[i] = <<c>>
  BY <1>1
<1>3. hits \subseteq 1..Len(names)
  BY <1>2
<1>4. CASE hits = {}
  BY <1>4 DEF CustomerOf
<1>5. CASE hits # {}
  <2>1. Min(hits) \in hits
    <3> HIDE DEF hits
    <3>1. IsFiniteSet(1..Len(names))
      BY <1>2, FS_Interval
    <3>2. hits \subseteq Int
      BY <1>2, <1>3
    <3>3. IsFiniteSet(hits)
      BY <1>3, <3>1, FS_Subset
    <3> QED BY <1>5, <3>2, <3>3, MinIsIn
  <2>2. CustomerOf(m) = ToSet(names[Min(hits)])
    BY <1>5 DEF CustomerOf
  <2>3. PICK c \in Customer : names[Min(hits)] = <<c>>
    BY <1>2, <2>1
  <2>4. ToSet(<<c>>) = {c}
    BY DEF ToSet
  <2> QED BY <2>2, <2>3, <2>4
<1> QED BY <1>4, <1>5

\* The list of scores shows whether there are meetings, and whether all have one.
LEMMA ListShowsNulls ==
    ASSUME NEW X, X \subseteq Meeting, NEW list, ListsScores(list, X)
    PROVE  /\ list # <<>> <=> X # {}
           /\ <<>> \notin ToSet(list) <=> Scored(X) = X
<1>1. PICK q : Lists(q, X) /\ list = ScoresOf(q)
  BY DEF ListsScores
<1>2. /\ Len(q) \in Nat /\ DOMAIN q = 1..Len(q)
      /\ \A i \in 1..Len(q) : q[i] \in X
      /\ \A x \in X : \E i \in 1..Len(q) : q[i] = x
  BY <1>1 DEF Lists
<1>3. DOMAIN list = 1..Len(q) /\ \A i \in 1..Len(q) : list[i] = Content[q[i]].sentiment
  BY <1>1 DEF ScoresOf
<1>4. list # <<>> <=> X # {}
  <2>1. list = <<>> => 1..Len(q) = {}
    <3>1. DOMAIN <<>> = {}
      OBVIOUS
    <3> QED BY <1>3, <3>1
  <2>2. 1..Len(q) = {} => list = <<>>
    <3>1. 1..Len(q) = {} => Len(q) = 0
      BY <1>2
    <3>2. Len(q) = 0 => list = <<>>
      BY <1>1 DEF ScoresOf
    <3> QED BY <3>1, <3>2
  <2>3. 1..Len(q) = {} <=> X = {}
    BY <1>2
  <2> QED BY <2>1, <2>2, <2>3
<1>5. ToSet(list) = {Content[m].sentiment : m \in X}
  BY <1>2, <1>3 DEF ToSet
<1> QED BY <1>4, <1>5 DEF Scored

\* The row of customer c.
HealthRow(c, S) ==
    [customer |-> c, average |-> Average(Of(c, S)), meetings |-> Cardinality(Of(c, S)),
     churn |-> Signals(Of(c, S))]

LEMMA HealthRowsAreThose ==
    ASSUME NEW S
    PROVE  CustomerHealth(S) = {HealthRow(c, S) : c \in UNION {CustomerOf(m) : m \in S}}
BY DEF CustomerHealth, HealthRow, Signals

\* The customers of the streamed rollup: they have a name, and no score is null.
Rated(S) == {c \in Customer \ {""} : Of(c, S) # {} /\ Scored(Of(c, S)) = Of(c, S)}

LEMMA StreamedHealthIsRated ==
    ASSUME NEW S \in SUBSET Meeting, NEW a, Represents(a, S)
    PROVE  StreamedHealth(a) = {HealthRow(c, S) : c \in Rated(S)}
<1> DEFINE N == Customer \ {""}
           kept == {d \in DOMAIN a.scores : a.scores[d] # <<>> /\ <<>> \notin ToSet(a.scores[d])}
           shown(c) == [customer |-> c, average |-> ListAverage(a.scores[c]),
                        meetings |-> Len(a.scores[c]), churn |-> a.churn[c]]
<1>1. Represents(a, S)
  OBVIOUS
<1>2. /\ DOMAIN a.scores = N
      /\ \A c \in N : ListsScores(a.scores[c], Of(c, S))
      /\ a.churn = [c \in N |-> Signals(Of(c, S))]
  BY ONLY <1>1 DEF Represents
<1>3. \A c : Of(c, S) \in SUBSET Meeting
  BY DEF Of
<1>4. ASSUME NEW c \in N
      PROVE  c \in kept <=> Of(c, S) # {} /\ Scored(Of(c, S)) = Of(c, S)
  <2> DEFINE X == Of(c, S)
             list == a.scores[c]
  <2>1. X \subseteq Meeting /\ ListsScores(list, X) /\ c \in DOMAIN a.scores
    BY <1>2, <1>3
  <2> HIDE DEF X, N
  <2>2. /\ list # <<>> <=> X # {}
        /\ <<>> \notin ToSet(list) <=> Scored(X) = X
    <3> HIDE DEF list
    <3> QED BY ONLY <2>1, ListShowsNulls
  <2> QED BY <2>1, <2>2 DEF X
<1>5. kept = Rated(S)
  BY <1>2, <1>4 DEF Rated
<1>6. ASSUME NEW c \in Rated(S) PROVE shown(c) = HealthRow(c, S)
  <2> DEFINE X == Of(c, S)
             list == a.scores[c]
  <2>1. X \in SUBSET Meeting /\ Scored(X) = X /\ c \in N
    BY <1>3 DEF Rated
  <2>2. ListsScores(list, X) /\ a.churn[c] = Signals(X)
    BY <1>2, <2>1
  <2>3. ListAverage(list) = Average(X) /\ Len(list) = Cardinality(X)
    <3> HIDE DEF X, list
    <3> QED BY ONLY <2>1, <2>2, ListedAverage
  <2> QED BY <2>2, <2>3 DEF HealthRow
<1>7. StreamedHealth(a) = {shown(c) : c \in kept}
  BY DEF StreamedHealth
<1> HIDE DEF kept, shown
<1> QED BY <1>5, <1>6, <1>7

\* The rows the streamed rollup is to have.
LEMMA RatedRows ==
    ASSUME NEW S \in SUBSET Meeting
    PROVE  {row \in CustomerHealth(S) : row.customer # "" /\ Of(row.customer, S) \subseteq Scored(S)}
             = {HealthRow(c, S) : c \in Rated(S)}
<1> DEFINE C == UNION {CustomerOf(m) : m \in S}
<1>1. \A c : HealthRow(c, S).customer = c
  BY DEF HealthRow
<1>2. \A c : c \in C <=> Of(c, S) # {}
  BY DEF Of
<1>3. C \subseteq Customer
  BY CustomersAreKnown
<1>4. \A c : Of(c, S) \subseteq Scored(S) <=> Scored(Of(c, S)) = Of(c, S)
  BY DEF Of, Scored
<1>5. \A c : c \in Rated(S) <=> c \in C /\ c # "" /\ Of(c, S) \subseteq Scored(S)
  BY <1>2, <1>3, <1>4 DEF Rated
<1> HIDE DEF C
<1> QED BY <1>1, <1>5, HealthRowsAreThose DEF C

\* The summary of the aggregate.
LEMMA StreamedSummaryIsSummary ==
    ASSUME NEW S \in SUBSET Meeting, NEW a, Represents(a, S)
    PROVE  StreamedSummary(a) = Summary(S)
<1> DEFINE P == Product \cup {"General"}
<1>1. Represents(a, S)
  OBVIOUS
<1>2. /\ a.meetings = Cardinality(S)
      /\ a.callTypes = [ct \in CallTypes |-> Cardinality(OfType(ct, S))]
      /\ a.purposes = [p \in Purposes |-> Cardinality(OfPurpose(p, S))]
      /\ a.products = [p \in P |-> Cardinality(OfProduct(p, S))]
      /\ a.total = Average(S)
  BY ONLY <1>1 DEF Represents
<1>3. \A ct \in CallTypes : ListsScores(a.byType[ct], Scored(OfType(ct, S)))
  BY ONLY <1>1 DEF Represents
<1>4. IsFiniteSet(S)
  BY MeetingsAreFinite, FS_Subset
<1>5. Positive(a.callTypes) = [ct \in {CallType(m) : m \in S} |-> Cardinality(OfType(ct, S))]
  <2> DEFINE g == [m \in S |-> {CallType(m)}]
  <2>1. g \in [S -> SUBSET CallTypes] /\ UNION {g[m] : m \in S} = {CallType(m) : m \in S}
    BY LabelsAreCounted
  <2>2. \A ct : Labelled(g, S, ct) = OfType(ct, S)
    BY DEF Labelled, OfType
  <2> HIDE DEF g
  <2>3. LabelCounts(g, S)
          = [ct \in {CallType(m) : m \in S} |-> Cardinality(OfType(ct, S))]
    BY <2>1, <2>2 DEF LabelCounts
  <2>4. DOMAIN a.callTypes = CallTypes
        /\ \A ct \in CallTypes : a.callTypes[ct] = Cardinality(Labelled(g, S, ct))
    BY <1>2, <2>2
  <2> DEFINE f == a.callTypes
  <2> HIDE DEF f
  <2>5. Positive(f) = LabelCounts(g, S)
    BY ONLY <1>4, <2>1, <2>4, PositiveCounts DEF f
  <2> QED BY <2>3, <2>5 DEF f
<1>6. Positive(a.purposes)
        = [p \in {Purpose(m) : m \in S} |-> Cardinality(OfPurpose(p, S))]
  <2> DEFINE g == [m \in S |-> {Purpose(m)}]
  <2>1. g \in [S -> SUBSET Purposes] /\ UNION {g[m] : m \in S} = {Purpose(m) : m \in S}
    BY LabelsAreCounted
  <2>2. \A p : Labelled(g, S, p) = OfPurpose(p, S)
    BY DEF Labelled, OfPurpose
  <2> HIDE DEF g
  <2>3. LabelCounts(g, S) = [p \in {Purpose(m) : m \in S} |-> Cardinality(OfPurpose(p, S))]
    BY <2>1, <2>2 DEF LabelCounts
  <2>4. DOMAIN a.purposes = Purposes
        /\ \A p \in Purposes : a.purposes[p] = Cardinality(Labelled(g, S, p))
    BY <1>2, <2>2
  <2> DEFINE f == a.purposes
  <2> HIDE DEF f
  <2>5. Positive(f) = LabelCounts(g, S)
    BY ONLY <1>4, <2>1, <2>4, PositiveCounts DEF f
  <2> QED BY <2>3, <2>5 DEF f
<1>7. Positive(a.products)
        = [p \in UNION {ProductAreas(m) : m \in S} |-> Cardinality(OfProduct(p, S))]
  <2> DEFINE g == [m \in S |-> ProductAreas(m)]
  <2>1. g \in [S -> SUBSET P]
        /\ UNION {g[m] : m \in S} = UNION {ProductAreas(m) : m \in S}
    BY LabelsAreCounted
  <2>2. \A p : Labelled(g, S, p) = OfProduct(p, S)
    BY DEF Labelled, OfProduct
  <2> HIDE DEF g, P
  <2>3. LabelCounts(g, S)
          = [p \in UNION {ProductAreas(m) : m \in S} |-> Cardinality(OfProduct(p, S))]
    BY <2>1, <2>2 DEF LabelCounts
  <2>4. DOMAIN a.products = P
        /\ \A p \in P : a.products[p] = Cardinality(Labelled(g, S, p))
    BY <1>2, <2>2
  <2> DEFINE f == a.products
  <2> HIDE DEF f
  <2>5. Positive(f) = LabelCounts(g, S)
    BY ONLY <1>4, <2>1, <2>4, PositiveCounts DEF f
  <2> QED BY <2>3, <2>5 DEF f
<1>8. ASSUME NEW ct \in CallTypes PROVE ListAverage(a.byType[ct]) = Average(OfType(ct, S))
  <2> DEFINE X == Scored(OfType(ct, S))
             list == a.byType[ct]
  <2>1. X \in SUBSET Meeting /\ Scored(X) = X
    BY DEF Scored, OfType
  <2>2. ListsScores(list, X)
    BY <1>3
  <2>3. Average(X) = Average(OfType(ct, S))
    BY <2>1 DEF Average
  <2> HIDE DEF X, list
  <2>4. ListAverage(list) = Average(X)
    BY ONLY <2>1, <2>2, ListedAverage
  <2> QED BY <2>3, <2>4 DEF list
<1>9. [ct \in DOMAIN Positive(a.callTypes) |-> ListAverage(a.byType[ct])]
        = [ct \in {CallType(m) : m \in S} |-> Average(OfType(ct, S))]
  BY <1>5, <1>8, LabelsAreCounted
<1>10. Summary(S) =
          [meetings  |-> Cardinality(S),
           callTypes |-> [ct \in {CallType(m) : m \in S} |-> Cardinality(OfType(ct, S))],
           purposes  |-> [p \in {Purpose(m) : m \in S} |-> Cardinality(OfPurpose(p, S))],
           products  |-> [p \in UNION {ProductAreas(m) : m \in S} |->
                             Cardinality(OfProduct(p, S))],
           overall   |-> Average(S),
           sentiment |-> [ct \in {CallType(m) : m \in S} |-> Average(OfType(ct, S))]]
  BY DEF Summary, ByCallType, OfPurpose, OfProduct
<1> QED BY ONLY <1>2, <1>5, <1>6, <1>7, <1>9, <1>10 DEF StreamedSummary

\* The loads of the owners that have any.
LEMMA StreamedOwnersAreLoaded ==
    ASSUME NEW S
    PROVE  Positive([o \in Owner |-> Load(o, S)])
             = [o \in {row.owner : row \in ActionItemLoad(S)} |-> Load(o, S)]
<1> DEFINE busy == {o \in Owner : Load(o, S) > 0}
           shown(o) == [owner |-> o, total |-> Load(o, S),
                        external |-> Load(o, OfType("external", S)),
                        internal |-> Load(o, OfType("internal", S)),
                        support  |-> Load(o, OfType("support", S))]
<1>1. {row.owner : row \in ActionItemLoad(S)} = busy
  <2>1. ActionItemLoad(S) = {shown(o) : o \in busy}
    BY DEF ActionItemLoad
  <2>2. \A o : shown(o).owner = o
    OBVIOUS
  <2> HIDE DEF shown, busy
  <2> QED BY <2>1, <2>2
<1> QED BY <1>1 DEF Positive

\* An aggregate of the meetings S reports what the in-memory pipeline does.
LEMMA ReportIsInMemory ==
    ASSUME NEW S \in SUBSET Meeting, NEW a, Represents(a, S)
    PROVE  Streamed(a) = InMemory(S) /\ IsInjective(a.pivots)
<1>1. Represents(a, S)
  OBVIOUS
<1>2. StreamedSummary(a) = Summary(S)
  BY StreamedSummaryIsSummary
<1>3. StreamedHealth(a)
        = {row \in CustomerHealth(S) :
              row.customer # "" /\ Of(row.customer, S) \subseteq Scored(S)}
  BY StreamedHealthIsRated, RatedRows
<1>4. Lists(a.pivots, NegativePivots(S)) /\ a.owners = [o \in Owner |-> Load(o, S)]
  BY ONLY <1>1 DEF Represents
<1>5. ToSet(a.pivots) = NegativePivots(S)
  <2>1. /\ \A i \in DOMAIN a.pivots : a.pivots[i] \in NegativePivots(S)
        /\ \A x \in NegativePivots(S) : \E i \in DOMAIN a.pivots : a.pivots[i] = x
    BY <1>4 DEF Lists
  <2> QED BY <2>1 DEF ToSet
<1>6. Positive(a.owners)
        = [o \in {row.owner : row \in ActionItemLoad(S)} |-> Load(o, S)]
  BY <1>4, StreamedOwnersAreLoaded
<1>7. /\ RunAnalysis(S).health = CustomerHealth(S)
      /\ RunAnalysis(S).pivots = NegativePivots(S)
      /\ RunAnalysis(S).owners = ActionItemLoad(S)
  BY DEF RunAnalysis
<1>8. Streamed(a) = InMemory(S)
  BY ONLY <1>2, <1>3, <1>5, <1>6, <1>7 DEF Streamed, InMemory
<1> QED BY <1>4, <1>8 DEF Lists

\* Two runs over the parts of a table, merged, report the table.
LEMMA PartsAreMergeable ==
    ASSUME NEW S \in SUBSET Meeting
    PROVE  <<S, TRUE>> \in Mergeable
<1> DEFINE merged(part) == Merge(FoldBatch(Zero, S \ part), FoldBatch(Zero, part))
           good(T) == \A part \in SUBSET T :
                         LET both == Merge(FoldBatch(Zero, T \ part), FoldBatch(Zero, part))
                         IN  Streamed(both) = InMemory(T) /\ IsInjective(both.pivots)
<1>1. ASSUME NEW T \in SUBSET Meeting PROVE Represents(FoldBatch(Zero, T), T)
  <2>1. Apart({}, T) /\ {} \cup T = T
    BY DEF Apart
  <2> QED BY <2>1, ZeroRepresents, FoldRepresents
<1>2. ASSUME NEW part \in SUBSET S
      PROVE  Streamed(merged(part)) = InMemory(S) /\ IsInjective(merged(part).pivots)
  <2>1. Apart(S \ part, part) /\ (S \ part) \cup part = S
    BY DEF Apart
  <2>2. Represents(FoldBatch(Zero, S \ part), S \ part) /\ Represents(FoldBatch(Zero, part), part)
    BY <1>1
  <2>3. Represents(merged(part), (S \ part) \cup part)
    BY <2>1, <2>2, MergeRepresents
  <2>4. Represents(merged(part), S)
    BY <2>1, <2>3
  <2> HIDE DEF merged
  <2> QED BY <2>4, ReportIsInMemory
<1>3. good(S)
  BY <1>2
<1>4. Mergeable = {<<T, good(T)>> : T \in SUBSET Meeting}
  BY DEF Mergeable
<1>5. good(S) = TRUE
  BY <1>3
<1> HIDE DEF good
<1> QED BY <1>4, <1>5

-----------------------------------------------------------------------------
(* The breakdowns of the views.                                            *)

\* The values of a function on a finite set are finitely many.
LEMMA ValuesAreFinite ==
    ASSUME NEW S, IsFiniteSet(S), NEW h, S = DOMAIN h, h = [x \in S |-> h[x]]
    PROVE  IsFiniteSet({h[x] : x \in S})
<1> DEFINE T == {h[x] : x \in S}
<1>1. h \in Surjection(S, T)
  BY DEF Surjection
<1> HIDE DEF T
<1>2. IsFiniteSet(T)
  BY <1>1, FS_Surjection
<1> QED BY <1>2 DEF T

\* The group k of S, by h.
Grouped(h, S, k) == {x \in S : h[x] = k}

\* A row for each group, with its size: the sizes add up to the whole.
LEMMA RowsAddUp ==
    ASSUME NEW S, IsFiniteSet(S), NEW K, IsFiniteSet(K), NEW h \in [S -> K],
           NEW X, NEW row \in [K -> X], \A j, k \in K : row[j] = row[k] => j = k,
           \A y \in X : \E k \in K : row[k] = y,
           NEW f, DOMAIN f = X, \A k \in K : f[row[k]] = Cardinality(Grouped(h, S, k))
    PROVE  Counted(f) = Cardinality(S)
<1> DEFINE sizes == [k \in K |-> f[row[k]]]
<1>1. Sum(sizes, K) = Cardinality(S)
  <2>1. \A k \in K : sizes[k] = Cardinality({x \in S : h[x] = k})
    BY DEF Grouped
  <2>2. IsFiniteSet(S) /\ IsFiniteSet(K) /\ h \in [S -> K]
    OBVIOUS
  <2> HIDE DEF sizes
  <2> QED BY ONLY <2>1, <2>2, SizeByGroups
<1>2. /\ row \in [K -> X] /\ IsFiniteSet(K)
      /\ \A j, k \in K : row[j] = row[k] => j = k
      /\ \A y \in X : \E k \in K : row[k] = y
      /\ \A k \in K : sizes[k] = f[row[k]]
  OBVIOUS
<1>3. \A y \in X : f[y] \in Int
  <2> SUFFICES ASSUME NEW k \in K PROVE f[row[k]] \in Int
    OBVIOUS
  <2> DEFINE G == {x \in S : h[x] = k}
  <2>1. f[row[k]] = Cardinality(G) /\ G \subseteq S
    BY DEF Grouped
  <2> HIDE DEF G
  <2>2. Cardinality(G) \in Nat
    BY <2>1, FS_Subset, FS_CardinalityType
  <2> QED BY <2>1, <2>2
<1> HIDE DEF sizes
<1>4. Sum(sizes, K) = Sum(f, X)
  BY ONLY <1>2, <1>3, SumMoves
<1>5. Counted(f) = Sum(f, X)
  BY DEF Counted, Sum
<1> QED BY <1>1, <1>4, <1>5

LEMMA CallTypesAddUp ==
    ASSUME NEW X \in SUBSET Meeting
    PROVE  Counted(ByCallType(X)) = Cardinality(X)
<1> DEFINE h == [m \in X |-> CallType(m)]
           K == {CallType(m) : m \in X}
           f == ByCallType(X)
<1>1. IsFiniteSet(X)
  BY MeetingsAreFinite, FS_Subset
<1>2. K = {h[m] : m \in X} /\ h \in [X -> K]
  OBVIOUS
<1>3. IsFiniteSet(K)
  <2>1. DOMAIN h = X /\ h = [m \in X |-> h[m]]
    OBVIOUS
  <2> HIDE DEF h, K
  <2> QED BY <1>1, <1>2, <2>1, ValuesAreFinite
<1>4. DOMAIN f = K /\ \A k \in K : f[k] = Cardinality({m \in X : h[m] = k})
  <2>1. \A k \in K : {m \in X : h[m] = k} = OfType(k, X)
    BY DEF OfType
  <2> QED BY <2>1 DEF ByCallType
<1> HIDE DEF h, K, f
<1>5. Sum(f, K) = Cardinality(X)
  BY <1>1, <1>2, <1>3, <1>4, SizeByGroups
<1> QED BY <1>4, <1>5 DEF Counted, Sum, f

\* The scores, purpose by purpose.
LEMMA PurposesAddUp ==
    ASSUME NEW S \in SUBSET Meeting
    PROVE  Counted([row \in SentimentByPurpose(S) |-> row.count]) = Average(S)[2]
<1> DEFINE T == Scored(S)
           K == {Purpose(m) : m \in S}
           all == [m \in S |-> Purpose(m)]
           h == [m \in T |-> Purpose(m)]
           row == [p \in K |->
                      [group |-> p, mean |-> Average({m \in S : Purpose(m) = p}),
                       count |-> Cardinality({m \in Scored(S) : Purpose(m) = p})]]
           X == SentimentByPurpose(S)
           f == [r \in X |-> r.count]
<1>1. IsFiniteSet(S) /\ T \subseteq S
  BY MeetingsAreFinite, FS_Subset DEF Scored
<1>2. IsFiniteSet(T)
  BY <1>1, FS_Subset
<1>3. IsFiniteSet(K)
  <2>1. DOMAIN all = S /\ all = [m \in S |-> all[m]] /\ K = {all[m] : m \in S}
    OBVIOUS
  <2> HIDE DEF all, K
  <2> QED BY <1>1, <2>1, ValuesAreFinite
<1>4. h \in [T -> K]
  BY <1>1
<1>5. \A p \in K : row[p].group = p /\ row[p].count = Cardinality(Grouped(h, T, p))
  <2>1. \A p : Grouped(h, T, p) = {m \in Scored(S) : Purpose(m) = p}
    BY DEF Grouped
  <2> QED BY <2>1
<1>6. row \in [K -> X] /\ \A y \in X : \E p \in K : row[p] = y
  BY DEF SentimentByPurpose
<1>7. \A j, k \in K : row[j] = row[k] => j = k
  BY <1>5
<1> HIDE DEF row, h, K, X, T
<1>8. DOMAIN f = X /\ \A p \in K : f[row[p]] = Cardinality(Grouped(h, T, p))
  BY <1>5, <1>6
<1> HIDE DEF f
<1>9. Counted(f) = Cardinality(T)
  BY ONLY <1>2, <1>3, <1>4, <1>6, <1>7, <1>8, RowsAddUp
<1>10. Average(S)[2] = Cardinality(T)
  BY DEF Average, T
<1> QED BY <1>9, <1>10 DEF f, X

\* The scores, week by week and call type by call type.
LEMMA WeeksAddUp ==
    ASSUME NEW S \in SUBSET Meeting
    PROVE  Counted([point \in WeeklyTrend(S) |-> point[3][2]]) = Average(S)[2]
<1> DEFINE T == Scored(S)
           W == {Content[m].week : m \in S}
           C == {CallType(m) : m \in S}
           K == W \X C
           weeks == [m \in S |-> Content[m].week]
           types == [m \in S |-> CallType(m)]
           h == [m \in T |-> <<Content[m].week, CallType(m)>>]
           at(w, ct) == {m \in OfType(ct, S) : Content[m].week = w}
           row == [k \in K |-> <<k[1], k[2], Average(at(k[1], k[2]))>>]
           X == WeeklyTrend(S)
           f == [p \in X |-> p[3][2]]
<1>1. IsFiniteSet(S) /\ T \subseteq S
  BY MeetingsAreFinite, FS_Subset DEF Scored
<1>2. IsFiniteSet(T)
  BY <1>1, FS_Subset
<1>3. IsFiniteSet(K)
  <2>1. /\ DOMAIN weeks = S /\ weeks = [m \in S |-> weeks[m]] /\ W = {weeks[m] : m \in S}
        /\ DOMAIN types = S /\ types = [m \in S |-> types[m]] /\ C = {types[m] : m \in S}
    OBVIOUS
  <2> HIDE DEF weeks, types, W, C
  <2>2. IsFiniteSet(W) /\ IsFiniteSet(C)
    BY <1>1, <2>1, ValuesAreFinite
  <2> QED BY <2>2, FS_Product
<1>4. h \in [T -> K]
  BY <1>1
<1>5. ASSUME NEW k \in K
      PROVE  row[k][1] = k[1] /\ row[k][2] = k[2] /\ row[k][3][2] = Cardinality(Grouped(h, T, k))
  <2>1. PICK w \in W, ct \in C : k = <<w, ct>>
    OBVIOUS
  <2>2. Scored(at(w, ct)) = Grouped(h, T, k)
    BY <2>1 DEF Scored, OfType, Grouped
  <2>3. row[k] = <<w, ct, Average(at(w, ct))>>
    BY <2>1
  <2>4. Average(at(w, ct))[2] = Cardinality(Scored(at(w, ct)))
    BY DEF Average
  <2> HIDE DEF at, row
  <2> QED BY <2>1, <2>2, <2>3, <2>4
<1>6. row \in [K -> X] /\ \A y \in X : \E k \in K : row[k] = y
  <2>1. X = {<<w, ct, Average(at(w, ct))>> : w \in W, ct \in C}
    BY DEF WeeklyTrend
  <2>2. \A w \in W, ct \in C : <<w, ct>> \in K /\ row[<<w, ct>>] = <<w, ct, Average(at(w, ct))>>
    OBVIOUS
  <2>3. \A k \in K : \E w \in W, ct \in C : k = <<w, ct>>
    OBVIOUS
  <2> HIDE DEF at, row, W, C, K, X
  <2>4. ASSUME NEW k \in K PROVE row[k] \in X
    <3>1. PICK w \in W, ct \in C : k = <<w, ct>>
      BY <2>3
    <3> QED BY <2>1, <2>2, <3>1
  <2>5. ASSUME NEW y \in X PROVE \E k \in K : row[k] = y
    <3>1. PICK w \in W, ct \in C : y = <<w, ct, Average(at(w, ct))>>
      BY <2>1
    <3> QED BY <2>2, <3>1
  <2>6. row = [k \in K |-> row[k]]
    BY DEF row
  <2> QED BY <2>4, <2>5, <2>6
<1>7. \A j, k \in K : row[j] = row[k] => j = k
  <2> SUFFICES ASSUME NEW j \in K, NEW k \in K, row[j] = row[k] PROVE j = k
    OBVIOUS
  <2>1. j[1] = k[1] /\ j[2] = k[2]
    BY <1>5
  <2> QED BY <2>1
<1> HIDE DEF row, h, K, X, T, at
<1>8. DOMAIN f = X /\ \A k \in K : f[row[k]] = Cardinality(Grouped(h, T, k))
  BY <1>5, <1>6
<1> HIDE DEF f
<1>9. Counted(f) = Cardinality(T)
  BY ONLY <1>2, <1>3, <1>4, <1>6, <1>7, <1>8, RowsAddUp
<1>10. Average(S)[2] = Cardinality(T)
  BY DEF Average, T
<1> QED BY <1>9, <1>10 DEF f, X

LEMMA ClustersAddUp ==
    ASSUME NEW S \in SUBSET Meeting
    PROVE  Counted([row \in Clusters(S) |-> row.size]) = Cardinality(S)
<1> DEFINE h == [m \in S |-> Content[m].cluster]
           K == {Content[m].cluster : m \in S}
           row == [k \in K |->
                      [cluster |-> k, size |-> Cardinality({m \in S : Content[m].cluster = k}),
                       average |-> Average({m \in S : Content[m].cluster = k})]]
           X == Clusters(S)
           f == [r \in X |-> r.size]
<1>1. IsFiniteSet(S)
  BY MeetingsAreFinite, FS_Subset
<1>2. h \in [S -> K]
  OBVIOUS
<1>3. IsFiniteSet(K)
  <2>1. K = {h[m] : m \in S} /\ DOMAIN h = S /\ h = [m \in S |-> h[m]]
    OBVIOUS
  <2> HIDE DEF h, K
  <2> QED BY <1>1, <2>1, ValuesAreFinite
<1>4. \A k \in K : row[k].cluster = k /\ row[k].size = Cardinality(Grouped(h, S, k))
  <2>1. \A k : Grouped(h, S, k) = {m \in S : Content[m].cluster = k}
    BY DEF Grouped
  <2> QED BY <2>1
<1>5. row \in [K -> X] /\ \A y \in X : \E k \in K : row[k] = y
  BY DEF Clusters
<1>6. \A j, k \in K : row[j] = row[k] => j = k
  BY <1>4
<1> HIDE DEF row, h, K, X
<1>7. DOMAIN f = X /\ \A k \in K : f[row[k]] = Cardinality(Grouped(h, S, k))
  BY <1>4, <1>5
<1> HIDE DEF f
<1>8. Counted(f) = Cardinality(S)
  BY ONLY <1>1, <1>2, <1>3, <1>5, <1>6, <1>7, RowsAddUp
<1> QED BY <1>8 DEF f, X

\* The meetings that mention a word, and the others.
LEMMA MentionsPart ==
    ASSUME NEW S \in SUBSET Meeting, NEW word
    PROVE  /\ Mentions(word, S) \in SUBSET Meeting
           /\ Pair(Average(Mentions(word, S)), Average(S \ Mentions(word, S))) = Average(S)
<1> DEFINE X == Mentions(word, S)
           Y == S \ X
<1>1. Apart(X, Y) /\ X \cup Y = S
  BY DEF Mentions, Apart
<1> HIDE DEF X, Y
<1>2. Average(X \cup Y) = Pair(Average(X), Average(Y))
  BY <1>1, AveragesAdd
<1> QED BY <1>1, <1>2 DEF X, Y, Apart

\* The load of an owner is that with meetings of the three call types.
LEMMA LoadsByCallType ==
    ASSUME NEW S \in SUBSET Meeting, NEW o
    PROVE  Load(o, S) = Load(o, OfType("external", S)) + Load(o, OfType("internal", S))
                          + Load(o, OfType("support", S))
<1> DEFINE X == OfType("external", S)
           Y == OfType("internal", S)
           Z == OfType("support", S)
<1>1. Apart(X, Y) /\ Apart(X \cup Y, Z) /\ (X \cup Y) \cup Z = S
  BY LabelsAreCounted DEF OfType, Apart, CallTypes
<1> HIDE DEF X, Y, Z
<1>2. Load(o, X \cup Y) = Load(o, X) + Load(o, Y)
  BY <1>1, LoadsAdd
<1>3. Load(o, (X \cup Y) \cup Z) = Load(o, X \cup Y) + Load(o, Z)
  <2> DEFINE U == X \cup Y
  <2>1. Apart(U, Z)
    BY <1>1
  <2> HIDE DEF U
  <2>2. Load(o, U \cup Z) = Load(o, U) + Load(o, Z)
    BY <2>1, LoadsAdd
  <2> QED BY <2>2 DEF U
<1> QED BY <1>1, <1>2, <1>3 DEF X, Y, Z

LEMMA BreakdownsHold ==
    ASSUME NEW S \in SUBSET Meeting
    PROVE  BreakdownsAddUp(S)
<1>1. Counted(Summary(S).callTypes) = Cardinality(S)
  BY CallTypesAddUp DEF Summary
<1>2. Counted([row \in SentimentByPurpose(S) |-> row.count]) = Average(S)[2]
  BY PurposesAddUp
<1>3. Counted([point \in RunAnalysis(S).weekly |-> point[3][2]]) = Average(S)[2]
  <2>1. RunAnalysis(S).weekly = WeeklyTrend(S)
    BY DEF RunAnalysis
  <2> QED BY <2>1, WeeksAddUp
<1>4. Counted([row \in Clusters(S) |-> row.size]) = Cardinality(S)
  BY ClustersAddUp
<1>5. \A row \in ActionItemLoad(S) : row.total = row.external + row.internal + row.support
  BY LoadsByCallType DEF ActionItemLoad
<1>6. /\ IncidentView(S).byCallType = ByCallType(Mentions("outage", S))
      /\ IncidentView(S).affected = Cardinality(Mentions("outage", S))
      /\ IncidentView(S).hit = Average(Mentions("outage", S))
      /\ IncidentView(S).unhit = Average(S \ Mentions("outage", S))
  BY DEF IncidentView, IncidentImpact
<1>7. /\ CompetitiveSignals(S).byCallType = ByCallType(Mentions("rival", S))
      /\ CompetitiveSignals(S).flagged = Mentions("rival", S)
      /\ CompetitiveSignals(S).hit = Average(Mentions("rival", S))
      /\ CompetitiveSignals(S).other = Average(S \ Mentions("rival", S))
  BY DEF CompetitiveSignals
<1>8. /\ Counted(IncidentView(S).byCallType) = IncidentView(S).affected
      /\ Pair(IncidentView(S).hit, IncidentView(S).unhit) = Average(S)
  BY <1>6, MentionsPart, CallTypesAddUp
<1>9. /\ Counted(CompetitiveSignals(S).byCallType) = Cardinality(CompetitiveSignals(S).flagged)
      /\ Pair(CompetitiveSignals(S).hit, CompetitiveSignals(S).other) = Average(S)
  BY <1>7, MentionsPart, CallTypesAddUp
<1> QED BY ONLY <1>1, <1>2, <1>3, <1>4, <1>5, <1>8, <1>9 DEF BreakdownsAddUp

-----------------------------------------------------------------------------
(* What the views have in common.                                          *)

\* A list of meetings has a row for each.
LEMMA RowsAreAsMany ==
    ASSUME NEW X \in SUBSET Meeting
    PROVE  Cardinality({MeetingRow(m) : m \in X}) = Cardinality(X)
<1> DEFINE T == {MeetingRow(m) : m \in X}
           f == [m \in X |-> MeetingRow(m)]
<1>1. \A m : MeetingRow(m).meeting = m
  BY DEF MeetingRow
<1>2. f \in [X -> T] /\ (\A y \in T : \E m \in X : f[m] = y)
      /\ \A m, n \in X : f[m] = f[n] => m = n
  BY <1>1
<1>3. IsFiniteSet(X)
  BY MeetingsAreFinite, FS_Subset
<1> HIDE DEF f, T
<1>4. f \in Surjection(X, T) /\ f \in Injection(X, T)
  BY <1>2 DEF Surjection, Injection, IsInjective
<1>5. Cardinality(T) = Cardinality(X)
  BY <1>3, <1>4, FS_Surjection
<1> QED BY <1>5 DEF T

LEMMA FiguresHold ==
    ASSUME NEW S \in SUBSET Meeting
    PROVE  FiguresAgree(S)
<1>1. /\ RunAnalysis(S).sentiment = Summary(S).sentiment
      /\ RunAnalysis(S).callTypes = Summary(S).callTypes
  BY DEF RunAnalysis, Summary
<1>2. ASSUME NEW row \in SentimentByCallType(S)
      PROVE  /\ row.mean = Summary(S).sentiment[row.group]
             /\ row.count = Cardinality(DOMAIN SentimentScores(S)[row.group])
             /\ row.count = Cardinality(Filter(S, {row.group}, {}))
  <2>1. PICK ct \in {CallType(m) : m \in S} :
            row = [group |-> ct, mean |-> Average(OfType(ct, S)),
                   count |-> Cardinality(OfType(ct, S))]
    BY DEF SentimentByCallType
  <2>2. Summary(S).sentiment[ct] = Average(OfType(ct, S))
    BY DEF Summary
  <2>3. DOMAIN SentimentScores(S)[ct] = OfType(ct, S)
    BY DEF SentimentScores
  <2>4. Filter(S, {ct}, {}) = OfType(ct, S)
    BY DEF Filter, OfType
  <2> QED BY <2>1, <2>2, <2>3, <2>4
<1>3. \A p \in DOMAIN Summary(S).purposes :
         Summary(S).purposes[p] = Cardinality(OfPurpose(p, S))
  BY DEF Summary, OfPurpose
<1>4. CatchAll(S) = OfPurpose("Account Management", S)
  BY DEF CatchAll, OfPurpose
<1>5. Cardinality(IncidentView(S).direct) = Cardinality(OfPurpose("Incident Response", S))
  <2>1. IncidentView(S).direct = {MeetingRow(m) : m \in OfPurpose("Incident Response", S)}
    BY DEF IncidentView, IncidentImpact, OfPurpose
  <2>2. OfPurpose("Incident Response", S) \in SUBSET Meeting
    BY DEF OfPurpose
  <2> QED BY <2>1, <2>2, RowsAreAsMany
<1>6. \A p \in DOMAIN Summary(S).products :
         Summary(S).products[p] = Cardinality(Filter(S, {}, {p}))
  <2>1. \A p : Filter(S, {}, {p}) = OfProduct(p, S)
    BY DEF Filter, OfProduct
  <2> QED BY <2>1 DEF Summary, OfProduct
<1> QED BY ONLY <1>1, <1>2, <1>3, <1>4, <1>5, <1>6 DEF FiguresAgree

\* The customers of S, and the row of one in the list of customers.
Customers(S) == UNION {CustomerOf(m) : m \in S}
ViewRow(c, S) ==
    [customer |-> c, tier |-> RiskTier(HealthRow(c, S), S), average |-> Average(Of(c, S)),
     meetings |-> Cardinality(Of(c, S)), churn |-> Signals(Of(c, S))]

LEMMA ViewRowsAreThose ==
    ASSUME NEW S
    PROVE  HealthView(S) = {ViewRow(c, S) : c \in Customers(S)}
<1>1. CustomerHealth(S) = {HealthRow(c, S) : c \in Customers(S)}
  BY HealthRowsAreThose DEF Customers
<1> DEFINE shown(row) ==
        [customer |-> row.customer, tier |-> RiskTier(row, S), average |-> row.average,
         meetings |-> row.meetings, churn |-> row.churn]
<1>2. HealthView(S) = {shown(row) : row \in CustomerHealth(S)}
  BY DEF HealthView
<1>3. \A c : shown(HealthRow(c, S)) = ViewRow(c, S)
  BY DEF HealthRow, ViewRow
<1> HIDE DEF shown
<1> QED BY <1>1, <1>2, <1>3

\* The page of a customer is that of its row.
LEMMA DetailsAreThose ==
    ASSUME NEW S, NEW c
    PROVE  CustomerDetail(c, S)
             = IF c \in Customers(S)
               THEN {[tier |-> ViewRow(c, S).tier, rows |-> {MeetingRow(m) : m \in Of(c, S)}]}
               ELSE {}
<1>1. \A d : ViewRow(d, S).customer = d
  BY DEF ViewRow
<1>2. {r \in HealthView(S) : r.customer = c} = IF c \in Customers(S) THEN {ViewRow(c, S)} ELSE {}
  BY <1>1, ViewRowsAreThose
<1> DEFINE page(row) == [tier |-> row.tier, rows |-> {MeetingRow(m) : m \in Of(c, S)}]
           X == {r \in HealthView(S) : r.customer = c}
<1>3. CustomerDetail(c, S) = {page(row) : row \in X}
  BY DEF CustomerDetail
<1>4. X = IF c \in Customers(S) THEN {ViewRow(c, S)} ELSE {}
  BY <1>2
<1> HIDE DEF page, X
<1>5. CustomerDetail(c, S) = IF c \in Customers(S) THEN {page(ViewRow(c, S))} ELSE {}
  BY <1>3, <1>4
<1> QED BY <1>5 DEF page

\* The customers' meetings are the meetings with a customer.
LEMMA CustomersAddUp ==
    ASSUME NEW S \in SUBSET Meeting
    PROVE  Counted([row \in HealthView(S) |-> row.meetings])
             = Cardinality({row \in MeetingList(S, {}, {}) : row.customer # {}})
<1> DEFINE T == {m \in S : CustomerOf(m) # {}}
           K == Customers(S)
           h == [m \in T |-> CHOOSE c \in CustomerOf(m) : TRUE]
           row == [c \in K |-> ViewRow(c, S)]
           X == HealthView(S)
           f == [r \in X |-> r.meetings]
<1>1. IsFiniteSet(T) /\ T \in SUBSET Meeting
  BY MeetingsAreFinite, FS_Subset
<1>2. \A m \in T : h[m] \in CustomerOf(m) /\ \A c \in CustomerOf(m) : c = h[m]
  BY CustomersAreKnown
<1>3. h \in [T -> K] /\ K = {h[m] : m \in T} /\ DOMAIN h = T /\ h = [m \in T |-> h[m]]
  <2>1. \A m \in T : h[m] \in K
    BY <1>2 DEF Customers
  <2>2. \A c \in K : \E m \in T : c = h[m]
    BY <1>2 DEF Customers
  <2>3. DOMAIN h = T /\ h = [m \in T |-> h[m]]
    OBVIOUS
  <2> HIDE DEF h, K, T
  <2> QED BY <2>1, <2>2, <2>3
<1>4. IsFiniteSet(K)
  <2> HIDE DEF h, K, T
  <2> QED BY <1>1, <1>3, ValuesAreFinite
<1>5. \A c \in K : row[c].customer = c /\ row[c].meetings = Cardinality(Grouped(h, T, c))
  <2>1. \A c : Grouped(h, T, c) = Of(c, S)
    BY <1>2 DEF Grouped, Of
  <2> HIDE DEF h, K, T
  <2> QED BY <2>1 DEF ViewRow
<1>6. row \in [K -> X] /\ \A y \in X : \E c \in K : row[c] = y
  BY ViewRowsAreThose
<1>7. \A j, k \in K : row[j] = row[k] => j = k
  BY <1>5
<1>8. h \in [T -> K]
  BY <1>3
<1>9. MeetingList(S, {}, {}) = {MeetingRow(m) : m \in S}
  BY DEF MeetingList, Filter
<1>10. {r \in MeetingList(S, {}, {}) : r.customer # {}} = {MeetingRow(m) : m \in T}
  <2>1. \A m : MeetingRow(m).customer = CustomerOf(m)
    BY DEF MeetingRow
  <2> QED BY <1>9, <2>1
<1> HIDE DEF row, h, K, X, T
<1>11. DOMAIN f = X /\ \A c \in K : f[row[c]] = Cardinality(Grouped(h, T, c))
  BY <1>5, <1>6
<1> HIDE DEF f
<1>12. Counted(f) = Cardinality(T)
  BY ONLY <1>1, <1>4, <1>6, <1>7, <1>8, <1>11, RowsAddUp
<1> QED BY <1>1, <1>10, <1>12, RowsAreAsMany DEF f, X

LEMMA CustomersHold ==
    ASSUME NEW S \in SUBSET Meeting
    PROVE  CustomersAgree(S)
<1>1. ASSUME NEW row \in HealthView(S), NEW detail \in CustomerDetail(row.customer, S)
      PROVE  Cardinality(detail.rows) = row.meetings /\ detail.tier = row.tier
  <2>1. PICK c \in Customers(S) : row = ViewRow(c, S)
    BY ViewRowsAreThose
  <2>2. row.customer = c /\ row.meetings = Cardinality(Of(c, S))
    BY <2>1 DEF ViewRow
  <2>3. detail = [tier |-> ViewRow(c, S).tier, rows |-> {MeetingRow(m) : m \in Of(c, S)}]
    BY <2>2, DetailsAreThose
  <2>4. detail.tier = row.tier /\ detail.rows = {MeetingRow(m) : m \in Of(c, S)}
    BY <2>1, <2>3
  <2>5. Of(c, S) \in SUBSET Meeting
    BY DEF Of
  <2> QED BY <2>2, <2>4, <2>5, RowsAreAsMany
<1>2. ASSUME NEW c \in {row.customer : row \in HealthView(S)}, NEW m \in S
      PROVE  (\E detail \in CustomerDetail(c, S) : MeetingRow(m) \in detail.rows) <=>
             (\E detail \in MeetingDetail(m, S) : c \in detail.row.customer)
  <2>1. c \in Customers(S)
    BY ViewRowsAreThose DEF ViewRow
  <2> DEFINE page == [tier |-> ViewRow(c, S).tier, rows |-> {MeetingRow(n) : n \in Of(c, S)}]
  <2>2. CustomerDetail(c, S) = {page} /\ page.rows = {MeetingRow(n) : n \in Of(c, S)}
    BY <2>1, DetailsAreThose
  <2>3. \A n : MeetingRow(n).meeting = n /\ MeetingRow(n).customer = CustomerOf(n)
    BY DEF MeetingRow
  <2>4. (\E detail \in CustomerDetail(c, S) : MeetingRow(m) \in detail.rows) <=> m \in Of(c, S)
    <3> HIDE DEF page
    <3>1. MeetingRow(m) \in page.rows <=> m \in Of(c, S)
      BY <2>2, <2>3
    <3> QED BY <2>2, <3>1
  <2>5. (\E detail \in MeetingDetail(m, S) : c \in detail.row.customer) <=> c \in CustomerOf(m)
    <3> DEFINE shown(n) == [row |-> MeetingRow(n), sentences |-> Content[n].labels,
                            speakers |-> Content[n].talk, products |-> ProductAreas(n)]
    <3>1. MeetingDetail(m, S) = {shown(n) : n \in S \cap {m}}
      BY DEF MeetingDetail
    <3>2. shown(m).row = MeetingRow(m)
      OBVIOUS
    <3> HIDE DEF shown
    <3>3. MeetingDetail(m, S) = {shown(m)}
      BY <3>1
    <3> QED BY <2>3, <3>2, <3>3
  <2> QED BY <2>4, <2>5 DEF Of
<1> QED BY ONLY <1>1, <1>2, CustomersAddUp, S \in SUBSET Meeting DEF CustomersAgree

-----------------------------------------------------------------------------
(* The shares of the speakers.                                             *)

LEMMA MaxIsIn ==
    ASSUME NEW H, H \subseteq Int, IsFiniteSet(H), H # {}
    PROVE  Max(H) \in H /\ \A j \in H : j <= Max(H)
<1> DEFINE n == Cardinality(H)
<1>1. n \in Nat /\ n # 0
  BY FS_CardinalityType, FS_EmptySet
<1>2. n - 1 \in 0..(n - 1)
  BY <1>1
<1>3. PICK i \in H : RankIn(H, i) = n - 1
  BY <1>2, RankIsTaken
<1>4. ASSUME NEW j \in H PROVE ~ (i < j)
  <2>1. j \in Int /\ i \in Int
    BY <1>3
  <2>2. RankIn(H, j) \in Nat /\ RankIn(H, j) < n
    BY <2>1, RanksAreOrdered
  <2>3. i < j => RankIn(H, i) < RankIn(H, j)
    BY <2>1, <1>3, RanksAreOrdered
  <2> QED BY <1>1, <1>3, <2>2, <2>3
<1>5. \A j \in H : i >= j
  BY <1>3, <1>4
<1>6. Max(H) \in H /\ \A j \in H : Max(H) >= j
  BY <1>3, <1>5 DEF Max
<1>7. \A x, y \in Int : x >= y => y <= x
  OBVIOUS
<1> QED BY <1>6, <1>7

LEMMA TalkTimeIsSum ==
    ASSUME NEW m, NEW who, NEW X,
           X = {i \in DOMAIN Content[m].talk : Content[m].talk[i][1] = who}, IsFiniteSet(X),
           NEW g, \A i \in X : g[i] = Content[m].talk[i][2]
    PROVE  TalkTime(m, who) = Sum(g, X)
<1> DEFINE time(i) == Content[m].talk[i][2]
           P(it) == it = [s \in SUBSET X |-> IF s = {} THEN 0
                             ELSE time(Pick(s)) + it[s \ {Pick(s)}]]
<1>1. \A it : Solves(it, g, X) <=> P(it)
  <2>1. \A i \in X : g[i] = time(i)
    OBVIOUS
  <2> HIDE DEF time
  <2> QED BY <2>1, PickIsIn DEF Solves
<1>2. TalkTime(m, who) = (CHOOSE it : P(it))[X]
  BY DEF TalkTime, Total, MapThenSumSet, MapThenFoldSet, Pick
<1> HIDE DEF P
<1> QED BY <1>1, <1>2, SolutionExists, SumIsIteration

LEMMA TalkIsTyped ==
    ASSUME NEW m \in Meeting
    PROVE  IsFiniteSet(Speakers(m)) /\ \A who : TalkTime(m, who) \in Nat
<1> DEFINE talk == Content[m].talk
           D == DOMAIN talk
<1>1. talk \in Seq(Nat \X (Nat \ {0}))
  BY MeetingsAreTyped DEF Kind
<1>2. D = 1..Len(talk) /\ Len(talk) \in Nat /\ \A i \in D : talk[i][2] \in Nat
  BY <1>1
<1>3. IsFiniteSet(D)
  BY <1>2, FS_Interval
<1>4. IsFiniteSet(Speakers(m))
  <2> DEFINE h == [i \in D |-> talk[i][1]]
  <2>1. Speakers(m) = {h[i] : i \in D} /\ DOMAIN h = D /\ h = [i \in D |-> h[i]]
    BY DEF Speakers
  <2> HIDE DEF h, D
  <2> QED BY <1>3, <2>1, ValuesAreFinite
<1>5. ASSUME NEW who PROVE TalkTime(m, who) \in Nat
  <2> DEFINE X == {i \in D : talk[i][1] = who}
             g == [i \in D |-> talk[i][2]]
  <2>1. X = {i \in DOMAIN Content[m].talk : Content[m].talk[i][1] = who} /\ X \subseteq D
        /\ \A i \in X : g[i] = Content[m].talk[i][2] /\ g[i] \in Nat
    BY <1>2
  <2> HIDE DEF X, g, D
  <2>2. IsFiniteSet(X)
    BY <1>3, <2>1, FS_Subset
  <2>3. TalkTime(m, who) = Sum(g, X)
    BY <2>1, <2>2, TalkTimeIsSum
  <2>4. Sum(g, X) \in Nat
    BY <2>1, <2>2, SumBoundsParts
  <2> QED BY <2>3, <2>4
<1> QED BY <1>4, <1>5

AllTalk(m, X) == Total(LAMBDA who : TalkTime(m, who), X)

LEMMA AllTalkIsSum ==
    ASSUME NEW m, NEW X, IsFiniteSet(X), NEW g, \A who \in X : g[who] = TalkTime(m, who)
    PROVE  AllTalk(m, X) = Sum(g, X)
<1> DEFINE P(it) == it = [s \in SUBSET X |-> IF s = {} THEN 0
                             ELSE TalkTime(m, Pick(s)) + it[s \ {Pick(s)}]]
<1>1. \A it : Solves(it, g, X) <=> P(it)
  BY PickIsIn DEF Solves
<1>2. AllTalk(m, X) = (CHOOSE it : P(it))[X]
  BY DEF AllTalk, Total, MapThenSumSet, MapThenFoldSet, Pick
<1> HIDE DEF P
<1>3. Solves(CHOOSE it : P(it), g, X)
  BY <1>1, SolutionExists
<1>4. Sum(g, X) = (CHOOSE it : P(it))[X]
  BY <1>3, SumIsIteration
<1> QED BY ONLY <1>2, <1>4

\* The loudest speaker has no more than all together.
LEMMA TalkSharesHold ==
    ASSUME NEW S \in SUBSET Meeting, NEW m \in DOMAIN DominanceView(S).points
    PROVE  /\ AtMost(DominanceView(S).points[m], <<1, 1>>)
           /\ CallType(m) \in DominanceView(S).byCallType
<1> DEFINE d == SpeakerDominance(S)
           X == Speakers(m)
           times == {TalkTime(m, who) : who \in X}
           all == AllTalk(m, X)
           g == [who \in X |-> TalkTime(m, who)]
<1>1. DominanceView(S).points = d /\ DominanceView(S).byCallType = {CallType(n) : n \in DOMAIN d}
  BY DEF DominanceView
<1>2. m \in S /\ X # {} /\ d[m] = <<Max(times), all>>
  BY <1>1 DEF SpeakerDominance, AllTalk
<1>3. m \in Meeting
  BY <1>2
<1>4. IsFiniteSet(X) /\ (\A who \in X : g[who] = TalkTime(m, who) /\ g[who] \in Nat)
      /\ DOMAIN g = X /\ g = [who \in X |-> g[who]] /\ times = {g[who] : who \in X}
  BY <1>3, TalkIsTyped
<1> HIDE DEF g, X
<1>5. all = Sum(g, X)
  BY <1>4, AllTalkIsSum
<1>6. IsFiniteSet(times) /\ times # {} /\ times \subseteq Int
  <2>1. IsFiniteSet({g[who] : who \in X})
    BY ONLY <1>4, ValuesAreFinite
  <2> QED BY <1>2, <1>4, <2>1
<1> HIDE DEF times, all
<1>7. Max(times) \in times
  BY <1>6, MaxIsIn
<1>8. Sum(g, X) \in Nat /\ \A who \in X : g[who] <= Sum(g, X)
  BY <1>4, SumBoundsParts
<1>9. Max(times) <= all /\ Max(times) \in Int /\ all \in Int
  BY <1>4, <1>5, <1>6, <1>7, <1>8
<1>10. AtMost(d[m], <<1, 1>>)
  BY <1>2, <1>9 DEF AtMost
<1>11. CallType(m) \in {CallType(n) : n \in DOMAIN d}
  BY <1>1
<1> QED BY <1>1, <1>10, <1>11

-----------------------------------------------------------------------------
(* Fractions, and the risk that is made of them.                           *)

\* A fraction with a positive denominator, and what it lies between.
Between(p, low, high) ==
    /\ p[1] \in Int /\ p[2] \in Nat /\ p[2] # 0
    /\ low * p[2] <= p[1] /\ p[1] <= high * p[2]

LEMMA TimesKeepsOrder ==
    ASSUME NEW a \in Int, NEW b \in Int, NEW k \in Nat, a <= b
    PROVE  a * k <= b * k /\ a * k \in Int /\ b * k \in Int
OBVIOUS

LEMMA TimesCancels ==
    ASSUME NEW a \in Int, NEW b \in Int, NEW k \in Nat, k # 0, a * k <= b * k
    PROVE  a <= b
OBVIOUS

LEMMA TimesIsPositive ==
    ASSUME NEW a \in Nat, NEW b \in Nat, a # 0, b # 0
    PROVE  a * b \in Nat /\ a * b # 0
OBVIOUS

\* The bounds of a sum are the sums of the bounds.
LEMMA BoundsAdd ==
    ASSUME NEW p, NEW q, NEW a \in Int, NEW b \in Int, NEW c \in Int, NEW d \in Int,
           Between(p, a, b), Between(q, c, d)
    PROVE  Between(FractionSum(p, q), a + c, b + d)
<1> DEFINE n == p[1]
           m == p[2]
           k == q[1]
           l == q[2]
<1>1. /\ n \in Int /\ m \in Nat /\ m # 0 /\ a * m <= n /\ n <= b * m
      /\ k \in Int /\ l \in Nat /\ l # 0 /\ c * l <= k /\ k <= d * l
  BY DEF Between
<1>2. FractionSum(p, q) = <<n * l + k * m, m * l>>
  BY DEF FractionSum
<1> HIDE DEF n, m, k, l
<1>3. /\ (a * m) * l <= n * l /\ n * l <= (b * m) * l
      /\ (c * l) * m <= k * m /\ k * m <= (d * l) * m
  BY <1>1, TimesKeepsOrder
<1>4. m * l \in Nat /\ m * l # 0
  BY <1>1, TimesIsPositive
<1>5. /\ (a * m) * l + (c * l) * m = (a + c) * (m * l)
      /\ (b * m) * l + (d * l) * m = (b + d) * (m * l)
  BY <1>1
<1>6. /\ n * l \in Int /\ k * m \in Int
      /\ (a * m) * l \in Int /\ (c * l) * m \in Int /\ (b * m) * l \in Int /\ (d * l) * m \in Int
  BY <1>1
<1>7. /\ (a * m) * l + (c * l) * m <= n * l + k * m
      /\ n * l + k * m <= (b * m) * l + (d * l) * m
      /\ n * l + k * m \in Int
  BY ONLY <1>3, <1>6
<1>8. /\ (a + c) * (m * l) <= n * l + k * m
      /\ n * l + k * m <= (b + d) * (m * l)
  BY ONLY <1>5, <1>7
<1> QED BY <1>2, <1>4, <1>7, <1>8 DEF Between

LEMMA AtMostIsOrder ==
    ASSUME NEW p, NEW q, NEW r,
           \A x \in {p, q, r} : x[1] \in Int /\ x[2] \in Nat /\ x[2] # 0
    PROVE  /\ AtMost(p, p) /\ (AtMost(p, q) \/ AtMost(q, p))
           /\ AtMost(p, q) /\ AtMost(q, r) => AtMost(p, r)
<1> DEFINE n == p[1]
           m == p[2]
           k == q[1]
           l == q[2]
           i == r[1]
           j == r[2]
<1>1. /\ n \in Int /\ m \in Nat /\ m # 0
      /\ k \in Int /\ l \in Nat /\ l # 0
      /\ i \in Int /\ j \in Nat /\ j # 0
  OBVIOUS
<1>2. /\ AtMost(p, p) <=> n * m <= n * m
      /\ AtMost(p, q) <=> n * l <= k * m
      /\ AtMost(q, p) <=> k * m <= n * l
      /\ AtMost(q, r) <=> k * j <= i * l
      /\ AtMost(p, r) <=> n * j <= i * m
  BY DEF AtMost
<1> HIDE DEF n, m, k, l, i, j
<1>3. n * m \in Int /\ n * l \in Int /\ k * m \in Int /\ k * j \in Int /\ i * l \in Int
      /\ n * j \in Int /\ i * m \in Int
  BY <1>1
<1>4. AtMost(p, p) /\ (AtMost(p, q) \/ AtMost(q, p))
  BY ONLY <1>2, <1>3
<1>5. ASSUME n * l <= k * m, k * j <= i * l PROVE n * j <= i * m
  <2>1. (n * l) * j <= (k * m) * j
    BY ONLY <1>1, <1>3, <1>5, TimesKeepsOrder
  <2>2. (k * j) * m <= (i * l) * m
    BY ONLY <1>1, <1>3, <1>5, TimesKeepsOrder
  <2>3. (n * l) * j = (n * j) * l /\ (k * m) * j = (k * j) * m /\ (i * l) * m = (i * m) * l
    BY ONLY <1>1
  <2>4. (n * j) * l \in Int /\ (k * j) * m \in Int /\ (i * m) * l \in Int
    BY ONLY <1>1
  <2>5. (n * j) * l <= (i * m) * l
    BY ONLY <2>1, <2>2, <2>3, <2>4
  <2> QED BY ONLY <1>1, <1>3, <2>5, TimesCancels
<1> QED BY <1>2, <1>4, <1>5

\* A finite set of them has a least one.
LEMMA LeastExists ==
    ASSUME NEW D, IsFiniteSet(D), D # {},
           \A x \in D : x[1] \in Int /\ x[2] \in Nat /\ x[2] # 0
    PROVE  \E d \in D : \A e \in D : AtMost(d, e)
<1> DEFINE Least(s) == \E d \in s : \A e \in s : AtMost(d, e)
           Bad == {s \in SUBSET D : s # {} /\ ~ Least(s)}
<1>1. ASSUME Bad # {} PROVE FALSE
  <2>1. PICK T \in Bad : \A U \in SUBSET T : U # T => U \notin Bad
    <3>1. Bad \in SUBSET SUBSET D
      OBVIOUS
    <3> HIDE DEF Bad
    <3> QED BY <1>1, <3>1, SmallestSubset
  <2>2. T \in SUBSET D /\ T # {} /\ ~ Least(T)
    OBVIOUS
  <2>3. Pick(T) \in T /\ Pick(T) \in D
    BY <2>2, PickIsIn
  <2> DEFINE x == Pick(T)
             U == T \ {x}
  <2>4. CASE U = {}
    <3>1. AtMost(x, x)
      BY <2>3, AtMostIsOrder
    <3>2. \A e \in T : e = x
      BY <2>4
    <3> QED BY <2>2, <2>3, <3>1, <3>2
  <2>5. CASE U # {}
    <3>1. U \in SUBSET T /\ U # T /\ U \in SUBSET D
      BY <2>2, <2>3
    <3>2. Least(U)
      BY <2>1, <2>5, <3>1
    <3>3. PICK y \in U : \A e \in U : AtMost(y, e)
      BY <3>2
    <3>4. y \in D /\ y \in T
      BY <3>1
    <3> HIDE DEF x
    <3>5. AtMost(x, x) /\ (AtMost(x, y) \/ AtMost(y, x))
      BY <2>3, <3>4, AtMostIsOrder DEF x
    <3>6. AtMost(x, y) => \A e \in U : AtMost(x, e)
      <4> SUFFICES ASSUME AtMost(x, y), NEW e \in U PROVE AtMost(x, e)
        OBVIOUS
      <4>1. e \in D /\ x \in D /\ AtMost(y, e)
        BY <2>3, <3>1, <3>3 DEF x
      <4> QED BY <3>4, <4>1, AtMostIsOrder
    <3>7. \A e \in T : e = x \/ e \in U
      OBVIOUS
    <3>8. x \in T
      BY <2>3 DEF x
    <3> QED BY <2>2, <3>3, <3>4, <3>5, <3>6, <3>7, <3>8
  <2> QED BY <2>4, <2>5
<1>2. D \notin Bad
  BY <1>1
<1> QED BY <1>2

\* A sum of labels is no more than they are, on either side of zero.
LEMMA LabelsAreBounded ==
    ASSUME NEW S, IsFiniteSet(S), NEW g, \A x \in S : g[x] \in {-1, 0, 1}
    PROVE  Sum(g, S) \in Int /\ -Cardinality(S) <= Sum(g, S) /\ Sum(g, S) <= Cardinality(S)
<1> DEFINE Bad == {s \in SUBSET S : ~ (Sum(g, s) \in Int /\ -Cardinality(s) <= Sum(g, s)
                                       /\ Sum(g, s) <= Cardinality(s))}
<1>1. ASSUME Bad # {} PROVE FALSE
  <2>1. PICK T \in Bad : \A U \in SUBSET T : U # T => U \notin Bad
    <3>1. Bad \in SUBSET SUBSET S
      OBVIOUS
    <3> HIDE DEF Bad
    <3> QED BY <1>1, <3>1, SmallestSubset
  <2> DEFINE x == Pick(T)
             U == T \ {x}
  <2>2. T \in SUBSET S /\ IsFiniteSet(T)
    BY FS_Subset
  <2>3. T # {}
    <3>1. Sum(g, {}) = 0
      BY SumOfNone
    <3>2. Cardinality({}) = 0
      BY FS_EmptySet
    <3>3. -0 <= 0 /\ 0 <= 0 /\ 0 \in Int
      OBVIOUS
    <3> QED BY <3>1, <3>2, <3>3
  <2>4. x \in T /\ x \in S /\ g[x] \in {-1, 0, 1}
    BY <2>2, <2>3, PickIsIn
  <2>5. U \in SUBSET S /\ U \in SUBSET T /\ U # T
    BY <2>2, <2>4
  <2>6. Sum(g, U) \in Int /\ -Cardinality(U) <= Sum(g, U) /\ Sum(g, U) <= Cardinality(U)
    BY <2>1, <2>5
  <2>7. Cardinality(U) = Cardinality(T) - 1 /\ Cardinality(T) \in Nat
    BY <2>2, <2>4, FS_RemoveElement, FS_CardinalityType
  <2>8. Sum(g, T) = g[x] + Sum(g, U)
    BY <2>2, <2>3, SumEquation
  <2>9. T \in Bad
    OBVIOUS
  <2> HIDE DEF U, x
  <2>10. /\ Sum(g, T) \in Int
         /\ -Cardinality(T) <= Sum(g, T)
         /\ Sum(g, T) <= Cardinality(T)
    BY ONLY <2>4, <2>6, <2>7, <2>8
  <2> QED BY <2>9, <2>10
<1>2. S \notin Bad
  BY <1>1
<1> QED BY <1>2

\* The mean of a bucket is a mean of labels.
LEMMA BucketIsBetween ==
    ASSUME NEW labels \in Seq({-1, 0, 1}), NEW b
    PROVE  Between(Bucket(labels, b), -1, 1)
<1> DEFINE inside == {i \in DOMAIN labels : (NBuckets * (i - 1)) \div Len(labels) = b}
           n == Sum(labels, inside)
           c == Cardinality(inside)
<1>1. /\ DOMAIN labels = 1..Len(labels) /\ Len(labels) \in Nat
      /\ \A i \in DOMAIN labels : labels[i] \in {-1, 0, 1}
  OBVIOUS
<1>2. IsFiniteSet(DOMAIN labels)
  BY <1>1, FS_Interval
<1>3. inside \subseteq DOMAIN labels
  OBVIOUS
<1>4. Bucket(labels, b) = IF inside = {} THEN <<0, 1>> ELSE <<n, c>>
  BY DEF Bucket, Sum
<1> HIDE DEF inside
<1>5. IsFiniteSet(inside)
  BY <1>2, <1>3, FS_Subset
<1>6. n \in Int /\ -c <= n /\ n <= c
  <2>1. \A i \in inside : labels[i] \in {-1, 0, 1}
    BY <1>1, <1>3
  <2> QED BY <1>5, <2>1, LabelsAreBounded
<1>7. c \in Nat /\ (inside # {} => c # 0)
  BY <1>5, FS_CardinalityType, FS_EmptySet
<1> HIDE DEF n, c
<1>8. Between(<<0, 1>>, -1, 1)
  BY DEF Between
<1>9. c # 0 => Between(<<n, c>>, -1, 1)
  BY <1>6, <1>7 DEF Between
<1> QED BY <1>4, <1>7, <1>8, <1>9

LEMMA DeltasAreBetween ==
    ASSUME NEW m \in Meeting
    PROVE  /\ IsFiniteSet(Deltas(m)) /\ Deltas(m) # {}
           /\ \A d \in Deltas(m) : Between(d, -2, 2)
<1> DEFINE labels == Content[m].labels
           f(b) == FractionSum(Bucket(labels, b),
                       <<-Bucket(labels, b - 1)[1], Bucket(labels, b - 1)[2]>>)
           n == NBuckets - 1
           D == 1..n
           h == [b \in D |-> f(b)]
<1>1. labels \in Seq({-1, 0, 1})
  BY MeetingsAreTyped DEF Kind
<1>2. Deltas(m) = {f(b) : b \in D}
  BY DEF Deltas
<1> HIDE DEF labels
<1>3. ASSUME NEW b PROVE Between(f(b), -2, 2)
  <2> DEFINE p == Bucket(labels, b - 1)
             q == <<-p[1], p[2]>>
             after == Bucket(labels, b)
  <2>1. Between(p, -1, 1) /\ Between(after, -1, 1)
    BY <1>1, BucketIsBetween
  <2> HIDE DEF p, after
  <2>2. Between(q, -1, 1)
    BY <2>1 DEF Between
  <2> HIDE DEF q
  <2>3. Between(FractionSum(after, q), -1 + -1, 1 + 1)
    BY <2>1, <2>2, BoundsAdd
  <2>4. -1 + -1 = -2 /\ 1 + 1 = 2
    OBVIOUS
  <2> QED BY <2>3, <2>4 DEF q, p, after
<1> HIDE DEF f
<1>4. n = 4
  BY DEF NBuckets
<1>5. 1 \in D /\ IsFiniteSet(D)
  <2>1. 1 \in D /\ 1 \in Int /\ n \in Int
    BY <1>4
  <2> HIDE DEF n
  <2> QED BY <2>1, FS_Interval
<1>6. DOMAIN h = D /\ h = [b \in D |-> h[b]] /\ Deltas(m) = {h[b] : b \in D}
  BY <1>2
<1> HIDE DEF h, D
<1>7. IsFiniteSet(Deltas(m))
  BY <1>5, <1>6, ValuesAreFinite
<1> QED BY <1>2, <1>3, <1>5, <1>7

\* The largest drop is the drop of some bucket.
LEMMA DropIsBetween ==
    ASSUME NEW m \in Meeting
    PROVE  Between(MaxDrop(m), -2, 2)
<1> DEFINE D == Deltas(m)
           Least(d) == \A e \in D : AtMost(d, e)
<1>1. IsFiniteSet(D) /\ D # {} /\ \A d \in D : Between(d, -2, 2)
  BY DeltasAreBetween
<1>2. MaxDrop(m) = CHOOSE d \in D : Least(d)
  BY DEF MaxDrop
<1> HIDE DEF D
<1>3. \A d \in D : d[1] \in Int /\ d[2] \in Nat /\ d[2] # 0
  BY <1>1 DEF Between
<1>4. \E d \in D : Least(d)
  BY <1>1, <1>3, LeastExists
<1> HIDE DEF Least
<1>5. MaxDrop(m) \in D
  BY <1>2, <1>4
<1> QED BY <1>1, <1>5

\* The drops of a set of meetings, summed.
DropSum(S) == FoldSet(LAMBDA m, sum : FractionSum(MaxDrop(m), sum), <<0, 1>>, S)

LEMMA DropsAreFolded ==
    ASSUME NEW S \in SUBSET Meeting
    PROVE  \E it : /\ DropSum(S) = it[S]
                   /\ Folds("fractions", it, [m \in S |-> MaxDrop(m)], S)
<1> DEFINE g == [m \in S |-> MaxDrop(m)]
           P(it) == it = [s \in SUBSET S |-> IF s = {} THEN <<0, 1>>
                             ELSE FractionSum(MaxDrop(Pick(s)), it[s \ {Pick(s)}])]
<1>1. \A it : Folds("fractions", it, g, S) <=> P(it)
  <2>1. \A m \in S : g[m] = MaxDrop(m)
    OBVIOUS
  <2>2. \A s \in SUBSET S : s # {} => g[Pick(s)] = MaxDrop(Pick(s))
    BY <2>1, PickIsIn
  <2> HIDE DEF g
  <2> QED BY <2>2 DEF Folds, Start, Step
<1>2. DropSum(S) = (CHOOSE it : P(it))[S]
  BY DEF DropSum, FoldSet, MapThenFoldSet, Pick
<1> HIDE DEF P, g
<1>3. IsFiniteSet(S)
  BY MeetingsAreFinite, FS_Subset
<1>4. P(CHOOSE it : P(it))
  BY <1>1, <1>3, FoldExists
<1>5. Folds("fractions", CHOOSE it : P(it), g, S)
  BY <1>1, <1>4
<1> QED BY <1>2, <1>5 DEF g

\* Each of them is between -2 and 2.
LEMMA DropsAreBetween ==
    ASSUME NEW S \in SUBSET Meeting
    PROVE  Between(DropSum(S), -2 * Cardinality(S), 2 * Cardinality(S))
<1> DEFINE g == [m \in S |-> MaxDrop(m)]
<1>1. IsFiniteSet(S)
  BY MeetingsAreFinite, FS_Subset
<1>2. PICK it : DropSum(S) = it[S] /\ Folds("fractions", it, g, S)
  BY DropsAreFolded
<1>3. \A m \in S : Between(g[m], -2, 2)
  BY DropIsBetween
<1> HIDE DEF g
<1> DEFINE Good(s) == Between(it[s], -2 * Cardinality(s), 2 * Cardinality(s))
           Bad == {s \in SUBSET S : ~ Good(s)}
<1>4. ASSUME Bad # {} PROVE FALSE
  <2>1. PICK T \in Bad : \A U \in SUBSET T : U # T => U \notin Bad
    <3>1. Bad \in SUBSET SUBSET S
      OBVIOUS
    <3> HIDE DEF Bad
    <3> QED BY <1>1, <1>4, <3>1, SmallestSubset
  <2> DEFINE x == Pick(T)
             U == T \ {x}
  <2>2. T \in SUBSET S /\ IsFiniteSet(T) /\ ~ Good(T)
    BY <1>1, FS_Subset
  <2>3. T # {}
    <3>1. it[{}] = <<0, 1>>
      BY <1>2 DEF Folds, Start
    <3>2. Cardinality({}) = 0
      BY FS_EmptySet
    <3>3. Between(<<0, 1>>, -2 * 0, 2 * 0)
      BY DEF Between
    <3> QED BY <2>2, <3>1, <3>2, <3>3
  <2>4. x \in T /\ Between(g[x], -2, 2)
    BY <1>3, <2>2, <2>3, PickIsIn
  <2>5. U \in SUBSET S /\ U \in SUBSET T /\ U # T
    BY <2>2, <2>4
  <2>6. Good(U)
    BY <2>1, <2>5
  <2>7. it[T] = FractionSum(g[x], it[U])
    BY <1>2, <2>2, <2>3 DEF Folds, Step
  <2>8. Cardinality(U) = Cardinality(T) - 1 /\ Cardinality(T) \in Nat
    BY <2>2, <2>4, FS_RemoveElement, FS_CardinalityType
  <2> DEFINE c == Cardinality(T)
             k == Cardinality(U)
  <2> HIDE DEF U, x
  <2>9. -2 * k \in Int /\ 2 * k \in Int /\ -2 + -2 * k = -2 * c /\ 2 + 2 * k = 2 * c
    BY ONLY <2>8
  <2>10. Between(FractionSum(g[x], it[U]), -2 + -2 * k, 2 + 2 * k)
    BY <2>4, <2>6, <2>9, BoundsAdd
  <2> QED BY <2>2, <2>7, <2>9, <2>10
<1>5. S \notin Bad
  BY <1>4
<1> QED BY <1>2, <1>5

LEMMA PairIsFinite ==
    ASSUME NEW a \in Int
    PROVE  IsFiniteSet({0, a}) /\ {0, a} # {} /\ {0, a} \subseteq Int
<1>1. IsFiniteSet({0}) /\ {0, a} = {0} \cup {a}
  BY FS_Singleton
<1>2. IsFiniteSet({0} \cup {a})
  BY <1>1, FS_AddElement
<1> QED BY <1>1, <1>2

\* The three parts of the risk are from 0 to 1.
LEMMA PivotIsShare ==
    ASSUME NEW S \in SUBSET Meeting, NEW row
    PROVE  Between(PivotNorm(row, S), 0, 1)
<1> DEFINE spoken == Spoken(Of(row.customer, S))
           drop == DropSum(spoken)
           c == Cardinality(spoken)
           H == {0, -drop[1]}
<1>1. PivotNorm(row, S) = IF spoken = {} THEN <<0, 1>> ELSE <<Max(H), 2 * drop[2] * c>>
  BY DEF PivotNorm, DropSum
<1>2. spoken \in SUBSET Meeting
  BY DEF Spoken, Of
<1> HIDE DEF spoken
<1>3. Between(drop, -2 * c, 2 * c)
  BY <1>2, DropsAreBetween
<1>4. c \in Nat /\ (spoken # {} => c # 0)
  BY <1>2, MeetingsAreFinite, FS_Subset, FS_CardinalityType, FS_EmptySet
<1> HIDE DEF drop, c
<1>5. drop[1] \in Int /\ drop[2] \in Nat /\ drop[2] # 0
      /\ (-2 * c) * drop[2] <= drop[1]
  BY <1>3 DEF Between
<1>6. IsFiniteSet(H) /\ H # {} /\ H \subseteq Int
  BY <1>5, PairIsFinite
<1>7. Max(H) \in H /\ 0 <= Max(H)
  BY <1>6, MaxIsIn
<1>8. drop[2] * c \in Nat /\ (c # 0 => drop[2] * c # 0)
  BY <1>4, <1>5, TimesIsPositive
<1>9. /\ 2 * drop[2] * c = 2 * (drop[2] * c)
      /\ (-2 * c) * drop[2] = -(2 * (drop[2] * c))
  BY <1>4, <1>5
<1>10. Max(H) \in Int /\ Max(H) <= 2 * (drop[2] * c)
  BY <1>5, <1>7, <1>8, <1>9
<1> HIDE DEF H
<1>11. c # 0 => Between(<<Max(H), 2 * drop[2] * c>>, 0, 1)
  BY <1>7, <1>8, <1>9, <1>10 DEF Between
<1>12. Between(<<0, 1>>, 0, 1)
  BY DEF Between
<1> QED BY <1>1, <1>4, <1>11, <1>12

LEMMA GapIsShare ==
    ASSUME NEW row, row.average[1] \in Int, row.average[2] \in Nat, row.average[2] # 0,
           row.average[2] <= row.average[1]
    PROVE  Between(SentimentGap(row), 0, 1)
<1> DEFINE s == row.average[1]
           n == row.average[2]
           H == {0, 3 * n - s}
<1>1. s \in Int /\ n \in Nat /\ n # 0 /\ n <= s
  OBVIOUS
<1>2. SentimentGap(row) = <<Max(H), 2 * n>>
  BY DEF SentimentGap
<1> HIDE DEF s, n
<1>3. IsFiniteSet(H) /\ H # {} /\ H \subseteq Int
  BY <1>1, PairIsFinite
<1>4. Max(H) \in H /\ 0 <= Max(H)
  BY <1>3, MaxIsIn
<1>5. Max(H) \in Int /\ Max(H) <= 2 * n
  BY <1>1, <1>4
<1> HIDE DEF H
<1> QED BY <1>1, <1>2, <1>4, <1>5 DEF Between

LEMMA CustomersAreFinite ==
    ASSUME NEW S \in SUBSET Meeting
    PROVE  IsFiniteSet(Customers(S))
<1> DEFINE T == {m \in S : CustomerOf(m) # {}}
           h == [m \in T |-> CHOOSE c \in CustomerOf(m) : TRUE]
<1>1. IsFiniteSet(T)
  BY MeetingsAreFinite, FS_Subset
<1>2. \A m \in T : h[m] \in CustomerOf(m) /\ \A c \in CustomerOf(m) : c = h[m]
  BY CustomersAreKnown
<1>3. DOMAIN h = T /\ h = [m \in T |-> h[m]] /\ Customers(S) = {h[m] : m \in T}
  <2>1. DOMAIN h = T /\ h = [m \in T |-> h[m]]
    OBVIOUS
  <2> HIDE DEF h
  <2>2. ASSUME NEW c \in Customers(S) PROVE c \in {h[m] : m \in T}
    BY <1>2 DEF Customers
  <2>3. ASSUME NEW m \in T PROVE h[m] \in Customers(S)
    BY <1>2 DEF Customers
  <2> QED BY <2>1, <2>2, <2>3
<1> HIDE DEF h, T
<1> QED BY <1>1, <1>3, ValuesAreFinite

LEMMA ChurnIsShare ==
    ASSUME NEW S \in SUBSET Meeting, NEW row \in CustomerHealth(S)
    PROVE  Between(ChurnNorm(row, S), 0, 1)
<1> DEFINE K == Customers(S)
           h == [c \in K |-> HealthRow(c, S)]
           X == {r.churn : r \in CustomerHealth(S)}
           f == [r \in CustomerHealth(S) |-> r.churn]
           H == {1} \cup X
<1>1. IsFiniteSet(CustomerHealth(S))
  <2>1. IsFiniteSet(K) /\ DOMAIN h = K /\ h = [c \in K |-> h[c]]
        /\ CustomerHealth(S) = {h[c] : c \in K}
    BY CustomersAreFinite, HealthRowsAreThose DEF Customers
  <2> HIDE DEF h, K
  <2> QED BY <2>1, ValuesAreFinite
<1>2. IsFiniteSet(X)
  <2>1. DOMAIN f = CustomerHealth(S) /\ f = [r \in CustomerHealth(S) |-> f[r]]
        /\ X = {f[r] : r \in CustomerHealth(S)}
    OBVIOUS
  <2> HIDE DEF f, X
  <2> QED BY <1>1, <2>1, ValuesAreFinite
<1>3. ASSUME NEW r \in CustomerHealth(S) PROVE r.churn \in Nat
  <2>1. PICK c : r = HealthRow(c, S)
    BY HealthRowsAreThose
  <2> DEFINE T == Of(c, S)
             g == [m \in T |-> Content[m].signals]
  <2>2. IsFiniteSet(T) /\ \A m \in T : g[m] = Content[m].signals /\ g[m] \in Nat
    BY MeetingsAreFinite, MeetingsAreTyped, FS_Subset DEF Of
  <2> HIDE DEF g, T
  <2>3. Signals(T) \in Nat
    BY <2>2, SignalsAreSum, SumBoundsParts
  <2> QED BY <2>1, <2>3 DEF HealthRow, T
<1>4. X \subseteq Nat /\ row.churn \in X
  BY <1>3
<1>5. ChurnNorm(row, S) = <<row.churn, Max(H)>>
  BY DEF ChurnNorm
<1> HIDE DEF X
<1>6. IsFiniteSet(H) /\ H # {} /\ H \subseteq Int /\ 1 \in H /\ row.churn \in H
  <2>1. IsFiniteSet({1})
    BY FS_Singleton
  <2>2. IsFiniteSet(H)
    BY <1>2, <2>1, FS_Union
  <2> QED BY <1>4, <2>2
<1>7. Max(H) \in Int /\ 1 <= Max(H) /\ row.churn <= Max(H)
  BY <1>6, MaxIsIn
<1> HIDE DEF H
<1> DEFINE n == Max(H)
           c == row.churn
<1>8. ChurnNorm(row, S) = <<c, n>>
  BY <1>5
<1>9. c \in Nat /\ n \in Int /\ 1 <= n /\ c <= n
  BY <1>4, <1>7
<1> HIDE DEF n, c
<1> QED BY <1>8, <1>9 DEF Between

\* A weight in tenths times a share.
LEMMA WeightBounds ==
    ASSUME NEW w \in Nat, NEW p, Between(p, 0, 1)
    PROVE  Between(<<w * p[1], p[2]>>, 0, w)
<1> DEFINE n == p[1]
           m == p[2]
<1>1. n \in Int /\ m \in Nat /\ m # 0 /\ 0 <= n /\ n <= m
  BY DEF Between
<1> HIDE DEF n, m
<1>2. 0 * w <= n * w /\ n * w <= m * w
  BY <1>1, TimesKeepsOrder
<1>3. w * n \in Int /\ w * n = n * w /\ w * m = m * w /\ 0 * w = 0 /\ 0 * m = 0
  BY <1>1
<1>4. 0 * m <= w * n /\ w * n <= w * m
  BY ONLY <1>2, <1>3
<1>5. Between(<<w * n, m>>, 0, w)
  BY <1>1, <1>3, <1>4 DEF Between
<1> QED BY <1>5 DEF n, m

\* Tenths in thousandths, rounded: up to ten are up to 1000.
Rounded(r) == (200 * r[1] + r[2]) \div (2 * r[2])

LEMMA Thousandths ==
    ASSUME NEW r, NEW n \in Nat, n <= 10, Between(r, 0, n)
    PROVE  Rounded(r) \in 0..1000
<1> DEFINE k == r[1]
           d == r[2]
<1>1. k \in Int /\ d \in Nat /\ d # 0 /\ 0 * d <= k /\ k <= n * d
  BY DEF Between
<1> HIDE DEF k, d
<1>2. 0 <= k /\ k <= 10 * d
  <2>1. n * d <= 10 * d /\ n * d \in Int /\ 0 * d = 0
    BY <1>1, TimesKeepsOrder
  <2> QED BY <1>1, <2>1
<1> DEFINE x == 200 * k + d
           y == 2 * d
<1>3. x \in Nat /\ y \in Nat /\ y # 0 /\ x < 1001 * y
  BY <1>1, <1>2
<1> HIDE DEF x, y
<1>4. x \div y \in Nat /\ x \div y < 1001
  <2> DEFINE q == x \div y
             z == x % y
  <2>1. q \in Int /\ z \in Int /\ x = y * q + z /\ 0 <= z /\ z < y
    BY <1>3
  <2> HIDE DEF q, z
  <2>2. y * q <= x
    BY <1>3, <2>1
  <2>3. q < 1001
    <3>1. CASE 1001 <= q
      <4>1. 1001 * y <= q * y /\ q * y = y * q
        BY <1>3, <2>1, <3>1, TimesKeepsOrder
      <4> QED BY <1>3, <2>1, <2>2, <4>1
    <3> QED BY <2>1, <3>1
  <2>4. 0 <= q
    <3>1. CASE q <= -1
      <4>1. q * y <= -1 * y /\ q * y = y * q
        BY <1>3, <2>1, <3>1, TimesKeepsOrder
      <4> QED BY <1>3, <2>1, <4>1
    <3> QED BY <2>1, <3>1
  <2> QED BY <2>1, <2>3, <2>4 DEF q
<1>5. x \div y \in 0..1000
  BY <1>4
<1> QED BY <1>5 DEF Rounded, x, y, k, d

\* "All normalized 0-1", and so is what they are weighted to.
LEMMA RiskIsShare ==
    ASSUME NEW S \in SUBSET Meeting, NEW row \in CustomerHealth(S), WeightsAreShares,
           row.average[2] > 0, AtMost(<<1, 1>>, row.average)
    PROVE  RiskScore(row, S) \in 0..1000
<1> DEFINE v == RiskParams.sentiment
           w == RiskParams.signals
           z == RiskParams.pivots
           gap == SentimentGap(row)
           churn == ChurnNorm(row, S)
           pivot == PivotNorm(row, S)
           risk == FractionSum(FractionSum(<<v * gap[1], gap[2]>>, <<w * churn[1], churn[2]>>),
                               <<z * pivot[1], pivot[2]>>)
<1>1. v \in Nat /\ w \in Nat /\ z \in Nat /\ v + w + z <= 10
  BY DEF WeightsAreShares
<1>2. row.average[1] \in Int /\ row.average[2] \in Nat
  <2>1. PICK c : row = HealthRow(c, S)
    BY HealthRowsAreThose
  <2> DEFINE T == Scored(Of(c, S))
             g == [m \in T |-> Head(Content[m].sentiment)]
  <2>2. IsFiniteSet(T) /\ \A m \in T : g[m] = Head(Content[m].sentiment) /\ g[m] \in Int
    <3>1. T \in SUBSET Meeting /\ \A m \in T : Content[m].sentiment # <<>>
      BY DEF Scored, Of
    <3>2. \A m \in T : g[m] = Head(Content[m].sentiment) /\ g[m] \in 0..5
      BY <3>1, MeetingsAreTyped
    <3> QED BY <3>1, <3>2, MeetingsAreFinite, FS_Subset
  <2> HIDE DEF g
  <2>3. Average(Of(c, S)) = <<Sum(g, T), Cardinality(T)>>
    BY <2>2, AverageIsSum
  <2>4. Sum(g, T) \in Int /\ Cardinality(T) \in Nat
    <3> HIDE DEF T
    <3> QED BY <2>2, SumIsInt, FS_CardinalityType
  <2> QED BY <2>1, <2>3, <2>4 DEF HealthRow
<1>3. row.average[2] # 0 /\ row.average[2] <= row.average[1]
  BY <1>2 DEF AtMost
<1>4. Between(gap, 0, 1) /\ Between(churn, 0, 1) /\ Between(pivot, 0, 1)
  BY <1>2, <1>3, GapIsShare, ChurnIsShare, PivotIsShare
<1>5. RiskScore(row, S) = Rounded(risk)
  BY DEF RiskScore, Rounded
<1> HIDE DEF v, w, z, gap, churn, pivot
<1>6. /\ Between(<<v * gap[1], gap[2]>>, 0, v)
      /\ Between(<<w * churn[1], churn[2]>>, 0, w)
      /\ Between(<<z * pivot[1], pivot[2]>>, 0, z)
  BY <1>1, <1>4, WeightBounds
<1>7. Between(FractionSum(<<v * gap[1], gap[2]>>, <<w * churn[1], churn[2]>>), 0 + 0, v + w)
  BY <1>1, <1>6, BoundsAdd
<1>8. Between(risk, 0 + 0 + 0, v + w + z)
  <2>1. 0 + 0 \in Int /\ v + w \in Int
    BY <1>1
  <2> QED BY <1>1, <1>6, <1>7, <2>1, BoundsAdd
<1>9. 0 + 0 + 0 = 0 /\ v + w + z \in Nat
  BY <1>1
<1> HIDE DEF risk
<1> DEFINE n == v + w + z
<1>10. Between(risk, 0, n) /\ n \in Nat /\ n <= 10
  BY <1>1, <1>8, <1>9
<1> HIDE DEF n
<1> QED BY <1>5, <1>10, Thousandths

LEMMA ViewsHold ==
    ASSUME NEW S \in SUBSET Meeting
    PROVE  ViewsOf(S)
<1>1. SharesAreBounded(S)
  BY RiskIsShare, TalkSharesHold DEF SharesAreBounded
<1> QED BY <1>1, BreakdownsHold, FiguresHold, CustomersHold DEF ViewsOf
=============================================================================
