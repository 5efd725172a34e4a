--------------------------- MODULE NaturalLemmas ---------------------------
(***************************************************************************)
(* A set of natural numbers that is not empty has a least member: what the *)
(* other proofs do their inductions with.  And what a fold over a finite   *)
(* set comes to, of which sums and products are made.                      *)
(***************************************************************************)
EXTENDS Integers, FiniteSets, FiniteSetsExt, Functions, FiniteSetTheorems, WellFoundedInduction, TLAPS

\* Whatever is not true of all numbers is not true of a least one.
LEMMA LeastNumber ==
    ASSUME NEW S \in SUBSET Nat, S # {}
    PROVE  \E x \in S : \A y \in S : x <= y
<1> DEFINE R == {ss \in Nat \X Nat : ss[1] < ss[2]}
<1>1. IsWellFoundedOn(R, Nat)
  BY NatLessThanWellFounded DEF OpToRel
<1>2. \A x, y \in Nat : y < x => <<y, x>> \in R
  OBVIOUS
<1> HIDE DEF R
<1>3. \A Z : Z \subseteq Nat /\ Z # {} => \E x \in Z : \A y \in Z : ~(<<y, x>> \in R)
  BY <1>1, WFMin, Zenon
<1>4. PICK x \in S : \A y \in S : ~(<<y, x>> \in R)
  BY <1>3
<1>5. x \in Nat /\ S \subseteq Nat
  OBVIOUS
<1>6. ASSUME NEW y \in S, y < x PROVE FALSE
  <2>1. <<y, x>> \in R
    BY <1>2, <1>5, <1>6
  <2>q. QED BY <1>4, <2>1
<1>q. QED BY <1>5, <1>6

\* And a bounded one has a greatest.
LEMMA GreatestNumber ==
    ASSUME NEW n \in Nat, NEW S \in SUBSET (0..n), S # {}
    PROVE  \E x \in S : \A y \in S : x >= y
<1> DEFINE distances == {n - x : x \in S}
<1>1. distances \in SUBSET Nat /\ distances # {}
  OBVIOUS
<1>2. PICK d \in distances : \A e \in distances : d <= e
  <2> HIDE DEF distances
  <2>q. QED BY <1>1, LeastNumber
<1>3. PICK x \in S : d = n - x
  BY <1>2
<1>4. \A y \in S : n - y \in distances
  OBVIOUS
<1> HIDE DEF distances
<1>5. ASSUME NEW y \in S PROVE x >= y
  BY <1>2, <1>3, <1>4
<1>q. QED BY <1>5

-----------------------------------------------------------------------------
(***************************************************************************)
(* Folds over a finite set: one member is taken at a time, until none is   *)
(* left.                                                                   *)
(***************************************************************************)
Picked(s) == CHOOSE x \in s : TRUE
Rest(s) == s \ {Picked(s)}

LEMMA RestIsSmaller ==
    ASSUME NEW s, IsFiniteSet(s), s # {}
    PROVE  /\ Picked(s) \in s /\ Rest(s) \subseteq s /\ IsFiniteSet(Rest(s)) /\ s = Rest(s) \cup {Picked(s)}
           /\ Cardinality(s) \in Nat /\ Cardinality(Rest(s)) \in Nat
           /\ Cardinality(Rest(s)) = Cardinality(s) - 1
<1>1. Picked(s) \in s
  BY DEF Picked
<1>2. IsFiniteSet(Rest(s)) /\ Cardinality(Rest(s)) = Cardinality(s) - 1
  BY <1>1, FS_RemoveElement DEF Rest
<1>q. QED BY <1>1, <1>2, FS_CardinalityType DEF Rest

\* What is true of the rest of a set only if it is true of the set is true of all subsets.
Inductive(S, T) ==
    /\ T \in SUBSET SUBSET S /\ {} \in T
    /\ \A s \in SUBSET S : s # {} /\ Rest(s) \in T => s \in T

LEMMA SubsetsInduct ==
    ASSUME NEW S, IsFiniteSet(S), NEW T, Inductive(S, T)
    PROVE  T = SUBSET S
<1> USE DEF Inductive
<1>1. \A s \in SUBSET S : IsFiniteSet(s) /\ Cardinality(s) \in Nat
  BY FS_Subset, FS_CardinalityType
<1> DEFINE sizes == {n \in Nat : \E s \in SUBSET S : s \notin T /\ Cardinality(s) = n}
<1>2. ASSUME sizes # {} PROVE FALSE
  <2>1. PICK n \in sizes : \A m \in sizes : n <= m
    <3> HIDE DEF sizes
    <3>1. sizes \in SUBSET Nat
      BY DEF sizes
    <3>q. QED BY <1>2, <3>1, LeastNumber
  <2>2. PICK s \in SUBSET S : s \notin T /\ Cardinality(s) = n
    BY <2>1
  <2>3. s # {} /\ Rest(s) \notin T /\ Rest(s) \in SUBSET S
    <3>1. s # {}
      BY <2>2
    <3>2. Rest(s) \in SUBSET S
      BY DEF Rest
    <3>q. QED BY <2>2, <3>1, <3>2
  <2>4. Cardinality(Rest(s)) \in Nat /\ Cardinality(Rest(s)) = n - 1
    BY <1>1, <2>2, <2>3, RestIsSmaller
  <2>5. Cardinality(Rest(s)) \in sizes
    BY <2>3, <2>4
  <2>q. QED BY <2>1, <2>4, <2>5
<1>3. \A s \in SUBSET S : s \in T
  BY <1>1, <1>2
<1>q. QED BY <1>3

\* How a value is made of a member and of the value of the rest, and a fold made so.
StaysIn(S, V, base, step) == base \in V /\ \A x \in S : \A v \in V : step[<<x, v>>] \in V
IsFold(h, S, V, base, step) ==
    /\ h \in [SUBSET S -> V] /\ h[{}] = base
    /\ \A s \in SUBSET S : s # {} => h[s] = step[<<Picked(s), h[Rest(s)]>>]

\* A step for every member and every value so far makes a fold.
LEMMA FoldExists ==
    ASSUME NEW S, IsFiniteSet(S), NEW V, NEW base, NEW step, StaysIn(S, V, base, step)
    PROVE  \E h : IsFold(h, S, V, base, step)
<1> USE DEF StaysIn
<1> DEFINE Of(n) == {s \in SUBSET S : Cardinality(s) <= n}
           FoldTo(h, n) == /\ h \in [SUBSET S -> V] /\ h[{}] = base
                           /\ \A s \in Of(n) : s # {} => h[s] = step[<<Picked(s), h[Rest(s)]>>]
           N == {n \in Nat : ~ \E h : FoldTo(h, n)}
<1>1. \A s \in SUBSET S : /\ IsFiniteSet(s) /\ Cardinality(s) \in Nat
                          /\ s # {} => Picked(s) \in S /\ Rest(s) \in SUBSET S /\ Cardinality(Rest(s)) = Cardinality(s) - 1
  BY FS_Subset, FS_CardinalityType, RestIsSmaller
<1>2. \A s \in SUBSET S : Cardinality(s) = 0 <=> s = {}
  BY <1>1, FS_EmptySet
<1>3. 0 \notin N
  <2> DEFINE h == [s \in SUBSET S |-> base]
  <2>1. FoldTo(h, 0)
    <3>1. \A s \in Of(0) : s = {}
      BY <1>1, <1>2
    <3>q. QED BY <3>1
  <2>q. QED BY <2>1
<1>4. ASSUME NEW n \in Nat, n \notin N PROVE n + 1 \notin N
  <2>1. PICK h : FoldTo(h, n)
    BY <1>4
  <2> DEFINE g == [s \in SUBSET S |-> IF Cardinality(s) = n + 1 THEN step[<<Picked(s), h[Rest(s)]>>] ELSE h[s]]
  <2>2. g \in [SUBSET S -> V]
    <3>1. ASSUME NEW s \in SUBSET S, Cardinality(s) = n + 1
          PROVE  step[<<Picked(s), h[Rest(s)]>>] \in V
      <4>1. s # {}
        BY <1>2, <3>1
      <4>2. Picked(s) \in S /\ h[Rest(s)] \in V
        BY <1>1, <2>1, <4>1
      <4>q. QED BY <4>2
    <3>2. \A s \in SUBSET S : h[s] \in V
      BY <2>1
    <3>q. QED BY <3>1, <3>2
  <2>3. g[{}] = base
    BY <1>2, <2>1
  <2>4. ASSUME NEW s \in SUBSET S, s # {}, Cardinality(s) <= n + 1
        PROVE  g[s] = step[<<Picked(s), g[Rest(s)]>>]
    <3>1. Rest(s) \in SUBSET S /\ Cardinality(Rest(s)) = Cardinality(s) - 1 /\ Cardinality(s) \in Nat
      BY <1>1, <2>4
    <3>2. g[Rest(s)] = h[Rest(s)]
      BY <2>4, <3>1
    <3>3. CASE Cardinality(s) = n + 1
      BY <3>2, <3>3
    <3>4. CASE Cardinality(s) # n + 1
      <4>1. s \in Of(n)
        BY <2>4, <3>1, <3>4
      <4>2. h[s] = step[<<Picked(s), h[Rest(s)]>>]
        BY <2>1, <2>4, <4>1
      <4>q. QED BY <3>2, <3>4, <4>2
    <3>q. QED BY <3>3, <3>4
  <2>5. FoldTo(g, n + 1)
    <3> HIDE DEF g
    <3>q. QED BY <2>2, <2>3, <2>4
  <2>q. QED BY <2>5
<1>5. N = {}
  <2>1. ASSUME N # {} PROVE FALSE
    <3>1. PICK n \in N : \A m \in N : n <= m
      <4>1. N \in SUBSET Nat
        OBVIOUS
      <4> HIDE DEF N
      <4>q. QED BY <2>1, <4>1, LeastNumber
    <3>2. n \in Nat /\ n # 0
      BY <1>3, <3>1
    <3>3. n - 1 \in Nat /\ n - 1 \notin N
      <4> HIDE DEF N
      <4>q. QED BY <3>1, <3>2
    <3>4. (n - 1) + 1 \notin N
      <4> HIDE DEF N
      <4>q. QED BY <1>4, <3>3
    <3>5. (n - 1) + 1 = n
      BY <3>2
    <3>q. QED BY <3>1, <3>4, <3>5
  <2>q. QED BY <2>1
<1>6. Cardinality(S) \in Nat /\ \A s \in SUBSET S : Cardinality(s) <= Cardinality(S)
  BY FS_Subset, FS_CardinalityType
<1>7. PICK h : FoldTo(h, Cardinality(S))
  BY <1>5, <1>6
<1>8. \A s \in SUBSET S : s \in Of(Cardinality(S))
  BY <1>6
<1>q. QED BY <1>7, <1>8 DEF IsFold

\* And there is one such fold.
SameStep(S, g, h) ==
    g[{}] = h[{}] /\ \A s \in SUBSET S : s # {} /\ g[Rest(s)] = h[Rest(s)] => g[s] = h[s]

LEMMA FoldUnique ==
    ASSUME NEW S, IsFiniteSet(S), NEW g, NEW h, SameStep(S, g, h)
    PROVE  \A s \in SUBSET S : g[s] = h[s]
<1> USE DEF SameStep
<1> DEFINE T == {s \in SUBSET S : g[s] = h[s]}
<1>1. T = SUBSET S
  <2>1. T \in SUBSET SUBSET S /\ {} \in T
    OBVIOUS
  <2>2. \A s \in SUBSET S : s # {} /\ Rest(s) \in T => s \in T
    OBVIOUS
  <2>3. Inductive(S, T)
    <3> HIDE DEF T
    <3>q. QED BY <2>1, <2>2 DEF Inductive
  <2> HIDE DEF T
  <2>q. QED BY <2>3, SubsetsInduct
<1>q. QED BY <1>1

\* The sums of a function over the subsets of its domain.
Sums(h, S, V, f) ==
    /\ h \in [SUBSET S -> V] /\ SumFunction(f) = h[S] /\ h[{}] = 0
    /\ \A s \in SUBSET S : s # {} => h[s] = f[Picked(s)] + h[Rest(s)]

LEMMA SumIs ==
    ASSUME NEW S, IsFiniteSet(S), NEW V, V \in {Int, Nat}, NEW f, f \in [S -> V]
    PROVE  \E h : Sums(h, S, V, f)
<1> DEFINE step == [p \in S \X V |-> f[p[1]] + p[2]]
<1>1. StaysIn(S, V, 0, step)
  BY DEF StaysIn
<1>2. PICK h : IsFold(h, S, V, 0, step)
  <2> HIDE DEF step
  <2>q. QED BY <1>1, FoldExists
<1>3. \A s \in SUBSET S : s # {} => /\ Picked(s) \in S /\ Rest(s) \in SUBSET S
                                    /\ h[s] = f[Picked(s)] + h[Rest(s)]
  <2>1. \A s \in SUBSET S : s # {} => Picked(s) \in S /\ Rest(s) \in SUBSET S
    BY FS_Subset, RestIsSmaller
  <2>q. QED BY <1>2, <2>1 DEF IsFold
<1> DEFINE IsSum(g) == g = [s \in SUBSET S |-> IF s = {} THEN 0 ELSE f[Picked(s)] + g[Rest(s)]]
<1>4. IsSum(h)
  <2> HIDE DEF step
  <2>q. QED BY <1>2, <1>3 DEF IsFold
<1>5. \A g : IsSum(g) => g = h
  <2> HIDE DEF step
  <2> SUFFICES ASSUME NEW g, IsSum(g) PROVE g = h
    OBVIOUS
  <2>1. g = [s \in SUBSET S |-> g[s]] /\ h = [s \in SUBSET S |-> h[s]]
    BY <1>2 DEF IsFold
  <2>2. g[{}] = h[{}]
    BY <1>2 DEF IsFold
  <2>3. \A s \in SUBSET S : s # {} => g[s] = f[Picked(s)] + g[Rest(s)]
    OBVIOUS
  <2>4. \A s \in SUBSET S : s # {} /\ g[Rest(s)] = h[Rest(s)] => g[s] = h[s]
    BY <1>3, <2>3
  <2>5. \A s \in SUBSET S : g[s] = h[s]
    <3>1. SameStep(S, g, h)
      BY <2>2, <2>4 DEF SameStep
    <3> HIDE DEF IsSum
    <3>q. QED BY <3>1, FoldUnique
  <2>q. QED BY <2>1, <2>5
<1>6. (CHOOSE g : IsSum(g)) = h
  <2> HIDE DEF IsSum
  <2>q. QED BY <1>4, <1>5, Zenon
<1>7. SumFunction(f) = (CHOOSE g : IsSum(g))[S]
  <2>1. DOMAIN f = S
    OBVIOUS
  <2>q. QED BY <2>1 DEF SumFunction, SumFunctionOnSet, FoldFunctionOnSet, MapThenFoldSet, Picked, Rest
<1>q. QED BY <1>2, <1>3, <1>6, <1>7 DEF IsFold, Sums

\* A sum of naturals is one, and no member is greater.
LEMMA SumCovers ==
    ASSUME NEW S, IsFiniteSet(S), NEW f \in [S -> Nat]
    PROVE  SumFunction(f) \in Nat /\ \A x \in S : f[x] <= SumFunction(f)
<1> DEFINE V == Nat
<1>1. V \in {Int, Nat} /\ f \in [S -> V]
  OBVIOUS
<1>2. PICK h : Sums(h, S, V, f)
  <2> HIDE DEF V
  <2>q. QED BY <1>1, SumIs
<1> USE DEF Sums
<1> DEFINE T == {s \in SUBSET S : \A x \in s : f[x] <= h[s]}
<1>3. T = SUBSET S
  <2>1. T \in SUBSET SUBSET S /\ {} \in T
    OBVIOUS
  <2>2. ASSUME NEW s \in SUBSET S, s # {}, Rest(s) \in T PROVE s \in T
    <3>1. Rest(s) \in SUBSET S /\ Picked(s) \in S /\ s = Rest(s) \cup {Picked(s)}
      BY <2>2, FS_Subset, RestIsSmaller
    <3>2. h[s] = f[Picked(s)] + h[Rest(s)] /\ h[Rest(s)] \in Nat /\ f[Picked(s)] \in Nat
      BY <1>2, <2>2, <3>1
    <3>3. \A x \in s : f[x] <= h[s]
      <4>1. \A x \in Rest(s) : f[x] \in Nat /\ f[x] <= h[Rest(s)]
        BY <2>2
      <4>q. QED BY <3>1, <3>2, <4>1
    <3>q. QED BY <3>3
  <2>3. Inductive(S, T)
    <3> HIDE DEF T
    <3>q. QED BY <2>1, <2>2 DEF Inductive
  <2> HIDE DEF T
  <2>q. QED BY <2>3, SubsetsInduct
<1>4. S \in T
  BY <1>3
<1>q. QED BY <1>2, <1>4

LEMMA SumIsInteger ==
    ASSUME NEW S, IsFiniteSet(S), NEW f \in [S -> Int]
    PROVE  SumFunction(f) \in Int
<1> DEFINE V == Int
<1>1. V \in {Int, Nat} /\ f \in [S -> V]
  OBVIOUS
<1>2. PICK h : Sums(h, S, V, f)
  <2> HIDE DEF V
  <2>q. QED BY <1>1, SumIs
<1>q. QED BY <1>2 DEF Sums

LEMMA IntegerSums ==
    ASSUME NEW S, IsFiniteSet(S), NEW f, f \in [S -> Int]
    PROVE  \E h : Sums(h, S, Int, f)
<1> DEFINE V == Int
<1>1. V \in {Int, Nat} /\ f \in [S -> V]
  OBVIOUS
<1>2. \E h : Sums(h, S, V, f)
  <2> HIDE DEF V
  <2>q. QED BY <1>1, SumIs
<1>q. QED BY <1>2

Weighs(S, f, w, low, high) == \A x \in S : low * w[x] <= f[x] /\ f[x] <= high * w[x]

\* A weighted sum is between the sum of the weights times the lowest and times the highest.
LEMMA SumBetween ==
    ASSUME NEW S, IsFiniteSet(S), NEW f \in [S -> Int], NEW w \in [S -> Int],
           NEW low \in Int, NEW high \in Int,
           Weighs(S, f, w, low, high)
    PROVE  /\ SumFunction(f) \in Int /\ SumFunction(w) \in Int
           /\ low * SumFunction(w) <= SumFunction(f) /\ SumFunction(f) <= high * SumFunction(w)
<1>2. PICK h : Sums(h, S, Int, f)
  BY IntegerSums
<1>3. PICK k : Sums(k, S, Int, w)
  BY IntegerSums
<1> USE DEF Sums, Weighs
<1> DEFINE T == {s \in SUBSET S : low * k[s] <= h[s] /\ h[s] <= high * k[s]}
<1>4. T = SUBSET S
  <2>1. T \in SUBSET SUBSET S /\ {} \in T
    BY <1>2, <1>3
  <2>2. ASSUME NEW s \in SUBSET S, s # {}, Rest(s) \in T PROVE s \in T
    <3>1. Rest(s) \in SUBSET S /\ Picked(s) \in S
      BY <2>2, FS_Subset, RestIsSmaller
    <3> DEFINE a == w[Picked(s)]
               b == k[Rest(s)]
               c == f[Picked(s)]
               d == h[Rest(s)]
    <3>2. a \in Int /\ b \in Int /\ c \in Int /\ d \in Int /\ h[s] = c + d /\ k[s] = a + b
      BY <1>2, <1>3, <2>2, <3>1
    <3>3. low * a <= c /\ c <= high * a /\ low * b <= d /\ d <= high * b
      BY <2>2, <3>1
    <3>4. low * (a + b) <= c + d /\ c + d <= high * (a + b)
      <4> HIDE DEF a, b, c, d
      <4>1. low * (a + b) = low * a + low * b /\ high * (a + b) = high * a + high * b
        BY <3>2
      <4>2. low * a \in Int /\ low * b \in Int /\ high * a \in Int /\ high * b \in Int
        BY <3>2
      <4>q. QED BY <3>2, <3>3, <4>1, <4>2
    <3>5. low * k[s] <= h[s] /\ h[s] <= high * k[s]
      <4> HIDE DEF a, b, c, d
      <4>q. QED BY <3>2, <3>4
    <3>q. QED BY <3>5
  <2>3. Inductive(S, T)
    <3> HIDE DEF T
    <3>q. QED BY <2>1, <2>2 DEF Inductive
  <2> HIDE DEF T
  <2>q. QED BY <2>3, SubsetsInduct
<1>5. S \in T
  BY <1>4
<1>q. QED BY <1>2, <1>3, <1>5

\* A product of positive numbers is one.
LEMMA ProductIsPositive ==
    ASSUME NEW S, IsFiniteSet(S), S \subseteq Nat \ {0}
    PROVE  ProductSet(S) \in Nat \ {0}
<1> DEFINE V == Nat \ {0}
           step == [p \in S \X V |-> p[1] * p[2]]
<1>1. StaysIn(S, V, 1, step)
  <2>1. \A x, v \in V : x * v \in V
    OBVIOUS
  <2>q. QED BY <2>1 DEF StaysIn
<1>2. PICK h : IsFold(h, S, V, 1, step)
  <2> HIDE DEF step, V
  <2>q. QED BY <1>1, FoldExists
<1>3. \A s \in SUBSET S : s # {} => /\ Picked(s) \in S /\ Rest(s) \in SUBSET S
                                    /\ h[s] = Picked(s) * h[Rest(s)]
  <2>1. \A s \in SUBSET S : s # {} => Picked(s) \in S /\ Rest(s) \in SUBSET S
    BY FS_Subset, RestIsSmaller
  <2> HIDE DEF V
  <2>q. QED BY <1>2, <2>1 DEF IsFold
<1> DEFINE IsProduct(g) == g = [s \in SUBSET S |-> IF s = {} THEN 1 ELSE Picked(s) * g[Rest(s)]]
<1>4. IsProduct(h)
  <2> HIDE DEF step, V
  <2>q. QED BY <1>2, <1>3 DEF IsFold
<1>5. \A g : IsProduct(g) => g = h
  <2> HIDE DEF step, V
  <2> SUFFICES ASSUME NEW g, IsProduct(g) PROVE g = h
    OBVIOUS
  <2>1. g = [s \in SUBSET S |-> g[s]] /\ h = [s \in SUBSET S |-> h[s]]
    BY <1>2 DEF IsFold
  <2>2. g[{}] = h[{}]
    BY <1>2 DEF IsFold
  <2>3. \A s \in SUBSET S : s # {} => g[s] = Picked(s) * g[Rest(s)]
    OBVIOUS
  <2>4. \A s \in SUBSET S : s # {} /\ g[Rest(s)] = h[Rest(s)] => g[s] = h[s]
    BY <1>3, <2>3
  <2>5. \A s \in SUBSET S : g[s] = h[s]
    <3>1. SameStep(S, g, h)
      BY <2>2, <2>4 DEF SameStep
    <3> HIDE DEF IsProduct
    <3>2. IsFiniteSet(S)
      OBVIOUS
    <3>q. QED BY ONLY <3>1, <3>2, FoldUnique
  <2>q. QED BY <2>1, <2>5
<1>6. (CHOOSE g : IsProduct(g)) = h
  <2> HIDE DEF IsProduct
  <2>q. QED BY <1>4, <1>5, Zenon
<1>7. ProductSet(S) = (CHOOSE g : IsProduct(g))[S]
  BY DEF ProductSet, FoldSet, MapThenFoldSet, Picked, Rest
<1>8. h[S] \in V
  <2> HIDE DEF V, step
  <2>q. QED BY <1>2 DEF IsFold
<1>q. QED BY <1>6, <1>7, <1>8

\* The values of a function on a finite set are finitely many.
LEMMA FiniteImage ==
    ASSUME NEW S, IsFiniteSet(S), NEW f
    PROVE  IsFiniteSet({f[x] : x \in S})
<1> DEFINE T == {f[x] : x \in S}
           g == [x \in S |-> f[x]]
<1>1. g \in Surjection(S, T)
  BY DEF Surjection
<1>2. IsFiniteSet(T)
  <2> HIDE DEF g, T
  <2>q. QED BY <1>1, FS_Surjection
<1>q. QED BY <1>2

\* Finite sets of integers have a least and a greatest member.
LEMMA Extremes ==
    ASSUME NEW S, IsFiniteSet(S), S # {}, S \subseteq Int
    PROVE  /\ Min(S) \in S /\ \A x \in S : Min(S) <= x
           /\ Max(S) \in S /\ \A x \in S : Max(S) >= x
<1> DEFINE HasLeast(s) == \E m \in s : \A x \in s : m <= x
           HasGreatest(s) == \E m \in s : \A x \in s : m >= x
           T == {s \in SUBSET S : s # {} => HasLeast(s) /\ HasGreatest(s)}
<1>1. T = SUBSET S
  <2>1. T \in SUBSET SUBSET S /\ {} \in T
    OBVIOUS
  <2>2. ASSUME NEW s \in SUBSET S, s # {}, Rest(s) \in T PROVE s \in T
    <3>1. Picked(s) \in Int /\ s = Rest(s) \cup {Picked(s)} /\ Rest(s) \subseteq Int
      BY <2>2, FS_Subset, RestIsSmaller
    <3> DEFINE a == Picked(s)
               r == Rest(s)
    <3> HIDE DEF a, r
    <3>2. a \in Int /\ s = r \cup {a} /\ r \subseteq Int
      BY <3>1 DEF a, r
    <3>3. r # {} => HasLeast(r) /\ HasGreatest(r)
      <4> HIDE DEF HasLeast, HasGreatest
      <4>q. QED BY <2>2 DEF r
    <3>4. \E m \in s : \A x \in s : m <= x
      <4>1. CASE r = {}
        BY <3>2, <4>1
      <4>2. CASE \E m \in r : \A x \in r : m <= x
        <5>1. PICK m \in r : \A x \in r : m <= x
          BY <4>2
        <5>2. CASE m <= a
          BY <3>2, <5>1, <5>2
        <5>3. CASE ~(m <= a)
          <6>1. \A x \in s : a <= x
            BY <3>2, <5>1, <5>3
          <6>q. QED BY <3>2, <6>1
        <5>q. QED BY <5>2, <5>3
      <4>q. QED BY <3>3, <4>1, <4>2
    <3>5. \E m \in s : \A x \in s : m >= x
      <4>1. CASE r = {}
        BY <3>2, <4>1
      <4>2. CASE \E m \in r : \A x \in r : m >= x
        <5>1. PICK m \in r : \A x \in r : m >= x
          BY <4>2
        <5>2. CASE m >= a
          BY <3>2, <5>1, <5>2
        <5>3. CASE ~(m >= a)
          <6>1. \A x \in s : a >= x
            BY <3>2, <5>1, <5>3
          <6>q. QED BY <3>2, <6>1
        <5>q. QED BY <5>2, <5>3
      <4>q. QED BY <3>3, <4>1, <4>2
    <3> HIDE DEF HasLeast, HasGreatest
    <3>6. HasLeast(s) /\ HasGreatest(s)
      BY <3>4, <3>5 DEF HasLeast, HasGreatest
    <3>q. QED BY <3>6
  <2>3. Inductive(S, T)
    <3> HIDE DEF T
    <3>q. QED BY <2>1, <2>2 DEF Inductive
  <2> HIDE DEF T
  <2>q. QED BY <2>3, SubsetsInduct
<1>2. HasLeast(S) /\ HasGreatest(S)
  <2> HIDE DEF HasLeast, HasGreatest
  <2>q. QED BY <1>1
<1>q. QED BY <1>2 DEF Min, Max

-----------------------------------------------------------------------------
(***************************************************************************)
(* Rows in an order: a finite set that a relation orders strictly has a    *)
(* first member, a second, and so on to the last.                          *)
(***************************************************************************)
StrictlyOrders(R, M) ==
    /\ \A v \in M : <<v, v>> \notin R
    /\ \A v, w \in M : v # w => <<v, w>> \in R \/ <<w, v>> \in R
    /\ \A u, v, w \in M : <<u, v>> \in R /\ <<v, w>> \in R => <<u, w>> \in R
Below(R, M, v) == {w \in M : <<w, v>> \in R}
InOrder(R, M) == [i \in 1..Cardinality(M) |-> CHOOSE v \in M : Cardinality(Below(R, M, v)) = i - 1]

LEMMA InOrderIs ==
    ASSUME NEW M, IsFiniteSet(M), NEW R, StrictlyOrders(R, M)
    PROVE  /\ Cardinality(M) \in Nat /\ InOrder(R, M) \in [1..Cardinality(M) -> M]
           /\ \A v \in M : \E i \in 1..Cardinality(M) : InOrder(R, M)[i] = v
           /\ \A i, j \in 1..Cardinality(M) : i < j => <<InOrder(R, M)[i], InOrder(R, M)[j]>> \in R
<1> DEFINE n == Cardinality(M)
           rank == [v \in M |-> Cardinality(Below(R, M, v))]
           o == InOrder(R, M)
<1>1. n \in Nat
  BY FS_CardinalityType
<1>2. ASSUME NEW v \in M PROVE IsFiniteSet(Below(R, M, v)) /\ rank[v] \in 0..n - 1
  <2>1. Below(R, M, v) \in SUBSET (M \ {v})
    BY DEF Below, StrictlyOrders
  <2>2. IsFiniteSet(M \ {v}) /\ Cardinality(M \ {v}) = n - 1
    BY FS_RemoveElement
  <2>3. IsFiniteSet(Below(R, M, v)) /\ Cardinality(Below(R, M, v)) <= n - 1
    BY <2>1, <2>2, FS_Subset
  <2>q. QED BY <1>1, <2>3, FS_CardinalityType
<1>3. ASSUME NEW v \in M, NEW w \in M, <<v, w>> \in R PROVE rank[v] < rank[w]
  <2>1. Below(R, M, v) \in SUBSET Below(R, M, w)
    BY <1>3 DEF Below, StrictlyOrders
  <2>2. v \in Below(R, M, w) /\ v \notin Below(R, M, v)
    BY <1>3 DEF Below, StrictlyOrders
  <2>3. rank[v] <= rank[w] /\ rank[v] # rank[w]
    BY <1>2, <2>1, <2>2, FS_Subset
  <2>q. QED BY <1>2, <2>3
<1>4. \A v, w \in M : v # w => rank[v] # rank[w]
  <2> SUFFICES ASSUME NEW v \in M, NEW w \in M, v # w PROVE rank[v] # rank[w]
    OBVIOUS
  <2>1. <<v, w>> \in R \/ <<w, v>> \in R
    BY DEF StrictlyOrders
  <2>2. rank[v] < rank[w] \/ rank[w] < rank[v]
    BY <1>3, <2>1
  <2>q. QED BY <1>2, <2>2
<1>5. \A k \in 0..n - 1 : \E v \in M : rank[v] = k
  <2>1. rank \in Injection(M, 0..n - 1)
    BY <1>2, <1>4 DEF Injection, IsInjective
  <2>2. IsFiniteSet(0..n - 1) /\ Cardinality(0..n - 1) = n
    BY <1>1, FS_Interval
  <2>3. rank \in Surjection(M, 0..n - 1)
    <3> HIDE DEF rank
    <3>q. QED BY <2>1, <2>2, FS_Injection
  <2>q. QED BY <2>3 DEF Surjection
<1>6. \A i \in 1..n : o[i] \in M /\ rank[o[i]] = i - 1
  <2> SUFFICES ASSUME NEW i \in 1..n PROVE o[i] \in M /\ rank[o[i]] = i - 1
    OBVIOUS
  <2>1. \E v \in M : Cardinality(Below(R, M, v)) = i - 1
    <3>1. i - 1 \in 0..n - 1
      BY <1>1
    <3>q. QED BY <1>5, <3>1
  <2>2. o[i] = CHOOSE v \in M : Cardinality(Below(R, M, v)) = i - 1
    BY DEF InOrder
  <2>q. QED BY <2>1, <2>2
<1>7. o \in [1..n -> M]
  BY <1>6 DEF InOrder
<1>8. ASSUME NEW v \in M PROVE \E i \in 1..n : o[i] = v
  <2>1. rank[v] + 1 \in 1..n /\ rank[o[rank[v] + 1]] = rank[v] /\ o[rank[v] + 1] \in M
    BY <1>1, <1>2, <1>6
  <2>q. QED BY <1>4, <2>1
<1>9. ASSUME NEW i \in 1..n, NEW j \in 1..n, i < j PROVE <<o[i], o[j]>> \in R
  <2>1. o[i] \in M /\ o[j] \in M /\ rank[o[i]] = i - 1 /\ rank[o[j]] = j - 1
    BY <1>6
  <2>2. o[i] # o[j]
    BY <1>1, <1>9, <2>1
  <2>3. ~(rank[o[j]] < rank[o[i]])
    BY <1>1, <1>9, <2>1
  <2>4. <<o[j], o[i]>> \notin R
    BY <1>3, <2>1, <2>3
  <2>q. QED BY <2>1, <2>2, <2>4 DEF StrictlyOrders
<1> HIDE DEF o
<1>q. QED BY <1>1, <1>7, <1>8, <1>9 DEF o

\* A finite set is written down as a sequence of its members.
LEMMA ListingIs ==
    ASSUME NEW S, IsFiniteSet(S)
    PROVE  /\ Cardinality(S) \in Nat
           /\ \E f \in [1..Cardinality(S) -> S] : IsInjective(f)
<1>1. PICK f \in Bijection(1..Cardinality(S), S) : Cardinality(S) \in Nat
  BY FS_CardinalityType DEF ExistsBijection
<1>2. f \in [1..Cardinality(S) -> S] /\ IsInjective(f)
  BY <1>1 DEF Bijection, Injection, IsInjective
<1>q. QED BY <1>1, <1>2
-----------------------------------------------------------------------------
(***************************************************************************)
(* Values counted up: one for every number, made of the one before it.     *)
(***************************************************************************)
Climbs(h, n, V, base, step) ==
    /\ h \in [0..n -> V] /\ h[0] = base
    /\ \A i \in 1..n : h[i] = step[<<i, h[i - 1]>>]

\* A step for every number and every value so far makes one.
LEMMA ClimbExists ==
    ASSUME NEW n \in Nat, NEW V, NEW base \in V, NEW step,
           \A i \in 1..n, v \in V : step[<<i, v>>] \in V
    PROVE  \E h : Climbs(h, n, V, base, step)
<1> DEFINE N == {m \in 0..n : ~ \E h : Climbs(h, m, V, base, step)}
<1>1. 0 \notin N
  <2> DEFINE h == [i \in 0..0 |-> base]
  <2>1. Climbs(h, 0, V, base, step)
    BY DEF Climbs
  <2>q. QED BY <2>1
<1>2. ASSUME NEW m \in 0..n, m + 1 \in 0..n, m \notin N PROVE m + 1 \notin N
  <2>1. PICK h : Climbs(h, m, V, base, step)
    BY <1>2
  <2> DEFINE g == [i \in 0..(m + 1) |-> IF i = m + 1 THEN step[<<m + 1, h[m]>>] ELSE h[i]]
  <2>2. h[m] \in V /\ \A i \in 0..m : h[i] \in V
    BY <2>1 DEF Climbs
  <2>3. step[<<m + 1, h[m]>>] \in V
    BY <1>2, <2>2
  <2>4. \A i \in 0..(m + 1) : i = m + 1 \/ i \in 0..m
    OBVIOUS
  <2>5. g \in [0..(m + 1) -> V]
    BY <2>2, <2>3, <2>4
  <2>6. g[0] = base /\ \A i \in 0..m : g[i] = h[i]
    BY <2>1 DEF Climbs
  <2>7. g[m + 1] = step[<<m + 1, h[m]>>]
    OBVIOUS
  <2>8. ASSUME NEW i \in 1..(m + 1) PROVE g[i] = step[<<i, g[i - 1]>>]
    <3>1. i - 1 \in 0..m /\ g[i - 1] = h[i - 1]
      BY <2>6
    <3> HIDE DEF g
    <3>2. CASE i = m + 1
      <4>1. i - 1 = m
        BY <3>2
      <4>q. QED BY <2>7, <3>1, <3>2, <4>1
    <3>3. CASE i # m + 1
      <4>1. i \in 1..m /\ g[i] = h[i]
        BY <2>6, <3>3
      <4>q. QED BY <2>1, <3>1, <4>1 DEF Climbs
    <3>q. QED BY <3>2, <3>3
  <2>9. Climbs(g, m + 1, V, base, step)
    <3> HIDE DEF g
    <3>q. QED BY <2>5, <2>6, <2>8 DEF Climbs
  <2>q. QED BY <2>9
<1>3. ASSUME N # {} PROVE FALSE
  <2>1. PICK m \in N : \A k \in N : m <= k
    <3>1. N \in SUBSET Nat
      OBVIOUS
    <3> HIDE DEF N
    <3>q. QED BY <1>3, <3>1, LeastNumber
  <2>2. m \in 0..n /\ m # 0
    BY <1>1, <2>1
  <2>3. m - 1 \in 0..n /\ (m - 1) + 1 = m /\ m - 1 \notin N
    <3> HIDE DEF N
    <3>q. QED BY <2>1, <2>2
  <2> HIDE DEF N
  <2>4. (m - 1) + 1 \notin N
    BY <1>2, <2>2, <2>3
  <2>q. QED BY <2>1, <2>3, <2>4
<1>q. QED BY <1>3

\* And only one.
LEMMA ClimbUnique ==
    ASSUME NEW n \in Nat, NEW g, NEW h, g[0] = h[0],
           \A i \in 1..n : g[i - 1] = h[i - 1] => g[i] = h[i]
    PROVE  \A i \in 0..n : g[i] = h[i]
<1> DEFINE N == {i \in 0..n : g[i] # h[i]}
<1>1. ASSUME N # {} PROVE FALSE
  <2>1. PICK m \in N : \A k \in N : m <= k
    <3>1. N \in SUBSET Nat
      OBVIOUS
    <3> HIDE DEF N
    <3>q. QED BY <1>1, <3>1, LeastNumber
  <2>2. m \in 1..n
    BY <2>1
  <2>3. m - 1 \in 0..n /\ m - 1 \notin N
    <3> HIDE DEF N
    <3>q. QED BY <2>1, <2>2
  <2>q. QED BY <2>1, <2>2, <2>3
<1>q. QED BY <1>1
=============================================================================
