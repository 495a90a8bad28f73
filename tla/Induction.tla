------------------------------ MODULE Induction ------------------------------
(***************************************************************************)
(* Induction over data without an operator for the induction hypothesis:   *)
(* the hypothesis is a set, which any prover can instantiate.  It comes    *)
(* from the library's theorem that strict inclusion of finite sets is well *)
(* founded.  With it, what the folds of the community modules compute, and *)
(* that a sequence of numbers can be sorted.                               *)
(***************************************************************************)
EXTENDS Integers, Sequences, SequencesExt, FiniteSets, FiniteSetTheorems, TLAPS

\* A non-empty set of natural numbers has a least element.
LEMMA LeastNumber ==
  ASSUME NEW S \in SUBSET Nat, S # {}
  PROVE  \E m \in S : \A k \in S : m <= k
<1> DEFINE T == {1..n : n \in S}
<1>1. T \subseteq FiniteSubsetsOf(Nat)
  BY FS_Interval DEF FiniteSubsetsOf
<1>2. T # {}
  OBVIOUS
<1>3. IsWellFoundedOn(StrictSubsetOrdering(Nat), FiniteSubsetsOf(Nat))
  BY FS_StrictSubsetOrderingWellFounded
<1>4. PICK x \in T : \A y \in T : ~(<<y, x>> \in StrictSubsetOrdering(Nat))
  <2> HIDE DEF T
  <2> QED BY <1>1, <1>2, <1>3, WFMin
<1>5. PICK m \in S : x = 1..m
  OBVIOUS
<1>6. ASSUME NEW k \in S PROVE m <= k
  <2>1. SUFFICES ASSUME k < m PROVE FALSE
    OBVIOUS
  <2>2. 1..k \in T /\ 1..k \subseteq 1..m /\ m \in 1..m /\ m \notin 1..k
    BY <2>1
  <2>3. <<1..k, 1..m>> \in StrictSubsetOrdering(Nat)
    BY <2>2 DEF StrictSubsetOrdering
  <2> QED BY <1>4, <1>5, <2>2, <2>3
<1> QED BY <1>6

\* A set that holds 0, and with a number the next one, holds them all.
LEMMA NumbersByInduction ==
  ASSUME NEW S, 0 \in S, \A n \in Nat : n \in S => n + 1 \in S
  PROVE  Nat \subseteq S
<1>1. SUFFICES ASSUME Nat \ S # {} PROVE FALSE
  OBVIOUS
<1>2. PICK m \in Nat \ S : \A k \in Nat \ S : m <= k
  BY <1>1, LeastNumber
<1>3. m # 0 /\ m - 1 \in Nat /\ m - 1 \in S
  BY <1>2
<1> QED BY <1>2, <1>3

\* A family of subsets of D that holds the empty one, and each subset of which
\* it holds all that lack one element, holds them all.
LEMMA SubsetsByInduction ==
  ASSUME NEW D, IsFiniteSet(D), NEW F, {} \in F,
         \A s \in SUBSET D : s # {} /\ (\A x \in s : s \ {x} \in F) => s \in F
  PROVE  SUBSET D \subseteq F
<1> DEFINE G == {n \in Nat : \A s \in SUBSET D : Cardinality(s) <= n => s \in F}
<1>1. \A s \in SUBSET D : IsFiniteSet(s) /\ Cardinality(s) \in Nat
  BY FS_Subset, FS_CardinalityType
<1>2. 0 \in G
  <2>1. ASSUME NEW s \in SUBSET D, Cardinality(s) <= 0 PROVE s = {}
    BY <1>1, <2>1, FS_EmptySet
  <2> QED BY <2>1
<1>3. ASSUME NEW n \in Nat, n \in G PROVE n + 1 \in G
  <2>1. ASSUME NEW s \in SUBSET D, Cardinality(s) <= n + 1, s # {} PROVE s \in F
    <3>1. ASSUME NEW x \in s PROVE s \ {x} \in F
      <4>1. s \ {x} \in SUBSET D /\ Cardinality(s \ {x}) = Cardinality(s) - 1
        BY <1>1, FS_RemoveElement
      <4>2. Cardinality(s \ {x}) <= n
        BY <1>1, <2>1, <4>1
      <4> QED BY <1>3, <4>1, <4>2
    <3> QED BY <2>1, <3>1
  <2>2. \A s \in SUBSET D : Cardinality(s) <= n + 1 => s \in F
    BY <2>1
  <2> QED BY <2>2
<1>4. Nat \subseteq G
  <2> HIDE DEF G
  <2> QED BY <1>2, <1>3, NumbersByInduction
<1>5. ASSUME NEW s \in SUBSET D PROVE s \in F
  BY <1>1, <1>4
<1> QED BY <1>5

-----------------------------------------------------------------------------
(* Sums over a finite set, as FoldSeq and FoldFunction compute them.       *)

\* g is the sum of w over each subset of D, taken in the order CHOOSE gives.
SumOver(g, D, w) ==
  g = [s \in SUBSET D |->
         IF s = {} THEN 0 ELSE LET x == CHOOSE y \in s : TRUE IN g[s \ {x}] + w[x]]

\* There is such a function.
LEMMA SumExists ==
  ASSUME NEW D, IsFiniteSet(D), NEW w
  PROVE  \E g : SumOver(g, D, w)
<1> DEFINE Small(n) == {s \in SUBSET D : Cardinality(s) <= n}
           Next(g, s) == IF s = {} THEN 0 ELSE LET x == CHOOSE y \in s : TRUE IN g[s \ {x}] + w[x]
           G == {n \in Nat : \E g : g = [s \in Small(n) |-> Next(g, s)]}
<1>1. \A s \in SUBSET D : IsFiniteSet(s) /\ Cardinality(s) \in Nat
  BY FS_Subset, FS_CardinalityType
<1>2. 0 \in G
  <2> DEFINE g == [s \in Small(0) |-> 0]
  <2>1. \A s \in Small(0) : s = {}
    BY <1>1, FS_EmptySet
  <2>2. g = [s \in Small(0) |-> Next(g, s)]
    BY <2>1
  <2> QED BY <2>2
<1>3. ASSUME NEW n \in Nat, n \in G PROVE n + 1 \in G
  <2>1. PICK g : g = [s \in Small(n) |-> Next(g, s)]
    BY <1>3
  <2> DEFINE h == [s \in Small(n + 1) |-> Next(g, s)]
  <2>2. \A t \in Small(n) : t \in Small(n + 1)
    BY <1>1
  <2>3. \A t \in Small(n) : h[t] = g[t]
    <3> HIDE DEF Next, Small
    <3> QED BY <2>1, <2>2
  <2>4. ASSUME NEW s \in Small(n + 1) PROVE Next(g, s) = Next(h, s)
    <3>1. CASE s = {}
      BY <3>1
    <3>2. CASE s # {}
      <4> DEFINE x == CHOOSE y \in s : TRUE
      <4>1. x \in s
        BY <3>2
      <4>2. s \ {x} \in SUBSET D /\ Cardinality(s \ {x}) = Cardinality(s) - 1
        BY <1>1, <4>1, FS_RemoveElement
      <4>3. s \ {x} \in Small(n)
        BY <1>1, <4>2
      <4>4. h[s \ {x}] = g[s \ {x}]
        <5> HIDE DEF h, Small
        <5> QED BY <2>3, <4>3
      <4> HIDE DEF h, Small, x
      <4>5. Next(g, s) = g[s \ {x}] + w[x] /\ Next(h, s) = h[s \ {x}] + w[x]
        BY <3>2 DEF x
      <4> QED BY <4>4, <4>5
    <3> QED BY <3>1, <3>2
  <2>5. h = [s \in Small(n + 1) |-> Next(h, s)]
    <3> HIDE DEF Next, Small
    <3> QED BY <2>4
  <2> HIDE DEF h, Next, Small
  <2> QED BY <2>5
<1>4. Nat \subseteq G
  <2> HIDE DEF G
  <2> QED BY <1>2, <1>3, NumbersByInduction
<1>5. Cardinality(D) \in G
  BY <1>4, FS_CardinalityType
<1>6. Small(Cardinality(D)) = SUBSET D
  BY FS_Subset
<1>7. PICK g : g = [s \in Small(Cardinality(D)) |-> Next(g, s)]
  BY <1>5
<1>8. g = [s \in SUBSET D |-> Next(g, s)]
  <2> HIDE DEF Small, Next
  <2> QED BY <1>6, <1>7
<1> QED BY <1>8 DEF SumOver

\* The sum over nothing is 0, and any element may be the one that is taken off.
LEMMA SumsTakeAny ==
  ASSUME NEW V \in {Nat, Int}, NEW D, IsFiniteSet(D), NEW w \in [D -> V], NEW g, SumOver(g, D, w)
  PROVE  /\ g[{}] = 0
         /\ \A s \in SUBSET D : g[s] \in V /\ \A x \in s : g[s] = g[s \ {x}] + w[x]
<1> DEFINE N == {s \in SUBSET D : g[s] \in V}
           F == {s \in SUBSET D : \A x \in s : g[s] = g[s \ {x}] + w[x]}
<1>1. g[{}] = 0
  BY DEF SumOver
<1>2. ASSUME NEW s \in SUBSET D, s # {} PROVE \E y \in s : g[s] = g[s \ {y}] + w[y]
  <2> DEFINE y == CHOOSE z \in s : TRUE
  <2>1. y \in s
    BY <1>2
  <2>2. g[s] = g[s \ {y}] + w[y]
    BY <1>2 DEF SumOver
  <2> HIDE DEF y
  <2> QED BY <2>1, <2>2
<1>3. ASSUME NEW s \in SUBSET D, s # {}, \A x \in s : s \ {x} \in N PROVE s \in N
  <2>1. PICK y \in s : g[s] = g[s \ {y}] + w[y]
    BY <1>2, <1>3
  <2>2. w[y] \in V /\ g[s \ {y}] \in V
    BY <1>3
  <2> QED BY <2>1, <2>2
<1>4. SUBSET D \subseteq N
  <2>1. {} \in N
    BY <1>1
  <2> HIDE DEF N
  <2> QED BY <1>3, <2>1, SubsetsByInduction
<1>5. ASSUME NEW s \in SUBSET D, s # {}, \A x \in s : s \ {x} \in F PROVE s \in F
  <2>1. PICK y \in s : g[s] = g[s \ {y}] + w[y]
    BY <1>2, <1>5
  <2>2. ASSUME NEW x \in s, x # y PROVE g[s] = g[s \ {x}] + w[x]
    <3>1. g[s \ {y}] = g[(s \ {y}) \ {x}] + w[x] /\ g[s \ {x}] = g[(s \ {x}) \ {y}] + w[y]
      BY <1>5, <2>2
    <3>2. (s \ {y}) \ {x} = (s \ {x}) \ {y}
      OBVIOUS
    <3>3. PICK a \in V, b \in V, c \in V : a = g[(s \ {x}) \ {y}] /\ b = w[x] /\ c = w[y]
      BY <1>4
    <3>4. a \in Int /\ b \in Int /\ c \in Int
      OBVIOUS
    <3>5. g[s] = (a + b) + c /\ g[s \ {x}] = a + c
      BY <2>1, <3>1, <3>2, <3>3
    <3>6. (a + b) + c = (a + c) + b
      BY <3>4
    <3> QED BY <3>3, <3>5, <3>6
  <2> QED BY <2>1, <2>2
<1>6. SUBSET D \subseteq F
  <2>1. {} \in F
    OBVIOUS
  <2> HIDE DEF F
  <2> QED BY <1>5, <2>1, SubsetsByInduction
<1> QED BY <1>1, <1>4, <1>6

\* The same of a sum of natural numbers.
LEMMA SumTakesAny ==
  ASSUME NEW D, IsFiniteSet(D), NEW w \in [D -> Nat], NEW g, SumOver(g, D, w)
  PROVE  /\ g[{}] = 0
         /\ \A s \in SUBSET D : g[s] \in Nat /\ \A x \in s : g[s] = g[s \ {x}] + w[x]
BY SumsTakeAny

\* g sums w, which has integers, over the finite D.
IsIntSum(g, D, w) == IsFiniteSet(D) /\ w \in [D -> Int] /\ SumOver(g, D, w)

\* The same of a sum of integers.
LEMMA IntSumTakesAny ==
  ASSUME NEW D, NEW w, NEW g, IsIntSum(g, D, w)
  PROVE  /\ g[{}] = 0
         /\ \A s \in SUBSET D : g[s] \in Int /\ \A x \in s : g[s] = g[s \ {x}] + w[x]
<1>1. Int \in {Nat, Int} /\ IsFiniteSet(D) /\ w \in [D -> Int] /\ SumOver(g, D, w)
  BY DEF IsIntSum
<1> QED BY ONLY <1>1, SumsTakeAny

\* The sum over a set depends on what is summed over it only.
LEMMA SumsMatch ==
  ASSUME NEW D, NEW w, NEW g, IsIntSum(g, D, w), NEW E, NEW v, NEW h, IsIntSum(h, E, v),
         NEW S \in SUBSET (D \cap E), \A x \in S : w[x] = v[x]
  PROVE  g[S] = h[S]
<1> DEFINE F == {s \in SUBSET S : g[s] = h[s]}
<1>1. IsFiniteSet(S)
  BY FS_Subset DEF IsIntSum
<1>2. {} \in F
  BY IntSumTakesAny
<1>3. ASSUME NEW s \in SUBSET S, s # {}, \A x \in s : s \ {x} \in F PROVE s \in F
  <2>1. PICK x \in s : TRUE
    BY <1>3
  <2>2. s \in SUBSET D /\ s \in SUBSET E /\ w[x] = v[x]
    BY <2>1
  <2>3. g[s] = g[s \ {x}] + w[x] /\ h[s] = h[s \ {x}] + v[x]
    BY <2>2, IntSumTakesAny
  <2> QED BY <1>3, <2>2, <2>3
<1>4. SUBSET S \subseteq F
  <2> HIDE DEF F
  <2> QED BY <1>1, <1>2, <1>3, SubsetsByInduction
<1> QED BY <1>4

\* The same of natural numbers.
LEMMA SumsAgree ==
  ASSUME NEW D, IsFiniteSet(D), NEW w \in [D -> Nat], NEW g, SumOver(g, D, w),
         NEW E, IsFiniteSet(E), NEW v \in [E -> Nat], NEW h, SumOver(h, E, v),
         NEW S \in SUBSET (D \cap E), \A x \in S : w[x] = v[x]
  PROVE  g[S] = h[S]
<1>1. IsIntSum(g, D, w) /\ IsIntSum(h, E, v)
  BY DEF IsIntSum
<1> QED BY <1>1, SumsMatch

\* g sums w, which has natural numbers, over the finite D.
IsSum(g, D, w) == IsFiniteSet(D) /\ w \in [D -> Nat] /\ SumOver(g, D, w)

\* Any element may be taken off the whole sum.
LEMMA SumTakesOff ==
  ASSUME NEW D, NEW w, NEW g, IsSum(g, D, w)
  PROVE  g[D] \in Nat /\ \A y \in D : g[D] = g[D \ {y}] + w[y] /\ w[y] \in Nat /\ g[D \ {y}] \in Nat
<1>1. IsFiniteSet(D) /\ w \in [D -> Nat] /\ SumOver(g, D, w)
  BY DEF IsSum
<1>2. g[D] \in Nat /\ \A y \in D : g[D] = g[D \ {y}] + w[y] /\ g[D \ {y}] \in Nat
  <2>1. \A s \in SUBSET D : g[s] \in Nat /\ \A x \in s : g[s] = g[s \ {x}] + w[x]
    BY <1>1, SumTakesAny
  <2> QED BY <2>1
<1> QED BY <1>1, <1>2

\* One more element, one more term.
LEMMA SumExtends ==
  ASSUME NEW D, NEW w, NEW g, IsSum(g, D, w), NEW E, NEW v, NEW h, IsSum(h, E, v),
         NEW y, y \notin D, E = D \cup {y}, \A x \in D : w[x] = v[x]
  PROVE  g[D] \in Nat /\ h[E] = g[D] + v[y]
<1>1. /\ IsFiniteSet(D) /\ w \in [D -> Nat] /\ SumOver(g, D, w)
      /\ IsFiniteSet(E) /\ v \in [E -> Nat] /\ SumOver(h, E, v)
  BY DEF IsSum
<1>2. D \in SUBSET (D \cap E) /\ D \in SUBSET D /\ E \in SUBSET E /\ y \in E /\ E \ {y} = D
  OBVIOUS
<1>3. g[D] = h[D]
  BY <1>1, <1>2, SumsAgree
<1>4. g[D] \in Nat
  BY SumTakesOff
<1>5. h[E] = h[E \ {y}] + v[y]
  BY <1>2, SumTakesOff
<1> QED BY <1>2, <1>3, <1>4, <1>5

\* Another term for one element.
LEMMA SumChanges ==
  ASSUME NEW D, NEW w, NEW g, IsSum(g, D, w), NEW v, NEW h, IsSum(h, D, v),
         NEW y \in D, \A x \in D \ {y} : w[x] = v[x]
  PROVE  g[D] \in Nat /\ h[D] \in Nat /\ h[D] + w[y] = g[D] + v[y]
<1>1. /\ IsFiniteSet(D) /\ w \in [D -> Nat] /\ SumOver(g, D, w)
      /\ v \in [D -> Nat] /\ SumOver(h, D, v)
  BY DEF IsSum
<1>2. D \ {y} \in SUBSET (D \cap D) /\ D \ {y} \in SUBSET D /\ D \in SUBSET D
  OBVIOUS
<1>3. g[D \ {y}] = h[D \ {y}]
  BY <1>1, <1>2, SumsAgree
<1>4. /\ g[D] = g[D \ {y}] + w[y] /\ g[D] \in Nat /\ g[D \ {y}] \in Nat /\ w[y] \in Nat
      /\ h[D] = h[D \ {y}] + v[y] /\ h[D] \in Nat /\ v[y] \in Nat
  BY SumTakesOff
<1> QED BY <1>3, <1>4

\* The sum of w over D, as MapThenSumSet takes it.
SumsUp(it, D, w) ==
  it = [s \in SUBSET D |-> IF s = {} THEN 0 ELSE LET x == CHOOSE y \in s : TRUE IN w[x] + it[s \ {x}]]

\* MapThenSumSet adds in the other order.
LEMMA SumsUpIsSum ==
  ASSUME NEW V \in {Nat, Int}, NEW D, IsFiniteSet(D), NEW w \in [D -> V]
  PROVE  (\E g : SumsUp(g, D, w)) /\ \A g : SumsUp(g, D, w) => SumOver(g, D, w)
<1>1. PICK g : SumOver(g, D, w)
  BY SumExists
<1>2. g[{}] = 0 /\ \A s \in SUBSET D : g[s] \in V /\ \A x \in s : g[s] = g[s \ {x}] + w[x]
  BY ONLY <1>1, SumsTakeAny, V \in {Nat, Int}, IsFiniteSet(D), w \in [D -> V]
<1>3. SumsUp(g, D, w)
  <2>1. ASSUME NEW s \in SUBSET D, s # {}
        PROVE  g[s \ {CHOOSE y \in s : TRUE}] + w[CHOOSE y \in s : TRUE]
                 = w[CHOOSE y \in s : TRUE] + g[s \ {CHOOSE y \in s : TRUE}]
    <3>1. PICK x \in s : x = CHOOSE y \in s : TRUE
      BY <2>1
    <3>2. w[x] \in Int /\ g[s \ {x}] \in Int
      BY <1>2, <3>1
    <3> QED BY <3>1, <3>2
  <2>2. g = [s \in SUBSET D |-> IF s = {} THEN 0 ELSE LET x == CHOOSE y \in s : TRUE IN g[s \ {x}] + w[x]]
    BY <1>1 DEF SumOver
  <2> QED BY <2>1, <2>2 DEF SumsUp
<1>4. ASSUME NEW h, SumsUp(h, D, w), NEW s \in SUBSET D PROVE h[s] = g[s]
  <2> DEFINE F == {z \in SUBSET D : h[z] = g[z]}
  <2>1. {} \in F
    BY <1>2, <1>4 DEF SumsUp
  <2>2. ASSUME NEW z \in SUBSET D, z # {}, \A x \in z : z \ {x} \in F PROVE z \in F
    <3>1. PICK x \in z : x = CHOOSE y \in z : TRUE
      BY <2>2
    <3>2. h[z] = w[x] + h[z \ {x}]
      BY <1>4, <3>1 DEF SumsUp
    <3>3. g[z] = w[x] + g[z \ {x}]
      BY <1>3, <3>1 DEF SumsUp
    <3>4. h[z \ {x}] = g[z \ {x}]
      BY <2>2, <3>1
    <3> QED BY <3>2, <3>3, <3>4
  <2>3. SUBSET D \subseteq F
    <3> HIDE DEF F
    <3> QED BY <2>1, <2>2, SubsetsByInduction
  <2> QED BY <2>3
<1>5. ASSUME NEW h, SumsUp(h, D, w) PROVE h = g
  <2>1. h = [s \in SUBSET D |-> h[s]]
    BY <1>5 DEF SumsUp
  <2>2. g = [s \in SUBSET D |-> g[s]]
    BY <1>3 DEF SumsUp
  <2>3. \A s \in SUBSET D : h[s] = g[s]
    BY <1>4, <1>5
  <2> QED BY ONLY <2>1, <2>2, <2>3
<1> QED BY <1>1, <1>3, <1>5

-----------------------------------------------------------------------------
(* Folds, as MapThenFoldSet computes them.                                 *)

\* A finite set of numbers has a largest.
LEMMA LargestNumber ==
  ASSUME NEW S \in SUBSET Int, IsFiniteSet(S), S # {}
  PROVE  \E m \in S : \A k \in S : m >= k
<1> DEFINE F == {s \in SUBSET S : s = {} \/ \E m \in s : \A k \in s : m >= k}
<1>1. ASSUME NEW s \in SUBSET S, s # {}, \A x \in s : s \ {x} \in F PROVE s \in F
  <2>1. PICK x \in s : TRUE
    BY <1>1
  <2>2. CASE s \ {x} = {}
    <3>1. s = {x} /\ x \in Int
      BY <2>1, <2>2
    <3> QED BY <3>1
  <2>3. CASE s \ {x} # {}
    <3>1. PICK m \in s \ {x} : \A k \in s \ {x} : m >= k
      BY <1>1, <2>1, <2>3
    <3>2. m \in Int /\ x \in Int
      BY <2>1
    <3>3. CASE m >= x
      BY <3>1, <3>3
    <3>4. CASE x >= m
      <4>1. \A k \in s : k \in Int
        OBVIOUS
      <4>2. \A k \in s : x >= k
        BY <3>1, <3>2, <3>4, <4>1
      <4> QED BY <2>1, <4>2
    <3> QED BY <3>2, <3>3, <3>4
  <2> QED BY <2>2, <2>3
<1>2. SUBSET S \subseteq F
  <2>1. {} \in F
    OBVIOUS
  <2> HIDE DEF F
  <2> QED BY <1>1, <2>1, SubsetsByInduction
<1>3. S \in F
  BY <1>2
<1> QED BY <1>3

\* What a function makes of a finite set is finite.
LEMMA FiniteImage ==
  ASSUME NEW S, NEW T, NEW f \in Surjection(S, T), IsFiniteSet(S)
  PROVE  IsFiniteSet(T)
BY FS_Surjection, Zenon

\* A finite set of numbers has a least and a greatest one.
LEMMA Extremes ==
  ASSUME NEW S \in SUBSET Int, IsFiniteSet(S), S # {}
  PROVE  /\ Max(S) \in S /\ \A x \in S : x <= Max(S)
         /\ Min(S) \in S /\ \A x \in S : Min(S) <= x
<1>1. PICK m \in S : \A k \in S : m >= k
  BY LargestNumber
<1>2. Max(S) \in S /\ \A k \in S : Max(S) >= k
  BY <1>1 DEF Max
<1> DEFINE T == {-x : x \in S}
           f == [x \in S |-> -x]
<1>3. T \in SUBSET Int /\ IsFiniteSet(T) /\ T # {}
  <2>1. f \in Surjection(S, T)
    BY DEF Surjection
  <2>2. IsFiniteSet(T)
    <3> HIDE DEF f, T
    <3>1. IsFiniteSet(S)
      OBVIOUS
    <3> QED BY ONLY <2>1, <3>1, FiniteImage
  <2>3. T \in SUBSET Int
    BY ONLY S \in SUBSET Int
  <2>4. -m \in T
    BY ONLY m \in S
  <2> HIDE DEF T
  <2> QED BY <2>2, <2>3, <2>4
<1>4. PICK n \in T : \A k \in T : n >= k
  <2> HIDE DEF T
  <2> QED BY <1>3, LargestNumber
<1>5. -n \in S /\ \A x \in S : -n <= x
  <2>1. PICK y \in S : n = -y
    BY <1>4
  <2>2. \A x \in S : n >= -x
    BY <1>4
  <2> QED BY <2>1, <2>2
<1>6. Min(S) \in S /\ \A x \in S : Min(S) <= x
  BY <1>5 DEF Min
<1> QED BY <1>2, <1>6

\* g folds h over the subsets of D, from base, taking out what ch chooses.
FoldOver(g, D, base, ch, h) ==
  g = [s \in SUBSET D |-> IF s = {} THEN base ELSE h[ch[s], g[s \ {ch[s]}]]]

Chooses(ch, D) == \A s \in SUBSET D : s # {} => ch[s] \in s
Keeps(h, D, I) == \A x \in D, a \in I : h[x, a] \in I

\* What FoldLeft takes last, and what then remains.
LEMMA LastIsMax ==
  ASSUME NEW n \in Nat
  PROVE  /\ Chooses([s \in SUBSET (1..n) |-> Max(s)], 1..n) /\ IsFiniteSet(1..n)
         /\ \A k \in 1..n : Max(1..k) = k /\ 1..k \in SUBSET (1..n) /\ (1..k) \ {k} = 1..(k - 1)
<1>1. IsFiniteSet(1..n)
  BY FS_Interval
<1>2. ASSUME NEW s \in SUBSET (1..n), s # {} PROVE Max(s) \in s
  <2>1. s \in SUBSET Int
    OBVIOUS
  <2>2. IsFiniteSet(s)
    BY <1>1, FS_Subset
  <2> QED BY <1>2, <2>1, <2>2, LargestNumber DEF Max
<1>3. ASSUME NEW k \in 1..n PROVE Max(1..k) = k /\ 1..k \in SUBSET (1..n) /\ (1..k) \ {k} = 1..(k - 1)
  <2>1. k \in 1..k /\ \A j \in 1..k : k >= j
    OBVIOUS
  <2>2. \A m \in 1..k : m >= k => m = k
    OBVIOUS
  <2>3. Max(1..k) = k
    BY <2>1, <2>2 DEF Max
  <2> QED BY <2>3
<1> QED BY <1>1, <1>2, <1>3 DEF Chooses

\* There is such a function, with values where h leads to from base.
LEMMA FoldExists ==
  ASSUME NEW D, IsFiniteSet(D), NEW I, NEW base \in I, NEW ch, Chooses(ch, D),
         NEW h, Keeps(h, D, I)
  PROVE  \E g : FoldOver(g, D, base, ch, h) /\ \A s \in SUBSET D : g[s] \in I
<1> DEFINE Small(n) == {s \in SUBSET D : Cardinality(s) <= n}
           Next(g, s) == IF s = {} THEN base ELSE h[ch[s], g[s \ {ch[s]}]]
           G == {n \in Nat : \E g : g = [s \in Small(n) |-> Next(g, s)]}
<1>1. \A s \in SUBSET D : IsFiniteSet(s) /\ Cardinality(s) \in Nat
  BY FS_Subset, FS_CardinalityType
<1>2. 0 \in G
  <2> DEFINE g == [s \in Small(0) |-> base]
  <2>1. \A s \in Small(0) : s = {}
    BY <1>1, FS_EmptySet
  <2>2. g = [s \in Small(0) |-> Next(g, s)]
    BY <2>1
  <2> QED BY <2>2
<1>3. ASSUME NEW n \in Nat, n \in G PROVE n + 1 \in G
  <2>1. PICK g : g = [s \in Small(n) |-> Next(g, s)]
    BY <1>3
  <2> DEFINE k == [s \in Small(n + 1) |-> Next(g, s)]
  <2>2. \A t \in Small(n) : t \in Small(n + 1)
    BY <1>1
  <2>3. \A t \in Small(n) : k[t] = g[t]
    <3> HIDE DEF Next, Small
    <3> QED BY <2>1, <2>2
  <2>4. ASSUME NEW s \in Small(n + 1) PROVE Next(g, s) = Next(k, s)
    <3>1. CASE s = {}
      BY <3>1
    <3>2. CASE s # {}
      <4>1. ch[s] \in s
        BY <3>2 DEF Chooses
      <4>2. s \ {ch[s]} \in SUBSET D /\ Cardinality(s \ {ch[s]}) = Cardinality(s) - 1
        BY <1>1, <4>1, FS_RemoveElement
      <4>3. s \ {ch[s]} \in Small(n)
        BY <1>1, <4>2
      <4>4. k[s \ {ch[s]}] = g[s \ {ch[s]}]
        <5> HIDE DEF k, Small
        <5> QED BY <2>3, <4>3
      <4> HIDE DEF k, Small
      <4> QED BY <3>2, <4>4
    <3> QED BY <3>1, <3>2
  <2>5. k = [s \in Small(n + 1) |-> Next(k, s)]
    <3> HIDE DEF Next, Small
    <3> QED BY <2>4
  <2> HIDE DEF k, Next, Small
  <2> QED BY <2>5
<1>4. Nat \subseteq G
  <2> HIDE DEF G
  <2> QED BY <1>2, <1>3, NumbersByInduction
<1>5. Cardinality(D) \in G
  BY <1>4, FS_CardinalityType
<1>6. Small(Cardinality(D)) = SUBSET D
  BY FS_Subset
<1>7. PICK g : g = [s \in Small(Cardinality(D)) |-> Next(g, s)]
  BY <1>5
<1>8. g = [s \in SUBSET D |-> Next(g, s)]
  <2> HIDE DEF Small, Next
  <2> QED BY <1>6, <1>7
<1>9. \A s \in SUBSET D : g[s] \in I
  <2> DEFINE F == {s \in SUBSET D : g[s] \in I}
  <2>1. {} \in F
    BY <1>8
  <2>2. ASSUME NEW s \in SUBSET D, s # {}, \A x \in s : s \ {x} \in F PROVE s \in F
    <3>1. ch[s] \in s /\ ch[s] \in D
      BY <2>2 DEF Chooses
    <3>2. g[s \ {ch[s]}] \in I
      BY <2>2, <3>1
    <3>3. g[s] = h[ch[s], g[s \ {ch[s]}]]
      BY <1>8, <2>2
    <3>4. g[s] \in I
      BY <3>1, <3>2, <3>3 DEF Keeps
    <3> QED BY <3>4
  <2> HIDE DEF F
  <2>3. SUBSET D \subseteq F
    BY <2>1, <2>2, SubsetsByInduction
  <2> QED BY <2>3 DEF F
<1> QED BY <1>8, <1>9 DEF FoldOver

\* The same, taking out the greatest number each time.
LEMMA FoldsLeft ==
  ASSUME NEW n \in Nat, NEW I, NEW base \in I, NEW h, Keeps(h, 1..n, I)
  PROVE  \E g : /\ \A s \in SUBSET (1..n) : g[s] \in I
                /\ g = [s \in SUBSET (1..n) |-> IF s = {} THEN base ELSE h[Max(s), g[s \ {Max(s)}]]]
                /\ \A s \in SUBSET (1..n) : s # {} => Max(s) \in 1..n
<1> DEFINE D == 1..n
           ch == [s \in SUBSET D |-> Max(s)]
<1>1. Chooses(ch, D) /\ IsFiniteSet(D)
  BY LastIsMax
<1>2. PICK g : FoldOver(g, D, base, ch, h) /\ \A s \in SUBSET D : g[s] \in I
  <2> HIDE DEF ch, D
  <2>1. Keeps(h, D, I)
    BY DEF D
  <2> QED BY ONLY base \in I, <1>1, <2>1, FoldExists
<1>3. \A s \in SUBSET D : s # {} => ch[s] = Max(s) /\ Max(s) \in D
  <2>1. \A s \in SUBSET D : ch[s] = Max(s)
    OBVIOUS
  <2> HIDE DEF ch, D
  <2> QED BY <1>1, <2>1 DEF Chooses
<1>4. g = [s \in SUBSET D |-> IF s = {} THEN base ELSE h[Max(s), g[s \ {Max(s)}]]]
  <2> HIDE DEF ch, D
  <2> QED BY <1>2, <1>3 DEF FoldOver
<1> HIDE DEF ch
<1> QED BY <1>2, <1>3, <1>4

\* So the values at 1..k follow one from the other.
LEMMA RollsOn ==
  ASSUME NEW n \in Nat, NEW k \in 1..n
  PROVE  1..k \in SUBSET (1..n) /\ 1..k # {} /\ Max(1..k) = k /\ (1..k) \ {k} = 1..(k - 1)
<1>1. k \in 1..k
  OBVIOUS
<1> QED BY <1>1, LastIsMax

-----------------------------------------------------------------------------
(* Counting entries.                                                       *)

\* How often t is in s.
Count(s, t) == Cardinality({j \in 1..Len(s) : s[j] = t})

\* The places of a sequence are finitely many.
LEMMA PlacesAreFinite ==
  ASSUME NEW S, NEW s \in Seq(S)
  PROVE  /\ IsFiniteSet(1..Len(s)) /\ Cardinality(1..Len(s)) = Len(s)
         /\ \A t : Count(s, t) \in Nat /\ IsFiniteSet({j \in 1..Len(s) : s[j] = t})
<1> DEFINE n == Len(s)
<1>1. n \in Nat
  OBVIOUS
<1> HIDE DEF n
<1>2. IsFiniteSet(1..n) /\ Cardinality(1..n) = n
  BY <1>1, FS_Interval
<1>3. ASSUME NEW t PROVE Count(s, t) \in Nat /\ IsFiniteSet({j \in 1..n : s[j] = t})
  <2> DEFINE K == {j \in 1..n : s[j] = t}
  <2>1. K \in SUBSET (1..n)
    OBVIOUS
  <2> HIDE DEF K
  <2>2. IsFiniteSet(K) /\ Cardinality(K) \in Nat
    BY <1>2, <2>1, FS_Subset, FS_CardinalityType
  <2> QED BY <2>2 DEF K, Count, n
<1> QED BY <1>2, <1>3 DEF n

\* A new last entry is one more of its kind.
LEMMA CountOfAppend ==
  ASSUME NEW S, NEW s \in Seq(S), NEW x \in S, NEW t
  PROVE  Count(Append(s, x), t) = IF x = t THEN Count(s, t) + 1 ELSE Count(s, t)
<1> DEFINE n == Len(s)
           d == Append(s, x)
           K == {j \in 1..n : s[j] = t}
           L == {j \in 1..Len(d) : d[j] = t}
           y == n + 1
<1>1. n \in Nat /\ Len(d) = y /\ d[y] = x /\ \A j \in 1..n : d[j] = s[j]
  OBVIOUS
<1>2. IsFiniteSet(K) /\ Cardinality(K) = Count(s, t) /\ Cardinality(L) = Count(d, t)
  BY PlacesAreFinite DEF Count
<1>3. L = IF x = t THEN K \cup {y} ELSE K
  <2> HIDE DEF d
  <2> QED BY <1>1
<1>4. y \notin K
  BY <1>1
<1> HIDE DEF K, L, y, d
<1> QED BY <1>2, <1>3, <1>4, FS_AddElement DEF d

\* Rearranging a sequence keeps the counts.
LEMMA CountOfRearranged ==
  ASSUME NEW S, NEW s \in Seq(S), NEW p \in Bijection(1..Len(s), 1..Len(s)), NEW t
  PROVE  Count([i \in 1..Len(s) |-> s[p[i]]], t) = Count(s, t)
<1> DEFINE D == 1..Len(s)
           d == [i \in D |-> s[p[i]]]
           K == {j \in D : s[j] = t}
           L == {j \in D : d[j] = t}
           q == [j \in L |-> p[j]]
<1>1. Len(d) = Len(s)
  <2>1. d \in Seq({s[p[i]] : i \in D})
    OBVIOUS
  <2> QED BY <2>1
<1>2. p \in [D -> D] /\ (\A i, j \in D : p[i] = p[j] => i = j) /\ \A k \in D : \E i \in D : p[i] = k
  BY DEF Bijection, Injection, Surjection, IsInjective
<1>3. Count(s, t) = Cardinality(K) /\ Count(d, t) = Cardinality(L) /\ IsFiniteSet(K)
  BY <1>1, PlacesAreFinite DEF Count
<1>4. L \subseteq D /\ K \subseteq D /\ \A j \in D : j \in L <=> p[j] \in K
  <2> HIDE DEF D
  <2> QED BY <1>2
<1>5. q \in [L -> K] /\ \A j \in L : q[j] = p[j]
  <2> HIDE DEF D, K, L
  <2> QED BY <1>4
<1>6. q \in Bijection(L, K)
  <2> HIDE DEF D, K, L, q
  <2>1. \A i, j \in L : q[i] = q[j] => i = j
    BY <1>2, <1>4, <1>5
  <2>2. \A k \in K : \E j \in L : q[j] = k
    BY <1>2, <1>4, <1>5
  <2> QED BY <1>5, <2>1, <2>2 DEF Bijection, Injection, Surjection, IsInjective
<1>7. IsFiniteSet(L)
  <2>1. L \in SUBSET D /\ IsFiniteSet(D)
    BY PlacesAreFinite
  <2> HIDE DEF L, D
  <2> QED BY <2>1, FS_Subset
<1>8. Cardinality(K) = Cardinality(L)
  <2> HIDE DEF K, L, q, D
  <2> QED BY <1>6, <1>7, FS_Bijection DEF ExistsBijection
<1> QED BY <1>3, <1>8

-----------------------------------------------------------------------------
(* Sorting.                                                                *)

\* The place of entry i of a sequence when equal entries stay in order.
Rank(s, i) ==
  1 + Cardinality({j \in 1..Len(s) : s[j] < s[i] \/ (s[j] = s[i] /\ j < i)})

\* The places are those of the sequence, and keep the order.
LEMMA RanksAreOrdered ==
  ASSUME NEW s \in Seq(Int)
  PROVE  /\ \A i \in 1..Len(s) : Rank(s, i) \in 1..Len(s)
         /\ \A i, j \in 1..Len(s) :
              s[i] < s[j] \/ (s[i] = s[j] /\ i < j) => Rank(s, i) < Rank(s, j)
<1> DEFINE Before(i) == {j \in 1..Len(s) : s[j] < s[i] \/ (s[j] = s[i] /\ j < i)}
<1>1. Len(s) \in Nat /\ \A i \in 1..Len(s) : s[i] \in Int
  OBVIOUS
<1>2. IsFiniteSet(1..Len(s)) /\ Cardinality(1..Len(s)) = Len(s)
  <2> DEFINE n == Len(s)
  <2>1. n \in Nat
    OBVIOUS
  <2> HIDE DEF n
  <2>2. IsFiniteSet(1..n) /\ Cardinality(1..n) = n
    BY <2>1, FS_Interval
  <2> QED BY <2>2 DEF n
<1>3. \A i \in 1..Len(s) : /\ IsFiniteSet(Before(i)) /\ Cardinality(Before(i)) \in Nat
                           /\ Rank(s, i) = 1 + Cardinality(Before(i))
  BY <1>2, FS_Subset, FS_CardinalityType DEF Rank
<1>4. ASSUME NEW i \in 1..Len(s) PROVE Rank(s, i) \in 1..Len(s)
  <2>1. Before(i) \in SUBSET (1..Len(s) \ {i})
    BY <1>1
  <2>2. IsFiniteSet(1..Len(s) \ {i}) /\ Cardinality(1..Len(s) \ {i}) = Len(s) - 1
    BY <1>2, FS_RemoveElement
  <2>3. Cardinality(Before(i)) <= Len(s) - 1
    <3> HIDE DEF Before
    <3> QED BY <2>1, <2>2, FS_Subset
  <2> HIDE DEF Before
  <2> QED BY <1>1, <1>3, <2>3
<1>5. ASSUME NEW i \in 1..Len(s), NEW j \in 1..Len(s), s[i] < s[j] \/ (s[i] = s[j] /\ i < j)
      PROVE  Rank(s, i) < Rank(s, j)
  <2>1. Before(i) \in SUBSET Before(j) /\ i \in Before(j) /\ i \notin Before(i)
    BY <1>1, <1>5
  <2>2. Cardinality(Before(i)) < Cardinality(Before(j))
    <3> HIDE DEF Before
    <3>1. Cardinality(Before(i)) <= Cardinality(Before(j)) /\ Cardinality(Before(i)) # Cardinality(Before(j))
      BY <1>3, <2>1, FS_Subset
    <3> QED BY <1>3, <3>1
  <2> HIDE DEF Before
  <2> QED BY <1>3, <2>2
<1> QED BY <1>4, <1>5

\* Some rearrangement of a sequence of numbers is in order.
LEMMA CanBeSorted ==
  ASSUME NEW s \in Seq(Int)
  PROVE  \E p \in Bijection(1..Len(s), 1..Len(s)) :
           \A i, j \in 1..Len(s) : i < j => s[p[i]] <= s[p[j]]
<1> DEFINE D == 1..Len(s)
           r == [i \in D |-> Rank(s, i)]
<1>1. Len(s) \in Nat /\ D \subseteq Int /\ \A i \in D : s[i] \in Int
  OBVIOUS
<1>2. r \in [D -> D] /\ \A i, j \in D : s[i] < s[j] \/ (s[i] = s[j] /\ i < j) => r[i] < r[j]
  BY RanksAreOrdered
<1> HIDE DEF r, D
<1>3. ASSUME NEW i \in D, NEW j \in D, r[i] = r[j] PROVE i = j
  <2>1. r[i] \in Int /\ ~(r[i] < r[j]) /\ ~(r[j] < r[i])
    <3>1. r[i] \in D
      BY <1>2
    <3>2. r[i] \in Int
      BY <1>1, <3>1
    <3> QED BY <1>3, <3>2
  <2>2. i \in Int /\ j \in Int /\ s[i] \in Int /\ s[j] \in Int
    BY <1>1
  <2> QED BY <1>2, <2>1, <2>2
<1>4. r \in Bijection(D, D)
  <2>1. r \in Injection(D, D)
    BY <1>2, <1>3 DEF Injection, IsInjective
  <2>2. IsFiniteSet(D)
    BY <1>1, FS_Interval DEF D
  <2> QED BY <2>1, <2>2, FS_Injection DEF Bijection
<1> DEFINE q == [k \in D |-> CHOOSE i \in D : r[i] = k]
<1>5. \A k \in D : q[k] \in D /\ r[q[k]] = k
  BY <1>4 DEF Bijection, Surjection
<1>6. q \in [D -> D] /\ \A i \in D : q[r[i]] = i
  <2>1. q \in [D -> D]
    BY <1>5
  <2> HIDE DEF q
  <2> QED BY <1>2, <1>3, <1>5, <2>1
<1> HIDE DEF q
<1>7. q \in Bijection(D, D)
  <2>1. \A i, j \in D : q[i] = q[j] => i = j
    BY <1>5
  <2> QED BY <1>2, <1>6, <2>1 DEF Bijection, Injection, Surjection, IsInjective
<1>8. ASSUME NEW i \in D, NEW j \in D, i < j, ~(s[q[i]] <= s[q[j]]) PROVE FALSE
  <2>1. s[q[j]] < s[q[i]]
    <3>1. s[q[i]] \in Int /\ s[q[j]] \in Int
      BY <1>1, <1>5
    <3> QED BY <1>8, <3>1
  <2>2. r[q[j]] < r[q[i]]
    BY <1>2, <1>5, <2>1
  <2> QED BY <1>1, <1>5, <1>8, <2>2
<1> QED BY <1>7, <1>8 DEF D

-----------------------------------------------------------------------------
(* Joining lists.                                                          *)

\* What is in a list that is joined from two.
LEMMA JoinEntries ==
  ASSUME NEW S, NEW s \in Seq(S), NEW t \in Seq(S)
  PROVE  s \o t \in Seq(S) /\ ToSet(s \o t) = ToSet(s) \cup ToSet(t)
<1>1. PICK m \in Nat, n \in Nat : Len(s) = m /\ Len(t) = n /\ DOMAIN s = 1..m /\ DOMAIN t = 1..n
  OBVIOUS
<1>2. PICK u : u = s \o t
  OBVIOUS
<1>3. u \in Seq(S) /\ DOMAIN u = 1..(m + n)
  <2>1. u \in Seq(S) /\ Len(u) = Len(s) + Len(t)
    BY <1>2
  <2>2. DOMAIN u = 1..Len(u)
    BY <2>1
  <2> QED BY <1>1, <2>1, <2>2
<1>4. \A k \in 1..m : k \in DOMAIN u /\ u[k] = s[k]
  BY <1>1, <1>2
<1>5. \A k \in 1..n : m + k \in DOMAIN u /\ u[m + k] = t[k]
  BY <1>1, <1>2
<1>6. ASSUME NEW k \in DOMAIN u PROVE u[k] \in ToSet(s) \cup ToSet(t)
  <2>1. CASE k <= m
    BY <1>1, <1>3, <1>4, <2>1 DEF ToSet
  <2>2. CASE k > m
    <3>1. k - m \in 1..n /\ m + (k - m) = k
      BY <1>1, <1>3, <2>2
    <3>2. u[k] = t[k - m]
      BY <1>5, <3>1
    <3> QED BY <1>1, <3>1, <3>2 DEF ToSet
  <2> QED BY <1>1, <1>3, <2>1, <2>2
<1>7. ToSet(s) \subseteq ToSet(u) /\ ToSet(t) \subseteq ToSet(u)
  BY <1>1, <1>4, <1>5 DEF ToSet
<1>8. ToSet(u) \subseteq ToSet(s) \cup ToSet(t)
  BY <1>6 DEF ToSet
<1> QED BY <1>2, <1>3, <1>7, <1>8

\* How a list is joined from many, one after the other.
Stages(f, q, S) ==
  /\ FlattenSeq(q) = f[Len(q)]
  /\ f[0] = <<>> /\ \A i \in 1..Len(q) : f[i] = f[i - 1] \o q[i]
  /\ \A i \in 0..Len(q) : f[i] \in Seq(S)

LEMMA FlattenRuns ==
  ASSUME NEW S, NEW q \in Seq(Seq(S))
  PROVE  \E f : Stages(f, q, S)
<1> DEFINE Step(g, D) == [i \in D |-> IF i = 1 THEN q[i] ELSE g[i - 1] \o q[i]]
           G == {n \in Nat : \E g : g = Step(g, 1..n)}
<1>1. PICK N \in Nat : Len(q) = N /\ DOMAIN q = 1..N
  OBVIOUS
<1>2. 0 \in G
  <2> DEFINE g == [i \in 1..0 |-> q[i]]
  <2>1. g = Step(g, 1..0)
    OBVIOUS
  <2> QED BY <2>1
<1>3. ASSUME NEW n \in Nat, n \in G PROVE n + 1 \in G
  <2>1. PICK g : g = Step(g, 1..n)
    BY <1>3
  <2> DEFINE h == Step(g, 1..(n + 1))
  <2>2. ASSUME NEW i \in 1..n PROVE h[i] = g[i]
    <3>1. i \in 1..(n + 1)
      OBVIOUS
    <3>2. h[i] = IF i = 1 THEN q[i] ELSE g[i - 1] \o q[i]
      BY <3>1
    <3>3. g[i] = IF i = 1 THEN q[i] ELSE g[i - 1] \o q[i]
      BY <2>1
    <3> QED BY <3>2, <3>3
  <2>3. h = Step(h, 1..(n + 1))
    <3>1. \A i \in 1..(n + 1) : i # 1 => i - 1 \in 1..n
      OBVIOUS
    <3>2. PICK k : k = h
      OBVIOUS
    <3>3. \A i \in 1..(n + 1) : (IF i = 1 THEN q[i] ELSE g[i - 1] \o q[i])
                                = IF i = 1 THEN q[i] ELSE k[i - 1] \o q[i]
      BY <2>2, <3>1, <3>2
    <3>4. k = Step(k, 1..(n + 1))
      BY <3>2, <3>3
    <3> QED BY <3>2, <3>4
  <2> HIDE DEF h, Step
  <2> QED BY <2>3
<1>4. Nat \subseteq G
  <2> HIDE DEF G
  <2> QED BY <1>2, <1>3, NumbersByInduction
<1> DEFINE f == CHOOSE g : g = Step(g, 1..N)
           h == [i \in 0..N |-> IF i = 0 THEN <<>> ELSE f[i]]
<1>5. f = Step(f, 1..N)
  <2>1. N \in G
    BY <1>4
  <2>2. \E g : g = Step(g, 1..N)
    BY <2>1
  <2> HIDE DEF Step
  <2> QED BY <2>2
<1>6. FlattenSeq(q) = h[N]
  <2>1. CASE N = 0
    <3>1. FlattenSeq(q) = q /\ q = <<>>
      BY <1>1, <2>1 DEF FlattenSeq
    <3> QED BY <2>1, <3>1
  <2>2. CASE N # 0
    <3>1. FlattenSeq(q) = f[N]
      BY <1>1, <2>2 DEF FlattenSeq
    <3> HIDE DEF f
    <3> QED BY <2>2, <3>1
  <2> QED BY <2>1, <2>2
<1> HIDE DEF f
<1>7. \A i \in 1..N : q[i] \in Seq(S)
  BY <1>1
<1>8. h[0] = <<>> /\ \A i \in 1..N : h[i] = h[i - 1] \o q[i]
  <2>1. h[0] = <<>> /\ \A i \in 1..N : h[i] = f[i]
    OBVIOUS
  <2>2. \A i \in 1..N : f[i] = IF i = 1 THEN q[i] ELSE f[i - 1] \o q[i]
    BY <1>5
  <2> HIDE DEF h
  <2>3. ASSUME NEW i \in 1..N PROVE h[i] = h[i - 1] \o q[i]
    <3>1. CASE i = 1
      <4>1. PICK s \in Seq(S) : s = q[i]
        BY <1>7
      <4>2. <<>> \o s = s
        OBVIOUS
      <4>3. h[i] = s /\ h[i - 1] = <<>>
        BY <2>1, <2>2, <3>1, <4>1
      <4> QED BY <4>1, <4>2, <4>3
    <3>2. CASE i # 1
      <4>1. i - 1 \in 1..N
        BY <3>2
      <4> QED BY <2>1, <2>2, <3>2, <4>1
    <3> QED BY <3>1, <3>2
  <2> QED BY <2>1, <2>3
<1> HIDE DEF h
<1> DEFINE E == {n \in Nat : n <= N => h[n] \in Seq(S)}
<1>9. 0 \in E
  <2>1. <<>> \in Seq(S)
    OBVIOUS
  <2> QED BY <1>8, <2>1
<1>10. ASSUME NEW n \in Nat, n \in E PROVE n + 1 \in E
  <2>1. SUFFICES ASSUME n + 1 <= N PROVE h[n + 1] \in Seq(S)
    OBVIOUS
  <2>2. n + 1 \in 1..N /\ (n + 1) - 1 = n
    BY <2>1
  <2>3. h[n + 1] = h[n] \o q[n + 1] /\ q[n + 1] \in Seq(S)
    BY <1>7, <1>8, <2>2
  <2>4. h[n] \in Seq(S)
    BY <1>10, <2>1
  <2> QED BY <2>3, <2>4
<1>11. Nat \subseteq E
  <2> HIDE DEF E
  <2> QED BY <1>9, <1>10, NumbersByInduction
<1>12. \A i \in 0..N : h[i] \in Seq(S)
  BY <1>11
<1> QED BY <1>1, <1>6, <1>8, <1>12 DEF Stages

\* What is in a list that is joined from many.
LEMMA FlattenEntries ==
  ASSUME NEW S, NEW q \in Seq(Seq(S))
  PROVE  /\ FlattenSeq(q) \in Seq(S)
         /\ ToSet(FlattenSeq(q)) = UNION {ToSet(q[i]) : i \in DOMAIN q}
<1>1. PICK N \in Nat : Len(q) = N /\ DOMAIN q = 1..N
  OBVIOUS
<1>2. \A i \in 1..N : q[i] \in Seq(S)
  BY <1>1
<1>3. PICK f : /\ FlattenSeq(q) = f[N]
               /\ f[0] = <<>> /\ \A i \in 1..N : f[i] = f[i - 1] \o q[i]
               /\ \A i \in 0..N : f[i] \in Seq(S)
  <2>1. PICK f : Stages(f, q, S)
    BY FlattenRuns
  <2> QED BY ONLY <1>1, <2>1 DEF Stages
<1> DEFINE E == {n \in Nat : n <= N => ToSet(f[n]) = UNION {ToSet(q[i]) : i \in 1..n}}
<1>4. 0 \in E
  <2>1. ToSet(<<>>) = {}
    BY DEF ToSet
  <2> QED BY <1>3, <2>1
<1>5. ASSUME NEW n \in Nat, n \in E PROVE n + 1 \in E
  <2>1. SUFFICES ASSUME n + 1 <= N PROVE ToSet(f[n + 1]) = UNION {ToSet(q[i]) : i \in 1..(n + 1)}
    OBVIOUS
  <2>2. n + 1 \in 1..N /\ (n + 1) - 1 = n /\ n \in 0..N
    BY <2>1
  <2>3. f[n + 1] = f[n] \o q[n + 1] /\ q[n + 1] \in Seq(S) /\ f[n] \in Seq(S)
    BY <1>2, <1>3, <2>2
  <2>4. ToSet(f[n + 1]) = ToSet(f[n]) \cup ToSet(q[n + 1])
    BY <2>3, JoinEntries
  <2>5. ToSet(f[n]) = UNION {ToSet(q[i]) : i \in 1..n}
    BY <1>5, <2>1
  <2>6. 1..(n + 1) = 1..n \cup {n + 1}
    OBVIOUS
  <2> QED BY <2>4, <2>5, <2>6
<1>6. Nat \subseteq E
  <2> HIDE DEF E
  <2> QED BY <1>4, <1>5, NumbersByInduction
<1>7. ToSet(f[N]) = UNION {ToSet(q[i]) : i \in 1..N} /\ f[N] \in Seq(S)
  <2>1. N \in E /\ N <= N /\ N \in 0..N
    <3> HIDE DEF E
    <3> QED BY <1>6
  <2> QED BY <1>3, <2>1
<1> QED BY <1>1, <1>3, <1>7

\* One more list at the end.
LEMMA FlattenAppend ==
  ASSUME NEW S, NEW q \in Seq(Seq(S)), NEW s \in Seq(S)
  PROVE  FlattenSeq(Append(q, s)) = FlattenSeq(q) \o s
<1>1. PICK N \in Nat : Len(q) = N /\ DOMAIN q = 1..N
  OBVIOUS
<1>2. PICK r \in Seq(Seq(S)) : r = Append(q, s)
  <2>1. PICK T : T = Seq(S)
    OBVIOUS
  <2>2. q \in Seq(T) /\ s \in T
    BY <2>1
  <2>3. Append(q, s) \in Seq(T)
    BY ONLY <2>2
  <2> QED BY <2>1, <2>3
<1>3. Len(r) = N + 1 /\ r[N + 1] = s /\ \A i \in 1..N : r[i] = q[i]
  BY <1>1, <1>2
<1>4. PICK f : /\ FlattenSeq(q) = f[N]
               /\ f[0] = <<>> /\ \A i \in 1..N : f[i] = f[i - 1] \o q[i]
  <2>1. PICK f : Stages(f, q, S)
    BY FlattenRuns
  <2> QED BY ONLY <1>1, <2>1 DEF Stages
<1>5. PICK g : /\ FlattenSeq(r) = g[N + 1]
               /\ g[0] = <<>> /\ \A i \in 1..(N + 1) : g[i] = g[i - 1] \o r[i]
  <2>1. PICK g : Stages(g, r, S)
    BY FlattenRuns
  <2> QED BY ONLY <1>3, <2>1 DEF Stages
<1> DEFINE E == {n \in Nat : n <= N => g[n] = f[n]}
<1>6. 0 \in E
  BY <1>4, <1>5
<1>7. ASSUME NEW n \in Nat, n \in E PROVE n + 1 \in E
  <2>1. SUFFICES ASSUME n + 1 <= N PROVE g[n + 1] = f[n + 1]
    OBVIOUS
  <2>2. n + 1 \in 1..N /\ n + 1 \in 1..(N + 1) /\ (n + 1) - 1 = n
    BY <2>1
  <2>3. g[n + 1] = g[n] \o q[n + 1] /\ f[n + 1] = f[n] \o q[n + 1]
    BY <1>3, <1>4, <1>5, <2>2
  <2>4. g[n] = f[n]
    BY <1>7, <2>1
  <2> QED BY <2>3, <2>4
<1>8. Nat \subseteq E
  <2> HIDE DEF E
  <2> QED BY <1>6, <1>7, NumbersByInduction
<1>9. g[N] = f[N]
  BY <1>8
<1>10. N + 1 \in 1..(N + 1) /\ (N + 1) - 1 = N
  OBVIOUS
<1> QED BY <1>2, <1>3, <1>4, <1>5, <1>9, <1>10

-----------------------------------------------------------------------------
(* Quotients.                                                              *)

\* Division rounds down.
LEMMA Divided ==
  ASSUME NEW R \in Nat \ {0}, NEW t \in Int
  PROVE  t \div R \in Int /\ (t \div R) * R <= t /\ t < (t \div R) * R + R
OBVIOUS

\* Multiples of R are R apart.
LEMMA Steps ==
  ASSUME NEW R \in Nat \ {0}, NEW a \in Int, NEW b \in Int
  PROVE  /\ a * R \in Int
         /\ a < b => a * R + R <= b * R
         /\ a <= b => a * R <= b * R
<1>1. a * R \in Int /\ b * R \in Int
  OBVIOUS
<1>2. (b - a) * R = b * R - a * R
  OBVIOUS
<1>3. \A d \in Nat : d * R >= 0 /\ (d > 0 => d * R >= R)
  OBVIOUS
<1> QED BY <1>1, <1>2, <1>3
==============================================================================
