---------------------------- MODULE OrderTheorems ---------------------------
(***************************************************************************)
(* Ranking a finite set by a strict total order, induction on the natural  *)
(* numbers and measures that cannot descend forever, in the form the       *)
(* provers can use: an order is a set of pairs, an induction hypothesis a  *)
(* set of numbers and a behaviour a function of them.                      *)
(***************************************************************************)
EXTENDS FiniteSetTheorems, TLAPS

StrictOrder(R, S) ==
    /\ \A x \in S : <<x, x>> \notin R
    /\ \A x, y, z \in S : <<x, y>> \in R /\ <<y, z>> \in R => <<x, z>> \in R
    /\ \A x, y \in S : x # y => <<x, y>> \in R \/ <<y, x>> \in R

\* The elements of S that R puts ahead of x.
Before(R, S, x) == {e \in S : <<e, x>> \in R}

\* S as a sequence: the element with i - 1 elements ahead of it comes i-th.
Sorted(R, S) ==
    [i \in 1 .. Cardinality(S) |-> CHOOSE x \in S : Cardinality(Before(R, S, x)) = i - 1]

-----------------------------------------------------------------------------
\* Fewer elements are ahead of an element that is ahead.
LEMMA RankIsMonotone ==
    ASSUME NEW S, IsFiniteSet(S), NEW R, StrictOrder(R, S),
           NEW x \in S, NEW y \in S, <<x, y>> \in R
    PROVE  Cardinality(Before(R, S, x)) < Cardinality(Before(R, S, y))
  <1>1. Before(R, S, x) \subseteq Before(R, S, y) /\ Before(R, S, y) \subseteq S
    BY DEF StrictOrder, Before
  <1>2. x \in Before(R, S, y) /\ x \notin Before(R, S, x)
    BY DEF StrictOrder, Before
  <1>3. IsFiniteSet(Before(R, S, y))
    BY <1>1, FS_Subset
  <1>4. /\ IsFiniteSet(Before(R, S, x))
        /\ Cardinality(Before(R, S, x)) <= Cardinality(Before(R, S, y))
        /\ Cardinality(Before(R, S, x)) # Cardinality(Before(R, S, y))
    BY <1>1, <1>2, <1>3, FS_Subset
  <1> QED
    BY <1>3, <1>4, FS_CardinalityType

\* Fewer elements are ahead of an element than there are.
LEMMA RankIsBounded ==
    ASSUME NEW S, IsFiniteSet(S), NEW R, StrictOrder(R, S), NEW x \in S
    PROVE  Cardinality(Before(R, S, x)) \in 0 .. Cardinality(S) - 1
  <1>1. Before(R, S, x) \in SUBSET S /\ x \notin Before(R, S, x)
    BY DEF StrictOrder, Before
  <1>2. /\ IsFiniteSet(Before(R, S, x))
        /\ Cardinality(Before(R, S, x)) <= Cardinality(S)
        /\ Cardinality(Before(R, S, x)) # Cardinality(S)
    BY <1>1, FS_Subset
  <1> QED
    BY <1>2, FS_CardinalityType

\* No two elements have the same number of elements ahead.
LEMMA RanksDiffer ==
    ASSUME NEW S, IsFiniteSet(S), NEW R, StrictOrder(R, S)
    PROVE  \A x, y \in S : Cardinality(Before(R, S, x)) = Cardinality(Before(R, S, y)) => x = y
  <1> SUFFICES ASSUME NEW x \in S, NEW y \in S,
                      Cardinality(Before(R, S, x)) = Cardinality(Before(R, S, y))
               PROVE  x = y
    OBVIOUS
  <1>1. Cardinality(Before(R, S, x)) \in 0 .. Cardinality(S) - 1
    BY RankIsBounded, FS_CardinalityType
  <1>2. <<x, y>> \notin R /\ <<y, x>> \notin R
    BY <1>1, RankIsMonotone
  <1> QED
    BY <1>2 DEF StrictOrder

\* Every number from 0 up to the size of the set is the rank of an element.
LEMMA RanksAreFilled ==
    ASSUME NEW S, IsFiniteSet(S), NEW R, StrictOrder(R, S), NEW i \in 0 .. Cardinality(S) - 1
    PROVE  \E x \in S : Cardinality(Before(R, S, x)) = i
  <1> DEFINE n == Cardinality(S)
             rank == [x \in S |-> Cardinality(Before(R, S, x))]
  <1>1. n \in Nat
    BY FS_CardinalityType
  <1>2. rank \in [S -> 0 .. n - 1]
    BY RankIsBounded
  <1>3. \A x, y \in S : rank[x] = rank[y] => x = y
    BY RanksDiffer
  <1>4. rank \in Injection(S, 0 .. n - 1)
    BY <1>2, <1>3 DEF Injection, IsInjective
  <1>5. IsFiniteSet(0 .. n - 1) /\ Cardinality(0 .. n - 1) = n
    BY <1>1, FS_Interval
  <1>6. rank \in Surjection(S, 0 .. n - 1)
    BY <1>4, <1>5, FS_Injection
  <1> QED
    BY <1>6 DEF Surjection

\* Sorted is what its name says: every element once, in the order of R.
LEMMA SortedSorts ==
    ASSUME NEW S, IsFiniteSet(S), NEW R, StrictOrder(R, S)
    PROVE  /\ Cardinality(S) \in Nat
           /\ Sorted(R, S) \in [1 .. Cardinality(S) -> S]
           /\ \A x \in S : \E i \in 1 .. Cardinality(S) : Sorted(R, S)[i] = x
           /\ \A i, j \in 1 .. Cardinality(S) : i < j <=> <<Sorted(R, S)[i], Sorted(R, S)[j]>> \in R
           /\ \A i, j \in 1 .. Cardinality(S) : Sorted(R, S)[i] = Sorted(R, S)[j] => i = j
  <1> DEFINE n == Cardinality(S)
             s == Sorted(R, S)
  <1>1. n \in Nat
    BY FS_CardinalityType
  <1>2. ASSUME NEW i \in 1 .. n
        PROVE  s[i] \in S /\ Cardinality(Before(R, S, s[i])) = i - 1
    <2>1. \E x \in S : Cardinality(Before(R, S, x)) = i - 1
      BY <1>1, RanksAreFilled
    <2> QED
      BY <2>1 DEF Sorted
  <1>3. s \in [1 .. n -> S]
    BY <1>2 DEF Sorted
  <1>4. ASSUME NEW x \in S PROVE \E i \in 1 .. n : s[i] = x
    <2>1. Cardinality(Before(R, S, x)) \in 0 .. n - 1
      BY RankIsBounded
    <2>2. PICK i \in 1 .. n : Cardinality(Before(R, S, x)) = i - 1
      BY <1>1, <2>1
    <2>3. s[i] \in S /\ Cardinality(Before(R, S, s[i])) = Cardinality(Before(R, S, x))
      BY <1>2, <2>2
    <2> QED
      BY <2>3, RanksDiffer
  <1>5. ASSUME NEW i \in 1 .. n, NEW j \in 1 .. n
        PROVE  (i < j <=> <<s[i], s[j]>> \in R) /\ (s[i] = s[j] => i = j)
    <2>1. s[i] \in S /\ s[j] \in S
      BY <1>2
    <2>2. /\ <<s[i], s[j]>> \in R => i < j
          /\ <<s[j], s[i]>> \in R => j < i
          /\ s[i] = s[j] => i = j
      <3>1. /\ <<s[i], s[j]>> \in R
               => Cardinality(Before(R, S, s[i])) < Cardinality(Before(R, S, s[j]))
            /\ <<s[j], s[i]>> \in R
               => Cardinality(Before(R, S, s[j])) < Cardinality(Before(R, S, s[i]))
        BY <2>1, RankIsMonotone
      <3> QED
        BY <1>1, <1>2, <3>1
    <2>3. s[i] = s[j] \/ <<s[i], s[j]>> \in R \/ <<s[j], s[i]>> \in R
      BY <2>1 DEF StrictOrder

    <2> QED
      BY <1>1, <2>2, <2>3
  <1> QED
    BY <1>1, <1>3, <1>4, <1>5

\* A set that is not empty has a first element.
LEMMA FirstElement ==
    ASSUME NEW S, IsFiniteSet(S), S # {}, NEW R, StrictOrder(R, S)
    PROVE  \E x \in S : \A y \in S \ {x} : <<x, y>> \in R
  <1>1. Cardinality(S) \in Nat \ {0}
    BY FS_CardinalityType, FS_EmptySet
  <1>2. PICK x \in S : Cardinality(Before(R, S, x)) = 0
    BY <1>1, RanksAreFilled
  <1>3. Before(R, S, x) = {}
    <2>1. IsFiniteSet(Before(R, S, x))
      BY FS_Subset DEF Before
    <2> QED
      BY <1>2, <2>1, FS_EmptySet
  <1> QED
    BY <1>3 DEF Before, StrictOrder

-----------------------------------------------------------------------------
(* Natural numbers. *)

\* Every set of natural numbers that is not empty has a least element.
LEMMA LeastNatural ==
    ASSUME NEW T \in SUBSET Nat, T # {}
    PROVE  \E m \in T : \A t \in T : m <= t
  <1>1. PICK n \in T : n \in Nat
    OBVIOUS
  <1> DEFINE S == {t \in T : t <= n}
             R == {p \in S \X S : p[1] < p[2]}
  <1>2. IsFiniteSet(S) /\ S # {}
    <2>1. n \in Int /\ 0 \in Int
      BY <1>1
    <2>2. S \subseteq 0 .. n
      <3> SUFFICES ASSUME NEW t \in S PROVE t \in 0 .. n
        OBVIOUS
      <3>1. t \in Nat /\ t <= n
        OBVIOUS
      <3> QED
        BY <1>1, <3>1
    <2>3. IsFiniteSet(0 .. n)
      BY <2>1, FS_Interval
    <2> QED
      BY <2>2, <2>3, <1>1, FS_Subset
  <1>3. StrictOrder(R, S)
    <2>1. \A x, y \in S : <<x, y>> \in R <=> x < y
      OBVIOUS
    <2>2. S \subseteq Nat
      OBVIOUS
    <2> HIDE DEF R, S
    <2> QED
      BY <2>1, <2>2 DEF StrictOrder
  <1>4. \E m \in S : \A y \in S \ {m} : <<m, y>> \in R
    <2> HIDE DEF R, S
    <2> QED
      BY <1>2, <1>3, FirstElement
  <1>5. PICK m \in S : \A y \in S \ {m} : m < y
    BY <1>4
  <1> QED
    BY <1>1, <1>5

\* Induction: a set that has 0 and with each number the next has them all.
LEMMA SetInduction ==
    ASSUME NEW P, 0 \in P, \A n \in Nat : n \in P => n + 1 \in P
    PROVE  Nat \subseteq P
  <1> SUFFICES ASSUME Nat \ P # {} PROVE FALSE
    OBVIOUS
  <1>1. PICK m \in Nat \ P : \A t \in Nat \ P : m <= t
    BY LeastNatural
  <1>2. m # 0 /\ m - 1 \in Nat
    BY <1>1
  <1>3. m - 1 \in P
    BY <1>1, <1>2
  <1> QED
    BY <1>1, <1>2, <1>3

-----------------------------------------------------------------------------
(* Work that ends. *)

Measures == Nat \X Nat \X Nat

\* The first number in which two measures differ is smaller in v.
Lower(v, w) ==
    \/ v[1] < w[1]
    \/ v[1] = w[1] /\ v[2] < w[2]
    \/ v[1] = w[1] /\ v[2] = w[2] /\ v[3] < w[3]

\* What lowers a measure with every step takes finitely many steps.
THEOREM NoEndlessDescent == ~ \E f \in [Nat -> Measures] : \A n \in Nat : Lower(f[n + 1], f[n])
  <1> SUFFICES ASSUME NEW f \in [Nat -> Measures], \A n \in Nat : Lower(f[n + 1], f[n])
               PROVE  FALSE
    OBVIOUS
  <1>1. \A n \in Nat : f[n][1] \in Nat /\ f[n][2] \in Nat /\ f[n][3] \in Nat
    BY DEF Measures
  <1> DEFINE First == {f[n][1] : n \in Nat}
  <1>2. PICK a \in Nat : a \in First /\ \A t \in First : a <= t
    BY <1>1, LeastNatural
  <1> DEFINE Second == {f[n][2] : n \in {k \in Nat : f[k][1] = a}}
  <1>3. PICK b \in Nat : b \in Second /\ \A t \in Second : b <= t
    <2>1. Second # {} /\ Second \in SUBSET Nat
      <3>1. PICK n \in Nat : f[n][1] = a
        BY <1>2
      <3>2. f[n][2] \in Second
        BY <3>1
      <3> QED
        BY <1>1, <3>2
    <2> HIDE DEF Second
    <2> QED
      BY <2>1, LeastNatural
  <1> DEFINE Third == {f[n][3] : n \in {k \in Nat : f[k][1] = a /\ f[k][2] = b}}
  <1>4. PICK c \in Nat : c \in Third /\ \A t \in Third : c <= t
    <2>1. Third # {} /\ Third \in SUBSET Nat
      <3>1. PICK n \in {k \in Nat : f[k][1] = a} : f[n][2] = b
        BY <1>3
      <3>2. f[n][3] \in Third
        BY <3>1
      <3> QED
        BY <1>1, <3>2
    <2> HIDE DEF Third
    <2> QED
      BY <2>1, LeastNatural
  <1>5. PICK n \in Nat : f[n][1] = a /\ f[n][2] = b /\ f[n][3] = c
    BY <1>4
  <1>6. n + 1 \in Nat /\ Lower(f[n + 1], f[n])
    OBVIOUS
  <1>7. a <= f[n + 1][1]
    BY <1>2, <1>6
  <1>8. f[n + 1][1] = a
    BY <1>1, <1>5, <1>6, <1>7 DEF Lower
  <1>9. b <= f[n + 1][2]
    BY <1>3, <1>6, <1>8
  <1>10. f[n + 1][2] = b
    BY <1>1, <1>5, <1>6, <1>8, <1>9 DEF Lower
  <1>11. c <= f[n + 1][3]
    BY <1>4, <1>6, <1>8, <1>10
  <1> QED
    BY <1>1, <1>5, <1>6, <1>8, <1>10, <1>11 DEF Lower
=============================================================================
