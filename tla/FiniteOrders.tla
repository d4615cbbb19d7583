----------------------------- MODULE FiniteOrders -----------------------------
(***************************************************************************)
(* Facts about finite, strictly ordered sets that the proofs about sorted  *)
(* vectors and about rounding rest on.  An order is a set of pairs; the    *)
(* rank of an element, its index in the sorted vector, is the number of    *)
(* elements before it.                                                     *)
(***************************************************************************)
EXTENDS Integers, FiniteSets, FiniteSetsExt, FiniteSetTheorems, FunctionTheorems, TLAPS

IsStrictOrder(R, A) ==
  /\ \A x \in A : <<x, x>> \notin R
  /\ \A x, y, z \in A : <<x, y>> \in R /\ <<y, z>> \in R => <<x, z>> \in R
  /\ \A x, y \in A : x # y => <<x, y>> \in R \/ <<y, x>> \in R

Before(R, A, x) == {y \in A : <<y, x>> \in R}

Rank(R, A, x) == Cardinality(Before(R, A, x))

\* The indices of a sorted vector are in the order of its elements.
LEMMA RankMonotone ==
  ASSUME NEW A, IsFiniteSet(A), NEW R, IsStrictOrder(R, A), NEW x \in A, NEW y \in A
  PROVE  /\ Rank(R, A, x) \in Nat
         /\ Rank(R, A, x) < Cardinality(A)
         /\ <<x, y>> \in R <=> Rank(R, A, x) < Rank(R, A, y)
<1>1. \A z \in A : IsFiniteSet(Before(R, A, z)) /\ Rank(R, A, z) \in Nat
  BY FS_Subset, FS_CardinalityType DEF Before, Rank
<1>2. \A u, v \in A : <<u, v>> \in R => Rank(R, A, u) < Rank(R, A, v)
  <2> SUFFICES ASSUME NEW u \in A, NEW v \in A, <<u, v>> \in R
               PROVE  Rank(R, A, u) < Rank(R, A, v)
    OBVIOUS
  <2>1. /\ Before(R, A, u) \in SUBSET Before(R, A, v)
        /\ u \in Before(R, A, v) /\ u \notin Before(R, A, u)
    BY DEF Before, IsStrictOrder
  <2> QED
    BY <1>1, <2>1, FS_Subset DEF Rank
<1>3. Rank(R, A, x) < Cardinality(A)
  <2>1. Before(R, A, x) \in SUBSET A /\ x \notin Before(R, A, x)
    BY DEF Before, IsStrictOrder
  <2> QED
    BY <1>1, <2>1, FS_Subset, FS_CardinalityType DEF Rank
<1>4. Rank(R, A, x) < Rank(R, A, y) => <<x, y>> \in R
  <2> SUFFICES ASSUME Rank(R, A, x) < Rank(R, A, y), <<x, y>> \notin R PROVE FALSE
    OBVIOUS
  <2>1. x = y \/ <<y, x>> \in R
    BY DEF IsStrictOrder
  <2> QED
    BY <1>1, <1>2, <2>1
<1> QED
  BY <1>1, <1>2, <1>3, <1>4

\* Every index is taken by exactly one element.
LEMMA RankBijection ==
  ASSUME NEW A, IsFiniteSet(A), NEW R, IsStrictOrder(R, A)
  PROVE  /\ Cardinality(A) \in Nat
         /\ [x \in A |-> Rank(R, A, x)] \in Bijection(A, 0 .. Cardinality(A) - 1)
<1> DEFINE f == [x \in A |-> Rank(R, A, x)]
           T == 0 .. Cardinality(A) - 1
<1>1. Cardinality(A) \in Nat
  BY FS_CardinalityType
<1>2. f \in [A -> T]
  <2>1. \A x \in A : Rank(R, A, x) \in Nat /\ Rank(R, A, x) < Cardinality(A)
    BY RankMonotone
  <2> QED
    BY <1>1, <2>1
<1>3. \A x, y \in A : f[x] = f[y] => x = y
  <2> SUFFICES ASSUME NEW x \in A, NEW y \in A, x # y PROVE f[x] # f[y]
    OBVIOUS
  <2>1. <<x, y>> \in R \/ <<y, x>> \in R
    BY DEF IsStrictOrder
  <2> QED
    BY <2>1, RankMonotone
<1>4. IsFiniteSet(T) /\ Cardinality(T) = Cardinality(A)
  BY <1>1, FS_Interval
<1> HIDE DEF f, T
<1>5. f \in Injection(A, T)
  BY <1>2, <1>3, Fun_IsInj
<1>6. f \in Surjection(A, T)
  BY <1>4, <1>5, FS_Injection
<1> QED
  BY <1>1, <1>5, <1>6, Fun_IsBij DEF f, T

\* A nonempty set has a first element.
LEMMA FirstExists ==
  ASSUME NEW A, IsFiniteSet(A), A # {}, NEW R, IsStrictOrder(R, A)
  PROVE  \E x \in A : \A y \in A \ {x} : <<x, y>> \in R
<1> DEFINE f == [x \in A |-> Rank(R, A, x)]
           T == 0 .. Cardinality(A) - 1
<1>1. f \in Bijection(A, T) /\ Cardinality(A) \in Nat
  BY RankBijection
<1>2. 0 \in T
  BY <1>1, FS_EmptySet
<1>3. PICK x \in A : f[x] = 0
  <2> HIDE DEF f, T
  <2> QED
    BY <1>1, <1>2, Fun_BijectionProperties
<1>4. \A y \in A \ {x} : <<x, y>> \in R
  <2> SUFFICES ASSUME NEW y \in A, y # x PROVE <<x, y>> \in R
    OBVIOUS
  <2>1. Rank(R, A, x) = 0 /\ Rank(R, A, y) \in Nat
    BY <1>3, RankMonotone
  <2>2. <<y, x>> \notin R
    BY <2>1, RankMonotone
  <2> QED
    BY <2>2 DEF IsStrictOrder
<1> QED
  BY <1>4

\* Of a sorted vector, the indices below k are those of k elements, or of all.
LEMMA FirstRanks ==
  ASSUME NEW A, IsFiniteSet(A), NEW R, IsStrictOrder(R, A), NEW k \in Nat
  PROVE  LET S == {x \in A : Rank(R, A, x) < k}
         IN  Cardinality(S) = k \/ (S = A /\ Cardinality(A) < k)
<1> DEFINE f == [x \in A |-> Rank(R, A, x)]
           n == Cardinality(A)
           S == {x \in A : Rank(R, A, x) < k}
<1>1. f \in Bijection(A, 0 .. n - 1) /\ n \in Nat
  BY RankBijection
<1>0. \A x \in A : Rank(R, A, x) \in Nat /\ Rank(R, A, x) < n
  BY RankMonotone
<1>2. CASE n < k
  <2>1. S = A
    BY <1>0, <1>1, <1>2
  <2> QED
    BY <1>2, <2>1
<1>3. CASE k <= n
  <2> DEFINE g == [x \in S |-> f[x]]
             K == 0 .. k - 1
  <2>1. g \in [S -> K]
    BY <1>0
  <2>2. \A x, y \in A : f[x] = f[y] => x = y
    <3> HIDE DEF f, n
    <3> QED
      BY <1>1, Fun_BijectionProperties
  <2>3. \A i \in K : \E x \in S : g[x] = i
    <3> SUFFICES ASSUME NEW i \in K PROVE \E x \in S : g[x] = i
      OBVIOUS
    <3>1. i \in 0 .. n - 1
      BY <1>1, <1>3
    <3>2. PICK x \in A : f[x] = i
      <4> HIDE DEF f, n, K
      <4> QED
        BY <1>1, <3>1, Fun_BijectionProperties
    <3>3. x \in S
      BY <3>2
    <3> QED
      BY <3>2, <3>3
  <2>4. \A x, y \in S : g[x] = g[y] => x = y
    BY <2>2
  <2>5. IsFiniteSet(K) /\ Cardinality(K) = k
    BY FS_Interval
  <2> HIDE DEF g, S, K
  <2>6. g \in Injection(S, K)
    BY <2>1, <2>4, Fun_IsInj
  <2>7. g \in Surjection(S, K)
    BY <2>1, <2>3, Fun_IsSurj
  <2>8. Cardinality(S) = k
    BY <2>5, <2>6, <2>7, FS_Injection
  <2> QED
    BY <2>8 DEF S
<1> QED
  BY <1>1, <1>2, <1>3

\* A finite set of integers has a largest and a smallest element.
LEMMA MaxOf ==
  ASSUME NEW S \in SUBSET Int, IsFiniteSet(S), S # {}
  PROVE  Max(S) \in S /\ \A y \in S : y <= Max(S)
<1> DEFINE R == {p \in S \X S : p[1] > p[2]}
<1>1. IsStrictOrder(R, S)
  BY DEF IsStrictOrder
<1>2. PICK x \in S : \A y \in S \ {x} : <<x, y>> \in R
  BY <1>1, FirstExists
<1>3. \A y \in S : x >= y
  <2>1. S \subseteq Int /\ \A y \in S \ {x} : x > y
    BY <1>2
  <2> QED
    BY <2>1
<1>4. Max(S) \in S /\ \A y \in S : Max(S) >= y
  BY <1>3 DEF Max
<1> QED
  BY <1>4

LEMMA MinOf ==
  ASSUME NEW S \in SUBSET Int, IsFiniteSet(S), S # {}
  PROVE  Min(S) \in S /\ \A y \in S : Min(S) <= y
<1> DEFINE R == {p \in S \X S : p[1] < p[2]}
<1>1. IsStrictOrder(R, S)
  BY DEF IsStrictOrder
<1>2. PICK x \in S : \A y \in S \ {x} : <<x, y>> \in R
  BY <1>1, FirstExists
<1>3. \A y \in S : x <= y
  <2>1. S \subseteq Int /\ \A y \in S \ {x} : x < y
    BY <1>2
  <2> QED
    BY <2>1
<1>4. Min(S) \in S /\ \A y \in S : Min(S) <= y
  BY <1>3 DEF Min
<1> QED
  BY <1>4
===============================================================================
