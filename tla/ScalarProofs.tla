----------------------------- MODULE ScalarProofs -----------------------------
(***************************************************************************)
(* convertScalar and ConfigValue::of are exact, for every width of the     *)
(* integers and every precision and range of the floating-point formats.   *)
(* Powers of two first, then rounding and truncation, then the cases.      *)
(***************************************************************************)
EXTENDS AlgorithmsProofs, FiniteOrders

-------------------------------------------------------------------------------
(***************************************************************************)
(* Powers of two, as the number of subsets.                                *)
(***************************************************************************)
LEMMA PowerIsCount ==
  ASSUME NEW S, IsFiniteSet(S), NEW n \in Nat, Cardinality(S) = n
  PROVE  IsFiniteSet(SUBSET S) /\ Cardinality(SUBSET S) = Pow2(n)
<1>1. IsFiniteSet(SUBSET S)
  BY FS_SUBSET, Zenon
<1>2. Cardinality(SUBSET S) = 2^Cardinality(S)
  BY FS_SUBSET, Zenon
<1> QED
  BY <1>1, <1>2, Zenon DEF Pow2

LEMMA IntervalSize ==
  ASSUME NEW a \in Nat, NEW b \in Nat
  PROVE  IsFiniteSet(a+1 .. a+b) /\ Cardinality(a+1 .. a+b) = b
<1>1. a + 1 \in Int /\ a + b \in Int
  OBVIOUS
<1>2. Cardinality(a+1 .. a+b) = IF a + 1 > a + b THEN 0 ELSE a + b - (a + 1) + 1
  BY <1>1, FS_Interval
<1>3. IsFiniteSet(a+1 .. a+b)
  BY <1>1, FS_Interval
<1>4. (IF a + 1 > a + b THEN 0 ELSE a + b - (a + 1) + 1) = b
  OBVIOUS
<1> QED
  BY <1>2, <1>3, <1>4

LEMMA PowerType ==
  ASSUME NEW n \in Nat
  PROVE  Pow2(n) \in Nat \ {0}
<1>1. IsFiniteSet(0+1 .. 0+n) /\ Cardinality(0+1 .. 0+n) = n
  BY IntervalSize
<1> DEFINE S == 0+1 .. 0+n
<1>2. IsFiniteSet(SUBSET S) /\ Cardinality(SUBSET S) = Pow2(n)
  <2> HIDE DEF S
  <2> QED
    BY <1>1, PowerIsCount DEF S
<1>3. SUBSET S # {}
  OBVIOUS
<1> HIDE DEF S
<1> QED
  BY <1>2, <1>3, FS_CardinalityType, FS_EmptySet

\* 2^(a+b) = 2^a * 2^b: a subset of a union is a pair of subsets.
LEMMA PowerOfSum ==
  ASSUME NEW a \in Nat, NEW b \in Nat
  PROVE  Pow2(a + b) = Pow2(a) * Pow2(b)
<1> DEFINE A == 0+1 .. 0+a
           B == a+1 .. a+b
           U == 0+1 .. 0+(a + b)
           f == [X \in SUBSET U |-> <<X \cap A, X \cap B>>]
<1>1. /\ IsFiniteSet(A) /\ Cardinality(A) = a
      /\ IsFiniteSet(B) /\ Cardinality(B) = b
      /\ IsFiniteSet(U) /\ Cardinality(U) = a + b
  <2>1. 0 \in Nat /\ a + b \in Nat
    OBVIOUS
  <2>2. IsFiniteSet(A) /\ Cardinality(A) = a
    BY <2>1, IntervalSize, Zenon
  <2>3. IsFiniteSet(B) /\ Cardinality(B) = b
    BY IntervalSize, Zenon
  <2>4. IsFiniteSet(U) /\ Cardinality(U) = a + b
    BY <2>1, IntervalSize, Zenon
  <2> QED
    BY <2>2, <2>3, <2>4
<1>2. U = A \cup B /\ A \cap B = {}
  OBVIOUS
<1> HIDE DEF A, B, U
<1>3. /\ IsFiniteSet(SUBSET A) /\ Cardinality(SUBSET A) = Pow2(a)
      /\ IsFiniteSet(SUBSET B) /\ Cardinality(SUBSET B) = Pow2(b)
      /\ IsFiniteSet(SUBSET U) /\ Cardinality(SUBSET U) = Pow2(a + b)
  BY <1>1, PowerIsCount
<1>4. f \in [SUBSET U -> (SUBSET A) \X (SUBSET B)]
  OBVIOUS
<1>5. \A X, Y \in SUBSET U : f[X] = f[Y] => X = Y
  BY <1>2
<1>6. ASSUME NEW p \in (SUBSET A) \X (SUBSET B) PROVE \E X \in SUBSET U : f[X] = p
  <2>1. PICK X \in SUBSET A, Y \in SUBSET B : p = <<X, Y>>
    OBVIOUS
  <2>2. (X \cup Y) \cap A = X /\ (X \cup Y) \cap B = Y /\ X \cup Y \in SUBSET U
    BY <1>2
  <2>3. f[X \cup Y] = p
    BY <2>1, <2>2
  <2> QED
    BY <2>2, <2>3
<1> HIDE DEF f
<1>7. f \in Bijection(SUBSET U, (SUBSET A) \X (SUBSET B))
  BY <1>4, <1>5, <1>6 DEF Bijection, Injection, Surjection, IsInjective
<1>8. Cardinality((SUBSET A) \X (SUBSET B)) = Cardinality(SUBSET U)
  BY <1>3, <1>7, FS_Bijection DEF ExistsBijection
<1>9. Cardinality((SUBSET A) \X (SUBSET B)) = Cardinality(SUBSET A) * Cardinality(SUBSET B)
  BY <1>3, FS_Product
<1> QED
  BY <1>3, <1>8, <1>9

LEMMA PowerDoubles ==
  ASSUME NEW n \in Nat \ {0}
  PROVE  Pow2(n) = 2 * Pow2(n - 1) /\ n - 1 \in Nat
<1>1. Pow2(1) = 2
  <2> DEFINE Z == {0}
             T == {{}}
  <2>1. Cardinality(Z) = 1 /\ IsFiniteSet(Z) /\ Cardinality(T) = 1 /\ IsFiniteSet(T)
    BY FS_Singleton
  <2>2. SUBSET Z = T \cup {Z} /\ Z \notin T
    OBVIOUS
  <2> HIDE DEF T, Z
  <2>3. Cardinality(SUBSET Z) = Pow2(1)
    BY <2>1, PowerIsCount
  <2>4. Cardinality(T \cup {Z}) = Cardinality(T) + 1
    BY <2>1, <2>2, FS_AddElement
  <2>5. Cardinality(SUBSET Z) = Cardinality(T \cup {Z})
    BY <2>2, Zenon
  <2> QED
    BY <2>1, <2>3, <2>4, <2>5
<1>2. n - 1 \in Nat /\ (n - 1) + 1 = n
  OBVIOUS
<1>3. Pow2((n - 1) + 1) = Pow2(n - 1) * Pow2(1)
  BY <1>2, PowerOfSum
<1> QED
  BY <1>1, <1>2, <1>3, PowerType

LEMMA PowerGrows ==
  ASSUME NEW a \in Nat, NEW b \in Nat, a <= b
  PROVE  Pow2(a) <= Pow2(b)
<1>1. b - a \in Nat /\ a + (b - a) = b
  OBVIOUS
<1>2. Pow2(a + (b - a)) = Pow2(a) * Pow2(b - a)
  BY <1>1, PowerOfSum
<1>3. \A x, y \in Nat \ {0} : x <= x * y
  OBVIOUS
<1> QED
  BY <1>1, <1>2, <1>3, PowerType

-------------------------------------------------------------------------------
(***************************************************************************)
(* Numbers of a format, and the numbers next to one that is not.           *)
(***************************************************************************)
\* A number of a format is its sign, its significand and its exponent.
LEMMA GridElement ==
  ASSUME NEW F \in DOMAIN Formats, NEW g
  PROVE  g \in Grids[F] <=>
           \E s \in {-1, 1}, m \in 0..Pow2(Formats[F].precision) - 1,
              e \in Formats[F].min..Formats[F].max : g = s * m * Pow2(e)
<1>1. Grids[F] = Grid(F)
  BY DEF Grids
<1> QED
  BY <1>1 DEF Grid

LEMMA FormatType ==
  ASSUME NEW F \in DOMAIN Formats
  PROVE  /\ Formats[F].min \in Nat /\ Formats[F].max \in Nat
         /\ Pow2(Formats[F].precision) \in Nat \ {0}
         /\ \A e \in Formats[F].min..Formats[F].max : e \in Nat /\ Pow2(e) \in Nat \ {0}
<1>1. Formats[F] \in [precision : Nat \ {0}, min : Nat, max : Nat]
  BY NumberAssumption
<1>2. \A e \in Formats[F].min..Formats[F].max : e \in Nat
  BY <1>1
<1> QED
  BY <1>1, <1>2, PowerType

LEMMA GridIntegers ==
  ASSUME NEW F \in DOMAIN Formats
  PROVE  Grids[F] \subseteq Int /\ \A g \in Grids[F] : -g \in Grids[F]
<1> SUFFICES ASSUME NEW g \in Grids[F] PROVE g \in Int /\ -g \in Grids[F]
  OBVIOUS
<1>1. PICK s \in {-1, 1}, m \in 0..Pow2(Formats[F].precision) - 1,
           e \in Formats[F].min..Formats[F].max : g = s * m * Pow2(e)
  BY GridElement
<1>2. m \in Int /\ Pow2(e) \in Int /\ s \in Int /\ -s \in {-1, 1}
  BY FormatType
<1> DEFINE E == Pow2(e)
<1>3. g = s * m * E /\ E \in Int
  BY <1>1, <1>2
<1> HIDE DEF E
<1>4. g \in Int /\ -g = (-s) * m * E
  BY <1>2, <1>3
<1> QED
  BY <1>2, <1>4, GridElement DEF E

LEMMA GridFinite ==
  ASSUME NEW F \in DOMAIN Formats
  PROVE  IsFiniteSet(Grids[F])
<1> DEFINE M == 0..Pow2(Formats[F].precision) - 1
           X == Formats[F].min..Formats[F].max
           P == {-1, 1} \X M
           f == [t \in P \X X |-> t[1][1] * t[1][2] * Pow2(t[2])]
<1>1. IsFiniteSet(M)
  <2>1. 0 \in Int /\ Pow2(Formats[F].precision) - 1 \in Int
    BY FormatType
  <2> QED
    BY <2>1, FS_Interval
<1>2. IsFiniteSet(X)
  <2>1. Formats[F].min \in Int /\ Formats[F].max \in Int
    BY FormatType
  <2> QED
    BY <2>1, FS_Interval
<1>3. IsFiniteSet({-1, 1})
  <2> DEFINE a == -1
  <2>1. a \in Int /\ 1 \in Int /\ {a, 1} \in SUBSET (a..1)
    OBVIOUS
  <2>2. IsFiniteSet(a..1)
    <3> HIDE DEF a
    <3> QED
      BY <2>1, FS_Interval
  <2> QED
    BY <2>1, <2>2, FS_Subset
<1> HIDE DEF M, X
<1>4. IsFiniteSet(P)
  BY <1>1, <1>3, FS_Product
<1>5. IsFiniteSet(P \X X)
  <2> HIDE DEF P
  <2> QED
    BY <1>2, <1>4, FS_Product
<1>6. \A s \in {-1, 1}, m \in M, e \in X : f[<<<<s, m>>, e>>] = s * m * Pow2(e)
  OBVIOUS
<1>7. f \in [P \X X -> Grids[F]]
  <2>1. \A t \in P \X X : \E s \in {-1, 1}, m \in M, e \in X : t = <<<<s, m>>, e>>
    OBVIOUS
  <2>2. \A t \in P \X X : f[t] \in Grids[F]
    BY <1>6, <2>1, GridElement DEF M, X
  <2> QED
    BY <2>2
<1>8. \A g \in Grids[F] : \E t \in P \X X : f[t] = g
  <2> SUFFICES ASSUME NEW g \in Grids[F] PROVE \E t \in P \X X : f[t] = g
    OBVIOUS
  <2>1. PICK s \in {-1, 1}, m \in M, e \in X : g = s * m * Pow2(e)
    BY GridElement DEF M, X
  <2>2. <<<<s, m>>, e>> \in P \X X
    OBVIOUS
  <2> QED
    BY <1>6, <2>1, <2>2
<1> HIDE DEF f, P
<1>9. f \in Surjection(P \X X, Grids[F])
  BY <1>7, <1>8 DEF Surjection
<1> QED
  BY <1>5, <1>9, FS_Surjection

\* Rounding keeps what the format has, and yields what it has otherwise.
LEMMA RoundFacts ==
  ASSUME NEW F \in DOMAIN Formats, NEW x \in Int,
         NEW lo \in Grids[F], NEW hi \in Grids[F], lo <= x, x <= hi
  PROVE  /\ Round(F, x) \in Grids[F]
         /\ x \in Grids[F] => Round(F, x) = x
<1> DEFINE L == {g \in Grids[F] : g <= x}
           H == {g \in Grids[F] : g >= x}
           below == Max(L)
           above == Min(H)
<1>1. L \in SUBSET Int /\ H \in SUBSET Int /\ lo \in L /\ hi \in H
  BY GridIntegers
<1>2. IsFiniteSet(L) /\ IsFiniteSet(H)
  BY GridFinite, FS_Subset
<1>3. below \in L /\ \A y \in L : y <= below
  BY <1>1, <1>2, MaxOf
<1>4. above \in H /\ \A y \in H : above <= y
  BY <1>1, <1>2, MinOf
<1>5. below \in Grids[F] /\ above \in Grids[F] /\ below \in Int /\ above \in Int
      /\ below <= x /\ x <= above
  BY <1>1, <1>3, <1>4
<1>6. below = above => x = below
  BY <1>5
<1>7. x \in Grids[F] => below = above
  <2> SUFFICES ASSUME x \in Grids[F] PROVE below = above
    OBVIOUS
  <2>1. x <= below /\ above <= x
    BY <1>3, <1>4
  <2> QED
    BY <1>5, <2>1
<1> HIDE DEF below, above
<1>8. Round(F, x) = x \/ Round(F, x) \in {below, above}
  BY DEF Round, below, above
<1>9. below = above => Round(F, x) = x
  BY DEF Round, below, above
<1>10. below # above => Round(F, x) \in {below, above}
  BY DEF Round, below, above
<1> QED
  BY <1>5, <1>6, <1>7, <1>9, <1>10

-------------------------------------------------------------------------------
(***************************************************************************)
(* Truncation.                                                             *)
(***************************************************************************)
LEMMA UnitType == Unit \in Nat \ {0} /\ \E k \in Nat : Unit = Pow2(k)
<1>1. PICK k \in 0..Unit : Unit = Pow2(k)
  BY NumberAssumption
<1>2. Unit \in Nat
  BY NumberAssumption
<1>3. k \in Nat
  BY <1>2
<1> QED
  BY <1>1, <1>3, PowerType

\* The order of multiples, and division with remainder.
LEMMA Multiples ==
  ASSUME NEW u \in Nat \ {0}, NEW a \in Int, NEW b \in Int
  PROVE  /\ u * a \in Int /\ u * b \in Int
         /\ u * a <= u * b <=> a <= b
         /\ u * a < u * b <=> a < b
         /\ u * a = u * b <=> a = b
  OBVIOUS

LEMMA Division ==
  ASSUME NEW u \in Nat \ {0}, NEW x \in Nat
  PROVE  /\ x \div u \in Nat
         /\ u * (x \div u) <= x /\ x < u * (x \div u) + u
         /\ \A n \in Nat : x = u * n => x \div u = n
<1>1. x = u * (x \div u) + (x % u) /\ x \div u \in Nat /\ x % u \in 0..u-1
  OBVIOUS
<1>2. \A n \in Nat : x = u * n => x \div u = n
  OBVIOUS
<1> QED
  BY <1>1, <1>2

\* Truncate(x) is a multiple of the unit, x itself if x is one, and within
\* limits that are multiples.
LEMMA TruncateFacts ==
  ASSUME NEW x \in Int
  PROVE  \E t \in Int :
           /\ Truncate(x) = Unit * t
           /\ \A n \in Int : x = Unit * n => t = n
           /\ \A a \in Int : a <= 0 /\ Unit * a <= x => a <= t
           /\ \A b \in Int : b > 0 /\ x < Unit * b => t < b
           /\ x >= 0 => t >= 0 /\ Unit * t <= x
           /\ Truncate(-x) = -(Unit * t)
<1> DEFINE u == Unit
<1>0. u \in Nat \ {0}
  BY UnitType
<1>1. CASE x >= 0
  <2> DEFINE t == x \div u
  <2>1. /\ t \in Nat /\ u * t <= x /\ x < u * t + u
        /\ \A n \in Nat : x = u * n => t = n
    BY <1>0, <1>1, Division
  <2>2. Truncate(x) = t * u
    BY <1>1 DEF Truncate
  <2>3. Truncate(-x) = -(t * u)
    <3>1. CASE x = 0
      <4>1. t = 0
        BY <1>0, <2>1, <3>1
      <4>2. Truncate(-x) = Truncate(x)
        BY <3>1
      <4> QED
        BY <1>0, <2>2, <4>1, <4>2
    <3>2. CASE x > 0
      <4>1. -x < 0 /\ -(-x) = x
        BY <3>2
      <4>2. Truncate(-x) = (-t) * u
        BY <4>1 DEF Truncate
      <4> QED
        BY <1>0, <2>1, <4>2
    <3> QED
      BY <1>1, <3>1, <3>2
  <2>4. t * u = u * t /\ u * t \in Int
    BY <1>0, <2>1
  <2> HIDE DEF u, t
  <2>5. \A n \in Int : x = u * n => t = n
    <3> SUFFICES ASSUME NEW n \in Int, x = u * n PROVE t = n
      OBVIOUS
    <3>1. n >= 0
      BY <1>0, <1>1, Multiples
    <3> QED
      BY <2>1, <3>1
  <2>6. \A b \in Int : b > 0 /\ x < u * b => t < b
    <3> SUFFICES ASSUME NEW b \in Int, x < u * b PROVE t < b
      OBVIOUS
    <3>1. u * t < u * b
      BY <1>0, <2>1, <2>4, Multiples
    <3> QED
      BY <1>0, <2>1, <3>1, Multiples
  <2> QED
    BY <2>1, <2>2, <2>3, <2>4, <2>5, <2>6 DEF u
<1>2. CASE x < 0
  <2> DEFINE q == (-x) \div u
             t == -q
  <2>0. -x \in Nat /\ ~(-x < 0)
    BY <1>2
  <2>1. /\ q \in Nat /\ u * q <= -x /\ -x < u * q + u
        /\ \A n \in Nat : -x = u * n => q = n
    BY <1>0, <2>0, Division
  <2>2. Truncate(x) = (-q) * u
    BY <1>2 DEF Truncate
  <2>3. Truncate(-x) = q * u
    BY <2>0 DEF Truncate
  <2>4. (-q) * u = u * t /\ q * u = -(u * t) /\ u * t \in Int /\ t \in Int /\ t <= 0 /\ u * t = -(u * q)
    BY <1>0, <2>1
  <2> HIDE DEF u, q
  <2>5. \A n \in Int : x = u * n => t = n
    <3> SUFFICES ASSUME NEW n \in Int, x = u * n PROVE t = n
      OBVIOUS
    <3>1. -x = u * (-n)
      BY <1>0
    <3>2. -n >= 0
      BY <1>0, <1>2, <3>1
    <3> QED
      BY <2>1, <3>1, <3>2
  <2>6. \A a \in Int : u * a <= x => a <= t
    <3> SUFFICES ASSUME NEW a \in Int, u * a <= x PROVE a <= t
      OBVIOUS
    <3>1. u * a <= u * t
      BY <1>0, <2>1, <2>4, Multiples
    <3> QED
      BY <1>0, <2>4, <3>1, Multiples
  <2> HIDE DEF t
  <2> QED
    BY <1>2, <2>2, <2>3, <2>4, <2>5, <2>6 DEF u
<1> QED
  BY <1>1, <1>2

\* Truncating a number of a format yields a number of the format: below the
\* unit only low bits of the significand go.
LEMMA TruncateInGrid ==
  ASSUME NEW F \in DOMAIN Formats, NEW g \in Grids[F]
  PROVE  Truncate(g) \in Grids[F]
<1>1. PICK s \in {-1, 1}, m \in 0..Pow2(Formats[F].precision) - 1,
           e \in Formats[F].min..Formats[F].max : g = s * m * Pow2(e)
  BY GridElement
<1> DEFINE E == Pow2(e)
           x == m * E
<1>2. m \in Nat /\ E \in Nat \ {0} /\ e \in Nat /\ x \in Nat
  <2>1. m \in Nat /\ E \in Nat \ {0} /\ e \in Nat
    BY FormatType
  <2> QED
    BY <2>1
<1>3. PICK k \in Nat : Unit = Pow2(k)
  BY UnitType
<1>4. Unit \in Nat \ {0}
  BY UnitType
<1>5. PICK t \in Int : /\ Truncate(x) = Unit * t
                       /\ \A n \in Int : x = Unit * n => t = n
                       /\ t >= 0 /\ Unit * t <= x
                       /\ Truncate(-x) = -(Unit * t)
  <2> HIDE DEF x
  <2>1. x \in Int /\ x >= 0
    BY <1>2
  <2>2. \E t \in Int : /\ Truncate(x) = Unit * t
                       /\ \A n \in Int : x = Unit * n => t = n
                       /\ x >= 0 => t >= 0 /\ Unit * t <= x
                       /\ Truncate(-x) = -(Unit * t)
    BY <2>1, TruncateFacts
  <2> QED
    BY <2>1, <2>2
<1>6. \E n \in 0..m : Unit * t = n * E
  <2>1. CASE k <= e
    <3>1. e - k \in Nat /\ k + (e - k) = e
      BY <1>2, <2>1
    <3> DEFINE D == Pow2(e - k)
    <3>2. E = Unit * D /\ D \in Nat
      BY <1>3, <3>1, PowerOfSum, PowerType
    <3> HIDE DEF D, E
    <3>3. x = Unit * (m * D) /\ m * D \in Int
      BY <1>2, <1>4, <3>2
    <3>4. Unit * t = x
      BY <1>5, <3>3
    <3> QED
      BY <1>2, <3>4
  <2>2. CASE k > e
    <3>1. k - e \in Nat /\ e + (k - e) = k
      BY <1>2, <2>2
    <3> DEFINE D == Pow2(k - e)
    <3>2. Unit = E * D /\ D \in Nat
      BY <1>2, <1>3, <3>1, PowerOfSum, PowerType
    <3> HIDE DEF D, E
    <3>3. Unit * t = (D * t) * E /\ D * t \in Nat
      BY <1>2, <1>5, <3>2
    <3>4. E * (D * t) <= E * m
      BY <1>2, <1>5, <3>3
    <3>5. D * t <= m
      BY <1>2, <3>3, <3>4, Multiples
    <3> QED
      BY <1>2, <3>3, <3>5
  <2> QED
    BY <1>2, <2>1, <2>2
<1>7. PICK n \in 0..m : Unit * t = n * E
  BY <1>6
<1>8. n \in 0..Pow2(Formats[F].precision) - 1 /\ n \in Nat
  BY <1>2, FormatType
<1> HIDE DEF E, x
<1>9. CASE s = 1
  <2>1. g = x
    BY <1>1, <1>2, <1>9 DEF x, E
  <2>2. Truncate(g) = s * n * E
    BY <1>2, <1>5, <1>7, <1>8, <1>9, <2>1
  <2> QED
    BY <1>8, <2>2, GridElement DEF E
<1>10. CASE s = -1
  <2>1. g = -x
    BY <1>1, <1>2, <1>10 DEF x, E
  <2>2. Truncate(g) = s * n * E
    BY <1>2, <1>5, <1>7, <1>8, <1>10, <2>1
  <2> QED
    BY <1>8, <2>2, GridElement DEF E
<1> QED
  BY <1>9, <1>10

-------------------------------------------------------------------------------
(***************************************************************************)
(* The ranges of the integer types.                                        *)
(***************************************************************************)
Half == Pow2(IntBits - 1)

LEMMA WidthFacts ==
  /\ Half \in Nat \ {0}
  /\ KInt64Lo = Unit * (-Half) /\ KInt64Hi = Unit * Half /\ KUint64Hi = Unit * (2 * Half)
  /\ Bounds(IntBits, TRUE)[1] = -Half /\ Bounds(IntBits, TRUE)[2] = Half - 1
  /\ Bounds(IntBits, FALSE)[1] = 0 /\ Bounds(IntBits, FALSE)[2] = 2 * Half - 1
<1>1. IntBits \in Nat \ {0}
  BY NumberAssumption
<1>2. Half \in Nat \ {0} /\ Pow2(IntBits) = 2 * Half
  BY <1>1, PowerDoubles, PowerType DEF Half
<1>3. Unit \in Nat
  BY UnitType
<1>4. KInt64Lo = -(Half * Unit) /\ KInt64Hi = Half * Unit /\ KUint64Hi = (2 * Half) * Unit
  BY <1>2 DEF KInt64Lo, KInt64Hi, KUint64Hi, Half
<1>5. KInt64Lo = Unit * (-Half) /\ KInt64Hi = Unit * Half /\ KUint64Hi = Unit * (2 * Half)
  BY <1>2, <1>3, <1>4
<1> QED
  BY <1>2, <1>5 DEF Bounds, Half

Lo(T) == Bounds(T.bits, T.signed)[1]
Hi(T) == Bounds(T.bits, T.signed)[2]

\* The limits of a target are integers within those of its signedness.
LEMMA TargetBounds ==
  ASSUME NEW T \in IntegerTypes
  PROVE  /\ T.kind = "integer" /\ T.signed \in BOOLEAN
         /\ Lo(T) \in Int /\ Hi(T) \in Int /\ Lo(T) <= 0 /\ 0 <= Hi(T)
         /\ T.signed => /\ -Half <= Lo(T) /\ Hi(T) < Half
                        /\ Lo(T) = Bounds(T.bits, TRUE)[1] /\ Hi(T) = Bounds(T.bits, TRUE)[2]
         /\ ~T.signed => /\ Lo(T) = 0 /\ Hi(T) < 2 * Half
                         /\ Hi(T) = Bounds(T.bits, FALSE)[2]
<1>1. PICK b \in {NarrowBits, IntBits}, s \in BOOLEAN : T = IntegerType(b, s)
  BY DEF IntegerTypes
<1>2. T.kind = "integer" /\ T.bits = b /\ T.signed = s
  BY <1>1 DEF IntegerType
<1>3. IntBits \in Nat \ {0}
  BY NumberAssumption
<1>4. b \in Nat \ {0} /\ b <= IntBits
  BY <1>3, WidthAssumption
<1>5. /\ Pow2(b) \in Nat \ {0} /\ Pow2(b - 1) \in Nat \ {0} /\ Half \in Nat
      /\ Pow2(b) <= 2 * Half /\ Pow2(b - 1) <= Half
  <2>1. b - 1 \in Nat /\ b - 1 <= IntBits - 1 /\ IntBits - 1 \in Nat
    BY <1>3, <1>4
  <2>2. Pow2(b) = 2 * Pow2(b - 1) /\ Pow2(b - 1) <= Half
    BY <1>4, <2>1, PowerDoubles, PowerGrows DEF Half
  <2> QED
    BY <1>4, <2>1, <2>2, PowerType DEF Half
<1>6. CASE s = TRUE
  <2>1. Bounds(b, TRUE)[1] = -Pow2(b - 1) /\ Bounds(b, TRUE)[2] = Pow2(b - 1) - 1
    BY DEF Bounds
  <2>2. Lo(T) = Bounds(b, TRUE)[1] /\ Hi(T) = Bounds(b, TRUE)[2]
    BY <1>2, <1>6 DEF Lo, Hi
  <2>3. Lo(T) \in Int /\ Hi(T) \in Int /\ Lo(T) <= 0 /\ 0 <= Hi(T) /\ -Half <= Lo(T) /\ Hi(T) < Half
    <3>1. Lo(T) = -Pow2(b - 1) /\ Hi(T) = Pow2(b - 1) - 1
      BY <2>1, <2>2, Zenon
    <3> QED
      BY <1>5, <3>1
  <2>4. T.signed = TRUE /\ T.bits = b /\ T.kind = "integer"
    BY <1>2, <1>6
  <2> QED
    BY <2>2, <2>3, <2>4, Zenon
<1>7. CASE s = FALSE
  <2>1. Bounds(b, FALSE)[1] = 0 /\ Bounds(b, FALSE)[2] = Pow2(b) - 1
    BY DEF Bounds
  <2>2. Lo(T) = Bounds(b, FALSE)[1] /\ Hi(T) = Bounds(b, FALSE)[2]
    BY <1>2, <1>7 DEF Lo, Hi
  <2>3. Lo(T) \in Int /\ Hi(T) \in Int /\ Lo(T) <= 0 /\ 0 <= Hi(T) /\ Lo(T) = 0 /\ Hi(T) < 2 * Half
    <3>1. Lo(T) = 0 /\ Hi(T) = Pow2(b) - 1
      BY <2>1, <2>2, Zenon
    <3> QED
      BY <1>5, <3>1
  <2>4. T.signed = FALSE /\ T.bits = b /\ T.kind = "integer"
    BY <1>2, <1>7
  <2> QED
    BY <2>2, <2>3, <2>4, Zenon
<1> QED
  BY <1>6, <1>7

\* A multiple of the unit fits a type exactly if it is one of its integers.
LEMMA FitsFacts ==
  ASSUME NEW T \in IntegerTypes, NEW n \in Int
  PROVE  /\ FitsInt(T, Unit * n) <=> n \in Lo(T)..Hi(T)
         /\ FitsInt(T, Unit * n) <=> Unit * n \in IntegersOf(T)
<1> DEFINE lo == Lo(T)
           hi == Hi(T)
<1>1. /\ lo \in Int /\ hi \in Int /\ T.signed \in BOOLEAN
      /\ ~T.signed => lo = 0 /\ Bounds(T.bits, FALSE)[2] = hi
      /\ T.signed => Bounds(T.bits, TRUE)[1] = lo /\ Bounds(T.bits, TRUE)[2] = hi
  BY TargetBounds
<1> HIDE DEF lo, hi
<1>2. Unit \in Nat \ {0} /\ Unit * n \in Int /\ Unit * 0 = 0
  BY UnitType
<1>3. FitsInt(T, Unit * n) <=> Unit * lo <= Unit * n /\ Unit * n <= Unit * hi
  BY <1>1, <1>2 DEF FitsInt, InRange
<1>4. FitsInt(T, Unit * n) <=> n \in lo..hi
  BY <1>1, <1>2, <1>3, Multiples
<1>5. Unit * n \in IntegersOf(T) <=> n \in lo..hi
  <2>1. Unit * n \in IntegersOf(T) <=> \E k \in lo..hi : Unit * n = Unit * k
    BY DEF IntegersOf, lo, hi, Lo, Hi
  <2>2. \A k \in lo..hi : k \in Int /\ (Unit * n = Unit * k <=> n = k)
    BY <1>1, <1>2, Multiples
  <2> QED
    BY <2>1, <2>2
<1> QED
  BY <1>4, <1>5 DEF lo, hi

\* The integers of Int, and of any integer type.
LEMMA IntFacts ==
  ASSUME NEW x
  PROVE  x \in Ints <=> \E n \in -Half..Half-1 : x = Unit * n
<1>1. Ints = {Unit * n : n \in -Half..Half-1}
  BY WidthFacts DEF Ints, IntegersOf, IntegerType
<1> QED
  BY <1>1

\* A cast of a number within the guards of the code is defined.
LEMMA CastDefined ==
  ASSUME NEW x \in Int, NEW signed \in BOOLEAN,
         IF signed THEN KInt64Lo <= x /\ x < KInt64Hi ELSE 0 <= x /\ x < KUint64Hi
  PROVE  CastToInteger(x, signed) = Ok(Truncate(x))
<1>1. Unit \in Nat \ {0} /\ Half \in Nat \ {0}
  BY UnitType, WidthFacts
<1>2. PICK t \in Int : /\ Truncate(x) = Unit * t
                       /\ \A a \in Int : a <= 0 /\ Unit * a <= x => a <= t
                       /\ \A b \in Int : b > 0 /\ x < Unit * b => t < b
                       /\ x >= 0 => t >= 0
  BY TruncateFacts
<1>3. CASE signed
  <2>1. -Half <= t /\ t <= Half - 1
    BY <1>1, <1>2, <1>3, WidthFacts
  <2>2. Unit * (-Half) <= Unit * t /\ Unit * t <= Unit * (Half - 1)
    BY <1>1, <2>1, Multiples
  <2>3. InRange(Truncate(x), IntBits, TRUE)
    BY <1>2, <2>2, WidthFacts DEF InRange
  <2> QED
    BY <1>3, <2>3 DEF CastToInteger
<1>4. CASE ~signed
  <2>1. 0 <= t /\ t <= 2 * Half - 1
    BY <1>1, <1>2, <1>4, WidthFacts
  <2>2. Unit * 0 <= Unit * t /\ Unit * t <= Unit * (2 * Half - 1)
    BY <1>1, <2>1, Multiples
  <2>3. InRange(Truncate(x), IntBits, FALSE)
    BY <1>2, <2>2, WidthFacts DEF InRange
  <2> QED
    BY <1>4, <2>3 DEF CastToInteger
<1> QED
  BY <1>3, <1>4

-------------------------------------------------------------------------------
(***************************************************************************)
(* as<T>(): one lemma for every pair of a numeric target and a stored type *)
(* that convertScalar looks at.                                            *)
(***************************************************************************)
Exact(T, s) ==
  IF SameValue(T, s) = {} THEN ConvertScalar(T, s) = InvalidType
  ELSE \E v \in SameValue(T, s) : ConvertScalar(T, s) = Ok(v)

LEMMA IntAsInteger ==
  ASSUME NEW T \in IntegerTypes, NEW x \in Ints
  PROVE  Exact(T, Scalar("Int", x))
<1> DEFINE s == Scalar("Int", x)
<1>1. T.kind = "integer" /\ s.type = "Int" /\ s.value = x
  BY TargetBounds DEF Scalar
<1>2. PICK n \in -Half..Half-1 : x = Unit * n
  BY IntFacts
<1>3. n \in Int
  BY WidthFacts
<1>4. FitsInt(T, x) <=> x \in IntegersOf(T)
  BY <1>2, <1>3, FitsFacts
<1> HIDE DEF s
<1>5. SameValue(T, s) = {x} \cap IntegersOf(T)
  BY <1>1 DEF SameValue, IntegersOf
<1>6. ConvertScalar(T, s) = IF FitsInt(T, x) THEN Ok(x) ELSE InvalidType
  BY <1>1 DEF ConvertScalar
<1> QED
  BY <1>4, <1>5, <1>6 DEF Exact, s

\* The values of a format.
LEMMA ValueFacts ==
  ASSUME NEW F \in DOMAIN Formats, NEW v \in Values(F)
  PROVE  /\ IsFinite(v) => v.num \in Int /\ v.num \in Grids[F]
         /\ v.class = "finite" => v = Finite(v.num)
         /\ v.class # "finite" => v \in Infinities \cup {NaN, NegativeZero}
<1>1. 0 \in Grids[F]
  <2>1. KInt64Lo \in Grids[F]
    BY ScalarAssumption
  <2>2. PICK s \in {-1, 1}, m \in 0..Pow2(Formats[F].precision) - 1,
             e \in Formats[F].min..Formats[F].max : KInt64Lo = s * m * Pow2(e)
    BY <2>1, GridElement
  <2>3. 0 = s * 0 * Pow2(e) /\ 0 \in 0..Pow2(Formats[F].precision) - 1
    BY FormatType
  <2> QED
    BY <2>3, GridElement
<1>2. CASE v \in {Finite(x) : x \in Grids[F]}
  <2>1. PICK x \in Grids[F] : v = Finite(x)
    BY <1>2
  <2> QED
    BY <2>1, GridIntegers DEF Finite
<1>3. CASE v \in Infinities \cup {NaN, NegativeZero}
  BY <1>1, <1>3 DEF Infinities, NaN, NegativeZero, Special, IsFinite
<1> QED
  BY <1>2, <1>3 DEF Values

LEMMA DoubleAsInteger ==
  ASSUME NEW T \in IntegerTypes, NEW v \in Values("double")
  PROVE  Exact(T, Scalar("Double", v))
<1> DEFINE s == Scalar("Double", v)
           same == {k \in Lo(T)..Hi(T) : IsFinite(v) /\ Unit * k = v.num}
<1>1. T.kind = "integer" /\ s.type = "Double" /\ s.value = v
  BY TargetBounds DEF Scalar
<1> HIDE DEF s
<1>2. SameValue(T, s) = {Unit * n : n \in same}
  BY <1>1 DEF SameValue, Lo, Hi
<1>3. ConvertScalar(T, s) = DoubleToInteger(T, v)
  BY <1>1 DEF ConvertScalar
<1>4. Unit \in Nat \ {0} /\ Half \in Nat \ {0} /\ "double" \in DOMAIN Formats
  BY UnitType, WidthFacts, NumberAssumption
<1> DEFINE guard == /\ IsFinite(v)
                    /\ IF T.signed THEN KInt64Lo <= v.num /\ v.num < KInt64Hi
                                   ELSE 0 <= v.num /\ v.num < KUint64Hi
           t == Truncate(v.num)
<1>5. /\ Lo(T) \in Int /\ Hi(T) \in Int /\ T.signed \in BOOLEAN
      /\ T.signed => -Half <= Lo(T) /\ Hi(T) < Half
      /\ ~T.signed => Lo(T) = 0 /\ Hi(T) < 2 * Half
  BY TargetBounds
<1>6. ASSUME NEW k \in same PROVE guard /\ v.num = Unit * k
  <2>1. IsFinite(v) /\ v.num = Unit * k /\ k \in Int /\ Lo(T) <= k /\ k <= Hi(T)
    BY <1>5
  <2>2. CASE T.signed
    <3>1. -Half <= k /\ k < Half
      BY <1>4, <1>5, <2>1, <2>2
    <3>2. Unit * (-Half) <= Unit * k /\ Unit * k < Unit * Half
      BY <1>4, <2>1, <3>1, Multiples
    <3> QED
      BY <2>1, <2>2, <3>2, WidthFacts
  <2>3. CASE ~T.signed
    <3>1. 0 <= k /\ k < 2 * Half
      BY <1>4, <1>5, <2>1, <2>3
    <3>2. Unit * 0 <= Unit * k /\ Unit * k < Unit * (2 * Half)
      BY <1>4, <2>1, <3>1, Multiples
    <3> QED
      BY <1>4, <2>1, <2>3, <3>2, WidthFacts
  <2> QED
    BY <2>2, <2>3
<1>7. ASSUME ~guard PROVE Exact(T, s)
  <2>1. DoubleToInteger(T, v) = InvalidType
    BY <1>7 DEF DoubleToInteger
  <2>2. same = {}
    BY <1>6, <1>7
  <2> QED
    BY <1>2, <1>3, <2>1, <2>2 DEF Exact
<1>8. ASSUME guard PROVE Exact(T, s)
  <2>1. v.num \in Int /\ v.num \in Grids["double"] /\ IsFinite(v)
    BY <1>4, <1>8, ValueFacts
  <2>2. CastToInteger(v.num, T.signed) = Ok(t)
    BY <1>5, <1>8, <2>1, CastDefined
  <2>3. Ok(t) # Undefined /\ Ok(t).value = t
    BY DEF Ok, Undefined
  <2>4. DoubleToInteger(T, v) = IF Round("double", t) = v.num /\ FitsInt(T, t)
                                THEN Ok(t) ELSE InvalidType
    BY <1>8, <2>2, <2>3 DEF DoubleToInteger
  <2>5. PICK n \in Int : /\ t = Unit * n
                         /\ \A j \in Int : v.num = Unit * j => n = j
    BY <2>1, TruncateFacts
  <2>6. t \in Grids["double"] /\ t \in Int
    BY <1>4, <2>1, <2>5, TruncateInGrid
  <2>7. Round("double", t) = t
    BY <1>4, <2>6, RoundFacts
  <2>8. FitsInt(T, t) <=> n \in Lo(T)..Hi(T)
    BY <2>5, FitsFacts
  <2> HIDE DEF t, guard
  <2>9. CASE same = {}
    <3>1. ~(t = v.num /\ FitsInt(T, t))
      BY <2>1, <2>5, <2>8, <2>9
    <3> QED
      BY <1>2, <1>3, <2>4, <2>7, <2>9, <3>1 DEF Exact
  <2>10. CASE same # {}
    <3>1. PICK k \in same : TRUE
      BY <2>10
    <3>2. v.num = Unit * k /\ k \in Int /\ k \in Lo(T)..Hi(T)
      BY <1>5
    <3>3. n = k /\ t = v.num /\ FitsInt(T, t)
      BY <2>5, <2>8, <3>2
    <3>4. t \in SameValue(T, s)
      BY <1>2, <2>5, <3>3
    <3> QED
      BY <1>3, <2>4, <2>7, <3>3, <3>4 DEF Exact
  <2> QED
    BY <2>9, <2>10
<1> QED
  BY <1>7, <1>8 DEF s

\* The largest number of a format bounds all of them, on both sides.
LEMMA LargestFacts ==
  ASSUME NEW F \in DOMAIN Formats
  PROVE  /\ Largest(F) \in Grids[F] /\ -Largest(F) \in Grids[F] /\ Largest(F) \in Int
         /\ \A g \in Grids[F] : g <= Largest(F) /\ -Largest(F) <= g
<1>1. Grids[F] \in SUBSET Int /\ IsFiniteSet(Grids[F]) /\ Grids[F] # {}
  BY GridIntegers, GridFinite, ScalarAssumption
<1>2. Largest(F) \in Grids[F] /\ \A g \in Grids[F] : g <= Largest(F)
  BY <1>1, MaxOf DEF Largest
<1>3. \A g \in Grids[F] : -g \in Grids[F] /\ g \in Int
  BY GridIntegers
<1>4. \A g \in Grids[F] : -g <= Largest(F)
  BY <1>2, <1>3
<1>5. Largest(F) \in Int /\ -Largest(F) \in Grids[F]
  BY <1>2, <1>3
<1>6. \A g \in Grids[F] : -Largest(F) <= g
  BY <1>3, <1>4, <1>5
<1> QED
  BY <1>2, <1>5, <1>6

\* A value of a format is read back from a double unchanged.
LEMMA DoubleToFloatExact ==
  ASSUME NEW F \in DOMAIN Formats, NEW G \in DOMAIN Formats, NEW v \in Values(G),
         F = "double" => G = "double"
  PROVE  DoubleToFloat(F, v) = IF v \in Values(F) THEN Ok(v) ELSE InvalidType
<1> DEFINE L == Largest(F)
<1>1. L \in Grids[F] /\ -L \in Grids[F] /\ L \in Int /\ \A g \in Grids[F] : g <= L /\ -L <= g
  BY LargestFacts
<1>2. CASE F = "double"
  BY <1>2 DEF DoubleToFloat
<1>3. CASE F # "double" /\ v.class # "finite"
  <2>1. v \in Infinities \cup {NaN, NegativeZero} /\ v \in Values(F)
    BY <1>3, ValueFacts DEF Values
  <2>2. 0 \in Grids[F]
    BY <1>1, ValueFacts DEF Values, NegativeZero, Special, IsFinite
  <2>3. IsFinite(v) => ~(v.num < -L \/ v.num > L)
    BY <1>1, <2>1, <2>2 DEF Infinities, NaN, NegativeZero, Special, IsFinite
  <2> QED
    BY <1>3, <2>1, <2>3 DEF DoubleToFloat
<1>4. CASE F # "double" /\ v.class = "finite"
  <2>1. v = Finite(v.num) /\ v.num \in Int /\ IsFinite(v) /\ v # NaN
    BY <1>4, ValueFacts DEF IsFinite, NaN, Special
  <2>2. v \in Values(F) <=> v.num \in Grids[F]
    BY <1>4, <2>1 DEF Values, Finite, Infinities, NaN, NegativeZero, Special
  <2>3. CASE v.num < -L \/ v.num > L
    <3>1. v.num \notin Grids[F]
      BY <1>1, <2>1, <2>3
    <3> QED
      BY <1>4, <2>1, <2>2, <2>3, <3>1 DEF DoubleToFloat
  <2>4. CASE ~(v.num < -L \/ v.num > L)
    <3>1. -L <= v.num /\ v.num <= L
      BY <1>1, <2>1, <2>4
    <3>2. Round(F, v.num) = v.num <=> v.num \in Grids[F]
      BY <1>1, <2>1, <3>1, RoundFacts
    <3> QED
      BY <1>4, <2>1, <2>2, <2>4, <3>2 DEF DoubleToFloat
  <2> QED
    BY <2>3, <2>4
<1> QED
  BY <1>2, <1>3, <1>4

LEMMA DoubleAsFloat ==
  ASSUME NEW F \in DOMAIN Formats, NEW v \in Values("double")
  PROVE  Exact(FloatType(F), Scalar("Double", v))
<1> DEFINE T == FloatType(F)
           s == Scalar("Double", v)
<1>1. T.kind = "float" /\ T.format = F /\ s.type = "Double" /\ s.value = v
  BY DEF FloatType, Scalar
<1> HIDE DEF T, s
<1>2. SameValue(T, s) = {v} \cap Values(F)
  BY <1>1 DEF SameValue
<1>3. ConvertScalar(T, s) = DoubleToFloat(F, v)
  BY <1>1 DEF ConvertScalar
<1>4. "double" \in DOMAIN Formats
  BY NumberAssumption
<1>5. DoubleToFloat(F, v) = IF v \in Values(F) THEN Ok(v) ELSE InvalidType
  BY <1>4, DoubleToFloatExact
<1> QED
  BY <1>2, <1>3, <1>5 DEF Exact, T, s

LEMMA IntAsFloat ==
  ASSUME NEW F \in DOMAIN Formats, NEW x \in Ints
  PROVE  Exact(FloatType(F), Scalar("Int", x))
<1> DEFINE T == FloatType(F)
           s == Scalar("Int", x)
           c == Round(F, x)
<1>1. T.kind = "float" /\ T.format = F /\ s.type = "Int" /\ s.value = x
  BY DEF FloatType, Scalar
<1> HIDE DEF T, s
<1>2. SameValue(T, s) = {Finite(y) : y \in {x} \cap Grids[F]}
  BY <1>1 DEF SameValue
<1>3. ConvertScalar(T, s) = IntToFloat(F, x)
  BY <1>1 DEF ConvertScalar
<1>4. Unit \in Nat \ {0} /\ Half \in Nat \ {0}
  BY UnitType, WidthFacts
<1>5. PICK n \in -Half..Half-1 : x = Unit * n
  BY IntFacts
<1>6. n \in Int /\ -Half <= n /\ n < Half /\ x \in Int
  BY <1>4, <1>5
<1>7. KInt64Lo \in Int /\ KInt64Hi \in Int /\ KInt64Lo <= x /\ x < KInt64Hi
  BY <1>4, <1>5, <1>6, Multiples, WidthFacts
<1>8. KInt64Lo \in Grids[F] /\ KInt64Hi \in Grids[F]
  BY ScalarAssumption
<1>9. c \in Grids[F] /\ c \in Int /\ (x \in Grids[F] => c = x)
  BY <1>6, <1>7, <1>8, RoundFacts, GridIntegers
<1>10. Round(F, KInt64Lo) = KInt64Lo /\ Round(F, KInt64Hi) = KInt64Hi
  BY <1>7, <1>8, RoundFacts
<1> HIDE DEF c
<1>11. IntToFloat(F, x) =
         IF ~(c >= KInt64Lo /\ c < KInt64Hi) THEN InvalidType
         ELSE IF CastToInteger(c, TRUE) = Undefined THEN Undefined
         ELSE IF CastToInteger(c, TRUE) = Ok(x) THEN Ok(Finite(c)) ELSE InvalidType
  BY <1>10 DEF IntToFloat, c
<1>12. c >= KInt64Lo /\ c < KInt64Hi => CastToInteger(c, TRUE) = Ok(Truncate(c))
  BY <1>7, <1>9, CastDefined
<1>13. Ok(Truncate(c)) # Undefined /\ (Ok(Truncate(c)) = Ok(x) <=> Truncate(c) = x)
  BY DEF Ok, Undefined
<1>14. CASE x \in Grids[F]
  <2>1. c = x /\ Truncate(c) = x
    BY <1>5, <1>6, <1>9, <1>14, TruncateFacts
  <2>2. IntToFloat(F, x) = Ok(Finite(x))
    BY <1>7, <1>11, <1>12, <1>13, <2>1
  <2>3. Finite(x) \in SameValue(T, s)
    BY <1>2, <1>14
  <2> QED
    BY <1>3, <2>2, <2>3 DEF Exact, T, s
<1>15. CASE x \notin Grids[F]
  <2>1. Truncate(c) # x
    BY <1>9, <1>15, TruncateInGrid
  <2>2. IntToFloat(F, x) = InvalidType
    BY <1>11, <1>12, <1>13, <2>1
  <2>3. SameValue(T, s) = {}
    BY <1>2, <1>15
  <2> QED
    BY <1>3, <2>2, <2>3 DEF Exact, T, s
<1> QED
  BY <1>14, <1>15

\* Every target and every stored scalar.
LEMMA AsExact ==
  ASSUME NEW T \in TargetTypes, NEW type \in DOMAIN Stored, NEW v \in Stored[type]
  PROVE  Exact(T, Scalar(type, v))
<1> DEFINE s == Scalar(type, v)
<1>1. s.type = type /\ s.value = v
  BY DEF Scalar
<1>2. /\ DOMAIN Stored = {"Int", "Double", "Bool", "String", "Null"}
      /\ Stored["Int"] = Ints /\ Stored["Double"] = Values("double")
  BY DEF Stored
<1>3. CASE T \in IntegerTypes
  <2>1. CASE type \in {"Int", "Double"}
    BY <1>2, <1>3, <2>1, IntAsInteger, DoubleAsInteger
  <2>2. CASE type \notin {"Int", "Double"}
    <3>1. T.kind = "integer"
      BY <1>3, TargetBounds
    <3> QED
      BY <1>1, <2>2, <3>1 DEF Exact, SameValue, ConvertScalar
  <2> QED
    BY <2>1, <2>2
<1>4. CASE \E F \in DOMAIN Formats : T = FloatType(F)
  <2>1. PICK F \in DOMAIN Formats : T = FloatType(F)
    BY <1>4
  <2>2. CASE type \in {"Int", "Double"}
    BY <1>2, <2>1, <2>2, IntAsFloat, DoubleAsFloat
  <2>3. CASE type \notin {"Int", "Double"}
    <3>1. T.kind = "float"
      BY <2>1 DEF FloatType
    <3> QED
      BY <1>1, <2>3, <3>1 DEF Exact, SameValue, ConvertScalar
  <2> QED
    BY <2>2, <2>3
<1>5. CASE T = BoolType
  <2>1. T.kind = "bool"
    BY <1>5 DEF BoolType
  <2> QED
    BY <1>1, <2>1 DEF Exact, SameValue, ConvertScalar
<1>6. CASE T = StringType
  <2>1. T.kind = "string"
    BY <1>6 DEF StringType
  <2> QED
    BY <1>1, <2>1 DEF Exact, SameValue, ConvertScalar
<1> QED
  BY <1>3, <1>4, <1>5, <1>6 DEF TargetTypes

-------------------------------------------------------------------------------
(***************************************************************************)
(* ConfigValue::of.                                                        *)
(***************************************************************************)
\* The cast to std::int64_t keeps what passes the test in front of it.
LEMMA WrapKeeps ==
  ASSUME NEW x \in Ints
  PROVE  Wrap(x) = x
<1>1. Unit \in Nat \ {0} /\ Half \in Nat \ {0}
  BY UnitType, WidthFacts
<1>2. PICK n \in -Half..Half-1 : x = Unit * n
  BY IntFacts
<1>3. n \in Int /\ -Half <= n /\ n < Half
  BY <1>1, <1>2
<1> DEFINE h == KInt64Hi
<1>4. h \in Nat \ {0} /\ h = Unit * Half /\ KUint64Hi = 2 * h
  <2>1. h = Unit * Half /\ KUint64Hi = Unit * (2 * Half)
    BY WidthFacts
  <2> HIDE DEF h
  <2> QED
    BY <1>1, <2>1
<1>5. x \in Int /\ -h <= x /\ x < h
  <2>1. Unit * (-Half) <= Unit * n /\ Unit * n < Unit * Half
    BY <1>1, <1>3, Multiples
  <2>2. Unit * (-Half) = -(Unit * Half) /\ Unit * n \in Int
    BY <1>1, <1>3
  <2> HIDE DEF h
  <2> QED
    BY <1>2, <1>4, <2>1, <2>2
<1> HIDE DEF h
<1>6. (x + h) % (2 * h) = x + h
  BY <1>4, <1>5
<1> QED
  BY <1>4, <1>5, <1>6 DEF Wrap, h

\* The test refuses exactly the integers that are no Int.
LEMMA ViolationFacts ==
  ASSUME NEW T \in IntegerTypes, NEW v \in IntegersOf(T)
  PROVE  /\ OfPreconditionViolation(T, v) <=> v \notin Ints
         /\ FitsInt(T, v)
<1>1. Unit \in Nat \ {0} /\ Half \in Nat \ {0}
  BY UnitType, WidthFacts
<1>2. /\ Lo(T) \in Int /\ Hi(T) \in Int /\ T.signed \in BOOLEAN /\ T.kind = "integer"
      /\ T.signed => -Half <= Lo(T) /\ Hi(T) < Half
      /\ ~T.signed => Lo(T) = 0
  BY TargetBounds
<1>3. PICK n \in Lo(T)..Hi(T) : v = Unit * n
  BY DEF IntegersOf, Lo, Hi
<1>4. n \in Int /\ Lo(T) <= n /\ n <= Hi(T)
  BY <1>2
<1>5. FitsInt(T, v)
  BY <1>3, <1>4, FitsFacts
<1>6. v \in Ints <=> n \in -Half..Half-1
  <2>1. \A k \in -Half..Half-1 : k \in Int /\ (Unit * n = Unit * k <=> n = k)
    BY <1>1, <1>4, Multiples
  <2> QED
    BY <1>3, <2>1, IntFacts
<1>7. v > Unit * Bounds(IntBits, TRUE)[2] <=> n > Half - 1
  <2>1. Bounds(IntBits, TRUE)[2] = Half - 1
    BY WidthFacts
  <2>2. Half - 1 \in Int /\ (Unit * (Half - 1) < Unit * n <=> Half - 1 < n)
    BY <1>1, <1>4, Multiples
  <2> QED
    BY <1>1, <1>3, <1>4, <2>1, <2>2
<1>8. OfPreconditionViolation(T, v) <=> ~T.signed /\ n > Half - 1
  BY <1>2, <1>7 DEF OfPreconditionViolation
<1>9. n \in -Half..Half-1 <=> T.signed \/ n <= Half - 1
  BY <1>1, <1>2, <1>4
<1> QED
  BY <1>1, <1>4, <1>5, <1>6, <1>8, <1>9

\* Of every type that of() takes: refused for one of the two reasons, or read back.
LEMMA OfExact ==
  ASSUME NEW T \in TargetTypes \ {FloatType("long double")}, NEW v \in Arguments(T)
  PROVE  IF \/ T.kind = "integer" /\ v \notin Ints
            \/ T.kind = "string" /\ v = "null"
         THEN OfPreconditionViolation(T, v)
         ELSE /\ ~OfPreconditionViolation(T, v)
              /\ \E r : Of(T, v) = Ok(r) /\ ConvertScalar(T, r) = Ok(v)
<1>1. CASE T \in IntegerTypes
  <2>1. T.kind = "integer"
    BY <1>1, TargetBounds
  <2>2. v \in IntegersOf(T)
    BY <2>1 DEF Arguments
  <2>3. CASE v \notin Ints
    BY <1>1, <2>1, <2>2, <2>3, ViolationFacts
  <2>4. CASE v \in Ints
    <3>1. ~OfPreconditionViolation(T, v) /\ FitsInt(T, v) /\ Wrap(v) = v
      BY <1>1, <2>2, <2>4, ViolationFacts, WrapKeeps
    <3> DEFINE r == Scalar("Int", v)
    <3>2. Of(T, v) = Ok(r)
      BY <2>1, <3>1 DEF Of
    <3>3. r.type = "Int" /\ r.value = v
      BY DEF Scalar
    <3> HIDE DEF r
    <3>4. ConvertScalar(T, r) = Ok(v)
      BY <2>1, <3>1, <3>3 DEF ConvertScalar
    <3> QED
      BY <2>1, <2>4, <3>1, <3>2, <3>4
  <2> QED
    BY <2>3, <2>4
<1>2. CASE \E F \in DOMAIN Formats : T = FloatType(F)
  <2>1. PICK F \in DOMAIN Formats : T = FloatType(F)
    BY <1>2
  <2>2. T.kind = "float" /\ T.format = F
    BY <2>1 DEF FloatType
  <2>3. v \in Values(F)
    BY <2>2 DEF Arguments
  <2>4. ~OfPreconditionViolation(T, v)
    BY <2>2 DEF OfPreconditionViolation
  <2> DEFINE r == Scalar("Double", v)
  <2>5. Of(T, v) = Ok(r)
    BY <2>2, <2>4 DEF Of
  <2>6. r.type = "Double" /\ r.value = v
    BY DEF Scalar
  <2> HIDE DEF r
  <2>7. ConvertScalar(T, r) = DoubleToFloat(F, v)
    BY <2>2, <2>6 DEF ConvertScalar
  <2>8. DoubleToFloat(F, v) = Ok(v)
    BY <2>3, DoubleToFloatExact
  <2> QED
    BY <2>2, <2>4, <2>5, <2>7, <2>8
<1>3. CASE T = BoolType
  <2>1. T.kind = "bool"
    BY <1>3 DEF BoolType
  <2> DEFINE r == Scalar("Bool", v)
  <2>2. r.type = "Bool" /\ r.value = v
    BY DEF Scalar
  <2>3. ~OfPreconditionViolation(T, v)
    BY <2>1 DEF OfPreconditionViolation
  <2> QED
    BY <2>1, <2>2, <2>3 DEF Of, ConvertScalar
<1>4. CASE T = StringType
  <2>1. T.kind = "string"
    BY <1>4 DEF StringType
  <2> DEFINE r == Scalar("String", v)
  <2>2. r.type = "String" /\ r.value = v
    BY DEF Scalar
  <2>3. OfPreconditionViolation(T, v) <=> v = "null"
    BY <2>1 DEF OfPreconditionViolation
  <2> QED
    BY <2>1, <2>2, <2>3 DEF Of, ConvertScalar
<1> QED
  BY <1>1, <1>2, <1>3, <1>4 DEF TargetTypes

-------------------------------------------------------------------------------
ScalarInv ==
  /\ call.op = "as" =>
       /\ \E T \in TargetTypes, type \in DOMAIN Stored : \E v \in Stored[type] :
            call = [op |-> "as", target |-> T, scalar |-> Scalar(type, v)]
       /\ out \in {NoResult, ConvertScalar(call.target, call.scalar)}
  /\ call.op = "of" =>
       /\ \E T \in TargetTypes \ {FloatType("long double")}, set \in BOOLEAN :
            \E v \in Arguments(T) :
              call = [op |-> "of", source |-> T, value |-> v, set |-> set]
       /\ out \in {NoResult, IF call.set THEN SetScalar(call.source, call.value)
                                       ELSE Of(call.source, call.value)}

\* A scalar goes into a value and out of it unchanged or not at all, whatever
\* the width of the integers, the unit and the formats.
THEOREM ScalarsStayExact == Spec => []ScalarsAreExact
<1>1. Init => ScalarInv
  <2>1. ASSUME CallAs PROVE ScalarInv
    <3>1. call.op = "as"
      BY <2>1, OperationOf
    <3> QED
      BY <2>1, <3>1 DEF CallAs, ScalarInv
  <2>2. ASSUME CallOf PROVE ScalarInv
    <3>1. call.op = "of"
      BY <2>2, OperationOf
    <3> QED
      BY <2>2, <3>1, Zenon DEF CallOf, ScalarInv
  <2> QED
    BY <2>1, <2>2, OperationOf DEF Init, ScalarInv
<1>2. ScalarInv /\ [Next]_vars => ScalarInv'
  <2> SUFFICES ASSUME ScalarInv, [Next]_vars PROVE ScalarInv'
    OBVIOUS
  <2>1. CASE As
    <3>1. call' = call /\ call.op = "as" /\ out' = ConvertScalar(call.target, call.scalar)
      BY <2>1 DEF As
    <3> QED
      BY <3>1 DEF ScalarInv
  <2>2. CASE MakeScalar
    <3>1. /\ call' = call /\ call.op = "of"
          /\ out' = IF call.set THEN SetScalar(call.source, call.value)
                                ELSE Of(call.source, call.value)
      BY <2>2 DEF MakeScalar
    <3> QED
      BY <3>1 DEF ScalarInv
  <2>3. CASE UNCHANGED vars
    BY <2>3 DEF vars, ScalarInv
  <2>4. ASSUME call' = call, call.op \notin {"as", "of"} PROVE ScalarInv'
    BY <2>4 DEF ScalarInv
  <2> QED
    BY <2>1, <2>2, <2>3, <2>4 DEF Next, ParsePath, CheckXml, Repair, Create, SetKey, Done
<1>3. ScalarInv => ScalarsAreExact
  <2> SUFFICES ASSUME ScalarInv PROVE AsIsExact /\ OfReadsBack
    BY DEF ScalarsAreExact
  <2>1. ASSUME call.op = "as", Returned
        PROVE  IF SameValue(call.target, call.scalar) = {} THEN out = InvalidType
               ELSE \E v \in SameValue(call.target, call.scalar) : out = Ok(v)
    <3>1. out = ConvertScalar(call.target, call.scalar)
      BY <2>1 DEF ScalarInv, Returned
    <3>2. PICK T \in TargetTypes, type \in DOMAIN Stored : \E v \in Stored[type] :
            call = [op |-> "as", target |-> T, scalar |-> Scalar(type, v)]
      BY <2>1 DEF ScalarInv
    <3>0. PICK v \in Stored[type] :
          call = [op |-> "as", target |-> T, scalar |-> Scalar(type, v)]
      BY <3>2
    <3>3. call.target = T /\ call.scalar = Scalar(type, v)
      BY <3>0
    <3> QED
      BY <3>1, <3>3, AsExact DEF Exact
  <2>2. ASSUME call.op = "of", Returned
        PROVE  IF \/ call.source.kind = "integer" /\ call.value \notin Ints
                  \/ call.source.kind = "string" /\ call.value = "null"
               THEN out.code = IF call.set THEN "InvalidType" ELSE "throws"
               ELSE out.code = "Ok" /\ ConvertScalar(call.source, out.value) = Ok(call.value)
    <3>1. out = IF call.set THEN SetScalar(call.source, call.value)
                            ELSE Of(call.source, call.value)
      BY <2>2 DEF ScalarInv, Returned
    <3>2. PICK T \in TargetTypes \ {FloatType("long double")}, set \in BOOLEAN :
            \E v \in Arguments(T) :
              call = [op |-> "of", source |-> T, value |-> v, set |-> set]
      BY <2>2, Zenon DEF ScalarInv
    <3>0. PICK v \in Arguments(T) :
          call = [op |-> "of", source |-> T, value |-> v, set |-> set]
      BY <3>2
    <3>3. call.source = T /\ call.value = v /\ call.set = set
      BY <3>0
    <3>4. CASE OfPreconditionViolation(T, v)
      <4>1. Of(T, v) = [code |-> "throws"] /\ SetScalar(T, v) = InvalidType
        BY <3>4 DEF Of, SetScalar
      <4>2. out.code = IF call.set THEN "InvalidType" ELSE "throws"
        <5>1. CASE call.set = TRUE
          <6>1. out = InvalidType
            BY <3>1, <3>3, <4>1, <5>1, Zenon
          <6> QED
            BY <5>1, <6>1 DEF InvalidType
        <5>2. CASE call.set = FALSE
          <6>1. out = [code |-> "throws"]
            BY <3>1, <3>3, <4>1, <5>2, Zenon
          <6> QED
            BY <5>2, <6>1
        <5> QED
          BY <3>3, <5>1, <5>2
      <4> QED
        BY <3>3, <3>4, <4>2, OfExact
    <3>5. CASE ~OfPreconditionViolation(T, v)
      <4>1. SetScalar(T, v) = Of(T, v)
        BY <3>5 DEF SetScalar
      <4>2. out = Of(T, v)
        BY <3>1, <3>3, <4>1
      <4>3. /\ ~(T.kind = "integer" /\ v \notin Ints) /\ ~(T.kind = "string" /\ v = "null")
            /\ \E r : Of(T, v) = Ok(r) /\ ConvertScalar(T, r) = Ok(v)
        BY <3>5, OfExact
      <4>4. PICK r : Of(T, v) = Ok(r) /\ ConvertScalar(T, r) = Ok(v)
        BY <4>3
      <4>5. out.code = "Ok" /\ out.value = r
        <5>1. Ok(r).code = "Ok" /\ Ok(r).value = r
          BY DEF Ok
        <5> QED
          BY <4>2, <4>4, <5>1, Zenon
      <4> QED
        BY <3>3, <4>3, <4>4, <4>5
    <3> QED
      BY <3>4, <3>5
  <2> QED
    BY <2>1, <2>2 DEF AsIsExact, OfReadsBack
<1> QED
  BY <1>1, <1>2, <1>3, PTL DEF Spec
===============================================================================
