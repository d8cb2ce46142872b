-------------------------- MODULE StationSearchProofs --------------------------
(***************************************************************************)
(* Proofs about the station search, for every alphabet and every text.     *)
(*                                                                         *)
(* Induction is by the least counterexample, which exists because a finite *)
(* set has, for every k less than its size, an element that k others come  *)
(* before (Ranks).                                                         *)
(* It shows that giving up early costs editDistance nothing, and then the  *)
(* bands of scores of each kind of match and what stands where in a list.  *)
(***************************************************************************)
EXTENDS StationSearch, FiniteSetTheorems, SequenceTheorems, TLAPS

-------------------------------------------------------------------------------
(* Finite sets in order, and recursive functions.                          *)

\* R is a strict total order of S.
Orders(R, S) ==
    /\ \A x \in S : <<x, x>> \notin R
    /\ \A x, y, z \in S : <<x, y>> \in R /\ <<y, z>> \in R => <<x, z>> \in R
    /\ \A x, y \in S : x = y \/ <<x, y>> \in R \/ <<y, x>> \in R

Before(R, S, x) == {y \in S : <<y, x>> \in R}

\* Of two elements, the later one has more before it.
LEMMA Precedes ==
  ASSUME NEW S, IsFiniteSet(S), NEW R, Orders(R, S), NEW x \in S, NEW y \in S, <<x, y>> \in R
  PROVE  /\ Cardinality(Before(R, S, x)) \in Nat /\ Cardinality(Before(R, S, y)) \in Nat
         /\ Cardinality(Before(R, S, x)) < Cardinality(Before(R, S, y))
<1>1. Before(R, S, x) \in SUBSET (Before(R, S, y) \ {x}) /\ x \in Before(R, S, y)
  BY DEF Orders, Before
<1>2. IsFiniteSet(Before(R, S, y)) /\ IsFiniteSet(Before(R, S, x))
  <2>1. Before(R, S, y) \in SUBSET S /\ Before(R, S, x) \in SUBSET S
    BY DEF Before
  <2> QED
    BY ONLY <2>1, IsFiniteSet(S), FS_Subset
<1>3. /\ IsFiniteSet(Before(R, S, y) \ {x})
      /\ Cardinality(Before(R, S, y) \ {x}) = Cardinality(Before(R, S, y)) - 1
  BY <1>1, <1>2, FS_RemoveElement
<1>4. Cardinality(Before(R, S, x)) <= Cardinality(Before(R, S, y)) - 1
  BY ONLY <1>1, <1>3, FS_Subset
<1>5. Cardinality(Before(R, S, x)) \in Nat /\ Cardinality(Before(R, S, y)) \in Nat
  BY <1>2, FS_CardinalityType
<1> QED
  BY <1>4, <1>5

\* Among n elements in order there is one for every number of earlier ones.
LEMMA Ranks ==
  ASSUME NEW S, IsFiniteSet(S), NEW R, Orders(R, S), NEW k \in Nat, k < Cardinality(S)
  PROVE  \E x \in S : Cardinality(Before(R, S, x)) = k
<1> DEFINE n == Cardinality(S)
           T == (0..(n - 1)) \ {k}
           f == [x \in S |-> Cardinality(Before(R, S, x))]
<1>1. n \in Nat
  BY FS_CardinalityType
<1>2. \A x \in S : Cardinality(Before(R, S, x)) \in 0..(n - 1)
  <2> SUFFICES ASSUME NEW x \in S PROVE Cardinality(Before(R, S, x)) \in 0..(n - 1)
    OBVIOUS
  <2>1. Before(R, S, x) \in SUBSET (S \ {x})
    BY DEF Orders, Before
  <2>2. IsFiniteSet(S \ {x}) /\ Cardinality(S \ {x}) = n - 1
    BY FS_RemoveElement
  <2>3. IsFiniteSet(Before(R, S, x)) /\ Cardinality(Before(R, S, x)) <= n - 1
    BY ONLY <2>1, <2>2, FS_Subset
  <2>4. Cardinality(Before(R, S, x)) \in Nat
    BY <2>3, FS_CardinalityType
  <2> HIDE DEF n
  <2> QED
    BY <1>1, <2>3, <2>4
<1>3. \A x, y \in S : x # y => Cardinality(Before(R, S, x)) # Cardinality(Before(R, S, y))
  <2> SUFFICES ASSUME NEW x \in S, NEW y \in S, x # y
               PROVE  Cardinality(Before(R, S, x)) # Cardinality(Before(R, S, y))
    OBVIOUS
  <2>1. <<x, y>> \in R \/ <<y, x>> \in R
    BY DEF Orders
  <2> QED
    BY <2>1, Precedes
<1> SUFFICES ASSUME \A x \in S : Cardinality(Before(R, S, x)) # k
             PROVE  FALSE
  OBVIOUS
<1>4. IsFiniteSet(0..(n - 1)) /\ Cardinality(0..(n - 1)) = n
  <2>1. n - 1 \in Int
    BY <1>1
  <2>2. /\ IsFiniteSet(0..(n - 1))
        /\ Cardinality(0..(n - 1)) = IF 0 > n - 1 THEN 0 ELSE (n - 1) - 0 + 1
    BY ONLY <2>1, FS_Interval
  <2> QED
    BY <1>1, <2>2
<1>5. IsFiniteSet(T) /\ Cardinality(T) = n - 1
  <2>1. k \in 0..(n - 1)
    BY <1>1
  <2> QED
    BY ONLY <1>4, <2>1, FS_RemoveElement
<1>6. f \in [S -> T]
  <2> HIDE DEF n
  <2> QED
    BY <1>2
<1>7. Cardinality(T) < Cardinality(S)
  BY <1>1, <1>5
<1> HIDE DEF f, T
<1>8. \E x, y \in S : x # y /\ f[x] = f[y]
  BY ONLY IsFiniteSet(S), <1>5, <1>6, <1>7, FS_PigeonHole
<1> QED
  BY <1>3, <1>8 DEF f

\* A set of numbers has a least one.
LEMMA Least ==
  ASSUME NEW S \in SUBSET Nat, NEW n \in S
  PROVE  \E m \in S : \A k \in S : m <= k
<1> DEFINE T == S \cap (0..n)
           R == {p \in Int \X Int : p[1] < p[2]}
<1>1. IsFiniteSet(T) /\ T # {}
  <2>1. IsFiniteSet(0..n)
    BY FS_Interval
  <2>2. T \in SUBSET (0..n) /\ n \in T
    OBVIOUS
  <2> QED
    BY <2>1, <2>2, FS_Subset
<1>2. \A x, y \in Int : <<x, y>> \in R <=> x < y
  OBVIOUS
<1>3. T \subseteq Int
  OBVIOUS
<1>4. Orders(R, T)
  <2> HIDE DEF R, T
  <2>1. \A x \in T : <<x, x>> \notin R
    BY <1>2, <1>3
  <2>2. \A x, y, z \in T : <<x, y>> \in R /\ <<y, z>> \in R => <<x, z>> \in R
    BY <1>2, <1>3
  <2>3. ASSUME NEW x \in T, NEW y \in T PROVE x = y \/ <<x, y>> \in R \/ <<y, x>> \in R
    <3>1. x \in Int /\ y \in Int
      BY <1>3
    <3>2. x = y \/ x < y \/ y < x
      BY <3>1
    <3> QED
      BY <1>2, <3>1, <3>2
  <2> QED
    BY <2>1, <2>2, <2>3 DEF Orders
<1>5. 0 < Cardinality(T)
  <2>1. Cardinality(T) \in Nat /\ Cardinality(T) # 0
    BY <1>1, FS_CardinalityType, FS_EmptySet
  <2> QED
    BY <2>1
<1>6. PICK m \in T : Cardinality(Before(R, T, m)) = 0
  <2> HIDE DEF R, T
  <2> QED
    BY <1>1, <1>4, <1>5, Ranks
<1>7. Before(R, T, m) = {}
  <2>1. Before(R, T, m) \in SUBSET T
    BY DEF Before
  <2> HIDE DEF R, T
  <2>2. IsFiniteSet(Before(R, T, m))
    BY ONLY <1>1, <2>1, FS_Subset
  <2> QED
    BY <1>6, <2>2, FS_EmptySet
<1>8. \A k \in T : m <= k
  <2> SUFFICES ASSUME NEW k \in T PROVE m <= k
    OBVIOUS
  <2>1. <<k, m>> \notin R
    BY <1>7 DEF Before
  <2>2. m \in Int /\ k \in Int
    BY <1>3
  <2>3. ~(k < m)
    BY <1>2, <2>1, <2>2
  <2> QED
    BY <2>2, <2>3
<1> QED
  BY <1>8

\* F makes a table of a table, and what it makes at x depends only on what is earlier than x.
Recurs(F, D, V, mu, n) ==
    /\ V # {} /\ F \in [[D -> V] -> [D -> V]]
    /\ \A x \in D : mu[x] \in Nat /\ mu[x] < n
    /\ \A g, h \in [D -> V] : \A x \in D :
          (\A y \in D : mu[y] < mu[x] => g[y] = h[y]) => F[g][x] = F[h][x]

\* Recursion is well defined: there is a table that F makes of itself.
LEMMA Recursion ==
  ASSUME NEW D, NEW V, NEW F, NEW mu, NEW n \in Nat, Recurs(F, D, V, mu, n)
  PROVE  \E f \in [D -> V] : f = F[f]
<1> USE DEF Recurs
<1>0. PICK v \in V : TRUE
  OBVIOUS
<1> DEFINE Upto(k, g) == g \in [D -> V] /\ \A x \in D : mu[x] < k => g[x] = F[g][x]
           Bad == {k \in Nat : \A g \in [D -> V] : ~Upto(k, g)}
<1>1. 0 \notin Bad
  <2>1. Upto(0, [x \in D |-> v])
    OBVIOUS
  <2>2. [x \in D |-> v] \in [D -> V]
    OBVIOUS
  <2> HIDE DEF Upto
  <2> QED
    BY <2>1, <2>2
<1>2. ASSUME NEW k \in Nat, NEW g \in [D -> V], Upto(k, g)
      PROVE  Upto(k + 1, F[g])
  <2> DEFINE h == F[g]
  <2>1. h \in [D -> V]
    OBVIOUS
  <2>2. \A x \in D : mu[x] < k => h[x] = g[x]
    BY <1>2
  <2> HIDE DEF h
  <2>3. ASSUME NEW x \in D, mu[x] < k + 1 PROVE h[x] = F[h][x]
    <3>1. \A y \in D : mu[y] < mu[x] => g[y] = h[y]
      <4> SUFFICES ASSUME NEW y \in D, mu[y] < mu[x] PROVE mu[y] < k
        BY <2>2
      <4>1. mu[y] \in Nat /\ mu[x] \in Nat
        OBVIOUS
      <4> QED
        BY <2>3, <4>1
    <3>2. F[g][x] = F[h][x]
      BY <2>1, <3>1
    <3> QED
      BY <3>2 DEF h
  <2> QED
    BY <2>1, <2>3 DEF h
<1>3. Bad = {}
  <2> SUFFICES ASSUME Bad # {} PROVE FALSE
    OBVIOUS
  <2>1. Bad \in SUBSET Nat
    OBVIOUS
  <2>2. PICK k \in Bad : \A l \in Bad : k <= l
    <3> HIDE DEF Bad
    <3> QED
      BY <2>1, Least
  <2>3. k \in Nat /\ k # 0
    BY <1>1
  <2>4. k - 1 \in Nat /\ ~(k <= k - 1)
    BY <2>3
  <2>5. k - 1 \notin Bad
    <3> HIDE DEF Bad
    <3> QED
      BY <2>2, <2>4
  <2>6. PICK g \in [D -> V] : Upto(k - 1, g)
    <3> HIDE DEF Upto
    <3> QED
      BY <2>4, <2>5
  <2>7. Upto(k, F[g])
    <3>1. (k - 1) + 1 = k
      BY <2>3
    <3> HIDE DEF Upto
    <3>2. Upto((k - 1) + 1, F[g])
      BY <1>2, <2>4, <2>6
    <3> QED
      BY <3>1, <3>2
  <2>8. F[g] \in [D -> V]
    OBVIOUS
  <2> HIDE DEF Upto
  <2> QED
    BY <2>7, <2>8
<1>4. PICK f \in [D -> V] : Upto(n, f)
  <2> HIDE DEF Upto
  <2> QED
    BY <1>3
<1>5. \A x \in D : f[x] = F[f][x]
  BY <1>4
<1>6. F[f] \in [D -> V]
  OBVIOUS
<1> QED
  BY <1>5, <1>6

LEMMA MinOfNats ==
  ASSUME NEW S \in SUBSET Nat, S # {}
  PROVE  Min(S) \in S /\ \A x \in S : Min(S) <= x
<1>1. \E m \in S : \A x \in S : m <= x
  BY Least
<1> QED
  BY <1>1 DEF Min

-------------------------------------------------------------------------------
(* The edit distance.                                                      *)

\* A cell is one more than one of its neighbours, or what the one before both letters is,
\* and no more than one more than each of the three.
LEMMA CellOf ==
  ASSUME NEW a \in Seq(Letter), NEW b \in Seq(Letter),
         NEW d \in [(0..Len(a)) \X (0..Len(b)) -> Nat],
         NEW i \in 1..Len(a), NEW j \in 1..Len(b)
  PROVE  LET c == Cell(a, b, d, i, j) IN
         /\ c \in Nat /\ c <= d[<<i - 1, j>>] + 1 /\ c <= d[<<i, j - 1>>] + 1 /\ c <= d[<<i - 1, j - 1>>] + 1
         /\ \/ c = d[<<i - 1, j>>] + 1 \/ c = d[<<i, j - 1>>] + 1
            \/ c = d[<<i - 1, j - 1>>] \/ c = d[<<i - 1, j - 1>>] + 1
            \/ i > 1 /\ j > 1 /\ c = d[<<i - 2, j - 2>>] + 1
<1> DEFINE up == d[<<i - 1, j>>] + 1
           left == d[<<i, j - 1>>] + 1
           corner == d[<<i - 1, j - 1>>] + (IF a[i] = b[j] THEN 0 ELSE 1)
           swap == IF i > 1 /\ j > 1 /\ a[i] = b[j - 1] /\ a[i - 1] = b[j]
                   THEN {d[<<i - 2, j - 2>>] + 1} ELSE {}
           S == {up, left, corner} \cup swap
<1>0. /\ Len(a) \in Nat /\ Len(b) \in Nat /\ i \in Nat /\ j \in Nat /\ i # 0 /\ j # 0
      /\ i <= Len(a) /\ j <= Len(b)
      /\ i \in 0..Len(a) /\ j \in 0..Len(b) /\ i - 1 \in 0..Len(a) /\ j - 1 \in 0..Len(b)
  OBVIOUS
<1>1. d[<<i - 1, j>>] \in Nat /\ d[<<i, j - 1>>] \in Nat /\ d[<<i - 1, j - 1>>] \in Nat
  BY <1>0
<1>2. i > 1 /\ j > 1 => d[<<i - 2, j - 2>>] \in Nat
  <2> SUFFICES ASSUME i > 1, j > 1 PROVE d[<<i - 2, j - 2>>] \in Nat
    OBVIOUS
  <2>1. i - 2 \in 0..Len(a) /\ j - 2 \in 0..Len(b)
    BY <1>0
  <2> QED
    BY <2>1
<1>3. up \in Nat /\ left \in Nat /\ corner \in Nat
  <2> DEFINE cost == IF a[i] = b[j] THEN 0 ELSE 1
  <2>1. cost \in Nat
    OBVIOUS
  <2> HIDE DEF cost
  <2>2. d[<<i - 1, j - 1>>] + cost \in Nat
    BY <1>1, <2>1
  <2>3. corner \in Nat
    BY ONLY <2>2 DEF cost
  <2> HIDE DEF corner
  <2>4. up \in Nat /\ left \in Nat
    BY ONLY <1>1
  <2> QED
    BY ONLY <2>3, <2>4
<1>4. swap \in SUBSET Nat
  BY <1>2
<1>5. Cell(a, b, d, i, j) = Min(S)
  BY <1>0 DEF Cell
<1>6. S \in SUBSET Nat /\ S # {}
  <2> HIDE DEF up, left, corner, swap
  <2> QED
    BY <1>3, <1>4
<1>7. Min(S) \in S /\ \A x \in S : Min(S) <= x
  <2> HIDE DEF S
  <2> QED
    BY <1>6, MinOfNats
<1>8. Min(S) \in Nat
  <2> HIDE DEF S
  <2> QED
    BY <1>6, <1>7
<1>9. Min(S) <= up /\ Min(S) <= left /\ Min(S) <= corner
  BY <1>7
<1>10. Min(S) = up \/ Min(S) = left \/ Min(S) = corner \/ Min(S) \in swap
  BY <1>7
<1> DEFINE c == Min(S)
<1>11. c \in Nat /\ c <= up /\ c <= left /\ c <= corner
  BY <1>8, <1>9
<1>12. Cell(a, b, d, i, j) = c /\ (c = up \/ c = left \/ c = corner \/ c \in swap)
  BY <1>5, <1>10
<1> HIDE DEF c, S
<1>13. c <= d[<<i - 1, j - 1>>] + 1
  BY <1>1, <1>11
<1>14. c \in swap => i > 1 /\ j > 1 /\ c = d[<<i - 2, j - 2>>] + 1
  OBVIOUS
<1>15. c = corner => c = d[<<i - 1, j - 1>>] \/ c = d[<<i - 1, j - 1>>] + 1
  BY <1>1
<1> HIDE DEF swap, corner
<1> QED
  BY <1>11, <1>12, <1>13, <1>14, <1>15

Agree(a, b, g, h, s) ==
    \A k \in 0..Len(a), l \in 0..Len(b) : k + l < s => g[<<k, l>>] = h[<<k, l>>]

\* It reads cells before it only.
LEMMA CellReads ==
  ASSUME NEW a \in Seq(Letter), NEW b \in Seq(Letter), NEW g, NEW h,
         NEW i \in 0..Len(a), NEW j \in 0..Len(b), Agree(a, b, g, h, i + j)
  PROVE  Cell(a, b, g, i, j) = Cell(a, b, h, i, j)
<1> USE DEF Agree
<1>0. Len(a) \in Nat /\ Len(b) \in Nat
  OBVIOUS
<1>1. CASE i = 0 \/ j = 0
  BY <1>1 DEF Cell
<1>2. CASE i # 0 /\ j # 0
  <2>1. i - 1 \in 0..Len(a) /\ j - 1 \in 0..Len(b)
    BY <1>0, <1>2
  <2>2. /\ g[<<i - 1, j>>] = h[<<i - 1, j>>] /\ g[<<i, j - 1>>] = h[<<i, j - 1>>]
        /\ g[<<i - 1, j - 1>>] = h[<<i - 1, j - 1>>]
    BY <2>1
  <2>3. i > 1 /\ j > 1 => g[<<i - 2, j - 2>>] = h[<<i - 2, j - 2>>]
    <3> SUFFICES ASSUME i > 1, j > 1 PROVE g[<<i - 2, j - 2>>] = h[<<i - 2, j - 2>>]
      OBVIOUS
    <3>1. i - 2 \in 0..Len(a) /\ j - 2 \in 0..Len(b) /\ (i - 2) + (j - 2) < i + j
      BY <1>0
    <3> QED
      BY <3>1
  <2> QED
    BY <2>2, <2>3 DEF Cell
<1> QED
  BY <1>1, <1>2

\* The table is one: every cell is what Cell makes of the cells before it.
LEMMA Table ==
  ASSUME NEW a \in Seq(Letter), NEW b \in Seq(Letter)
  PROVE  /\ Distances(a, b) \in [(0..Len(a)) \X (0..Len(b)) -> Nat]
         /\ \A i \in 0..Len(a), j \in 0..Len(b) :
               Distances(a, b)[<<i, j>>] = Cell(a, b, Distances(a, b), i, j)
<1> DEFINE D == (0..Len(a)) \X (0..Len(b))
           F == [g \in [D -> Nat] |-> [x \in D |-> Cell(a, b, g, x[1], x[2])]]
           mu == [x \in D |-> x[1] + x[2]]
<1>0. Len(a) \in Nat /\ Len(b) \in Nat
  OBVIOUS
<1>1. \A g \in [D -> Nat], x \in D : Cell(a, b, g, x[1], x[2]) \in Nat
  <2> SUFFICES ASSUME NEW g \in [D -> Nat], NEW i \in 0..Len(a), NEW j \in 0..Len(b)
               PROVE  Cell(a, b, g, i, j) \in Nat
    OBVIOUS
  <2>1. CASE i = 0 \/ j = 0
    BY <2>1 DEF Cell
  <2>2. CASE i # 0 /\ j # 0
    <3>1. i \in 1..Len(a) /\ j \in 1..Len(b)
      BY <1>0, <2>2
    <3> QED
      BY <3>1, CellOf
  <2> QED
    BY <2>1, <2>2
<1>2. F \in [[D -> Nat] -> [D -> Nat]]
  BY <1>1
<1>3. \A g \in [D -> Nat] : \A x \in D : F[g][x] = Cell(a, b, g, x[1], x[2])
  OBVIOUS
<1>4. \A k \in 0..Len(a), l \in 0..Len(b) : mu[<<k, l>>] = k + l /\ <<k, l>> \in D
  OBVIOUS
<1>5. \A x \in D : x[1] \in 0..Len(a) /\ x[2] \in 0..Len(b) /\ x = <<x[1], x[2]>>
  OBVIOUS
<1>6. \A x \in D : mu[x] = x[1] + x[2]
  OBVIOUS
<1> DEFINE Same(g, h, x) == \A y \in D : mu[y] < mu[x] => g[y] = h[y]
<1>7. ASSUME NEW g, NEW h, NEW x \in D, Same(g, h, x)
      PROVE  Cell(a, b, g, x[1], x[2]) = Cell(a, b, h, x[1], x[2])
  <2> HIDE DEF D, mu
  <2>1. Agree(a, b, g, h, x[1] + x[2])
    BY <1>4, <1>6, <1>7 DEF Agree
  <2>2. x[1] \in 0..Len(a) /\ x[2] \in 0..Len(b)
    BY <1>5
  <2> QED
    BY <2>1, <2>2, CellReads
<1>8. \A g, h \in [D -> Nat] : \A x \in D : Same(g, h, x) => F[g][x] = F[h][x]
  <2> HIDE DEF D, mu, F, Same
  <2> QED
    BY <1>3, <1>7
<1> DEFINE n == Len(a) + Len(b) + 1
<1>9. \A x \in D : mu[x] \in Nat /\ mu[x] < n
  BY <1>0
<1>10. \E f \in [D -> Nat] : f = F[f]
  <2>1. n \in Nat /\ Nat # {}
    BY <1>0
  <2> HIDE DEF D, F, mu, n
  <2>2. Recurs(F, D, Nat, mu, n)
    BY <1>2, <1>8, <1>9 DEF Recurs
  <2> QED
    BY <2>1, <2>2, Recursion
<1> DEFINE Is(d) == d = [p \in D |-> Cell(a, b, d, p[1], p[2])]
<1>11. PICK f \in [D -> Nat] : f = F[f]
  BY <1>10
<1>12. Is(f)
  <2> HIDE DEF D
  <2> QED
    BY <1>3, <1>11
<1>13. Distances(a, b) = CHOOSE d : Is(d)
  BY DEF Distances
<1> DEFINE d == Distances(a, b)
<1>14. Is(d)
  <2> HIDE DEF Is
  <2> QED
    BY <1>12, <1>13
<1>15. DOMAIN d = D /\ \A p \in D : d[p] = Cell(a, b, d, p[1], p[2])
  <2> HIDE DEF D
  <2> QED
    BY <1>14
<1>16. \A p \in D : f[p] = Cell(a, b, f, p[1], p[2])
  <2> HIDE DEF D
  <2> QED
    BY <1>12
<1> HIDE DEF d, F, Is
<1>17. \A p \in D : d[p] = f[p]
  <2> DEFINE Bad == {p \in D : d[p] # f[p]}
             M == {mu[p] : p \in Bad}
  <2> SUFFICES ASSUME Bad # {} PROVE FALSE
    OBVIOUS
  <2> HIDE DEF D, mu
  <2>1. M \in SUBSET Nat /\ M # {}
    BY <1>9
  <2>2. PICK m \in M : \A k \in M : m <= k
    BY <2>1, Least
  <2>3. PICK p \in Bad : mu[p] = m
    BY <2>2
  <2>4. \A q \in D : mu[q] < mu[p] => d[q] = f[q]
    <3> SUFFICES ASSUME NEW q \in D, mu[q] < mu[p], q \in Bad PROVE FALSE
      OBVIOUS
    <3>1. mu[q] \in M
      OBVIOUS
    <3>2. mu[p] <= mu[q]
      BY <2>2, <2>3, <3>1
    <3>3. p \in D /\ mu[p] \in Nat /\ mu[q] \in Nat
      BY <1>9
    <3> QED
      BY <3>2, <3>3
  <2>5. Cell(a, b, d, p[1], p[2]) = Cell(a, b, f, p[1], p[2])
    <3>1. Same(d, f, p)
      BY <2>4
    <3> HIDE DEF Same
    <3> QED
      BY <1>7, <3>1
  <2> QED
    BY <1>15, <1>16, <2>3, <2>5
<1>18. d = f
  <2> HIDE DEF D
  <2>1. d = [p \in D |-> d[p]] /\ f = [p \in D |-> f[p]]
    BY <1>14, <1>15 DEF Is
  <2> QED
    BY <1>17, <2>1
<1> QED
  BY <1>11, <1>15, <1>18 DEF d

\* What is known of a table d for texts of m and n letters.
IsTable(d, m, n) ==
    /\ d \in [(0..m) \X (0..n) -> Nat]
    /\ \A i \in 0..m : d[<<i, 0>>] = i
    /\ \A j \in 0..n : d[<<0, j>>] = j
    /\ \A i \in 1..m, j \in 1..n :
          /\ d[<<i, j>>] <= d[<<i - 1, j>>] + 1 /\ d[<<i, j>>] <= d[<<i - 1, j - 1>>] + 1
          /\ \/ d[<<i, j>>] = d[<<i - 1, j>>] + 1 \/ d[<<i, j>>] = d[<<i, j - 1>>] + 1
             \/ d[<<i, j>>] = d[<<i - 1, j - 1>>] \/ d[<<i, j>>] = d[<<i - 1, j - 1>>] + 1
             \/ i > 1 /\ j > 1 /\ d[<<i, j>>] = d[<<i - 2, j - 2>>] + 1

LEMMA DistancesTable ==
  ASSUME NEW a \in Seq(Letter), NEW b \in Seq(Letter)
  PROVE  IsTable(Distances(a, b), Len(a), Len(b))
<1> DEFINE d == Distances(a, b)
<1>0. Len(a) \in Nat /\ Len(b) \in Nat
  OBVIOUS
<1>1. /\ d \in [(0..Len(a)) \X (0..Len(b)) -> Nat]
      /\ \A i \in 0..Len(a), j \in 0..Len(b) : d[<<i, j>>] = Cell(a, b, d, i, j)
  BY Table
<1> HIDE DEF d
<1>2. \A i \in 0..Len(a) : d[<<i, 0>>] = i
  <2> SUFFICES ASSUME NEW i \in 0..Len(a) PROVE d[<<i, 0>>] = i
    OBVIOUS
  <2>1. d[<<i, 0>>] = Cell(a, b, d, i, 0)
    BY <1>0, <1>1
  <2>2. Cell(a, b, d, i, 0) = i
    BY <1>0 DEF Cell
  <2> QED
    BY <2>1, <2>2
<1>3. \A j \in 0..Len(b) : d[<<0, j>>] = j
  <2> SUFFICES ASSUME NEW j \in 0..Len(b) PROVE d[<<0, j>>] = j
    OBVIOUS
  <2>1. d[<<0, j>>] = Cell(a, b, d, 0, j)
    BY <1>0, <1>1
  <2>2. Cell(a, b, d, 0, j) = j
    BY <1>0 DEF Cell
  <2> QED
    BY <2>1, <2>2
<1>4. ASSUME NEW i \in 1..Len(a), NEW j \in 1..Len(b)
      PROVE  /\ d[<<i, j>>] <= d[<<i - 1, j>>] + 1 /\ d[<<i, j>>] <= d[<<i - 1, j - 1>>] + 1
             /\ \/ d[<<i, j>>] = d[<<i - 1, j>>] + 1 \/ d[<<i, j>>] = d[<<i, j - 1>>] + 1
                \/ d[<<i, j>>] = d[<<i - 1, j - 1>>] \/ d[<<i, j>>] = d[<<i - 1, j - 1>>] + 1
                \/ i > 1 /\ j > 1 /\ d[<<i, j>>] = d[<<i - 2, j - 2>>] + 1
  <2>1. i \in 0..Len(a) /\ j \in 0..Len(b)
    BY <1>0
  <2>2. d[<<i, j>>] = Cell(a, b, d, i, j)
    BY <1>1, <2>1
  <2>3. \A x \in (0..Len(a)) \X (0..Len(b)) : d[x] \in Nat
    BY <1>1
  <2> DEFINE c == Cell(a, b, d, i, j)
  <2>4. /\ c <= d[<<i - 1, j>>] + 1 /\ c <= d[<<i - 1, j - 1>>] + 1
        /\ \/ c = d[<<i - 1, j>>] + 1 \/ c = d[<<i, j - 1>>] + 1
           \/ c = d[<<i - 1, j - 1>>] \/ c = d[<<i - 1, j - 1>>] + 1
           \/ i > 1 /\ j > 1 /\ c = d[<<i - 2, j - 2>>] + 1
    BY <1>1, <2>1, CellOf
  <2> HIDE DEF c
  <2> QED
    BY <2>2, <2>4 DEF c
<1>5. IsTable(d, Len(a), Len(b))
  BY <1>1, <1>2, <1>3, <1>4 DEF IsTable
<1> QED
  BY <1>5 DEF d

\* A distance is not less than the difference of the lengths.
LEMMA LengthsDiffer ==
  ASSUME NEW m \in Nat, NEW n \in Nat, NEW d, IsTable(d, m, n)
  PROVE  \A i \in 0..m, j \in 0..n : i - j <= d[<<i, j>>] /\ j - i <= d[<<i, j>>]
<1> DEFINE Low(i, j) == i - j <= d[<<i, j>>] /\ j - i <= d[<<i, j>>]
           Bad == {s \in Nat : \E i \in 0..m, j \in 0..n : s = i + j /\ ~Low(i, j)}
<1> SUFFICES ASSUME NEW i0 \in 0..m, NEW j0 \in 0..n, ~Low(i0, j0) PROVE FALSE
  OBVIOUS
<1>1. i0 + j0 \in Bad /\ Bad \in SUBSET Nat
  OBVIOUS
<1>2. PICK s \in Bad : \A t \in Bad : s <= t
  <2> HIDE DEF Bad
  <2> QED
    BY <1>1, Least
<1>3. PICK i \in 0..m, j \in 0..n : s = i + j /\ ~Low(i, j)
  OBVIOUS
<1>4. \A k \in 0..m, l \in 0..n : k + l < i + j => Low(k, l)
  <2> SUFFICES ASSUME NEW k \in 0..m, NEW l \in 0..n, k + l < i + j, ~Low(k, l) PROVE FALSE
    OBVIOUS
  <2>1. k + l \in Bad
    <3>1. k + l \in Nat
      OBVIOUS
    <3> HIDE DEF Low
    <3> QED
      BY <3>1
  <2>2. i + j <= k + l
    BY <1>2, <1>3, <2>1
  <2> QED
    BY <2>2
<1> HIDE DEF Bad
<1>5. i # 0 /\ j # 0
  BY <1>3 DEF IsTable
<1>6. /\ i \in 1..m /\ j \in 1..n
      /\ i - 1 \in 0..m /\ j - 1 \in 0..n
      /\ i - 1 + j < i + j /\ i + (j - 1) < i + j /\ (i - 1) + (j - 1) < i + j
  BY <1>5
<1>7. Low(i - 1, j) /\ Low(i, j - 1) /\ Low(i - 1, j - 1)
  <2> HIDE DEF Low
  <2> QED
    BY <1>4, <1>6
<1>8. i > 1 /\ j > 1 => Low(i - 2, j - 2) /\ d[<<i - 2, j - 2>>] \in Nat
  <2> SUFFICES ASSUME i > 1, j > 1 PROVE Low(i - 2, j - 2) /\ d[<<i - 2, j - 2>>] \in Nat
    OBVIOUS
  <2>1. i - 2 \in 0..m /\ j - 2 \in 0..n /\ (i - 2) + (j - 2) < i + j
    OBVIOUS
  <2>2. d[<<i - 2, j - 2>>] \in Nat
    BY <2>1 DEF IsTable
  <2> HIDE DEF Low
  <2> QED
    BY <1>4, <2>1, <2>2
<1>9. d[<<i - 1, j>>] \in Nat /\ d[<<i, j - 1>>] \in Nat /\ d[<<i - 1, j - 1>>] \in Nat /\ d[<<i, j>>] \in Nat
  BY <1>6 DEF IsTable
<1>10. \/ d[<<i, j>>] = d[<<i - 1, j>>] + 1 \/ d[<<i, j>>] = d[<<i, j - 1>>] + 1
       \/ d[<<i, j>>] = d[<<i - 1, j - 1>>] \/ d[<<i, j>>] = d[<<i - 1, j - 1>>] + 1
       \/ i > 1 /\ j > 1 /\ d[<<i, j>>] = d[<<i - 2, j - 2>>] + 1
  BY <1>6 DEF IsTable
<1> QED
  BY <1>3, <1>7, <1>8, <1>9, <1>10

\* Once a row is over the bound, all that comes after it is, also what a transposition
\* takes from the row before it: a row is at most one more than the one before.
LEMMA RowsAfter ==
  ASSUME NEW m \in Nat, NEW n \in Nat \ {0}, NEW d, IsTable(d, m, n), NEW max \in Nat,
         NEW i \in 1..m, Over(d, i, n, max)
  PROVE  \A k \in i..m, j \in 0..n : d[<<k, j>>] > max
<1> DEFINE Low(k, j) == d[<<k, j>>] <= max
           Bad == {s \in Nat : \E k \in i..m, j \in 0..n : s = k + j /\ Low(k, j)}
<1>1. i > max
  <2>1. 1 \in 1..n /\ i - 1 \in 0..m /\ <<i, 1>> \in (0..m) \X (0..n)
    OBVIOUS
  <2>2. d[<<i, 1>>] > max
    BY <2>1 DEF Over
  <2>3. d[<<i, 1>>] <= d[<<i - 1, 0>>] + 1
    <3>1. 1 - 1 = 0
      OBVIOUS
    <3>2. d[<<i, 1>>] <= d[<<i - 1, 1 - 1>>] + 1
      BY <2>1 DEF IsTable
    <3> QED
      BY <3>1, <3>2
  <2>4. d[<<i - 1, 0>>] = i - 1 /\ d[<<i, 1>>] \in Nat
    BY <2>1 DEF IsTable
  <2> QED
    BY <2>2, <2>3, <2>4
<1>2. \A k \in i..m, j \in 0..n : k \in 0..m /\ d[<<k, j>>] \in Nat
  <2> SUFFICES ASSUME NEW k \in i..m, NEW j \in 0..n PROVE k \in 0..m /\ d[<<k, j>>] \in Nat
    OBVIOUS
  <2>1. k \in 0..m
    OBVIOUS
  <2> QED
    BY <2>1 DEF IsTable
<1>3. \A k \in i..m : d[<<k, 0>>] > max
  <2> SUFFICES ASSUME NEW k \in i..m PROVE d[<<k, 0>>] > max
    OBVIOUS
  <2>1. d[<<k, 0>>] = k
    BY DEF IsTable
  <2> QED
    BY <1>1, <2>1
<1>4. \A j \in 0..n : d[<<i, j>>] > max
  <2> SUFFICES ASSUME NEW j \in 0..n PROVE d[<<i, j>>] > max
    OBVIOUS
  <2>1. i \in i..m
    OBVIOUS
  <2>2. j = 0 \/ j \in 1..n
    OBVIOUS
  <2> QED
    BY <1>3, <2>1, <2>2 DEF Over
<1> SUFFICES ASSUME NEW k0 \in i..m, NEW j0 \in 0..n, ~(d[<<k0, j0>>] > max) PROVE FALSE
  OBVIOUS
<1>5. k0 + j0 \in Bad /\ Bad \in SUBSET Nat
  <2>1. Low(k0, j0) /\ k0 + j0 \in Nat
    BY <1>2
  <2> HIDE DEF Low
  <2> QED
    BY <2>1
<1>6. PICK s \in Bad : \A t \in Bad : s <= t
  <2> HIDE DEF Bad
  <2> QED
    BY <1>5, Least
<1>7. PICK k \in i..m, j \in 0..n : s = k + j /\ Low(k, j)
  OBVIOUS
<1>8. \A p \in i..m, l \in 0..n : p + l < k + j => d[<<p, l>>] > max
  <2> SUFFICES ASSUME NEW p \in i..m, NEW l \in 0..n, p + l < k + j, ~(d[<<p, l>>] > max)
               PROVE  FALSE
    OBVIOUS
  <2>1. p + l \in Bad
    <3>1. Low(p, l) /\ p + l \in Nat
      BY <1>2
    <3> HIDE DEF Low
    <3> QED
      BY <3>1
  <2>2. k + j <= p + l
    BY <1>6, <1>7, <2>1
  <2> QED
    BY <2>2
<1> HIDE DEF Bad
<1>9. d[<<k, j>>] \in Nat
  BY <1>2
<1>10. j # 0 /\ k # i
  BY <1>3, <1>4, <1>7, <1>9
<1>11. /\ k - 1 \in i..m /\ j - 1 \in 0..n /\ k \in 1..m /\ j \in 1..n
       /\ k - 1 + j < k + j /\ k + (j - 1) < k + j /\ (k - 1) + (j - 1) < k + j
  BY <1>10
<1>12. /\ d[<<k - 1, j>>] > max /\ d[<<k, j - 1>>] > max /\ d[<<k - 1, j - 1>>] > max
       /\ d[<<k - 1, j>>] \in Nat /\ d[<<k, j - 1>>] \in Nat /\ d[<<k - 1, j - 1>>] \in Nat
  BY <1>2, <1>8, <1>11
<1>13. j > 1 => d[<<k - 2, j - 2>>] \in Nat /\ d[<<k - 2, j - 2>>] + 1 > max
  <2> SUFFICES ASSUME j > 1
               PROVE  d[<<k - 2, j - 2>>] \in Nat /\ d[<<k - 2, j - 2>>] + 1 > max
    OBVIOUS
  <2>1. j - 2 \in 0..n /\ k - 1 \in 1..m /\ k - 2 \in 0..m /\ (k - 1) - 1 = k - 2
        /\ (k - 1) + (j - 2) < k + j
    BY <1>11
  <2>2. d[<<k - 1, j - 2>>] > max /\ d[<<k - 1, j - 2>>] \in Nat /\ d[<<k - 2, j - 2>>] \in Nat
    BY <1>2, <1>8, <1>11, <2>1 DEF IsTable
  <2>3. d[<<k - 1, j - 2>>] <= d[<<k - 2, j - 2>>] + 1
    <3>1. CASE j - 2 = 0
      <4>1. d[<<k - 1, 0>>] = k - 1 /\ d[<<k - 2, 0>>] = k - 2
        BY <2>1 DEF IsTable
      <4> QED
        BY <3>1, <4>1
    <3>2. CASE j - 2 # 0
      <4>1. j - 2 \in 1..n
        BY <2>1, <3>2
      <4> QED
        BY <2>1, <4>1 DEF IsTable
    <3> QED
      BY <3>1, <3>2
  <2> QED
    BY <2>2, <2>3
<1>14. \/ d[<<k, j>>] = d[<<k - 1, j>>] + 1 \/ d[<<k, j>>] = d[<<k, j - 1>>] + 1
       \/ d[<<k, j>>] = d[<<k - 1, j - 1>>] \/ d[<<k, j>>] = d[<<k - 1, j - 1>>] + 1
       \/ k > 1 /\ j > 1 /\ d[<<k, j>>] = d[<<k - 2, j - 2>>] + 1
  BY <1>11 DEF IsTable
<1> QED
  BY <1>7, <1>9, <1>12, <1>13, <1>14

\* "bounded: returns max+1 as soon as it's exceeded" (search.ts:49): the two early returns
\* of editDistance, by length and by row, neither lose a distance within the bound nor
\* report one that is not.
THEOREM EarlyReturnsAreExact ==
  ASSUME NEW a \in Seq(Letter), NEW b \in Seq(Letter), b # <<>>, NEW max \in Nat
  PROVE  LET d == EditDistance(a, b, max)
             e == Distances(a, b)[<<Len(a), Len(b)>>]
         IN IF e <= max THEN d = e ELSE d > max
<1> DEFINE m == Len(a)
           n == Len(b)
           d == Distances(a, b)
           e == d[<<m, n>>]
<1>1. m \in Nat /\ n \in Nat \ {0} /\ m \in 0..m /\ n \in 0..n
  BY EmptySeq
<1>2. IsTable(d, m, n)
  BY DistancesTable
<1> HIDE DEF m, n, d
<1>3. e \in Nat /\ m - n <= e /\ n - m <= e
  <2>1. e \in Nat
    BY <1>1, <1>2 DEF IsTable
  <2> QED
    BY <1>1, <1>2, <2>1, LengthsDiffer
<1>4. ASSUME NEW i \in 1..m, Over(d, i, n, max) PROVE e > max
  <2>1. m \in i..m
    BY <1>1
  <2> QED
    BY <1>1, <1>2, <1>4, <2>1, RowsAfter
<1> DEFINE early == \/ m - n > max \/ n - m > max
                    \/ \E i \in 1..m : Over(d, i, n, max)
<1>5. early => e > max
  <2>1. m - n > max \/ n - m > max => e > max
    BY <1>1, <1>3
  <2> QED
    BY <1>4, <2>1
<1>6. EditDistance(a, b, max) = IF early THEN max + 1 ELSE e
  BY DEF EditDistance, m, n, d
<1> HIDE DEF early
<1> QED
  BY <1>3, <1>5, <1>6 DEF d, m, n

-------------------------------------------------------------------------------
(* Words, and what is left of a sequence without an item.                  *)

\* A text has finitely many words, and no word is empty.
LEMMA WordsOf ==
  ASSUME NEW t \in Seq(Letter)
  PROVE  /\ IsFiniteSet(Words(t))
         /\ Tokens(t) \subseteq Seq(Letter) \ {<<>>}
<1> DEFINE I == 1..Len(t)
<1>1. IsFiniteSet(I)
  BY FS_Interval
<1>2. IsFiniteSet(I \X I)
  <2> HIDE DEF I
  <2> QED
    BY <1>1, FS_Product
<1>3. Words(t) \in SUBSET (I \X I)
  BY DEF Words
<1>4. IsFiniteSet(Words(t))
  <2> HIDE DEF I
  <2> QED
    BY ONLY <1>2, <1>3, FS_Subset
<1>5. ASSUME NEW w \in Words(t) PROVE Word(t, w) \in Seq(Letter) \ {<<>>}
  <2>1. w[1] \in 1..Len(t) /\ w[2] \in 1..Len(t) /\ w[1] <= w[2]
    BY DEF Words
  <2>2. SubSeq(t, w[1], w[2]) \in Seq(Letter)
    BY <2>1
  <2>3. Len(SubSeq(t, w[1], w[2])) = w[2] - w[1] + 1
    BY <2>1
  <2>4. w[1] \in Int /\ w[2] \in Int
    BY <2>1
  <2>5. Len(SubSeq(t, w[1], w[2])) # Len(<<>>)
    BY ONLY <2>1, <2>3, <2>4
  <2>6. SubSeq(t, w[1], w[2]) # <<>>
    BY ONLY <2>5
  <2> QED
    BY <2>2, <2>6 DEF Word
<1> QED
  BY <1>4, <1>5 DEF Tokens

\* Without keeps items of the sequence, and not the one it is to leave out.
LEMMA LeavesOut ==
  ASSUME NEW X, NEW s \in Seq(X), NEW x
  PROVE  /\ Without(s, x) \in Seq(X)
         /\ \A k \in DOMAIN Without(s, x) :
               \E i \in DOMAIN s : Without(s, x)[k] = s[i] /\ s[i] # x
<1> DEFINE I == {i \in DOMAIN s : s[i] # x}
           R == {p \in Int \X Int : p[1] < p[2]}
           n == Cardinality(I)
           Place(k) == CHOOSE i \in I : Cardinality({j \in I : j < i}) = k - 1
<1>1. I \in SUBSET (1..Len(s)) /\ DOMAIN s = 1..Len(s) /\ Len(s) \in Nat
  OBVIOUS
<1>2. IsFiniteSet(I) /\ n \in Nat
  <2>1. IsFiniteSet(1..Len(s))
    BY FS_Interval
  <2> HIDE DEF I
  <2> QED
    BY <1>1, <2>1, FS_Subset, FS_CardinalityType
<1>3. Orders(R, I) /\ \A i \in I : Before(R, I, i) = {j \in I : j < i}
  <2>1. \A i \in I : i \in Int
    BY <1>1
  <2> HIDE DEF I
  <2>2. \A i, j \in I : <<i, j>> \in R <=> i < j
    BY <2>1
  <2>3. \A i \in I : Before(R, I, i) = {j \in I : j < i}
    BY <2>2 DEF Before
  <2> HIDE DEF R
  <2>4. \A i \in I : <<i, i>> \notin R
    BY <2>1, <2>2
  <2>5. \A i, j, k \in I : <<i, j>> \in R /\ <<j, k>> \in R => <<i, k>> \in R
    BY <2>1, <2>2
  <2>6. ASSUME NEW i \in I, NEW j \in I PROVE i = j \/ <<i, j>> \in R \/ <<j, i>> \in R
    <3>1. i = j \/ i < j \/ j < i
      BY <2>1
    <3> QED
      BY <2>2, <3>1
  <2> QED
    BY <2>3, <2>4, <2>5, <2>6 DEF Orders
<1>4. ASSUME NEW k \in 1..n PROVE Place(k) \in I
  <2> HIDE DEF I, R
  <2>1. k - 1 \in Nat /\ k - 1 < Cardinality(I)
    BY <1>2
  <2>2. \E i \in I : Cardinality(Before(R, I, i)) = k - 1
    BY <1>2, <1>3, <2>1, Ranks
  <2>3. \E i \in I : Cardinality({j \in I : j < i}) = k - 1
    BY <1>3, <2>2
  <2> QED
    BY <2>3
<1>5. Without(s, x) = [k \in 1..n |-> s[Place(k)]]
  BY DEF Without
<1> HIDE DEF Place, n
<1>6. \A k \in 1..n : Place(k) \in DOMAIN s /\ s[Place(k)] # x /\ s[Place(k)] \in X
  BY <1>1, <1>4
<1> HIDE DEF I
<1> QED
  BY <1>2, <1>5, <1>6

-------------------------------------------------------------------------------
(* Scores.                                                                 *)

Bounded(S, b) == S \in SUBSET Int /\ S # {} /\ b \in Int /\ \A x \in S : x <= b

\* A set of numbers with a bound has a greatest one.
LEMMA MaxOfBounded ==
  ASSUME NEW S, NEW b, Bounded(S, b)
  PROVE  Max(S) \in S /\ \A x \in S : x <= Max(S)
<1> USE DEF Bounded
<1> DEFINE T == {b - x : x \in S}
<1>1. T \in SUBSET Nat /\ T # {}
  <2>1. \A x \in S : b - x \in Nat
    OBVIOUS
  <2> QED
    BY <2>1
<1>2. PICK t \in T : \A u \in T : t <= u
  <2> HIDE DEF T
  <2> QED
    BY <1>1, Least
<1>3. PICK m \in S : t = b - m
  BY <1>2
<1>4. \A x \in S : m >= x
  <2> SUFFICES ASSUME NEW x \in S PROVE m >= x
    OBVIOUS
  <2>1. b - m <= b - x
    BY <1>2, <1>3
  <2> QED
    BY <2>1
<1>5. Max(S) \in S /\ \A x \in S : Max(S) >= x
  <2>1. \E n \in S : \A x \in S : n >= x
    BY <1>4
  <2> QED
    BY <2>1 DEF Max
<1> QED
  BY <1>5

\* A fuzzy match counts for no more than 300.
LEMMA FuzzyScore ==
  ASSUME NEW q \in Seq(Letter), NEW name \in Seq(Letter)
  PROVE  Fuzzy(q, name) \in Int /\ Fuzzy(q, name) <= 300
<1> DEFINE best == [w \in Words(q) |->
                       WordDistance(Word(q, w), name, AllowedEdits(Len(Word(q, w))))]
           E == {e \in Words(q) \X (1..2) : e[2] <= best[e[1]]}
<1>1. IsFiniteSet(Words(q) \X (1..2))
  <2>1. IsFiniteSet(Words(q))
    BY WordsOf
  <2>2. IsFiniteSet(1..2)
    <3>1. 1 \in Int /\ 2 \in Int
      OBVIOUS
    <3> QED
      BY ONLY <3>1, FS_Interval
  <2> QED
    BY ONLY <2>1, <2>2, FS_Product
<1>2. E \in SUBSET (Words(q) \X (1..2))
  OBVIOUS
<1>3. Cardinality(E) \in Nat
  <2> HIDE DEF E
  <2> QED
    BY <1>1, <1>2, FS_Subset, FS_CardinalityType
<1>4. Fuzzy(q, name) = 0 \/ Fuzzy(q, name) = 300 - 40 * Cardinality(E)
  BY DEF Fuzzy
<1> HIDE DEF E
<1> QED
  BY <1>3, <1>4

\* What a name counts for, by how it matches.
Graded(q, name, n) ==
    LET words == \A w \in Tokens(q) : SomeStartsWith(name, w)
        part  == Len(q) >= Enough /\ Includes(name, q)
    IN /\ n \in Int
       /\ IsPrefix(q, name) => n \in 650..750
       /\ ~IsPrefix(q, name) /\ words => n = 600
       /\ ~IsPrefix(q, name) /\ ~words /\ part => n = 400
       /\ ~IsPrefix(q, name) /\ ~words /\ ~part => n <= 300

LEMMA NameScores ==
  ASSUME NEW q \in Seq(Letter), NEW name \in Seq(Letter)
  PROVE  Graded(q, name, ScoreName(q, name))
<1> USE DEF Graded
<1> DEFINE words == \A w \in Tokens(q) : SomeStartsWith(name, w)
           part  == Len(q) >= Enough /\ Includes(name, q)
           less  == Min({50, Len(name) - Len(q)})
<1>1. IsPrefix(q, q)
  BY DEF IsPrefix
<1>2. IsPrefix(q, name) => less \in 0..50
  <2> SUFFICES ASSUME IsPrefix(q, name) PROVE less \in 0..50
    OBVIOUS
  <2>1. Len(name) \in Nat /\ Len(q) \in Nat /\ Len(q) <= Len(name)
    BY DEF IsPrefix
  <2>2. {50, Len(name) - Len(q)} \in SUBSET Nat
    BY <2>1
  <2>3. less \in Nat /\ less <= 50
    BY <2>2, MinOfNats
  <2> HIDE DEF less
  <2> QED
    BY <2>3
<1>3. Fuzzy(q, name) \in Int /\ Fuzzy(q, name) <= 300
  BY FuzzyScore
<1>4. ScoreName(q, name) =
         IF name = q THEN 750 ELSE IF IsPrefix(q, name) THEN 700 - less
         ELSE IF words THEN 600 ELSE IF part THEN 400 ELSE Fuzzy(q, name)
  BY DEF ScoreName
<1> HIDE DEF words, part, less
<1>5. CASE name = q
  BY <1>1, <1>4, <1>5 DEF words, part
<1>6. CASE name # q /\ IsPrefix(q, name)
  <2>1. ScoreName(q, name) = 700 - less
    BY <1>4, <1>6
  <2>2. less \in 0..50
    BY <1>2, <1>6
  <2>3. 700 - less \in 650..750
    BY ONLY <2>2
  <2> QED
    BY <1>6, <2>1, <2>3
<1>7. CASE ~IsPrefix(q, name)
  BY <1>1, <1>3, <1>4, <1>7 DEF words, part
<1> QED
  BY <1>5, <1>6, <1>7

\* A station of the index: the code has no more than 8 letters (station.ts:7).
IsStation(st) ==
    /\ st.code \in Seq(Letter) /\ Len(st.code) <= 8 /\ Rank[st.code] \in Int
    /\ st.names \in Seq(Seq(Letter)) /\ st.names # <<>>

\* What a name or an alias counts for.
Part(q, st, i) == ScoreName(q, st.names[i]) - (IF i > 1 THEN AliasPenalty ELSE 0)

\* A station counts for the best of its code and its names.
LEMMA ScoreOf ==
  ASSUME NEW q \in Seq(Letter), NEW st, IsStation(st)
  PROVE  LET code == ScoreCode(Without(q, Gap), st.code)
             score == Score(q, st)
         IN /\ code \in Int /\ score \in Int
            /\ code <= score /\ \A i \in DOMAIN st.names : Part(q, st, i) <= score
            /\ score = code \/ \E i \in DOMAIN st.names : score = Part(q, st, i)
            /\ \A i \in DOMAIN st.names : Part(q, st, i) \in Int /\ st.names[i] \in Seq(Letter)
<1> DEFINE code == ScoreCode(Without(q, Gap), st.code)
           S == {code} \cup {Part(q, st, i) : i \in DOMAIN st.names}
<1>1. code \in Int /\ code <= 1000
  <2>1. Without(q, Gap) \in Seq(Letter)
    BY LeavesOut
  <2>2. Len(Without(q, Gap)) \in Nat /\ Len(st.code) \in Nat
    BY <2>1 DEF IsStation
  <2> QED
    BY <2>2 DEF ScoreCode, IsPrefix
<1>2. ASSUME NEW i \in DOMAIN st.names
      PROVE  st.names[i] \in Seq(Letter) /\ Part(q, st, i) \in Int /\ Part(q, st, i) <= 1000
  <2>1. st.names[i] \in Seq(Letter)
    BY DEF IsStation
  <2> DEFINE n == ScoreName(q, st.names[i])
  <2>2. n \in Int /\ n <= 1000
    <3>1. Graded(q, st.names[i], n)
      BY <2>1, NameScores
    <3> HIDE DEF n
    <3> QED
      BY <3>1 DEF Graded
  <2>3. Part(q, st, i) = n - (IF i > 1 THEN 25 ELSE 0)
    BY DEF Part, AliasPenalty
  <2> HIDE DEF n
  <2> QED
    BY <2>1, <2>2, <2>3
<1>3. S \in SUBSET Int /\ S # {} /\ \A x \in S : x <= 1000
  <2> HIDE DEF code
  <2> QED
    BY <1>1, <1>2
<1> DEFINE score == Score(q, st)
<1>4. score \in S /\ \A x \in S : x <= score
  <2>1. score = Max(S)
    BY DEF Score, Part
  <2> HIDE DEF S, score
  <2>2. Bounded(S, 1000)
    BY ONLY <1>3 DEF Bounded
  <2>3. Max(S) \in S /\ \A x \in S : x <= Max(S)
    BY ONLY <2>2, MaxOfBounded
  <2> QED
    BY <2>1, <2>3
<1>5. score \in Int
  BY <1>3, <1>4
<1> HIDE DEF score, code
<1>6. /\ code \in Int /\ score \in Int
      /\ code <= score /\ \A i \in DOMAIN st.names : Part(q, st, i) <= score
      /\ score = code \/ \E i \in DOMAIN st.names : score = Part(q, st, i)
      /\ \A i \in DOMAIN st.names : Part(q, st, i) \in Int /\ st.names[i] \in Seq(Letter)
  BY <1>1, <1>2, <1>4, <1>5
<1> QED
  BY <1>6 DEF score, code

-------------------------------------------------------------------------------
(* The results.                                                            *)

\* The first difference decides.
LEMMA BetterMeans ==
  ASSUME NEW k \in Int \X Int \X Int, NEW l \in Int \X Int \X Int
  PROVE  Better(k, l) <=> \/ k[1] < l[1]
                          \/ k[1] = l[1] /\ k[2] < l[2]
                          \/ k[1] = l[1] /\ k[2] = l[2] /\ k[3] < l[3]
<1>1. \A j \in 1..0 : FALSE
  OBVIOUS
<1>2. \A j : j \in 1..1 <=> j = 1
  OBVIOUS
<1>3. \A j : j \in 1..2 <=> j = 1 \/ j = 2
  OBVIOUS
<1>4. \A i : i \in 1..3 <=> i = 1 \/ i = 2 \/ i = 3
  OBVIOUS
<1>5. 1 - 1 = 0 /\ 2 - 1 = 1 /\ 3 - 1 = 2
  OBVIOUS
<1> DEFINE At(i) == k[i] < l[i] /\ \A j \in 1..(i - 1) : k[j] = l[j]
<1>6. Better(k, l) <=> At(1) \/ At(2) \/ At(3)
  <2>1. Better(k, l) <=> \E i \in 1..3 : At(i)
    BY DEF Better
  <2> HIDE DEF At
  <2> QED
    BY <1>4, <2>1
<1>7. At(1) <=> k[1] < l[1]
  BY <1>1, <1>5
<1>8. At(2) <=> k[2] < l[2] /\ k[1] = l[1]
  BY <1>2, <1>5
<1>9. At(3) <=> k[3] < l[3] /\ k[1] = l[1] /\ k[2] = l[2]
  BY <1>3, <1>5
<1> HIDE DEF At
<1> QED
  BY <1>6, <1>7, <1>8, <1>9

\* Matches that differ in the last part of their keys are in a strict order.
LEMMA BetterOrders ==
  ASSUME NEW M, \A m \in M : m.key \in Int \X Int \X Int,
         \A m, n \in M : m.key[3] = n.key[3] => m = n
  PROVE  Orders({p \in M \X M : Better(p[1].key, p[2].key)}, M)
<1> DEFINE R == {p \in M \X M : Better(p[1].key, p[2].key)}
           Less(k, l) == \/ k[1] < l[1]
                         \/ k[1] = l[1] /\ k[2] < l[2]
                         \/ k[1] = l[1] /\ k[2] = l[2] /\ k[3] < l[3]
<1>1. \A m, n \in M : <<m, n>> \in R <=> Better(m.key, n.key)
  OBVIOUS
<1>2. \A m, n \in M : Better(m.key, n.key) <=> Less(m.key, n.key)
  BY BetterMeans
<1>3. \A m \in M : m.key[1] \in Int /\ m.key[2] \in Int /\ m.key[3] \in Int
  OBVIOUS
<1> HIDE DEF R
<1>4. \A m \in M : <<m, m>> \notin R
  BY <1>1, <1>2, <1>3
<1>5. ASSUME NEW m \in M, NEW n \in M, NEW o \in M, <<m, n>> \in R, <<n, o>> \in R
      PROVE  <<m, o>> \in R
  <2>1. Less(m.key, n.key) /\ Less(n.key, o.key)
    BY <1>1, <1>2, <1>5
  <2>2. Less(m.key, o.key)
    BY <1>3, <2>1
  <2> QED
    BY <1>1, <1>2, <2>2
<1>6. ASSUME NEW m \in M, NEW n \in M PROVE m = n \/ <<m, n>> \in R \/ <<n, m>> \in R
  <2>1. m.key[3] = n.key[3] \/ Less(m.key, n.key) \/ Less(n.key, m.key)
    BY <1>3
  <2> QED
    BY <1>1, <1>2, <2>1
<1>7. Orders(R, M)
  BY <1>4, <1>5, <1>6 DEF Orders
<1> QED
  BY <1>7 DEF R

\* Stations that are told apart by their codes.
IsIndex(S) ==
    /\ IsFiniteSet(S) /\ \A st \in S : IsStation(st)
    /\ \A st, other \in S : Rank[st.code] = Rank[other.code] => st = other

\* Results are stations that match, by score.
AreResults(S, q, r) ==
    /\ r \in Seq(S)
    /\ \A k \in DOMAIN r : Score(q, r[k]) > 0
    /\ \A k, l \in DOMAIN r : k < l => Score(q, r[k]) >= Score(q, r[l])

LEMMA ResultsOf ==
  ASSUME NEW S, IsIndex(S), NEW q \in Seq(Letter), NEW limit \in Nat
  PROVE  AreResults(S, q, SearchStations(S, q, limit))
<1> DEFINE Match(st) == [station |-> st, key |-> SortKey(q, st)]
           all   == {Match(st) : st \in S}
           found == {m \in all : q # <<>> /\ m.key[1] < 0}
           R == {p \in found \X found : Better(p[1].key, p[2].key)}
           Kth(k) == CHOOSE m \in found : Cardinality({n \in found : Better(n.key, m.key)}) = k - 1
           n == Min({limit, Cardinality(found)})
           r == SearchStations(S, q, limit)
<1>1. \A st \in S : /\ IsStation(st) /\ Score(q, st) \in Int
                    /\ SortKey(q, st) \in Int \X Int \X Int
                    /\ SortKey(q, st)[1] = -Score(q, st)
                    /\ SortKey(q, st)[3] = Rank[st.code]
  <2> SUFFICES ASSUME NEW st \in S
               PROVE  /\ IsStation(st) /\ Score(q, st) \in Int
                      /\ SortKey(q, st) \in Int \X Int \X Int
                      /\ SortKey(q, st)[1] = -Score(q, st)
                      /\ SortKey(q, st)[3] = Rank[st.code]
    OBVIOUS
  <2>1. IsStation(st)
    BY DEF IsIndex
  <2>2. Score(q, st) \in Int
    BY <2>1, ScoreOf
  <2>3. Len(st.names[1]) \in Int
    <3>1. st.names[1] \in Seq(Letter)
      BY <2>1 DEF IsStation
    <3> QED
      BY <3>1
  <2>4. Rank[st.code] \in Int
    BY <2>1 DEF IsStation
  <2> QED
    BY <2>1, <2>2, <2>3, <2>4 DEF SortKey
<1>2. IsFiniteSet(all)
  <2> DEFINE f == [st \in S |-> Match(st)]
  <2>1. f \in Surjection(S, all)
    BY DEF Surjection
  <2>2. IsFiniteSet(S)
    BY DEF IsIndex
  <2> HIDE DEF f, all
  <2> QED
    BY ONLY <2>1, <2>2, FS_Surjection
<1>3. IsFiniteSet(found) /\ Cardinality(found) \in Nat
  <2>1. found \in SUBSET all
    OBVIOUS
  <2> HIDE DEF found, all
  <2>2. IsFiniteSet(found)
    BY ONLY <1>2, <2>1, FS_Subset
  <2> QED
    BY ONLY <2>2, FS_CardinalityType
<1>4. \A m \in found : /\ m.station \in S /\ m = Match(m.station)
                       /\ m.key = SortKey(q, m.station) /\ m.key[1] < 0
  OBVIOUS
<1>5. \A m \in found : m.key \in Int \X Int \X Int
  BY <1>1, <1>4
<1>6. \A m, o \in found : m.key[3] = o.key[3] => m = o
  <2> SUFFICES ASSUME NEW m \in found, NEW o \in found, m.key[3] = o.key[3] PROVE m = o
    OBVIOUS
  <2>1. Rank[m.station.code] = Rank[o.station.code]
    BY <1>1, <1>4
  <2>2. m.station = o.station
    BY <1>4, <2>1 DEF IsIndex
  <2> QED
    BY <1>4, <2>2
<1>7. Orders(R, found)
  <2> HIDE DEF found
  <2> QED
    BY <1>5, <1>6, BetterOrders
<1>8. \A m \in found : Before(R, found, m) = {o \in found : Better(o.key, m.key)}
  <2> HIDE DEF found
  <2> QED
    BY DEF Before
<1>9. n \in Nat /\ n <= Cardinality(found)
  <2> HIDE DEF found
  <2>1. {limit, Cardinality(found)} \in SUBSET Nat
    BY <1>3
  <2> QED
    BY <2>1, MinOfNats
<1>10. ASSUME NEW k \in 1..n
       PROVE  Kth(k) \in found /\ Cardinality(Before(R, found, Kth(k))) = k - 1
  <2> HIDE DEF found, R, n
  <2>1. k - 1 \in Nat /\ k - 1 < Cardinality(found)
    BY <1>3, <1>9
  <2>2. \E m \in found : Cardinality(Before(R, found, m)) = k - 1
    BY <1>3, <1>7, <2>1, Ranks
  <2>3. \E m \in found : Cardinality({o \in found : Better(o.key, m.key)}) = k - 1
    BY <1>8, <2>2
  <2>4. Kth(k) \in found /\ Cardinality({o \in found : Better(o.key, Kth(k).key)}) = k - 1
    BY <2>3
  <2> HIDE DEF Kth
  <2> QED
    BY <1>8, <2>4
<1>11. r = [k \in 1..n |-> Kth(k).station]
  BY DEF SearchStations
<1> HIDE DEF found, R, n, Kth, r
<1>12. r \in Seq(S) /\ DOMAIN r = 1..n /\ \A k \in 1..n : r[k] = Kth(k).station
  BY <1>4, <1>9, <1>10, <1>11
<1>13. \A k \in DOMAIN r : Score(q, r[k]) > 0
  <2> SUFFICES ASSUME NEW k \in 1..n PROVE Score(q, r[k]) > 0
    BY <1>12
  <2>1. r[k] \in S /\ Kth(k).key[1] < 0 /\ Kth(k).key[1] = -Score(q, r[k])
    BY <1>1, <1>4, <1>10, <1>12
  <2> QED
    BY <1>1, <2>1
<1>14. \A k, l \in DOMAIN r : k < l => Score(q, r[k]) >= Score(q, r[l])
  <2> SUFFICES ASSUME NEW k \in 1..n, NEW l \in 1..n, k < l
               PROVE  Score(q, r[k]) >= Score(q, r[l])
    BY <1>12
  <2> DEFINE a == Kth(k)
             b == Kth(l)
  <2>1. a \in found /\ b \in found
    BY <1>10
  <2>2. /\ Cardinality(Before(R, found, a)) = k - 1
        /\ Cardinality(Before(R, found, b)) = l - 1
    BY <1>10
  <2>3. /\ r[k] \in S /\ a.key[1] = -Score(q, r[k]) /\ a.key \in Int \X Int \X Int
        /\ r[l] \in S /\ b.key[1] = -Score(q, r[l]) /\ b.key \in Int \X Int \X Int
    BY <1>1, <1>4, <1>12, <2>1
  <2> HIDE DEF a, b
  <2>4. a # b
    BY <2>2
  <2>5. <<b, a>> \notin R
    <3> SUFFICES ASSUME <<b, a>> \in R PROVE FALSE
      OBVIOUS
    <3>1. Cardinality(Before(R, found, b)) < Cardinality(Before(R, found, a))
      BY <1>3, <1>7, <2>1, Precedes
    <3> QED
      BY <2>2, <3>1
  <2>6. <<a, b>> \in R
    BY <1>7, <2>1, <2>4, <2>5 DEF Orders
  <2>7. Better(a.key, b.key)
    BY <2>6 DEF R
  <2>8. a.key[1] < b.key[1] \/ a.key[1] = b.key[1]
    BY <2>3, <2>7, BetterMeans
  <2>9. -Score(q, r[k]) <= -Score(q, r[l])
    BY <1>1, <2>3, <2>8
  <2>10. Score(q, r[k]) \in Int /\ Score(q, r[l]) \in Int
    BY <1>1, <2>3
  <2> QED
    BY ONLY <2>9, <2>10
<1> QED
  BY <1>12, <1>13, <1>14 DEF AreResults, r
=============================================================================
