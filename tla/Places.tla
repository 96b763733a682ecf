------------------------------- MODULE Places -------------------------------
(***************************************************************************)
(* Facts about places in a sequence: finitely many have a first and a last *)
(* one, and what holds of the first place and passes from each place to    *)
(* the next holds of all.  The same along the natural numbers gives the    *)
(* values of a step taken again and again.  And where the elements of a    *)
(* sequence are once one is removed or inserted, or once the sequences of  *)
(* a sequence are joined into one.                                         *)
(***************************************************************************)
EXTENDS
  Integers, Ascending, SequencesExt, SequenceTheorems, FiniteSetTheorems,
  WellFoundedInduction, TLAPS

\* Places that are numbered from 0 on have a first ...
LEMMA FirstPlace ==
  ASSUME NEW T \in SUBSET Nat, T # {}
  PROVE  \E k \in T : \A l \in T : k <= l
<1>1. PICK k \in T : \A l \in T : ~ (<<l, k>> \in OpToRel(<, Nat))
  BY WFMin, NatLessThanWellFounded
<1>2. \A l \in T : ~ (l < k)
  BY <1>1 DEF OpToRel
<1> QED
  BY <1>2

\* ... and a last.
LEMMA LastPlace ==
  ASSUME NEW n \in Nat, NEW T \in SUBSET (0 .. n), T # {}
  PROVE  \E k \in T : \A l \in T : l <= k
<1> DEFINE U == {u \in Nat : \E k \in T : u = n - k}
<1>1. U \in SUBSET Nat /\ U # {}
  <2>1. PICK k \in T : TRUE
    OBVIOUS
  <2>2. n - k \in U
    BY <2>1
  <2> QED
    BY <2>2
<1>2. PICK u \in U : \A v \in U : u <= v
  BY <1>1, FirstPlace
<1>3. PICK k \in T : u = n - k
  BY <1>2
<1>4. ASSUME NEW l \in T PROVE l <= k
  <2>1. n - l \in U
    OBVIOUS
  <2> HIDE DEF U
  <2>2. n - k <= n - l
    BY <1>2, <1>3, <2>1
  <2> QED
    BY <2>2
<1> QED
  BY <1>4

\* Induction along the places.
LEMMA EveryPlace ==
  ASSUME NEW n \in Nat, NEW S, 1 \in S,
         \A i \in 1 .. n : i \in S => i + 1 \in S
  PROVE  \A i \in 1 .. n + 1 : i \in S
<1> DEFINE T == {i \in 1 .. n + 1 : i \notin S}
<1>1. SUFFICES ASSUME T # {} PROVE FALSE
  OBVIOUS
<1>2. T \in SUBSET Nat
  OBVIOUS
<1>3. PICK k \in T : \A l \in T : k <= l
  BY <1>1, <1>2, FirstPlace
<1>4. k # 1
  BY <1>3
<1>5. k - 1 \in 1 .. n /\ k - 1 \notin T
  BY <1>3, <1>4
<1>6. k - 1 \in S
  BY <1>5
<1> QED
  BY <1>3, <1>5, <1>6

\* Induction along the natural numbers.
LEMMA EveryNumber ==
  ASSUME NEW S, 0 \in S, \A n \in Nat : n \in S => n + 1 \in S
  PROVE  \A n \in Nat : n \in S
<1> SUFFICES ASSUME NEW n \in Nat PROVE n \in S
  OBVIOUS
<1> DEFINE T == {i \in Nat : i - 1 \in S}
<1>1. 1 \in T
  OBVIOUS
<1>2. \A i \in 1 .. n : i \in T => i + 1 \in T
  OBVIOUS
<1> HIDE DEF T
<1>3. n + 1 \in T
  BY <1>1, <1>2, EveryPlace
<1> QED
  BY <1>3 DEF T

\* Where neighbours ascend, all ascends.
LEMMA NeighboursAscend ==
  ASSUME NEW m \in Nat, NEW c, \A i \in 1 .. m : c[i] \in Int,
         \A i \in 2 .. m : c[i - 1] < c[i]
  PROVE  \A i, j \in 1 .. m : i < j => c[i] < c[j]
<1> SUFFICES ASSUME NEW i \in 1 .. m, NEW j \in 1 .. m, i < j PROVE c[i] < c[j]
  OBVIOUS
<1> DEFINE S == {d \in Nat : i + d <= m => c[i] < c[i + d]}
<1>1. 1 \in S
  <2>1. i + 1 <= m => i + 1 \in 2 .. m /\ (i + 1) - 1 = i
    OBVIOUS
  <2> QED
    BY <2>1
<1>2. ASSUME NEW d \in 1 .. m, d \in S PROVE d + 1 \in S
  <2>1. CASE i + (d + 1) <= m
    <3> DEFINE k == i + d
    <3>1. k \in 1 .. m /\ k + 1 \in 2 .. m /\ (k + 1) - 1 = k /\ i + (d + 1) = k + 1 /\ k + 1 \in 1 .. m
      BY <2>1
    <3>2. c[i] < c[k]
      BY <1>2, <3>1
    <3> HIDE DEF k
    <3>3. c[k] < c[k + 1]
      BY <3>1
    <3>4. c[i] \in Int /\ c[k] \in Int /\ c[k + 1] \in Int
      BY <3>1
    <3>5. c[i] < c[k + 1]
      BY <3>2, <3>3, <3>4
    <3> QED
      BY <3>1, <3>5
  <2>2. CASE ~ (i + (d + 1) <= m)
    BY <2>2
  <2> QED
    BY <2>1, <2>2
<1> HIDE DEF S
<1>3. \A d \in 1 .. m + 1 : d \in S
  BY <1>1, <1>2, EveryPlace
<1>4. j - i \in S
  BY <1>3
<1> QED
  BY <1>4 DEF S

\* Where no neighbour falls, nothing falls.
LEMMA NeighboursClimb ==
  ASSUME NEW m \in Nat, NEW c, \A i \in 1 .. m : c[i] \in Int,
         \A i \in 1 .. m - 1 : c[i] <= c[i + 1]
  PROVE  \A i, j \in 1 .. m : i <= j => c[i] <= c[j]
<1> SUFFICES ASSUME NEW i \in 1 .. m, NEW j \in 1 .. m, i <= j PROVE c[i] <= c[j]
  OBVIOUS
<1> DEFINE S == {d \in Nat : i + d <= m => c[i] <= c[i + d]}
<1>1. 0 \in S
  OBVIOUS
<1>2. ASSUME NEW d \in Nat, d \in S PROVE d + 1 \in S
  <2> SUFFICES ASSUME i + (d + 1) <= m PROVE c[i] <= c[i + (d + 1)]
    OBVIOUS
  <2> DEFINE k == i + d
  <2>1. k \in 1 .. m - 1 /\ i + (d + 1) = k + 1 /\ k + 1 \in 1 .. m /\ k \in 1 .. m /\ i + d <= m
    OBVIOUS
  <2>2. c[i] <= c[k]
    BY <1>2, <2>1
  <2> HIDE DEF k
  <2>3. c[k] <= c[k + 1] /\ c[i] \in Int /\ c[k] \in Int /\ c[k + 1] \in Int
    BY <2>1
  <2>4. c[i] <= c[k + 1]
    BY <2>2, <2>3
  <2> QED
    BY <2>1, <2>4
<1> HIDE DEF S
<1>3. \A d \in Nat : d \in S
  BY <1>1, <1>2, EveryNumber
<1>4. j - i \in S
  BY <1>3
<1> QED
  BY <1>4 DEF S

\* There are as many places as the last one says.
LEMMA PlacesAreFinite ==
  ASSUME NEW n \in Nat
  PROVE  IsFiniteSet(1 .. n) /\ Cardinality(1 .. n) = n
<1>1. IsFiniteSet(1 .. n) /\ Cardinality(1 .. n) = IF 1 > n THEN 0 ELSE n - 1 + 1
  BY FS_Interval
<1> QED
  BY <1>1

\* A step on the values of P, taken again and again.
LEMMA Iterates ==
  ASSUME NEW P, NEW base \in P, NEW step \in [P -> P]
  PROVE  \E f \in [Nat -> P] : f[0] = base /\ \A n \in Nat : f[n + 1] = step[f[n]]
<1> DEFINE Upto(n, g) == /\ g \in [0 .. n -> P]
                         /\ g[0] = base
                         /\ \A i \in 0 .. n - 1 : g[i + 1] = step[g[i]]
           Some == {n \in Nat : \E g : Upto(n, g)}
           Same == {i \in Nat : \A m, n \in Nat : \A g, h :
                      Upto(m, g) /\ Upto(n, h) /\ i <= m /\ i <= n => g[i] = h[i]}
<1>1. 0 \in Some
  <2> DEFINE g == [i \in 0 .. 0 |-> base]
  <2>1. Upto(0, g)
    OBVIOUS
  <2> QED
    BY <2>1
<1>2. ASSUME NEW n \in Nat, n \in Some PROVE n + 1 \in Some
  <2>1. PICK g : Upto(n, g)
    BY <1>2
  <2> DEFINE h == [i \in 0 .. n + 1 |-> IF i = n + 1 THEN step[g[n]] ELSE g[i]]
  <2>2. h \in [0 .. n + 1 -> P] /\ h[0] = base
    BY <2>1
  <2>3. ASSUME NEW i \in 0 .. (n + 1) - 1 PROVE h[i + 1] = step[h[i]]
    <3>1. CASE i = n
      BY <2>1, <3>1
    <3>2. CASE i \in 0 .. n - 1
      BY <2>1, <3>2
    <3> QED
      BY <3>1, <3>2
  <2>4. Upto(n + 1, h)
    BY <2>2, <2>3
  <2> HIDE DEF h, Upto
  <2> QED
    BY <2>4
<1>3. 0 \in Same
  <2>1. ASSUME NEW m \in Nat, NEW n \in Nat, NEW g, NEW h, Upto(m, g), Upto(n, h)
        PROVE  g[0] = h[0]
    BY <2>1
  <2> QED
    BY <2>1
<1>4. ASSUME NEW i \in Nat, i \in Same PROVE i + 1 \in Same
  <2> SUFFICES ASSUME NEW m \in Nat, NEW n \in Nat, NEW g, NEW h, Upto(m, g), Upto(n, h),
                      i + 1 <= m, i + 1 <= n
               PROVE  g[i + 1] = h[i + 1]
    OBVIOUS
  <2>1. i <= m /\ i <= n
    OBVIOUS
  <2> HIDE DEF Upto
  <2>2. g[i] = h[i]
    BY <1>4, <2>1
  <2> QED
    BY <2>1, <2>2 DEF Upto
<1> HIDE DEF Some, Same
<1>5. \A n \in Nat : n \in Some
  BY <1>1, <1>2, EveryNumber
<1>6. \A n \in Nat : n \in Same
  BY <1>3, <1>4, EveryNumber
<1> DEFINE first(n) == CHOOSE g : Upto(n, g)
           f == [n \in Nat |-> first(n)[n]]
<1>7. \A n \in Nat : Upto(n, first(n))
  BY <1>5 DEF Some
<1> HIDE DEF first
<1>8. f \in [Nat -> P] /\ f[0] = base
  BY <1>7
<1>9. ASSUME NEW n \in Nat PROVE f[n + 1] = step[f[n]]
  <2>1. Upto(n, first(n)) /\ Upto(n + 1, first(n + 1))
    BY <1>7
  <2> HIDE DEF Upto
  <2>2. first(n)[n] = first(n + 1)[n]
    BY <1>6, <2>1 DEF Same
  <2>3. first(n + 1)[n + 1] = step[first(n + 1)[n]]
    BY <2>1 DEF Upto
  <2> QED
    BY <2>2, <2>3
<1> QED
  BY <1>8, <1>9

(***************************************************************************)
(* Sets of integers in ascending order.                                    *)
(***************************************************************************)

\* The elements of S below x.
Below(S, x) == {y \in S : y < x}

\* An element that is below another has fewer elements below it.
LEMMA RankGrows ==
  ASSUME NEW S \in SUBSET Int, IsFiniteSet(S), NEW x \in S, NEW y \in S, x < y
  PROVE  Cardinality(Below(S, x)) < Cardinality(Below(S, y))
<1>1. Below(S, x) \in SUBSET Below(S, y) /\ x \in Below(S, y) /\ x \notin Below(S, x)
  <2>1. x \in Int /\ y \in Int /\ \A z \in S : z \in Int
    OBVIOUS
  <2>2. \A z \in S : z < x => z < y
    BY <2>1
  <2>3. ~ (x < x)
    BY <2>1
  <2>4. \A z \in Below(S, x) : z \in Below(S, y)
    BY <2>2 DEF Below
  <2> QED
    BY <2>3, <2>4 DEF Below
<1>2. IsFiniteSet(Below(S, y)) /\ IsFiniteSet(Below(S, x))
  <2>1. Below(S, y) \in SUBSET S /\ Below(S, x) \in SUBSET S
    BY DEF Below
  <2> QED
    BY <2>1, FS_Subset
<1>3. /\ Cardinality(Below(S, x)) <= Cardinality(Below(S, y))
      /\ Cardinality(Below(S, x)) # Cardinality(Below(S, y))
  BY <1>1, <1>2, FS_Subset
<1>4. Cardinality(Below(S, x)) \in Nat /\ Cardinality(Below(S, y)) \in Nat
  BY <1>2, FS_CardinalityType
<1> QED
  BY <1>3, <1>4

\* For every number of elements below there is one element.
LEMMA EveryRank ==
  ASSUME NEW S \in SUBSET Int, IsFiniteSet(S)
  PROVE  /\ Cardinality(S) \in Nat
         /\ \A x \in S : Cardinality(Below(S, x)) \in 0 .. Cardinality(S) - 1
         /\ \A i \in 0 .. Cardinality(S) - 1 : \E x \in S : Cardinality(Below(S, x)) = i
<1> DEFINE n == Cardinality(S)
           rank == [x \in S |-> Cardinality(Below(S, x))]
<1>1. n \in Nat
  BY FS_CardinalityType
<1>2. ASSUME NEW x \in S PROVE rank[x] \in 0 .. n - 1
  <2>1. Below(S, x) \in SUBSET S /\ x \notin Below(S, x)
    BY DEF Below
  <2>2. IsFiniteSet(Below(S, x)) /\ Cardinality(Below(S, x)) <= n /\ Cardinality(Below(S, x)) # n
    BY <2>1, FS_Subset
  <2>3. Cardinality(Below(S, x)) \in Nat
    BY <2>2, FS_CardinalityType
  <2> QED
    BY <1>1, <2>2, <2>3
<1>3. ASSUME NEW x \in S, NEW y \in S, rank[x] = rank[y] PROVE x = y
  <2>1. rank[x] \in Int /\ rank[y] \in Int
    BY <1>2
  <2>2. ~ (x < y) /\ ~ (y < x)
    BY <1>3, <2>1, RankGrows
  <2> QED
    BY <2>2
<1>4. rank \in Injection(S, 0 .. n - 1)
  BY <1>2, <1>3 DEF Injection, IsInjective
<1>5. IsFiniteSet(0 .. n - 1) /\ Cardinality(0 .. n - 1) = n
  BY <1>1, FS_Interval
<1> HIDE DEF rank
<1>6. rank \in Surjection(S, 0 .. n - 1)
  BY <1>4, <1>5, FS_Injection
<1>7. \A i \in 0 .. n - 1 : \E x \in S : rank[x] = i
  BY <1>6 DEF Surjection
<1> QED
  BY <1>1, <1>2, <1>7 DEF rank

\* Ascending lists every element of a finite set once, the smaller before the greater.
LEMMA AscendingLists ==
  ASSUME NEW S \in SUBSET Int, IsFiniteSet(S)
  PROVE  /\ Cardinality(S) \in Nat
         /\ Ascending(S) \in [1 .. Cardinality(S) -> S]
         /\ \A x \in S : \E i \in 1 .. Cardinality(S) : Ascending(S)[i] = x
         /\ \A i, j \in 1 .. Cardinality(S) : i < j => Ascending(S)[i] < Ascending(S)[j]
<1> DEFINE n == Cardinality(S)
           rank(x) == Cardinality(Below(S, x))
           a == Ascending(S)
<1>1. /\ n \in Nat
      /\ \A x \in S : rank(x) \in 0 .. n - 1
      /\ \A i \in 0 .. n - 1 : \E x \in S : rank(x) = i
  BY EveryRank
<1>2. \A x, y \in S : x < y => rank(x) < rank(y)
  BY RankGrows
<1>3. a = [i \in 1 .. n |-> CHOOSE x \in S : rank(x) = i - 1]
  BY DEF Ascending, Below
<1> HIDE DEF n, rank, a
<1>4. \A i \in 1 .. n : i - 1 \in 0 .. n - 1
  BY <1>1
<1>5. \A i \in 1 .. n : a[i] \in S /\ rank(a[i]) = i - 1
  BY <1>1, <1>3, <1>4
<1>6. a \in [1 .. n -> S]
  BY <1>3, <1>5
<1>7. ASSUME NEW x \in S PROVE \E i \in 1 .. n : a[i] = x
  <2>1. rank(x) + 1 \in 1 .. n /\ rank(x) \in Int
    BY <1>1
  <2>2. a[rank(x) + 1] \in S /\ rank(a[rank(x) + 1]) = rank(x)
    BY <1>5, <2>1
  <2> DEFINE y == a[rank(x) + 1]
  <2> HIDE DEF y
  <2>3. y \in S /\ y \in Int /\ x \in Int /\ rank(y) = rank(x)
    BY <2>2 DEF y
  <2>4. ~ (y < x) /\ ~ (x < y)
    BY <1>2, <2>1, <2>3
  <2>5. y = x
    BY <2>3, <2>4
  <2> QED
    BY <2>1, <2>5 DEF y
<1>8. ASSUME NEW i \in 1 .. n, NEW j \in 1 .. n, i < j PROVE a[i] < a[j]
  <2>1. /\ a[i] \in S /\ a[j] \in S /\ a[i] \in Int /\ a[j] \in Int
        /\ rank(a[i]) = i - 1 /\ rank(a[j]) = j - 1
    BY <1>5
  <2>2. a[i] # a[j]
    BY <1>1, <1>8, <2>1
  <2>3. ~ (a[j] < a[i])
    BY <1>1, <1>2, <1>8, <2>1
  <2> QED
    BY <2>1, <2>2, <2>3
<1> QED
  BY <1>1, <1>6, <1>7, <1>8 DEF n, a

\* A list that ascends, and leaves out nothing that is below one of its elements, is how
\* the ascending list begins.
LEMMA AscendingBegins ==
  ASSUME NEW S \in SUBSET Int, IsFiniteSet(S),
         NEW m \in Nat, NEW list \in [1 .. m -> S],
         \A k, l \in 1 .. m : k < l => list[k] < list[l],
         \A x \in S : \A k \in 1 .. m : x < list[k] => \E l \in 1 .. m : list[l] = x
  PROVE  /\ m <= Cardinality(S)
         /\ \A k \in 1 .. m : Ascending(S)[k] = list[k]
<1> DEFINE n == Cardinality(S)
           rank(x) == Cardinality(Below(S, x))
<1>1. /\ n \in Nat
      /\ \A x \in S : rank(x) \in 0 .. n - 1
  BY EveryRank
<1>2. ASSUME NEW k \in 1 .. m PROVE rank(list[k]) = k - 1
  <2> DEFINE f == [l \in 1 .. k - 1 |-> list[l]]
  <2>1. \A l \in 1 .. k - 1 : l \in 1 .. m /\ l < k
    OBVIOUS
  <2>2. \A l \in 1 .. m : list[l] \in S /\ list[l] \in Int
    OBVIOUS
  <2>3. f \in [1 .. k - 1 -> Below(S, list[k])]
    BY <2>1, <2>2 DEF Below
  <2>4. ASSUME NEW x \in Below(S, list[k]) PROVE \E l \in 1 .. k - 1 : f[l] = x
    <3>1. x \in S /\ x < list[k]
      BY DEF Below
    <3>2. PICK l \in 1 .. m : list[l] = x
      BY <3>1
    <3>3. ~ (k < l) /\ l # k
      BY <2>2, <3>1, <3>2
    <3>4. l \in 1 .. k - 1
      BY <3>3
    <3> QED
      BY <3>2, <3>4
  <2>5. ASSUME NEW i \in 1 .. k - 1, NEW j \in 1 .. k - 1, f[i] = f[j] PROVE i = j
    BY <2>1, <2>2, <2>5
  <2>6. f \in Bijection(1 .. k - 1, Below(S, list[k]))
    BY <2>3, <2>4, <2>5 DEF Bijection, Injection, IsInjective, Surjection
  <2>7. k - 1 \in Nat
    OBVIOUS
  <2>8. IsFiniteSet(1 .. k - 1) /\ Cardinality(1 .. k - 1) = k - 1
    BY <2>7, PlacesAreFinite
  <2> HIDE DEF f
  <2>9. ExistsBijection(1 .. k - 1, Below(S, list[k]))
    BY <2>6 DEF ExistsBijection
  <2> QED
    BY <2>8, <2>9, FS_Bijection
<1>3. \A k \in 1 .. m : list[k] \in S
  OBVIOUS
<1>4. Ascending(S) = [k \in 1 .. n |-> CHOOSE x \in S : rank(x) = k - 1]
  BY DEF Ascending, Below
<1>5. \A x, y \in S : x < y => rank(x) < rank(y)
  BY RankGrows
<1> HIDE DEF n, rank
<1>6. m <= n
  <2>1. CASE m = 0
    BY <1>1, <2>1
  <2>2. CASE m # 0
    <3>1. m \in 1 .. m
      BY <2>2
    <3>2. m - 1 \in 0 .. n - 1
      BY <1>1, <1>2, <1>3, <3>1
    <3> QED
      BY <1>1, <3>2
  <2> QED
    BY <2>1, <2>2
<1>7. ASSUME NEW k \in 1 .. m PROVE Ascending(S)[k] = list[k]
  <2>1. k \in 1 .. n
    BY <1>1, <1>6
  <2>2. ASSUME NEW x \in S, rank(x) = k - 1 PROVE x = list[k]
    <3> DEFINE y == list[k]
    <3>1. y \in S /\ rank(y) = k - 1
      BY <1>2, <1>3
    <3> HIDE DEF y
    <3>2. ~ (x < y) /\ ~ (y < x)
      <4>1. rank(x) = rank(y) /\ rank(y) \in Int
        BY <2>2, <3>1
      <4> QED
        BY <1>5, <3>1, <4>1
    <3>3. x \in Int /\ y \in Int
      BY <3>1
    <3>4. x = y
      BY <3>2, <3>3
    <3> QED
      BY <3>4 DEF y
  <2>3. Ascending(S)[k] = CHOOSE x \in S : rank(x) = k - 1
    BY <1>4, <2>1
  <2> QED
    BY <1>2, <1>3, <2>2, <2>3
<1> QED
  BY <1>6, <1>7 DEF n

\* What is moved without being reordered is listed in the order it had.
LEMMA AscendingMoves ==
  ASSUME NEW S \in SUBSET Int, IsFiniteSet(S), NEW T \in SUBSET Int, NEW f \in [S -> T],
         \A x, y \in S : x < y => f[x] < f[y],
         \A y \in T : \E x \in S : f[x] = y
  PROVE  /\ Cardinality(T) = Cardinality(S) /\ IsFiniteSet(T)
         /\ \A k \in 1 .. Cardinality(S) : Ascending(T)[k] = f[Ascending(S)[k]]
<1>1. f \in Bijection(S, T)
  <2>1. ASSUME NEW x \in S, NEW y \in S, f[x] = f[y] PROVE x = y
    <3>1. f[x] \in Int /\ f[y] \in Int /\ x \in Int /\ y \in Int
      OBVIOUS
    <3>2. ~ (x < y) /\ ~ (y < x)
      BY <2>1, <3>1
    <3> QED
      BY <3>1, <3>2
  <2> QED
    BY <2>1 DEF Bijection, Injection, IsInjective, Surjection
<1>2. IsFiniteSet(T) /\ Cardinality(S) = Cardinality(T)
  <2>1. ExistsBijection(S, T)
    BY <1>1 DEF ExistsBijection
  <2> QED
    BY <2>1, FS_Bijection
<1> DEFINE n == Cardinality(S)
           a == Ascending(S)
<1>3. /\ n \in Nat
      /\ a \in [1 .. n -> S]
      /\ \A x \in S : \E i \in 1 .. n : a[i] = x
      /\ \A i, j \in 1 .. n : i < j => a[i] < a[j]
  BY AscendingLists
<1> HIDE DEF n, a
<1> DEFINE list == [k \in 1 .. n |-> f[a[k]]]
<1>4. list \in [1 .. n -> T]
  BY <1>3
<1>5. \A k, l \in 1 .. n : k < l => list[k] < list[l]
  BY <1>3
<1>6. \A y \in T : \E k \in 1 .. n : list[k] = y
  BY <1>3
<1>7. \A k \in 1 .. n : list[k] = f[a[k]]
  OBVIOUS
<1> HIDE DEF list
<1>8. \A k \in 1 .. n : Ascending(T)[k] = list[k]
  BY <1>2, <1>3, <1>4, <1>5, <1>6, AscendingBegins
<1> QED
  BY <1>2, <1>7, <1>8 DEF n, a

(***************************************************************************)
(* A sequence restricted to some of its places.                            *)
(***************************************************************************)

\* The elements at these places, in their order.
LEMMA RestrictedTo ==
  ASSUME NEW n \in Nat, NEW s, NEW P \in SUBSET (1 .. n)
  PROVE  /\ Cardinality(P) \in Nat /\ IsFiniteSet(P)
         /\ Ascending(P) \in [1 .. Cardinality(P) -> P]
         /\ \A x \in P : \E k \in 1 .. Cardinality(P) : Ascending(P)[k] = x
         /\ \A k, l \in 1 .. Cardinality(P) : k < l <=> Ascending(P)[k] < Ascending(P)[l]
         /\ DOMAIN Restricted(s, P) = 1 .. Cardinality(P)
         /\ Len(Restricted(s, P)) = Cardinality(P)
         /\ \A k \in 1 .. Cardinality(P) : Restricted(s, P)[k] = s[Ascending(P)[k]]
<1>1. IsFiniteSet(P)
  BY PlacesAreFinite, FS_Subset
<1> DEFINE m == Cardinality(P)
           e == Ascending(P)
<1>2. /\ m \in Nat
      /\ e \in [1 .. m -> P]
      /\ \A x \in P : \E k \in 1 .. m : e[k] = x
      /\ \A k, l \in 1 .. m : k < l => e[k] < e[l]
  BY <1>1, AscendingLists
<1>3. Restricted(s, P) = [k \in 1 .. m |-> s[e[k]]]
  BY DEF Restricted
<1> HIDE DEF m, e
<1>4. ASSUME NEW k \in 1 .. m, NEW l \in 1 .. m, e[k] < e[l]
      PROVE  k < l
  <2>1. e[k] \in P /\ e[l] \in P
    BY <1>2
  <2>5. \A x \in P : x \in Int
    OBVIOUS
  <2>4. e[k] \in Int /\ e[l] \in Int
    BY <2>1, <2>5
  <2>2. ~ (l < k)
    BY <1>2, <1>4, <2>4
  <2>3. k # l
    BY <1>4, <2>4
  <2> QED
    BY <1>2, <2>2, <2>3
<1>5. Len([k \in 1 .. m |-> s[e[k]]]) = m
  BY <1>2
<1> QED
  BY <1>1, <1>2, <1>3, <1>4, <1>5 DEF m, e

\* It is a sequence of what the elements are.
LEMMA RestrictedType ==
  ASSUME NEW n \in Nat, NEW s, NEW P \in SUBSET (1 .. n), NEW X, \A i \in P : s[i] \in X
  PROVE  Restricted(s, P) \in Seq(X)
<1> DEFINE m == Cardinality(P)
           e == Ascending(P)
<1>1. m \in Nat /\ e \in [1 .. m -> P]
  BY RestrictedTo
<1>2. Restricted(s, P) = [k \in 1 .. m |-> s[e[k]]]
  BY DEF Restricted
<1> HIDE DEF m, e
<1>3. [k \in 1 .. m |-> s[e[k]]] \in [1 .. m -> X]
  BY <1>1
<1> QED
  BY <1>1, <1>2, <1>3

\* Restricting twice is restricting to the places that are left.
LEMMA RestrictedTwice ==
  ASSUME NEW n \in Nat, NEW s, NEW P \in SUBSET (1 .. n), NEW R \in SUBSET P,
         NEW Q \in SUBSET (1 .. Cardinality(P)),
         \A k \in 1 .. Cardinality(P) : k \in Q <=> Ascending(P)[k] \in R
  PROVE  Restricted(Restricted(s, P), Q) = Restricted(s, R)
<1> DEFINE m == Cardinality(P)
           e == Ascending(P)
           f == [k \in Q |-> e[k]]
           t == Restricted(s, P)
<1>1. Q \in SUBSET (1 .. m) /\ (\A k \in 1 .. m : k \in Q <=> e[k] \in R)
  OBVIOUS
<1> HIDE DEF m, e, f, t
<1>2. /\ m \in Nat
      /\ e \in [1 .. m -> P]
      /\ \A x \in P : \E k \in 1 .. m : e[k] = x
      /\ \A k, l \in 1 .. m : k < l <=> e[k] < e[l]
  <2>1. e \in [1 .. m -> P]
    BY RestrictedTo DEF m, e
  <2>2. \A k, l \in 1 .. m : k < l <=> e[k] < e[l]
    BY RestrictedTo DEF m, e
  <2>3. m \in Nat /\ \A x \in P : \E k \in 1 .. m : e[k] = x
    BY RestrictedTo DEF m, e
  <2> QED
    BY <2>1, <2>2, <2>3
<1>3. \A k \in 1 .. m : t[k] = s[e[k]]
  BY DEF Restricted, m, e, t
<1>4. IsFiniteSet(Q)
  BY <1>1, <1>2, PlacesAreFinite, FS_Subset
<1>5. DOMAIN f = Q /\ \A k \in Q : f[k] = e[k] /\ f[k] \in R
  BY <1>1 DEF f
<1>6. f \in [Q -> R]
  BY <1>5 DEF f
<1>7. \A y \in R : \E k \in Q : f[k] = y
  BY <1>1, <1>2, <1>5
<1>8. \A k, l \in Q : k < l => f[k] < f[l]
  BY <1>1, <1>2, <1>5
<1>9. Q \in SUBSET Int /\ R \in SUBSET Int
  BY <1>1, <1>2
<1>10. /\ Cardinality(R) = Cardinality(Q)
       /\ \A k \in 1 .. Cardinality(Q) : Ascending(R)[k] = f[Ascending(Q)[k]]
  BY <1>4, <1>6, <1>7, <1>8, <1>9, AscendingMoves
<1>11. Ascending(Q) \in [1 .. Cardinality(Q) -> Q]
  BY <1>4, <1>9, AscendingLists
<1>12. \A k \in 1 .. Cardinality(Q) : t[Ascending(Q)[k]] = s[Ascending(R)[k]]
  <2> SUFFICES ASSUME NEW k \in 1 .. Cardinality(Q)
               PROVE  t[Ascending(Q)[k]] = s[Ascending(R)[k]]
    OBVIOUS
  <2>1. PICK q \in Q : q = Ascending(Q)[k]
    BY <1>11
  <2>2. t[q] = s[e[q]] /\ Ascending(R)[k] = e[q]
    BY <1>1, <1>3, <1>5, <1>10, <2>1
  <2> QED
    BY <2>1, <2>2
<1> QED
  BY <1>10, <1>12 DEF Restricted, t

(***************************************************************************)
(* An element taken out of a sequence, or put in.                          *)
(***************************************************************************)

\* What RemoveAt leaves: the places behind i close up.
LEMMA RemovedAt ==
  ASSUME NEW S, NEW s \in Seq(S), NEW i \in 1 .. Len(s)
  PROVE  /\ RemoveAt(s, i) \in Seq(S)
         /\ Len(RemoveAt(s, i)) = Len(s) - 1
         /\ \A k \in 1 .. Len(s) - 1 :
              RemoveAt(s, i)[k] = IF k < i THEN s[k] ELSE s[k + 1]
<1> DEFINE a == SubSeq(s, 1, i - 1)
           b == SubSeq(s, i + 1, Len(s))
<1>1. a \in Seq(S) /\ Len(a) = i - 1 /\ \A k \in 1 .. i - 1 : a[k] = s[k]
  OBVIOUS
<1>2. b \in Seq(S) /\ Len(b) = Len(s) - i /\ \A k \in 1 .. Len(s) - i : b[k] = s[k + i]
  OBVIOUS
<1>3. RemoveAt(s, i) = a \o b
  BY DEF RemoveAt
<1> HIDE DEF a, b
<1>4. /\ a \o b \in Seq(S) /\ Len(a \o b) = Len(a) + Len(b)
      /\ \A k \in 1 .. Len(a) + Len(b) :
           (a \o b)[k] = IF k <= Len(a) THEN a[k] ELSE b[k - Len(a)]
  BY <1>1, <1>2, ConcatProperties
<1>5. ASSUME NEW k \in 1 .. Len(s) - 1
      PROVE  (a \o b)[k] = IF k < i THEN s[k] ELSE s[k + 1]
  <2>1. CASE k < i
    BY <1>1, <1>2, <1>4, <2>1
  <2>2. CASE ~ (k < i)
    <3>1. k - (i - 1) \in 1 .. Len(s) - i /\ k - (i - 1) + i = k + 1
      BY <2>2
    <3>2. b[k - (i - 1)] = s[k + 1]
      BY <1>2, <3>1
    <3> QED
      BY <1>1, <1>2, <1>4, <2>2, <3>2
  <2> QED
    BY <2>1, <2>2
<1>6. Len(a) + Len(b) = Len(s) - 1
  BY <1>1, <1>2
<1>7. a \o b \in Seq(S) /\ Len(a \o b) = Len(s) - 1
  BY <1>4, <1>6
<1> QED
  BY <1>3, <1>5, <1>7

\* What InsertAt makes: the places from i on move up.
LEMMA InsertedAt ==
  ASSUME NEW S, NEW s \in Seq(S), NEW i \in 1 .. Len(s) + 1, NEW e \in S
  PROVE  /\ InsertAt(s, i, e) \in Seq(S)
         /\ Len(InsertAt(s, i, e)) = Len(s) + 1
         /\ \A k \in 1 .. Len(s) + 1 :
              InsertAt(s, i, e)[k] = IF k < i THEN s[k] ELSE IF k = i THEN e ELSE s[k - 1]
<1> DEFINE a == SubSeq(s, 1, i - 1)
           b == SubSeq(s, i, Len(s))
<1>1. a \in Seq(S) /\ Len(a) = i - 1 /\ \A k \in 1 .. i - 1 : a[k] = s[k]
  OBVIOUS
<1>2. b \in Seq(S) /\ Len(b) = Len(s) - i + 1
        /\ \A k \in 1 .. Len(s) - i + 1 : b[k] = s[k + i - 1]
  OBVIOUS
<1>3. InsertAt(s, i, e) = a \o <<e>> \o b
  BY DEF InsertAt
<1> HIDE DEF a, b
<1>4. /\ a \o <<e>> \in Seq(S) /\ Len(a \o <<e>>) = i
      /\ \A k \in 1 .. i - 1 : (a \o <<e>>)[k] = s[k]
      /\ (a \o <<e>>)[i] = e
  BY <1>1
<1> DEFINE c == a \o <<e>>
<1>5. /\ c \in Seq(S) /\ Len(c) = i
      /\ \A k \in 1 .. i - 1 : c[k] = s[k]
      /\ c[i] = e
  BY <1>4
<1> HIDE DEF c
<1>6. /\ c \o b \in Seq(S) /\ Len(c \o b) = Len(c) + Len(b)
      /\ \A k \in 1 .. Len(c) + Len(b) :
           (c \o b)[k] = IF k <= Len(c) THEN c[k] ELSE b[k - Len(c)]
  BY <1>2, <1>5, ConcatProperties
<1>7. ASSUME NEW k \in 1 .. Len(s) + 1
      PROVE  (c \o b)[k] = IF k < i THEN s[k] ELSE IF k = i THEN e ELSE s[k - 1]
  <2>1. CASE k <= i
    BY <1>2, <1>5, <1>6, <2>1
  <2>2. CASE ~ (k <= i)
    <3>1. k - i \in 1 .. Len(s) - i + 1 /\ k - i + i - 1 = k - 1
      BY <2>2
    <3>2. b[k - i] = s[k - 1]
      BY <1>2, <3>1
    <3> QED
      BY <1>2, <1>5, <1>6, <2>2, <3>2
  <2> QED
    BY <2>1, <2>2
<1>8. InsertAt(s, i, e) = c \o b
  BY <1>3 DEF c
<1>9. \A k \in 1 .. Len(s) + 1 :
        InsertAt(s, i, e)[k] = IF k < i THEN s[k] ELSE IF k = i THEN e ELSE s[k - 1]
  BY <1>7, <1>8
<1>10. InsertAt(s, i, e) \in Seq(S) /\ Len(InsertAt(s, i, e)) = Len(s) + 1
  BY <1>2, <1>5, <1>6, <1>8
<1> QED
  BY <1>9, <1>10

(***************************************************************************)
(* Lengths that add up to offsets.                                         *)
(***************************************************************************)

\* f[i] is base and the first i - 1 lengths.
AddsUp(f, n, base, length) ==
  f = [i \in 1 .. n + 1 |-> IF i = 1 THEN base ELSE f[i - 1] + length[i - 1]]

\* The recursive definition of offsets has a solution.
LEMMA OffsetsExist ==
  ASSUME NEW n \in Nat, NEW base, NEW length
  PROVE  \E f : AddsUp(f, n, base, length)
<1> DEFINE Solves(f, m) == f = [i \in 1 .. m |-> IF i = 1 THEN base ELSE f[i - 1] + length[i - 1]]
           S == {m \in 1 .. n + 1 : \E f : Solves(f, m)}
<1>1. 1 \in S
  <2>1. Solves([i \in 1 .. 1 |-> base], 1)
    OBVIOUS
  <2>2. 1 \in 1 .. n + 1
    OBVIOUS
  <2> HIDE DEF Solves
  <2> QED
    BY <2>1, <2>2
<1>2. ASSUME NEW m \in 1 .. n, m \in S
      PROVE  m + 1 \in S
  <2>1. PICK f : Solves(f, m)
    BY <1>2
  <2> DEFINE g == [i \in 1 .. m + 1 |-> IF i <= m THEN f[i] ELSE f[m] + length[m]]
  <2>2. ASSUME NEW i \in 1 .. m + 1
        PROVE  g[i] = IF i = 1 THEN base ELSE g[i - 1] + length[i - 1]
    <3>1. CASE i <= m
      <4>1. f[i] = IF i = 1 THEN base ELSE f[i - 1] + length[i - 1]
        BY <2>1, <3>1
      <4> QED
        BY <3>1, <4>1
    <3>2. CASE i = m + 1
      BY <3>2
    <3> QED
      BY <3>1, <3>2
  <2>3. Solves(g, m + 1)
    BY <2>2
  <2>4. m + 1 \in 1 .. n + 1
    OBVIOUS
  <2> HIDE DEF Solves, g
  <2> QED
    BY <2>3, <2>4
<1>3. n + 1 \in S
  <2>1. n + 1 \in 1 .. n + 1
    OBVIOUS
  <2> HIDE DEF S
  <2> QED
    BY <1>1, <1>2, <2>1, EveryPlace
<1> QED
  BY <1>3 DEF AddsUp

\* Where no length is zero, the offsets ascend with the places.
LEMMA OffsetsAscend ==
  ASSUME NEW n \in Nat, NEW base \in Nat, NEW length, \A i \in 1 .. n : length[i] \in Nat \ {0},
         NEW f, AddsUp(f, n, base, length)
  PROVE  /\ DOMAIN f = 1 .. n + 1 /\ f[1] = base
         /\ \A i \in 1 .. n + 1 : f[i] \in Nat
         /\ \A i \in 1 .. n : f[i + 1] = f[i] + length[i]
         /\ \A i, j \in 1 .. n + 1 : i < j <=> f[i] < f[j]
<1> DEFINE S == {i \in 1 .. n + 1 : f[i] \in Nat}
<1>1. DOMAIN f = 1 .. n + 1
  BY DEF AddsUp
<1>2. \A i \in 1 .. n + 1 : f[i] = IF i = 1 THEN base ELSE f[i - 1] + length[i - 1]
  BY DEF AddsUp
<1>3. f[1] = base
  BY <1>2
<1>4. ASSUME NEW i \in 1 .. n
      PROVE  f[i + 1] = f[i] + length[i]
  <2>1. i + 1 \in 1 .. n + 1 /\ i + 1 # 1 /\ (i + 1) - 1 = i
    OBVIOUS
  <2> QED
    BY <1>2, <2>1
<1>5. \A i \in 1 .. n + 1 : i \in S
  <2>1. 1 \in S
    BY <1>3
  <2>2. ASSUME NEW i \in 1 .. n, i \in S PROVE i + 1 \in S
    BY <1>4, <2>2
  <2> HIDE DEF S
  <2> QED
    BY <2>1, <2>2, EveryPlace
<1>6. \A i \in 1 .. n + 1 : f[i] \in Nat
  BY <1>5
<1>7. \A i, j \in 1 .. n + 1 : i < j => f[i] < f[j]
  <2>1. ASSUME NEW i \in 2 .. n + 1 PROVE f[i - 1] < f[i]
    <3>1. i - 1 \in 1 .. n /\ (i - 1) + 1 = i /\ i - 1 \in 1 .. n + 1
      OBVIOUS
    <3>2. f[i] = f[i - 1] + length[i - 1] /\ length[i - 1] \in Nat \ {0} /\ f[i - 1] \in Nat
      BY <1>4, <1>6, <3>1
    <3> QED
      BY <3>2
  <2>2. \A i \in 1 .. n + 1 : f[i] \in Int
    BY <1>6
  <2>3. n + 1 \in Nat
    OBVIOUS
  <2> QED
    BY <2>1, <2>2, <2>3, NeighboursAscend
<1>8. ASSUME NEW i \in 1 .. n + 1, NEW j \in 1 .. n + 1, f[i] < f[j]
      PROVE  i < j
  <2>1. f[i] \in Int /\ f[j] \in Int /\ i \in Int /\ j \in Int
    BY <1>6
  <2>2. j < i => f[j] < f[i]
    BY <1>7
  <2> QED
    BY <1>8, <2>1, <2>2
<1> QED
  BY <1>1, <1>3, <1>4, <1>6, <1>7, <1>8

(***************************************************************************)
(* Lists one behind the other.                                             *)
(***************************************************************************)

\* In list, ss[i] begins at at[i].
Joins(list, ss, n, at) ==
  /\ at \in [1 .. n + 1 -> Nat]
  /\ at[1] = 1 /\ Len(list) + 1 = at[n + 1]
  /\ \A i \in 1 .. n : at[i + 1] = at[i] + Len(ss[i])
  /\ \A i \in 1 .. n : \A k \in 1 .. Len(ss[i]) : list[at[i] + k - 1] = ss[i][k]

\* f[i] are the first i lists one behind the other.
Appends(f, ss, n, X) ==
  /\ f \in [1 .. n -> Seq(X)]
  /\ f[1] = ss[1]
  /\ \A i \in 2 .. n : f[i] = f[i - 1] \o ss[i]

\* The recursive definition of FlattenSeq has a solution.
LEMMA Flattens ==
  ASSUME NEW n \in Nat, n # 0, NEW X, NEW ss \in [1 .. n -> Seq(X)]
  PROVE  \E f : Appends(f, ss, n, X) /\ FlattenSeq(ss) = f[n]
<1> DEFINE Solves(f, m) ==
             f = [i \in 1 .. m |-> IF i = 1 THEN ss[i] ELSE f[i - 1] \o ss[i]]
           S == {m \in Nat : m <= n => \E f : Solves(f, m)}
<1>1. 0 \in S
  <2>1. Solves([i \in 1 .. 0 |-> 0], 0)
    OBVIOUS
  <2> HIDE DEF Solves
  <2> QED
    BY <2>1
<1>2. ASSUME NEW m \in Nat, m \in S PROVE m + 1 \in S
  <2> HIDE DEF Solves
  <2> SUFFICES ASSUME m + 1 <= n PROVE \E f : Solves(f, m + 1)
    OBVIOUS
  <2>1. PICK f : Solves(f, m)
    BY <1>2
  <2> USE DEF Solves
  <2> DEFINE g == [i \in 1 .. m + 1 |->
                     IF i <= m THEN f[i] ELSE IF i = 1 THEN ss[i] ELSE f[m] \o ss[i]]
  <2>2. ASSUME NEW i \in 1 .. m + 1
        PROVE  g[i] = IF i = 1 THEN ss[i] ELSE g[i - 1] \o ss[i]
    <3>1. CASE i <= m
      <4>1. i \in 1 .. m
        BY <3>1
      <4>2. f[i] = IF i = 1 THEN ss[i] ELSE f[i - 1] \o ss[i]
        BY <2>1, <4>1
      <4>3. i # 1 => i - 1 \in 1 .. m + 1 /\ i - 1 <= m
        BY <4>1
      <4> QED
        BY <3>1, <4>2, <4>3
    <3>2. CASE i = m + 1
      <4>1. ~ (i <= m) /\ i - 1 = m
        BY <3>2
      <4>2. i # 1 => m \in 1 .. m + 1 /\ m <= m
        BY <3>2
      <4>3. g[i] = IF i = 1 THEN ss[i] ELSE f[m] \o ss[i]
        BY <4>1
      <4>4. i # 1 => g[m] = f[m]
        BY <4>2
      <4> HIDE DEF g
      <4> QED
        BY <4>1, <4>3, <4>4
    <3> QED
      BY <3>1, <3>2
  <2>3. g = [i \in 1 .. m + 1 |-> g[i]]
    OBVIOUS
  <2> HIDE DEF g
  <2>4. Solves(g, m + 1)
    BY <2>2, <2>3
  <2> HIDE DEF Solves
  <2> QED
    BY <2>4
<1>3. n \in S
  <2> HIDE DEF S
  <2> QED
    BY <1>1, <1>2, EveryNumber
<1>4. \E f : Solves(f, n)
  <2> HIDE DEF Solves
  <2> QED
    BY <1>3
<1> DEFINE flatten == CHOOSE h : Solves(h, n)
<1>5. Solves(flatten, n)
  <2> HIDE DEF Solves
  <2> QED
    BY <1>4
<1>6. Len(ss) = n
  OBVIOUS
<1>7. FlattenSeq(ss) = flatten[n]
  BY <1>6 DEF FlattenSeq
<1> HIDE DEF flatten
<1>8. /\ flatten[1] = ss[1]
      /\ \A i \in 2 .. n : flatten[i] = flatten[i - 1] \o ss[i]
  <2>1. 1 \in 1 .. n /\ \A i \in 2 .. n : i \in 1 .. n /\ i # 1
    OBVIOUS
  <2> QED
    BY <1>5, <2>1
<1> DEFINE T == {i \in 1 .. n : flatten[i] \in Seq(X)}
<1>9. \A i \in 1 .. n : i \in T
  <2>1. 1 \in T
    BY <1>8
  <2>2. ASSUME NEW i \in 1 .. n - 1, i \in T PROVE i + 1 \in T
    <3>1. i + 1 \in 2 .. n /\ i + 1 \in 1 .. n /\ (i + 1) - 1 = i
      OBVIOUS
    <3>2. flatten[i + 1] = flatten[i] \o ss[i + 1] /\ ss[i + 1] \in Seq(X)
      BY <1>8, <3>1
    <3>3. flatten[i] \in Seq(X)
      BY <2>2
    <3>4. flatten[i] \o ss[i + 1] \in Seq(X)
      BY <3>2, <3>3, ConcatProperties
    <3> QED
      BY <3>1, <3>2, <3>4
  <2>3. n - 1 \in Nat /\ (n - 1) + 1 = n
    OBVIOUS
  <2> HIDE DEF T
  <2> QED
    BY <2>1, <2>2, <2>3, EveryPlace
<1>10. flatten \in [1 .. n -> Seq(X)]
  <2>1. DOMAIN flatten = 1 .. n /\ flatten = [i \in DOMAIN flatten |-> flatten[i]]
    BY <1>5
  <2>2. \A i \in 1 .. n : flatten[i] \in Seq(X)
    BY <1>9
  <2> QED
    BY <2>1, <2>2
<1> QED
  BY <1>7, <1>8, <1>10 DEF Appends

\* Every list is found in what FlattenSeq makes of them.
LEMMA Flattened ==
  ASSUME NEW n \in Nat, n # 0, NEW X, NEW ss \in [1 .. n -> Seq(X)]
  PROVE  FlattenSeq(ss) \in Seq(X) /\ \E at : Joins(FlattenSeq(ss), ss, n, at)
<1>a. PICK g : Appends(g, ss, n, X) /\ FlattenSeq(ss) = g[n]
  BY Flattens
<1>1. PICK f \in [1 .. n -> Seq(X)] :
        /\ FlattenSeq(ss) = f[n]
        /\ f[1] = ss[1]
        /\ \A i \in 2 .. n : f[i] = f[i - 1] \o ss[i]
  BY <1>a DEF Appends
<1> DEFINE at == [i \in 1 .. n + 1 |-> IF i = 1 THEN 1 ELSE Len(f[i - 1]) + 1]
<1>2. \A i \in 1 .. n : /\ f[i] \in Seq(X) /\ ss[i] \in Seq(X)
                        /\ Len(f[i]) \in Nat /\ Len(ss[i]) \in Nat
  OBVIOUS
<1>3. at[1] = 1 /\ \A i \in 1 .. n : at[i + 1] = Len(f[i]) + 1
  <2>1. \A i \in 1 .. n : i + 1 \in 1 .. n + 1 /\ i + 1 # 1 /\ (i + 1) - 1 = i
    OBVIOUS
  <2> QED
    BY <2>1
<1>4. at \in [1 .. n + 1 -> Nat]
  <2>1. \A i \in 1 .. n + 1 : i = 1 \/ i - 1 \in 1 .. n
    OBVIOUS
  <2> QED
    BY <1>2, <2>1
<1> HIDE DEF at
<1>5. ASSUME NEW i \in 1 .. n - 1
      PROVE  /\ i \in 1 .. n /\ i + 1 \in 1 .. n
             /\ Len(f[i + 1]) = Len(f[i]) + Len(ss[i + 1])
             /\ \A k \in 1 .. Len(f[i]) : f[i + 1][k] = f[i][k]
             /\ \A k \in 1 .. Len(ss[i + 1]) : f[i + 1][Len(f[i]) + k] = ss[i + 1][k]
  <2>1. i \in 1 .. n /\ i + 1 \in 2 .. n /\ i + 1 \in 1 .. n /\ (i + 1) - 1 = i
    OBVIOUS
  <2> DEFINE a == f[i]
             b == ss[i + 1]
  <2>2. a \in Seq(X) /\ b \in Seq(X) /\ f[i + 1] = a \o b
    BY <1>1, <1>2, <2>1
  <2> HIDE DEF a, b
  <2>3. /\ Len(a \o b) = Len(a) + Len(b) /\ Len(a) \in Nat /\ Len(b) \in Nat
        /\ \A k \in 1 .. Len(a) + Len(b) :
             (a \o b)[k] = IF k <= Len(a) THEN a[k] ELSE b[k - Len(a)]
    <3>1. Len(a) \in Nat /\ Len(b) \in Nat
      BY <2>2
    <3>2. /\ Len(a \o b) = Len(a) + Len(b)
          /\ \A k \in 1 .. Len(a) + Len(b) :
               (a \o b)[k] = IF k <= Len(a) THEN a[k] ELSE b[k - Len(a)]
      BY <2>2, ConcatProperties
    <3> QED
      BY <3>1, <3>2
  <2>4. \A k \in 1 .. Len(a) : (a \o b)[k] = a[k]
    BY <2>3
  <2>5. ASSUME NEW k \in 1 .. Len(b) PROVE (a \o b)[Len(a) + k] = b[k]
    <3>1. /\ Len(a) + k \in 1 .. Len(a) + Len(b) /\ ~ (Len(a) + k <= Len(a))
          /\ (Len(a) + k) - Len(a) = k
      BY <2>3
    <3> QED
      BY <2>3, <3>1
  <2> QED
    BY <2>1, <2>2, <2>3, <2>4, <2>5 DEF a, b
<1>6. ASSUME NEW i \in 1 .. n PROVE at[i + 1] = at[i] + Len(ss[i])
  <2>1. CASE i = 1
    BY <1>1, <1>2, <1>3, <2>1
  <2>2. CASE i # 1
    <3> DEFINE j == i - 1
    <3>1. j \in 1 .. n - 1 /\ j \in 1 .. n /\ j + 1 = i
      BY <2>2
    <3> HIDE DEF j
    <3>2. Len(f[j + 1]) = Len(f[j]) + Len(ss[j + 1])
      BY <1>5, <3>1
    <3>3. at[i + 1] = Len(f[i]) + 1 /\ at[i] = Len(f[j]) + 1
      BY <1>3, <3>1
    <3>4. Len(f[j]) \in Nat /\ Len(ss[i]) \in Nat
      BY <1>2, <3>1
    <3> QED
      BY <3>1, <3>2, <3>3, <3>4
  <2> QED
    BY <2>1, <2>2
<1> DEFINE T == {i \in 1 .. n : \A e \in 1 .. i : \A k \in 1 .. Len(ss[e]) :
                   /\ at[e] + k - 1 \in 1 .. Len(f[i])
                   /\ f[i][at[e] + k - 1] = ss[e][k]}
<1>7. 1 \in T
  <2>1. ASSUME NEW e \in 1 .. 1, NEW k \in 1 .. Len(ss[e])
        PROVE  at[e] + k - 1 \in 1 .. Len(f[1]) /\ f[1][at[e] + k - 1] = ss[e][k]
    <3>1. e = 1 /\ at[e] + k - 1 = k
      BY <1>2, <1>3
    <3> QED
      BY <1>1, <3>1
  <2>2. 1 \in 1 .. n
    OBVIOUS
  <2> QED
    BY <2>1, <2>2
<1>8. ASSUME NEW i \in 1 .. n - 1, i \in T PROVE i + 1 \in T
  <2>1. /\ i \in 1 .. n /\ i + 1 \in 1 .. n
        /\ Len(f[i + 1]) = Len(f[i]) + Len(ss[i + 1])
        /\ \A k \in 1 .. Len(f[i]) : f[i + 1][k] = f[i][k]
        /\ \A k \in 1 .. Len(ss[i + 1]) : f[i + 1][Len(f[i]) + k] = ss[i + 1][k]
        /\ Len(f[i]) \in Nat /\ Len(ss[i + 1]) \in Nat
    BY <1>2, <1>5
  <2>2. ASSUME NEW e \in 1 .. i + 1, NEW k \in 1 .. Len(ss[e])
        PROVE  at[e] + k - 1 \in 1 .. Len(f[i + 1]) /\ f[i + 1][at[e] + k - 1] = ss[e][k]
    <3>1. CASE e \in 1 .. i
      <4>1. at[e] + k - 1 \in 1 .. Len(f[i]) /\ f[i][at[e] + k - 1] = ss[e][k]
        BY <1>8, <3>1
      <4> HIDE DEF T
      <4>2. 1 .. Len(f[i]) \subseteq 1 .. Len(f[i + 1])
        BY <2>1
      <4> QED
        BY <2>1, <4>1, <4>2
    <3>2. CASE e = i + 1
      <4>1. at[e] = Len(f[i]) + 1
        BY <1>3, <2>1, <3>2
      <4>2. k \in 1 .. Len(ss[i + 1]) /\ k \in Int
        BY <3>2
      <4>3. at[e] + k - 1 = Len(f[i]) + k
        BY <2>1, <4>1, <4>2
      <4>4. Len(f[i]) + k \in 1 .. Len(f[i + 1])
        BY <2>1, <4>2
      <4> QED
        BY <2>1, <3>2, <4>2, <4>3, <4>4
    <3>3. e \in 1 .. i \/ e = i + 1
      OBVIOUS
    <3> QED
      BY <3>1, <3>2, <3>3
  <2> QED
    BY <2>1, <2>2
<1>9. n \in T
  <2>1. n - 1 \in Nat /\ (n - 1) + 1 = n /\ n \in 1 .. n
    OBVIOUS
  <2> HIDE DEF T
  <2> QED
    BY <1>7, <1>8, <2>1, EveryPlace
<1>10. Len(f[n]) + 1 = at[n + 1] /\ f[n] \in Seq(X)
  <2>1. n \in 1 .. n
    OBVIOUS
  <2> QED
    BY <1>2, <1>3, <2>1
<1>11. \A i \in 1 .. n : \A k \in 1 .. Len(ss[i]) : f[n][at[i] + k - 1] = ss[i][k]
  BY <1>9
<1>12. Joins(f[n], ss, n, at)
  BY <1>3, <1>4, <1>6, <1>10, <1>11 DEF Joins
<1> QED
  BY <1>1, <1>10, <1>12

\* The lists are within list.
Spreads(list, ss, n, at) ==
  /\ \A i \in 1 .. n : at[i] <= at[i + 1] /\ at[i] + Len(ss[i]) = at[i + 1]
  /\ \A i \in 1 .. n + 1 : at[i] \in 1 .. Len(list) + 1

\* None begins before the one before it ends.
LEMMA JoinedPlaces ==
  ASSUME NEW n \in Nat, NEW X, NEW ss \in [1 .. n -> Seq(X)], NEW list, Len(list) \in Nat,
         NEW at, Joins(list, ss, n, at)
  PROVE  Spreads(list, ss, n, at)
<1>1. /\ \A i \in 1 .. n + 1 : at[i] \in Nat
      /\ at[1] = 1 /\ Len(list) + 1 = at[n + 1]
      /\ \A i \in 1 .. n : at[i + 1] = at[i] + Len(ss[i])
      /\ \A i \in 1 .. n : Len(ss[i]) \in Nat
  BY DEF Joins
<1>2. ASSUME NEW i \in 1 .. n PROVE at[i] <= at[i + 1] /\ at[i] + Len(ss[i]) = at[i + 1]
  <2>1. at[i] \in Nat /\ Len(ss[i]) \in Nat
    BY <1>1
  <2> QED
    BY <1>1, <2>1
<1>3. \A i, j \in 1 .. n + 1 : i <= j => at[i] <= at[j]
  <2> DEFINE l == n + 1
  <2>1. /\ l \in Nat /\ \A i \in 1 .. l : at[i] \in Int
        /\ \A i \in 1 .. l - 1 : at[i] <= at[i + 1]
    BY <1>1, <1>2
  <2> HIDE DEF l
  <2>2. \A i, j \in 1 .. l : i <= j => at[i] <= at[j]
    BY <2>1, NeighboursClimb
  <2> QED
    BY <2>2 DEF l
<1>4. ASSUME NEW i \in 1 .. n + 1 PROVE at[i] \in 1 .. Len(list) + 1
  <2>1. 1 \in 1 .. n + 1 /\ n + 1 \in 1 .. n + 1 /\ 1 <= i /\ i <= n + 1
    OBVIOUS
  <2>2. at[1] <= at[i] /\ at[i] <= at[n + 1]
    BY <1>3, <2>1
  <2> QED
    BY <1>1, <2>2
<1> QED
  BY <1>2, <1>4 DEF Spreads
=============================================================================
