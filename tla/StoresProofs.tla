---------------------------- MODULE StoresProofs ----------------------------
(***************************************************************************)
(* What the operators of Lists do, for sequences of any length, and what   *)
(* the calls of the stores do by them.  The operators of Lists all put     *)
(* each element at the place that counts the elements before it, so one    *)
(* fact about such places carries the rest.                                *)
(***************************************************************************)
EXTENDS Stores, FiniteSetTheorems, FunctionTheorems, SequenceTheorems, TLAPS

-----------------------------------------------------------------------------
(* Places in a strict total order. *)

StrictOrder(S, R) ==
  /\ \A x \in S : <<x, x>> \notin R
  /\ \A x, y \in S : x # y => <<x, y>> \in R \/ <<y, x>> \in R
  /\ \A x, y, z \in S : <<x, y>> \in R /\ <<y, z>> \in R => <<x, z>> \in R

Before(S, R, x) == {y \in S : <<y, x>> \in R}
Place(S, R, x) == Cardinality(Before(S, R, x)) + 1

\* The elements of S by their places.
Arrange(S, R) == [n \in 1..Cardinality(S) |-> CHOOSE x \in S : Place(S, R, x) = n]

\* A place is at most the number of elements, and who comes first has the smaller one.
LEMMA PlaceProperties ==
  ASSUME NEW S, IsFiniteSet(S), NEW R, StrictOrder(S, R)
  PROVE  /\ \A x \in S : Place(S, R, x) \in 1..Cardinality(S)
         /\ \A x, y \in S : <<x, y>> \in R => Place(S, R, x) < Place(S, R, y)
<1>1. ASSUME NEW x \in S
      PROVE  /\ Cardinality(S) \in Nat
             /\ IsFiniteSet(Before(S, R, x)) /\ Cardinality(Before(S, R, x)) \in Nat
             /\ Cardinality(Before(S, R, x)) <= Cardinality(S)
             /\ Cardinality(Before(S, R, x)) # Cardinality(S)
  <2>1. Before(S, R, x) \in SUBSET S /\ Before(S, R, x) # S
    BY DEF Before, StrictOrder
  <2> QED BY <2>1, FS_Subset, FS_CardinalityType
<1>2. ASSUME NEW x \in S, NEW y \in S, <<x, y>> \in R
      PROVE  Place(S, R, x) < Place(S, R, y)
  <2>1. Before(S, R, x) \in SUBSET Before(S, R, y)
    BY <1>2 DEF Before, StrictOrder
  <2>2. x \in Before(S, R, y) /\ x \notin Before(S, R, x)
    BY <1>2 DEF Before, StrictOrder
  <2>3. Cardinality(Before(S, R, x)) <= Cardinality(Before(S, R, y))
    BY <2>1, <1>1, FS_Subset
  <2>4. Cardinality(Before(S, R, x)) # Cardinality(Before(S, R, y))
    BY <2>1, <2>2, <1>1, FS_Subset
  <2> QED BY <2>3, <2>4, <1>1 DEF Place
<1> QED BY <1>1, <1>2 DEF Place

\* Arranging lists every element once, in order.
LEMMA ArrangeProperties ==
  ASSUME NEW S, IsFiniteSet(S), NEW R, StrictOrder(S, R)
  PROVE  /\ Cardinality(S) \in Nat
         /\ Arrange(S, R) \in [1..Cardinality(S) -> S]
         /\ \A x \in S : \E n \in 1..Cardinality(S) : Arrange(S, R)[n] = x
         /\ \A m, n \in 1..Cardinality(S) :
              m < n => <<Arrange(S, R)[m], Arrange(S, R)[n]>> \in R
         /\ \A m, n \in 1..Cardinality(S) : Arrange(S, R)[m] = Arrange(S, R)[n] => m = n
<1> DEFINE N == Cardinality(S)
           place == [x \in S |-> Place(S, R, x)]
<1>1. N \in Nat
  BY FS_CardinalityType
<1>2. place \in [S -> 1..N]
  BY PlaceProperties
<1>3. \A x, y \in S : place[x] = place[y] => x = y
  <2> SUFFICES ASSUME NEW x \in S, NEW y \in S, x # y PROVE place[x] # place[y]
    OBVIOUS
  <2>1. place[x] < place[y] \/ place[y] < place[x]
    BY PlaceProperties DEF StrictOrder
  <2> QED BY <2>1, <1>2
<1>4. place \in Injection(S, 1..N)
  BY <1>2, <1>3, Fun_IsInj, Zenon
<1>5. IsFiniteSet(1..N) /\ Cardinality(1..N) = N
  BY <1>1, FS_Interval
<1>6. place \in Surjection(S, 1..N)
  BY <1>4, <1>5, FS_Injection
<1>7. \A n \in 1..N : \E x \in S : place[x] = n
  BY <1>6, Zenon DEF Surjection
<1>8. \A n \in 1..N : Arrange(S, R)[n] \in S /\ Place(S, R, Arrange(S, R)[n]) = n
  BY <1>7 DEF Arrange
<1>9. Arrange(S, R) \in [1..N -> S]
  BY <1>8 DEF Arrange
<1>10. \A x \in S : \E n \in 1..N : Arrange(S, R)[n] = x
  <2> SUFFICES ASSUME NEW x \in S PROVE Arrange(S, R)[place[x]] = x
    BY <1>2
  <2>1. Arrange(S, R)[place[x]] \in S /\ place[Arrange(S, R)[place[x]]] = place[x]
    BY <1>2, <1>8
  <2> QED BY <2>1, <1>3
<1>11. ASSUME NEW m \in 1..N, NEW n \in 1..N, m < n
       PROVE  <<Arrange(S, R)[m], Arrange(S, R)[n]>> \in R
  <2>1. Arrange(S, R)[m] # Arrange(S, R)[n]
    BY <1>8, <1>11
  <2>2. <<Arrange(S, R)[n], Arrange(S, R)[m]>> \notin R
    BY <1>8, <1>11, PlaceProperties
  <2> QED BY <1>8, <2>1, <2>2 DEF StrictOrder
<1>12. ASSUME NEW m \in 1..N, NEW n \in 1..N, Arrange(S, R)[m] = Arrange(S, R)[n]
       PROVE  m = n
  BY <1>8, <1>12
<1> QED BY <1>1, <1>9, <1>10, <1>11, <1>12

-----------------------------------------------------------------------------
(* The elements at some positions. *)

Rising(P) == {pair \in P \X P : pair[1] < pair[2]}

\* The positions in P from the smallest on.
Climb(P) == Arrange(P, Rising(P))

\* Climbing goes through all of P, upwards.
LEMMA ClimbProperties ==
  ASSUME NEW P, P \subseteq Int, IsFiniteSet(P)
  PROVE  /\ Cardinality(P) \in Nat
         /\ Climb(P) \in [1..Cardinality(P) -> P]
         /\ \A k \in P : \E n \in 1..Cardinality(P) : Climb(P)[n] = k
         /\ \A m, n \in 1..Cardinality(P) : m < n => Climb(P)[m] < Climb(P)[n]
         /\ \A m, n \in 1..Cardinality(P) : Climb(P)[m] = Climb(P)[n] => m = n
<1>1. StrictOrder(P, Rising(P))
  BY DEF StrictOrder, Rising
<1>2. \A x, y : <<x, y>> \in Rising(P) => x < y
  BY DEF Rising
<1> DEFINE A == Arrange(P, Rising(P))
<1>3. /\ Cardinality(P) \in Nat
      /\ A \in [1..Cardinality(P) -> P]
      /\ \A k \in P : \E n \in 1..Cardinality(P) : A[n] = k
      /\ \A m, n \in 1..Cardinality(P) : m < n => <<A[m], A[n]>> \in Rising(P)
      /\ \A m, n \in 1..Cardinality(P) : A[m] = A[n] => m = n
  BY <1>1, ArrangeProperties
<1>4. A = Climb(P)
  BY DEF Climb
<1> HIDE DEF A
<1> QED BY <1>2, <1>3, <1>4

\* At reads a sequence along the climb.
LEMMA AtIsClimb ==
  ASSUME NEW s, NEW P
  PROVE  At(s, P) = [n \in 1..Cardinality(P) |-> s[Climb(P)[n]]]
<1>1. ASSUME NEW n \in 1..Cardinality(P)
      PROVE  (CHOOSE k \in P : Cardinality({j \in P : j < k}) + 1 = n) = Climb(P)[n]
  <2>1. \A k \in P : Before(P, Rising(P), k) = {j \in P : j < k}
    BY DEF Before, Rising
  <2>2. \A k \in P : (Place(P, Rising(P), k) = n) <=> (Cardinality({j \in P : j < k}) + 1 = n)
    BY <2>1 DEF Place
  <2> QED BY <2>2 DEF Climb, Arrange
<1> DEFINE nth(n) == CHOOSE k \in P : Cardinality({j \in P : j < k}) + 1 = n
<1>2. \A n \in 1..Cardinality(P) : nth(n) = Climb(P)[n]
  BY <1>1
<1>3. At(s, P) = [n \in 1..Cardinality(P) |-> s[nth(n)]]
  BY Zenon DEF At
<1> HIDE DEF nth
<1> QED BY <1>2, <1>3

\* What At returns: a sequence of the elements at those positions.
LEMMA AtProperties ==
  ASSUME NEW S, NEW s \in Seq(S), NEW P, P \subseteq DOMAIN s
  PROVE  /\ P \subseteq Int /\ IsFiniteSet(P)
         /\ At(s, P) \in Seq(S)
         /\ Len(At(s, P)) = Cardinality(P)
         /\ \A n \in 1..Cardinality(P) : At(s, P)[n] = s[Climb(P)[n]]
         /\ ToSet(At(s, P)) = {s[k] : k \in P}
<1>1. DOMAIN s = 1..Len(s) /\ Len(s) \in Nat /\ \A k \in DOMAIN s : s[k] \in S
  OBVIOUS
<1>2. IsFiniteSet(1..Len(s))
  BY <1>1, FS_Interval
<1>3. P \subseteq Int /\ IsFiniteSet(P)
  BY <1>1, <1>2, FS_Subset
<1>4. \A n \in 1..Cardinality(P) : Climb(P)[n] \in P
  BY <1>3, ClimbProperties
<1>5. Cardinality(P) \in Nat
  BY <1>3, FS_CardinalityType
<1>6. At(s, P) = [n \in 1..Cardinality(P) |-> s[Climb(P)[n]]]
  BY AtIsClimb
<1>7. \A n \in 1..Cardinality(P) : s[Climb(P)[n]] \in S
  BY <1>1, <1>4
<1>8. At(s, P) \in [1..Cardinality(P) -> S]
  BY <1>6, <1>7
<1>9. At(s, P) \in Seq(S) /\ Len(At(s, P)) = Cardinality(P)
  BY <1>8, <1>5
<1>10. ToSet(At(s, P)) = {s[k] : k \in P}
  <2>1. ToSet(At(s, P)) = {s[Climb(P)[n]] : n \in 1..Cardinality(P)}
    BY <1>6 DEF ToSet
  <2> QED BY <2>1, <1>3, <1>4, ClimbProperties
<1> QED BY <1>3, <1>6, <1>9, <1>10

-----------------------------------------------------------------------------
(* Keep and Distinct. *)

\* Keep loses what is not asked for and nothing else, and repeats nothing.
LEMMA KeepProperties ==
  ASSUME NEW S, NEW s \in Seq(S), NEW T
  PROVE  /\ Keep(s, T) \in Seq(S) /\ Keep(s, T) \in Seq(S \cap T)
         /\ ToSet(Keep(s, T)) = ToSet(s) \cap T
         /\ IsInjective(s) => IsInjective(Keep(s, T))
<1> DEFINE P == {k \in DOMAIN s : s[k] \in T}
<1>1. P \subseteq DOMAIN s /\ Keep(s, T) = At(s, P)
  BY DEF Keep
<1>2. ToSet(At(s, P)) = ToSet(s) \cap T
  <2>1. ToSet(At(s, P)) = {s[k] : k \in P}
    BY <1>1, AtProperties
  <2> QED BY <2>1 DEF ToSet
<1> HIDE DEF P
<1>3. /\ At(s, P) \in Seq(S) /\ Len(At(s, P)) = Cardinality(P) /\ Cardinality(P) \in Nat
      /\ \A n \in 1..Cardinality(P) : At(s, P)[n] = s[Climb(P)[n]] /\ Climb(P)[n] \in P
      /\ \A m, n \in 1..Cardinality(P) : Climb(P)[m] = Climb(P)[n] => m = n
  <2>1. P \subseteq Int /\ IsFiniteSet(P)
    BY <1>1, AtProperties
  <2> QED BY <1>1, <2>1, AtProperties, ClimbProperties
<1>4. At(s, P) \in Seq(S \cap T)
  <2>1. \A n \in 1..Len(At(s, P)) : At(s, P)[n] \in ToSet(At(s, P)) /\ At(s, P)[n] \in S
    BY <1>3 DEF ToSet
  <2> QED BY <1>2, <1>3, <2>1
<1>5. IsInjective(s) => IsInjective(At(s, P))
  BY <1>1, <1>3 DEF IsInjective
<1> QED BY <1>1, <1>2, <1>3, <1>4, <1>5

\* A set of naturals with an element has a least one.
LEMMA LeastNatural ==
  ASSUME NEW T, T \subseteq Nat, T # {}
  PROVE  \E x \in T : \A y \in T : x <= y
<1> DEFINE R == {ss \in Nat \X Nat : ss[1] < ss[2]}
<1>1. \A x, y \in Nat : x < y => <<x, y>> \in R
  OBVIOUS
<1>2. IsWellFoundedOn(R, Nat)
  BY NatLessThanWellFounded, Zenon DEF OpToRel
<1> HIDE DEF R
<1>3. PICK x \in T : \A y \in T : ~(<<y, x>> \in R)
  BY <1>2, WFMin
<1>4. \A y \in T : ~(y < x)
  BY <1>1, <1>3
<1> QED BY <1>3, <1>4

Fresh(s) == {k \in DOMAIN s : \A j \in 1..(k - 1) : s[j] # s[k]}

\* Whatever stands in a sequence has a first position there.
LEMMA FirstPosition ==
  ASSUME NEW S, NEW s \in Seq(S), NEW x \in ToSet(s)
  PROVE  \E k \in Fresh(s) : s[k] = x
<1> DEFINE T == {k \in DOMAIN s : s[k] = x}
<1>1. T \subseteq Nat /\ T # {}
  BY DEF ToSet
<1>2. PICK k \in T : \A j \in T : k <= j
  BY <1>1, LeastNatural
<1>3. \A j \in 1..(k - 1) : s[j] # x
  <2> SUFFICES ASSUME NEW j \in 1..(k - 1), s[j] = x PROVE FALSE
    OBVIOUS
  <2>1. j \in T
    BY <1>2
  <2> QED BY <1>2, <2>1
<1> QED BY <1>2, <1>3 DEF Fresh

\* Distinct keeps every element, and each once.
LEMMA DistinctProperties ==
  ASSUME NEW S, NEW s \in Seq(S)
  PROVE  /\ Distinct(s) \in Seq(S)
         /\ ToSet(Distinct(s)) = ToSet(s)
         /\ IsInjective(Distinct(s))
<1> DEFINE P == Fresh(s)
<1>1. P \subseteq DOMAIN s /\ Distinct(s) = At(s, P)
  BY DEF Fresh, Distinct
<1>2. ToSet(At(s, P)) = ToSet(s)
  <2>1. ToSet(At(s, P)) = {s[k] : k \in P}
    BY <1>1, AtProperties
  <2>2. \A x \in ToSet(s) : \E k \in P : s[k] = x
    BY FirstPosition
  <2> QED BY <1>1, <2>1, <2>2 DEF ToSet
<1>3. \A j, k \in P : s[j] = s[k] => j = k
  <2>1. DOMAIN s \subseteq Nat \ {0}
    OBVIOUS
  <2> QED BY <2>1 DEF Fresh
<1> HIDE DEF P
<1>4. /\ At(s, P) \in Seq(S) /\ Len(At(s, P)) = Cardinality(P) /\ Cardinality(P) \in Nat
      /\ \A n \in 1..Cardinality(P) : At(s, P)[n] = s[Climb(P)[n]] /\ Climb(P)[n] \in P
      /\ \A m, n \in 1..Cardinality(P) : Climb(P)[m] = Climb(P)[n] => m = n
  <2>1. P \subseteq Int /\ IsFiniteSet(P)
    BY <1>1, AtProperties
  <2> QED BY <1>1, <2>1, AtProperties, ClimbProperties
<1>5. IsInjective(At(s, P))
  BY <1>3, <1>4 DEF IsInjective
<1> QED BY <1>1, <1>2, <1>4, <1>5

-----------------------------------------------------------------------------
(* Sorting. *)

SortsBefore(s, key) ==
  {pair \in (DOMAIN s) \X (DOMAIN s) :
     \/ key[s[pair[1]]] > key[s[pair[2]]]
     \/ key[s[pair[1]]] = key[s[pair[2]]] /\ pair[1] < pair[2]}

Sorting(s, key) == Arrange(DOMAIN s, SortsBefore(s, key))

\* The order in which a sort goes through the positions: each once, the greater key first.
LEMMA SortingProperties ==
  ASSUME NEW S, NEW s \in Seq(S), NEW key, \A x \in ToSet(s) : key[x] \in Int
  PROVE  /\ Cardinality(DOMAIN s) = Len(s)
         /\ Sorting(s, key) \in [1..Len(s) -> DOMAIN s]
         /\ \A k \in DOMAIN s : \E n \in 1..Len(s) : Sorting(s, key)[n] = k
         /\ \A m, n \in 1..Len(s) : Sorting(s, key)[m] = Sorting(s, key)[n] => m = n
         /\ \A m, n \in 1..Len(s) :
              m < n => key[s[Sorting(s, key)[m]]] >= key[s[Sorting(s, key)[n]]]
<1> DEFINE R == SortsBefore(s, key)
           A == Arrange(DOMAIN s, R)
<1>1. DOMAIN s = 1..Len(s) /\ Len(s) \in Nat
  OBVIOUS
<1>2. \A k \in DOMAIN s : key[s[k]] \in Int
  BY DEF ToSet
<1>3. IsFiniteSet(DOMAIN s) /\ Cardinality(DOMAIN s) = Len(s)
  BY <1>1, FS_Interval
<1>4. \A i, j \in DOMAIN s :
        <<i, j>> \in R <=> key[s[i]] > key[s[j]] \/ (key[s[i]] = key[s[j]] /\ i < j)
  BY DEF SortsBefore
<1> HIDE DEF R
<1>5. StrictOrder(DOMAIN s, R)
  <2>1. \A x \in DOMAIN s : <<x, x>> \notin R
    BY <1>1, <1>2, <1>4
  <2>2. \A x, y \in DOMAIN s : x # y => <<x, y>> \in R \/ <<y, x>> \in R
    BY <1>1, <1>2, <1>4
  <2>3. \A x, y, z \in DOMAIN s : <<x, y>> \in R /\ <<y, z>> \in R => <<x, z>> \in R
    BY <1>1, <1>2, <1>4
  <2> QED BY <2>1, <2>2, <2>3 DEF StrictOrder
<1>6. /\ A \in [1..Len(s) -> DOMAIN s]
      /\ \A k \in DOMAIN s : \E n \in 1..Len(s) : A[n] = k
      /\ \A m, n \in 1..Len(s) : m < n => <<A[m], A[n]>> \in R
      /\ \A m, n \in 1..Len(s) : A[m] = A[n] => m = n
  BY <1>3, <1>5, ArrangeProperties
<1>7. A = Sorting(s, key)
  BY DEF Sorting, R
<1> HIDE DEF A
<1>8. ASSUME NEW m \in 1..Len(s), NEW n \in 1..Len(s), m < n
      PROVE  key[s[A[m]]] >= key[s[A[n]]]
  <2>1. A[m] \in DOMAIN s /\ A[n] \in DOMAIN s /\ <<A[m], A[n]>> \in R
    BY <1>6, <1>8
  <2> QED BY <2>1, <1>2, <1>4
<1> QED BY <1>3, <1>6, <1>7, <1>8

\* StableSort reads a sequence in that order.
LEMMA SortIsSorting ==
  ASSUME NEW S, NEW s \in Seq(S), NEW key
  PROVE  StableSort(s, key) = [n \in 1..Len(s) |-> s[Sorting(s, key)[n]]]
<1> DEFINE P == DOMAIN s
           R == SortsBefore(s, key)
           Goes(i, j) == key[s[i]] > key[s[j]] \/ (key[s[i]] = key[s[j]] /\ i < j)
           nth(n) == CHOOSE i \in P : Cardinality({j \in P : Goes(j, i)}) + 1 = n
<1>1. P = 1..Len(s)
  OBVIOUS
<1>2. IsFiniteSet(P) /\ Cardinality(P) = Len(s)
  BY <1>1, FS_Interval
<1>3. ASSUME NEW n \in 1..Len(s)
      PROVE  nth(n) = Sorting(s, key)[n]
  <2>1. \A i \in P : Before(P, R, i) = {j \in P : Goes(j, i)}
    BY DEF Before, SortsBefore
  <2>2. \A i \in P : (Place(P, R, i) = n) <=> (Cardinality({j \in P : Goes(j, i)}) + 1 = n)
    BY <2>1 DEF Place
  <2>3. Sorting(s, key)[n] = CHOOSE i \in P : Place(P, R, i) = n
    BY <1>2 DEF Sorting, Arrange
  <2> HIDE DEF Goes, R, P
  <2> QED BY <2>2, <2>3
<1>4. StableSort(s, key) = [n \in P |-> s[nth(n)]]
  BY Zenon DEF StableSort
<1> HIDE DEF nth
<1> QED BY <1>1, <1>3, <1>4

Descending(s, key) == \A m, n \in DOMAIN s : m < n => key[s[m]] >= key[s[n]]

\* A sort returns what it was given, the greater key first.
LEMMA SortProperties ==
  ASSUME NEW S, NEW s \in Seq(S), NEW key, \A x \in ToSet(s) : key[x] \in Int
  PROVE  /\ StableSort(s, key) \in Seq(S)
         /\ Len(StableSort(s, key)) = Len(s)
         /\ ToSet(StableSort(s, key)) = ToSet(s)
         /\ IsInjective(s) => IsInjective(StableSort(s, key))
         /\ Descending(StableSort(s, key), key)
<1> DEFINE A == Sorting(s, key)
           r == StableSort(s, key)
<1> HIDE DEF A, r
<1>1. /\ A \in [1..Len(s) -> DOMAIN s]
      /\ \A k \in DOMAIN s : \E n \in 1..Len(s) : A[n] = k
      /\ \A m, n \in 1..Len(s) : A[m] = A[n] => m = n
      /\ \A m, n \in 1..Len(s) : m < n => key[s[A[m]]] >= key[s[A[n]]]
  <2>1. /\ Sorting(s, key) \in [1..Len(s) -> DOMAIN s]
        /\ \A k \in DOMAIN s : \E n \in 1..Len(s) : Sorting(s, key)[n] = k
        /\ \A m, n \in 1..Len(s) : Sorting(s, key)[m] = Sorting(s, key)[n] => m = n
        /\ \A m, n \in 1..Len(s) :
             m < n => key[s[Sorting(s, key)[m]]] >= key[s[Sorting(s, key)[n]]]
    BY SortingProperties, SMTT(60)
  <2> QED BY <2>1, Zenon DEF A
<1>2. r = [n \in 1..Len(s) |-> s[A[n]]]
  BY SortIsSorting DEF A, r
<1>3. Len(s) \in Nat /\ \A k \in DOMAIN s : s[k] \in S
  OBVIOUS
<1>4. r \in [1..Len(s) -> S]
  BY <1>1, <1>2, <1>3
<1>5. r \in Seq(S) /\ Len(r) = Len(s)
  BY <1>3, <1>4
<1>6. ToSet(r) = ToSet(s)
  <2>1. ToSet(r) = {s[A[n]] : n \in 1..Len(s)}
    BY <1>2 DEF ToSet
  <2>2. \A n \in 1..Len(s) : s[A[n]] \in ToSet(s)
    BY <1>1 DEF ToSet
  <2>3. \A k \in DOMAIN s : s[k] \in ToSet(r)
    BY <1>1, <2>1
  <2> QED BY <2>1, <2>2, <2>3 DEF ToSet
<1>7. IsInjective(s) => IsInjective(r)
  BY <1>1, <1>2, <1>5 DEF IsInjective
<1>8. Descending(r, key)
  BY <1>1, <1>2 DEF Descending
<1> QED BY <1>5, <1>6, <1>7, <1>8 DEF r

\* As many numbers as one counts.
LEMMA UpTo == \A n \in Nat : IsFiniteSet(1..n) /\ Cardinality(1..n) = n
<1> SUFFICES ASSUME NEW n \in Nat PROVE IsFiniteSet(1..n) /\ Cardinality(1..n) = n
  OBVIOUS
<1>1. IsFiniteSet(1..n) /\ Cardinality(1..n) = IF 1 > n THEN 0 ELSE n - 1 + 1
  BY FS_Interval
<1> QED BY <1>1

\* Of two sequences with the same elements, each once and in descending order, neither has
\* a greater key at some place than the other.
LEMMA DescendingAtMost ==
  ASSUME NEW S, NEW s \in Seq(S), NEW t \in Seq(S), ToSet(s) \subseteq ToSet(t), IsInjective(s),
         NEW key, \A x \in ToSet(t) : key[x] \in Int,
         Descending(s, key), Descending(t, key),
         NEW k \in DOMAIN s, k \in DOMAIN t
  PROVE  key[s[k]] <= key[t[k]]
<1>1. DOMAIN s = 1..Len(s) /\ DOMAIN t = 1..Len(t) /\ Len(s) \in Nat /\ Len(t) \in Nat
  OBVIOUS
<1>2. \A i \in DOMAIN s : key[s[i]] \in Int /\ \E j \in DOMAIN t : t[j] = s[i]
  BY DEF ToSet
<1>3. \A j \in DOMAIN t : key[t[j]] \in Int
  BY DEF ToSet
<1> SUFFICES ASSUME key[s[k]] > key[t[k]] PROVE FALSE
  BY <1>1, <1>2, <1>3
<1>4. ASSUME NEW i \in 1..k PROVE \E j \in 1..(k - 1) : t[j] = s[i]
  <2>1. i \in DOMAIN s /\ key[s[i]] >= key[s[k]]
    BY <1>1, <1>2, <1>4 DEF Descending
  <2>2. PICK j \in DOMAIN t : t[j] = s[i]
    BY <1>2, <2>1
  <2>3. j < k
    <3> SUFFICES ASSUME j >= k PROVE FALSE
      BY <1>1
    <3>1. key[t[k]] >= key[t[j]]
      BY <1>1, <1>3 DEF Descending
    <3> QED BY <3>1, <2>1, <2>2, <1>2, <1>3
  <2> QED BY <2>2, <2>3, <1>1
<1> DEFINE at(i) == CHOOSE j \in 1..(k - 1) : t[j] = s[i]
           f == [i \in 1..k |-> at(i)]
<1>5. \A i \in 1..k : at(i) \in 1..(k - 1) /\ t[at(i)] = s[i]
  BY <1>4
<1> HIDE DEF at
<1>6. f \in [1..k -> 1..(k - 1)]
  BY <1>5
<1>7. /\ IsFiniteSet(1..k) /\ Cardinality(1..k) = k
      /\ IsFiniteSet(1..(k - 1)) /\ Cardinality(1..(k - 1)) = k - 1
  <2>1. k \in Nat /\ k - 1 \in Nat
    BY <1>1
  <2> QED BY <2>1, UpTo
<1>10. Cardinality(1..(k - 1)) < Cardinality(1..k)
  BY <1>1, <1>7
<1> HIDE DEF f
<1>8. PICK x \in 1..k, y \in 1..k : x # y /\ f[x] = f[y]
  BY <1>6, <1>7, <1>10, FS_PigeonHole
<1>9. s[x] = s[y] /\ x \in DOMAIN s /\ y \in DOMAIN s
  BY <1>1, <1>5, <1>8 DEF f
<1> QED BY <1>8, <1>9 DEF IsInjective

-----------------------------------------------------------------------------
(* How many elements a sequence has, and what its first ones are. *)

\* The elements of a sequence are finitely many, as many as it is long if none repeats.
LEMMA ElementCount ==
  ASSUME NEW S, NEW s \in Seq(S)
  PROVE  /\ IsFiniteSet(ToSet(s)) /\ Cardinality(ToSet(s)) \in Nat
         /\ Cardinality(ToSet(s)) <= Len(s)
         /\ IsInjective(s) => Cardinality(ToSet(s)) = Len(s)
<1>1. DOMAIN s = 1..Len(s) /\ Len(s) \in Nat
  OBVIOUS
<1>2. IsFiniteSet(1..Len(s)) /\ Cardinality(1..Len(s)) = Len(s)
  BY <1>1, FS_Interval
<1>3. s \in Surjection(1..Len(s), ToSet(s))
  BY <1>1 DEF ToSet, Surjection
<1>4. IsFiniteSet(ToSet(s)) /\ Cardinality(ToSet(s)) <= Len(s)
  BY <1>2, <1>3, FS_Surjection
<1>5. ASSUME IsInjective(s) PROVE s \in Bijection(1..Len(s), ToSet(s))
  BY <1>1, <1>3, <1>5 DEF IsInjective, Bijection, Injection, Surjection
<1>6. IsInjective(s) => Cardinality(ToSet(s)) = Len(s)
  BY <1>2, <1>5, FS_Bijection DEF ExistsBijection
<1> QED BY <1>4, <1>6, FS_CardinalityType

\* The least and the greatest of two.
LEMMA OfTwo ==
  ASSUME NEW a \in Int, NEW b \in Int
  PROVE  /\ Min({a, b}) = IF a < b THEN a ELSE b
         /\ Max({a, b}) = IF a < b THEN b ELSE a
<1>1. \E x \in {a, b} : \A y \in {a, b} : x <= y
  OBVIOUS
<1>2. Min({a, b}) \in {a, b} /\ \A y \in {a, b} : Min({a, b}) <= y
  BY <1>1 DEF Min
<1>3. \E x \in {a, b} : \A y \in {a, b} : x >= y
  OBVIOUS
<1>4. Max({a, b}) \in {a, b} /\ \A y \in {a, b} : Max({a, b}) >= y
  BY <1>3 DEF Max
<1> QED BY <1>2, <1>4

\* A part of a sequence is made of the elements at its positions.
LEMMA PartProperties ==
  ASSUME NEW S, NEW s \in Seq(S), NEW m \in Nat \ {0}, NEW n \in Int, n <= Len(s)
  PROVE  /\ SubSeq(s, m, n) \in Seq(S)
         /\ Len(SubSeq(s, m, n)) = IF m <= n THEN n - m + 1 ELSE 0
         /\ \A k \in 1..(n - m + 1) : SubSeq(s, m, n)[k] = s[m + k - 1]
         /\ ToSet(SubSeq(s, m, n)) = {s[k] : k \in m..n}
         /\ ToSet(SubSeq(s, m, n)) \subseteq ToSet(s)
         /\ IsInjective(s) => IsInjective(SubSeq(s, m, n))
<1> DEFINE r == SubSeq(s, m, n)
<1>1. DOMAIN s = 1..Len(s) /\ Len(s) \in Nat /\ \A k \in 1..Len(s) : s[k] \in S
  OBVIOUS
<1>2. m..n \subseteq 1..Len(s)
  BY <1>1
<1>3. /\ r \in Seq(S)
      /\ Len(r) = IF m <= n THEN n - m + 1 ELSE 0
      /\ \A k \in 1..(n - m + 1) : r[k] = s[m + k - 1]
  BY <1>1, <1>2, SubSeqProperties
<1> HIDE DEF r
<1>4. DOMAIN r = 1..(n - m + 1)
  BY <1>3
<1>5. ToSet(r) = {s[k] : k \in m..n}
  <2>1. ToSet(r) \subseteq {s[k] : k \in m..n}
    BY <1>3, <1>4 DEF ToSet
  <2>2. ASSUME NEW k \in m..n PROVE s[k] \in ToSet(r)
    <3>1. k - m + 1 \in 1..(n - m + 1) /\ m + (k - m + 1) - 1 = k
      OBVIOUS
    <3> QED BY <3>1, <1>3, <1>4 DEF ToSet
  <2> QED BY <2>1, <2>2
<1>6. ToSet(r) \subseteq ToSet(s)
  BY <1>1, <1>2, <1>5 DEF ToSet
<1>7. IsInjective(s) => IsInjective(r)
  <2> SUFFICES ASSUME IsInjective(s),
                      NEW j \in 1..(n - m + 1), NEW k \in 1..(n - m + 1), r[j] = r[k]
               PROVE  j = k
    BY <1>4 DEF IsInjective
  <2>1. s[m + j - 1] = s[m + k - 1] /\ m + j - 1 \in DOMAIN s /\ m + k - 1 \in DOMAIN s
    BY <1>1, <1>2, <1>3
  <2>2. m + j - 1 = m + k - 1
    BY <2>1 DEF IsInjective
  <2> QED BY <2>2
<1> QED BY <1>3, <1>5, <1>6, <1>7 DEF r

\* How long s[:n] is.
HowMany(s, n) == IF n < 0 THEN IF Len(s) + n < 0 THEN 0 ELSE Len(s) + n
                 ELSE IF n < Len(s) THEN n ELSE Len(s)

\* s[:n] is the beginning of s of that length.
LEMMA FirstOfProperties ==
  ASSUME NEW S, NEW s \in Seq(S), NEW n \in Int
  PROVE  /\ HowMany(s, n) \in 0..Len(s)
         /\ FirstOf(s, n) \in Seq(S) /\ Len(FirstOf(s, n)) = HowMany(s, n)
         /\ \A k \in 1..HowMany(s, n) : FirstOf(s, n)[k] = s[k]
         /\ ToSet(FirstOf(s, n)) \subseteq ToSet(s)
         /\ IsInjective(s) => IsInjective(FirstOf(s, n))
<1> DEFINE h == HowMany(s, n)
           f == FirstOf(s, n)
           last == IF n < 0 THEN Len(s) + n ELSE Min({n, Len(s)})
<1>1. Len(s) \in Nat
  OBVIOUS
<1>2. h \in 0..Len(s)
  BY <1>1 DEF HowMany
<1>3. /\ last \in Int /\ last <= Len(s)
      /\ h = IF 1 <= last THEN last ELSE 0
  <2>1. n >= 0 => Min({n, Len(s)}) = IF n < Len(s) THEN n ELSE Len(s)
    BY <1>1, OfTwo
  <2> QED BY <2>1, <1>1 DEF HowMany
<1>4. f = SubSeq(s, 1, last)
  BY Zenon DEF FirstOf
<1> HIDE DEF h, f, last
<1>5. /\ f \in Seq(S) /\ Len(f) = h
      /\ \A k \in 1..h : f[k] = s[k]
      /\ ToSet(f) \subseteq ToSet(s)
      /\ IsInjective(s) => IsInjective(f)
  <2>1. /\ f \in Seq(S)
        /\ Len(f) = IF 1 <= last THEN last - 1 + 1 ELSE 0
        /\ \A k \in 1..(last - 1 + 1) : f[k] = s[1 + k - 1]
        /\ ToSet(f) \subseteq ToSet(s)
        /\ IsInjective(s) => IsInjective(f)
    BY <1>3, <1>4, PartProperties
  <2> QED BY <2>1, <1>3
<1> QED BY <1>2, <1>5 DEF h, f

\* Two sequences after each other have the elements of both, and none twice if neither has
\* and they share none.
LEMMA ConcatElements ==
  ASSUME NEW S, NEW s \in Seq(S), NEW t \in Seq(S)
  PROVE  /\ s \o t \in Seq(S) /\ Len(s \o t) = Len(s) + Len(t)
         /\ \A k \in 1..Len(s) : (s \o t)[k] = s[k]
         /\ \A k \in (Len(s) + 1)..(Len(s) + Len(t)) : (s \o t)[k] = t[k - Len(s)]
         /\ ToSet(s \o t) = ToSet(s) \cup ToSet(t)
         /\ IsInjective(s) /\ IsInjective(t) /\ ToSet(s) \cap ToSet(t) = {} => IsInjective(s \o t)
<1> DEFINE r == s \o t
<1>1. DOMAIN s = 1..Len(s) /\ DOMAIN t = 1..Len(t) /\ Len(s) \in Nat /\ Len(t) \in Nat
  OBVIOUS
<1>2. /\ r \in Seq(S) /\ Len(r) = Len(s) + Len(t) /\ DOMAIN r = 1..(Len(s) + Len(t))
      /\ \A k \in 1..Len(s) : r[k] = s[k]
      /\ \A k \in (Len(s) + 1)..(Len(s) + Len(t)) : r[k] = t[k - Len(s)]
  BY <1>1
<1> HIDE DEF r
<1>3. \A k \in DOMAIN r : \/ k \in DOMAIN s /\ r[k] = s[k]
                          \/ k - Len(s) \in DOMAIN t /\ r[k] = t[k - Len(s)]
  BY <1>1, <1>2
<1>4. ToSet(r) \subseteq ToSet(s) \cup ToSet(t)
  BY <1>3 DEF ToSet
<1>5. ToSet(s) \subseteq ToSet(r)
  BY <1>1, <1>2 DEF ToSet
<1>6. ASSUME NEW j \in DOMAIN t PROVE t[j] \in ToSet(r)
  <2>2. /\ j + Len(s) \in (Len(s) + 1)..(Len(s) + Len(t))
        /\ j + Len(s) \in 1..(Len(s) + Len(t)) /\ (j + Len(s)) - Len(s) = j
    BY <1>1
  <2>1. j + Len(s) \in DOMAIN r /\ r[j + Len(s)] = t[j]
    BY <2>2, <1>2
  <2> QED BY <2>1 DEF ToSet
<1>7. ToSet(r) = ToSet(s) \cup ToSet(t)
  BY <1>4, <1>5, <1>6 DEF ToSet
<1>8. ASSUME IsInjective(s), IsInjective(t), ToSet(s) \cap ToSet(t) = {} PROVE IsInjective(r)
  <2> SUFFICES ASSUME NEW i \in DOMAIN r, NEW j \in DOMAIN r, r[i] = r[j] PROVE i = j
    BY DEF IsInjective
  <2>1. \A x \in DOMAIN s, y \in DOMAIN t : s[x] # t[y]
    BY <1>8 DEF ToSet
  <2>2. \/ i \in DOMAIN s /\ j \in DOMAIN s /\ s[i] = s[j]
        \/ /\ i - Len(s) \in DOMAIN t /\ j - Len(s) \in DOMAIN t
           /\ t[i - Len(s)] = t[j - Len(s)]
    BY <1>3, <2>1
  <2>3. i = j \/ i - Len(s) = j - Len(s)
    BY <1>8, <2>2 DEF IsInjective
  <2> QED BY <2>3, <1>1, <1>2
<1> QED BY <1>2, <1>7, <1>8 DEF r

\* An element is added at the end.
LEMMA AppendElement ==
  ASSUME NEW S, NEW s \in Seq(S), NEW x \in S
  PROVE  /\ Append(s, x) \in Seq(S) /\ ToSet(Append(s, x)) = ToSet(s) \cup {x}
         /\ IsInjective(s) /\ x \notin ToSet(s) => IsInjective(Append(s, x))
<1> DEFINE one == <<x>>
           new == Append(s, x)
<1>1. one \in Seq(S) /\ ToSet(one) = {x} /\ IsInjective(one) /\ new = s \o one
  BY DEF ToSet, IsInjective
<1> HIDE DEF one, new
<1>2. /\ s \o one \in Seq(S) /\ ToSet(s \o one) = ToSet(s) \cup ToSet(one)
      /\ IsInjective(s) /\ IsInjective(one) /\ ToSet(s) \cap ToSet(one) = {}
           => IsInjective(s \o one)
  BY <1>1, ConcatElements
<1>3. x \notin ToSet(s) => ToSet(s) \cap ToSet(one) = {}
  BY <1>1
<1> QED BY <1>1, <1>2, <1>3 DEF new

-----------------------------------------------------------------------------
(* Two sequences in one order. *)

\* x stands in s, and before it no y does.
Precedes(s, x, y) == \E k \in DOMAIN s : s[k] = x /\ \A j \in 1..k : s[j] # y

\* The number of elements before an element is its position less one.
LEMMA PredecessorCount ==
  ASSUME NEW S, NEW s \in Seq(S), IsInjective(s), NEW k \in DOMAIN s
  PROVE  Cardinality({x \in ToSet(s) : Precedes(s, x, s[k])}) = k - 1
<1> DEFINE P == {x \in ToSet(s) : Precedes(s, x, s[k])}
           f == [j \in 1..(k - 1) |-> s[j]]
<1>1. DOMAIN s = 1..Len(s) /\ Len(s) \in Nat /\ k \in Nat /\ k - 1 \in Nat
  OBVIOUS
<1>2. \A j \in DOMAIN s : s[j] = s[k] => j = k
  BY DEF IsInjective
<1>3. ASSUME NEW j \in 1..(k - 1) PROVE s[j] \in P
  <2>1. j \in DOMAIN s /\ \A i \in 1..j : i \in DOMAIN s /\ i # k
    BY <1>1
  <2> QED BY <2>1, <1>2 DEF Precedes, ToSet
<1>4. ASSUME NEW x \in P PROVE \E j \in 1..(k - 1) : s[j] = x
  <2>1. PICK j \in DOMAIN s : s[j] = x /\ \A i \in 1..j : s[i] # s[k]
    BY DEF Precedes
  <2>2. k \notin 1..j
    BY <2>1
  <2> QED BY <2>1, <2>2, <1>1
<1> HIDE DEF P
<1>5. f \in [1..(k - 1) -> P]
  BY <1>3
<1>6. \A i, j \in 1..(k - 1) : f[i] = f[j] => i = j
  BY <1>1 DEF IsInjective
<1>7. \A x \in P : \E j \in 1..(k - 1) : f[j] = x
  BY <1>4
<1> HIDE DEF f
<1>8. f \in Bijection(1..(k - 1), P)
  BY <1>5, <1>6, <1>7 DEF Bijection, Injection, Surjection, IsInjective
<1>9. IsFiniteSet(1..(k - 1)) /\ Cardinality(1..(k - 1)) = k - 1
  BY <1>1, UpTo
<1>10. Cardinality(P) = k - 1
  BY <1>8, <1>9, FS_Bijection DEF ExistsBijection
<1> QED BY <1>10 DEF P

\* Sequences without repetition that have the same elements in the same order are equal.
LEMMA SameOrder ==
  ASSUME NEW S, NEW s \in Seq(S), NEW t \in Seq(S), IsInjective(s), IsInjective(t),
         ToSet(s) = ToSet(t),
         \A x, y \in ToSet(s) : Precedes(s, x, y) <=> Precedes(t, x, y)
  PROVE  s = t
<1>1. Len(s) = Len(t)
  BY ElementCount
<1>2. DOMAIN s = 1..Len(s) /\ DOMAIN t = 1..Len(t) /\ Len(s) \in Nat
  OBVIOUS
<1>3. ASSUME NEW k \in DOMAIN s PROVE s[k] = t[k]
  <2>1. s[k] \in ToSet(s)
    BY DEF ToSet
  <2>2. PICK m \in DOMAIN t : t[m] = s[k]
    BY <2>1 DEF ToSet
  <2>3. {x \in ToSet(s) : Precedes(s, x, s[k])} = {x \in ToSet(t) : Precedes(t, x, t[m])}
    BY <2>1, <2>2
  <2>4. /\ Cardinality({x \in ToSet(s) : Precedes(s, x, s[k])}) = k - 1
        /\ Cardinality({x \in ToSet(t) : Precedes(t, x, t[m])}) = m - 1
    BY PredecessorCount
  <2>5. k - 1 = m - 1
    BY <2>3, <2>4
  <2>6. k = m
    BY <2>5, <1>2
  <2> QED BY <2>2, <2>6
<1> QED BY <1>1, <1>2, <1>3

\* Leaving positions out keeps the order of those of whose occurrences none is left out but
\* for an earlier one.
LEMMA PrecedesAt ==
  ASSUME NEW S, NEW s \in Seq(S), NEW P, P \subseteq DOMAIN s, NEW x, NEW y,
         \A j \in DOMAIN s : s[j] \in {x, y} => \E i \in P : i <= j /\ s[i] = s[j]
  PROVE  Precedes(At(s, P), x, y) <=> Precedes(s, x, y)
<1> DEFINE r == At(s, P)
           N == Cardinality(P)
           C == Climb(P)
<1>1. DOMAIN s = 1..Len(s) /\ Len(s) \in Nat
  OBVIOUS
<1>2. /\ P \subseteq Int /\ IsFiniteSet(P) /\ r \in Seq(S) /\ Len(r) = N
      /\ \A n \in 1..N : r[n] = s[C[n]]
  BY AtProperties
<1>3. /\ N \in Nat
      /\ C \in [1..N -> P]
      /\ \A k \in P : \E n \in 1..N : C[n] = k
      /\ \A m, n \in 1..N : m < n => C[m] < C[n]
  BY <1>2, ClimbProperties
<1> HIDE DEF r, N, C
<1>4. DOMAIN r = 1..N /\ \A n \in 1..N : C[n] \in Nat /\ C[n] \in DOMAIN s
  BY <1>1, <1>2, <1>3
<1>5. ASSUME Precedes(s, x, y) PROVE Precedes(r, x, y)
  <2>1. PICK k \in DOMAIN s : s[k] = x /\ \A j \in 1..k : s[j] # y
    BY <1>5 DEF Precedes
  <2>2. PICK i \in P : i <= k /\ s[i] = x
    BY <2>1
  <2>3. PICK n \in 1..N : C[n] = i
    BY <1>3
  <2>4. ASSUME NEW m \in 1..n PROVE r[m] # y
    <3>1. m \in 1..N /\ C[m] <= C[n]
      BY <1>3, <1>4
    <3>2. C[m] \in 1..k
      <4>1. C[m] \in 1..Len(s) /\ k \in 1..Len(s) /\ i \in Int
        BY <3>1, <1>1, <1>2, <1>4
      <4>2. C[m] <= i /\ i <= k
        BY <3>1, <2>2, <2>3
      <4> QED BY <4>1, <4>2, <1>1
    <3> QED BY <3>1, <3>2, <2>1, <1>2
  <2> QED BY <2>2, <2>3, <2>4, <1>2, <1>4 DEF Precedes
<1>6. ASSUME Precedes(r, x, y) PROVE Precedes(s, x, y)
  <2>1. PICK n \in 1..N : r[n] = x /\ \A m \in 1..n : r[m] # y
    BY <1>4, <1>6 DEF Precedes
  <2>2. C[n] \in DOMAIN s /\ s[C[n]] = x
    BY <2>1, <1>2, <1>4
  <2>3. ASSUME NEW j \in 1..C[n], s[j] = y PROVE FALSE
    <3>1. j \in DOMAIN s
      BY <2>2, <1>1
    <3>2. PICK i \in P : i <= j /\ s[i] = y
      BY <3>1, <2>3
    <3>3. PICK m \in 1..N : C[m] = i
      BY <1>3
    <3>4. ~(n < m)
      <4> SUFFICES ASSUME n < m PROVE FALSE
        OBVIOUS
      <4>1. C[n] < C[m]
        BY <1>3
      <4> QED BY <4>1, <3>2, <3>3, <1>2, <1>4
    <3>5. m \in 1..n /\ r[m] = y
      BY <3>2, <3>3, <3>4, <1>2, <1>3
    <3> QED BY <3>5, <2>1
  <2> QED BY <2>2, <2>3 DEF Precedes
<1> QED BY <1>5, <1>6 DEF r

\* Distinct keeps the order of first occurrences.
LEMMA PrecedesDistinct ==
  ASSUME NEW S, NEW s \in Seq(S), NEW x, NEW y
  PROVE  Precedes(Distinct(s), x, y) <=> Precedes(s, x, y)
<1>1. Fresh(s) \subseteq DOMAIN s /\ Distinct(s) = At(s, Fresh(s))
  BY DEF Fresh, Distinct
<1>2. ASSUME NEW j \in DOMAIN s PROVE \E i \in Fresh(s) : i <= j /\ s[i] = s[j]
  <2>1. s[j] \in ToSet(s)
    BY DEF ToSet
  <2>2. PICK i \in Fresh(s) : s[i] = s[j]
    BY <2>1, FirstPosition
  <2>3. i \in Nat /\ j \in Nat /\ j >= 1 /\ \A k \in 1..(i - 1) : s[k] # s[j]
    BY <2>2 DEF Fresh
  <2>4. i <= j
    BY <2>3
  <2> QED BY <2>2, <2>4
<1> QED BY <1>1, <1>2, PrecedesAt

\* Keep keeps the order of what it keeps.
LEMMA PrecedesKeep ==
  ASSUME NEW S, NEW s \in Seq(S), NEW T, NEW x \in T, NEW y \in T
  PROVE  Precedes(Keep(s, T), x, y) <=> Precedes(s, x, y)
<1> DEFINE P == {k \in DOMAIN s : s[k] \in T}
<1>1. P \subseteq DOMAIN s /\ Keep(s, T) = At(s, P)
  BY DEF Keep
<1>2. \A j \in DOMAIN s : s[j] \in {x, y} => \E i \in P : i <= j /\ s[i] = s[j]
  OBVIOUS
<1> HIDE DEF P
<1> QED BY <1>1, <1>2, PrecedesAt

\* In two sequences after each other the first one decides, if it can.
LEMMA PrecedesConcat ==
  ASSUME NEW S, NEW s \in Seq(S), NEW t \in Seq(S), NEW x, NEW y
  PROVE  Precedes(s \o t, x, y) <=>
           Precedes(s, x, y) \/ (y \notin ToSet(s) /\ Precedes(t, x, y))
<1> DEFINE r == s \o t
           a == Len(s)
           b == Len(t)
<1>1. a \in Nat /\ b \in Nat /\ DOMAIN s = 1..a /\ DOMAIN t = 1..b
  OBVIOUS
<1>2. /\ r \in Seq(S) /\ Len(r) = a + b
      /\ \A k \in 1..a : r[k] = s[k]
      /\ \A k \in (a + 1)..(a + b) : r[k] = t[k - a]
  BY ConcatElements
<1> HIDE DEF r, a, b
<1>3. DOMAIN r = 1..(a + b)
  BY <1>2
<1>4. \A j \in 1..b : j + a \in (a + 1)..(a + b) /\ j + a \in 1..(a + b) /\ r[j + a] = t[j]
  <2> SUFFICES ASSUME NEW j \in 1..b
               PROVE  j + a \in (a + 1)..(a + b) /\ j + a \in 1..(a + b) /\ r[j + a] = t[j]
    OBVIOUS
  <2>1. j + a \in (a + 1)..(a + b) /\ j + a \in 1..(a + b) /\ (j + a) - a = j
    BY <1>1
  <2> QED BY <2>1, <1>2
<1>5. ASSUME Precedes(s, x, y) PROVE Precedes(r, x, y)
  <2>1. PICK k \in 1..a : s[k] = x /\ \A j \in 1..k : s[j] # y
    BY <1>1, <1>5 DEF Precedes
  <2>2. k \in DOMAIN r /\ r[k] = x /\ \A j \in 1..k : r[j] # y
    BY <2>1, <1>1, <1>2, <1>3
  <2> QED BY <2>2 DEF Precedes
<1>6. ASSUME y \notin ToSet(s), Precedes(t, x, y) PROVE Precedes(r, x, y)
  <2>1. PICK k \in 1..b : t[k] = x /\ \A j \in 1..k : t[j] # y
    BY <1>1, <1>6 DEF Precedes
  <2>2. k + a \in DOMAIN r /\ r[k + a] = x
    BY <2>1, <1>3, <1>4
  <2>3. ASSUME NEW j \in 1..(k + a) PROVE r[j] # y
    <3>1. CASE j \in 1..a
      BY <3>1, <1>1, <1>2, <1>6 DEF ToSet
    <3>2. CASE j \notin 1..a
      <4>1. j - a \in 1..k /\ j \in (a + 1)..(a + b)
        BY <3>2, <1>1
      <4> QED BY <4>1, <2>1, <1>2
    <3> QED BY <3>1, <3>2
  <2> QED BY <2>2, <2>3 DEF Precedes
<1>7. ASSUME Precedes(r, x, y) PROVE Precedes(s, x, y) \/ (y \notin ToSet(s) /\ Precedes(t, x, y))
  <2>1. PICK k \in 1..(a + b) : r[k] = x /\ \A j \in 1..k : r[j] # y
    BY <1>3, <1>7 DEF Precedes
  <2>2. CASE k \in 1..a
    <3>1. k \in DOMAIN s /\ s[k] = x /\ \A j \in 1..k : s[j] # y
      BY <2>1, <2>2, <1>1, <1>2
    <3> QED BY <3>1 DEF Precedes
  <2>3. CASE k \notin 1..a
    <3>1. k - a \in 1..b /\ k \in (a + 1)..(a + b) /\ t[k - a] = x
      BY <2>1, <2>3, <1>1, <1>2
    <3>2. ASSUME NEW j \in 1..(k - a) PROVE t[j] # y
      <4>1. j \in 1..b /\ j + a \in 1..k
        BY <3>1, <1>1
      <4> QED BY <4>1, <2>1, <1>4
    <3>3. ASSUME NEW j \in 1..a PROVE s[j] # y
      <4>1. j \in 1..k
        BY <2>3, <1>1
      <4> QED BY <4>1, <2>1, <1>2
    <3> QED BY <3>1, <3>2, <3>3, <1>1 DEF Precedes, ToSet
  <2> QED BY <2>2, <2>3
<1> QED BY <1>5, <1>6, <1>7 DEF r

-----------------------------------------------------------------------------
(* Several lists. *)

\* There are finitely many places, and each is a pair of a list's number and one in it.
LEMMA PlacesProperties ==
  ASSUME NEW S, NEW lists \in Seq(Seq(S))
  PROVE  /\ IsFiniteSet(Places(lists))
         /\ \A p : p \in Places(lists) <=>
                     /\ p = <<p[1], p[2]>>
                     /\ p[1] \in DOMAIN lists /\ p[2] \in DOMAIN lists[p[1]]
         /\ \A p \in Places(lists) :
              p[1] \in Nat /\ p[2] \in Nat /\ lists[p[1]][p[2]] \in S
<1> DEFINE In(l) == {l} \X (DOMAIN lists[l])
           All == {In(l) : l \in DOMAIN lists}
<1>1. DOMAIN lists = 1..Len(lists) /\ Len(lists) \in Nat
  OBVIOUS
<1>2. ASSUME NEW l \in DOMAIN lists
      PROVE  lists[l] \in Seq(S) /\ DOMAIN lists[l] = 1..Len(lists[l]) /\ Len(lists[l]) \in Nat
  OBVIOUS
<1>3. IsFiniteSet(All)
  <2>1. [l \in DOMAIN lists |-> In(l)] \in Surjection(DOMAIN lists, All)
    BY DEF Surjection
  <2>2. IsFiniteSet(DOMAIN lists)
    BY <1>1, FS_Interval
  <2> QED BY <2>1, <2>2, FS_Surjection
<1>4. ASSUME NEW l \in DOMAIN lists PROVE IsFiniteSet(In(l))
  <2>1. IsFiniteSet({l})
    BY FS_Singleton
  <2>2. IsFiniteSet(DOMAIN lists[l])
    BY <1>2, FS_Interval
  <2> QED BY <2>1, <2>2, FS_Product
<1>5. Places(lists) = UNION All
  BY DEF Places
<1>6. IsFiniteSet(Places(lists))
  BY <1>3, <1>4, <1>5, FS_UNION
<1>7. \A p : p \in Places(lists) <=>
              /\ p = <<p[1], p[2]>>
              /\ p[1] \in DOMAIN lists /\ p[2] \in DOMAIN lists[p[1]]
  BY <1>5
<1>8. \A p \in Places(lists) : p[1] \in Nat /\ p[2] \in Nat /\ lists[p[1]][p[2]] \in S
  BY <1>1, <1>2, <1>7
<1> QED BY <1>6, <1>7, <1>8

ReadsBefore(lists) ==
  {pair \in Places(lists) \X Places(lists) :
     \/ pair[1][1] < pair[2][1]
     \/ pair[1][1] = pair[2][1] /\ pair[1][2] < pair[2][2]}

Reading(lists) == Arrange(Places(lists), ReadsBefore(lists))

\* Flatten reads one list after another.
LEMMA FlattenIsReading ==
  ASSUME NEW lists
  PROVE  Flatten(lists) =
           [n \in 1..Cardinality(Places(lists)) |->
              lists[Reading(lists)[n][1]][Reading(lists)[n][2]]]
<1> DEFINE P == Places(lists)
           R == ReadsBefore(lists)
           Goes(p, q) == p[1] < q[1] \/ (p[1] = q[1] /\ p[2] < q[2])
           nth(n) == CHOOSE p \in P : Cardinality({q \in P : Goes(q, p)}) + 1 = n
<1>1. ASSUME NEW n \in 1..Cardinality(P)
      PROVE  nth(n) = Reading(lists)[n]
  <2>1. \A p \in P : Before(P, R, p) = {q \in P : Goes(q, p)}
    BY DEF Before, ReadsBefore
  <2>2. \A p \in P : (Place(P, R, p) = n) <=> (Cardinality({q \in P : Goes(q, p)}) + 1 = n)
    BY <2>1 DEF Place
  <2>3. Reading(lists)[n] = CHOOSE p \in P : Place(P, R, p) = n
    BY DEF Reading, Arrange
  <2> HIDE DEF Goes, R, P
  <2> QED BY <2>2, <2>3
<1>2. Flatten(lists) = [n \in 1..Cardinality(P) |-> lists[nth(n)[1]][nth(n)[2]]]
  BY Zenon DEF Flatten
<1> HIDE DEF nth
<1> QED BY <1>1, <1>2

\* Flatten returns a sequence of what stands at all the places.
LEMMA FlattenProperties ==
  ASSUME NEW S, NEW lists \in Seq(Seq(S))
  PROVE  /\ Flatten(lists) \in Seq(S)
         /\ ToSet(Flatten(lists)) = {lists[p[1]][p[2]] : p \in Places(lists)}
<1> DEFINE P == Places(lists)
           R == ReadsBefore(lists)
           A == Reading(lists)
           N == Cardinality(P)
<1>1. /\ IsFiniteSet(P)
      /\ \A p \in P : p[1] \in Nat /\ p[2] \in Nat
      /\ \A p \in P : lists[p[1]][p[2]] \in S
  BY PlacesProperties
<1>11. ASSUME NEW x \in P, NEW y \in P, x[1] = y[1], x[2] = y[2] PROVE x = y
  <2>1. x = <<x[1], x[2]>> /\ y = <<y[1], y[2]>>
    BY PlacesProperties
  <2> QED BY <2>1, <1>11
<1>2. \A p, q \in P : <<p, q>> \in R <=> p[1] < q[1] \/ (p[1] = q[1] /\ p[2] < q[2])
  BY DEF ReadsBefore
<1> HIDE DEF P, R
<1>3. StrictOrder(P, R)
  <2> DEFINE a(p) == p[1]
             b(p) == p[2]
  <2>4. \A p \in P : a(p) \in Nat /\ b(p) \in Nat
    BY <1>1
  <2>5. \A p, q \in P : <<p, q>> \in R <=> a(p) < a(q) \/ (a(p) = a(q) /\ b(p) < b(q))
    BY <1>2
  <2>6. \A p, q \in P : a(p) = a(q) /\ b(p) = b(q) => p = q
    BY <1>11
  <2> HIDE DEF a, b
  <2>1. \A x \in P : <<x, x>> \notin R
    BY <2>4, <2>5
  <2>2. \A x, y \in P : x # y => <<x, y>> \in R \/ <<y, x>> \in R
    BY <2>4, <2>5, <2>6
  <2>3. \A x, y, z \in P : <<x, y>> \in R /\ <<y, z>> \in R => <<x, z>> \in R
    BY <2>4, <2>5
  <2> QED BY <2>1, <2>2, <2>3 DEF StrictOrder
<1>4. /\ N \in Nat /\ Arrange(P, R) \in [1..N -> P]
      /\ \A p \in P : \E n \in 1..N : Arrange(P, R)[n] = p
  BY <1>1, <1>3, ArrangeProperties
<1>5. Flatten(lists) = [n \in 1..N |-> lists[A[n][1]][A[n][2]]]
  BY FlattenIsReading DEF P
<1>6. A = Arrange(P, R)
  BY DEF Reading, P, R
<1> HIDE DEF A, N
<1>7. A \in [1..N -> P] /\ \A p \in P : \E n \in 1..N : A[n] = p
  BY <1>4, <1>6
<1>8. Flatten(lists) \in [1..N -> S]
  BY <1>1, <1>5, <1>7
<1>9. Flatten(lists) \in Seq(S)
  BY <1>4, <1>8
<1>10. ToSet(Flatten(lists)) = {lists[p[1]][p[2]] : p \in P}
  <2> DEFINE el(p) == lists[p[1]][p[2]]
  <2>1. Flatten(lists) = [n \in 1..N |-> el(A[n])]
    BY <1>5
  <2> HIDE DEF el
  <2>2. ToSet(Flatten(lists)) = {el(A[n]) : n \in 1..N}
    BY <2>1 DEF ToSet
  <2>3. ToSet(Flatten(lists)) = {el(p) : p \in P}
    BY <2>2, <1>7
  <2> QED BY <2>3 DEF el
<1> QED BY <1>9, <1>10 DEF P

-----------------------------------------------------------------------------
(* What the calls of a run leave in a store. *)

\* A store with other rows is a store, and its other parts stay.
LEMMA RowsPart ==
  ASSUME NEW store \in Store, NEW rows \in Seq(Queries)
  PROVE  LET new == [store EXCEPT !.rows = rows]
         IN /\ new \in Store /\ new.rows = rows /\ new.corpus = store.corpus
            /\ new.links = store.links /\ new.shown = store.shown
BY DEF Store

\* So is one with other links.
LEMMA LinksPart ==
  ASSUME NEW store \in Store, NEW links \in [Queries -> Seq(Items)]
  PROVE  LET new == [store EXCEPT !.links = links]
         IN /\ new \in Store /\ new.rows = store.rows /\ new.corpus = store.corpus
            /\ new.links = links /\ new.shown = store.shown
BY DEF Store

\* So is one with a larger corpus.
LEMMA CorpusPart ==
  ASSUME NEW store \in Store, NEW corpus \in SUBSET Items
  PROVE  LET new == [store EXCEPT !.corpus = corpus]
         IN /\ new \in Store /\ new.rows = store.rows /\ new.corpus = corpus
            /\ new.links = store.links /\ new.shown = store.shown
BY DEF Store

\* So is one with other deliveries.
LEMMA ShownPart ==
  ASSUME NEW store \in Store, NEW shown \in SUBSET Items
  PROVE  LET new == [store EXCEPT !.shown = shown]
         IN /\ new \in Store /\ new.rows = store.rows /\ new.corpus = store.corpus
            /\ new.links = store.links /\ new.shown = shown
BY DEF Store

\* A row is added or written back, and nothing else changes.
LEMMA SqlUpsertProperties ==
  ASSUME NEW store \in Store, NEW q \in Queries
  PROVE  LET new == SqlUpsert(store, q)
         IN /\ new \in Store /\ Listed(new) = Listed(store) \cup {q}
            /\ IsInjective(store.rows) => IsInjective(new.rows)
            /\ new.corpus = store.corpus /\ new.links = store.links /\ new.shown = store.shown
<1> DEFINE kept == Keep(store.rows, Queries \ {q})
           rows == Append(kept, q)
           new == [store EXCEPT !.rows = rows]
<1>1. store.rows \in Seq(Queries)
  BY DEF Store
<1>2. /\ kept \in Seq(Queries) /\ ToSet(kept) = ToSet(store.rows) \cap (Queries \ {q})
      /\ IsInjective(store.rows) => IsInjective(kept)
  BY <1>1, KeepProperties
<1>3. new = SqlUpsert(store, q)
  BY Zenon DEF SqlUpsert
<1> HIDE DEF kept
<1>4. /\ rows \in Seq(Queries) /\ ToSet(rows) = ToSet(kept) \cup {q}
      /\ IsInjective(store.rows) => IsInjective(rows)
  BY <1>2, AppendElement
<1> HIDE DEF rows
<1>5. /\ new \in Store /\ new.rows = rows
      /\ new.corpus = store.corpus /\ new.links = store.links /\ new.shown = store.shown
  BY <1>4, RowsPart
<1>6. ToSet(store.rows) \subseteq Queries
  BY <1>1 DEF ToSet
<1> HIDE DEF new
<1>7. Listed(new) = Listed(store) \cup {q}
  BY <1>2, <1>4, <1>5, <1>6 DEF Listed
<1> QED BY <1>3, <1>4, <1>5, <1>7

\* A deletion takes one search off the list, and its links with it.
LEMMA SqlDeleteProperties ==
  ASSUME NEW store \in Store, NEW q \in Queries
  PROVE  LET new == SqlDelete(store, q)
         IN /\ new \in Store /\ Listed(new) = Listed(store) \ {q}
            /\ IsInjective(store.rows) => IsInjective(new.rows)
            /\ new.corpus = store.corpus /\ new.shown = store.shown
            /\ new.links = [store.links EXCEPT ![q] = <<>>]
<1> DEFINE kept == Keep(store.rows, Queries \ {q})
           links == [store.links EXCEPT ![q] = <<>>]
           fewer == [store EXCEPT !.rows = kept]
           new == [fewer EXCEPT !.links = links]
<1>1. store.rows \in Seq(Queries) /\ store.links \in [Queries -> Seq(Items)]
  BY DEF Store
<1>2. /\ kept \in Seq(Queries) /\ ToSet(kept) = ToSet(store.rows) \cap (Queries \ {q})
      /\ IsInjective(store.rows) => IsInjective(kept)
  BY <1>1, KeepProperties
<1>3. links \in [Queries -> Seq(Items)]
  BY <1>1
<1>4. new = SqlDelete(store, q)
  BY DEF SqlDelete
<1> HIDE DEF kept, links
<1>5. /\ fewer \in Store /\ fewer.rows = kept
      /\ fewer.corpus = store.corpus /\ fewer.links = store.links /\ fewer.shown = store.shown
  BY <1>2, RowsPart
<1> HIDE DEF fewer
<1>6. /\ new \in Store /\ new.rows = kept
      /\ new.corpus = store.corpus /\ new.links = links /\ new.shown = store.shown
  BY <1>3, <1>5, LinksPart
<1>7. ToSet(store.rows) \subseteq Queries
  BY <1>1 DEF ToSet
<1> HIDE DEF new
<1>8. Listed(new) = Listed(store) \ {q}
  BY <1>2, <1>6, <1>7 DEF Listed
<1> QED BY <1>2, <1>4, <1>6, <1>8 DEF links

\* Linking changes the links of one search, which has none twice then.
LEMMA SqlLinkProperties ==
  ASSUME NEW store \in Store, NEW q \in Queries, NEW ids \in Seq(Items)
  PROVE  LET new == SqlLink(store, q, ids)
         IN /\ new \in Store /\ new.rows = store.rows /\ Listed(new) = Listed(store)
            /\ new.corpus = store.corpus /\ new.shown = store.shown
            /\ new.links = [store.links EXCEPT ![q] = Distinct(store.links[q] \o ids)]
            /\ IsInjective(new.links[q])
            /\ ToSet(new.links[q]) = ToSet(store.links[q]) \cup ToSet(ids)
<1> DEFINE both == store.links[q] \o ids
           links == [store.links EXCEPT ![q] = Distinct(both)]
           new == [store EXCEPT !.links = links]
<1>1. store.links \in [Queries -> Seq(Items)] /\ store.links[q] \in Seq(Items)
  BY DEF Store
<1>2. both \in Seq(Items) /\ ToSet(both) = ToSet(store.links[q]) \cup ToSet(ids)
  BY <1>1, ConcatElements
<1> HIDE DEF both
<1>3. /\ Distinct(both) \in Seq(Items) /\ IsInjective(Distinct(both))
      /\ ToSet(Distinct(both)) = ToSet(both)
  BY <1>2, DistinctProperties
<1>4. links \in [Queries -> Seq(Items)] /\ links[q] = Distinct(both)
  BY <1>1, <1>3
<1>5. new = SqlLink(store, q, ids)
  BY DEF SqlLink, both
<1> HIDE DEF links
<1>6. /\ new \in Store /\ new.rows = store.rows
      /\ new.corpus = store.corpus /\ new.links = links /\ new.shown = store.shown
  BY <1>4, LinksPart
<1> HIDE DEF new
<1>7. new.links = [store.links EXCEPT ![q] = Distinct(store.links[q] \o ids)]
  BY <1>6 DEF links, both
<1> QED BY <1>2, <1>3, <1>4, <1>5, <1>6, <1>7 DEF Listed

\* What a run reads back was not shown, and none comes twice if no link does.
LEMMA UnseenProperties ==
  ASSUME NEW store \in Store, NEW q \in Queries
  PROVE  /\ Unseen(store, q) \in Seq(Items)
         /\ ToSet(Unseen(store, q)) \subseteq Items \ store.shown
         /\ IsInjective(store.links[q]) => IsInjective(Unseen(store, q))
<1> DEFINE found == ResultsOf(store, q)
<1>1. store.links[q] \in Seq(Items)
  BY DEF Store
<1>2. /\ found \in Seq(Items)
      /\ IsInjective(store.links[q]) => IsInjective(found)
  BY <1>1, KeepProperties DEF ResultsOf
<1> HIDE DEF found
<1>3. /\ Keep(found, Items \ store.shown) \in Seq(Items)
      /\ ToSet(Keep(found, Items \ store.shown)) = ToSet(found) \cap (Items \ store.shown)
      /\ IsInjective(found) => IsInjective(Keep(found, Items \ store.shown))
  BY <1>2, KeepProperties
<1> QED BY <1>2, <1>3 DEF Unseen, found

\* Marking changes only what was shown.
LEMMA MarkShownProperties ==
  ASSUME NEW store \in Store, NEW ids \in SUBSET Items
  PROVE  LET new == MarkShown(store, ids)
         IN /\ new \in Store /\ new.rows = store.rows /\ Listed(new) = Listed(store)
            /\ new.corpus = store.corpus /\ new.links = store.links
            /\ new.shown = store.shown \cup ids
<1> DEFINE shown == store.shown \cup ids
           new == [store EXCEPT !.shown = shown]
<1>1. new = MarkShown(store, ids)
  BY Zenon DEF MarkShown
<1>2. shown \in SUBSET Items
  BY DEF Store
<1> HIDE DEF shown
<1>3. /\ new \in Store /\ new.rows = store.rows
      /\ new.corpus = store.corpus /\ new.links = store.links /\ new.shown = shown
  BY <1>2, ShownPart
<1> HIDE DEF new
<1> QED BY <1>1, <1>3 DEF Listed, shown

-----------------------------------------------------------------------------
(* What the two ways to link have in common. *)

\* It makes no difference whether repetitions or what is not asked for goes first.
LEMMA DistinctKeep ==
  ASSUME NEW S, NEW s \in Seq(S), NEW T
  PROVE  Distinct(Keep(s, T)) = Keep(Distinct(s), T)
<1> DEFINE a == Keep(s, T)
           b == Distinct(s)
<1>1. /\ a \in Seq(S) /\ ToSet(a) = ToSet(s) \cap T
      /\ b \in Seq(S) /\ ToSet(b) = ToSet(s) /\ IsInjective(b)
  BY KeepProperties, DistinctProperties
<1>2. \A x, y \in T : Precedes(a, x, y) <=> Precedes(s, x, y)
  BY PrecedesKeep
<1>3. \A x, y : Precedes(b, x, y) <=> Precedes(s, x, y)
  BY PrecedesDistinct
<1> HIDE DEF a, b
<1>4. /\ Distinct(a) \in Seq(S) /\ ToSet(Distinct(a)) = ToSet(a) /\ IsInjective(Distinct(a))
      /\ \A x, y : Precedes(Distinct(a), x, y) <=> Precedes(a, x, y)
  BY <1>1, DistinctProperties, PrecedesDistinct
<1>5. /\ Keep(b, T) \in Seq(S) /\ ToSet(Keep(b, T)) = ToSet(b) \cap T /\ IsInjective(Keep(b, T))
      /\ \A x, y \in T : Precedes(Keep(b, T), x, y) <=> Precedes(b, x, y)
  BY <1>1, KeepProperties, PrecedesKeep
<1>6. \A x, y \in ToSet(Distinct(a)) :
        Precedes(Distinct(a), x, y) <=> Precedes(Keep(b, T), x, y)
  BY <1>1, <1>2, <1>3, <1>4, <1>5
<1>7. ToSet(Distinct(a)) = ToSet(Keep(b, T))
  BY <1>1, <1>4, <1>5
<1> QED BY <1>4, <1>5, <1>6, <1>7, SameOrder DEF a, b

\* Linking against earlier calls only, and dropping repetitions then, is what the UNIQUE
\* constraint does at once.
LEMMA LinkingAlike ==
  ASSUME NEW S, NEW s \in Seq(S), NEW ids \in Seq(S)
  PROVE  Distinct(s \o Keep(ids, S \ ToSet(s))) = Distinct(Distinct(s) \o ids)
<1> DEFINE new == Keep(ids, S \ ToSet(s))
           m == s \o new
           d == Distinct(s)
           q == d \o ids
<1>1. /\ new \in Seq(S) /\ ToSet(new) = ToSet(ids) \cap (S \ ToSet(s))
      /\ \A x, y \in S \ ToSet(s) : Precedes(new, x, y) <=> Precedes(ids, x, y)
  BY KeepProperties, PrecedesKeep
<1>2. /\ d \in Seq(S) /\ ToSet(d) = ToSet(s)
      /\ \A x, y : Precedes(d, x, y) <=> Precedes(s, x, y)
  BY DistinctProperties, PrecedesDistinct
<1> HIDE DEF new, d
<1>3. /\ m \in Seq(S) /\ ToSet(m) = ToSet(s) \cup ToSet(new)
      /\ \A x, y : Precedes(m, x, y) <=>
                     Precedes(s, x, y) \/ (y \notin ToSet(s) /\ Precedes(new, x, y))
  BY <1>1, ConcatElements, PrecedesConcat
<1>4. /\ q \in Seq(S) /\ ToSet(q) = ToSet(d) \cup ToSet(ids)
      /\ \A x, y : Precedes(q, x, y) <=>
                     Precedes(d, x, y) \/ (y \notin ToSet(d) /\ Precedes(ids, x, y))
  BY <1>2, ConcatElements, PrecedesConcat
<1> HIDE DEF m, q
<1>5. ToSet(s) \subseteq S /\ ToSet(ids) \subseteq S
  BY DEF ToSet
<1>6. ToSet(m) = ToSet(q)
  BY <1>1, <1>2, <1>3, <1>4, <1>5
<1>7. ASSUME NEW x \in ToSet(m), NEW y \in ToSet(m)
      PROVE  Precedes(m, x, y) <=> Precedes(q, x, y)
  <2>1. x \in S /\ y \in S
    BY <1>3, <1>1, <1>5
  <2>2. CASE y \in ToSet(s)
    BY <2>2, <1>2, <1>3, <1>4
  <2>3. CASE y \notin ToSet(s) /\ x \notin ToSet(s)
    <3>1. Precedes(new, x, y) <=> Precedes(ids, x, y)
      BY <2>1, <2>3, <1>1
    <3> QED BY <3>1, <2>3, <1>2, <1>3, <1>4
  <2>4. CASE y \notin ToSet(s) /\ x \in ToSet(s)
    <3>1. Precedes(s, x, y)
      <4>1. PICK k \in DOMAIN s : s[k] = x
        BY <2>4 DEF ToSet
      <4>2. \A j \in 1..k : j \in DOMAIN s
        OBVIOUS
      <4>3. \A j \in 1..k : s[j] # y
        BY <4>2, <2>4 DEF ToSet
      <4> QED BY <4>1, <4>3 DEF Precedes
    <3> QED BY <3>1, <1>2, <1>3, <1>4
  <2> QED BY <2>2, <2>3, <2>4
<1>8. /\ Distinct(m) \in Seq(S) /\ ToSet(Distinct(m)) = ToSet(m) /\ IsInjective(Distinct(m))
      /\ \A x, y : Precedes(Distinct(m), x, y) <=> Precedes(m, x, y)
  BY <1>3, DistinctProperties, PrecedesDistinct
<1>9. /\ Distinct(q) \in Seq(S) /\ ToSet(Distinct(q)) = ToSet(q) /\ IsInjective(Distinct(q))
      /\ \A x, y : Precedes(Distinct(q), x, y) <=> Precedes(q, x, y)
  BY <1>4, DistinctProperties, PrecedesDistinct
<1>10. Distinct(m) = Distinct(q)
  BY <1>6, <1>7, <1>8, <1>9, SameOrder
<1> QED BY <1>10 DEF m, q, new, d
=============================================================================
