--------------------------- MODULE OrderedProofs ---------------------------
(***************************************************************************)
(* What the other proofs need to know of sorting, of counting, and of      *)
(* recursion over the natural numbers.                                     *)
(***************************************************************************)
EXTENDS Ordered, Integers, FiniteSetTheorems, WellFoundedInduction, TLAPS

StrictOrder(S, R) ==
    /\ \A x \in S : <<x, x>> \notin R
    /\ \A x, y \in S : x # y => <<x, y>> \in R \/ <<y, x>> \in R
    /\ \A x, y, z \in S : <<x, y>> \in R /\ <<y, z>> \in R => <<x, z>> \in R

Below(S, R, x) == {y \in S : <<y, x>> \in R}

LEMMA BelowCounts ==
    ASSUME NEW S, IsFiniteSet(S), NEW R, StrictOrder(S, R), NEW x \in S
    PROVE  /\ IsFiniteSet(Below(S, R, x))
           /\ Cardinality(Below(S, R, x)) \in 0..(Cardinality(S) - 1)
           /\ \A y \in S : <<x, y>> \in R =>
                 Cardinality(Below(S, R, x)) < Cardinality(Below(S, R, y))
<1>1. \A y \in S : /\ IsFiniteSet(Below(S, R, y))
                   /\ Cardinality(Below(S, R, y)) \in Nat
  <2> TAKE y \in S
  <2>1. Below(S, R, y) \in SUBSET S
    BY DEF Below
  <2> QED
    BY <2>1, FS_Subset, FS_CardinalityType
<1>2. Cardinality(S) \in Nat
  BY FS_CardinalityType
<1>3. Cardinality(Below(S, R, x)) < Cardinality(S)
  <2>1. Below(S, R, x) \in SUBSET S /\ x \notin Below(S, R, x)
    BY DEF Below, StrictOrder
  <2> QED
    BY <1>1, <1>2, <2>1, FS_Subset
<1>4. ASSUME NEW y \in S, <<x, y>> \in R
      PROVE  Cardinality(Below(S, R, x)) < Cardinality(Below(S, R, y))
  <2>1. /\ Below(S, R, x) \in SUBSET Below(S, R, y)
        /\ x \in Below(S, R, y) /\ x \notin Below(S, R, x)
    BY <1>4 DEF Below, StrictOrder
  <2> QED
    BY <1>1, <2>1, FS_Subset
<1> QED
  BY <1>1, <1>2, <1>3, <1>4

(* Sorting a finite set lists each of its elements once, each before those *)
(* that are above it.                                                      *)
LEMMA SortedLists ==
    ASSUME NEW S, IsFiniteSet(S), NEW R, StrictOrder(S, R)
    PROVE  /\ Cardinality(S) \in Nat
           /\ Sorted(S, R) \in Bijection(1..Cardinality(S), S)
           /\ \A i, j \in 1..Cardinality(S) :
                 i < j <=> <<Sorted(S, R)[i], Sorted(S, R)[j]>> \in R
           /\ \A k \in 1..Cardinality(S) :
                 Cardinality(Below(S, R, Sorted(S, R)[k])) = k - 1
<1> DEFINE n == Cardinality(S)
           rank == [x \in S |-> Cardinality(Below(S, R, x)) + 1]
           list == Sorted(S, R)
<1>1. n \in Nat
  BY FS_CardinalityType
<1>2. rank \in [S -> 1..n]
  <2> SUFFICES ASSUME NEW x \in S PROVE Cardinality(Below(S, R, x)) + 1 \in 1..n
    OBVIOUS
  <2>1. Cardinality(Below(S, R, x)) \in 0..(n - 1)
    BY BelowCounts
  <2> QED
    BY <1>1, <2>1
<1>3. \A x, y \in S : <<x, y>> \in R => rank[x] < rank[y]
  <2> SUFFICES ASSUME NEW x \in S, NEW y \in S, <<x, y>> \in R PROVE rank[x] < rank[y]
    OBVIOUS
  <2>1. /\ Cardinality(Below(S, R, x)) < Cardinality(Below(S, R, y))
        /\ Cardinality(Below(S, R, x)) \in 0..(n - 1)
        /\ Cardinality(Below(S, R, y)) \in 0..(n - 1)
    BY BelowCounts
  <2> QED
    BY <1>1, <2>1
<1>4. \A k \in 1..n : list[k] = CHOOSE x \in S : Cardinality({y \in S : <<y, x>> \in R}) = k - 1
  BY DEF Sorted
<1>5. \A x \in S : rank[x] = Cardinality({y \in S : <<y, x>> \in R}) + 1
  BY DEF Below
<1>6. \A x \in S : Cardinality({y \in S : <<y, x>> \in R}) \in Nat
  BY BelowCounts DEF Below
<1> HIDE DEF rank
<1>7. \A x, y \in S : rank[x] = rank[y] => x = y
  <2> SUFFICES ASSUME NEW x \in S, NEW y \in S, x # y PROVE rank[x] # rank[y]
    OBVIOUS
  <2>1. rank[x] \in Nat /\ rank[y] \in Nat
    BY <1>1, <1>2
  <2>2. <<x, y>> \in R \/ <<y, x>> \in R
    BY DEF StrictOrder
  <2> QED
    BY <1>3, <2>1, <2>2
<1>8. rank \in Surjection(S, 1..n)
  <2>1. rank \in Injection(S, 1..n)
    BY <1>2, <1>7 DEF Injection, IsInjective
  <2>2. IsFiniteSet(1..n) /\ Cardinality(1..n) = n
    BY <1>1, FS_Interval
  <2> QED
    BY <2>1, <2>2, FS_Injection
<1>9. \A k \in 1..n : list[k] \in S /\ rank[list[k]] = k
  <2> TAKE k \in 1..n
  <2>1. PICK x \in S : rank[x] = k
    BY <1>8 DEF Surjection
  <2>2. Cardinality({y \in S : <<y, x>> \in R}) = k - 1
    BY <1>1, <1>5, <1>6, <2>1
  <2>3. list[k] \in S /\ Cardinality({y \in S : <<y, list[k]>> \in R}) = k - 1
    BY <1>4, <2>2
  <2>4. rank[list[k]] = (k - 1) + 1
    BY <1>5, <2>3
  <2> QED
    BY <1>1, <2>3, <2>4
<1>10. DOMAIN list = 1..n
  BY DEF Sorted
<1> HIDE DEF list
<1>11. list \in [1..n -> S]
  <2>1. list = [k \in 1..n |-> CHOOSE x \in S : Cardinality({y \in S : <<y, x>> \in R}) = k - 1]
    BY DEF list, Sorted
  <2> QED
    BY <1>4, <1>9, <2>1
<1>12. \A x \in S : list[rank[x]] = x
  BY <1>2, <1>7, <1>9
<1>13. list \in Bijection(1..n, S)
  <2>1. \A i, j \in 1..n : list[i] = list[j] => i = j
    BY <1>9
  <2>2. \A x \in S : \E k \in 1..n : list[k] = x
    BY <1>2, <1>12
  <2> QED
    BY <1>11, <2>1, <2>2 DEF Bijection, Injection, Surjection, IsInjective
<1>14. \A i, j \in 1..n : i < j <=> <<list[i], list[j]>> \in R
  <2> SUFFICES ASSUME NEW i \in 1..n, NEW j \in 1..n
               PROVE  i < j <=> <<list[i], list[j]>> \in R
    OBVIOUS
  <2>1. list[i] \in S /\ list[j] \in S /\ rank[list[i]] = i /\ rank[list[j]] = j
    BY <1>9
  <2>2. i < j => list[i] # list[j] /\ <<list[j], list[i]>> \notin R
    BY <1>1, <1>3, <2>1
  <2> QED
    BY <1>1, <1>3, <2>1, <2>2 DEF StrictOrder
<1>15. \A k \in 1..n : Cardinality(Below(S, R, list[k])) = k - 1
  <2> TAKE k \in 1..n
  <2>1. list[k] \in S /\ rank[list[k]] = k
    BY <1>9
  <2>2. /\ rank[list[k]] = Cardinality(Below(S, R, list[k])) + 1
        /\ Cardinality(Below(S, R, list[k])) \in Nat
    BY <1>5, <1>6, <2>1 DEF Below
  <2> QED
    BY <1>1, <2>1, <2>2
<1> QED
  BY <1>1, <1>13, <1>14, <1>15 DEF list

(* And so one comes before all others.                                     *)
LEMMA FirstInOrder ==
    ASSUME NEW S, IsFiniteSet(S), S # {}, NEW R, StrictOrder(S, R)
    PROVE  \E x \in S : \A y \in S : y # x => <<x, y>> \in R
<1> DEFINE n == Cardinality(S)
           list == Sorted(S, R)
<1>1. /\ n \in Nat /\ list \in Bijection(1..n, S)
      /\ \A i, j \in 1..n : i < j <=> <<list[i], list[j]>> \in R
  BY SortedLists
<1> HIDE DEF n, list
<1>2. \A y \in S : \E k \in 1..n : list[k] = y
  BY <1>1 DEF Bijection, Surjection
<1>3. 1 \in 1..n /\ list[1] \in S
  BY <1>1, <1>2 DEF Bijection, Injection
<1>4. ASSUME NEW y \in S, y # list[1]
      PROVE  <<list[1], y>> \in R
  <2>1. PICK k \in 1..n : list[k] = y
    BY <1>2
  <2>2. 1 < k
    BY <1>1, <1>4, <2>1
  <2> QED
    BY <1>1, <1>3, <2>1, <2>2
<1> QED
  BY <1>3, <1>4

(* Where an element has o + n others before it, as many as n come after    *)
(* the first o and before the rest: a page of a long enough list is full.  *)
Stretch(S, R, o, n) ==
    {y \in S : o <= Cardinality(Below(S, R, y)) /\ Cardinality(Below(S, R, y)) < o + n}

LEMMA FullStretch ==
    ASSUME NEW S, IsFiniteSet(S), NEW R, StrictOrder(S, R),
           NEW o \in Nat, NEW n \in Nat,
           NEW x \in S, Cardinality(Below(S, R, x)) >= o + n
    PROVE  Cardinality(Stretch(S, R, o, n)) = n
<1> DEFINE list == Sorted(S, R)
           part == [i \in 1..n |-> list[o + i]]
<1>1. /\ Cardinality(S) \in Nat
      /\ list \in Bijection(1..Cardinality(S), S)
      /\ \A k \in 1..Cardinality(S) : Cardinality(Below(S, R, list[k])) = k - 1
  BY SortedLists
<1>2. Cardinality(Below(S, R, x)) \in 0..(Cardinality(S) - 1)
  BY BelowCounts
<1>3. o + n < Cardinality(S)
  BY <1>1, <1>2
<1> HIDE DEF list
<1>4. \A i \in 1..n : o + i \in 1..Cardinality(S)
  BY <1>1, <1>3
<1>5. \A k \in 1..Cardinality(S) : list[k] \in S
  BY <1>1 DEF Bijection, Injection
<1>6. \A j, k \in 1..Cardinality(S) : list[j] = list[k] => j = k
  BY <1>1 DEF Bijection, Injection, IsInjective
<1>7. \A y \in S : \E k \in 1..Cardinality(S) : list[k] = y
  BY <1>1 DEF Bijection, Surjection
<1>8. \A i \in 1..n : part[i] \in Stretch(S, R, o, n)
  <2> SUFFICES ASSUME NEW i \in 1..n PROVE list[o + i] \in Stretch(S, R, o, n)
    OBVIOUS
  <2>1. list[o + i] \in S /\ Cardinality(Below(S, R, list[o + i])) = (o + i) - 1
    BY <1>1, <1>4, <1>5
  <2>2. o <= (o + i) - 1 /\ (o + i) - 1 < o + n
    OBVIOUS
  <2> QED
    BY <2>1, <2>2 DEF Stretch
<1>9. \A i, j \in 1..n : part[i] = part[j] => i = j
  BY <1>4, <1>6
<1>10. \A y \in Stretch(S, R, o, n) : \E i \in 1..n : part[i] = y
  <2> SUFFICES ASSUME NEW y \in Stretch(S, R, o, n) PROVE \E i \in 1..n : part[i] = y
    OBVIOUS
  <2>1. PICK k \in 1..Cardinality(S) : list[k] = y
    BY <1>7 DEF Stretch
  <2>2. o <= k - 1 /\ k - 1 < o + n
    BY <1>1, <2>1 DEF Stretch
  <2>3. k - o \in 1..n /\ o + (k - o) = k
    BY <2>2
  <2>4. part[k - o] = y
    BY <2>1, <2>3
  <2> QED
    BY <2>3, <2>4
<1>11. part \in Bijection(1..n, Stretch(S, R, o, n))
  BY <1>8, <1>9, <1>10 DEF Bijection, Injection, Surjection, IsInjective
<1>12. IsFiniteSet(1..n) /\ Cardinality(1..n) = n
  BY FS_Interval
<1> HIDE DEF part
<1>13. Cardinality(Stretch(S, R, o, n)) = Cardinality(1..n)
  <2> DEFINE A == 1..n
             B == Stretch(S, R, o, n)
  <2> HIDE DEF A, B
  <2>1. part \in Bijection(A, B) /\ IsFiniteSet(A)
    BY <1>11, <1>12 DEF A, B
  <2>2. \E f : f \in Bijection(A, B)
    BY <2>1
  <2>3. Cardinality(B) = Cardinality(A)
    BY <2>1, <2>2, FS_Bijection DEF ExistsBijection
  <2> QED
    BY <2>3 DEF A, B
<1> QED
  BY <1>12, <1>13

LEMMA AscendingLists ==
    ASSUME NEW S \in SUBSET Int, IsFiniteSet(S)
    PROVE  /\ Cardinality(S) \in Nat
           /\ Ascending(S) \in Bijection(1..Cardinality(S), S)
           /\ \A i, j \in 1..Cardinality(S) : i < j <=> Ascending(S)[i] < Ascending(S)[j]
<1> DEFINE R == {p \in S \X S : p[1] < p[2]}
<1>1. \A x, y \in S : <<x, y>> \in R <=> x < y
  OBVIOUS
<1> HIDE DEF R
<1>2. StrictOrder(S, R)
  BY <1>1 DEF StrictOrder
<1>3. /\ Cardinality(S) \in Nat
      /\ Sorted(S, R) \in Bijection(1..Cardinality(S), S)
      /\ \A i, j \in 1..Cardinality(S) : i < j <=> <<Sorted(S, R)[i], Sorted(S, R)[j]>> \in R
  BY <1>2, SortedLists
<1>4. Ascending(S) = Sorted(S, R)
  BY DEF Ascending, R
<1>5. \A i \in 1..Cardinality(S) : Sorted(S, R)[i] \in S
  BY <1>3 DEF Bijection, Injection
<1> QED
  BY <1>1, <1>3, <1>4, <1>5

---------------------------------------------------------------------------
(* Counting.                                                               *)

(* As many positions come into a set as are in it.                         *)
LEMMA Rearranged ==
    ASSUME NEW n \in Nat, NEW b \in Bijection(1..n, 1..n),
           NEW A \in SUBSET (1..n), NEW B \in SUBSET (1..n),
           \A i \in 1..n : i \in A <=> b[i] \in B
    PROVE  Cardinality(A) = Cardinality(B)
<1> DEFINE f == [i \in A |-> b[i]]
<1>1. IsFiniteSet(A)
  <2>1. IsFiniteSet(1..n)
    BY FS_Interval
  <2> QED
    BY <2>1, FS_Subset
<1>2. /\ b \in [1..n -> 1..n]
      /\ \A i, j \in 1..n : b[i] = b[j] => i = j
      /\ \A k \in 1..n : \E i \in 1..n : b[i] = k
  BY DEF Bijection, Injection, Surjection, IsInjective
<1>3. f \in [A -> B] /\ \A i \in A : f[i] = b[i]
  BY <1>2
<1>4. \A k \in B : \E i \in A : f[i] = k
  BY <1>2, <1>3
<1>5. \A i, j \in A : f[i] = f[j] => i = j
  BY <1>2, <1>3
<1> HIDE DEF f
<1>6. f \in Bijection(A, B)
  BY <1>3, <1>4, <1>5 DEF Bijection, Injection, Surjection, IsInjective
<1>7. ExistsBijection(A, B)
  BY <1>6 DEF ExistsBijection
<1> QED
  BY <1>1, <1>7, FS_Bijection

(* Where only x may come or go, the number changes by that.                *)
LEMMA OneMoves ==
    ASSUME NEW S, IsFiniteSet(S), NEW A \in SUBSET S, NEW B \in SUBSET S, NEW x,
           \A y \in S : y # x => (y \in A <=> y \in B)
    PROVE  /\ Cardinality(A) \in Nat /\ Cardinality(B) \in Nat
           /\ (x \in A <=> x \in B) => Cardinality(B) = Cardinality(A)
           /\ x \notin A /\ x \in B => Cardinality(B) = Cardinality(A) + 1
           /\ x \in A /\ x \notin B => Cardinality(B) = Cardinality(A) - 1
<1>1. IsFiniteSet(A) /\ IsFiniteSet(B)
  BY FS_Subset
<1>2. Cardinality(A) \in Nat /\ Cardinality(B) \in Nat
  BY <1>1, FS_CardinalityType
<1>3. (x \in A <=> x \in B) => A = B
  OBVIOUS
<1>4. ASSUME x \notin A, x \in B PROVE Cardinality(B) = Cardinality(A) + 1
  <2>1. B = A \cup {x}
    BY <1>4
  <2> QED
    BY <1>1, <1>4, <2>1, FS_AddElement
<1>5. ASSUME x \in A, x \notin B PROVE Cardinality(B) = Cardinality(A) - 1
  <2>1. B = A \ {x}
    BY <1>5
  <2> QED
    BY <1>1, <1>5, <2>1, FS_RemoveElement
<1> QED
  BY <1>2, <1>3, <1>4, <1>5

---------------------------------------------------------------------------
(* Recursion.  Induction is over sets of numbers, which a proof can name.  *)

Less == {p \in Nat \X Nat : p[1] < p[2]}

LEMMA LeastNatural ==
    ASSUME NEW S \in SUBSET Nat, S # {}
    PROVE  \E n \in S : \A m \in S : n <= m
<1>1. IsWellFoundedOn(Less, Nat)
  BY NatLessThanWellFounded DEF OpToRel, Less
<1>2. PICK n \in S : \A m \in S : <<m, n>> \notin Less
  BY <1>1, WFMin, Zenon
<1>3. \A m \in Nat : <<m, n>> \in Less <=> m < n
  BY DEF Less
<1>4. ASSUME NEW m \in S PROVE n <= m
  <2>1. ~(m < n)
    BY <1>2, <1>3
  <2> QED
    BY <2>1
<1> QED
  BY <1>4

(* A set with 0, and with the successor of every number in it, has all.    *)
LEMMA EveryNatural ==
    ASSUME NEW S, 0 \in S, \A n \in Nat : n \in S => n + 1 \in S
    PROVE  Nat \subseteq S
<1> SUFFICES ASSUME Nat \ S # {} PROVE FALSE
  OBVIOUS
<1>1. PICK n \in Nat \ S : \A m \in Nat \ S : n <= m
  BY LeastNatural
<1>2. n # 0 /\ n - 1 \in Nat /\ n - 1 \in S
  BY <1>1
<1> QED
  BY <1>1, <1>2

(* w is what v0 and F give up to n.                                        *)
Unfolds(w, n, v0, F) ==
    /\ w[0] = v0
    /\ \A i \in Nat : i < n => w[i + 1] = F[<<i, w[i]>>]

Recurs(g, v0, F) == g[0] = v0 /\ \A n \in Nat : g[n + 1] = F[<<n, g[n]>>]

(* There is a function for every recursion over the natural numbers.       *)
LEMMA Recursion ==
    ASSUME NEW V, NEW v0, v0 \in V, NEW F, F \in [Nat \X V -> V]
    PROVE  \E g \in [Nat -> V] : Recurs(g, v0, F)
<1> DEFINE Has(n) == \E w \in [0..n -> V] : Unfolds(w, n, v0, F)
           S == {n \in Nat : Has(n)}
<1>1. 0 \in S
  <2> DEFINE w == [i \in 0..0 |-> v0]
  <2>1. w \in [0..0 -> V] /\ Unfolds(w, 0, v0, F)
    BY DEF Unfolds
  <2> QED
    BY <2>1
<1>2. ASSUME NEW n \in Nat, n \in S PROVE n + 1 \in S
  <2>1. PICK w \in [0..n -> V] : Unfolds(w, n, v0, F)
    BY <1>2
  <2> DEFINE v == [i \in 0..(n + 1) |-> IF i = n + 1 THEN F[<<n, w[n]>>] ELSE w[i]]
  <2>2. v \in [0..(n + 1) -> V]
    OBVIOUS
  <2>3. Unfolds(v, n + 1, v0, F)
    <3>1. v[0] = v0
      BY <2>1 DEF Unfolds
    <3>2. ASSUME NEW i \in Nat, i < n + 1 PROVE v[i + 1] = F[<<i, v[i]>>]
      <4>1. CASE i = n
        <5>1. v[n + 1] = F[<<n, w[n]>>] /\ v[n] = w[n]
          OBVIOUS
        <5> QED
          BY <4>1, <5>1
      <4>2. CASE i < n
        <5>1. v[i + 1] = w[i + 1] /\ v[i] = w[i]
          BY <4>2
        <5> QED
          BY <2>1, <4>2, <5>1 DEF Unfolds
      <4> QED
        BY <3>2, <4>1, <4>2
    <3> QED
      BY <3>1, <3>2 DEF Unfolds
  <2> QED
    BY <2>2, <2>3
<1>3. \A n \in Nat : Has(n)
  <2> HIDE DEF S
  <2>1. Nat \subseteq S
    BY <1>1, <1>2, EveryNatural
  <2> QED
    BY <2>1 DEF S
<1> DEFINE T == {i \in Nat : \A n, m \in Nat : i <= n /\ i <= m =>
                    \A w \in [0..n -> V], v \in [0..m -> V] :
                        Unfolds(w, n, v0, F) /\ Unfolds(v, m, v0, F) => w[i] = v[i]}
<1>4. 0 \in T
  BY DEF Unfolds
<1>5. ASSUME NEW i \in Nat, i \in T PROVE i + 1 \in T
  <2> SUFFICES ASSUME NEW n \in Nat, NEW m \in Nat, i + 1 <= n, i + 1 <= m,
                      NEW w \in [0..n -> V], NEW v \in [0..m -> V],
                      Unfolds(w, n, v0, F), Unfolds(v, m, v0, F)
               PROVE  w[i + 1] = v[i + 1]
    OBVIOUS
  <2>1. w[i] = v[i]
    <3>1. i <= n /\ i <= m
      OBVIOUS
    <3> QED
      BY <1>5, <3>1
  <2>2. i < n /\ i < m
    OBVIOUS
  <2> HIDE DEF T
  <2> QED
    BY <2>1, <2>2 DEF Unfolds
<1>6. Nat \subseteq T
  <2> HIDE DEF T
  <2> QED
    BY <1>4, <1>5, EveryNatural
<1> DEFINE part == [n \in Nat |-> CHOOSE w \in [0..n -> V] : Unfolds(w, n, v0, F)]
           g == [n \in Nat |-> part[n][n]]
<1>7. \A n \in Nat : part[n] \in [0..n -> V] /\ Unfolds(part[n], n, v0, F)
  BY <1>3
<1> HIDE DEF part
<1>8. g \in [Nat -> V] /\ \A n \in Nat : g[n] = part[n][n]
  <2>1. ASSUME NEW n \in Nat PROVE part[n][n] \in V
    BY <1>7
  <2> QED
    BY <2>1
<1>9. g[0] = v0
  BY <1>7, <1>8 DEF Unfolds
<1>10. ASSUME NEW n \in Nat PROVE g[n + 1] = F[<<n, g[n]>>]
  <2>1. part[n + 1][n + 1] = F[<<n, part[n + 1][n]>>]
    BY <1>7 DEF Unfolds
  <2>2. part[n + 1][n] = part[n][n]
    <3>1. n \in T /\ n <= n + 1 /\ n <= n /\ n + 1 \in Nat
      BY <1>6
    <3> QED
      BY <1>7, <3>1
  <2> QED
    BY <1>8, <2>1, <2>2
<1> HIDE DEF g
<1> QED
  BY <1>8, <1>9, <1>10 DEF Recurs
============================================================================
