---------------------------- MODULE FiniteOrders ----------------------------
(***************************************************************************)
(* Lemmas the proofs share: least, greatest and smallest members, and what *)
(* picking out of a sequence keeps.                                        *)
(***************************************************************************)
EXTENDS Integers, Subsequences, FiniteSetTheorems, WellFoundedInduction, TLAPS

\* A nonempty set of naturals has a least element.
LEMMA LeastExists ==
  ASSUME NEW T \in SUBSET Nat, T # {}
  PROVE  \E m \in T : \A n \in T : m <= n
<1>1. PICK m \in T : \A n \in T : ~(<<n, m>> \in OpToRel(<, Nat))
  BY NatLessThanWellFounded, WFMin
<1>2. ASSUME NEW n \in T
      PROVE  m <= n
  <2>1. ~(n < m)
    BY <1>1 DEF OpToRel
  <2> QED
    BY <2>1
<1> QED
  BY <1>2

\* A nonempty collection of subsets of a finite set has one that is without a
\* member's being removed.
LEMMA SmallestExists ==
  ASSUME NEW S, IsFiniteSet(S), NEW T \in SUBSET (SUBSET S), T # {}
  PROVE  \E s \in T : \A x \in s : s \ {x} \notin T
<1> DEFINE Sizes == {Cardinality(s) : s \in T}
<1>1. \A s \in T : IsFiniteSet(s) /\ Cardinality(s) \in Nat
  BY FS_Subset, FS_CardinalityType
<1>2. Sizes \in SUBSET Nat /\ Sizes # {}
  BY <1>1
<1>3. PICK m \in Sizes : \A n \in Sizes : m <= n
  <2> HIDE DEF Sizes
  <2> QED
    BY <1>2, LeastExists
<1>4. PICK s \in T : m = Cardinality(s)
  OBVIOUS
<1>5. ASSUME NEW x \in s, s \ {x} \in T
      PROVE  FALSE
  <2>1. Cardinality(s \ {x}) = Cardinality(s) - 1
    BY <1>1, FS_RemoveElement
  <2>2. m <= Cardinality(s \ {x})
    BY <1>3, <1>5
  <2> QED
    BY <1>1, <1>4, <2>1, <2>2
<1> QED
  BY <1>5

\* A nonempty set of naturals with an upper bound has a greatest element.
LEMMA GreatestExists ==
  ASSUME NEW T, NEW b \in Nat, T \subseteq 0 .. b, T # {}
  PROVE  \E m \in T : \A n \in T : n <= m
<1> DEFINE S == {b - n : n \in T}
<1>1. S \subseteq Nat /\ S # {}
  <2>1. PICK n \in T : TRUE
    OBVIOUS
  <2>2. b - n \in S
    OBVIOUS
  <2> QED
    BY <2>2
<1>2. PICK x \in S : \A y \in S : ~(<<y, x>> \in OpToRel(<, Nat))
  <2> HIDE DEF S
  <2> QED
    BY <1>1, NatLessThanWellFounded, WFMin
<1>3. \A y \in S : x <= y
  <2> SUFFICES ASSUME NEW y \in S PROVE x <= y
    OBVIOUS
  <2>1. x \in Nat /\ y \in Nat
    BY <1>1
  <2>2. ~(y < x)
    <3> HIDE DEF S
    <3> QED
      BY <1>2, <2>1 DEF OpToRel
  <2> QED
    BY <2>1, <2>2
<1>4. PICK m \in T : x = b - m
  OBVIOUS
<1>5. \A n \in T : n <= m
  <2> SUFFICES ASSUME NEW n \in T PROVE n <= m
    OBVIOUS
  <2>1. x <= b - n
    BY <1>3
  <2> QED
    BY <2>1, <1>4
<1> QED
  BY <1>5

-----------------------------------------------------------------------------
(* Subsequences *)

\* How many members of S come up to i, by the pairs of R.
Place(S, R, i) == Cardinality({j \in S : <<j, i>> \in R})

\* In a finite linear order, how many come up to a member numbers the members in their order.
LEMMA PlacesNumber ==
  ASSUME NEW S, IsFiniteSet(S), NEW R,
         \A i, j \in S : <<i, j>> \in R \/ <<j, i>> \in R,
         \A i, j \in S : <<i, j>> \in R /\ <<j, i>> \in R => i = j,
         \A i, j, k \in S : <<i, j>> \in R /\ <<j, k>> \in R => <<i, k>> \in R
  PROVE  /\ Cardinality(S) \in Nat
         /\ \A i \in S : Place(S, R, i) \in 1 .. Cardinality(S)
         /\ \A i, j \in S : <<i, j>> \in R /\ i # j => Place(S, R, i) < Place(S, R, j)
         /\ \A k \in 1 .. Cardinality(S) : \E i \in S : Place(S, R, i) = k
<1> DEFINE Below(i) == {j \in S : <<j, i>> \in R}
           n == Cardinality(S)
           place == [i \in S |-> Place(S, R, i)]
<1>1. \A i \in S : IsFiniteSet(Below(i)) /\ Place(S, R, i) = Cardinality(Below(i)) /\ Place(S, R, i) \in Nat
  BY FS_Subset, FS_CardinalityType DEF Place
<1>2. n \in Nat
  BY FS_CardinalityType
<1>3. ASSUME NEW i \in S
      PROVE  Place(S, R, i) \in 1 .. n
  <2>1. Cardinality(Below(i)) <= n
    BY FS_Subset
  <2>2. Place(S, R, i) # 0
    <3>1. i \in Below(i)
      OBVIOUS
    <3> QED
      BY <3>1, <1>1, FS_EmptySet
  <2>3. Place(S, R, i) \in Nat
    BY <1>1
  <2>4. Place(S, R, i) <= n
    BY <1>1, <2>1
  <2> HIDE DEF n
  <2> QED
    BY <1>2, <2>2, <2>3, <2>4
<1>4. ASSUME NEW i \in S, NEW j \in S, <<i, j>> \in R, i # j
      PROVE  Place(S, R, i) < Place(S, R, j)
  <2>1. Below(i) \subseteq Below(j) /\ j \in Below(j) /\ j \notin Below(i)
    BY <1>4
  <2>2. Cardinality(Below(i)) <= Cardinality(Below(j))
    BY <1>1, <2>1, FS_Subset
  <2>3. Cardinality(Below(i)) # Cardinality(Below(j))
    BY <1>1, <2>1, FS_Subset
  <2> QED
    BY <1>1, <2>2, <2>3
<1>5. place \in Injection(S, 1 .. n)
  <2>1. place \in [S -> 1 .. n]
    BY <1>3
  <2>2. ASSUME NEW i \in S, NEW j \in S, place[i] = place[j]
        PROVE  i = j
    <3>1. Place(S, R, i) = Place(S, R, j) /\ Place(S, R, i) \in Nat
      BY <1>1, <2>2
    <3>2. ~(Place(S, R, i) < Place(S, R, j)) /\ ~(Place(S, R, j) < Place(S, R, i))
      BY <3>1
    <3> QED
      BY <3>2, <1>4
  <2> HIDE DEF place
  <2> QED
    BY <2>1, <2>2 DEF Injection, IsInjective
<1>6. IsFiniteSet(1 .. n) /\ Cardinality(1 .. n) = n
  BY <1>2, FS_Interval
<1>7. place \in Surjection(S, 1 .. n)
  <2> HIDE DEF place
  <2> QED
    BY <1>5, <1>6, FS_Injection
<1>8. \A k \in 1 .. n : \E i \in S : Place(S, R, i) = k
  BY <1>7 DEF Surjection
<1> QED
  BY <1>2, <1>3, <1>4, <1>8

\* The ranks of a finite set of naturals number it in its order.
LEMMA RankNumbers ==
  ASSUME NEW I \in SUBSET Nat, IsFiniteSet(I)
  PROVE  /\ \A i \in I : Rank(I, i) \in 1 .. Cardinality(I)
         /\ \A i, j \in I : i < j => Rank(I, i) < Rank(I, j)
         /\ \A k \in 1 .. Cardinality(I) : \E i \in I : Rank(I, i) = k
<1> DEFINE R == {p \in I \X I : p[1] <= p[2]}
<1>1. \A i, j \in I : <<i, j>> \in R <=> i <= j
  OBVIOUS
<1>2. \A i \in I : Rank(I, i) = Place(I, R, i)
  BY <1>1 DEF Rank, Place
<1>3. /\ \A i, j \in I : <<i, j>> \in R \/ <<j, i>> \in R
      /\ \A i, j \in I : <<i, j>> \in R /\ <<j, i>> \in R => i = j
      /\ \A i, j, k \in I : <<i, j>> \in R /\ <<j, k>> \in R => <<i, k>> \in R
      /\ \A i, j \in I : i < j => <<i, j>> \in R /\ i # j
  <2> SUFFICES ASSUME NEW i \in I, NEW j \in I, NEW k \in I
               PROVE  /\ <<i, j>> \in R \/ <<j, i>> \in R
                      /\ <<i, j>> \in R /\ <<j, i>> \in R => i = j
                      /\ <<i, j>> \in R /\ <<j, k>> \in R => <<i, k>> \in R
                      /\ i < j => <<i, j>> \in R /\ i # j
    OBVIOUS
  <2>1. i \in Nat /\ j \in Nat /\ k \in Nat
    OBVIOUS
  <2> HIDE DEF R
  <2> QED
    BY <1>1, <2>1
<1> HIDE DEF R
<1>4. /\ \A i \in I : Place(I, R, i) \in 1 .. Cardinality(I)
      /\ \A i, j \in I : <<i, j>> \in R /\ i # j => Place(I, R, i) < Place(I, R, j)
      /\ \A k \in 1 .. Cardinality(I) : \E i \in I : Place(I, R, i) = k
  BY <1>3, PlacesNumber
<1>5. /\ \A i \in I : Rank(I, i) \in 1 .. Cardinality(I)
      /\ \A k \in 1 .. Cardinality(I) : \E i \in I : Rank(I, i) = k
  BY <1>2, <1>4
<1>6. ASSUME NEW i \in I, NEW j \in I, i < j
      PROVE  Rank(I, i) < Rank(I, j)
  <2>1. <<i, j>> \in R /\ i # j
    BY <1>3, <1>6
  <2>2. Place(I, R, i) < Place(I, R, j)
    BY <1>4, <2>1
  <2>3. Rank(I, i) = Place(I, R, i) /\ Rank(I, j) = Place(I, R, j)
    BY <1>2
  <2> QED
    BY <2>2, <2>3
<1> QED
  BY <1>5, <1>6

\* A subsequence has exactly the items at its indices, each at its rank.
LEMMA SubsequencePicks ==
  ASSUME NEW s, NEW I \in SUBSET Nat, IsFiniteSet(I)
  PROVE  LET q == Subsequence(s, I) IN
         /\ q \in Seq({s[i] : i \in I})
         /\ DOMAIN q = 1 .. Cardinality(I)
         /\ Len(q) = Cardinality(I)
         /\ \A i \in I : Rank(I, i) \in DOMAIN q /\ q[Rank(I, i)] = s[i]
         /\ \A k \in DOMAIN q : \E i \in I : Rank(I, i) = k /\ q[k] = s[i]
<1> DEFINE n == Cardinality(I)
           At(k) == CHOOSE i \in I : Rank(I, i) = k
           q == [k \in 1 .. n |-> s[At(k)]]
<1>1. n \in Nat
  BY FS_CardinalityType
<1>2. \A k \in 1 .. n : At(k) \in I /\ Rank(I, At(k)) = k
  BY RankNumbers
<1>3. \A i \in I : Rank(I, i) \in 1 .. n /\ At(Rank(I, i)) = i
  <2> SUFFICES ASSUME NEW i \in I
               PROVE  Rank(I, i) \in 1 .. n /\ At(Rank(I, i)) = i
    OBVIOUS
  <2>1. Rank(I, i) \in 1 .. n
    BY RankNumbers
  <2> DEFINE m == At(Rank(I, i))
  <2>2. m \in I /\ Rank(I, m) = Rank(I, i)
    BY <2>1, <1>2
  <2>3. ~(m < i) /\ ~(i < m)
    <3>1. Rank(I, m) \in Nat /\ Rank(I, i) \in Nat
      BY <2>1, <2>2, <1>1
    <3> HIDE DEF m
    <3> QED
      BY <3>1, <2>2, RankNumbers
  <2> HIDE DEF m
  <2>4. m = i
    BY <2>2, <2>3
  <2> QED
    BY <2>1, <2>4 DEF m
<1> HIDE DEF At
<1>4. q \in Seq({s[i] : i \in I}) /\ Len(q) = n
  BY <1>1, <1>2
<1>5. Subsequence(s, I) = q
  BY DEF Subsequence, At
<1> QED
  BY <1>1, <1>2, <1>3, <1>4, <1>5
=============================================================================
