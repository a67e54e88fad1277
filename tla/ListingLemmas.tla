---------------------------- MODULE ListingLemmas ---------------------------
(***************************************************************************)
(* Facts that the proofs about the servers share: about natural numbers, a *)
(* least one and induction, stated with the set of the numbers that have a *)
(* property in the place of the property; about the operators of Listing;  *)
(* and about those of Mailbox, which are made of them.                     *)
(***************************************************************************)
EXTENDS Mailbox, FiniteSetTheorems, SequenceTheorems, WellFoundedInduction, TLAPS

(* A set of natural numbers that is not empty has a least element.         *)
LEMMA LeastNumber ==
  ASSUME NEW T \in SUBSET Nat, T # {}
  PROVE  \E n \in T : \A m \in T : n <= m
<1> DEFINE R == OpToRel(<, Nat)
<1>1. IsWellFoundedOn(R, Nat) BY NatLessThanWellFounded
<1>2. \A x, y \in Nat : <<x, y>> \in R <=> x < y BY DEF OpToRel
<1> HIDE DEF R
<1>3. PICK n \in T : \A m \in T : <<m, n>> \notin R BY <1>1, WFMin
<1>4. \A m \in T : m \in Nat /\ n \in Nat OBVIOUS
<1>5. \A m \in T : ~(m < n)
  <2> TAKE m \in T
  <2>1. m \in Nat /\ n \in Nat BY <1>4
  <2>2. <<m, n>> \notin R BY <1>3
  <2> QED BY <1>2, <2>1, <2>2
<1> QED BY <1>4, <1>5

(* What holds of 0, and of n + 1 when of n, holds of every natural number. *)
LEMMA InductionInSet ==
  ASSUME NEW S, 0 \in S, \A n \in Nat : n \in S => n + 1 \in S
  PROVE  Nat \subseteq S
<1> SUFFICES ASSUME ~ (Nat \subseteq S) PROVE FALSE OBVIOUS
<1> DEFINE T == Nat \ S
<1>1. PICK n \in T : \A m \in T : n <= m BY LeastNumber
<1>2. n # 0 /\ n - 1 \in Nat /\ n - 1 \notin T BY <1>1
<1> QED BY <1>1, <1>2

(***************************************************************************)
(* The numbers of a finite set, in their order.                            *)
(***************************************************************************)

LEMMA RankType ==
  ASSUME NEW K, IsFiniteSet(K), NEW i \in Int
  PROVE  /\ Rank(K, i) \in Nat /\ Cardinality(K) \in Nat
         /\ Rank(K, i) <= Cardinality(K)
<1>1. {j \in K : j <= i} \in SUBSET K OBVIOUS
<1>2. IsFiniteSet({j \in K : j <= i}) /\ Rank(K, i) <= Cardinality(K)
  BY <1>1, FS_Subset DEF Rank
<1> QED BY <1>2, FS_CardinalityType DEF Rank

LEMMA RankGrows ==
  ASSUME NEW K \in SUBSET Int, IsFiniteSet(K), NEW i \in Int, NEW k \in K, i < k
  PROVE  Rank(K, i) < Rank(K, k)
<1> DEFINE A == {j \in K : j <= i}
           B == {j \in K : j <= k}
<1>1. A \in SUBSET B
  <2> SUFFICES ASSUME NEW j \in K, j <= i PROVE j <= k OBVIOUS
  <2>1. j \in Int /\ k \in Int OBVIOUS
  <2> QED BY <2>1
<1>2. k \in B /\ k \notin A
  <2>1. k \in Int OBVIOUS
  <2> QED BY <2>1
<1>3. IsFiniteSet(B)
  <2>1. B \in SUBSET K OBVIOUS
  <2> QED BY <2>1, FS_Subset
<1> HIDE DEF A, B
<1>4. IsFiniteSet(A) /\ Cardinality(A) <= Cardinality(B) /\ Cardinality(A) # Cardinality(B)
  <2>1. IsFiniteSet(A) /\ Cardinality(A) <= Cardinality(B) /\ (Cardinality(B) = Cardinality(A) => B = A)
    BY <1>1, <1>3, FS_Subset
  <2> QED BY <1>2, <2>1
<1>5. Cardinality(A) \in Nat /\ Cardinality(B) \in Nat BY <1>3, <1>4, FS_CardinalityType
<1> QED BY <1>4, <1>5 DEF Rank, A, B

(* Each number of K is the one of its rank, and each rank is one's.        *)
LEMMA NthFacts ==
  ASSUME NEW K \in SUBSET Int, IsFiniteSet(K)
  PROVE  /\ \A k \in 1 .. Cardinality(K) : Nth(K, k) \in K /\ Rank(K, Nth(K, k)) = k
         /\ \A i \in K : Rank(K, i) \in 1 .. Cardinality(K) /\ Nth(K, Rank(K, i)) = i
<1> DEFINE n == Cardinality(K)
           r == [i \in K |-> Rank(K, i)]
<1>1. n \in Nat BY FS_CardinalityType
<1>2. \A i, j \in K : i # j => Rank(K, i) # Rank(K, j)
  <2> TAKE i, j \in K
  <2> HAVE i # j
  <2>1. i \in Int /\ j \in Int OBVIOUS
  <2>2. Rank(K, i) \in Nat /\ Rank(K, j) \in Nat BY <2>1, RankType
  <2>3. CASE i < j BY <2>1, <2>2, <2>3, RankGrows
  <2>4. CASE j < i BY <2>1, <2>2, <2>4, RankGrows
  <2> QED BY <2>1, <2>3, <2>4
<1>3. \A i \in K : Rank(K, i) \in 1 .. n
  <2> TAKE i \in K
  <2>1. i \in Int OBVIOUS
  <2>2. Rank(K, i) \in Nat /\ Rank(K, i) <= n BY <2>1, RankType
  <2>3. i \in {j \in K : j <= i} BY <2>1
  <2>4. IsFiniteSet({j \in K : j <= i})
    <3>1. {j \in K : j <= i} \in SUBSET K OBVIOUS
    <3> QED BY <3>1, FS_Subset
  <2>5. Rank(K, i) # 0 BY <2>3, <2>4, FS_EmptySet DEF Rank
  <2> QED BY <1>1, <2>2, <2>5
<1>4. \A k \in 1 .. n : \E i \in K : Rank(K, i) = k
  <2>1. r \in [K -> 1 .. n] BY <1>3
  <2>2. \A i, j \in K : r[i] = r[j] => i = j BY <1>2
  <2> HIDE DEF r
  <2>3. r \in Injection(K, 1 .. n) BY <2>1, <2>2 DEF Injection, IsInjective
  <2>4. IsFiniteSet(1 .. n) /\ Cardinality(1 .. n) = n
    <3>1. 1 \in Int /\ n \in Int BY <1>1
    <3>2. IsFiniteSet(1 .. n) /\ Cardinality(1 .. n) = IF 1 > n THEN 0 ELSE n - 1 + 1
      BY <3>1, FS_Interval
    <3> QED BY <1>1, <3>2
  <2>5. r \in Surjection(K, 1 .. n)
    <3>1. Cardinality(K) = Cardinality(1 .. n) BY <2>4
    <3> HIDE DEF n
    <3> QED BY <2>3, <2>4, <3>1, FS_Injection
  <2>6. \A k \in 1 .. n : \E i \in K : r[i] = k BY <2>5 DEF Surjection
  <2> QED BY <2>6 DEF r
<1>5. \A k \in 1 .. n : Nth(K, k) \in K /\ Rank(K, Nth(K, k)) = k BY <1>4 DEF Nth
<1>6. \A i \in K : Nth(K, Rank(K, i)) = i BY <1>2, <1>3, <1>5
<1> QED BY <1>3, <1>5, <1>6

(* The entries of a sequence at some places are as many as the places.     *)
LEMMA AtPlacesFacts ==
  ASSUME NEW S, NEW s \in Seq(S), NEW K \in SUBSET DOMAIN s
  PROVE  /\ IsFiniteSet(K) /\ Cardinality(K) \in Nat
         /\ AtPlaces(s, K) \in Seq(S) /\ Len(AtPlaces(s, K)) = Cardinality(K)
         /\ \A k \in 1 .. Cardinality(K) :
              Nth(K, k) \in K /\ AtPlaces(s, K)[k] = s[Nth(K, k)]
<1>1. Len(s) \in Nat /\ DOMAIN s = 1 .. Len(s) /\ s \in [1 .. Len(s) -> S] OBVIOUS
<1>2. IsFiniteSet(1 .. Len(s)) BY <1>1, FS_Interval
<1>3. IsFiniteSet(K) BY <1>1, <1>2, FS_Subset
<1>4. Cardinality(K) \in Nat BY <1>3, FS_CardinalityType
<1>5. K \in SUBSET Int BY <1>1
<1>6. \A k \in 1 .. Cardinality(K) : Nth(K, k) \in K BY <1>3, <1>5, NthFacts
<1>7. \A k \in 1 .. Cardinality(K) : s[Nth(K, k)] \in S BY <1>1, <1>6
<1>8. AtPlaces(s, K) \in [1 .. Cardinality(K) -> S] BY <1>7 DEF AtPlaces
<1>9. AtPlaces(s, K) \in Seq(S) /\ Len(AtPlaces(s, K)) = Cardinality(K) BY <1>4, <1>8
<1> QED BY <1>3, <1>4, <1>6, <1>9 DEF AtPlaces

LEMMA NthGrows ==
  ASSUME NEW K \in SUBSET Int, IsFiniteSet(K),
         NEW k \in 1 .. Cardinality(K), NEW l \in 1 .. Cardinality(K), k < l
  PROVE  Nth(K, k) < Nth(K, l)
<1>1. /\ Nth(K, k) \in K /\ Rank(K, Nth(K, k)) = k
      /\ Nth(K, l) \in K /\ Rank(K, Nth(K, l)) = l
  BY NthFacts
<1>2. PICK i \in K : i = Nth(K, k) BY <1>1
<1>3. PICK j \in K : j = Nth(K, l) BY <1>1
<1>4. i \in Int /\ j \in Int OBVIOUS
<1>5. Cardinality(K) \in Nat BY FS_CardinalityType
<1>6. ~(j < i)
  <2> SUFFICES ASSUME j < i PROVE FALSE OBVIOUS
  <2>1. Rank(K, j) < Rank(K, i) BY <1>4, RankGrows
  <2> QED BY <1>1, <1>2, <1>3, <1>5, <2>1
<1>7. i # j BY <1>1, <1>2, <1>3, <1>5
<1> QED BY <1>2, <1>3, <1>4, <1>6, <1>7

(* A greater number comes last, and leaves the others where they are.      *)
LEMMA NthBehind ==
  ASSUME NEW K \in SUBSET Int, IsFiniteSet(K), NEW m \in Int, \A j \in K : j < m
  PROVE  LET L == K \cup {m}
         IN  /\ IsFiniteSet(L) /\ Cardinality(L) = Cardinality(K) + 1
             /\ \A k \in 1 .. Cardinality(K) : Nth(L, k) = Nth(K, k)
             /\ Nth(L, Cardinality(K) + 1) = m
<1> DEFINE L == K \cup {m}
<1>1. m \notin K OBVIOUS
<1>2. IsFiniteSet(L) /\ Cardinality(L) = Cardinality(K) + 1 BY <1>1, FS_AddElement
<1>3. L \in SUBSET Int OBVIOUS
<1>4. \A i \in L : Nth(L, Rank(L, i)) = i
  <2> HIDE DEF L
  <2> QED BY <1>2, <1>3, NthFacts
<1>5. ASSUME NEW k \in 1 .. Cardinality(K) PROVE Nth(L, k) = Nth(K, k)
  <2>1. Nth(K, k) \in K /\ Rank(K, Nth(K, k)) = k BY NthFacts
  <2>2. PICK i \in K : i = Nth(K, k) BY <2>1
  <2>3. {j \in L : j <= i} = {j \in K : j <= i}
    <3>1. i \in Int /\ i < m OBVIOUS
    <3>2. ~(m <= i) BY <3>1
    <3> QED BY <3>2
  <2>4. Rank(L, i) = k BY <2>1, <2>2, <2>3 DEF Rank
  <2>5. i \in L OBVIOUS
  <2> HIDE DEF L
  <2> QED BY <1>4, <2>2, <2>4, <2>5
<1>6. Nth(L, Cardinality(K) + 1) = m
  <2>1. {j \in L : j <= m} = L
    <3>1. \A j \in K : j \in Int /\ j < m OBVIOUS
    <3>2. \A j \in K : j <= m BY <3>1
    <3>3. m <= m OBVIOUS
    <3> QED BY <3>2, <3>3
  <2>2. Rank(L, m) = Cardinality(K) + 1 BY <1>2, <2>1 DEF Rank
  <2>3. m \in L OBVIOUS
  <2> HIDE DEF L
  <2> QED BY <1>4, <2>2, <2>3
<1> QED BY <1>2, <1>5, <1>6

(* So the entry at a greater place comes last.                             *)
LEMMA AtPlacesBehind ==
  ASSUME NEW S, NEW s \in Seq(S), NEW K \in SUBSET DOMAIN s,
         NEW m \in DOMAIN s, \A j \in K : j < m
  PROVE  AtPlaces(s, K \cup {m}) = Append(AtPlaces(s, K), s[m])
<1> DEFINE L == K \cup {m}
           A == AtPlaces(s, K)
           B == AtPlaces(s, L)
           n == Cardinality(K)
<1>1. Len(s) \in Nat /\ DOMAIN s = 1 .. Len(s) BY LenProperties
<1>2. L \in SUBSET DOMAIN s /\ K \in SUBSET Int /\ m \in Int BY <1>1
<1>3. /\ IsFiniteSet(K) /\ n \in Nat /\ A \in Seq(S) /\ Len(A) = n
      /\ \A k \in 1 .. n : A[k] = s[Nth(K, k)]
  BY AtPlacesFacts
<1>4. /\ Cardinality(L) = n + 1
      /\ \A k \in 1 .. n : Nth(L, k) = Nth(K, k)
      /\ Nth(L, n + 1) = m
  BY <1>2, <1>3, NthBehind
<1>5. /\ B \in Seq(S) /\ Len(B) = n + 1
      /\ \A k \in 1 .. n + 1 : B[k] = s[Nth(L, k)]
  <2> HIDE DEF L
  <2> QED BY <1>2, <1>4, AtPlacesFacts
<1>6. s[m] \in S BY <1>1
<1> HIDE DEF A, B, L, n
<1>7. /\ Append(A, s[m]) \in Seq(S) /\ Len(Append(A, s[m])) = n + 1
      /\ \A i \in 1 .. n : Append(A, s[m])[i] = A[i]
      /\ Append(A, s[m])[n + 1] = s[m]
  BY <1>3, <1>6, AppendProperties
<1>8. \A k \in 1 .. n + 1 : B[k] = Append(A, s[m])[k]
  <2> TAKE k \in 1 .. n + 1
  <2>1. CASE k = n + 1 BY <1>3, <1>4, <1>5, <1>7, <2>1
  <2>2. CASE k # n + 1
    <3>1. k \in 1 .. n BY <1>3, <2>2
    <3> QED BY <1>3, <1>4, <1>5, <1>7, <3>1
  <2> QED BY <2>1, <2>2
<1>9. B = Append(A, s[m]) BY <1>5, <1>7, <1>8, SeqEqual
<1> QED BY <1>9 DEF A, B, L

(* The numbers below a bound are the first of their set.                   *)
LEMMA NthFront ==
  ASSUME NEW K \in SUBSET Int, IsFiniteSet(K), NEW m \in Int
  PROVE  LET L == {j \in K : j < m}
         IN  /\ IsFiniteSet(L) /\ Cardinality(L) \in 0 .. Cardinality(K)
             /\ \A k \in 1 .. Cardinality(L) : Nth(L, k) = Nth(K, k)
<1> DEFINE L == {j \in K : j < m}
<1>1. L \in SUBSET K OBVIOUS
<1>2. IsFiniteSet(L) /\ Cardinality(L) <= Cardinality(K)
  <2> HIDE DEF L
  <2> QED BY <1>1, FS_Subset
<1>3. Cardinality(L) \in Nat /\ Cardinality(K) \in Nat
  <2> HIDE DEF L
  <2> QED BY <1>2, FS_CardinalityType
<1>4. L \in SUBSET Int OBVIOUS
<1>5. ASSUME NEW k \in 1 .. Cardinality(L) PROVE Nth(L, k) = Nth(K, k)
  <2>1. Nth(L, k) \in L /\ Rank(L, Nth(L, k)) = k
    <3> HIDE DEF L
    <3> QED BY <1>2, <1>4, NthFacts
  <2>2. PICK i \in L : i = Nth(L, k) BY <2>1
  <2>3. {j \in K : j <= i} = {j \in L : j <= i}
    <3>1. \A j \in K : j <= i => j < m
      <4> TAKE j \in K
      <4>1. i \in Int /\ j \in Int /\ i < m BY <2>2
      <4> QED BY <4>1
    <3> QED BY <3>1
  <2>4. Rank(K, i) = k BY <2>1, <2>2, <2>3 DEF Rank
  <2>5. Nth(K, Rank(K, i)) = i BY <1>1, <2>2, NthFacts
  <2> QED BY <2>2, <2>4, <2>5
<1> HIDE DEF L
<1>6. Cardinality(L) \in 0 .. Cardinality(K) BY <1>2, <1>3
<1> QED BY <1>2, <1>5, <1>6 DEF L

LEMMA AtPlacesFront ==
  ASSUME NEW S, NEW s \in Seq(S), NEW K \in SUBSET DOMAIN s, NEW m \in Int
  PROVE  LET L == {j \in K : j < m}
         IN  /\ Cardinality(L) \in 0 .. Len(AtPlaces(s, K))
             /\ AtPlaces(s, L) = SubSeq(AtPlaces(s, K), 1, Cardinality(L))
<1> DEFINE L == {j \in K : j < m}
           A == AtPlaces(s, K)
           B == AtPlaces(s, L)
           n == Cardinality(L)
<1>1. Len(s) \in Nat /\ DOMAIN s = 1 .. Len(s) BY LenProperties
<1>2. L \in SUBSET DOMAIN s /\ K \in SUBSET Int BY <1>1
<1>3. /\ IsFiniteSet(K) /\ A \in Seq(S) /\ Len(A) = Cardinality(K)
      /\ Cardinality(K) \in Nat
      /\ \A k \in 1 .. Cardinality(K) : A[k] = s[Nth(K, k)]
  BY AtPlacesFacts
<1>4. n \in 0 .. Cardinality(K) /\ \A k \in 1 .. n : Nth(L, k) = Nth(K, k)
  BY <1>2, <1>3, NthFront
<1> HIDE DEF L
<1>5. /\ B \in Seq(S) /\ Len(B) = n
      /\ \A k \in 1 .. n : B[k] = s[Nth(L, k)]
  BY <1>2, AtPlacesFacts
<1> HIDE DEF A, B, n
<1>6. n \in Nat /\ n <= Len(A) BY <1>3, <1>4
<1>7. /\ SubSeq(A, 1, n) \in Seq(S) /\ Len(SubSeq(A, 1, n)) = n
      /\ \A i \in 1 .. n : SubSeq(A, 1, n)[i] = A[i]
  <2>1. /\ SubSeq(A, 1, n) \in Seq(S)
        /\ Len(SubSeq(A, 1, n)) = IF 1 <= n THEN n - 1 + 1 ELSE 0
        /\ \A i \in 1 .. n - 1 + 1 : SubSeq(A, 1, n)[i] = A[1 + i - 1]
    BY <1>3, <1>6, SubSeqProperties
  <2>2. n - 1 + 1 = n /\ \A i \in 1 .. n : 1 + i - 1 = i BY <1>6
  <2>3. ~(1 <= n) => n = 0 BY <1>6
  <2> QED BY <2>1, <2>2, <2>3
<1>8. \A i \in 1 .. n : B[i] = SubSeq(A, 1, n)[i]
  <2> TAKE i \in 1 .. n
  <2>1. i \in 1 .. Cardinality(K) BY <1>3, <1>4
  <2> QED BY <1>3, <1>4, <1>5, <1>7, <2>1
<1>9. B = SubSeq(A, 1, n) BY <1>5, <1>7, <1>8, SeqEqual
<1> QED BY <1>3, <1>4, <1>9 DEF A, B, L, n

(* Of a sequence whose entries differ, those at some places differ.        *)
Different(s) == \A i, j \in DOMAIN s : s[i] = s[j] => i = j

LEMMA AtPlacesDifferent ==
  ASSUME NEW S, NEW s \in Seq(S), NEW K \in SUBSET DOMAIN s, Different(s)
  PROVE  Different(AtPlaces(s, K))
<1> DEFINE A == AtPlaces(s, K)
           n == Cardinality(K)
<1>1. Len(s) \in Nat /\ DOMAIN s = 1 .. Len(s) BY LenProperties
<1>2. K \in SUBSET Int BY <1>1
<1>3. /\ IsFiniteSet(K) /\ A \in Seq(S) /\ Len(A) = n /\ n \in Nat
      /\ \A k \in 1 .. n : Nth(K, k) \in K /\ A[k] = s[Nth(K, k)]
  BY AtPlacesFacts
<1>a. \A k \in 1 .. n : Rank(K, Nth(K, k)) = k BY <1>2, <1>3, NthFacts
<1> HIDE DEF A, n
<1>4. ASSUME NEW i \in 1 .. n, NEW j \in 1 .. n, A[i] = A[j] PROVE i = j
  <2>1. Nth(K, i) = Nth(K, j) BY <1>3, <1>4 DEF Different
  <2>2. i = Rank(K, Nth(K, i)) /\ j = Rank(K, Nth(K, j)) BY <1>a
  <2> QED BY <2>1, <2>2
<1>5. DOMAIN A = 1 .. n BY <1>3, LenProperties
<1> QED BY <1>4, <1>5 DEF Different, A

(***************************************************************************)
(* A sequence cut at some places.                                          *)
(***************************************************************************)

LEMMA PiecesFacts ==
  ASSUME NEW S, NEW s \in Seq(S), NEW K \in SUBSET DOMAIN s
  PROVE  /\ IsFiniteSet(K) /\ Cardinality(K) \in Nat
         /\ Pieces(s, K) \in Seq(Seq(S)) /\ Len(Pieces(s, K)) = Cardinality(K)
         /\ DOMAIN Pieces(s, K) = 1 .. Cardinality(K)
         /\ \A k \in 1 .. Cardinality(K) :
              /\ Nth(K, k) \in K
              /\ Pieces(s, K)[k] \in Seq(S) /\ Pieces(s, K)[k] # <<>>
              /\ Head(Pieces(s, K)[k]) = s[Nth(K, k)]
<1> DEFINE n == Cardinality(K)
           last(k) == IF k = n THEN Len(s) ELSE Nth(K, k + 1) - 1
<1>1. Len(s) \in Nat /\ DOMAIN s = 1 .. Len(s) BY LenProperties
<1>2. IsFiniteSet(K) /\ n \in Nat BY AtPlacesFacts
<1>3. K \in SUBSET Int BY <1>1
<1>4. ASSUME NEW k \in 1 .. n
      PROVE  /\ Nth(K, k) \in K
             /\ SubSeq(s, Nth(K, k), last(k)) \in Seq(S)
             /\ SubSeq(s, Nth(K, k), last(k)) # <<>>
             /\ Head(SubSeq(s, Nth(K, k), last(k))) = s[Nth(K, k)]
  <2>1. Nth(K, k) \in K BY <1>2, <1>3, NthFacts
  <2>2. PICK a \in 1 .. Len(s) : a = Nth(K, k) BY <1>1, <2>1
  <2>3. PICK b \in a .. Len(s) : b = last(k)
    <3>1. CASE k = n
      <4>1. Len(s) \in a .. Len(s) BY <1>1
      <4> QED BY <3>1, <4>1
    <3>2. CASE k # n
      <4>1. k + 1 \in 1 .. n /\ k < k + 1 BY <1>2, <3>2
      <4>2. Nth(K, k) < Nth(K, k + 1) /\ Nth(K, k + 1) \in K
        <5>1. Nth(K, k + 1) \in K BY <1>2, <1>3, <4>1, NthFacts
        <5>2. Nth(K, k) < Nth(K, k + 1)
          <6> HIDE DEF n
          <6>1. k \in 1 .. Cardinality(K) /\ k + 1 \in 1 .. Cardinality(K) BY <4>1 DEF n
          <6> QED BY <1>2, <1>3, <4>1, <6>1, NthGrows
        <5> QED BY <5>1, <5>2
      <4>3. PICK c \in 1 .. Len(s) : c = Nth(K, k + 1) BY <1>1, <4>2
      <4>4. c - 1 \in a .. Len(s) BY <1>1, <2>2, <4>2, <4>3
      <4> QED BY <3>2, <4>3, <4>4
    <3> QED BY <3>1, <3>2
  <2> HIDE DEF last, n
  <2>4. \A i \in a .. b : s[i] \in S BY <1>1
  <2>5. a \in Int /\ b \in Int /\ a <= b BY <1>1
  <2>6. SubSeq(s, a, b) \in Seq(S) /\ Len(SubSeq(s, a, b)) = b - a + 1
    BY <2>4, <2>5, SubSeqProperties
  <2>7. SubSeq(s, a, b) # <<>>
    <3>1. b - a + 1 # 0 BY <2>5
    <3>2. SubSeq(s, a, b) = <<>> => Len(SubSeq(s, a, b)) = 0 OBVIOUS
    <3> QED BY <2>6, <3>1, <3>2
  <2>8. Head(SubSeq(s, a, b)) = s[a] BY HeadTailOfSubSeq
  <2> QED BY <2>1, <2>2, <2>3, <2>6, <2>7, <2>8
<1>5. Pieces(s, K) = [k \in 1 .. n |-> SubSeq(s, Nth(K, k), last(k))] BY DEF Pieces
<1> HIDE DEF n, last
<1>6. Pieces(s, K) \in [1 .. n -> Seq(S)] BY <1>4, <1>5
<1>7. Pieces(s, K) \in Seq(Seq(S)) /\ Len(Pieces(s, K)) = n BY <1>2, <1>6
<1>8. \A k \in 1 .. n : Pieces(s, K)[k] = SubSeq(s, Nth(K, k), last(k)) BY <1>5
<1> QED BY <1>2, <1>4, <1>6, <1>7, <1>8 DEF n

(* Only the first entry of a piece is at one of the places.                *)
LEMMA PiecesInside ==
  ASSUME NEW S, NEW s \in Seq(S), NEW K \in SUBSET DOMAIN s,
         NEW k \in 1 .. Cardinality(K), NEW i \in 2 .. Len(Pieces(s, K)[k])
  PROVE  \E j \in DOMAIN s \ K : Pieces(s, K)[k][i] = s[j]
<1> DEFINE n == Cardinality(K)
           last == IF k = n THEN Len(s) ELSE Nth(K, k + 1) - 1
           j == Nth(K, k) + i - 1
<1>1. Len(s) \in Nat /\ DOMAIN s = 1 .. Len(s) BY LenProperties
<1>2. IsFiniteSet(K) /\ n \in Nat BY AtPlacesFacts
<1>3. K \in SUBSET Int BY <1>1
<1>4. Nth(K, k) \in K /\ Rank(K, Nth(K, k)) = k BY <1>2, <1>3, NthFacts
<1>5. Nth(K, k) \in 1 .. Len(s) BY <1>1, <1>4
<1>6. /\ last \in Int /\ last <= Len(s)
      /\ \A x \in K : ~(Nth(K, k) < x /\ x <= last)
  <2>1. CASE k = n
    <3> SUFFICES ASSUME NEW x \in K, Nth(K, k) < x PROVE FALSE BY <1>1, <2>1
    <3>1. Nth(K, k) \in Int /\ x \in Int BY <1>3, <1>4
    <3>2. Rank(K, Nth(K, k)) < Rank(K, x) BY <1>2, <1>3, <3>1, RankGrows
    <3>3. Rank(K, x) \in Nat /\ Rank(K, x) <= n BY <1>2, <3>1, RankType
    <3> QED BY <1>2, <1>4, <2>1, <3>2, <3>3
  <2>2. CASE k # n
    <3>1. k + 1 \in 1 .. n BY <1>2, <2>2
    <3>2. Nth(K, k + 1) \in K /\ Rank(K, Nth(K, k + 1)) = k + 1
      BY <1>2, <1>3, <3>1, NthFacts
    <3>3. PICK e \in 1 .. Len(s) : e = Nth(K, k + 1) BY <1>1, <3>2
    <3>4. last = e - 1 BY <2>2, <3>3
    <3>5. ASSUME NEW x \in K, Nth(K, k) < x, x <= last PROVE FALSE
      <4>1. Nth(K, k) \in Int /\ x \in Int /\ e \in K BY <1>3, <1>4, <3>2, <3>3
      <4>2. x < e BY <3>4, <3>5, <4>1
      <4>3. Rank(K, Nth(K, k)) < Rank(K, x) BY <1>2, <1>3, <3>5, <4>1, RankGrows
      <4>4. Rank(K, x) < Rank(K, e) BY <1>2, <1>3, <4>1, <4>2, RankGrows
      <4>5. Rank(K, x) \in Nat BY <1>2, <4>1, RankType
      <4>6. k < Rank(K, x) /\ Rank(K, x) < k + 1 BY <1>4, <3>2, <3>3, <4>3, <4>4
      <4> HIDE DEF n
      <4> QED BY <4>5, <4>6
    <3> QED BY <1>1, <3>4, <3>5
  <2> QED BY <2>1, <2>2
<1>7. Pieces(s, K)[k] = SubSeq(s, Nth(K, k), last) BY DEF Pieces
<1> HIDE DEF last, n
<1>8. PICK a \in 1 .. Len(s) : a = Nth(K, k) BY <1>5
<1>9. /\ Len(SubSeq(s, a, last)) = (IF a <= last THEN last - a + 1 ELSE 0)
      /\ \A x \in 1 .. last - a + 1 : SubSeq(s, a, last)[x] = s[a + x - 1]
  <2>1. \A x \in a .. last : s[x] \in S BY <1>1, <1>6
  <2>2. a \in Int /\ last \in Int BY <1>6
  <2> QED BY <2>1, <2>2, SubSeqProperties
<1>10. i \in 2 .. Len(SubSeq(s, a, last)) BY <1>7, <1>8
<1>11. i \in 2 .. last - a + 1 BY <1>6, <1>9, <1>10
<1>12. a + i - 1 \in a + 1 .. last /\ i \in 1 .. last - a + 1 BY <1>6, <1>11
<1>13. a + i - 1 \in DOMAIN s BY <1>1, <1>6, <1>12
<1>14. a + i - 1 \notin K
  <2>1. a < a + i - 1 /\ a + i - 1 <= last BY <1>6, <1>12
  <2> QED BY <1>6, <1>8, <2>1
<1>15. Pieces(s, K)[k][i] = s[a + i - 1] BY <1>7, <1>8, <1>9, <1>12
<1> QED BY <1>13, <1>14, <1>15

(* What is put behind a sequence, and cut off it, is its last piece.       *)
LEMMA PiecesBehind ==
  ASSUME NEW S, NEW s \in Seq(S), NEW t \in Seq(S), t # <<>>,
         NEW K \in SUBSET DOMAIN s
  PROVE  Pieces(s \o t, K \cup {Len(s) + 1}) = Append(Pieces(s, K), t)
<1> DEFINE n == Cardinality(K)
           m == Len(s) + 1
           L == K \cup {m}
           P == Pieces(s, K)
           Q == Pieces(s \o t, L)
<1>1. Len(s) \in Nat /\ DOMAIN s = 1 .. Len(s) /\ Len(t) \in Nat /\ Len(t) # 0
  BY LenProperties, EmptySeq
<1>2. IsFiniteSet(K) /\ n \in Nat BY AtPlacesFacts
<1>3. K \in SUBSET Int /\ m \in Int /\ \A j \in K : j < m BY <1>1
<1>4. /\ Cardinality(L) = n + 1
      /\ \A k \in 1 .. n : Nth(L, k) = Nth(K, k)
      /\ Nth(L, n + 1) = m
  <2> HIDE DEF m
  <2> QED BY <1>2, <1>3, NthBehind
<1>5. s \o t \in Seq(S) /\ Len(s \o t) = Len(s) + Len(t) BY ConcatProperties
<1>6. P \in Seq(Seq(S)) /\ Len(P) = n BY PiecesFacts
<1>7. \A k \in 1 .. n + 1 : Q[k] = SubSeq(s \o t, Nth(L, k),
                                  IF k = n + 1 THEN Len(s \o t) ELSE Nth(L, k + 1) - 1)
  BY <1>4 DEF Pieces
<1>8. \A k \in 1 .. n : P[k] = SubSeq(s, Nth(K, k),
                                  IF k = n THEN Len(s) ELSE Nth(K, k + 1) - 1)
  BY DEF Pieces
<1>9. Q[n + 1] = t
  <2>1. n + 1 \in 1 .. n + 1 BY <1>2
  <2>2. Q[n + 1] = SubSeq(s \o t, m, Len(s) + Len(t)) BY <1>4, <1>5, <1>7, <2>1
  <2> DEFINE a == Len(s) + 1
             b == Len(s) + Len(t)
  <2>3. a \in Len(s) + 1 .. Len(s) + Len(t) /\ b \in Len(s) + 1 .. Len(s) + Len(t)
    BY <1>1
  <2>4. SubSeq(s \o t, a, b) = SubSeq(t, a - Len(s), b - Len(s)) BY <2>3, SubSeqOfConcat2
  <2>5. a - Len(s) = 1 /\ b - Len(s) = Len(t) BY <1>1
  <2>6. SubSeq(t, 1, Len(t)) = t BY SubSeqFull
  <2> QED BY <2>2, <2>4, <2>5, <2>6
<1>10. ASSUME NEW k \in 1 .. n PROVE Q[k] = P[k]
  <2>1. Nth(K, k) \in K BY <1>2, <1>3, NthFacts
  <2>2. PICK a \in 1 .. Len(s) : a = Nth(K, k) BY <1>1, <2>1
  <2>3. PICK b \in 1 .. Len(s) :
          /\ b = IF k = n THEN Len(s) ELSE Nth(K, k + 1) - 1
          /\ b = IF k = n + 1 THEN Len(s \o t) ELSE Nth(L, k + 1) - 1
    <3>1. k # n + 1 BY <1>2
    <3>2. CASE k = n
      <4>1. Nth(L, k + 1) - 1 = Len(s) BY <1>1, <1>4, <3>2
      <4>2. Len(s) \in 1 .. Len(s) BY <1>1, <2>2
      <4> QED BY <3>1, <3>2, <4>1, <4>2
    <3>3. CASE k # n
      <4>1. k + 1 \in 1 .. n BY <1>2, <3>3
      <4>2. Nth(L, k + 1) = Nth(K, k + 1) BY <1>4, <4>1
      <4>3. Nth(K, k) < Nth(K, k + 1) /\ Nth(K, k + 1) \in K
        <5>1. Nth(K, k + 1) \in K BY <1>2, <1>3, <4>1, NthFacts
        <5>2. k < k + 1 BY <1>2
        <5> QED BY <1>2, <1>3, <4>1, <5>1, <5>2, NthGrows
      <4>4. PICK c \in 1 .. Len(s) : c = Nth(K, k + 1) BY <1>1, <4>3
      <4>5. c - 1 \in 1 .. Len(s) BY <1>1, <2>2, <4>3, <4>4
      <4> QED BY <3>1, <3>3, <4>2, <4>4, <4>5
    <3> QED BY <3>2, <3>3
  <2>4. k \in 1 .. n + 1 BY <1>2
  <2> HIDE DEF n, L, m, P, Q
  <2>5. Q[k] = SubSeq(s \o t, a, b) BY <1>4, <1>7, <2>2, <2>3, <2>4
  <2>6. P[k] = SubSeq(s, a, b) BY <1>8, <2>2, <2>3
  <2>7. SubSeq(s \o t, a, b) = SubSeq(s, a, b) BY SubSeqOfConcat1
  <2> QED BY <2>5, <2>6, <2>7
<1>11. Q = [k \in 1 .. n + 1 |-> Q[k]]
  BY <1>4 DEF Pieces
<1> HIDE DEF P, Q
<1>12. Append(P, t) = [k \in 1 .. n + 1 |-> IF k = n + 1 THEN t ELSE P[k]]
  <2>1. Append(P, t) \in Seq(Seq(S)) /\ Len(Append(P, t)) = n + 1
        /\ \A i \in 1 .. n : Append(P, t)[i] = P[i]
        /\ Append(P, t)[n + 1] = t
    BY <1>6, AppendProperties
  <2>2. Append(P, t) \in [1 .. n + 1 -> Seq(S)] BY <2>1, LenProperties
  <2> DEFINE A == Append(P, t)
  <2>a. A \in [1 .. n + 1 -> Seq(S)] BY <2>2
  <2> HIDE DEF A
  <2>b. A = [k \in 1 .. n + 1 |-> A[k]] BY <2>a
  <2>3. Append(P, t) = [k \in 1 .. n + 1 |-> Append(P, t)[k]] BY <2>b DEF A
  <2>4. ASSUME NEW k \in 1 .. n + 1 PROVE Append(P, t)[k] = IF k = n + 1 THEN t ELSE P[k]
    <3>1. CASE k = n + 1 BY <2>1, <3>1
    <3>2. CASE k # n + 1
      <4>1. k \in 1 .. n BY <1>2, <3>2
      <4> QED BY <2>1, <3>2, <4>1
    <3> QED BY <3>1, <3>2
  <2> QED BY <2>3, <2>4
<1>13. \A k \in 1 .. n + 1 : Q[k] = IF k = n + 1 THEN t ELSE P[k]
  <2> TAKE k \in 1 .. n + 1
  <2>1. CASE k = n + 1 BY <1>9, <2>1
  <2>2. CASE k # n + 1
    <3>1. k \in 1 .. n BY <1>2, <2>2
    <3> QED BY <1>10, <2>2, <3>1
  <2> QED BY <2>1, <2>2
<1>14. Q = Append(P, t) BY <1>11, <1>12, <1>13
<1> QED BY <1>14 DEF P, Q

-----------------------------------------------------------------------------
(***************************************************************************)
(* What ReadMaildrop makes of a file, and WriteMail of it.                 *)
(***************************************************************************)
Heads(f) == {i \in DOMAIN f : f[i].head}

\* A mail that ReadMaildrop reads back as it is.
WellMade(m) == m.from.head /\ \A i \in DOMAIN m.lines : ~ m.lines[i].head

(* The mails of a file are the pieces between the first lines in it.       *)
LEMMA MaildropFacts ==
  ASSUME NEW f \in Seq(Line)
  PROVE  /\ Cardinality(Heads(f)) \in Nat
         /\ ReadMaildrop(f) \in Seq(Mail)
         /\ Len(ReadMaildrop(f)) = Cardinality(Heads(f))
         /\ \A k \in 1 .. Cardinality(Heads(f)) :
              /\ Nth(Heads(f), k) \in Heads(f)
              /\ ReadMaildrop(f)[k].from = f[Nth(Heads(f), k)]
              /\ WellMade(ReadMaildrop(f)[k])
<1> DEFINE K == Heads(f)
           P == Pieces(f, K)
           n == Cardinality(K)
           R == ReadMaildrop(f)
<1>1. K \in SUBSET DOMAIN f BY DEF Heads
<1> HIDE DEF K
<1>2. /\ n \in Nat /\ DOMAIN P = 1 .. n
      /\ \A k \in 1 .. n : /\ Nth(K, k) \in K
                           /\ P[k] \in Seq(Line) /\ P[k] # <<>>
                           /\ Head(P[k]) = f[Nth(K, k)]
  BY <1>1, PiecesFacts
<1>3. \A k \in 1 .. n : \A i \in 2 .. Len(P[k]) : \E j \in DOMAIN f \ K : P[k][i] = f[j]
  BY <1>1, PiecesInside
<1>4. R = [k \in 1 .. n |-> [from |-> Head(P[k]), lines |-> Tail(P[k])]]
  BY <1>2 DEF ReadMaildrop, K, Heads
<1> HIDE DEF P, R, n
<1>5. ASSUME NEW k \in 1 .. n
      PROVE  /\ R[k] \in Mail /\ R[k].from = f[Nth(K, k)] /\ WellMade(R[k])
  <2>1. R[k].from = Head(P[k]) /\ R[k].lines = Tail(P[k]) BY <1>4
  <2>2. /\ Head(P[k]) \in Line /\ Tail(P[k]) \in Seq(Line)
        /\ Len(Tail(P[k])) = Len(P[k]) - 1
        /\ \A i \in 1 .. Len(Tail(P[k])) : Tail(P[k])[i] = P[k][i + 1]
    BY <1>2, HeadTailProperties
  <2>3. R[k] \in Mail BY <1>4, <2>2 DEF Mail
  <2>4. f[Nth(K, k)].head BY <1>2 DEF K, Heads
  <2>5. ASSUME NEW i \in DOMAIN Tail(P[k]) PROVE ~ Tail(P[k])[i].head
    <3>1. i \in 1 .. Len(Tail(P[k])) BY <2>2, LenProperties
    <3>2. Len(P[k]) \in Nat BY <1>2, LenProperties
    <3>3. i + 1 \in 2 .. Len(P[k]) BY <2>2, <3>1, <3>2
    <3>4. PICK j \in DOMAIN f \ K : P[k][i + 1] = f[j] BY <1>3, <3>3
    <3>5. ~ f[j].head BY <3>4 DEF K, Heads
    <3> QED BY <2>2, <3>1, <3>4, <3>5
  <2> QED BY <1>2, <2>1, <2>3, <2>4, <2>5 DEF WellMade
<1>6. R \in [1 .. n -> Mail] BY <1>4, <1>5
<1>7. R \in Seq(Mail) /\ Len(R) = n BY <1>2, <1>6
<1> QED BY <1>2, <1>5, <1>7 DEF K, R, n

(* An empty file has no mail.                                              *)
LEMMA EmptyFile == <<>> \in Seq(Line) /\ ReadMaildrop(<<>>) = <<>>
<1>1. <<>> \in Seq(Line) OBVIOUS
<1>2. Heads(<<>>) = {} BY DEF Heads
<1>3. Cardinality({}) = 0 BY FS_EmptySet
<1>4. ReadMaildrop(<<>>) \in Seq(Mail) /\ Len(ReadMaildrop(<<>>)) = 0
  BY <1>1, <1>2, <1>3, MaildropFacts
<1> QED BY <1>1, <1>4, EmptySeq

(* The mails that SMTP writes are such.                                    *)
LEMMA PlainMailFacts ==
  ASSUME NEW n \in Nat, NEW k \in Nat
  PROVE  /\ PlainMail(n, k) \in Mail /\ WellMade(PlainMail(n, k))
         /\ PlainMail(n, k).from = FirstLine(n) /\ PlainMail(n, k).from.of = n
         /\ PlainMail(n, k).lines \in Seq(Line) /\ Len(PlainMail(n, k).lines) = k
         /\ PlainMail(n, k) = [from |-> FirstLine(n), lines |-> PlainMail(n, k).lines]
<1> DEFINE L == [i \in 1 .. k |-> [of |-> n, at |-> i, head |-> FALSE]]
<1>1. L \in [1 .. k -> Line] BY DEF Line
<1>2. L \in Seq(Line) /\ Len(L) = k BY <1>1
<1>3. FirstLine(n) \in Line /\ FirstLine(n).head /\ FirstLine(n).of = n BY DEF FirstLine, Line
<1>4. \A i \in DOMAIN L : ~ L[i].head OBVIOUS
<1>5. PlainMail(n, k) = [from |-> FirstLine(n), lines |-> L] BY DEF PlainMail
<1> HIDE DEF L
<1>6. [from |-> FirstLine(n), lines |-> L] \in Mail BY <1>2, <1>3 DEF Mail
<1>7. WellMade([from |-> FirstLine(n), lines |-> L]) BY <1>3, <1>4 DEF WellMade
<1> QED BY <1>2, <1>3, <1>5, <1>6, <1>7

LEMMA WrittenType ==
  ASSUME NEW f \in Seq(Line), NEW m \in Mail
  PROVE  WriteMail(f, m) \in Seq(Line)
<1>1. m.from \in Line /\ m.lines \in Seq(Line) BY DEF Mail
<1>2. <<m.from>> \in Seq(Line) BY <1>1
<1>3. f \o <<m.from>> \in Seq(Line) BY <1>2, ConcatProperties
<1> QED BY <1>1, <1>3, ConcatProperties DEF WriteMail

(* A mail is read back from behind those that were there.                  *)
LEMMA WrittenBehind ==
  ASSUME NEW f \in Seq(Line), NEW m \in Mail, WellMade(m)
  PROVE  /\ WriteMail(f, m) \in Seq(Line)
         /\ ReadMaildrop(WriteMail(f, m)) = Append(ReadMaildrop(f), m)
<1> DEFINE t == <<m.from>> \o m.lines
           g == f \o t
           K == Heads(f)
           L == K \cup {Len(f) + 1}
<1>1. m.from \in Line /\ m.lines \in Seq(Line) /\ m = [from |-> m.from, lines |-> m.lines]
  BY DEF Mail
<1>2. <<m.from>> \in Seq(Line) /\ Len(<<m.from>>) = 1 /\ <<m.from>>[1] = m.from BY <1>1
<1>3. /\ t \in Seq(Line) /\ Len(t) = 1 + Len(m.lines)
      /\ \A i \in 1 .. 1 + Len(m.lines) : t[i] = IF i <= 1 THEN <<m.from>>[i] ELSE m.lines[i - 1]
  BY <1>1, <1>2, ConcatProperties
<1>4. Len(m.lines) \in Nat /\ DOMAIN m.lines = 1 .. Len(m.lines) BY <1>1, LenProperties
<1>5. t[1] = m.from /\ \A i \in 2 .. Len(t) : ~ t[i].head
  <2>1. t[1] = m.from
    <3>1. 1 \in 1 .. 1 + Len(m.lines) /\ 1 <= 1 BY <1>4
    <3> HIDE DEF t
    <3> QED BY <1>2, <1>3, <3>1
  <2>2. ASSUME NEW i \in 2 .. Len(t) PROVE ~ t[i].head
    <3> HIDE DEF t
    <3>1. i \in 1 .. 1 + Len(m.lines) /\ ~(i <= 1) /\ i - 1 \in 1 .. Len(m.lines) BY <1>3, <1>4
    <3>2. t[i] = m.lines[i - 1] BY <1>3, <3>1
    <3> QED BY <1>4, <3>1, <3>2 DEF WellMade
  <2> QED BY <2>1, <2>2
<1>6. t # <<>> /\ Head(t) = m.from /\ Tail(t) = m.lines
  <2>1. t # <<>> BY <1>3, <1>4
  <2>2. Head(t) = t[1] BY <1>3, <2>1
  <2>3. /\ Tail(t) \in Seq(Line) /\ Len(Tail(t)) = Len(t) - 1
        /\ \A i \in 1 .. Len(Tail(t)) : Tail(t)[i] = t[i + 1]
    BY <1>3, <2>1, HeadTailProperties
  <2> HIDE DEF t
  <2>4. Len(Tail(t)) = Len(m.lines) BY <1>3, <1>4, <2>3
  <2>5. \A i \in 1 .. Len(m.lines) : t[i + 1] = m.lines[i]
    <3> TAKE i \in 1 .. Len(m.lines)
    <3>1. i + 1 \in 1 .. 1 + Len(m.lines) /\ ~(i + 1 <= 1) /\ (i + 1) - 1 = i BY <1>4
    <3> QED BY <1>3, <3>1
  <2>6. Tail(t) = m.lines BY <1>1, <2>3, <2>4, <2>5, SeqEqual
  <2> QED BY <1>5, <2>1, <2>2, <2>6
<1> HIDE DEF t
<1>7. Len(f) \in Nat /\ DOMAIN f = 1 .. Len(f) /\ Len(t) \in Nat BY <1>3, LenProperties
<1>8. /\ g \in Seq(Line) /\ Len(g) = Len(f) + Len(t)
      /\ \A i \in 1 .. Len(f) + Len(t) : g[i] = IF i <= Len(f) THEN f[i] ELSE t[i - Len(f)]
  BY <1>3, ConcatProperties
<1>9. DOMAIN g = 1 .. Len(f) + Len(t) BY <1>8, LenProperties
<1> HIDE DEF g
<1>10. Heads(g) = L
  <2>1. ASSUME NEW i \in Heads(g) PROVE i \in L
    <3>1. i \in 1 .. Len(f) + Len(t) /\ g[i].head BY <1>9 DEF Heads
    <3>2. CASE i <= Len(f)
      <4>1. i \in 1 .. Len(f) /\ g[i] = f[i] BY <1>7, <1>8, <3>1, <3>2
      <4> QED BY <1>7, <3>1, <4>1 DEF Heads
    <3>3. CASE ~(i <= Len(f))
      <4>1. g[i] = t[i - Len(f)] /\ i - Len(f) \in 1 .. Len(t) BY <1>7, <1>8, <3>1, <3>3
      <4>2. i - Len(f) \notin 2 .. Len(t) BY <1>5, <3>1, <4>1
      <4>3. i = Len(f) + 1 BY <1>7, <3>1, <4>1, <4>2
      <4> QED BY <4>3
    <3> QED BY <3>2, <3>3
  <2>2. ASSUME NEW i \in K PROVE i \in Heads(g)
    <3>1. i \in 1 .. Len(f) /\ f[i].head BY <1>7 DEF Heads
    <3>2. i \in 1 .. Len(f) + Len(t) /\ i <= Len(f) BY <1>7, <3>1
    <3>3. g[i] = f[i] BY <1>8, <3>2
    <3> QED BY <1>9, <3>1, <3>2, <3>3 DEF Heads
  <2>3. Len(f) + 1 \in Heads(g)
    <3>1. Len(t) >= 1 BY <1>3, <1>4
    <3>2. Len(f) + 1 \in 1 .. Len(f) + Len(t) /\ ~(Len(f) + 1 <= Len(f)) BY <1>7, <3>1
    <3>3. (Len(f) + 1) - Len(f) = 1 BY <1>7
    <3>4. g[Len(f) + 1] = t[1] BY <1>8, <3>2, <3>3
    <3> QED BY <1>5, <1>9, <3>2, <3>4 DEF Heads, WellMade
  <2> QED BY <2>1, <2>2, <2>3
<1>11. Pieces(g, L) = Append(Pieces(f, K), t)
  <2>1. K \in SUBSET DOMAIN f BY DEF Heads
  <2> HIDE DEF K
  <2> QED BY <1>3, <1>6, <2>1, PiecesBehind DEF g
<1> DEFINE P == Pieces(f, K)
           n == Cardinality(K)
<1>12. /\ n \in Nat /\ P \in Seq(Seq(Line)) /\ Len(P) = n /\ DOMAIN P = 1 .. n
  <2>1. K \in SUBSET DOMAIN f BY DEF Heads
  <2> HIDE DEF K
  <2> QED BY <2>1, PiecesFacts
<1>13. /\ Append(P, t) \in Seq(Seq(Line)) /\ Len(Append(P, t)) = n + 1
       /\ \A i \in 1 .. n : Append(P, t)[i] = P[i]
       /\ Append(P, t)[n + 1] = t
  <2> HIDE DEF P
  <2> QED BY <1>3, <1>12, AppendProperties
<1> DEFINE R == ReadMaildrop(f)
<1>14. /\ R \in Seq(Mail) /\ Len(R) = n
       /\ \A k \in 1 .. n : R[k] = [from |-> Head(P[k]), lines |-> Tail(P[k])]
  <2>1. R \in Seq(Mail) /\ Len(R) = n BY MaildropFacts
  <2> QED BY <1>12, <2>1 DEF ReadMaildrop, Heads
<1>15. /\ Append(R, m) \in Seq(Mail) /\ Len(Append(R, m)) = n + 1
       /\ \A i \in 1 .. n : Append(R, m)[i] = R[i]
       /\ Append(R, m)[n + 1] = m
  <2> HIDE DEF R
  <2> QED BY <1>14, AppendProperties
<1>16. ReadMaildrop(g) \in Seq(Mail) /\ Len(ReadMaildrop(g)) = n + 1
  <2>1. ReadMaildrop(g) \in Seq(Mail) /\ Len(ReadMaildrop(g)) = Cardinality(Heads(g))
    BY <1>8, MaildropFacts
  <2>2. DOMAIN ReadMaildrop(g) = DOMAIN Append(P, t)
    BY <1>10, <1>11 DEF ReadMaildrop, Heads
  <2>3. DOMAIN Append(P, t) = 1 .. n + 1 BY <1>13, LenProperties
  <2>4. DOMAIN ReadMaildrop(g) = 1 .. Len(ReadMaildrop(g)) /\ Len(ReadMaildrop(g)) \in Nat
    BY <2>1, LenProperties
  <2> QED BY <1>12, <2>1, <2>2, <2>3, <2>4
<1>17. \A k \in 1 .. n + 1 : ReadMaildrop(g)[k] =
         [from |-> Head(Append(P, t)[k]), lines |-> Tail(Append(P, t)[k])]
  <2>1. DOMAIN Append(P, t) = 1 .. n + 1 BY <1>13, LenProperties
  <2>2. Pieces(g, {i \in DOMAIN g : g[i].head}) = Append(P, t) BY <1>10, <1>11 DEF Heads
  <2> HIDE DEF P, n
  <2> QED BY <2>1, <2>2 DEF ReadMaildrop
<1> HIDE DEF P, n, R
<1>18. \A k \in 1 .. n + 1 : ReadMaildrop(g)[k] = Append(R, m)[k]
  <2> TAKE k \in 1 .. n + 1
  <2>1. CASE k = n + 1 BY <1>1, <1>6, <1>13, <1>15, <1>17, <2>1
  <2>2. CASE k # n + 1
    <3>1. k \in 1 .. n BY <1>12, <2>2
    <3> QED BY <1>13, <1>14, <1>15, <1>17, <3>1
  <2> QED BY <2>1, <2>2
<1>19. ReadMaildrop(g) = Append(R, m) BY <1>15, <1>16, <1>18, SeqEqual
<1>20. WriteMail(f, m) = g
  <2>1. WriteMail(f, m) = (f \o <<m.from>>) \o m.lines BY DEF WriteMail
  <2> QED BY <1>1, <1>2, <2>1, ConcatAssociative DEF g, t
<1> QED BY <1>8, <1>19, <1>20 DEF R
=============================================================================
