------------------------- MODULE SubsequencesProofs -------------------------
(* What Rank and Subsequence return. *)
EXTENDS Subsequences, FiniteSetTheorems, SequenceTheorems, TLAPS

\* In a finite set of positions every rank from 1 to its size belongs to
\* exactly one position: ranks are strictly increasing and there are as many
\* of them as positions.
LEMMA RankBijective ==
  ASSUME NEW n \in Nat, NEW P \in SUBSET (1..n)
  PROVE  /\ IsFiniteSet(P)
         /\ Cardinality(P) \in Nat
         /\ \A i \in P : Rank(P, i) \in 1..Cardinality(P)
         /\ \A i, j \in P : Rank(P, i) = Rank(P, j) => i = j
         /\ \A k \in 1..Cardinality(P) : \E i \in P : Rank(P, i) = k
<1>0. \A i \in P : i \in Int
  OBVIOUS
<1>1. IsFiniteSet(P) /\ Cardinality(P) \in Nat
  BY FS_Interval, FS_Subset, FS_CardinalityType, 1 \in Int, n \in Int
<1>2. \A i \in P : Rank(P, i) \in 1..Cardinality(P)
  <2> TAKE i \in P
  <2> DEFINE U == {j \in P : j <= i}
  <2>1. IsFiniteSet(U) /\ Cardinality(U) <= Cardinality(P) /\ Cardinality(U) \in Nat
    BY <1>1, FS_Subset, FS_CardinalityType, U \in SUBSET P
  <2>2. i \in U
    OBVIOUS
  <2>3. Cardinality(U) # 0
    BY <2>1, <2>2, FS_EmptySet
  <2> QED BY <1>1, <2>1, <2>3 DEF Rank
<1>3. \A i, j \in P : i < j => Rank(P, i) < Rank(P, j)
  <2> TAKE i, j \in P
  <2> HAVE i < j
  <2> DEFINE U == {m \in P : m <= i}
             V == {m \in P : m <= j}
  <2>0. i \in Int /\ j \in Int
    BY <1>0
  <2>1. U \in SUBSET V /\ j \in V /\ j \notin U
    <3>1. \A m \in P : m <= i => m <= j
      BY <1>0, <2>0
    <3>2. j <= j /\ ~(j <= i)
      BY <2>0
    <3> QED BY <3>1, <3>2
  <2>2. IsFiniteSet(V) /\ Cardinality(V) \in Nat
    BY <1>1, FS_Subset, FS_CardinalityType, V \in SUBSET P
  <2>3. Cardinality(U) <= Cardinality(V) /\ Cardinality(U) # Cardinality(V)
    <3> HIDE DEF U, V
    <3> QED BY <2>1, <2>2, FS_Subset
  <2>4. Cardinality(U) \in Nat
    BY <1>1, FS_Subset, FS_CardinalityType, U \in SUBSET P
  <2> QED BY <2>2, <2>3, <2>4 DEF Rank
<1>4. \A i, j \in P : Rank(P, i) = Rank(P, j) => i = j
  <2> TAKE i, j \in P
  <2> HAVE Rank(P, i) = Rank(P, j)
  <2>0. i \in Int /\ j \in Int
    BY <1>0
  <2>1. Rank(P, i) \in Int /\ i \in Int /\ j \in Int
    <3>1. Rank(P, i) \in 1..Cardinality(P)
      BY <1>2
    <3> QED BY <1>1, <2>0, <3>1
  <2>2. ~(i < j) /\ ~(j < i)
    BY <1>3, <2>1
  <2> QED BY <2>1, <2>2
<1>5. \A k \in 1..Cardinality(P) : \E i \in P : Rank(P, i) = k
  <2> DEFINE T == 1..Cardinality(P)
             r == [i \in P |-> Rank(P, i)]
  <2>1. r \in Injection(P, T)
    BY <1>2, <1>4 DEF Injection, IsInjective
  <2>2. IsFiniteSet(T) /\ Cardinality(T) = Cardinality(P)
    BY <1>1, FS_Interval
  <2>3. r \in Surjection(P, T)
    <3> HIDE DEF r, T
    <3> QED BY <2>1, <2>2, FS_Injection
  <2> QED BY <2>3 DEF Surjection
<1> QED BY <1>1, <1>2, <1>4, <1>5

\* A set of positions that is not empty has a last one: that of the highest rank.
LEMMA LastPosition ==
  ASSUME NEW n \in Nat, NEW P \in SUBSET (1..n), P # {}
  PROVE  \E i \in P : \A j \in P : j <= i
<1>1. /\ IsFiniteSet(P) /\ Cardinality(P) \in Nat
      /\ \A k \in 1..Cardinality(P) : \E i \in P : Rank(P, i) = k
  BY RankBijective
<1>2. Cardinality(P) # 0
  BY <1>1, FS_EmptySet
<1>3. PICK i \in P : Rank(P, i) = Cardinality(P)
  BY <1>1, <1>2
<1> DEFINE U == {j \in P : j <= i}
<1>4. U \in SUBSET P /\ Cardinality(U) = Cardinality(P)
  BY <1>3 DEF Rank
<1>5. U = P
  <2> HIDE DEF U
  <2> QED BY <1>1, <1>4, FS_Subset
<1> QED BY <1>5

\* A subsequence has an element for each position that is left, and these
\* alone: its k-th element stands at the position of rank k.
LEMMA SubsequenceProperties ==
  ASSUME NEW S, NEW q \in Seq(S), NEW P \in SUBSET (1..Len(q))
  PROVE  LET L == Subsequence(q, P)
         IN  /\ L \in Seq(S)
             /\ Len(L) = Cardinality(P)
             /\ \A k \in 1..Len(L) : \E i \in P : Rank(P, i) = k /\ L[k] = q[i]
             /\ \A i \in P : Rank(P, i) \in 1..Len(L) /\ L[Rank(P, i)] = q[i]
<1> DEFINE at(k) == CHOOSE i \in P : Rank(P, i) = k
           L == Subsequence(q, P)
<1>0. /\ Len(q) \in Nat
      /\ DOMAIN q = 1..Len(q)
      /\ \A i \in 1..Len(q) : q[i] \in S
  BY LenProperties, ElementOfSeq
<1>1. /\ Cardinality(P) \in Nat
      /\ \A i \in P : Rank(P, i) \in 1..Cardinality(P)
      /\ \A i, j \in P : Rank(P, i) = Rank(P, j) => i = j
      /\ \A k \in 1..Cardinality(P) : \E i \in P : Rank(P, i) = k
  BY <1>0, RankBijective
<1>2. \A k \in 1..Cardinality(P) : at(k) \in P /\ Rank(P, at(k)) = k
  BY <1>1
<1>3. \A i \in P : at(Rank(P, i)) = i
  <2> HIDE DEF at
  <2> QED BY <1>1, <1>2
<1>4. L = [k \in 1..Cardinality(P) |-> q[at(k)]]
  BY DEF Subsequence
<1> HIDE DEF at, L
<1>5. L \in [1..Cardinality(P) -> S]
  BY <1>0, <1>2, <1>4
<1>6. L \in Seq(S)
  BY <1>1, <1>5, SeqDef
<1>7. Len(L) = Cardinality(P)
  BY <1>1, <1>5, <1>6, LenProperties
<1>8. \A k \in 1..Len(L) : \E i \in P : Rank(P, i) = k /\ L[k] = q[i]
  BY <1>2, <1>4, <1>7
<1>9. \A i \in P : Rank(P, i) \in 1..Len(L) /\ L[Rank(P, i)] = q[i]
  BY <1>1, <1>3, <1>4, <1>7
<1> QED BY <1>6, <1>7, <1>8, <1>9 DEF L

\* What is left when nothing is erased.
LEMMA SubsequenceOfAll ==
  ASSUME NEW S, NEW q \in Seq(S)
  PROVE  Subsequence(q, 1..Len(q)) = q
<1> DEFINE n == Len(q)
           L == Subsequence(q, 1..n)
<1>0. n \in Nat
  BY LenProperties
<1>1. \A i \in 1..n : Rank(1..n, i) = i
  <2> TAKE i \in 1..n
  <2>1. {j \in 1..n : j <= i} = 1..i
    BY <1>0
  <2>2. Cardinality(1..i) = i
    BY <1>0, FS_Interval
  <2> QED BY <2>1, <2>2 DEF Rank
<1>2. Cardinality(1..n) = n
  BY SMTT(30), <1>0, FS_Interval
<1>3. L \in Seq(S) /\ Len(L) = n /\ \A i \in 1..n : L[i] = q[i]
  <2> HIDE DEF n, L
  <2> QED BY <1>1, <1>2, SubsequenceProperties DEF n, L
<1> HIDE DEF L
<1> QED BY <1>3, SeqEqual DEF L
=============================================================================
