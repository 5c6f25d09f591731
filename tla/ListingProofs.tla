---------------------------- MODULE ListingProofs ----------------------------
(***************************************************************************)
(* The inductive invariant of Listing, for a list of any length, any page   *)
(* size and any number of changes.  ModesProofs draws the theorems.         *)
(***************************************************************************)
EXTENDS Listing, SequenceTheorems, FiniteSetTheorems, TLAPS

\* The cards that the next requests may still bring.
After == {list[m] : m \in (offset + 1)..Len(list)}

ListingTypeInv ==
    /\ list \in Seq(Nat) /\ IsInjective(list)
    /\ items \in Seq(Nat)
    /\ moved \in Seq(Nat)
    /\ removed \in SUBSET Nat /\ IsFiniteSet(removed)
    /\ initial \in 0..MaxItems /\ bad \in 0..initial
    /\ requests \in Nat /\ offset = requests * PageLimit
    /\ Capped /\ reading => requests < MaxRequests
    /\ reading \in BOOLEAN /\ failed \in BOOLEAN /\ (reading => ~failed)
    /\ Len(moved) + Cardinality(removed) <= MaxChanges

\* A new card has a new number; what nobody touches stays in the list.
ChangesInv ==
    /\ \A c \in Range(list) \cup removed : c < Unused
    /\ 0 \notin Range(list)
    /\ removed \cap Range(list) = {}
    /\ Untouched \subseteq Range(list)

\* What ReadsAll asks for.
Wanted == IF Capped THEN Smaller(MaxRequests * PageLimit, Readable) ELSE Readable

\* In a list that stays as it is everything before the offset has been read, and
\* the bad item is not there.
QuietInv ==
    Quiet =>
        /\ list = [n \in 1..initial |-> n]
        /\ reading => /\ offset <= initial
                      /\ bad # 0 => bad > offset
                      /\ items = SubSeq(list, 1, offset)
        /\ ~reading => items = SubSeq(list, 1, Wanted)

\* What is hidden: not read and no longer ahead.
MissedInv ==
    /\ reading => Cardinality(Untouched \ (After \cup Range(items))) <= Cardinality(removed)
    /\ ~reading /\ ~failed /\ bad = 0 /\ ~Capped =>
          Cardinality(Untouched \ Range(items)) <= Cardinality(removed)

\* What is listed twice, and what has been read and is ahead again.
RepeatedInv ==
    Len(items) + (IF reading THEN Cardinality(Range(items) \cap After) ELSE 0)
        <= Len(moved) + Cardinality(Range(items))

ListingInv ==
    ListingTypeInv /\ ChangesInv /\ QuietInv /\ MissedInv /\ RepeatedInv

---------------------------------------------------------------------------
(* Sequences. *)

\* The elements of a sequence are a finite set, of as many as there are places
\* when none is there twice.
LEMMA RangeProperties ==
  ASSUME NEW S, NEW s \in Seq(S)
  PROVE  /\ IsFiniteSet(Range(s)) /\ Cardinality(Range(s)) \in Nat
         /\ Cardinality(Range(s)) <= Len(s)
         /\ IsInjective(s) => Cardinality(Range(s)) = Len(s)
         /\ Range(s) \in SUBSET S
         /\ \A x : x \in Range(s) <=> \E m \in 1..Len(s) : x = s[m]
<1>1. /\ Len(s) \in Nat /\ DOMAIN s = 1..Len(s)
      /\ s \in [1..Len(s) -> S]
  BY LenProperties
<1>2. IsFiniteSet(1..Len(s)) /\ Cardinality(1..Len(s)) = Len(s)
  BY <1>1, FS_Interval
<1>3. s \in [1..Len(s) -> Range(s)] /\ \A x \in Range(s) : \E m \in 1..Len(s) : s[m] = x
  BY <1>1 DEF Range
<1>4. s \in Surjection(1..Len(s), Range(s))
  BY <1>3 DEF Surjection
<1>5. /\ IsFiniteSet(Range(s))
      /\ Cardinality(Range(s)) <= Len(s)
      /\ Cardinality(Range(s)) = Len(s) <=> s \in Injection(1..Len(s), Range(s))
  BY <1>2, <1>4, FS_Surjection
<1>6. IsInjective(s) => s \in Injection(1..Len(s), Range(s))
  BY <1>1, <1>3 DEF IsInjective, Injection
<1>7. Cardinality(Range(s)) \in Nat
  BY <1>5, FS_CardinalityType
<1> QED BY <1>1, <1>5, <1>6, <1>7 DEF Range

LEMMA RemoveProperties ==
  ASSUME NEW S, NEW s \in Seq(S), NEW n \in 1..Len(s)
  PROVE  LET t == RemoveAt(s, n)
         IN  /\ t \in Seq(S)
             /\ Len(t) = Len(s) - 1
             /\ \A m \in 1..(Len(s) - 1) : t[m] = IF m < n THEN s[m] ELSE s[m + 1]
<1> DEFINE len == Len(s)
           a == SubSeq(s, 1, n - 1)
           b == SubSeq(s, n + 1, len)
<1>1. len \in Nat /\ n \in Int /\ 1 <= n /\ n <= len /\ \A m \in 1..len : s[m] \in S
  BY LenProperties, ElementOfSeq
<1>2. RemoveAt(s, n) = a \o b
  BY DEF RemoveAt
<1> HIDE DEF len
<1>3. /\ a \in Seq(S)
      /\ Len(a) = IF 1 <= n - 1 THEN (n - 1) - 1 + 1 ELSE 0
      /\ \A m \in 1..((n - 1) - 1 + 1) : a[m] = s[1 + m - 1]
  <2>1. n - 1 \in Int /\ 1 \in Int /\ \A m \in 1..(n - 1) : s[m] \in S
    BY <1>1
  <2> QED BY <2>1, SubSeqProperties
<1>4. /\ b \in Seq(S)
      /\ Len(b) = IF n + 1 <= len THEN len - (n + 1) + 1 ELSE 0
      /\ \A m \in 1..(len - (n + 1) + 1) : b[m] = s[(n + 1) + m - 1]
  <2>1. n + 1 \in Int /\ len \in Int /\ \A m \in (n + 1)..len : s[m] \in S
    BY <1>1
  <2> QED BY <2>1, SubSeqProperties
<1> HIDE DEF a, b
<1>5. Len(a) = n - 1 /\ Len(b) = len - n
  BY <1>1, <1>3, <1>4
<1>6. /\ a \o b \in Seq(S)
      /\ Len(a \o b) = Len(a) + Len(b)
      /\ \A m \in 1..(Len(a) + Len(b)) : (a \o b)[m] = IF m <= Len(a) THEN a[m] ELSE b[m - Len(a)]
  BY <1>3, <1>4, ConcatProperties
<1>7. Len(a) + Len(b) = len - 1
  BY <1>1, <1>5
<1>8. ASSUME NEW m \in 1..(len - 1)
      PROVE  (a \o b)[m] = IF m < n THEN s[m] ELSE s[m + 1]
  <2>1. (a \o b)[m] = IF m <= n - 1 THEN a[m] ELSE b[m - (n - 1)]
    BY <1>5, <1>6, <1>7
  <2>2. CASE m < n
    <3>1. m <= n - 1 /\ m \in 1..((n - 1) - 1 + 1) /\ 1 + m - 1 = m
      BY <1>1, <2>2
    <3>2. a[m] = s[m]
      BY <1>3, <3>1
    <3> QED BY <2>1, <2>2, <3>1, <3>2
  <2>3. CASE ~(m < n)
    <3>1. /\ ~(m <= n - 1) /\ m - (n - 1) \in 1..(len - (n + 1) + 1)
          /\ (n + 1) + (m - (n - 1)) - 1 = m + 1
      BY <1>1, <2>3
    <3>2. b[m - (n - 1)] = s[m + 1]
      BY <1>4, <3>1
    <3> QED BY <2>1, <2>3, <3>1, <3>2
  <2> QED BY <2>2, <2>3
<1> QED BY <1>2, <1>6, <1>7, <1>8 DEF len

LEMMA FrontProperties ==
  ASSUME NEW S, NEW s \in Seq(S), NEW x \in S
  PROVE  LET t == <<x>> \o s
         IN  /\ t \in Seq(S)
             /\ Len(t) = Len(s) + 1
             /\ \A m \in 1..(Len(s) + 1) : t[m] = IF m = 1 THEN x ELSE s[m - 1]
<1>1. <<x>> \in Seq(S) /\ Len(<<x>>) = 1 /\ <<x>>[1] = x
  OBVIOUS
<1>2. Len(s) \in Nat
  BY LenProperties
<1> DEFINE t == <<x>> \o s
<1>3. /\ t \in Seq(S)
      /\ Len(t) = 1 + Len(s)
      /\ \A m \in 1..(1 + Len(s)) : t[m] = IF m <= 1 THEN <<x>>[m] ELSE s[m - 1]
  BY <1>1, ConcatProperties
<1> HIDE DEF t
<1>4. \A m \in 1..(Len(s) + 1) : t[m] = IF m = 1 THEN x ELSE s[m - 1]
  <2> TAKE m \in 1..(Len(s) + 1)
  <2>1. m \in 1..(1 + Len(s)) /\ (m <= 1 <=> m = 1)
    BY <1>2
  <2> QED BY <1>1, <1>3, <2>1
<1>5. Len(t) = Len(s) + 1
  BY <1>2, <1>3
<1> QED BY <1>3, <1>4, <1>5 DEF t

\* An element that goes to the front.
LEMMA MoveProperties ==
  ASSUME NEW S, NEW s \in Seq(S), NEW n \in 1..Len(s)
  PROVE  LET t == <<s[n]>> \o RemoveAt(s, n)
         IN  /\ t \in Seq(S)
             /\ Len(t) = Len(s)
             /\ \A m \in 1..Len(s) :
                   t[m] = IF m = 1 THEN s[n] ELSE IF m <= n THEN s[m - 1] ELSE s[m]
<1> DEFINE len == Len(s)
           r == RemoveAt(s, n)
           t == <<s[n]>> \o r
<1>1. len \in Nat /\ n \in Int /\ 1 <= n /\ n <= len /\ s[n] \in S
  BY LenProperties, ElementOfSeq
<1>2. /\ r \in Seq(S) /\ Len(r) = len - 1
      /\ \A m \in 1..(len - 1) : r[m] = IF m < n THEN s[m] ELSE s[m + 1]
  BY RemoveProperties
<1> HIDE DEF len, r
<1>3. /\ t \in Seq(S) /\ Len(t) = Len(r) + 1
      /\ \A m \in 1..(Len(r) + 1) : t[m] = IF m = 1 THEN s[n] ELSE r[m - 1]
  BY <1>1, <1>2, FrontProperties
<1> HIDE DEF t
<1>4. Len(r) + 1 = len
  BY <1>1, <1>2
<1>5. ASSUME NEW m \in 1..len
      PROVE  t[m] = IF m = 1 THEN s[n] ELSE IF m <= n THEN s[m - 1] ELSE s[m]
  <2>1. t[m] = IF m = 1 THEN s[n] ELSE r[m - 1]
    BY <1>3, <1>4
  <2>2. CASE m # 1
    <3>1. m - 1 \in 1..(len - 1) /\ (m - 1 < n <=> m <= n) /\ (m - 1) + 1 = m
      BY <1>1, <2>2
    <3>2. r[m - 1] = IF m - 1 < n THEN s[m - 1] ELSE s[(m - 1) + 1]
      BY <1>2, <3>1
    <3> QED BY <2>1, <2>2, <3>1, <3>2
  <2> QED BY <2>1, <2>2
<1> QED BY <1>3, <1>4, <1>5 DEF len, r, t

\* A list in which nothing is twice stays so, and keeps what it has.
LEMMA InjectiveChanges ==
  ASSUME NEW S, NEW s \in Seq(S), IsInjective(s)
  PROVE  /\ \A n \in 1..Len(s) :
               LET t == <<s[n]>> \o RemoveAt(s, n)
               IN  IsInjective(t) /\ Range(t) = Range(s)
         /\ \A n \in 1..Len(s) :
               LET t == RemoveAt(s, n)
               IN  IsInjective(t) /\ Range(t) = Range(s) \ {s[n]}
         /\ \A x \in S : x \notin Range(s) =>
               LET t == <<x>> \o s
               IN  IsInjective(t) /\ Range(t) = Range(s) \cup {x}
<1>1. /\ Len(s) \in Nat /\ DOMAIN s = 1..Len(s)
      /\ \A a, b \in 1..Len(s) : s[a] = s[b] => a = b
      /\ \A x : x \in Range(s) <=> \E m \in 1..Len(s) : x = s[m]
  BY LenProperties, RangeProperties DEF IsInjective
<1> DEFINE len == Len(s)
<1>2. ASSUME NEW n \in 1..Len(s)
      PROVE  LET t == <<s[n]>> \o RemoveAt(s, n)
             IN  IsInjective(t) /\ Range(t) = Range(s)
  <2> DEFINE t == <<s[n]>> \o RemoveAt(s, n)
  <2>1. /\ t \in Seq(S) /\ Len(t) = len
        /\ \A m \in 1..len :
              t[m] = IF m = 1 THEN s[n] ELSE IF m <= n THEN s[m - 1] ELSE s[m]
    BY MoveProperties
  <2> HIDE DEF t
  <2>2. DOMAIN t = 1..len /\ \A y : y \in Range(t) <=> \E m \in 1..len : y = t[m]
    <3>1. DOMAIN t = 1..Len(t) /\ \A y : y \in Range(t) <=> \E m \in 1..Len(t) : y = t[m]
      BY <2>1, LenProperties, RangeProperties
    <3> QED BY <2>1, <3>1
  <2>3. len \in Nat /\ n \in 1..len
    BY <1>1
  <2>4. \A a \in 1..len : \E c \in 1..len :
           /\ t[a] = s[c]
           /\ c = IF a = 1 THEN n ELSE IF a <= n THEN a - 1 ELSE a
    BY <2>1, <2>3
  <2>5. IsInjective(t)
    <3> SUFFICES ASSUME NEW a \in 1..len, NEW b \in 1..len, t[a] = t[b] PROVE a = b
      BY <2>2 DEF IsInjective
    <3>1. PICK c \in 1..len : /\ t[a] = s[c]
                              /\ c = IF a = 1 THEN n ELSE IF a <= n THEN a - 1 ELSE a
      BY <2>4
    <3>2. PICK d \in 1..len : /\ t[b] = s[d]
                              /\ d = IF b = 1 THEN n ELSE IF b <= n THEN b - 1 ELSE b
      BY <2>4
    <3>3. c = d
      BY <1>1, <3>1, <3>2
    <3> QED BY <2>3, <3>1, <3>2, <3>3
  <2>6. \A c \in 1..len : \E a \in 1..len : s[c] = t[a]
    <3> TAKE c \in 1..len
    <3>1. CASE c = n
      BY <2>1, <2>3, <3>1
    <3>2. CASE c < n
      <4>1. c + 1 \in 1..len /\ c + 1 # 1 /\ c + 1 <= n /\ (c + 1) - 1 = c
        BY <2>3, <3>2
      <4> QED BY <2>1, <4>1
    <3>3. CASE c > n
      <4>1. c # 1 /\ ~(c <= n)
        BY <2>3, <3>3
      <4> QED BY <2>1, <4>1
    <3> QED BY <2>3, <3>1, <3>2, <3>3
  <2>7. Range(t) = Range(s)
    <3>1. ASSUME NEW x \in Range(t) PROVE x \in Range(s)
      BY <1>1, <2>2, <2>4
    <3>2. ASSUME NEW x \in Range(s) PROVE x \in Range(t)
      BY <1>1, <2>2, <2>6
    <3> QED BY <3>1, <3>2
  <2> QED BY <2>5, <2>7 DEF t
<1>3. ASSUME NEW n \in 1..Len(s)
      PROVE  LET t == RemoveAt(s, n)
             IN  IsInjective(t) /\ Range(t) = Range(s) \ {s[n]}
  <2> DEFINE t == RemoveAt(s, n)
  <2>1. /\ t \in Seq(S) /\ Len(t) = len - 1
        /\ \A m \in 1..(len - 1) : t[m] = IF m < n THEN s[m] ELSE s[m + 1]
    BY RemoveProperties
  <2> HIDE DEF t
  <2>2. /\ DOMAIN t = 1..(len - 1)
        /\ \A y : y \in Range(t) <=> \E m \in 1..(len - 1) : y = t[m]
    <3>1. DOMAIN t = 1..Len(t) /\ \A y : y \in Range(t) <=> \E m \in 1..Len(t) : y = t[m]
      BY <2>1, LenProperties, RangeProperties
    <3> QED BY <2>1, <3>1
  <2>3. len \in Nat /\ n \in 1..len
    BY <1>1
  <2>4. \A a \in 1..(len - 1) : \E c \in (1..len) \ {n} :
           t[a] = s[c] /\ c = IF a < n THEN a ELSE a + 1
    BY <2>1, <2>3
  <2>5. IsInjective(t)
    <3> SUFFICES ASSUME NEW a \in 1..(len - 1), NEW b \in 1..(len - 1), t[a] = t[b]
                 PROVE  a = b
      BY <2>2 DEF IsInjective
    <3>1. PICK c \in 1..len : t[a] = s[c] /\ c = IF a < n THEN a ELSE a + 1
      BY <2>4
    <3>2. PICK d \in 1..len : t[b] = s[d] /\ d = IF b < n THEN b ELSE b + 1
      BY <2>4
    <3>3. c = d
      BY <1>1, <3>1, <3>2
    <3> QED BY <2>3, <3>1, <3>2, <3>3
  <2>6. \A c \in (1..len) \ {n} : \E a \in 1..(len - 1) : s[c] = t[a]
    <3> TAKE c \in (1..len) \ {n}
    <3>1. CASE c < n
      <4>1. c \in 1..(len - 1)
        BY <2>3, <3>1
      <4> QED BY <2>1, <3>1, <4>1
    <3>2. CASE c > n
      <4>1. c - 1 \in 1..(len - 1) /\ ~(c - 1 < n) /\ (c - 1) + 1 = c
        BY <2>3, <3>2
      <4> QED BY <2>1, <4>1
    <3> QED BY <2>3, <3>1, <3>2
  <2>7. Range(t) = Range(s) \ {s[n]}
    <3>1. ASSUME NEW x \in Range(t) PROVE x \in Range(s) /\ x # s[n]
      <4>1. PICK c \in (1..len) \ {n} : x = s[c]
        BY <2>2, <2>4
      <4> QED BY <1>1, <2>3, <4>1
    <3>2. ASSUME NEW x \in Range(s), x # s[n] PROVE x \in Range(t)
      BY <1>1, <2>2, <2>6, <3>2
    <3> QED BY <3>1, <3>2
  <2> QED BY <2>5, <2>7 DEF t
<1>4. ASSUME NEW x \in S, x \notin Range(s)
      PROVE  LET t == <<x>> \o s
             IN  IsInjective(t) /\ Range(t) = Range(s) \cup {x}
  <2> DEFINE t == <<x>> \o s
  <2>1. /\ t \in Seq(S) /\ Len(t) = len + 1
        /\ \A m \in 1..(len + 1) : t[m] = IF m = 1 THEN x ELSE s[m - 1]
    BY FrontProperties
  <2> HIDE DEF t
  <2>2. /\ DOMAIN t = 1..(len + 1)
        /\ \A y : y \in Range(t) <=> \E m \in 1..(len + 1) : y = t[m]
    <3>1. DOMAIN t = 1..Len(t) /\ \A y : y \in Range(t) <=> \E m \in 1..Len(t) : y = t[m]
      BY <2>1, LenProperties, RangeProperties
    <3> QED BY <2>1, <3>1
  <2>3. len \in Nat
    BY <1>1
  <2>4. /\ 1 \in 1..(len + 1) /\ t[1] = x
        /\ \A m \in 2..(len + 1) : m - 1 \in 1..len /\ t[m] = s[m - 1]
        /\ \A m \in 1..len : m + 1 \in 2..(len + 1) /\ t[m + 1] = s[m]
    <3>1. \A m \in 2..(len + 1) : m \in 1..(len + 1) /\ m # 1 /\ m - 1 \in 1..len
      BY <2>3
    <3>2. \A m \in 1..len : m + 1 \in 2..(len + 1) /\ (m + 1) - 1 = m
      BY <2>3
    <3>3. 1 \in 1..(len + 1)
      BY <2>3
    <3>4. \A m \in 2..(len + 1) : t[m] = s[m - 1]
      BY <2>1, <3>1
    <3>5. \A m \in 1..len : t[m + 1] = s[(m + 1) - 1]
      BY <3>2, <3>4
    <3>6. \A m \in 1..len : t[m + 1] = s[m]
      BY <3>2, <3>5
    <3> QED BY <2>1, <3>1, <3>2, <3>3, <3>4, <3>6
  <2>5. \A m \in 1..(len + 1) : m = 1 \/ m \in 2..(len + 1)
    BY <2>3
  <2>6. IsInjective(t)
    <3> SUFFICES ASSUME NEW a \in 1..(len + 1), NEW b \in 1..(len + 1), t[a] = t[b]
                 PROVE  a = b
      BY <2>2 DEF IsInjective
    <3>1. CASE a = 1
      BY <1>1, <1>4, <2>4, <2>5, <3>1
    <3>2. CASE b = 1
      BY <1>1, <1>4, <2>4, <2>5, <3>2
    <3>3. CASE a \in 2..(len + 1) /\ b \in 2..(len + 1)
      <4>1. a - 1 = b - 1
        BY <1>1, <2>4, <3>3
      <4> QED BY <2>3, <3>3, <4>1
    <3> QED BY <2>5, <3>1, <3>2, <3>3
  <2>7. Range(t) = Range(s) \cup {x}
    <3>1. \A y : y \in Range(t) => y \in Range(s) \/ y = x
      BY <1>1, <2>2, <2>4, <2>5
    <3>2. x \in Range(t)
      BY <2>2, <2>4
    <3>3. ASSUME NEW m \in 1..len PROVE s[m] \in Range(t)
      <4>1. m + 1 \in 1..(len + 1) /\ t[m + 1] = s[m]
        BY <2>3, <2>4
      <4> QED BY <2>2, <4>1
    <3>4. \A y : y \in Range(s) => y \in Range(t)
      BY <1>1, <3>3
    <3> QED BY <3>1, <3>2, <3>4
  <2> QED BY <2>6, <2>7 DEF t
<1> QED BY <1>2, <1>3, <1>4

---------------------------------------------------------------------------
(* Numbers. *)

LEMMA Limits ==
  /\ PageLimit \in Nat /\ PageLimit \in Int /\ PageLimit >= 1
  /\ MaxRequests \in Nat /\ MaxRequests \in Int /\ MaxRequests >= 1
  /\ MaxItems \in Nat /\ MaxChanges \in Nat
BY ListingAssumption

\* Multiples of the page size, and the quotient of a division by it.
LEMMA Multiples ==
  /\ 0 * PageLimit = 0
  /\ \A a \in Nat : a * PageLimit \in Nat /\ (a + 1) * PageLimit = a * PageLimit + PageLimit
  /\ \A a, b \in Nat : a <= b => a * PageLimit <= b * PageLimit
<1>1. /\ 0 * PageLimit = 0
      /\ \A a \in Nat : a * PageLimit \in Nat /\ (a + 1) * PageLimit = a * PageLimit + PageLimit
  BY Limits
<1>2. ASSUME NEW a \in Nat, NEW b \in Nat, a <= b
      PROVE  a * PageLimit <= b * PageLimit
  <2>1. b - a \in Nat /\ b = a + (b - a)
    BY <1>2
  <2>2. b * PageLimit = a * PageLimit + (b - a) * PageLimit
    BY <2>1, Limits
  <2>3. a * PageLimit \in Nat /\ (b - a) * PageLimit \in Nat
    BY <1>1, <2>1
  <2> DEFINE x == a * PageLimit
             y == (b - a) * PageLimit
             z == b * PageLimit
  <2>4. x \in Nat /\ y \in Nat /\ z = x + y
    BY <2>2, <2>3
  <2> HIDE DEF x, y, z
  <2>5. x <= z
    BY <2>4
  <2> QED BY <2>5 DEF x, z
<1> QED BY <1>1, <1>2

LEMMA Quotient ==
  ASSUME NEW a \in Nat
  PROVE  /\ a \div PageLimit \in Nat
         /\ (a \div PageLimit) * PageLimit <= a
         /\ a < (a \div PageLimit) * PageLimit + PageLimit
         /\ \A q \in Nat : q * PageLimit <= a => q * PageLimit <= (a \div PageLimit) * PageLimit
         /\ \A q \in Nat : q * PageLimit <= a /\ a < q * PageLimit + PageLimit
              => (a \div PageLimit) * PageLimit = q * PageLimit
<1> DEFINE d == a \div PageLimit
<1>1. d \in Int /\ d * PageLimit <= a /\ a < d * PageLimit + PageLimit
  BY Limits
<1> HIDE DEF d
<1>2. d \in Nat
  <2> SUFFICES ASSUME d <= -1 PROVE FALSE
    BY <1>1
  <2>1. d * PageLimit <= -PageLimit
    BY <1>1, Limits
  <2> DEFINE x == d * PageLimit
  <2>2. x <= -PageLimit /\ a < x + PageLimit /\ x \in Int
    BY <1>1, <2>1, Limits
  <2> HIDE DEF x
  <2> QED BY <2>2, Limits
<1>3. ASSUME NEW q \in Nat, q * PageLimit <= a
      PROVE  q <= d
  <2> SUFFICES ASSUME d + 1 <= q PROVE FALSE
    BY <1>2
  <2>1. (d + 1) * PageLimit <= q * PageLimit /\ (d + 1) * PageLimit = d * PageLimit + PageLimit
    BY <1>2, Multiples
  <2> DEFINE x == d * PageLimit
             y == q * PageLimit
  <2>2. x + PageLimit <= y /\ y <= a /\ a < x + PageLimit /\ x \in Nat /\ y \in Nat
    BY <1>1, <1>2, <1>3, <2>1, Multiples
  <2> HIDE DEF x, y
  <2> QED BY <2>2, Limits
<1>4. ASSUME NEW q \in Nat, q * PageLimit <= a, a < q * PageLimit + PageLimit
      PROVE  d = q
  <2> SUFFICES ASSUME q + 1 <= d PROVE FALSE
    BY <1>2, <1>3, <1>4
  <2>1. (q + 1) * PageLimit <= d * PageLimit /\ (q + 1) * PageLimit = q * PageLimit + PageLimit
    BY <1>2, Multiples
  <2> DEFINE x == d * PageLimit
             y == q * PageLimit
  <2>2. y + PageLimit <= x /\ x <= a /\ a < y + PageLimit /\ x \in Nat /\ y \in Nat
    BY <1>1, <1>2, <1>4, <2>1, Multiples
  <2> HIDE DEF x, y
  <2> QED BY <2>2, Limits
<1>5. \A q \in Nat : q * PageLimit <= a => q * PageLimit <= d * PageLimit
  BY <1>2, <1>3, Multiples
<1>6. \A q \in Nat : q * PageLimit <= a /\ a < q * PageLimit + PageLimit
         => d * PageLimit = q * PageLimit
  BY <1>4
<1> QED BY <1>1, <1>2, <1>5, <1>6 DEF d

\* New numbers are above all that were given.
LEMMA UnusedProperties ==
  ASSUME initial \in Nat, moved \in Seq(Nat)
  PROVE  Unused \in Nat /\ initial < Unused
<1> DEFINE A == {n \in DOMAIN moved : moved[n] > initial}
<1>1. Len(moved) \in Nat /\ DOMAIN moved = 1..Len(moved)
  BY LenProperties
<1>2. IsFiniteSet(1..Len(moved)) /\ A \in SUBSET (1..Len(moved))
  BY <1>1, FS_Interval
<1>3. Cardinality(A) \in Nat
  BY <1>2, FS_Subset, FS_CardinalityType
<1>4. Unused = 1 + initial + Cardinality(A)
  BY DEF Unused
<1> HIDE DEF A
<1> QED BY <1>3, <1>4

LEMMA UnusedGrows ==
  ASSUME initial \in Nat, initial' = initial, moved \in Seq(Nat),
         NEW x \in Nat, moved' = Append(moved, x)
  PROVE  Unused' \in Nat /\ Unused <= Unused' /\ (x > initial => Unused < Unused')
<1> DEFINE A == {n \in DOMAIN moved : moved[n] > initial}
           B == {n \in DOMAIN moved' : moved'[n] > initial}
           len == Len(moved)
<1>1. /\ len \in Nat /\ DOMAIN moved = 1..len
      /\ moved' \in Seq(Nat) /\ Len(moved') = len + 1
      /\ \A n \in 1..len : moved'[n] = moved[n]
      /\ moved'[len + 1] = x
  BY LenProperties, AppendProperties
<1>2. DOMAIN moved' = 1..(len + 1)
  BY <1>1, LenProperties
<1> HIDE DEF len
<1>3. IsFiniteSet(1..(len + 1)) /\ A \in SUBSET (1..len) /\ B \in SUBSET (1..(len + 1))
  <2>1. 1 \in Int /\ len + 1 \in Int
    BY <1>1
  <2>2. IsFiniteSet(1..(len + 1))
    BY <2>1, FS_Interval
  <2> QED BY <1>1, <1>2, <2>2
<1>4. \A n \in 1..len : n \in 1..(len + 1)
  BY <1>1
<1>5. len + 1 \in 1..(len + 1) /\ len + 1 \notin 1..len
  BY <1>1
<1>6. A \in SUBSET B /\ (x > initial => A \cup {len + 1} \in SUBSET B) /\ len + 1 \notin A
  BY <1>1, <1>2, <1>4, <1>5
<1>7. IsFiniteSet(B) /\ IsFiniteSet(A)
  BY <1>3, <1>6, FS_Subset
<1>8. Cardinality(A) \in Nat /\ Cardinality(B) \in Nat /\ Cardinality(A) <= Cardinality(B)
  BY <1>6, <1>7, FS_Subset, FS_CardinalityType
<1>9. x > initial => Cardinality(A) + 1 <= Cardinality(B)
  <2> SUFFICES ASSUME x > initial PROVE Cardinality(A) + 1 <= Cardinality(B)
    OBVIOUS
  <2> HIDE DEF A, B
  <2>1. Cardinality(A \cup {len + 1}) = Cardinality(A) + 1
    BY <1>6, <1>7, FS_AddElement
  <2> QED BY <1>6, <1>7, <2>1, FS_Subset
<1>10. Unused = 1 + initial + Cardinality(A) /\ Unused' = 1 + initial + Cardinality(B)
  BY DEF Unused
<1> HIDE DEF A, B
<1> QED BY <1>8, <1>9, <1>10

---------------------------------------------------------------------------
(* Reading. *)

\* What the server answers.
LEMMA ServerPageProperties ==
  ASSUME ListingTypeInv
  PROVE  LET p == ServerPage
             n == Len(list)
         IN  /\ n \in Nat /\ offset \in Nat /\ Len(p) \in Nat /\ p \in Seq(Nat)
             /\ p = SubSeq(list, offset + 1, Smaller(offset + PageLimit, n))
             /\ p = <<>> <=> n <= offset
             /\ HasMore(p) <=> offset + PageLimit <= n
             /\ offset <= n => Len(p) = Smaller(offset + PageLimit, n) - offset
             /\ \A m \in 1..Len(p) : offset + m \in 1..n /\ p[m] = list[offset + m]
             /\ IsInjective(p)
             /\ \A x : x \in Range(p) <=> \E m \in 1..Len(p) : x = list[offset + m]
<1> DEFINE n == Len(list)
           e == Smaller(offset + PageLimit, n)
           p == ServerPage
<1>1. /\ list \in Seq(Nat) /\ n \in Nat /\ DOMAIN list = 1..n /\ IsInjective(list)
      /\ offset \in Nat
  BY LenProperties, Multiples DEF ListingTypeInv
<1>2. /\ e \in Nat /\ e <= n /\ offset + 1 \in Int
      /\ e = IF offset + PageLimit < n THEN offset + PageLimit ELSE n
  BY <1>1, Limits DEF Smaller
<1>3. p = SubSeq(list, offset + 1, e)
  BY DEF ServerPage
<1> HIDE DEF n, e, p
<1>4. \A m \in (offset + 1)..e : list[m] \in Nat
  <2>1. \A m \in (offset + 1)..e : m \in 1..n
    BY <1>1, <1>2
  <2> QED BY <1>1, <2>1, ElementOfSeq DEF n
<1>5. /\ p \in Seq(Nat)
      /\ Len(p) = IF offset + 1 <= e THEN e - (offset + 1) + 1 ELSE 0
      /\ \A m \in 1..(e - (offset + 1) + 1) : p[m] = list[(offset + 1) + m - 1]
  BY <1>2, <1>3, <1>4, SubSeqProperties
<1>6. Len(p) = (IF offset < e THEN e - offset ELSE 0) /\ Len(p) \in Nat
  <2>1. /\ offset \in Nat /\ e \in Nat
        /\ Len(p) = IF offset + 1 <= e THEN e - (offset + 1) + 1 ELSE 0
    BY <1>1, <1>2, <1>5
  <2>2. (offset < e <=> offset + 1 <= e) /\ e - (offset + 1) + 1 = e - offset
    BY <2>1
  <2>3. offset < e => e - offset \in Nat
    BY <2>1
  <2> QED BY <2>1, <2>2, <2>3
<1>7. \A m \in 1..Len(p) : offset + m \in 1..n /\ p[m] = list[offset + m]
  <2> TAKE m \in 1..Len(p)
  <2>1. /\ m \in 1..(e - (offset + 1) + 1) /\ (offset + 1) + m - 1 = offset + m
        /\ offset + m \in 1..n
    BY <1>1, <1>2, <1>6
  <2> QED BY <1>5, <2>1
<1>8. p = <<>> <=> n <= offset
  <2>1. p = <<>> <=> Len(p) = 0
    BY <1>5, EmptySeq
  <2> QED BY <1>1, <1>2, <1>6, <2>1, Limits
<1>9. HasMore(p) <=> offset + PageLimit <= n
  BY <1>1, <1>2, <1>6, Limits DEF HasMore
<1>10. DOMAIN p = 1..Len(p) /\ \A x : x \in Range(p) <=> \E m \in 1..Len(p) : x = p[m]
  BY <1>5, LenProperties, RangeProperties
<1>11. IsInjective(p)
  <2> SUFFICES ASSUME NEW a \in 1..Len(p), NEW b \in 1..Len(p), p[a] = p[b] PROVE a = b
    BY <1>10 DEF IsInjective
  <2>1. offset + a = offset + b
    BY <1>1, <1>7 DEF IsInjective
  <2> QED BY <1>1, <1>6, <2>1
<1>12. \A x : x \in Range(p) <=> \E m \in 1..Len(p) : x = list[offset + m]
  BY <1>7, <1>10
<1>13. offset <= n => Len(p) = e - offset
  BY <1>1, <1>2, <1>6, Limits
<1> QED BY <1>1, <1>3, <1>5, <1>6, <1>7, <1>8, <1>9, <1>11, <1>12, <1>13 DEF n, e, p

\* A page takes its cards from those ahead.
LEMMA PageFromAhead ==
  ASSUME ListingTypeInv
  PROVE  LET p == ServerPage
             rest == {list[m] : m \in (offset + PageLimit + 1)..Len(list)}
         IN  /\ Range(p) \in SUBSET After
             /\ After \in SUBSET (Range(p) \cup rest)
             /\ Range(p) \cap rest = {} /\ rest \in SUBSET After
             /\ ~HasMore(p) => After \in SUBSET Range(p)
<1> DEFINE n == Len(list)
           p == ServerPage
           rest == {list[m] : m \in (offset + PageLimit + 1)..n}
<1>1. /\ n \in Nat /\ offset \in Nat /\ Len(p) \in Nat
      /\ p = <<>> <=> n <= offset
      /\ HasMore(p) <=> offset + PageLimit <= n
      /\ offset <= n => Len(p) = Smaller(offset + PageLimit, n) - offset
      /\ \A m \in 1..Len(p) : offset + m \in 1..n
      /\ \A x : x \in Range(p) <=> \E m \in 1..Len(p) : x = list[offset + m]
  BY ServerPageProperties
<1>2. \A a, b \in 1..n : list[a] = list[b] => a = b
  BY LenProperties DEF ListingTypeInv, IsInjective
<1>3. After = {list[m] : m \in (offset + 1)..n}
  BY DEF After
<1> HIDE DEF n, p
<1>4. Smaller(offset + PageLimit, n)
         = IF offset + PageLimit < n THEN offset + PageLimit ELSE n
  BY DEF Smaller
<1>5. \A m \in (offset + 1)..n : /\ m \in 1..n /\ m - offset \in Nat /\ offset + (m - offset) = m
                                 /\ \/ m - offset \in 1..Len(p)
                                    \/ m \in (offset + PageLimit + 1)..n
  BY <1>1, <1>4, Limits
<1>6. \A m \in 1..Len(p) : offset + m \in (offset + 1)..n
  BY <1>1
<1>7. Range(p) \in SUBSET After
  BY <1>1, <1>3, <1>6
<1>8. After \in SUBSET (Range(p) \cup rest)
  <2> SUFFICES ASSUME NEW m \in (offset + 1)..n PROVE list[m] \in Range(p) \cup rest
    BY <1>3
  <2>1. CASE m - offset \in 1..Len(p)
    BY <1>1, <1>5, <2>1
  <2>2. CASE m \in (offset + PageLimit + 1)..n
    BY <2>2
  <2> QED BY <1>5, <2>1, <2>2
<1>9. Range(p) \cap rest = {}
  <2>1. ASSUME NEW a \in 1..Len(p), NEW b \in (offset + PageLimit + 1)..n
        PROVE  list[offset + a] # list[b]
    <3>1. a <= PageLimit
      BY <1>1, <1>4, Limits
    <3>2. offset + a \in 1..n /\ b \in 1..n /\ offset + a < b
      BY <1>1, <3>1, Limits
    <3> QED BY <1>1, <1>2, <3>2
  <2> QED BY <1>1, <2>1
<1>10. ~HasMore(p) => rest = {}
  <2> SUFFICES ASSUME ~HasMore(p), NEW m \in (offset + PageLimit + 1)..n PROVE FALSE
    OBVIOUS
  <2> QED BY <1>1, Limits
<1>12. rest \in SUBSET After
  <2>1. \A m \in (offset + PageLimit + 1)..n : m \in (offset + 1)..n
    BY <1>1, Limits
  <2> QED BY <1>3, <2>1
<1> HIDE DEF rest
<1>11. ~HasMore(p) => After \in SUBSET Range(p)
  BY <1>8, <1>10
<1> QED BY <1>7, <1>8, <1>9, <1>11, <1>12 DEF n, p, rest

\* The finite sets that are counted.
LEMMA CountedSets ==
  ASSUME ListingTypeInv
  PROVE  /\ initial \in Nat /\ Len(list) \in Nat /\ Len(items) \in Nat /\ Len(moved) \in Nat
         /\ offset \in Nat /\ Cardinality(removed) \in Nat
         /\ IsFiniteSet(Untouched) /\ IsFiniteSet(Range(items))
         /\ Cardinality(Range(items)) \in Nat
<1>1. initial \in Nat /\ IsFiniteSet(1..initial)
  <2>1. initial \in Nat
    BY Limits DEF ListingTypeInv
  <2> QED BY <2>1, FS_Interval, 1 \in Int, initial \in Int
<1>2. IsFiniteSet(Untouched)
  BY <1>1, FS_Subset DEF Untouched
<1>3. IsFiniteSet(Range(items)) /\ Cardinality(Range(items)) \in Nat
  BY RangeProperties DEF ListingTypeInv
<1>4. Cardinality(removed) \in Nat /\ offset \in Nat
  BY FS_CardinalityType, Multiples DEF ListingTypeInv
<1> QED BY <1>1, <1>2, <1>3, <1>4, LenProperties DEF ListingTypeInv

LEMMA ReadPageType ==
  ASSUME ListingInv, ReadPage, mode' = mode
  PROVE  ListingTypeInv' /\ ChangesInv'
<1>1. /\ reading /\ ServerPage \in Seq(Nat)
      /\ items' = items \o ServerPage
      /\ UNCHANGED <<bad, list, failed, initial, moved, removed>>
  BY ServerPageProperties DEF ReadPage, ListingInv
<1>2. /\ items' \in Seq(Nat)
      /\ list' \in Seq(Nat) /\ IsInjective(list)'
      /\ moved' \in Seq(Nat)
      /\ removed' \in SUBSET Nat /\ IsFiniteSet(removed)'
      /\ initial' \in 0..MaxItems /\ bad' \in 0..initial'
      /\ failed' \in BOOLEAN /\ ~failed'
      /\ Len(moved') + Cardinality(removed') <= MaxChanges
  BY <1>1, ConcatProperties DEF ListingInv, ListingTypeInv, IsInjective
<1>3. Capped' = Capped
  BY DEF Capped
<1>4. /\ requests' \in Nat /\ offset' = requests' * PageLimit /\ reading' \in BOOLEAN
      /\ Capped' /\ reading' => requests' < MaxRequests
  <2>1. requests \in Nat /\ offset = requests * PageLimit
    BY DEF ListingInv, ListingTypeInv
  <2>2. CASE HasMore(ServerPage)
    <3>1. offset' = offset + PageLimit /\ requests' = requests + 1 /\ reading' = MayGoOn
      BY <2>2 DEF ReadPage, NextOffset
    <3>2. offset' = requests' * PageLimit /\ requests' \in Nat
      BY <2>1, <3>1, Multiples
    <3> QED BY <1>3, <3>1, <3>2 DEF MayGoOn
  <2>3. CASE ~HasMore(ServerPage)
    <3>1. reading' = FALSE /\ UNCHANGED <<offset, requests>>
      BY <2>3 DEF ReadPage
    <3> QED BY <2>1, <3>1
  <2> QED BY <2>2, <2>3
<1>5. ChangesInv'
  BY <1>1 DEF ListingInv, ChangesInv, Unused, Untouched
<1> QED BY <1>2, <1>4, <1>5 DEF ListingTypeInv

LEMMA ReadPageQuiet ==
  ASSUME ListingInv, ReadPage, mode' = mode
  PROVE  QuietInv'
<1> DEFINE n == Len(list)
           e == Smaller(offset + PageLimit, n)
           p == ServerPage
           cap == MaxRequests * PageLimit
<1> SUFFICES ASSUME Quiet'
             PROVE  QuietInv'
  BY DEF QuietInv
<1>1. /\ reading /\ p # <<>> /\ bad \notin Range(p)
      /\ items' = items \o p
      /\ UNCHANGED <<bad, list, failed, initial, moved, removed>>
      /\ HasMore(p) => /\ offset' = offset + PageLimit
                       /\ reading' = (Capped => requests + 1 < MaxRequests)
      /\ ~HasMore(p) => reading' = FALSE
  BY DEF ReadPage, Parses, NextOffset, MayGoOn
<1>2. Quiet /\ Capped' = Capped /\ Readable' = Readable /\ Wanted' = Wanted
  BY <1>1 DEF Quiet, Capped, Readable, Wanted
<1>3. /\ list = [m \in 1..initial |-> m]
      /\ offset <= initial
      /\ bad # 0 => bad > offset
      /\ items = SubSeq(list, 1, offset)
  BY <1>1, <1>2 DEF ListingInv, QuietInv
<1>4. /\ initial \in Nat /\ offset \in Nat /\ n \in Nat /\ bad \in 0..initial
      /\ list \in Seq(Nat) /\ requests \in Nat /\ offset = requests * PageLimit
      /\ Capped => requests < MaxRequests
  BY <1>1, CountedSets DEF ListingInv, ListingTypeInv
<1>5. n = initial
  BY <1>3, <1>4, LenProperties
<1>6. /\ p = SubSeq(list, offset + 1, e)
      /\ ~(n <= offset)
      /\ HasMore(p) <=> offset + PageLimit <= n
      /\ Len(p) = e - offset
      /\ \A x : x \in Range(p) <=> \E m \in 1..Len(p) : x = list[offset + m]
  BY <1>1, <1>3, <1>5, ServerPageProperties DEF ListingInv
<1>7. e = IF offset + PageLimit < n THEN offset + PageLimit ELSE n
  BY DEF Smaller
<1> HIDE DEF n, e, p
<1>8. /\ e \in Nat /\ offset < e /\ e <= n
      /\ HasMore(p) => e = offset + PageLimit
      /\ ~HasMore(p) => e = n /\ n < offset + PageLimit
  BY <1>4, <1>6, <1>7, Limits
<1>9. items' = SubSeq(list, 1, e)
  <2>1. 1 \in 1..(Len(list) + 1) /\ offset \in (1 - 1)..Len(list) /\ e \in offset..Len(list)
    BY SMTT(30), <1>4, <1>6, <1>8 DEF n
  <2>2. SubSeq(list, 1, offset) \o SubSeq(list, offset + 1, e) = SubSeq(list, 1, e)
    BY <1>4, <2>1, ConcatAdjacentSubSeq
  <2> QED BY <1>1, <1>3, <1>6, <2>2
<1>10. bad # 0 => bad > e
  <2> SUFFICES ASSUME bad # 0, bad <= e PROVE FALSE
    BY <1>4, <1>8
  <2>1. bad \in 1..initial /\ bad - offset \in 1..Len(p) /\ offset + (bad - offset) = bad
    BY SMTT(30), <1>3, <1>4, <1>6, <1>8
  <2>2. list[bad] = bad
    BY <1>3, <2>1
  <2> QED BY <1>1, <1>6, <2>1, <2>2
<1>11. ASSUME reading'
       PROVE  /\ offset' <= initial' /\ (bad' # 0 => bad' > offset')
              /\ items' = SubSeq(list', 1, offset')
  <2>1. HasMore(p) /\ offset' = e
    BY <1>1, <1>8, <1>11
  <2> QED BY <1>1, <1>5, <1>8, <1>9, <1>10, <2>1
<1>12. ASSUME ~reading'
       PROVE  items' = SubSeq(list', 1, Wanted')
  <2>1. /\ cap \in Nat /\ requests * PageLimit \in Nat
        /\ (requests + 1) * PageLimit = offset + PageLimit
        /\ Capped => (requests + 1) * PageLimit <= cap
    BY <1>4, Multiples, Limits
  <2> DEFINE c == cap
  <2> HIDE DEF cap
  <2>2. CASE ~HasMore(p)
    <3>1. bad = 0 /\ e = n
      BY <1>4, <1>5, <1>8, <1>10, <2>2
    <3>2. Readable = n
      BY <3>1 DEF Readable, n
    <3>3. Capped => ~(cap < n)
      BY <1>4, <1>8, <2>1, <2>2, Limits
    <3>4. Wanted = n
      BY <3>2, <3>3 DEF Wanted, Smaller, cap
    <3> QED BY <1>1, <1>2, <1>9, <3>1, <3>4
  <2>3. CASE HasMore(p)
    <3>1. Capped /\ ~(requests + 1 < MaxRequests)
      BY <1>1, <1>12, <2>3
    <3>2. requests + 1 = MaxRequests
      BY <1>4, <3>1, Limits
    <3>3. cap = e
      BY <1>8, <2>1, <2>3, <3>2 DEF cap
    <3>4. Readable \in Nat /\ cap <= Readable
      <4>1. CASE bad = 0
        BY <1>4, <1>8, <3>3, <4>1 DEF Readable, n
      <4>2. CASE bad # 0
        <5>1. bad - 1 \in Nat /\ MaxRequests * PageLimit <= bad - 1
          BY <1>4, <1>8, <1>10, <3>3, <4>2 DEF cap
        <5> DEFINE d == (bad - 1) \div PageLimit
        <5>2. d \in Nat /\ MaxRequests * PageLimit <= d * PageLimit
          BY <5>1, Quotient, Limits
        <5>3. Readable = d * PageLimit
          BY <4>2 DEF Readable
        <5> HIDE DEF d
        <5> QED BY <5>2, <5>3, Multiples DEF cap
      <4> QED BY <4>1, <4>2
    <3>5. Wanted = IF cap < Readable THEN cap ELSE Readable
      BY <3>1 DEF Wanted, Smaller, cap
    <3>6. Wanted = e
      BY <1>8, <3>3, <3>4, <3>5
    <3> QED BY <1>1, <1>2, <1>9, <3>6
  <2> QED BY <2>2, <2>3
<1> QED BY <1>1, <1>3, <1>11, <1>12 DEF QuietInv

\* A page G is read after R; A were ahead and B are ahead now.
LEMMA CountPage ==
  ASSUME NEW R, IsFiniteSet(R), NEW G, IsFiniteSet(G), NEW A, NEW B,
         G \in SUBSET A, B \in SUBSET A, G \cap B = {}
  PROVE  /\ Cardinality(R) \in Nat /\ Cardinality(G) \in Nat
         /\ Cardinality(R \cup G) \in Nat /\ Cardinality(R \cap G) \in Nat
         /\ Cardinality(R \cap A) \in Nat /\ Cardinality((R \cup G) \cap B) \in Nat
         /\ Cardinality(R \cup G) = Cardinality(R) + Cardinality(G) - Cardinality(R \cap G)
         /\ Cardinality(R \cap G) + Cardinality((R \cup G) \cap B) <= Cardinality(R \cap A)
<1> DEFINE X == R \cap G
           Y == (R \cup G) \cap B
           Z == R \cap A
<1>1. IsFiniteSet(X) /\ IsFiniteSet(Z) /\ IsFiniteSet(R \cup G) /\ IsFiniteSet(Y)
  BY FS_Intersection, FS_Union
<1>2. Cardinality(R \cup G) = Cardinality(R) + Cardinality(G) - Cardinality(X)
  BY FS_Union
<1>3. X \cap Y = {} /\ X \cup Y \in SUBSET Z
  OBVIOUS
<1>4. /\ Cardinality(R) \in Nat /\ Cardinality(G) \in Nat /\ Cardinality(R \cup G) \in Nat
      /\ Cardinality(X) \in Nat /\ Cardinality(Y) \in Nat /\ Cardinality(Z) \in Nat
  BY <1>1, FS_CardinalityType
<1> HIDE DEF X, Y, Z
<1>5. Cardinality(X \cup Y) = Cardinality(X) + Cardinality(Y) - 0
  BY <1>1, <1>3, FS_Union, FS_EmptySet
<1>6. Cardinality(X \cup Y) <= Cardinality(Z)
  BY <1>1, <1>3, FS_Subset
<1>7. Cardinality(X) + Cardinality(Y) <= Cardinality(Z)
  BY <1>4, <1>5, <1>6
<1> QED BY <1>2, <1>4, <1>7 DEF X, Y, Z

LEMMA ReadPageCounts ==
  ASSUME ListingInv, ReadPage, mode' = mode
  PROVE  MissedInv' /\ RepeatedInv'
<1> DEFINE p == ServerPage
           rest == {list[m] : m \in (offset + PageLimit + 1)..Len(list)}
           R == Range(items)
           G == Range(p)
<1>1. /\ reading /\ items' = items \o p
      /\ UNCHANGED <<bad, list, failed, initial, moved, removed>>
      /\ HasMore(p) => /\ offset' = offset + PageLimit
                       /\ reading' = (Capped => requests + 1 < MaxRequests)
      /\ ~HasMore(p) => reading' = FALSE
  BY DEF ReadPage, NextOffset, MayGoOn
<1>2. /\ Untouched' = Untouched /\ Capped' = Capped
      /\ HasMore(p) => After' = rest
  BY <1>1 DEF Untouched, Capped, After
<1>3. /\ G \in SUBSET After /\ After \in SUBSET (G \cup rest) /\ G \cap rest = {}
      /\ rest \in SUBSET After
      /\ ~HasMore(p) => After \in SUBSET G
  BY PageFromAhead DEF ListingInv
<1>4. /\ p \in Seq(Nat) /\ IsInjective(p) /\ items \in Seq(Nat)
  BY ServerPageProperties DEF ListingInv, ListingTypeInv
<1>5. /\ Len(items') = Len(items) + Len(p) /\ items' \in Seq(Nat)
      /\ Len(items) \in Nat /\ Len(p) \in Nat /\ Len(moved) \in Nat
  BY <1>1, <1>4, ConcatProperties, LenProperties DEF ListingInv, ListingTypeInv
<1>6. Range(items') = R \cup G
  <2>1. \A x : x \in Range(items') <=> \E m \in 1..Len(items') : x = items'[m]
    BY <1>5, RangeProperties
  <2>2. \A x : x \in R <=> \E m \in 1..Len(items) : x = items[m]
    BY <1>4, RangeProperties
  <2>3. \A x : x \in G <=> \E m \in 1..Len(p) : x = p[m]
    BY <1>4, RangeProperties
  <2>4. \A m \in 1..(Len(items) + Len(p)) :
           items'[m] = IF m <= Len(items) THEN items[m] ELSE p[m - Len(items)]
    BY <1>1, <1>4, ConcatProperties
  <2> HIDE DEF p, R, G
  <2>5. ASSUME NEW x \in Range(items') PROVE x \in R \cup G
    <3>1. PICK m \in 1..Len(items') : x = items'[m]
      BY <2>1
    <3>2. CASE m <= Len(items)
      <4>1. m \in 1..Len(items)
        BY <1>5, <3>1, <3>2
      <4> QED BY <1>5, <2>2, <2>4, <3>1, <3>2, <4>1
    <3>3. CASE ~(m <= Len(items))
      <4>1. m - Len(items) \in 1..Len(p)
        BY <1>5, <3>1, <3>3
      <4> QED BY <1>5, <2>3, <2>4, <3>1, <3>3, <4>1
    <3> QED BY <3>2, <3>3
  <2>6. ASSUME NEW x \in R PROVE x \in Range(items')
    <3>1. PICK m \in 1..Len(items) : x = items[m]
      BY <2>2
    <3>2. m \in 1..(Len(items) + Len(p)) /\ m <= Len(items)
      BY <1>5, <3>1
    <3> QED BY <1>5, <2>1, <2>4, <3>1, <3>2
  <2>7. ASSUME NEW x \in G PROVE x \in Range(items')
    <3>1. PICK m \in 1..Len(p) : x = p[m]
      BY <2>3
    <3> DEFINE l == Len(items) + m
    <3>2. l \in 1..(Len(items) + Len(p)) /\ ~(l <= Len(items)) /\ l - Len(items) = m
      BY <1>5, <3>1
    <3> HIDE DEF l
    <3>3. items'[l] = x
      BY <2>4, <3>1, <3>2
    <3> QED BY <1>5, <2>1, <3>2, <3>3
  <2> QED BY <2>5, <2>6, <2>7
<1>7. /\ IsFiniteSet(R) /\ IsFiniteSet(G) /\ Cardinality(G) = Len(p)
      /\ IsFiniteSet(Untouched)
  BY <1>4, RangeProperties, CountedSets DEF ListingInv
<1>8. MissedInv'
  <2> DEFINE old == Untouched \ (After \cup R)
  <2>1. IsFiniteSet(old) /\ Cardinality(old) <= Cardinality(removed)
        /\ Cardinality(removed) \in Nat
    BY <1>1, <1>7, FS_Difference, CountedSets DEF ListingInv, MissedInv
  <2>2. CASE reading'
    <3> DEFINE new == Untouched \ (rest \cup (R \cup G))
    <3>1. new \in SUBSET old
      BY <1>3
    <3>2. Cardinality(new) <= Cardinality(old) /\ Cardinality(new) \in Nat
          /\ Cardinality(old) \in Nat
      BY <2>1, <3>1, FS_Subset, FS_CardinalityType
    <3> HIDE DEF old, new
    <3>3. Cardinality(new) <= Cardinality(removed)
      BY <2>1, <3>2
    <3>4. After' = rest
      BY <1>1, <1>2, <2>2
    <3> QED BY <1>1, <1>2, <1>6, <2>2, <3>3, <3>4 DEF MissedInv, new
  <2>3. CASE ~reading' /\ ~Capped
    <3> DEFINE new == Untouched \ (R \cup G)
    <3>1. ~HasMore(p)
      BY <1>1, <2>3
    <3>2. new \in SUBSET old
      BY <1>3, <3>1
    <3>3. Cardinality(new) <= Cardinality(old) /\ Cardinality(new) \in Nat
          /\ Cardinality(old) \in Nat
      BY <2>1, <3>2, FS_Subset, FS_CardinalityType
    <3> HIDE DEF old, new
    <3>4. Cardinality(new) <= Cardinality(removed)
      BY <2>1, <3>3
    <3> QED BY <1>1, <1>2, <1>6, <2>3, <3>4 DEF MissedInv, new
  <2> QED BY <1>2, <2>2, <2>3 DEF MissedInv
<1>9. RepeatedInv'
  <2>1. Len(items) + Cardinality(R \cap After) <= Len(moved) + Cardinality(R)
    BY <1>1 DEF ListingInv, RepeatedInv
  <2>2. CASE reading'
    <3>1. After' = rest
      BY <1>1, <1>2, <2>2
    <3> DEFINE a == Cardinality(R)
               b == Cardinality(G)
               c == Cardinality(R \cup G)
               d == Cardinality(R \cap G)
               e == Cardinality(R \cap After)
               f == Cardinality((R \cup G) \cap rest)
    <3>2. /\ a \in Nat /\ b \in Nat /\ c \in Nat /\ d \in Nat /\ e \in Nat /\ f \in Nat
          /\ c = a + b - d /\ d + f <= e
      <4> HIDE DEF rest, R, G
      <4> QED BY <1>3, <1>7, CountPage
    <3>3. Len(items') + f <= Len(moved) + c
      <4>1. Len(items) + e <= Len(moved) + a /\ b = Len(p)
        BY <1>7, <2>1
      <4> HIDE DEF a, b, c, d, e, f
      <4> QED BY <1>5, <3>2, <4>1
    <3> QED BY <1>1, <1>6, <2>2, <3>1, <3>3 DEF RepeatedInv
  <2>3. CASE ~reading'
    <3> DEFINE a == Cardinality(R)
               b == Cardinality(G)
               c == Cardinality(R \cup G)
               d == Cardinality(R \cap G)
               e == Cardinality(R \cap After)
               f == Cardinality((R \cup G) \cap {})
    <3>1. /\ a \in Nat /\ b \in Nat /\ c \in Nat /\ d \in Nat /\ e \in Nat /\ f \in Nat
          /\ c = a + b - d /\ d + f <= e
      <4>1. {} \in SUBSET After /\ G \cap {} = {}
        OBVIOUS
      <4> HIDE DEF R, G
      <4> QED BY <1>3, <1>7, <4>1, CountPage
    <3>2. Len(items') + 0 <= Len(moved) + c
      <4>1. Len(items) + e <= Len(moved) + a /\ b = Len(p)
        BY <1>7, <2>1
      <4> HIDE DEF a, b, c, d, e, f
      <4> QED BY <1>5, <3>1, <4>1
    <3> QED BY <1>1, <1>6, <2>3, <3>2 DEF RepeatedInv
  <2> QED BY <2>2, <2>3
<1> QED BY <1>8, <1>9

LEMMA ReadNothingStep ==
  ASSUME ListingInv, ReadNothing, mode' = mode
  PROVE  ListingInv'
<1> DEFINE n == Len(list)
           p == ServerPage
<1>1. /\ reading /\ reading' = FALSE
      /\ failed' \in {p # <<>> /\ Parses(p), TRUE}
      /\ UNCHANGED <<bad, list, offset, items, requests, initial, moved, removed>>
  BY DEF ReadNothing
<1>2. failed' \in BOOLEAN /\ (~failed' => p = <<>> \/ bad \in Range(p))
  BY <1>1 DEF Parses
<1>3. /\ Capped' = Capped /\ Untouched' = Untouched /\ Readable' = Readable /\ Wanted' = Wanted
      /\ Unused' = Unused
  BY <1>1 DEF Capped, Untouched, Readable, Wanted, Unused
<1>4. ListingTypeInv'
  BY <1>1, <1>2, <1>3 DEF ListingInv, ListingTypeInv, IsInjective
<1>5. ChangesInv'
  BY <1>1, <1>3 DEF ListingInv, ChangesInv
<1>6. /\ initial \in Nat /\ offset \in Nat /\ n \in Nat /\ bad \in 0..initial
      /\ list \in Seq(Nat) /\ requests \in Nat /\ offset = requests * PageLimit
      /\ Capped => requests < MaxRequests
      /\ ~failed
  BY <1>1, CountedSets DEF ListingInv, ListingTypeInv
<1>7. /\ p = <<>> <=> n <= offset
      /\ Len(p) \in Nat
      /\ offset <= n => Len(p) = Smaller(offset + PageLimit, n) - offset
      /\ \A m \in 1..Len(p) : offset + m \in 1..n
      /\ \A x : x \in Range(p) <=> \E m \in 1..Len(p) : x = list[offset + m]
  BY ServerPageProperties DEF ListingInv
<1> HIDE DEF p
<1>8. QuietInv'
  <2> SUFFICES ASSUME Quiet'
               PROVE  QuietInv'
    BY DEF QuietInv
  <2>1. Quiet /\ ~failed'
    BY <1>1, <1>6 DEF Quiet
  <2>2. /\ list = [m \in 1..initial |-> m]
        /\ offset <= initial
        /\ bad # 0 => bad > offset
        /\ items = SubSeq(list, 1, offset)
    BY <1>1, <2>1 DEF ListingInv, QuietInv
  <2>3. n = initial
    BY <1>6, <2>2, LenProperties
  <2>4. Readable = offset
    <3>1. CASE p = <<>>
      <4>1. n = offset /\ bad = 0
        BY <1>6, <1>7, <2>2, <2>3, <3>1
      <4> QED BY <4>1 DEF Readable
    <3>2. CASE bad \in Range(p)
      <4>1. PICK m \in 1..Len(p) : bad = list[offset + m]
        BY <1>7, <3>2
      <4>2. offset + m \in 1..n /\ m <= PageLimit
        BY <1>6, <1>7, <2>2, <2>3, Limits DEF Smaller
      <4>3. bad = offset + m
        BY <2>2, <2>3, <4>1, <4>2
      <4> DEFINE o == requests * PageLimit
      <4>4. bad - 1 \in Nat /\ o <= bad - 1 /\ bad - 1 < o + PageLimit /\ bad # 0
        <5>1. o = offset
          BY <1>6
        <5> HIDE DEF o
        <5> QED BY <1>6, <4>2, <4>3, <5>1, Limits
      <4>5. ((bad - 1) \div PageLimit) * PageLimit = offset
        BY <1>6, <4>4, Quotient
      <4> QED BY <4>4, <4>5 DEF Readable
    <3> QED BY <1>2, <2>1, <3>1, <3>2
  <2>5. Wanted = offset
    <3> DEFINE cap == MaxRequests * PageLimit
    <3>1. Capped => offset <= cap
      BY <1>6, Multiples, Limits
    <3>2. cap \in Nat
      BY Multiples, Limits
    <3>3. Wanted = IF Capped THEN IF cap < Readable THEN cap ELSE Readable ELSE Readable
      BY DEF Wanted, Smaller
    <3> HIDE DEF cap
    <3> QED BY <1>6, <2>4, <3>1, <3>2, <3>3
  <2> QED BY <1>1, <1>3, <2>2, <2>5 DEF QuietInv
<1>9. MissedInv'
  <2> SUFFICES ASSUME ~failed', bad = 0
               PROVE  Cardinality(Untouched \ Range(items)) <= Cardinality(removed)
    BY <1>1, <1>3 DEF MissedInv
  <2>1. p = <<>>
    <3>1. \A m \in 1..Len(p) : list[offset + m] # 0
      <4>1. \A m \in 1..n : list[m] \in Range(list)
        BY <1>6, RangeProperties
      <4> QED BY <1>7, <4>1 DEF ListingInv, ChangesInv
    <3> QED BY <1>2, <1>7, <3>1
  <2>2. After = {}
    <3>1. (offset + 1)..n = {}
      BY <1>6, <1>7, <2>1
    <3> QED BY <3>1 DEF After
  <2>3. Cardinality(Untouched \ (After \cup Range(items))) <= Cardinality(removed)
    BY <1>1 DEF ListingInv, MissedInv
  <2>4. Untouched \ (After \cup Range(items)) = Untouched \ Range(items)
    BY <2>2
  <2> QED BY <2>3, <2>4
<1>10. RepeatedInv'
  <2> DEFINE e == Cardinality(Range(items) \cap After)
             r == Cardinality(Range(items))
  <2>1. e \in Nat /\ r \in Nat /\ Len(items) \in Nat /\ Len(moved) \in Nat
    BY CountedSets, FS_Intersection, FS_CardinalityType DEF ListingInv
  <2>2. Len(items) + e <= Len(moved) + r
    BY <1>1 DEF ListingInv, RepeatedInv
  <2>3. Len(items) + 0 <= Len(moved) + r
    <3> HIDE DEF e, r
    <3> QED BY <2>1, <2>2
  <2> QED BY <1>1, <2>3 DEF RepeatedInv
<1> QED BY <1>4, <1>5, <1>8, <1>9, <1>10 DEF ListingInv

LEMMA ListingStutters ==
  ASSUME ListingInv, UNCHANGED listingVars, mode' = mode
  PROVE  ListingInv'
<1>1. UNCHANGED <<bad, list, offset, items, requests, reading, failed, initial, moved,
                  removed>>
  BY DEF listingVars
<1>2. /\ Capped' = Capped /\ Untouched' = Untouched /\ Readable' = Readable /\ Wanted' = Wanted
      /\ Unused' = Unused /\ After' = After /\ Quiet' = Quiet
  BY <1>1 DEF Capped, Untouched, Readable, Wanted, Unused, After, Quiet
<1>3. ListingTypeInv'
  BY <1>1, <1>2 DEF ListingInv, ListingTypeInv, IsInjective
<1>4. ChangesInv' /\ QuietInv'
  BY <1>1, <1>2 DEF ListingInv, ChangesInv, QuietInv
<1>5. MissedInv' /\ RepeatedInv'
  BY <1>1, <1>2 DEF ListingInv, MissedInv, RepeatedInv
<1> QED BY <1>3, <1>4, <1>5 DEF ListingInv

---------------------------------------------------------------------------
(* Changes of the list on the server. *)

\* What one more card can do to a count.
LEMMA OneMore ==
  ASSUME NEW X, IsFiniteSet(X), NEW Y, NEW y, Y \in SUBSET (X \cup {y})
  PROVE  /\ Cardinality(X) \in Nat /\ Cardinality(Y) \in Nat
         /\ Cardinality(Y) <= Cardinality(X) + 1
         /\ Y \in SUBSET X => Cardinality(Y) <= Cardinality(X)
<1>1. IsFiniteSet(X \cup {y}) /\ Cardinality(X \cup {y}) <= Cardinality(X) + 1
      /\ Cardinality(X) \in Nat
  BY FS_AddElement, FS_CardinalityType
<1>2. IsFiniteSet(Y) /\ Cardinality(Y) <= Cardinality(X \cup {y})
  BY <1>1, FS_Subset
<1>3. Cardinality(Y) \in Nat /\ Cardinality(X \cup {y}) \in Nat
  BY <1>1, <1>2, FS_CardinalityType
<1>4. Cardinality(Y) <= Cardinality(X) + 1
  BY <1>1, <1>2, <1>3
<1> QED BY <1>1, <1>3, <1>4, FS_Subset

\* One more item is moved to the front.
LEMMA MovedGrows ==
  ASSUME moved \in Seq(Nat), NEW x \in Nat, moved' = Append(moved, x)
  PROVE  /\ moved' \in Seq(Nat) /\ Len(moved) \in Nat /\ Len(moved') = Len(moved) + 1
         /\ moved' # <<>>
         /\ Range(moved) \in SUBSET Range(moved') /\ x \in Range(moved')
<1>1. /\ moved' \in Seq(Nat) /\ Len(moved') = Len(moved) + 1 /\ Len(moved) \in Nat
      /\ \A m \in 1..Len(moved) : moved'[m] = moved[m]
      /\ moved'[Len(moved) + 1] = x
  BY AppendProperties, LenProperties
<1>2. moved' # <<>>
  BY <1>1, EmptySeq
<1>3. /\ \A y : y \in Range(moved') <=> \E m \in 1..Len(moved') : y = moved'[m]
      /\ \A y : y \in Range(moved) <=> \E m \in 1..Len(moved) : y = moved[m]
  BY ZenonT(60), <1>1, RangeProperties
<1>4. /\ \A m \in 1..Len(moved) : m \in 1..Len(moved')
      /\ Len(moved) + 1 \in 1..Len(moved')
  BY <1>1
<1> QED BY <1>1, <1>2, <1>3, <1>4

\* When a change may come.
LEMMA MayChange ==
  ASSUME ListingInv, ListMayChange
  PROVE  /\ reading /\ ~failed /\ bad = 0 /\ ~Capped
         /\ Len(moved) + Cardinality(removed) + 1 <= MaxChanges
         /\ Len(moved) \in Nat /\ Cardinality(removed) \in Nat
<1>1. Len(moved) \in Nat /\ Cardinality(removed) \in Nat
  BY CountedSets DEF ListingInv
<1> QED BY <1>1, Limits DEF ListMayChange, ListingInv, ListingTypeInv, Capped

LEMMA CardUpdatedStep ==
  ASSUME ListingInv, NEW n \in DOMAIN list, CardUpdated(n), mode' = mode
  PROVE  ListingInv'
<1> DEFINE len == Len(list)
           x == list[n]
           y == list[offset]
           R == Range(items)
<1>1. /\ list' = <<x>> \o RemoveAt(list, n)
      /\ moved' = Append(moved, x)
      /\ UNCHANGED <<bad, offset, items, requests, reading, failed, initial, removed>>
      /\ ListMayChange
  BY DEF CardUpdated
<1>2. /\ reading /\ ~failed /\ bad = 0 /\ ~Capped /\ Capped' = Capped
      /\ Len(moved) + Cardinality(removed) + 1 <= MaxChanges
      /\ Len(moved) \in Nat /\ Cardinality(removed) \in Nat
  BY <1>1, MayChange DEF Capped
<1>3. /\ list \in Seq(Nat) /\ IsInjective(list) /\ len \in Nat /\ n \in 1..len
      /\ x \in Nat /\ x \in Range(list)
      /\ offset \in Nat /\ moved \in Seq(Nat) /\ initial \in Nat
  <2>1. list \in Seq(Nat) /\ IsInjective(list) /\ moved \in Seq(Nat)
    BY DEF ListingInv, ListingTypeInv
  <2>2. len \in Nat /\ n \in 1..len
    BY <2>1, LenProperties
  <2>3. x \in Nat
    BY <2>1, <2>2, ElementOfSeq
  <2> QED BY <2>1, <2>2, <2>3, CountedSets, RangeProperties DEF ListingInv
<1>4. /\ list' \in Seq(Nat) /\ Len(list') = len
      /\ \A m \in 1..len :
            list'[m] = IF m = 1 THEN x ELSE IF m <= n THEN list[m - 1] ELSE list[m]
      /\ IsInjective(list)' /\ Range(list)' = Range(list)
  <2>1. IsInjective(list') /\ Range(list') = Range(list)
    BY <1>1, <1>3, InjectiveChanges
  <2>2. /\ list' \in Seq(Nat) /\ Len(list') = len
        /\ \A m \in 1..len :
              list'[m] = IF m = 1 THEN x ELSE IF m <= n THEN list[m - 1] ELSE list[m]
    <3> DEFINE t == <<list[n]>> \o RemoveAt(list, n)
    <3>1. list' = t
      BY <1>1
    <3>2. list \in Seq(Nat) /\ n \in 1..Len(list)
      BY <1>3
    <3>3. /\ t \in Seq(Nat) /\ Len(t) = Len(list)
          /\ \A m \in 1..Len(list) :
                t[m] = IF m = 1 THEN list[n] ELSE IF m <= n THEN list[m - 1] ELSE list[m]
      BY ONLY <3>2, MoveProperties
    <3> HIDE DEF t
    <3> QED BY <3>1, <3>3
  <2>3. IsInjective(list)' /\ Range(list)' = Range(list)
    BY <2>1 DEF IsInjective, Range
  <2> QED BY <2>2, <2>3
<1>5. /\ moved' \in Seq(Nat) /\ Len(moved') = Len(moved) + 1 /\ moved' # <<>>
      /\ Range(moved) \in SUBSET Range(moved)' /\ x \in Range(moved)'
  BY <1>1, <1>3, MovedGrows DEF Range
<1>6. Untouched' \in SUBSET Untouched /\ x \notin Untouched'
  BY <1>1, <1>5 DEF Untouched
<1>7. ListingTypeInv'
  <2>1. Len(moved') + Cardinality(removed') <= MaxChanges
    BY <1>1, <1>2, <1>5, Limits
  <2> QED BY <1>1, <1>2, <1>4, <1>5, <2>1 DEF ListingInv, ListingTypeInv
<1>8. ChangesInv'
  <2>1. Unused \in Nat /\ Unused' \in Nat /\ Unused <= Unused'
    BY <1>1, <1>3, UnusedGrows, UnusedProperties
  <2>2. \A c \in Range(list) \cup removed : c \in Nat /\ c < Unused
    BY <1>3, RangeProperties DEF ListingInv, ListingTypeInv, ChangesInv
  <2>3. \A c \in Range(list) \cup removed : c < Unused'
    BY <2>1, <2>2
  <2> QED BY <1>1, <1>4, <1>6, <2>3 DEF ListingInv, ChangesInv
<1>9. QuietInv'
  BY <1>5 DEF QuietInv, Quiet
<1>10. After \in SUBSET (After' \cup {x}) /\ After' \in SUBSET (After \cup {y})
  <2>1. /\ After = {list[m] : m \in (offset + 1)..len}
        /\ After' = {list'[m] : m \in (offset + 1)..len}
    BY <1>1, <1>4 DEF After
  <2> HIDE DEF len, x, y
  <2>2. ASSUME NEW m \in (offset + 1)..len PROVE list[m] \in After' \cup {x}
    <3>1. CASE m = n
      BY <3>1 DEF x
    <3>2. CASE m < n
      <4>1. m + 1 \in (offset + 1)..len /\ m + 1 \in 1..len /\ m + 1 # 1 /\ m + 1 <= n
            /\ (m + 1) - 1 = m
        BY <1>3, <3>2
      <4>2. list'[m + 1] = list[m]
        BY <1>4, <4>1
      <4> QED BY <2>1, <4>1, <4>2
    <3>3. CASE m > n
      <4>1. m \in 1..len /\ m # 1 /\ ~(m <= n)
        BY <1>3, <3>3
      <4>2. list'[m] = list[m]
        BY <1>4, <4>1
      <4> QED BY <2>1, <4>2
    <3> QED BY <1>3, <3>1, <3>2, <3>3
  <2>3. ASSUME NEW m \in (offset + 1)..len PROVE list'[m] \in After \cup {y}
    <3>1. m \in 1..len
      BY <1>3
    <3>2. CASE m = 1
      <4>1. list'[m] = list[n] /\ n \in (offset + 1)..len
        BY <1>3, <1>4, <3>1, <3>2 DEF x
      <4> QED BY <2>1, <4>1
    <3>3. CASE m # 1 /\ m <= n
      <4>1. list'[m] = list[m - 1]
        BY <1>4, <3>1, <3>3
      <4>2. m - 1 = offset \/ m - 1 \in (offset + 1)..len
        BY <1>3, <3>1
      <4> QED BY <2>1, <4>1, <4>2 DEF y
    <3>4. CASE m # 1 /\ ~(m <= n)
      BY <1>4, <2>1, <3>1, <3>4
    <3> QED BY <3>2, <3>3, <3>4
  <2> QED BY <2>1, <2>2, <2>3
<1>11. MissedInv'
  <2> DEFINE old == Untouched \ (After \cup R)
             new == Untouched' \ (After' \cup R)
  <2>1. Cardinality(old) <= Cardinality(removed)
    BY <1>2 DEF ListingInv, MissedInv
  <2>2. new \in SUBSET old
    BY <1>6, <1>10
  <2>3. IsFiniteSet(old)
    BY CountedSets, FS_Difference DEF ListingInv
  <2> HIDE DEF old, new
  <2>4. Cardinality(old) \in Nat /\ Cardinality(new) \in Nat
        /\ Cardinality(new) <= Cardinality(old)
    BY <2>2, <2>3, OneMore
  <2>5. Cardinality(new) <= Cardinality(removed)
    BY <1>2, <2>1, <2>4
  <2> QED BY <1>1, <1>2, <2>5 DEF MissedInv, new
<1>12. RepeatedInv'
  <2> DEFINE old == R \cap After
             new == R \cap After'
  <2>1. Len(items) + Cardinality(old) <= Len(moved) + Cardinality(R)
    BY <1>2 DEF ListingInv, RepeatedInv
  <2>2. new \in SUBSET (old \cup {y})
    BY <1>10
  <2>3. IsFiniteSet(old) /\ Cardinality(R) \in Nat /\ Len(items) \in Nat
    BY CountedSets, FS_Intersection DEF ListingInv
  <2> HIDE DEF old, new
  <2>4. Cardinality(old) \in Nat /\ Cardinality(new) \in Nat
        /\ Cardinality(new) <= Cardinality(old) + 1
    BY <2>2, <2>3, OneMore
  <2> HIDE DEF R
  <2>5. Len(items) + Cardinality(new) <= Len(moved') + Cardinality(R)
    BY <1>2, <1>5, <2>1, <2>3, <2>4
  <2> QED BY <1>1, <1>2, <2>5 DEF RepeatedInv, new, R
<1> QED BY <1>7, <1>8, <1>9, <1>11, <1>12 DEF ListingInv

LEMMA CardAppearsStep ==
  ASSUME ListingInv, CardAppears, mode' = mode
  PROVE  ListingInv'
<1> DEFINE len == Len(list)
           x == Unused
           y == IF offset = 0 THEN x ELSE list[offset]
           R == Range(items)
<1>1. /\ list' = <<x>> \o list
      /\ moved' = Append(moved, x)
      /\ UNCHANGED <<bad, offset, items, requests, reading, failed, initial, removed>>
      /\ ListMayChange
  BY DEF CardAppears
<1>2. /\ reading /\ ~failed /\ bad = 0 /\ ~Capped /\ Capped' = Capped
      /\ Len(moved) + Cardinality(removed) + 1 <= MaxChanges
      /\ Len(moved) \in Nat /\ Cardinality(removed) \in Nat
  BY <1>1, MayChange DEF Capped
<1>3. /\ list \in Seq(Nat) /\ IsInjective(list) /\ len \in Nat
      /\ offset \in Nat /\ moved \in Seq(Nat) /\ initial \in Nat
      /\ x \in Nat /\ initial < x
  <2>1. list \in Seq(Nat) /\ IsInjective(list) /\ moved \in Seq(Nat)
    BY DEF ListingInv, ListingTypeInv
  <2> QED BY <2>1, CountedSets, UnusedProperties DEF ListingInv
<1>4. \A c \in Range(list) \cup removed : c \in Nat /\ c < x
  BY <1>3, RangeProperties DEF ListingInv, ListingTypeInv, ChangesInv
<1>5. x \notin Range(list) /\ x \notin removed
  BY <1>3, <1>4
<1>6. /\ list' \in Seq(Nat) /\ Len(list') = len + 1
      /\ \A m \in 1..(len + 1) : list'[m] = IF m = 1 THEN x ELSE list[m - 1]
      /\ IsInjective(list)' /\ Range(list)' = Range(list) \cup {x}
  <2>1. IsInjective(list') /\ Range(list') = Range(list) \cup {x}
    BY <1>1, <1>3, <1>5, InjectiveChanges
  <2>2. /\ list' \in Seq(Nat) /\ Len(list') = len + 1
        /\ \A m \in 1..(len + 1) : list'[m] = IF m = 1 THEN x ELSE list[m - 1]
    BY <1>1, <1>3, FrontProperties
  <2>3. IsInjective(list)' /\ Range(list)' = Range(list) \cup {x}
    BY <2>1 DEF IsInjective, Range
  <2> QED BY <2>2, <2>3
<1>7. /\ moved' \in Seq(Nat) /\ Len(moved') = Len(moved) + 1 /\ moved' # <<>>
      /\ Range(moved) \in SUBSET Range(moved)' /\ x \in Range(moved)'
  BY <1>1, <1>3, MovedGrows DEF Range
<1>8. Untouched' \in SUBSET Untouched
  BY <1>1, <1>7 DEF Untouched
<1>9. ListingTypeInv'
  <2>1. Len(moved') + Cardinality(removed') <= MaxChanges
    BY <1>1, <1>2, <1>7, Limits
  <2> QED BY <1>1, <1>2, <1>6, <1>7, <2>1 DEF ListingInv, ListingTypeInv
<1>10. ChangesInv'
  <2>1. x < Unused' /\ Unused' \in Nat
    BY <1>1, <1>3, UnusedGrows
  <2>2. \A c \in Range(list) \cup {x} \cup removed : c < Unused'
    <3> HIDE DEF x
    <3> QED BY <1>3, <1>4, <2>1
  <2>3. 0 # x
    <3> HIDE DEF x
    <3> QED BY <1>3
  <2>4. 0 \notin Range(list) /\ removed \cap Range(list) = {} /\ Untouched \subseteq Range(list)
    BY DEF ListingInv, ChangesInv
  <2> HIDE DEF x
  <2> QED BY <1>1, <1>5, <1>6, <1>8, <2>2, <2>3, <2>4 DEF ChangesInv
<1>11. QuietInv'
  BY <1>7 DEF QuietInv, Quiet
<1>12. After \in SUBSET After' /\ After' \in SUBSET (After \cup {y})
  <2>1. /\ After = {list[m] : m \in (offset + 1)..len}
        /\ After' = {list'[m] : m \in (offset + 1)..(len + 1)}
    BY <1>1, <1>6 DEF After
  <2> HIDE DEF len, x
  <2>2. ASSUME NEW m \in (offset + 1)..len PROVE list[m] \in After'
    <3>1. m + 1 \in (offset + 1)..(len + 1) /\ m + 1 \in 1..(len + 1) /\ m + 1 # 1
          /\ (m + 1) - 1 = m
      BY <1>3
    <3>2. list'[m + 1] = list[m]
      BY <1>6, <3>1
    <3> QED BY <2>1, <3>1, <3>2
  <2>3. ASSUME NEW m \in (offset + 1)..(len + 1) PROVE list'[m] \in After \cup {y}
    <3>1. m \in 1..(len + 1)
      BY <1>3
    <3>2. CASE m = 1
      BY <1>3, <1>6, <3>1, <3>2
    <3>3. CASE m # 1
      <4>1. list'[m] = list[m - 1]
        BY <1>6, <3>1, <3>3
      <4>2. (m - 1 = offset /\ offset # 0) \/ m - 1 \in (offset + 1)..len
        BY <1>3, <3>1, <3>3
      <4> QED BY <2>1, <4>1, <4>2
    <3> QED BY <3>2, <3>3
  <2> QED BY <2>1, <2>2, <2>3
<1>13. MissedInv'
  <2> DEFINE old == Untouched \ (After \cup R)
             new == Untouched' \ (After' \cup R)
  <2>1. Cardinality(old) <= Cardinality(removed)
    BY <1>2 DEF ListingInv, MissedInv
  <2>2. new \in SUBSET old
    BY <1>8, <1>12
  <2>3. IsFiniteSet(old)
    BY CountedSets, FS_Difference DEF ListingInv
  <2> HIDE DEF old, new
  <2>4. Cardinality(old) \in Nat /\ Cardinality(new) \in Nat
        /\ Cardinality(new) <= Cardinality(old)
    BY <2>2, <2>3, OneMore
  <2>5. Cardinality(new) <= Cardinality(removed)
    BY <1>2, <2>1, <2>4
  <2> QED BY <1>1, <1>2, <2>5 DEF MissedInv, new
<1>14. RepeatedInv'
  <2> DEFINE old == R \cap After
             new == R \cap After'
  <2>1. Len(items) + Cardinality(old) <= Len(moved) + Cardinality(R)
    BY <1>2 DEF ListingInv, RepeatedInv
  <2>2. new \in SUBSET (old \cup {y})
    BY <1>12
  <2>3. IsFiniteSet(old) /\ Cardinality(R) \in Nat /\ Len(items) \in Nat
    BY CountedSets, FS_Intersection DEF ListingInv
  <2> HIDE DEF old, new, y
  <2>4. Cardinality(old) \in Nat /\ Cardinality(new) \in Nat
        /\ Cardinality(new) <= Cardinality(old) + 1
    BY <2>2, <2>3, OneMore
  <2> HIDE DEF R
  <2>5. Len(items) + Cardinality(new) <= Len(moved') + Cardinality(R)
    BY <1>2, <1>7, <2>1, <2>3, <2>4
  <2> QED BY <1>1, <1>2, <2>5 DEF RepeatedInv, new, R
<1> QED BY <1>9, <1>10, <1>11, <1>13, <1>14 DEF ListingInv

LEMMA CardVanishesStep ==
  ASSUME ListingInv, NEW n \in DOMAIN list, CardVanishes(n), mode' = mode
  PROVE  ListingInv'
<1> DEFINE len == Len(list)
           x == list[n]
           y == list[offset + 1]
           R == Range(items)
<1>1. /\ list' = RemoveAt(list, n)
      /\ removed' = removed \cup {x}
      /\ UNCHANGED <<bad, offset, items, requests, reading, failed, initial, moved>>
      /\ ListMayChange
  BY DEF CardVanishes
<1>2. /\ reading /\ ~failed /\ bad = 0 /\ ~Capped /\ Capped' = Capped
      /\ Len(moved) + Cardinality(removed) + 1 <= MaxChanges
      /\ Len(moved) \in Nat /\ Cardinality(removed) \in Nat
  BY <1>1, MayChange DEF Capped
<1>3. /\ list \in Seq(Nat) /\ IsInjective(list) /\ len \in Nat /\ n \in 1..len
      /\ x \in Nat /\ x \in Range(list)
      /\ offset \in Nat /\ initial \in Nat
  <2>1. list \in Seq(Nat) /\ IsInjective(list)
    BY DEF ListingInv, ListingTypeInv
  <2>2. len \in Nat /\ n \in 1..len
    BY <2>1, LenProperties
  <2>3. x \in Nat
    BY <2>1, <2>2, ElementOfSeq
  <2> QED BY <2>1, <2>2, <2>3, CountedSets, RangeProperties DEF ListingInv
<1>4. /\ list' \in Seq(Nat) /\ Len(list') = len - 1
      /\ \A m \in 1..(len - 1) : list'[m] = IF m < n THEN list[m] ELSE list[m + 1]
      /\ IsInjective(list)' /\ Range(list)' = Range(list) \ {x}
  <2>1. IsInjective(list') /\ Range(list') = Range(list) \ {x}
    BY <1>1, <1>3, InjectiveChanges
  <2>2. /\ list' \in Seq(Nat) /\ Len(list') = len - 1
        /\ \A m \in 1..(len - 1) : list'[m] = IF m < n THEN list[m] ELSE list[m + 1]
    BY <1>1, <1>3, RemoveProperties
  <2>3. IsInjective(list)' /\ Range(list)' = Range(list) \ {x}
    BY <2>1 DEF IsInjective, Range
  <2> QED BY <2>2, <2>3
<1>5. /\ removed' \in SUBSET Nat /\ IsFiniteSet(removed')
      /\ Cardinality(removed') = Cardinality(removed) + 1 /\ removed' # {}
  <2>1. removed \in SUBSET Nat /\ IsFiniteSet(removed) /\ x \notin removed
    BY <1>3 DEF ListingInv, ListingTypeInv, ChangesInv
  <2> HIDE DEF x
  <2> QED BY <1>1, <1>3, <2>1, FS_AddElement
<1>6. Untouched' \in SUBSET Untouched /\ x \notin Untouched'
  BY <1>1 DEF Untouched
<1>7. ListingTypeInv'
  <2>1. Len(moved') + Cardinality(removed') <= MaxChanges
    BY <1>1, <1>2, <1>5, Limits
  <2> QED BY <1>1, <1>2, <1>4, <1>5, <2>1 DEF ListingInv, ListingTypeInv
<1>8. ChangesInv'
  <2>1. Unused' = Unused
    BY <1>1 DEF Unused
  <2>2. /\ \A c \in Range(list) \cup removed : c < Unused
        /\ 0 \notin Range(list) /\ removed \cap Range(list) = {}
        /\ Untouched \subseteq Range(list)
    BY DEF ListingInv, ChangesInv
  <2> HIDE DEF x
  <2> QED BY <1>1, <1>3, <1>4, <1>6, <2>1, <2>2 DEF ChangesInv
<1>9. QuietInv'
  BY <1>5 DEF QuietInv, Quiet
<1>10. After \in SUBSET (After' \cup {x, y}) /\ After' \in SUBSET After
  <2>1. /\ After = {list[m] : m \in (offset + 1)..len}
        /\ After' = {list'[m] : m \in (offset + 1)..(len - 1)}
    BY <1>1, <1>4 DEF After
  <2> HIDE DEF len
  <2>2. ASSUME NEW m \in (offset + 1)..len PROVE list[m] \in After' \cup {x, y}
    <3>1. CASE m = n \/ m = offset + 1
      BY <3>1
    <3>2. CASE m < n
      <4>1. m \in (offset + 1)..(len - 1) /\ m \in 1..(len - 1)
        BY <1>3, <3>2
      <4> QED BY <1>4, <2>1, <3>2, <4>1
    <3>3. CASE m > n /\ m # offset + 1
      <4>1. m - 1 \in (offset + 1)..(len - 1) /\ m - 1 \in 1..(len - 1) /\ ~(m - 1 < n)
            /\ (m - 1) + 1 = m
        BY <1>3, <3>3
      <4>2. list'[m - 1] = list[m]
        BY <1>4, <4>1
      <4> QED BY <2>1, <4>1, <4>2
    <3> QED BY <1>3, <3>1, <3>2, <3>3
  <2>3. ASSUME NEW m \in (offset + 1)..(len - 1) PROVE list'[m] \in After
    <3>1. m \in 1..(len - 1) /\ m \in (offset + 1)..len /\ m + 1 \in (offset + 1)..len
      BY <1>3
    <3> QED BY <1>4, <2>1, <3>1
  <2> QED BY <2>1, <2>2, <2>3
<1>11. MissedInv'
  <2> DEFINE old == Untouched \ (After \cup R)
             new == Untouched' \ (After' \cup R)
  <2>1. Cardinality(old) <= Cardinality(removed)
    BY <1>2 DEF ListingInv, MissedInv
  <2>2. new \in SUBSET (old \cup {y})
    BY <1>6, <1>10
  <2>3. IsFiniteSet(old)
    BY CountedSets, FS_Difference DEF ListingInv
  <2> HIDE DEF old, new, y
  <2>4. Cardinality(old) \in Nat /\ Cardinality(new) \in Nat
        /\ Cardinality(new) <= Cardinality(old) + 1
    BY <2>2, <2>3, OneMore
  <2>5. Cardinality(new) <= Cardinality(removed')
    BY <1>2, <1>5, <2>1, <2>4
  <2> QED BY <1>1, <1>2, <2>5 DEF MissedInv, new
<1>12. RepeatedInv'
  <2> DEFINE old == R \cap After
             new == R \cap After'
  <2>1. Len(items) + Cardinality(old) <= Len(moved) + Cardinality(R)
    BY <1>2 DEF ListingInv, RepeatedInv
  <2>2. new \in SUBSET old
    BY <1>10
  <2>3. IsFiniteSet(old) /\ Cardinality(R) \in Nat /\ Len(items) \in Nat
    BY CountedSets, FS_Intersection DEF ListingInv
  <2> HIDE DEF old, new
  <2>4. Cardinality(old) \in Nat /\ Cardinality(new) \in Nat
        /\ Cardinality(new) <= Cardinality(old)
    BY <2>2, <2>3, OneMore
  <2> HIDE DEF R
  <2>5. Len(items) + Cardinality(new) <= Len(moved) + Cardinality(R)
    BY <1>2, <2>1, <2>3, <2>4
  <2> QED BY <1>1, <1>2, <2>5 DEF RepeatedInv, new, R
<1> QED BY <1>7, <1>8, <1>9, <1>11, <1>12 DEF ListingInv

---------------------------------------------------------------------------
(* The invariant, and what follows from it. *)

LEMMA ListingInvInit ==
  ASSUME ListingInit
  PROVE  ListingInv
<1>1. /\ initial \in 0..MaxItems /\ initial \in Nat
      /\ list = [n \in 1..initial |-> n]
      /\ bad \in 0..initial /\ offset = 0 /\ items = <<>> /\ requests = 0
      /\ reading = TRUE /\ failed = FALSE /\ moved = <<>> /\ removed = {}
  BY Limits DEF ListingInit
<1>2. list \in Seq(Nat) /\ Len(list) = initial /\ DOMAIN list = 1..initial
  <2>1. list \in [1..initial -> Nat]
    BY <1>1
  <2>2. list \in Seq(Nat)
    BY <1>1, <2>1, IsASeq
  <2> QED BY <1>1, <2>2, LenProperties
<1>3. /\ <<>> \in Seq(Nat) /\ Len(<<>>) = 0 /\ DOMAIN <<>> = {} /\ Range(<<>>) = {}
  BY DEF Range
<1>4. Range(list) = 1..initial
  BY <1>1, <1>2 DEF Range
<1>5. Cardinality({}) = 0 /\ IsFiniteSet({})
  BY FS_EmptySet
<1>6. ListingTypeInv
  <2>1. 0 = 0 * PageLimit
    BY Multiples
  <2>2. IsInjective(list)
    BY <1>1, <1>2 DEF IsInjective
  <2>3. Len(moved) + Cardinality(removed) <= MaxChanges
    BY <1>1, <1>3, <1>5, Limits
  <2>4. requests < MaxRequests
    BY <1>1, Limits
  <2> QED BY <1>1, <1>2, <1>3, <1>5, <2>1, <2>2, <2>3, <2>4 DEF ListingTypeInv
<1>7. ChangesInv
  <2>1. initial < Unused /\ Unused \in Nat
    BY <1>1, <1>3, UnusedProperties
  <2>2. \A c \in 1..initial : c < Unused
    BY <1>1, <2>1
  <2>3. 0 \notin 1..initial
    OBVIOUS
  <2> QED BY <1>1, <1>4, <2>2, <2>3 DEF ChangesInv, Untouched
<1>8. QuietInv
  <2>1. SubSeq(list, 1, 0) = <<>>
    BY <1>2, SubSeqEmpty
  <2> QED BY <1>1, <2>1 DEF QuietInv
<1>9. MissedInv
  <2>1. After = 1..initial
    BY <1>1, <1>2 DEF After
  <2>2. Untouched \ (After \cup Range(items)) = {}
    BY <1>1, <2>1 DEF Untouched
  <2>3. Cardinality(Untouched \ (After \cup Range(items))) = 0 /\ Cardinality(removed) = 0
    BY <1>1, <1>5, <2>2
  <2> DEFINE a == Cardinality(Untouched \ (After \cup Range(items)))
             b == Cardinality(removed)
  <2>4. a <= b
    <3> HIDE DEF a, b
    <3> QED BY <2>3 DEF a, b
  <2> HIDE DEF a, b
  <2>5. reading
    BY <1>1
  <2> QED BY <2>4, <2>5 DEF MissedInv, a, b
<1>10. RepeatedInv
  <2>1. Range(items) \cap After = {} /\ Range(items) = {} /\ Len(items) = 0 /\ Len(moved) = 0
    BY <1>1, <1>3
  <2> QED BY <1>5, <2>1 DEF RepeatedInv
<1> QED BY <1>6, <1>7, <1>8, <1>9, <1>10 DEF ListingInv

LEMMA ListingInvNext ==
  ASSUME ListingInv, ListingNext \/ UNCHANGED listingVars, mode' = mode
  PROVE  ListingInv'
<1>1. CASE ReadPage
  BY <1>1, ReadPageType, ReadPageQuiet, ReadPageCounts DEF ListingInv
<1>2. CASE ReadNothing
  BY <1>2, ReadNothingStep
<1>3. CASE EndListing
  BY <1>3, ListingStutters DEF EndListing
<1>4. ASSUME NEW n \in DOMAIN list, CardUpdated(n) PROVE ListingInv'
  BY <1>4, CardUpdatedStep
<1>5. ASSUME NEW n \in DOMAIN list, CardVanishes(n) PROVE ListingInv'
  BY <1>5, CardVanishesStep
<1>6. CASE CardAppears
  BY <1>6, CardAppearsStep
<1>7. CASE UNCHANGED listingVars
  BY <1>7, ListingStutters
<1> QED BY <1>1, <1>2, <1>3, <1>4, <1>5, <1>6, <1>7 DEF ListingNext, ListingStep

LEMMA ListingInvType ==
  ASSUME ListingInv
  PROVE  ListingTypeOK
BY CountedSets DEF ListingInv, ListingTypeInv, ListingTypeOK

LEMMA ListingInvReadsAll ==
  ASSUME ListingInv
  PROVE  ReadsAll
BY DEF ListingInv, QuietInv, ReadsAll, Wanted

LEMMA ListingInvMissesFew ==
  ASSUME ListingInv
  PROVE  MissesFew
BY DEF ListingInv, MissedInv, MissesFew

LEMMA ListingInvRepeatsFew ==
  ASSUME ListingInv
  PROVE  RepeatsFew
<1> DEFINE a == Len(items)
           r == Cardinality(Range(items))
           e == Cardinality(Range(items) \cap After)
<1>1. a \in Nat /\ r \in Nat /\ e \in Nat /\ Len(moved) \in Nat
  BY CountedSets, FS_Intersection, FS_CardinalityType DEF ListingInv
<1>2. a + (IF reading THEN e ELSE 0) <= Len(moved) + r
  BY DEF ListingInv, RepeatedInv
<1> HIDE DEF a, r, e
<1>3. a - r <= Len(moved)
  BY <1>1, <1>2
<1> QED BY <1>3 DEF RepeatsFew, a, r
=============================================================================
