-------------------------- MODULE CardsFilterProofs --------------------------
(***************************************************************************)
(* The inductive invariant of the fetch in CardsFilter, for any list, page  *)
(* size, number of threads and filters.  ModesProofs draws the theorems.    *)
(***************************************************************************)
EXTENDS CardsFilter, SubsequencesProofs

Size == Fetch!Limit
Cards == Range(fetch_list)
End == Len(fetch_list)
Unfiltered == Fetch!Unfiltered

InBatch == fetch_pc \in {"take", "join"}

\* The caller has not yet met a reason to stop.
Going == fetch_pc \in {"launch", "take"} \/ (fetch_pc = "join" /\ has_more_pages)

\* The offset behind what has been taken.
Position ==
    IF ~InBatch THEN current_offset
    ELSE IF taken = 0 THEN futures[1].offset ELSE futures[taken].offset + Size

Results == [threw : BOOLEAN, items : Seq(Cards)]
Tasks == [offset : Nat, result : {Pending} \cup Results]

FetchTypeInv ==
    /\ fetch_pc \in {"first", "launch", "take", "join", "done"}
    /\ fetch_list \in Seq(Cards) /\ IsInjective(fetch_list)
    /\ current_offset \in Nat
    /\ all_cards \in Seq(Cards)
    /\ IF InBatch THEN futures \in [1..MaxThreads -> Tasks] ELSE futures = <<>>
    /\ taken \in 0..(IF InBatch THEN MaxThreads ELSE 0)
    /\ has_more_pages \in BOOLEAN
    /\ last_status \in {200, 500}
    /\ fetch_failed \in BOOLEAN
    /\ fetch_pc = "first" => all_cards = <<>> /\ current_offset = 0 /\ last_status = 200
    /\ last_status = 500 => fetch_failed
    /\ fetch_pc = "done" => ~has_more_pages

\* The tasks of a batch ask for consecutive pages, up to current_offset; an
\* answer is the page, or empty after a failure.
BatchInv ==
    InBatch =>
        /\ \A m \in 1..(MaxThreads - 1) : futures[m + 1].offset = futures[m].offset + Size
        /\ current_offset = futures[MaxThreads].offset + Size
        /\ \A m \in 1..MaxThreads :
              LET r == futures[m].result
              IN  r # Pending =>
                    /\ r.threw => fetch_failed
                    /\ ~r.threw => \/ r.items = Fetch!Page(fetch_list, futures[m].offset)
                                   \/ r.items = <<>> /\ fetch_failed
        /\ fetch_pc = "join" /\ has_more_pages => taken = MaxThreads

\* The first n of all_cards are the first n of the list, and no more of them.
AgreedTo(n) ==
    /\ n \in 0..End /\ n <= Len(all_cards)
    /\ \A m \in 1..n : all_cards[m] = fetch_list[m]
    /\ n < End /\ n < Len(all_cards) => all_cards[n + 1] # fetch_list[n + 1]

\* While no task has thrown, all_cards is the list up to the position; after
\* that the position stays behind the hole.
OrderInv ==
    Unfiltered =>
        /\ last_status = 200 =>
              /\ AgreedTo(Len(all_cards))
              /\ Going => Len(all_cards) = IF Position < End THEN Position ELSE End
        /\ last_status = 500 =>
              \E n \in 0..End : AgreedTo(n) /\ (Going /\ n < End => n < Position)

\* A batch none of whose pages was full has reached the end.
EndInv ==
    Unfiltered /\ ~fetch_failed /\ ~has_more_pages
        /\ (fetch_pc \in {"join", "done"} \/ (fetch_pc = "take" /\ taken > 0))
    => Len(all_cards) = End

\* Every page taken began before the end.
WasteInv ==
    ~fetch_failed =>
        /\ current_offset < End + (MaxThreads + 1) * Size
        /\ fetch_pc = "take" /\ taken > 0 => futures[taken].offset < End
        /\ (fetch_pc = "launch" \/ (fetch_pc = "join" /\ has_more_pages)) =>
              current_offset < End + Size

FetchInv == FetchTypeInv /\ BatchInv /\ OrderInv /\ EndInv /\ WasteInv

---------------------------------------------------------------------------
(* Pages. *)

LEMMA Positive ==
  /\ Size \in Nat \ {0} /\ Size \in Int /\ Size >= 1
  /\ MaxThreads \in Nat \ {0} /\ MaxThreads \in Int /\ MaxThreads >= 1
BY FetchAssumption DEF Size, Fetch!Limit

\* What a page holds, when it is empty and when it is full.
LEMMA PageProperties ==
  ASSUME NEW S, NEW c \in Seq(S), NEW o \in Nat
  PROVE  LET p == Fetch!Page(c, o)
         IN  /\ p \in Seq(S) /\ Len(p) \in Nat /\ Len(c) \in Nat
             /\ p = <<>> <=> Len(c) <= o
             /\ o <= Len(c) => Len(p) = IF o + Size < Len(c) THEN Size ELSE Len(c) - o
             /\ Fetch!Full(p) <=> o + Size <= Len(c)
             /\ \A m \in 1..Len(p) : o + m \in 1..Len(c) /\ p[m] = c[o + m]
<1> DEFINE n == Len(c)
           e == IF o + Size < n THEN o + Size ELSE n
           p == Fetch!Page(c, o)
<1>1. /\ n \in Nat /\ e \in Nat /\ e <= n /\ o + 1 \in Int
      /\ \A m \in (o + 1)..e : m \in 1..n
  BY Positive, LenProperties
<1>2. \A m \in (o + 1)..e : c[m] \in S
  BY <1>1, ElementOfSeq
<1>3. p = SubSeq(c, o + 1, e)
  BY DEF Fetch!Page, Size
<1>4. /\ p \in Seq(S)
      /\ Len(p) = IF o + 1 <= e THEN e - (o + 1) + 1 ELSE 0
      /\ \A m \in 1..(e - (o + 1) + 1) : p[m] = c[(o + 1) + m - 1]
  <2> HIDE DEF e, p
  <2> QED BY <1>1, <1>2, <1>3, SubSeqProperties
<1>5. Len(p) = (IF o < e THEN e - o ELSE 0) /\ Len(p) \in Nat
  <2> HIDE DEF e, p
  <2> QED BY <1>1, <1>4
<1>6. \A m \in 1..Len(p) : o + m \in 1..n /\ p[m] = c[o + m]
  <2> HIDE DEF e, p
  <2> TAKE m \in 1..Len(p)
  <2>1. m \in 1..(e - (o + 1) + 1) /\ (o + 1) + m - 1 = o + m /\ o + m \in 1..n
    BY <1>1, <1>5
  <2> QED BY <1>4, <2>1
<1>7. p = <<>> <=> Len(p) = 0
  <2> HIDE DEF p
  <2> QED BY <1>4, EmptySeq
<1>8. Len(p) = 0 <=> n <= o
  <2> HIDE DEF p, n
  <2> QED BY <1>1, <1>5, Positive
<1>9. o <= n => Len(p) = IF o + Size < n THEN Size ELSE n - o
  <2> HIDE DEF p, n
  <2> QED BY <1>1, <1>5, Positive
<1>10. Fetch!Full(p) <=> o + Size <= n
  <2>1. Fetch!Full(p) <=> Len(p) = Size
    BY DEF Fetch!Full, Size
  <2> HIDE DEF p, n
  <2> QED BY <1>1, <1>5, <2>1, Positive
<1> QED BY <1>1, <1>4, <1>5, <1>6, <1>7, <1>8, <1>9, <1>10

\* The first request sees the list, or those of its cards that are selected.
LEMMA FirstListProperties ==
  ASSUME fetch_list \in Seq(Cards)
  PROVE  /\ Fetch!FirstPageList \in Seq(Cards)
         /\ Len(Fetch!FirstPageList) \in Nat /\ End \in Nat
         /\ Len(Fetch!FirstPageList) <= End
         /\ Unfiltered => Fetch!FirstPageList = fetch_list
<1> DEFINE P == {n \in 1..End : fetch_list[n] \in matching}
<1>1. P \in SUBSET (1..End) /\ End \in Nat /\ DOMAIN fetch_list = 1..End
  BY LenProperties DEF End
<1>2. Fetch!FirstPageList = Subsequence(fetch_list, P)
  <2> HIDE DEF P
  <2>1. Fetch!Subsequence(fetch_list, P) = Subsequence(fetch_list, P)
    BY DEF Fetch!Subsequence, Fetch!Rank, Fetch!Cardinality, Subsequence, Rank, Cardinality
  <2> QED BY <2>1 DEF Fetch!FirstPageList, End, P
<1>3. Unfiltered => P = 1..End
  BY <1>1 DEF Unfiltered, Fetch!Unfiltered, Fetch!Range
<1> HIDE DEF P
<1>4. /\ Fetch!FirstPageList \in Seq(Cards)
      /\ Len(Fetch!FirstPageList) = Cardinality(P)
  BY <1>1, <1>2, SubsequenceProperties DEF End
<1>5. Cardinality(P) \in Nat /\ Cardinality(P) <= End
  <2>1. IsFiniteSet(1..End) /\ Cardinality(1..End) = End
    BY <1>1, FS_Interval
  <2>2. IsFiniteSet(P) /\ Cardinality(P) <= Cardinality(1..End)
    BY <1>1, <2>1, FS_Subset
  <2> QED BY <2>1, <2>2, FS_CardinalityType
<1>6. Unfiltered => Fetch!FirstPageList = fetch_list
  BY <1>2, <1>3, SubsequenceOfAll DEF End
<1> QED BY <1>1, <1>4, <1>5, <1>6

---------------------------------------------------------------------------
(* The actions, one lemma each. *)

\* A step that moves nothing the order depends on.
LEMMA OrderSame ==
  ASSUME OrderInv, all_cards' = all_cards, fetch_list' = fetch_list,
         matching' = matching, last_status' = last_status,
         Going' => Going /\ Position' = Position
  PROVE  OrderInv'
<1>1. Unfiltered' = Unfiltered /\ End' = End
  BY DEF Unfiltered, Fetch!Unfiltered, End
<1>2. \A n : AgreedTo(n)' = AgreedTo(n)
  BY <1>1 DEF AgreedTo
<1> QED BY <1>1, <1>2 DEF OrderInv

LEMMA LengthOfBatch ==
  ASSUME FetchTypeInv
  PROVE  Len(futures) = IF InBatch THEN MaxThreads ELSE 0
<1>1. CASE InBatch
  <2>1. futures \in Seq(Tasks) /\ DOMAIN futures = 1..MaxThreads
    <3>1. futures = [m \in 1..MaxThreads |-> futures[m]]
          /\ \A m \in 1..MaxThreads : futures[m] \in Tasks
      BY <1>1 DEF FetchTypeInv
    <3>2. [m \in 1..MaxThreads |-> futures[m]] \in Seq(Tasks)
      BY <3>1, Positive, IsASeq
    <3>3. DOMAIN futures = 1..MaxThreads
      BY <1>1 DEF FetchTypeInv
    <3> QED BY <3>1, <3>2, <3>3
  <2>2. Len(futures) \in Nat /\ DOMAIN futures = 1..Len(futures)
    BY <2>1, LenProperties
  <2>3. 1..Len(futures) = 1..MaxThreads
    BY <2>1, <2>2
  <2> DEFINE n == Len(futures)
  <2>4. n \in Nat /\ 1..n = 1..MaxThreads
    BY <2>2, <2>3
  <2> HIDE DEF n
  <2>5. n = MaxThreads
    <3>1. MaxThreads \in 1..MaxThreads
      BY Positive
    <3>2. MaxThreads <= n
      BY <2>4, <3>1, Positive
    <3>3. n \in 1..n
      BY <2>4, <3>2, Positive
    <3>4. n <= MaxThreads
      BY <2>4, <3>3, Positive
    <3> QED BY <2>4, <3>2, <3>4, Positive
  <2> QED BY <1>1, <2>5 DEF n
<1>2. CASE ~InBatch
  BY <1>2, EmptySeq DEF FetchTypeInv
<1> QED BY <1>1, <1>2

LEMMA TaskEndsStep ==
  ASSUME FetchInv, NEW i \in 1..MaxThreads, Fetch!TaskEnds(i)
  PROVE  FetchInv'
<1>1. /\ InBatch /\ futures \in [1..MaxThreads -> Tasks]
      /\ i \in 1..Len(futures)
  <2>1. i \in 1..Len(futures)
    BY DEF Fetch!TaskEnds
  <2> QED BY <2>1, LengthOfBatch, Positive DEF FetchInv, FetchTypeInv
<1>2. PICK r \in Results :
        /\ futures' = [futures EXCEPT ![i].result = r]
        /\ r.threw => fetch_failed'
        /\ ~r.threw => \/ r.items = Fetch!Page(fetch_list, futures[i].offset)
                       \/ r.items = <<>> /\ fetch_failed'
        /\ fetch_failed' \in BOOLEAN /\ (fetch_failed => fetch_failed')
  <2>1. CASE \E answer \in Fetch!Answers(fetch_list, futures[i].offset) :
               /\ futures' = [futures EXCEPT ![i].result =
                                 [threw |-> FALSE, items |-> answer.items]]
               /\ fetch_failed' = (fetch_failed \/ ~answer.ok)
    <3>1. PICK answer \in Fetch!Answers(fetch_list, futures[i].offset) :
               /\ futures' = [futures EXCEPT ![i].result =
                                 [threw |-> FALSE, items |-> answer.items]]
               /\ fetch_failed' = (fetch_failed \/ ~answer.ok)
      BY <2>1
    <3>2. \/ answer.ok = TRUE /\ answer.items = Fetch!Page(fetch_list, futures[i].offset)
          \/ answer.ok = FALSE /\ answer.items = <<>>
      BY DEF Fetch!Answers
    <3>3. answer.items \in Seq(Cards)
      <4>1. fetch_list \in Seq(Cards) /\ futures[i].offset \in Nat
        BY <1>1 DEF FetchInv, FetchTypeInv, Tasks
      <4>2. Fetch!Page(fetch_list, futures[i].offset) \in Seq(Cards)
        BY <4>1, PageProperties
      <4> QED BY <3>2, <4>2, EmptySeq
    <3>4. [threw |-> FALSE, items |-> answer.items] \in Results
      BY <3>3 DEF Results
    <3>5. fetch_failed' \in BOOLEAN /\ (fetch_failed => fetch_failed')
          /\ (~answer.ok => fetch_failed')
      BY <3>1 DEF FetchInv, FetchTypeInv
    <3> DEFINE a == [threw |-> FALSE, items |-> answer.items]
    <3>6. a.threw = FALSE /\ a.items = answer.items
      OBVIOUS
    <3>7. a \in Results /\ futures' = [futures EXCEPT ![i].result = a]
      BY <3>1, <3>4
    <3> HIDE DEF a
    <3> QED BY <3>2, <3>5, <3>6, <3>7
  <2>2. CASE /\ futures' = [futures EXCEPT ![i].result = [threw |-> TRUE, items |-> <<>>]]
             /\ fetch_failed' = TRUE
    <3>1. [threw |-> TRUE, items |-> <<>>] \in Results
      BY EmptySeq DEF Results
    <3> QED BY <2>2, <3>1
  <2> QED BY <2>1, <2>2 DEF Fetch!TaskEnds
<1>3. /\ futures' \in [1..MaxThreads -> Tasks]
      /\ \A m \in 1..MaxThreads :
            /\ futures'[m].offset = futures[m].offset
            /\ futures'[m].result = IF m = i THEN r ELSE futures[m].result
  BY <1>1, <1>2 DEF Tasks
<1>4. UNCHANGED <<fetch_pc, current_offset, taken, has_more_pages, all_cards, last_status,
                  fetch_list, matching>>
  BY DEF Fetch!TaskEnds, Fetch!given
<1>5. /\ InBatch' = InBatch /\ Cards' = Cards /\ End' = End /\ Tasks' = Tasks
      /\ Unfiltered' = Unfiltered /\ Going' = Going
  BY <1>4 DEF InBatch, Cards, End, Tasks, Results, Unfiltered, Fetch!Unfiltered, Going
<1>6. Position' = Position
  <2>1. taken = 0 \/ taken \in 1..MaxThreads
    BY <1>1, Positive DEF FetchInv, FetchTypeInv
  <2> QED BY <1>3, <1>4, <1>5, <2>1, Positive DEF Position
<1>7. FetchTypeInv'
  BY <1>1, <1>2, <1>3, <1>4, <1>5 DEF FetchInv, FetchTypeInv
<1>8. BatchInv'
  <2>1. \A m \in 1..(MaxThreads - 1) : futures'[m + 1].offset = futures'[m].offset + Size
    <3>1. \A m \in 1..(MaxThreads - 1) : m \in 1..MaxThreads /\ m + 1 \in 1..MaxThreads
      BY Positive
    <3> QED BY <1>1, <1>3, <3>1 DEF FetchInv, BatchInv
  <2>2. current_offset' = futures'[MaxThreads].offset + Size
    BY <1>1, <1>3, <1>4, Positive DEF FetchInv, BatchInv
  <2>3. \A m \in 1..MaxThreads :
           futures'[m].result # Pending =>
              /\ futures'[m].result.threw => fetch_failed'
              /\ ~futures'[m].result.threw =>
                    \/ futures'[m].result.items
                          = Fetch!Page(fetch_list', futures'[m].offset)
                    \/ futures'[m].result.items = <<>> /\ fetch_failed'
    BY <1>1, <1>2, <1>3, <1>4 DEF FetchInv, BatchInv
  <2>4. \A m \in 1..MaxThreads :
           Fetch!Page(fetch_list', futures'[m].offset)
              = Fetch!Page(fetch_list, futures[m].offset)'
    BY DEF Fetch!Page, Fetch!Limit
  <2>5. fetch_pc' = "join" /\ has_more_pages' => taken' = MaxThreads
    BY <1>1, <1>4 DEF FetchInv, BatchInv
  <2> QED BY <2>1, <2>2, <2>3, <2>4, <2>5 DEF BatchInv
<1>9. OrderInv'
  BY <1>4, <1>5, <1>6, OrderSame DEF FetchInv
<1>10. EndInv'
  BY <1>2, <1>4, <1>5 DEF FetchInv, EndInv
<1>11. WasteInv'
  BY <1>1, <1>2, <1>3, <1>4, <1>5, Positive DEF FetchInv, FetchTypeInv, WasteInv
<1> QED BY <1>7, <1>8, <1>9, <1>10, <1>11 DEF FetchInv

\* The multiples of a page that the code adds up.
LEMMA Products ==
  /\ \A m \in Nat : m * Size \in Nat /\ (m + 1) * Size = m * Size + Size
  /\ MaxThreads * Size >= Size
  /\ (MaxThreads + 1) * Size = MaxThreads * Size + Size
  /\ (MaxThreads + 1) * Size \in Nat
<1>1. \A m \in Nat : m * Size \in Nat /\ (m + 1) * Size = m * Size + Size
  BY Positive
<1>2. MaxThreads - 1 \in Nat /\ (MaxThreads - 1) + 1 = MaxThreads
  BY Positive
<1>3. MaxThreads * Size = (MaxThreads - 1) * Size + Size /\ (MaxThreads - 1) * Size \in Nat
  BY <1>1, <1>2
<1>4. MaxThreads * Size >= Size
  <2> DEFINE a == (MaxThreads - 1) * Size
             b == MaxThreads * Size
  <2>1. b = a + Size /\ a \in Nat
    BY <1>3
  <2> HIDE DEF a, b
  <2>2. b >= Size
    BY <2>1, Positive
  <2> QED BY <2>2 DEF b
<1> QED BY <1>1, <1>4, Positive

\* What the take of the next result finds.
LEMMA TakeFacts ==
  ASSUME FetchInv, Fetch!Ready
  PROVE  /\ fetch_pc = "take" /\ InBatch /\ Going
         /\ taken \in Nat /\ taken + 1 \in 1..MaxThreads
         /\ futures \in [1..MaxThreads -> Tasks]
         /\ futures[taken + 1].offset \in Nat
         /\ Position = futures[taken + 1].offset
         /\ Fetch!NextResult = futures[taken + 1].result
         /\ Fetch!NextResult \in Results
         /\ End \in Nat /\ Len(all_cards) \in Nat
         /\ fetch_list \in Seq(Cards) /\ all_cards \in Seq(Cards)
         /\ Fetch!NextResult.threw => fetch_failed
         /\ ~Fetch!NextResult.threw =>
               \/ Fetch!NextResult.items = Fetch!Page(fetch_list, futures[taken + 1].offset)
               \/ Fetch!NextResult.items = <<>> /\ fetch_failed
<1>1. fetch_pc = "take" /\ InBatch /\ Going
  BY DEF Fetch!Ready, InBatch, Going
<1>2. taken \in Nat /\ taken + 1 \in 1..MaxThreads
  BY <1>1, LengthOfBatch, Positive DEF FetchInv, FetchTypeInv, Fetch!Ready
<1>3. futures \in [1..MaxThreads -> Tasks]
  BY <1>1 DEF FetchInv, FetchTypeInv
<1>4. Position = futures[taken + 1].offset
  <2>1. CASE taken = 0
    BY <1>1, <2>1 DEF Position
  <2>2. CASE taken # 0
    <3>1. taken \in 1..(MaxThreads - 1)
      BY <1>2, <2>2, Positive
    <3> QED BY <1>1, <2>2, <3>1 DEF Position, FetchInv, BatchInv
  <2> QED BY <2>1, <2>2
<1>5. /\ Fetch!NextResult = futures[taken + 1].result
      /\ Fetch!NextResult # Pending
  BY DEF Fetch!Ready, Fetch!NextResult
<1>6. futures[taken + 1].offset \in Nat /\ Fetch!NextResult \in Results
  BY <1>2, <1>3, <1>5 DEF Tasks
<1>7. /\ End \in Nat /\ Len(all_cards) \in Nat
      /\ fetch_list \in Seq(Cards) /\ all_cards \in Seq(Cards)
  BY LenProperties DEF FetchInv, FetchTypeInv, End
<1>8. /\ Fetch!NextResult.threw => fetch_failed
      /\ ~Fetch!NextResult.threw =>
            \/ Fetch!NextResult.items = Fetch!Page(fetch_list, futures[taken + 1].offset)
            \/ Fetch!NextResult.items = <<>> /\ fetch_failed
  BY <1>1, <1>2, <1>5 DEF FetchInv, BatchInv
<1> QED BY <1>1, <1>2, <1>3, <1>4, <1>5, <1>6, <1>7, <1>8

\* A step that leaves the batch and the list alone keeps what is said of them.
LEMMA BatchSame ==
  ASSUME BatchInv, UNCHANGED <<futures, fetch_list, current_offset, fetch_failed>>,
         InBatch' => InBatch,
         fetch_pc' = "join" /\ has_more_pages' => taken' = MaxThreads
  PROVE  BatchInv'
<1>1. \A m : Fetch!Page(fetch_list, futures[m].offset)'
               = Fetch!Page(fetch_list, futures[m].offset)
  BY DEF Fetch!Page, Fetch!Limit
<1> QED BY <1>1 DEF BatchInv

LEMMA FirstPageStep ==
  ASSUME FetchInv, Fetch!FirstPage
  PROVE  FetchInv'
<1> DEFINE first == Fetch!FirstPageList
<1>1. PICK answer \in Fetch!Answers(first, 0) :
        /\ all_cards' = answer.items
        /\ has_more_pages' = Fetch!Full(answer.items)
        /\ fetch_pc' = IF Fetch!Full(answer.items) THEN "launch" ELSE "done"
        /\ current_offset' = IF Fetch!Full(answer.items) THEN Size ELSE 0
        /\ fetch_failed' = ~answer.ok
  BY DEF Fetch!FirstPage, Size
<1>2. \/ answer.ok = TRUE /\ answer.items = Fetch!Page(first, 0)
      \/ answer.ok = FALSE /\ answer.items = <<>>
  BY DEF Fetch!Answers
<1>3. /\ fetch_pc = "first" /\ ~InBatch /\ taken = 0 /\ futures = <<>> /\ last_status = 200
      /\ UNCHANGED <<futures, taken, last_status, fetch_list, matching>>
  BY DEF FetchInv, FetchTypeInv, Fetch!FirstPage, InBatch, Fetch!given
<1>4. /\ Cards' = Cards /\ End' = End /\ Unfiltered' = Unfiltered
      /\ ~InBatch' /\ (Going' <=> fetch_pc' = "launch")
      /\ Position' = current_offset'
  BY <1>1, <1>3 DEF Cards, End, Unfiltered, Fetch!Unfiltered, InBatch, Going, Position
<1>5. /\ first \in Seq(Cards) /\ Len(first) \in Nat /\ End \in Nat /\ Len(first) <= End
      /\ Unfiltered => first = fetch_list
  BY FirstListProperties DEF FetchInv, FetchTypeInv
<1> DEFINE p == Fetch!Page(first, 0)
<1> HIDE DEF first
<1>6. /\ p \in Seq(Cards) /\ Len(p) \in Nat
      /\ Len(p) = IF 0 + Size < Len(first) THEN Size ELSE Len(first) - 0
      /\ Fetch!Full(p) <=> 0 + Size <= Len(first)
      /\ \A m \in 1..Len(p) : 0 + m \in 1..Len(first) /\ p[m] = first[0 + m]
  <2>1. /\ p \in Seq(Cards) /\ Len(p) \in Nat
        /\ 0 <= Len(first) =>
              Len(p) = IF 0 + Size < Len(first) THEN Size ELSE Len(first) - 0
        /\ Fetch!Full(p) <=> 0 + Size <= Len(first)
        /\ \A m \in 1..Len(p) : 0 + m \in 1..Len(first) /\ p[m] = first[0 + m]
    <3>1. first \in Seq(Cards) /\ 0 \in Nat
      BY <1>5
    <3> QED BY ZenonT(60), <3>1, PageProperties
  <2> HIDE DEF p
  <2> QED BY <1>5, <2>1
<1> HIDE DEF p
<1>7. ~Fetch!Full(<<>>)
  BY EmptySeq, Positive DEF Fetch!Full, Size
<1>8. /\ all_cards' \in Seq(Cards) /\ Len(all_cards') \in Nat
      /\ current_offset' \in Nat /\ has_more_pages' \in BOOLEAN /\ fetch_failed' \in BOOLEAN
      /\ fetch_pc' \in {"launch", "done"} /\ (fetch_pc' = "done" <=> ~has_more_pages')
  BY <1>1, <1>2, <1>6, EmptySeq, Positive DEF p, Fetch!Full
<1>9. FetchTypeInv'
  BY <1>3, <1>4, <1>8 DEF FetchInv, FetchTypeInv
<1>10. BatchInv'
  BY <1>4 DEF BatchInv
<1>11. fetch_pc' = "launch" => all_cards' = p /\ Size <= Len(first) /\ current_offset' = Size
  <2> SUFFICES ASSUME fetch_pc' = "launch"
               PROVE  all_cards' = p /\ Size <= Len(first) /\ current_offset' = Size
    OBVIOUS
  <2>1. Fetch!Full(answer.items)
    BY <1>1
  <2>2. answer.items = p
    BY <1>2, <1>7, <2>1 DEF p
  <2> QED BY <1>1, <1>5, <1>6, <2>1, <2>2, Positive
<1>12. OrderInv'
  <2> SUFFICES ASSUME Unfiltered'
               PROVE  /\ AgreedTo(Len(all_cards))'
                      /\ Going' => Len(all_cards') = IF Position' < End THEN Position' ELSE End
    BY <1>3, <1>4 DEF OrderInv
  <2>1. first = fetch_list /\ Len(first) = End
    BY <1>4, <1>5 DEF End
  <2>2. AgreedTo(Len(all_cards))'
    <3>1. Len(all_cards') \in 0..End
      BY <1>1, <1>2, <1>5, <1>6, <2>1, EmptySeq, Positive DEF p
    <3>2. \A m \in 1..Len(all_cards') : all_cards'[m] = fetch_list[m]
      BY <1>1, <1>2, <1>6, <2>1, EmptySeq DEF p
    <3> QED BY <1>3, <1>4, <1>8, <3>1, <3>2 DEF AgreedTo
  <2>3. Going' => Len(all_cards') = IF Position' < End THEN Position' ELSE End
    BY <1>4, <1>5, <1>6, <1>11, <2>1, Positive
  <2> QED BY <2>2, <2>3
<1>13. EndInv'
  <2> SUFFICES ASSUME Unfiltered', ~fetch_failed', ~has_more_pages'
               PROVE  Len(all_cards') = End
    BY <1>4 DEF EndInv
  <2>1. all_cards' = p /\ ~Fetch!Full(p) /\ Len(first) = End
    BY <1>1, <1>2, <1>4, <1>5 DEF p, End
  <2> QED BY <1>5, <1>6, <2>1, Positive
<1>14. WasteInv'
  <2>1. (MaxThreads + 1) * Size >= Size + Size /\ (MaxThreads + 1) * Size \in Nat
    BY Products, Positive
  <2>2. current_offset' < End + Size
    BY <1>1, <1>5, <1>8, <1>11, Positive
  <2>3. current_offset' < End + (MaxThreads + 1) * Size
    BY <1>5, <1>8, <2>1, <2>2, Positive
  <2> QED BY <1>4, <1>8, <2>2, <2>3 DEF WasteInv
<1> QED BY <1>9, <1>10, <1>12, <1>13, <1>14 DEF FetchInv

LEMMA LaunchBatchStep ==
  ASSUME FetchInv, Fetch!LaunchBatch
  PROVE  FetchInv'
<1>1. /\ fetch_pc = "launch" /\ fetch_pc' = "take" /\ taken' = 0 /\ ~has_more_pages'
      /\ has_more_pages' \in BOOLEAN
      /\ UNCHANGED <<all_cards, last_status, fetch_list, matching, fetch_failed>>
      /\ futures' = [i \in 1..MaxThreads |->
                        [offset |-> current_offset + (i - 1) * Size, result |-> Pending]]
      /\ current_offset' = current_offset + MaxThreads * Size
  BY DEF Fetch!LaunchBatch, Fetch!given, Size
<1>2. /\ ~InBatch /\ InBatch' /\ Going /\ Position = current_offset
      /\ Cards' = Cards /\ End' = End /\ Unfiltered' = Unfiltered /\ Tasks' = Tasks
      /\ Position' = futures'[1].offset
  BY <1>1 DEF InBatch, Going, Position, Cards, End, Unfiltered, Fetch!Unfiltered,
              Tasks, Results
<1>3. current_offset \in Nat /\ current_offset \in Int
  BY DEF FetchInv, FetchTypeInv
<1>4. \A i \in 1..MaxThreads : /\ i - 1 \in Nat
                               /\ (i - 1) * Size \in Nat
                               /\ i * Size = (i - 1) * Size + Size
  <2> TAKE i \in 1..MaxThreads
  <2>1. i - 1 \in Nat /\ (i - 1) + 1 = i
    BY Positive
  <2> QED BY <2>1, Products
<1>5. \A i \in 1..MaxThreads : /\ futures'[i].offset = current_offset + (i - 1) * Size
                               /\ futures'[i].result = Pending
  BY <1>1
<1>6. futures' \in [1..MaxThreads -> Tasks]
  <2>1. \A i \in 1..MaxThreads : current_offset + (i - 1) * Size \in Nat
    BY <1>3, <1>4
  <2> QED BY <1>1, <2>1 DEF Tasks
<1>7. current_offset' \in Nat
  <2>1. MaxThreads * Size \in Nat
    BY Products, Positive
  <2> DEFINE a == MaxThreads * Size
  <2> HIDE DEF a
  <2>2. current_offset' = current_offset + a /\ a \in Nat
    BY <1>1, <2>1 DEF a
  <2> QED BY <1>3, <2>2
<1>8. FetchTypeInv'
  <2>1. fetch_list' \in Seq(Cards') /\ IsInjective(fetch_list)' /\ all_cards' \in Seq(Cards')
    BY <1>1, <1>2 DEF FetchInv, FetchTypeInv, IsInjective
  <2>2. taken' \in 0..MaxThreads
    BY <1>1, Positive
  <2>3. /\ last_status' \in {200, 500} /\ fetch_failed' \in BOOLEAN
        /\ last_status' = 500 => fetch_failed'
    BY <1>1 DEF FetchInv, FetchTypeInv
  <2> QED BY <1>1, <1>2, <1>6, <1>7, <2>1, <2>2, <2>3 DEF FetchTypeInv
<1>9. BatchInv'
  <2>1. \A m \in 1..(MaxThreads - 1) : futures'[m + 1].offset = futures'[m].offset + Size
    <3> TAKE m \in 1..(MaxThreads - 1)
    <3>1. m \in 1..MaxThreads /\ m + 1 \in 1..MaxThreads /\ (m + 1) - 1 = m
      BY Positive
    <3>2. futures'[m + 1].offset = current_offset + m * Size
      BY <1>5, <3>1
    <3>3. futures'[m].offset = current_offset + (m - 1) * Size
      BY <1>5, <3>1
    <3> DEFINE a == m * Size
               b == (m - 1) * Size
    <3>4. b \in Nat /\ a = b + Size
      BY <1>4, <3>1
    <3>5. futures'[m + 1].offset = current_offset + a /\ futures'[m].offset = current_offset + b
      BY <3>2, <3>3
    <3> HIDE DEF a, b
    <3> QED BY <1>3, <3>4, <3>5, Positive
  <2>2. current_offset' = futures'[MaxThreads].offset + Size
    <3>1. MaxThreads \in 1..MaxThreads
      BY Positive
    <3> DEFINE a == MaxThreads * Size
               b == (MaxThreads - 1) * Size
    <3>2. b \in Nat /\ a = b + Size
      BY <1>4, <3>1
    <3>3. current_offset' = current_offset + a
          /\ futures'[MaxThreads].offset = current_offset + b
      BY <1>1, <1>5, <3>1
    <3> HIDE DEF a, b
    <3> QED BY <1>3, <3>2, <3>3, Positive
  <2> QED BY <1>1, <1>5, <2>1, <2>2 DEF BatchInv
<1>10. Position' = Position
  <2>1. 1 \in 1..MaxThreads /\ (1 - 1) * Size = 0
    BY Positive
  <2> QED BY <1>2, <1>3, <1>5, <2>1
<1>11. OrderInv'
  BY <1>1, <1>2, <1>10, OrderSame DEF FetchInv
<1>12. EndInv'
  BY <1>1 DEF EndInv
<1>13. WasteInv'
  <2> SUFFICES ASSUME ~fetch_failed'
               PROVE  current_offset' < End + (MaxThreads + 1) * Size
    BY <1>1, <1>2 DEF WasteInv
  <2>1. current_offset < End + Size /\ End \in Nat
    BY <1>1, LenProperties DEF FetchInv, FetchTypeInv, WasteInv, End
  <2> DEFINE a == MaxThreads * Size
             b == (MaxThreads + 1) * Size
  <2>2. a \in Nat /\ b = a + Size /\ current_offset' = current_offset + a
    BY <1>1, Products, Positive
  <2> HIDE DEF a, b
  <2>3. current_offset' < End + b
    BY <1>3, <2>1, <2>2, Positive
  <2> QED BY <2>3 DEF b
<1> QED BY <1>8, <1>9, <1>11, <1>12, <1>13 DEF FetchInv

\* A page that is taken begins at the position, before the end, and is appended.
LEMMA TakePageFacts ==
  ASSUME FetchInv, Fetch!TakePage
  PROVE  LET o == Position
             p == Fetch!NextResult.items
             n == Len(all_cards)
         IN  /\ fetch_pc = "take" /\ InBatch /\ Going
             /\ taken \in Nat /\ taken + 1 \in 1..MaxThreads
             /\ o = futures[taken + 1].offset
             /\ o \in Nat /\ End \in Nat /\ n \in Nat /\ o < End
             /\ has_more_pages' = (has_more_pages \/ Fetch!Full(p))
             /\ Fetch!Full(p) \in BOOLEAN
             /\ taken' = taken + 1
             /\ UNCHANGED <<fetch_pc, current_offset, futures, last_status, fetch_list,
                            matching, fetch_failed>>
             /\ Cards' = Cards /\ End' = End /\ Unfiltered' = Unfiltered /\ Tasks' = Tasks
             /\ InBatch' /\ Going' /\ Position' = o + Size
             /\ Len(p) \in Nat /\ Len(p) >= 1
             /\ Len(p) = IF o + Size < End THEN Size ELSE End - o
             /\ Fetch!Full(p) <=> o + Size <= End
             /\ \A m \in 1..Len(p) : o + m \in 1..End /\ p[m] = fetch_list[o + m]
             /\ all_cards' \in Seq(Cards)
             /\ Len(all_cards') = n + Len(p)
             /\ \A m \in 1..(n + Len(p)) :
                   all_cards'[m] = IF m <= n THEN all_cards[m] ELSE p[m - n]
<1> DEFINE o == Position
           p == Fetch!NextResult.items
           n == Len(all_cards)
<1>1. Fetch!Ready /\ ~Fetch!NextResult.threw /\ p # <<>>
  BY DEF Fetch!TakePage
<1>2. /\ fetch_pc = "take" /\ InBatch /\ Going
      /\ taken \in Nat /\ taken + 1 \in 1..MaxThreads
      /\ o \in Nat /\ o = futures[taken + 1].offset
      /\ End \in Nat /\ n \in Nat
      /\ fetch_list \in Seq(Cards) /\ all_cards \in Seq(Cards)
      /\ p = Fetch!Page(fetch_list, o)
  BY <1>1, TakeFacts
<1>3. /\ all_cards' = all_cards \o p
      /\ has_more_pages' = (has_more_pages \/ Fetch!Full(p))
      /\ taken' = taken + 1
      /\ UNCHANGED <<fetch_pc, current_offset, futures, last_status, fetch_list, matching,
                     fetch_failed>>
  BY DEF Fetch!TakePage, Fetch!given
<1>4. /\ Cards' = Cards /\ End' = End /\ Unfiltered' = Unfiltered /\ Tasks' = Tasks
      /\ InBatch' /\ Going'
  BY <1>2, <1>3 DEF Cards, End, Unfiltered, Fetch!Unfiltered, Tasks, Results, InBatch, Going
<1>5. Position' = o + Size
  <2>1. Position' = futures[taken + 1].offset + Size
    BY <1>2, <1>3, <1>4, Positive DEF Position
  <2> HIDE DEF o
  <2> QED BY <1>2, <2>1
<1> HIDE DEF o, p
<1>6. /\ p \in Seq(Cards) /\ Len(p) \in Nat
      /\ o <= End => Len(p) = IF o + Size < End THEN Size ELSE End - o
      /\ Fetch!Full(p) <=> o + Size <= End
      /\ \A m \in 1..Len(p) : o + m \in 1..End /\ p[m] = fetch_list[o + m]
      /\ ~(End <= o)
  <2>1. /\ fetch_list \in Seq(Cards) /\ o \in Nat /\ End = Len(fetch_list)
        /\ p = Fetch!Page(fetch_list, o) /\ p # <<>>
    BY <1>1, <1>2 DEF End
  <2> QED BY <2>1, PageProperties
<1>7. /\ o < End
      /\ Len(p) = IF o + Size < End THEN Size ELSE End - o
      /\ Len(p) >= 1
  BY <1>2, <1>6, Positive
<1>8. /\ all_cards' \in Seq(Cards)
      /\ Len(all_cards') = n + Len(p)
      /\ \A m \in 1..(n + Len(p)) :
            all_cards'[m] = IF m <= n THEN all_cards[m] ELSE p[m - n]
  BY <1>2, <1>3, <1>6, ConcatProperties
<1>9. Fetch!Full(p) \in BOOLEAN
  BY DEF Fetch!Full
<1> QED BY <1>2, <1>3, <1>4, <1>5, <1>6, <1>7, <1>8, <1>9 DEF o, p

\* A page taken after a hole does not fill it: no card is in the list twice.
LEMMA HoleStays ==
  ASSUME FetchInv, Fetch!TakePage,
         NEW a \in 0..End, AgreedTo(a), a < End => a < Position
  PROVE  AgreedTo(a)'
<1> DEFINE o == Position
           p == Fetch!NextResult.items
           n == Len(all_cards)
<1>1. /\ o \in Nat /\ End \in Nat /\ n \in Nat /\ End' = End /\ fetch_list' = fetch_list
      /\ Len(p) \in Nat /\ Len(p) >= 1
      /\ \A m \in 1..Len(p) : o + m \in 1..End /\ p[m] = fetch_list[o + m]
      /\ Len(all_cards') = n + Len(p)
      /\ \A m \in 1..(n + Len(p)) :
            all_cards'[m] = IF m <= n THEN all_cards[m] ELSE p[m - n]
  BY TakePageFacts
<1>2. fetch_list \in Seq(Cards) /\ IsInjective(fetch_list)
  BY DEF FetchInv, FetchTypeInv
<1>3. a < End => a < o
  OBVIOUS
<1> HIDE DEF o, p, n
<1>4. a \in Int /\ a <= n /\ a <= Len(all_cards')
      /\ \A m \in 1..a : all_cards[m] = fetch_list[m]
  BY <1>1 DEF AgreedTo, n
<1>5. \A m \in 1..a : all_cards'[m] = fetch_list[m]
  <2> TAKE m \in 1..a
  <2>1. m \in 1..(n + Len(p)) /\ m <= n
    BY <1>1, <1>4
  <2> QED BY <1>1, <1>4, <2>1
<1>6. ASSUME a < End
      PROVE  all_cards'[a + 1] # fetch_list[a + 1]
  <2>1. a + 1 \in 1..(n + Len(p)) /\ a + 1 \in 1..End
    BY <1>1, <1>4, <1>6
  <2>2. CASE a < n
    <3>1. all_cards[a + 1] # fetch_list[a + 1]
      BY <1>6, <2>2 DEF AgreedTo, n
    <3>2. a + 1 <= n
      BY <1>1, <1>4, <2>2
    <3> QED BY <1>1, <2>1, <3>1, <3>2
  <2>3. CASE a = n
    <3>1. ~(a + 1 <= n) /\ (a + 1) - n = 1 /\ 1 \in 1..Len(p)
      BY <1>1, <1>4, <2>3
    <3>2. all_cards'[a + 1] = fetch_list[o + 1] /\ o + 1 \in 1..End
      BY <1>1, <2>1, <3>1
    <3>3. o + 1 # a + 1
      BY <1>1, <1>3, <1>4, <1>6
    <3>4. DOMAIN fetch_list = 1..End
      BY <1>2, LenProperties DEF End
    <3> QED BY <1>2, <2>1, <3>2, <3>3, <3>4 DEF IsInjective
  <2> QED BY <1>1, <1>4, <2>2, <2>3
<1> QED BY <1>1, <1>4, <1>5, <1>6 DEF AgreedTo

LEMMA TakePageStep ==
  ASSUME FetchInv, Fetch!TakePage
  PROVE  FetchInv'
<1> DEFINE o == Position
           p == Fetch!NextResult.items
           n == Len(all_cards)
<1>1. /\ fetch_pc = "take" /\ InBatch /\ Going
      /\ taken \in Nat /\ taken + 1 \in 1..MaxThreads
      /\ o = futures[taken + 1].offset
      /\ o \in Nat /\ End \in Nat /\ n \in Nat /\ o < End
      /\ has_more_pages' = (has_more_pages \/ Fetch!Full(p))
      /\ Fetch!Full(p) \in BOOLEAN
      /\ taken' = taken + 1
      /\ UNCHANGED <<fetch_pc, current_offset, futures, last_status, fetch_list, matching,
                     fetch_failed>>
  BY TakePageFacts
<1>2. /\ Cards' = Cards /\ End' = End /\ Unfiltered' = Unfiltered /\ Tasks' = Tasks
      /\ InBatch' /\ Going' /\ Position' = o + Size
  BY TakePageFacts
<1>3. /\ Len(p) \in Nat /\ Len(p) >= 1
      /\ Len(p) = IF o + Size < End THEN Size ELSE End - o
      /\ Fetch!Full(p) <=> o + Size <= End
      /\ \A m \in 1..Len(p) : o + m \in 1..End /\ p[m] = fetch_list[o + m]
  BY TakePageFacts
<1>4. /\ all_cards' \in Seq(Cards)
      /\ Len(all_cards') = n + Len(p)
      /\ \A m \in 1..(n + Len(p)) :
            all_cards'[m] = IF m <= n THEN all_cards[m] ELSE p[m - n]
  BY TakePageFacts
<1>5. n = Len(all_cards) /\ o = Position
  OBVIOUS
<1> HIDE DEF o, p, n
<1>6. FetchTypeInv'
  <2>1. fetch_list' \in Seq(Cards') /\ IsInjective(fetch_list)'
    BY <1>1, <1>2 DEF FetchInv, FetchTypeInv, IsInjective
  <2>2. has_more_pages' \in BOOLEAN
    BY <1>1 DEF FetchInv, FetchTypeInv
  <2>3. taken' \in 0..MaxThreads /\ futures' \in [1..MaxThreads -> Tasks']
    BY <1>1, <1>2, Positive DEF FetchInv, FetchTypeInv
  <2> QED BY <1>1, <1>2, <1>4, <2>1, <2>2, <2>3 DEF FetchInv, FetchTypeInv
<1>7. BatchInv'
  BY <1>1, BatchSame DEF FetchInv
<1>8. OrderInv'
  <2> SUFFICES ASSUME Unfiltered
               PROVE  /\ last_status = 200 =>
                            /\ AgreedTo(Len(all_cards))'
                            /\ Len(all_cards') = IF Position' < End THEN Position' ELSE End
                      /\ last_status = 500 =>
                            \E a \in 0..End : AgreedTo(a)' /\ (a < End => a < Position')
    BY <1>1, <1>2 DEF OrderInv
  <2>1. CASE last_status = 200
    <3>1. AgreedTo(n) /\ n = o
      BY <1>1, <1>5, <2>1 DEF FetchInv, OrderInv
    <3>2. Len(all_cards') = IF Position' < End THEN Position' ELSE End
      BY <1>1, <1>2, <1>3, <1>4, <3>1, Positive
    <3>3. \A m \in 1..Len(all_cards') : all_cards'[m] = fetch_list[m]
      <4> TAKE m \in 1..Len(all_cards')
      <4>1. m \in 1..(n + Len(p)) /\ m \in Int
        BY <1>4
      <4>2. CASE m <= n
        <5>1. m \in 1..n
          BY <1>1, <1>3, <4>1, <4>2
        <5> QED BY <1>4, <3>1, <4>1, <4>2, <5>1 DEF AgreedTo
      <4>3. CASE ~(m <= n)
        <5>0. n \in Nat /\ Len(p) \in Nat /\ o = n
          BY <1>1, <1>3, <3>1
        <5>1. m - n \in 1..Len(p) /\ o + (m - n) = m
          BY <4>1, <4>3, <5>0
        <5> QED BY <1>3, <1>4, <4>1, <4>3, <5>1
      <4> QED BY <4>2, <4>3
    <3>4. Len(all_cards') \in 0..End
      BY <1>1, <1>2, <3>2, Positive
    <3>5. AgreedTo(Len(all_cards))'
      BY <1>1, <1>2, <3>3, <3>4 DEF AgreedTo
    <3> QED BY <2>1, <3>2, <3>5
  <2>2. CASE last_status = 500
    <3>1. PICK a \in 0..End : AgreedTo(a) /\ (a < End => a < o)
      BY <1>1, <1>5, <2>2 DEF FetchInv, OrderInv
    <3>2. AgreedTo(a)'
      BY <1>5, <3>1, HoleStays
    <3>3. a < End => a < Position'
      BY <1>1, <1>2, <3>1, Positive
    <3> QED BY <2>2, <3>2, <3>3
  <2> QED BY <2>1, <2>2 DEF FetchInv, FetchTypeInv
<1>9. EndInv'
  <2> SUFFICES ASSUME Unfiltered, ~fetch_failed, ~has_more_pages'
               PROVE  Len(all_cards') = End
    BY <1>1, <1>2 DEF EndInv
  <2>1. last_status = 200 /\ ~Fetch!Full(p)
    BY <1>1 DEF FetchInv, FetchTypeInv
  <2>2. n = o
    BY <1>1, <1>5, <2>1 DEF FetchInv, OrderInv
  <2> QED BY <1>1, <1>3, <1>4, <2>1, <2>2, Positive
<1>10. WasteInv'
  BY <1>1, <1>2 DEF FetchInv, WasteInv
<1> QED BY <1>6, <1>7, <1>8, <1>9, <1>10 DEF FetchInv

\* An empty page that is no failure lies behind the end.
LEMMA TakeEmptyStep ==
  ASSUME FetchInv, Fetch!TakeEmpty
  PROVE  FetchInv'
<1>1. Fetch!Ready /\ ~Fetch!NextResult.threw /\ Fetch!NextResult.items = <<>>
  BY DEF Fetch!TakeEmpty
<1>2. /\ fetch_pc' = "join" /\ has_more_pages' = FALSE
      /\ UNCHANGED <<current_offset, futures, taken, all_cards, last_status, fetch_list,
                     matching, fetch_failed>>
  BY DEF Fetch!TakeEmpty, Fetch!given
<1>3. /\ Cards' = Cards /\ End' = End /\ Unfiltered' = Unfiltered /\ Tasks' = Tasks
      /\ InBatch /\ InBatch' /\ ~Going'
  BY <1>1, <1>2, TakeFacts
     DEF Cards, End, Unfiltered, Fetch!Unfiltered, Tasks, Results, InBatch, Going
<1>4. FetchTypeInv'
  <2>1. fetch_list' \in Seq(Cards') /\ IsInjective(fetch_list)' /\ all_cards' \in Seq(Cards')
    BY <1>2, <1>3 DEF FetchInv, FetchTypeInv, IsInjective
  <2> QED BY <1>2, <1>3, <2>1 DEF FetchInv, FetchTypeInv
<1>5. BatchInv'
  BY <1>2, <1>3, BatchSame DEF FetchInv
<1>6. OrderInv'
  BY <1>2, <1>3, OrderSame DEF FetchInv
<1>7. EndInv'
  <2> SUFFICES ASSUME Unfiltered, ~fetch_failed
               PROVE  Len(all_cards) = End
    BY <1>2, <1>3 DEF EndInv
  <2>1. End <= Position /\ Position \in Nat /\ End \in Nat /\ Going
    BY <1>1, TakeFacts, PageProperties DEF End
  <2>2. last_status = 200
    BY DEF FetchInv, FetchTypeInv
  <2>3. ~(Position < End)
    BY <2>1
  <2> QED BY <2>1, <2>2, <2>3 DEF FetchInv, OrderInv
<1>8. WasteInv'
  BY <1>2, <1>3 DEF FetchInv, WasteInv
<1> QED BY <1>4, <1>5, <1>6, <1>7, <1>8 DEF FetchInv

\* A task that threw leaves its page out: from then on the list agrees up to
\* the hole and the position is behind it.
LEMMA TakeThrowStep ==
  ASSUME FetchInv, Fetch!TakeThrow
  PROVE  FetchInv'
<1> DEFINE o == futures[taken + 1].offset
<1>1. Fetch!Ready /\ Fetch!NextResult.threw
  BY DEF Fetch!TakeThrow
<1>2. /\ last_status' = 500 /\ taken' = taken + 1
      /\ UNCHANGED <<fetch_pc, current_offset, futures, has_more_pages, all_cards,
                     fetch_list, matching, fetch_failed>>
  BY DEF Fetch!TakeThrow, Fetch!given
<1>3. /\ fetch_pc = "take" /\ InBatch /\ Going
      /\ taken \in Nat /\ taken + 1 \in 1..MaxThreads
      /\ o \in Nat /\ Position = o /\ fetch_failed
      /\ End \in Nat /\ Len(all_cards) \in Nat
  BY <1>1, TakeFacts
<1>4. /\ Cards' = Cards /\ End' = End /\ Unfiltered' = Unfiltered /\ Tasks' = Tasks
      /\ InBatch' /\ Going'
  BY <1>2, <1>3 DEF Cards, End, Unfiltered, Fetch!Unfiltered, Tasks, Results, InBatch, Going
<1>5. Position' = o + Size
  BY <1>2, <1>3, <1>4, Positive DEF Position
<1> HIDE DEF o
<1>6. FetchTypeInv'
  <2>1. fetch_list' \in Seq(Cards') /\ IsInjective(fetch_list)' /\ all_cards' \in Seq(Cards')
    BY <1>2, <1>4 DEF FetchInv, FetchTypeInv, IsInjective
  <2>2. taken' \in 0..MaxThreads
    BY <1>2, <1>3, Positive
  <2> QED BY <1>2, <1>3, <1>4, <2>1, <2>2 DEF FetchInv, FetchTypeInv
<1>7. BatchInv'
  BY <1>2, <1>3, BatchSame DEF FetchInv
<1>8. OrderInv'
  <2> SUFFICES ASSUME Unfiltered
               PROVE  \E a \in 0..End : AgreedTo(a) /\ (a < End => a < o + Size)
    <3>1. \A a : AgreedTo(a)' = AgreedTo(a)
      BY <1>2, <1>4 DEF AgreedTo
    <3> QED BY <1>2, <1>4, <1>5, <3>1 DEF OrderInv
  <2>1. \E a \in 0..End : AgreedTo(a) /\ (a < End => a <= o)
    <3>1. CASE last_status = 200
      <4>1. AgreedTo(Len(all_cards)) /\ Len(all_cards) = IF o < End THEN o ELSE End
        BY <1>3, <3>1 DEF FetchInv, OrderInv
      <4>2. Len(all_cards) \in 0..End /\ Len(all_cards) <= o
        BY <1>3, <4>1
      <4> QED BY <4>1, <4>2
    <3>2. CASE last_status = 500
      <4>1. PICK a \in 0..End : AgreedTo(a) /\ (a < End => a < o)
        BY <1>3, <3>2 DEF FetchInv, OrderInv
      <4> QED BY <1>3, <4>1
    <3> QED BY <3>1, <3>2 DEF FetchInv, FetchTypeInv
  <2>2. PICK a \in 0..End : AgreedTo(a) /\ (a < End => a <= o)
    BY <2>1
  <2>3. a < End => a < o + Size
    BY <1>3, <2>2, Positive
  <2> QED BY <2>2, <2>3
<1>9. EndInv' /\ WasteInv'
  BY <1>2, <1>3 DEF EndInv, WasteInv
<1> QED BY <1>6, <1>7, <1>8, <1>9 DEF FetchInv

LEMMA BatchTakenStep ==
  ASSUME FetchInv, Fetch!BatchTaken
  PROVE  FetchInv'
<1>1. /\ fetch_pc = "take" /\ fetch_pc' = "join" /\ taken = Len(futures)
      /\ UNCHANGED <<current_offset, futures, taken, has_more_pages, all_cards, last_status,
                     fetch_list, matching, fetch_failed>>
  BY DEF Fetch!BatchTaken, Fetch!given
<1>2. /\ Cards' = Cards /\ End' = End /\ Unfiltered' = Unfiltered /\ Tasks' = Tasks
      /\ InBatch /\ InBatch' /\ Going
  BY <1>1 DEF Cards, End, Unfiltered, Fetch!Unfiltered, Tasks, Results, InBatch, Going
<1>3. taken = MaxThreads
  BY <1>1, <1>2, LengthOfBatch DEF FetchInv
<1>4. Position' = Position
  BY <1>1, <1>2 DEF Position
<1>5. FetchTypeInv'
  <2>1. fetch_list' \in Seq(Cards') /\ IsInjective(fetch_list)' /\ all_cards' \in Seq(Cards')
    BY <1>1, <1>2 DEF FetchInv, FetchTypeInv, IsInjective
  <2> QED BY <1>1, <1>2, <2>1 DEF FetchInv, FetchTypeInv
<1>6. BatchInv'
  BY <1>1, <1>2, <1>3, BatchSame DEF FetchInv
<1>7. OrderInv'
  BY <1>1, <1>2, <1>4, OrderSame DEF FetchInv
<1>8. EndInv'
  BY <1>1, <1>2, <1>3, Positive DEF FetchInv, EndInv
<1>9. WasteInv'
  <2> SUFFICES ASSUME ~fetch_failed
               PROVE  /\ current_offset < End + (MaxThreads + 1) * Size
                      /\ current_offset < End + Size
    BY <1>1, <1>2 DEF WasteInv
  <2>1. futures[MaxThreads].offset < End /\ futures[MaxThreads].offset \in Nat /\ End \in Nat
    BY <1>1, <1>2, <1>3, Positive, LenProperties DEF FetchInv, FetchTypeInv, WasteInv, Tasks, End
  <2>2. current_offset = futures[MaxThreads].offset + Size
    BY <1>2 DEF FetchInv, BatchInv
  <2>3. current_offset < End + Size
    BY <2>1, <2>2, Positive
  <2> QED BY <2>3 DEF FetchInv, WasteInv
<1> QED BY <1>5, <1>6, <1>7, <1>8, <1>9 DEF FetchInv

LEMMA EndBatchStep ==
  ASSUME FetchInv, Fetch!EndBatch
  PROVE  FetchInv'
<1>1. /\ fetch_pc = "join" /\ futures' = <<>> /\ taken' = 0
      /\ fetch_pc' = IF has_more_pages THEN "launch" ELSE "done"
      /\ UNCHANGED <<current_offset, has_more_pages, all_cards, last_status, fetch_list,
                     matching, fetch_failed>>
  BY DEF Fetch!EndBatch, Fetch!given
<1>2. /\ Cards' = Cards /\ End' = End /\ Unfiltered' = Unfiltered
      /\ InBatch /\ ~InBatch' /\ (Going' => Going /\ has_more_pages)
  BY <1>1 DEF Cards, End, Unfiltered, Fetch!Unfiltered, InBatch, Going
<1>3. Going' => Position' = Position
  <2> SUFFICES ASSUME has_more_pages
               PROVE  Position' = Position
    BY <1>2
  <2>1. taken = MaxThreads /\ current_offset = futures[MaxThreads].offset + Size
    BY <1>1, <1>2 DEF FetchInv, BatchInv
  <2>2. Position' = current_offset
    BY <1>1, <1>2 DEF Position
  <2>3. Position = futures[MaxThreads].offset + Size
    BY <1>2, <2>1, Positive DEF Position
  <2> QED BY <2>1, <2>2, <2>3
<1>4. FetchTypeInv'
  <2>1. fetch_list' \in Seq(Cards') /\ IsInjective(fetch_list)' /\ all_cards' \in Seq(Cards')
    BY <1>1, <1>2 DEF FetchInv, FetchTypeInv, IsInjective
  <2> QED BY <1>1, <1>2, <2>1 DEF FetchInv, FetchTypeInv
<1>5. BatchInv'
  BY <1>2 DEF BatchInv
<1>6. OrderInv'
  BY <1>1, <1>2, <1>3, OrderSame DEF FetchInv
<1>7. EndInv'
  BY <1>1, <1>2 DEF FetchInv, EndInv
<1>8. WasteInv'
  BY <1>1, <1>2 DEF FetchInv, WasteInv
<1> QED BY <1>4, <1>5, <1>6, <1>7, <1>8 DEF FetchInv

\* A step that leaves the fetch alone.
LEMMA FetchStutters ==
  ASSUME FetchInv, UNCHANGED fetchVars
  PROVE  FetchInv'
<1>1. UNCHANGED <<fetch_pc, current_offset, futures, taken, has_more_pages, all_cards,
                  last_status, fetch_list, matching, fetch_failed>>
  BY DEF fetchVars
<1>2. /\ Cards' = Cards /\ End' = End /\ Unfiltered' = Unfiltered /\ Tasks' = Tasks
      /\ InBatch' = InBatch /\ Going' = Going /\ Position' = Position
  BY <1>1 DEF Cards, End, Unfiltered, Fetch!Unfiltered, Tasks, Results, InBatch, Going, Position
<1>3. FetchTypeInv'
  <2>1. fetch_list' \in Seq(Cards') /\ IsInjective(fetch_list)' /\ all_cards' \in Seq(Cards')
    BY <1>1, <1>2 DEF FetchInv, FetchTypeInv, IsInjective
  <2> QED BY <1>1, <1>2, <2>1 DEF FetchInv, FetchTypeInv
<1>4. BatchInv'
  BY <1>1, <1>2, BatchSame DEF FetchInv, BatchInv
<1>5. OrderInv'
  BY <1>1, <1>2, OrderSame DEF FetchInv
<1>6. EndInv' /\ WasteInv'
  BY <1>1, <1>2 DEF FetchInv, EndInv, WasteInv
<1> QED BY <1>3, <1>4, <1>5, <1>6 DEF FetchInv

\* What a mode starts from: it has a list of the server, or none.
LEMMA FetchInvInit ==
  ASSUME Fetch!Init
  PROVE  FetchInv
<1>1. /\ fetch_pc = "first" /\ current_offset = 0 /\ futures = <<>> /\ taken = 0
      /\ has_more_pages = FALSE /\ all_cards = <<>> /\ last_status = 200
      /\ fetch_list \in FilterLists /\ fetch_failed = FALSE
  BY DEF Fetch!Init
<1>2. fetch_list \in Seq(Cards) /\ IsInjective(fetch_list) /\ End \in Nat
  <2>1. fetch_list \in Seq(Cards) /\ IsInjective(fetch_list)
    BY <1>1, FetchAssumption DEF Cards
  <2> QED BY <2>1, LenProperties DEF End
<1>3. ~InBatch /\ ~Going
  BY <1>1 DEF InBatch, Going
<1>4. FetchTypeInv
  <2>1. all_cards \in Seq(Cards)
    BY <1>1, EmptySeq
  <2>2. 0 \in Nat /\ 0 \in 0..0 /\ 200 # 500
    OBVIOUS
  <2> QED BY <1>1, <1>2, <1>3, <2>1, <2>2 DEF FetchTypeInv
<1>5. BatchInv /\ EndInv
  BY <1>1, <1>3 DEF BatchInv, EndInv
<1>6. OrderInv
  BY <1>1, <1>2, <1>3, EmptySeq DEF OrderInv, AgreedTo
<1>7. WasteInv
  <2>1. (MaxThreads + 1) * Size \in Nat /\ (MaxThreads + 1) * Size >= Size
    BY Products, Positive
  <2>2. current_offset < End + (MaxThreads + 1) * Size
    BY <1>1, <1>2, <2>1, Positive
  <2> QED BY <1>1, <2>2 DEF WasteInv
<1> QED BY <1>4, <1>5, <1>6, <1>7 DEF FetchInv

LEMMA FetchInvNext ==
  ASSUME FetchInv, Fetch!Next \/ UNCHANGED fetchVars
  PROVE  FetchInv'
<1>1. CASE UNCHANGED fetchVars
  BY <1>1, FetchStutters
<1>2. CASE Fetch!Caller
  BY <1>2, FirstPageStep, LaunchBatchStep, TakePageStep, TakeEmptyStep, TakeThrowStep,
     BatchTakenStep, EndBatchStep DEF Fetch!Caller
<1>3. CASE \E i \in 1..MaxThreads : Fetch!TaskEnds(i)
  BY <1>3, TaskEndsStep
<1>4. CASE Fetch!Finished
  <2>1. UNCHANGED fetchVars
    BY <1>4 DEF Fetch!Finished, Fetch!vars, Fetch!given, fetchVars
  <2> QED BY <2>1, FetchStutters
<1> QED BY <1>1, <1>2, <1>3, <1>4 DEF Fetch!Next

---------------------------------------------------------------------------
(* What the invariant says of the properties. *)

LEMMA BeginningOf ==
  ASSUME NEW S, NEW l \in Seq(S), NEW c \in Seq(S), Len(c) <= Len(l),
         \A m \in 1..Len(c) : c[m] = l[m]
  PROVE  c = SubSeq(l, 1, Len(c))
<1> DEFINE n == Len(c)
           s == SubSeq(l, 1, n)
<1>1. n \in Nat /\ Len(l) \in Nat /\ n <= Len(l)
  BY LenProperties
<1>2. \A m \in 1..n : l[m] \in S
  BY <1>1, ElementOfSeq
<1>3. /\ s \in Seq(S)
      /\ Len(s) = IF 1 <= n THEN n - 1 + 1 ELSE 0
      /\ \A m \in 1..(n - 1 + 1) : s[m] = l[1 + m - 1]
  <2> HIDE DEF n
  <2> QED BY <1>1, <1>2, SubSeqProperties
<1>4. Len(s) = n /\ \A m \in 1..n : s[m] = l[m]
  <2> HIDE DEF n, s
  <2>1. n - 1 + 1 = n /\ \A m \in 1..n : 1 + m - 1 = m
    BY <1>1
  <2> QED BY <1>1, <1>3, <2>1
<1> HIDE DEF s
<1> QED BY <1>3, <1>4, SeqEqual DEF s

\* How far two lists agree is known once they disagree there or one ends.
LEMMA AgreementIs ==
  ASSUME NEW l, NEW c, Len(l) \in Nat, Len(c) \in Nat,
         NEW a \in 0..Len(l), a <= Len(c), \A m \in 1..a : c[m] = l[m],
         a < Len(l) /\ a < Len(c) => c[a + 1] # l[a + 1]
  PROVE  Fetch!Max({n \in 0..Len(l) : n <= Len(c) /\ \A m \in 1..n : c[m] = l[m]}) = a
<1> DEFINE A == {n \in 0..Len(l) : n <= Len(c) /\ \A m \in 1..n : c[m] = l[m]}
<1>1. a \in A /\ A \in SUBSET Int
  OBVIOUS
<1>2. ASSUME NEW n \in A PROVE a >= n
  <2> SUFFICES ASSUME n > a PROVE FALSE
    BY <1>1
  <2>1. n \in 0..Len(l) /\ n <= Len(c) /\ \A m \in 1..n : c[m] = l[m]
    OBVIOUS
  <2>2. a + 1 \in 1..n /\ a < Len(l) /\ a < Len(c)
    BY <2>1
  <2> QED BY <2>1, <2>2
<1> HIDE DEF A
<1>3. \A x \in A : (\A y \in A : x >= y) => x = a
  BY <1>1, <1>2
<1>4. Fetch!Max(A) = a
  BY <1>1, <1>2, <1>3 DEF Fetch!Max
<1> QED BY <1>4 DEF A

\* The types of the fetch.
LEMMA FetchInvType ==
  ASSUME FetchInv
  PROVE  FetchTypeOK
<1>1. Len(futures) = IF InBatch THEN MaxThreads ELSE 0
  BY LengthOfBatch DEF FetchInv
<1>2. DOMAIN futures \in {{}, 1..MaxThreads}
  <2>1. DOMAIN <<>> = {}
    OBVIOUS
  <2> QED BY <2>1 DEF FetchInv, FetchTypeInv
<1> QED BY <1>1, <1>2 DEF FetchInv, FetchTypeInv, FetchTypeOK, Fetch!TypeOK

\* The end of a fetch in which nothing failed is the end of the list.
LEMMA FetchInvComplete ==
  ASSUME FetchInv
  PROVE  FetchComplete
<1> SUFFICES ASSUME fetch_pc = "done", ~fetch_failed, Unfiltered
             PROVE  all_cards = fetch_list
  BY DEF FetchComplete, Fetch!Complete, Unfiltered
<1>1. /\ last_status = 200 /\ ~has_more_pages
      /\ all_cards \in Seq(Cards) /\ fetch_list \in Seq(Cards)
  BY DEF FetchInv, FetchTypeInv
<1>2. Len(all_cards) = Len(fetch_list)
  BY <1>1 DEF FetchInv, EndInv, End
<1>3. \A m \in 1..Len(all_cards) : all_cards[m] = fetch_list[m]
  BY <1>1 DEF FetchInv, OrderInv, AgreedTo
<1> QED BY <1>1, <1>2, <1>3, SeqEqual

\* No batch begins a page or more behind the end.
LEMMA FetchInvWaste ==
  ASSUME FetchInv
  PROVE  FetchBoundedWaste
BY DEF FetchInv, WasteInv, End, Size, FetchBoundedWaste, Fetch!BoundedWaste

\* While the status is 200, what has been collected is the beginning of the list.
LEMMA FetchInvBeginning ==
  ASSUME FetchInv, Unfiltered, last_status = 200
  PROVE  /\ AgreedTo(Len(all_cards))
         /\ all_cards = SubSeq(fetch_list, 1, Len(all_cards))
<1>1. /\ all_cards \in Seq(Cards) /\ fetch_list \in Seq(Cards)
      /\ AgreedTo(Len(all_cards))
  BY DEF FetchInv, FetchTypeInv, OrderInv
<1>2. /\ Len(all_cards) <= Len(fetch_list)
      /\ \A m \in 1..Len(all_cards) : all_cards[m] = fetch_list[m]
  BY <1>1, LenProperties DEF AgreedTo, End
<1> QED BY <1>1, <1>2, BeginningOf

---------------------------------------------------------------------------
(* The refinement of PagedRead, step by step. *)

Stopped == fetch_pc = "done" \/ last_status # 200

\* What has been collected after a step, and before it, ends at the first hole.
LEMMA PrefixAfterThrow ==
  ASSUME FetchInv, NEW a, AgreedTo(a), Unfiltered, last_status # 200
  PROVE  Fetch!Prefix = SubSeq(fetch_list, 1, a)
<1>1. /\ fetch_list \in Seq(Cards) /\ all_cards \in Seq(Cards)
  BY DEF FetchInv, FetchTypeInv
<1>2. Len(fetch_list) \in Nat /\ Len(all_cards) \in Nat
  BY <1>1, LenProperties
<1>3. Fetch!Max(Fetch!Agreed) = a
  BY <1>2, AgreementIs DEF AgreedTo, End, Fetch!Agreed
<1> QED BY <1>3 DEF Fetch!Prefix, Unfiltered

LEMMA PrefixSame ==
  ASSUME UNCHANGED <<all_cards, last_status, fetch_list, matching>>
  PROVE  Fetch!Prefix' = Fetch!Prefix
BY DEF Fetch!Prefix, Fetch!Agreed, Fetch!Unfiltered

\* A step that collects nothing: it may return the result.
LEMMA NothingRead ==
  ASSUME Fetch!Prefix' = Fetch!Prefix, fetch_list' = fetch_list,
         Stopped => Stopped'
  PROVE  [Fetch!Abstract!Next]_(Fetch!Abstract!vars)
<1>1. CASE Stopped' = Stopped
  BY <1>1 DEF Stopped, Fetch!Abstract!vars
<1>2. CASE ~Stopped /\ Stopped'
  <2>1. Fetch!Abstract!Stop
    BY <1>2 DEF Stopped, Fetch!Abstract!Stop
  <2> QED BY <2>1 DEF Fetch!Abstract!Next
<1> QED BY <1>1, <1>2 DEF Stopped

\* A step that collects the list up to n.
LEMMA SomethingRead ==
  ASSUME ~Stopped, fetch_list' = fetch_list,
         NEW n \in (Len(Fetch!Prefix) + 1)..Len(fetch_list),
         Fetch!Prefix' = SubSeq(fetch_list, 1, n)
  PROVE  Fetch!Abstract!Next
<1>1. (fetch_pc = "done" \/ last_status # 200)' \in BOOLEAN
  OBVIOUS
<1> QED BY <1>1 DEF Stopped, Fetch!Abstract!Next, Fetch!Abstract!Read

LEMMA FetchStepRefines ==
  ASSUME FetchInv, FetchInv', Fetch!Next \/ UNCHANGED fetchVars
  PROVE  [Fetch!Abstract!Next]_(Fetch!Abstract!vars)
<1>1. ASSUME UNCHANGED <<all_cards, last_status, fetch_list, matching>>,
             fetch_pc # "done"
      PROVE  [Fetch!Abstract!Next]_(Fetch!Abstract!vars)
  BY <1>1, PrefixSame, NothingRead DEF Stopped
<1>2. CASE UNCHANGED fetchVars \/ Fetch!Finished
  <2>1. UNCHANGED <<all_cards, last_status, fetch_list, matching, fetch_pc>>
    BY <1>2 DEF fetchVars, Fetch!Finished, Fetch!vars, Fetch!given
  <2> QED BY <2>1, PrefixSame, NothingRead DEF Stopped
<1>3. CASE Fetch!FirstPage
  <2>1. /\ fetch_pc = "first" /\ all_cards = <<>> /\ last_status = 200
        /\ UNCHANGED <<last_status, fetch_list, matching>>
    BY <1>3 DEF Fetch!FirstPage, Fetch!given, FetchInv, FetchTypeInv
  <2>2. ~Stopped /\ Unfiltered' = Unfiltered
    BY <2>1 DEF Stopped, Unfiltered, Fetch!Unfiltered
  <2>3. Fetch!Prefix = <<>> /\ Len(Fetch!Prefix) = 0
    BY <2>1, EmptySeq DEF Fetch!Prefix
  <2>4. CASE ~Unfiltered
    <3>1. Fetch!Prefix' = Fetch!Prefix
      BY <2>2, <2>3, <2>4 DEF Fetch!Prefix, Unfiltered
    <3> QED BY <2>1, <2>2, <3>1, NothingRead
  <2>5. CASE Unfiltered
    <3>1. /\ all_cards' \in Seq(Cards') /\ fetch_list' \in Seq(Cards')
          /\ AgreedTo(Len(all_cards))'
      BY <2>1, <2>2, <2>5 DEF FetchInv, FetchTypeInv, OrderInv
    <3>2. /\ Len(all_cards') <= Len(fetch_list')
          /\ \A m \in 1..Len(all_cards') : all_cards'[m] = fetch_list'[m]
          /\ Len(all_cards') \in Nat /\ Len(fetch_list') \in Nat
      BY <3>1, LenProperties DEF AgreedTo, End
    <3>3. all_cards' = SubSeq(fetch_list, 1, Len(all_cards'))
      BY <2>1, <3>1, <3>2, BeginningOf
    <3>4. Fetch!Prefix' = all_cards'
      BY <2>1, <2>2, <2>5 DEF Fetch!Prefix, Unfiltered
    <3>5. CASE Len(all_cards') = 0
      <4>1. all_cards' = <<>>
        BY <3>1, <3>5, EmptySeq
      <4> QED BY <2>1, <2>2, <2>3, <3>4, <4>1, NothingRead
    <3>6. CASE Len(all_cards') # 0
      <4> DEFINE n == Len(all_cards')
      <4>1. n \in (Len(Fetch!Prefix) + 1)..Len(fetch_list)
        BY <2>1, <2>3, <3>2, <3>6
      <4>2. Fetch!Prefix' = SubSeq(fetch_list, 1, n)
        BY <3>3, <3>4
      <4> QED BY <2>1, <2>2, <4>1, <4>2, SomethingRead
    <3> QED BY <3>5, <3>6
  <2> QED BY <2>4, <2>5
<1>4. CASE Fetch!TakePage
  <2>1. /\ fetch_pc = "take" /\ fetch_pc' = "take"
        /\ UNCHANGED <<last_status, fetch_list, matching>>
        /\ Unfiltered' = Unfiltered /\ Cards' = Cards /\ End' = End
        /\ Len(all_cards) \in Nat /\ Len(all_cards') > Len(all_cards)
    <3>1. /\ fetch_pc = "take"
          /\ UNCHANGED <<fetch_pc, last_status, fetch_list, matching>>
          /\ Unfiltered' = Unfiltered /\ Cards' = Cards /\ End' = End
      BY <1>4, TakePageFacts
    <3> DEFINE p == Fetch!NextResult.items
    <3>2. /\ Len(all_cards) \in Nat /\ Len(p) \in Nat /\ Len(p) >= 1
          /\ Len(all_cards') = Len(all_cards) + Len(p)
      BY <1>4, TakePageFacts
    <3> HIDE DEF p
    <3>3. Len(all_cards') > Len(all_cards)
      BY <3>2
    <3> QED BY <3>1, <3>2, <3>3
  <2>2. Stopped' = Stopped
    BY <2>1 DEF Stopped
  <2>3. CASE ~Unfiltered
    <3>1. Fetch!Prefix' = Fetch!Prefix
      BY <2>1, <2>3 DEF Fetch!Prefix, Unfiltered
    <3> QED BY <2>1, <2>2, <3>1, NothingRead
  <2>4. CASE Unfiltered /\ last_status = 200
    <3>1. /\ all_cards' \in Seq(Cards) /\ fetch_list \in Seq(Cards)
          /\ AgreedTo(Len(all_cards))'
      BY <2>1, <2>4 DEF FetchInv, FetchTypeInv, OrderInv
    <3>2. /\ Len(all_cards') <= Len(fetch_list)
          /\ \A m \in 1..Len(all_cards') : all_cards'[m] = fetch_list[m]
          /\ Len(all_cards') \in Nat /\ Len(fetch_list) \in Nat
      BY <2>1, <3>1, LenProperties DEF AgreedTo, End
    <3>3. all_cards' = SubSeq(fetch_list, 1, Len(all_cards'))
      BY <3>1, <3>2, BeginningOf
    <3>4. Fetch!Prefix' = all_cards' /\ Fetch!Prefix = all_cards
      BY <2>1, <2>4 DEF Fetch!Prefix, Unfiltered
    <3>5. ~Stopped
      BY <2>1, <2>4 DEF Stopped
    <3> DEFINE n == Len(all_cards')
    <3>6. n \in (Len(Fetch!Prefix) + 1)..Len(fetch_list)
      BY <2>1, <3>2, <3>4
    <3>7. Fetch!Prefix' = SubSeq(fetch_list, 1, n)
      BY <3>3, <3>4
    <3> QED BY <2>1, <3>5, <3>6, <3>7, SomethingRead
  <2>5. CASE Unfiltered /\ last_status # 200
    <3>1. PICK a \in 0..End : AgreedTo(a) /\ (a < End => a < Position)
      BY <2>1, <2>5 DEF FetchInv, FetchTypeInv, OrderInv, Going
    <3>2. AgreedTo(a)'
      BY <1>4, <3>1, HoleStays
    <3>3. Fetch!Prefix = SubSeq(fetch_list, 1, a)
      BY <2>5, <3>1, PrefixAfterThrow
    <3>4. Fetch!Prefix' = SubSeq(fetch_list', 1, a)
      <4>1. /\ fetch_list' \in Seq(Cards') /\ all_cards' \in Seq(Cards')
        BY DEF FetchInv, FetchTypeInv
      <4>2. Len(fetch_list') \in Nat /\ Len(all_cards') \in Nat
        BY <4>1, LenProperties
      <4>3. Fetch!Max(Fetch!Agreed)' = a
        BY <3>2, <4>2, AgreementIs DEF AgreedTo, End, Fetch!Agreed, Fetch!Max
      <4> QED BY <2>1, <2>5, <4>3 DEF Fetch!Prefix, Unfiltered
    <3> QED BY <2>1, <2>2, <3>3, <3>4, NothingRead
  <2> QED BY <2>3, <2>4, <2>5
<1>5. CASE Fetch!TakeThrow
  <2>1. /\ fetch_pc = "take" /\ last_status' = 500
        /\ UNCHANGED <<all_cards, fetch_list, matching>>
    BY <1>5 DEF Fetch!TakeThrow, Fetch!Ready, Fetch!given
  <2>2. Stopped' /\ Unfiltered' = Unfiltered
    BY <2>1 DEF Stopped, Unfiltered, Fetch!Unfiltered
  <2>3. Fetch!Prefix' = Fetch!Prefix
    <3>1. CASE ~Unfiltered
      BY <2>2, <3>1 DEF Fetch!Prefix, Unfiltered
    <3>2. CASE last_status # 200
      <4>1. last_status' = last_status
        BY <2>1, <3>2 DEF FetchInv, FetchTypeInv
      <4> QED BY <2>1, <4>1, PrefixSame
    <3>3. CASE Unfiltered /\ last_status = 200
      <4>1. AgreedTo(Len(all_cards)) /\ all_cards = SubSeq(fetch_list, 1, Len(all_cards))
        BY <3>3, FetchInvBeginning
      <4>2. Fetch!Max(Fetch!Agreed)' = Len(all_cards)
        <5>1. Len(fetch_list) \in Nat /\ Len(all_cards) \in Nat
          BY LenProperties DEF FetchInv, FetchTypeInv
        <5>2. Fetch!Max(Fetch!Agreed) = Len(all_cards)
          BY <4>1, <5>1, AgreementIs DEF AgreedTo, End, Fetch!Agreed
        <5> QED BY <2>1, <5>2 DEF Fetch!Agreed, Fetch!Max
      <4>3. Fetch!Prefix = all_cards
        BY <3>3 DEF Fetch!Prefix, Unfiltered
      <4>4. Fetch!Prefix' = SubSeq(fetch_list, 1, Len(all_cards))
        BY <2>1, <2>2, <3>3, <4>2 DEF Fetch!Prefix, Unfiltered
      <4> QED BY <4>1, <4>3, <4>4
    <3> QED BY <3>1, <3>2, <3>3
  <2> QED BY <2>1, <2>2, <2>3, NothingRead
<1>6. CASE Fetch!LaunchBatch
  BY <1>1, <1>6 DEF Fetch!LaunchBatch, Fetch!given
<1>7. CASE Fetch!TakeEmpty
  BY <1>1, <1>7 DEF Fetch!TakeEmpty, Fetch!Ready, Fetch!given
<1>8. CASE Fetch!BatchTaken
  BY <1>1, <1>8 DEF Fetch!BatchTaken, Fetch!given
<1>9. CASE Fetch!EndBatch
  BY <1>1, <1>9 DEF Fetch!EndBatch, Fetch!given
<1>10. CASE \E i \in 1..MaxThreads : Fetch!TaskEnds(i)
  <2>1. UNCHANGED <<all_cards, last_status, fetch_list, matching, fetch_pc>>
    BY <1>10 DEF Fetch!TaskEnds, Fetch!given
  <2> QED BY <2>1, PrefixSame, NothingRead DEF Stopped
<1> QED BY <1>2, <1>3, <1>4, <1>5, <1>6, <1>7, <1>8, <1>9, <1>10
        DEF Fetch!Next, Fetch!Caller

LEMMA FetchInitRefines ==
  ASSUME Fetch!Init
  PROVE  Fetch!Abstract!Init
BY DEF Fetch!Init, Fetch!Abstract!Init, Fetch!Prefix
---------------------------------------------------------------------------
(* The filters.  Of a well-formed argument every key comes into the query,  *)
(* with what its last piece says.                                          *)

LEMMA PiecesOf ==
  ASSUME NEW pieces \in FilterArguments
  PROVE  /\ Len(pieces) \in Nat /\ DOMAIN pieces = 1..Len(pieces)
         /\ \A n \in 1..Len(pieces) : n \in Nat
BY FilterAssumption, LenProperties

\* Every key has a last piece.
LEMMA LastPiece ==
  ASSUME NEW pieces \in FilterArguments, WellFormed(pieces), NEW k \in KeysOf(pieces)
  PROVE  \E n \in DOMAIN pieces : IsLast(pieces, k, n)
<1> DEFINE P == {n \in DOMAIN pieces : pieces[n].key = k}
<1>1. Len(pieces) \in Nat /\ DOMAIN pieces = 1..Len(pieces)
  BY PiecesOf
<1>2. P # {} /\ P \in SUBSET (1..Len(pieces))
  BY <1>1 DEF KeysOf
<1>3. PICK n \in P : \A m \in P : m <= n
  <2> HIDE DEF P
  <2> QED BY <1>1, <1>2, LastPosition
<1>4. \A m \in (n + 1)..Len(pieces) : pieces[m].key # k
  BY <1>1, <1>3
<1> QED BY <1>1, <1>3, <1>4 DEF IsLast, WellFormed

\* And only one.
LEMMA OneLastPiece ==
  ASSUME NEW pieces \in FilterArguments, WellFormed(pieces), NEW k,
         NEW n \in DOMAIN pieces, NEW m \in DOMAIN pieces,
         IsLast(pieces, k, n), IsLast(pieces, k, m)
  PROVE  n = m
<1>1. Len(pieces) \in Nat /\ n \in 1..Len(pieces) /\ m \in 1..Len(pieces)
  BY PiecesOf
<1>2. n \in Int /\ m \in Int
  BY <1>1
<1>3. ~(n < m) /\ ~(m < n)
  BY <1>1 DEF IsLast
<1> QED BY <1>2, <1>3

\* The piece counts: none with its key comes after it.
Counts(pieces, n) == \A m \in (n + 1)..Len(pieces) : pieces[m].key # pieces[n].key

LEMMA CountingPiece ==
  ASSUME NEW pieces \in FilterArguments, WellFormed(pieces), NEW n \in DOMAIN pieces
  PROVE  /\ pieces[n].key \in KeysOf(pieces)
         /\ Counts(pieces, n) <=> IsLast(pieces, pieces[n].key, n)
<1>1. /\ Len(pieces) \in Nat /\ n \in Nat
      /\ \A m \in (n + 1)..Len(pieces) : m \in DOMAIN pieces
  BY PiecesOf
<1> QED BY <1>1 DEF WellFormed, KeysOf, Counts, IsLast

LEMMA QueryOf ==
  ASSUME NEW pieces \in FilterArguments, WellFormed(pieces)
  PROVE  /\ DOMAIN Query(pieces) = KeysOf(pieces)
         /\ \A n \in DOMAIN pieces :
               Counts(pieces, n) =>
                  Query(pieces)[pieces[n].key] = Handled(pieces[n].key, pieces[n].value)
<1> DEFINE parsed == ParseFilters(pieces)
<1>1. /\ DOMAIN parsed = KeysOf(pieces)
      /\ \A k \in KeysOf(pieces) :
            parsed[k] = pieces[CHOOSE n \in DOMAIN pieces : IsLast(pieces, k, n)].value
  BY DEF ParseFilters
<1>2. \A n \in DOMAIN pieces : \A k : IsLast(pieces, k, n) => parsed[k] = pieces[n].value
  <2> SUFFICES ASSUME NEW n \in DOMAIN pieces, NEW k, IsLast(pieces, k, n)
               PROVE  parsed[k] = pieces[n].value
    OBVIOUS
  <2>1. k \in KeysOf(pieces)
    BY DEF IsLast, KeysOf
  <2> DEFINE m == CHOOSE m \in DOMAIN pieces : IsLast(pieces, k, m)
  <2>2. m \in DOMAIN pieces /\ IsLast(pieces, k, m)
    OBVIOUS
  <2>3. m = n
    <3> HIDE DEF m
    <3> QED BY <2>2, OneLastPiece
  <2> QED BY <1>1, <2>1, <2>3
<1> HIDE DEF parsed
<1>3. \A k \in KeysOf(pieces) : k \in NumberKeys => parsed[k].number # NoNumber
  <2> SUFFICES ASSUME NEW k \in KeysOf(pieces), k \in NumberKeys
               PROVE  parsed[k].number # NoNumber
    OBVIOUS
  <2>1. PICK n \in DOMAIN pieces : IsLast(pieces, k, n)
    BY LastPiece
  <2>2. pieces[n] # Junk /\ pieces[n].value.whole
    BY <2>1 DEF IsLast, WellFormed
  <2> QED BY <1>2, <2>1, <2>2, FilterAssumption
<1>4. Query(pieces) = [k \in KeysOf(pieces) |-> Handled(k, parsed[k])]
  BY <1>1, <1>3 DEF Query, ApplyFilters, parsed
<1> QED BY <1>2, <1>4, CountingPiece

\* The server selects, of the cards it has, those that satisfy the filters that count.
LEMMA SelectedIsWanted ==
  ASSUME NEW pieces \in FilterArguments, WellFormed(pieces),
         NEW c \in UNION {Range(l) : l \in FilterLists}
  PROVE  c \in Selected(pieces)
            <=> \A n \in DOMAIN pieces : Counts(pieces, n) => Satisfies(CardOf(c), pieces[n])
<1> DEFINE card == CardOf(c)
<1>1. c \in Selected(pieces)
         <=> \A k \in KeysOf(pieces) \cap DOMAIN card : card[k] = Query(pieces)[k]
  BY QueryOf DEF Selected
<1>2. \A n \in DOMAIN pieces :
         Satisfies(card, pieces[n])
            <=> (pieces[n].key \in DOMAIN card
                    => card[pieces[n].key] = Handled(pieces[n].key, pieces[n].value))
  BY DEF Satisfies, Handled
<1> HIDE DEF card
<1>3. ASSUME \A k \in KeysOf(pieces) \cap DOMAIN card : card[k] = Query(pieces)[k],
             NEW n \in DOMAIN pieces, Counts(pieces, n)
      PROVE  Satisfies(card, pieces[n])
  BY <1>2, <1>3, QueryOf, CountingPiece
<1>4. ASSUME \A n \in DOMAIN pieces : Counts(pieces, n) => Satisfies(card, pieces[n]),
             NEW k \in KeysOf(pieces) \cap DOMAIN card
      PROVE  card[k] = Query(pieces)[k]
  <2>1. PICK n \in DOMAIN pieces : IsLast(pieces, k, n)
    BY LastPiece
  <2>2. pieces[n].key = k /\ Counts(pieces, n)
    BY <2>1, CountingPiece DEF IsLast
  <2> QED BY <1>2, <1>4, <2>2, QueryOf
<1> QED BY <1>1, <1>3, <1>4 DEF card

---------------------------------------------------------------------------
(* A result that fits into one page. *)

\* Once the first request has been answered a result that fits into its page is
\* the whole of the list, unless something failed; and nothing changes what the
\* list and the filters are.
SmallInv ==
    /\ filters \in FilterArguments
    /\ fetch_list \in FilterLists
    /\ matching = Selected(filters)
    /\ fetch_pc # "first" /\ ~fetch_failed /\ Len(Fetch!FirstPageList) < Size =>
          fetch_pc = "done" /\ all_cards = Fetch!FirstPageList

LEMMA SmallInvInit ==
  ASSUME FilterInit
  PROVE  SmallInv
BY DEF FilterInit, Fetch!Init, SmallInv

LEMMA SmallInvNext ==
  ASSUME FetchInv, SmallInv, Fetch!Next \/ UNCHANGED fetchVars, filters' = filters
  PROVE  SmallInv'
<1> DEFINE first == Fetch!FirstPageList
<1>1. UNCHANGED <<filters, fetch_list, matching>>
  BY DEF Fetch!Next, Fetch!Caller, Fetch!FirstPage, Fetch!LaunchBatch, Fetch!TakePage,
         Fetch!TakeEmpty, Fetch!TakeThrow, Fetch!BatchTaken, Fetch!EndBatch,
         Fetch!TaskEnds, Fetch!Finished, Fetch!vars, Fetch!given, fetchVars
<1>2. first' = first
  BY <1>1 DEF Fetch!FirstPageList
<1>3. SUFFICES ASSUME fetch_pc' # "first", ~fetch_failed', Len(first) < Size
               PROVE  fetch_pc' = "done" /\ all_cards' = first
  BY <1>1, <1>2 DEF SmallInv, Size, Fetch!Limit
<1>4. CASE Fetch!FirstPage
  <2>1. PICK answer \in Fetch!Answers(first, 0) :
          /\ all_cards' = answer.items
          /\ fetch_pc' = IF Fetch!Full(answer.items) THEN "launch" ELSE "done"
          /\ fetch_failed' = ~answer.ok
    BY <1>4 DEF Fetch!FirstPage
  <2>2. answer.items = Fetch!Page(first, 0)
    <3>1. \/ answer.ok = TRUE /\ answer.items = Fetch!Page(first, 0)
          \/ answer.ok = FALSE /\ answer.items = <<>>
      BY DEF Fetch!Answers
    <3> QED BY <1>3, <2>1, <3>1
  <2>3. first \in Seq(Cards) /\ Len(first) \in Nat
    BY FirstListProperties DEF FetchInv, FetchTypeInv
  <2> DEFINE p == Fetch!Page(first, 0)
  <2> HIDE DEF first
  <2>4. /\ p \in Seq(Cards) /\ Len(p) = Len(first) /\ ~Fetch!Full(p)
        /\ \A m \in 1..Len(p) : p[m] = first[m]
    <3>1. /\ p \in Seq(Cards)
          /\ 0 <= Len(first) =>
                Len(p) = IF 0 + Size < Len(first) THEN Size ELSE Len(first) - 0
          /\ Fetch!Full(p) <=> 0 + Size <= Len(first)
          /\ \A m \in 1..Len(p) : 0 + m \in 1..Len(first) /\ p[m] = first[0 + m]
      BY <2>3, PageProperties
    <3> HIDE DEF p
    <3>2. Len(p) = Len(first) /\ ~Fetch!Full(p)
      BY <1>3, <2>3, <3>1, Positive
    <3>3. \A m \in 1..Len(p) : 0 + m = m
      BY <2>3, <3>2
    <3> QED BY <3>1, <3>2, <3>3
  <2>5. p = first
    <3> HIDE DEF p
    <3> QED BY <2>3, <2>4, SeqEqual
  <2> QED BY <2>1, <2>2, <2>4, <2>5
<1>5. CASE ~Fetch!FirstPage
  <2>1. fetch_pc # "first" /\ ~fetch_failed
    <3>1. CASE UNCHANGED fetchVars \/ Fetch!Finished
      BY <1>3, <3>1 DEF fetchVars, Fetch!Finished, Fetch!vars
    <3>2. CASE \E n \in 1..MaxThreads : Fetch!TaskEnds(n)
      BY <1>3, <3>2 DEF Fetch!TaskEnds, FetchInv, FetchTypeInv
    <3>3. CASE Fetch!Caller
      BY <1>3, <1>5, <3>3 DEF Fetch!Caller, Fetch!LaunchBatch, Fetch!TakePage,
           Fetch!TakeEmpty, Fetch!TakeThrow, Fetch!BatchTaken, Fetch!EndBatch, Fetch!Ready
    <3> QED BY <3>1, <3>2, <3>3 DEF Fetch!Next
  <2>2. fetch_pc = "done" /\ all_cards = first
    BY <1>3, <2>1 DEF SmallInv
  <2>3. futures = <<>>
    BY <2>2 DEF FetchInv, FetchTypeInv, InBatch
  <2>4. UNCHANGED <<fetch_pc, all_cards>>
    <3>1. CASE UNCHANGED fetchVars \/ Fetch!Finished
      BY <3>1 DEF fetchVars, Fetch!Finished, Fetch!vars
    <3>2. CASE \E n \in 1..MaxThreads : Fetch!TaskEnds(n)
      BY <2>3, <3>2 DEF Fetch!TaskEnds
    <3>3. CASE Fetch!Caller
      BY <1>5, <2>2, <3>3 DEF Fetch!Caller, Fetch!LaunchBatch, Fetch!TakePage,
           Fetch!TakeEmpty, Fetch!TakeThrow, Fetch!BatchTaken, Fetch!EndBatch, Fetch!Ready
    <3> QED BY <3>1, <3>2, <3>3 DEF Fetch!Next
  <2> QED BY <2>2, <2>4
<1> QED BY <1>4, <1>5

LEMMA SmallInvResult ==
  ASSUME FetchInv, SmallInv
  PROVE  SmallResultIsWhatWasTyped
<1> DEFINE wanted(c) ==
             \A n \in DOMAIN filters :
                Counts(filters, n) => Satisfies(CardOf(c), filters[n])
           W == {n \in 1..Len(fetch_list) : wanted(fetch_list[n])}
<1>1. SUFFICES ASSUME fetch_pc = "done", ~fetch_failed, WellFormed(filters),
                      Len(Subsequence(fetch_list, W)) < Size
               PROVE  all_cards = Subsequence(fetch_list, W)
  BY DEF SmallResultIsWhatWasTyped, Counts, Size
<1>2. fetch_list \in Seq(Cards) /\ DOMAIN fetch_list = 1..Len(fetch_list)
  BY LenProperties DEF FetchInv, FetchTypeInv
<1>3. \A n \in 1..Len(fetch_list) : fetch_list[n] \in matching <=> wanted(fetch_list[n])
  <2> SUFFICES ASSUME NEW n \in 1..Len(fetch_list)
               PROVE  fetch_list[n] \in matching <=> wanted(fetch_list[n])
    OBVIOUS
  <2>1. fetch_list[n] \in UNION {Range(l) : l \in FilterLists}
    BY <1>2 DEF SmallInv, Range
  <2> QED BY <1>1, <2>1, SelectedIsWanted DEF SmallInv
<1>4. W = {n \in 1..Len(fetch_list) : fetch_list[n] \in matching}
  BY <1>3
<1> HIDE DEF W
<1>5. Fetch!FirstPageList = Subsequence(fetch_list, W)
  <2>1. Fetch!Subsequence(fetch_list, W) = Subsequence(fetch_list, W)
    BY DEF Fetch!Subsequence, Fetch!Rank, Fetch!Cardinality, Subsequence, Rank, Cardinality
  <2> QED BY <1>4, <2>1 DEF Fetch!FirstPageList
<1> QED BY <1>1, <1>5 DEF SmallInv
==============================================================================
