---------------------------- MODULE BatchedFetch ----------------------------
(***************************************************************************)
(* get_all_cards_batched: the first page is fetched alone; then batches of  *)
(* pages are fetched by std::async tasks that finish in any order, while    *)
(* the caller takes the results in the order of the offsets.               *)
(*                                                                         *)
(* The server (external) serves pages of a fixed list.  get_cards_paginated *)
(* gives an empty page when the request fails.                             *)
(***************************************************************************)
EXTENDS Integers, SequencesExt, Subsequences

CONSTANTS
    Lists,       \* the lists of cards the server may have, in its order
    Selections,  \* sets of cards that the filters of a caller may select
    PageSize,    \* page_size
    ApiLimit,    \* the largest limit the API accepts (100 in the code)
    MaxThreads,  \* max_threads: tasks in a batch
    Env,         \* "http_fail": requests fail; "exception": a task throws
    Pending      \* a future that is not ready

VARIABLES
    pc,              \* where the caller is
    current_offset,  \* first offset that has not been requested
    futures,         \* the batch: offset and result of each task
    taken,           \* how many results of the batch have been taken
    has_more_pages,
    all_cards,
    last_status,
    list,            \* the server's list
    matching,        \* the cards that satisfy the filters of the caller
    failed           \* history: a request failed or a task threw

given == <<list, matching>>
vars == <<pc, current_offset, futures, taken, has_more_pages, all_cards, last_status,
          given, failed>>

\* params.limit
Limit == IF PageSize > ApiLimit THEN ApiLimit ELSE PageSize

\* The page of the list that starts at offset.
Page(cards, offset) ==
    SubSeq(cards, offset + 1,
           IF offset + Limit < Len(cards) THEN offset + Limit ELSE Len(cards))

\* What get_cards_paginated may return: the page, or nothing when the request
\* or the parsing of its answer fails.
Answers(cards, offset) ==
    {[ok |-> TRUE, items |-> Page(cards, offset)]}
        \cup (IF "http_fail" \in Env THEN {[ok |-> FALSE, items |-> <<>>]} ELSE {})

\* The filters go with the first request only; fetch_page_result has none.
FirstPageList == Subsequence(list, {n \in 1..Len(list) : list[n] \in matching})

\* Mutant: a page is compared with the page size the caller asked for.
FullUnclamped(items) == Len(items) = PageSize

\* result.has_more
Full(items) == Len(items) = Limit

Init ==
    /\ pc = "first"
    /\ current_offset = 0
    /\ futures = <<>>
    /\ taken = 0
    /\ has_more_pages = FALSE
    /\ all_cards = <<>>
    /\ last_status = 200
    /\ list \in Lists
    /\ matching \in Selections
    /\ failed = FALSE

FirstPage ==
    /\ pc = "first"
    /\ \E answer \in Answers(FirstPageList, 0) :
        /\ all_cards' = answer.items
        /\ has_more_pages' = Full(answer.items)
        /\ pc' = IF Full(answer.items) THEN "launch" ELSE "done"
        /\ current_offset' = IF Full(answer.items) THEN Limit ELSE 0
        /\ failed' = ~answer.ok
    /\ UNCHANGED <<futures, taken, last_status, given>>

\* Mutant: i <= max_threads.
LaunchBatchOneMore ==
    /\ pc = "launch"
    /\ futures' = [i \in 1..(MaxThreads + 1) |->
                     [offset |-> current_offset + (i - 1) * Limit, result |-> Pending]]
    /\ current_offset' = current_offset + (MaxThreads + 1) * Limit
    /\ taken' = 0
    /\ has_more_pages' = FALSE
    /\ pc' = "take"
    /\ UNCHANGED <<all_cards, last_status, given, failed>>

\* One task per thread is started.
LaunchBatch ==
    /\ pc = "launch"
    /\ futures' = [i \in 1..MaxThreads |->
                     [offset |-> current_offset + (i - 1) * Limit, result |-> Pending]]
    /\ current_offset' = current_offset + MaxThreads * Limit
    /\ taken' = 0
    /\ has_more_pages' = FALSE
    /\ pc' = "take"
    /\ UNCHANGED <<all_cards, last_status, given, failed>>

\* A task ends; its future becomes ready.
TaskEnds(i) ==
    /\ i \in 1..Len(futures)
    /\ futures[i].result = Pending
    /\ \/ \E answer \in Answers(list, futures[i].offset) :
            /\ futures' = [futures EXCEPT ![i].result =
                              [threw |-> FALSE, items |-> answer.items]]
            /\ failed' = (failed \/ ~answer.ok)
       \/ /\ "exception" \in Env
          /\ futures' = [futures EXCEPT ![i].result = [threw |-> TRUE, items |-> <<>>]]
          /\ failed' = TRUE
    /\ UNCHANGED <<pc, current_offset, taken, has_more_pages, all_cards, last_status, given>>

\* The result of the next future, in the order of the offsets.
NextResult == futures[taken + 1].result

Ready == pc = "take" /\ taken < Len(futures) /\ NextResult # Pending

\* futures[i].get() returns a page with cards.
TakePage ==
    /\ Ready
    /\ ~NextResult.threw /\ NextResult.items # <<>>
    /\ all_cards' = all_cards \o NextResult.items
    /\ has_more_pages' = (has_more_pages \/ Full(NextResult.items))
    /\ taken' = taken + 1
    /\ UNCHANGED <<pc, current_offset, futures, last_status, given, failed>>

\* Mutant: an empty page ends the batch but not the fetch.
TakeEmptyGoesOn ==
    /\ Ready
    /\ ~NextResult.threw /\ NextResult.items = <<>>
    /\ pc' = "join"
    /\ UNCHANGED <<current_offset, futures, taken, has_more_pages, all_cards, last_status,
                   given, failed>>

\* An empty page ends the batch and the fetch.
TakeEmpty ==
    /\ Ready
    /\ ~NextResult.threw /\ NextResult.items = <<>>
    /\ has_more_pages' = FALSE
    /\ pc' = "join"
    /\ UNCHANGED <<current_offset, futures, taken, all_cards, last_status, given, failed>>

\* Mutant: the exception is only logged.
TakeThrowQuietly ==
    /\ Ready
    /\ NextResult.threw
    /\ taken' = taken + 1
    /\ UNCHANGED <<pc, current_offset, futures, has_more_pages, all_cards, last_status,
                   given, failed>>

\* futures[i].get() throws what the task threw; the loop goes on.
TakeThrow ==
    /\ Ready
    /\ NextResult.threw
    /\ last_status' = 500
    /\ taken' = taken + 1
    /\ UNCHANGED <<pc, current_offset, futures, has_more_pages, all_cards, given, failed>>

\* The loop over the futures is over.
BatchTaken ==
    /\ pc = "take"
    /\ taken = Len(futures)
    /\ pc' = "join"
    /\ UNCHANGED <<current_offset, futures, taken, has_more_pages, all_cards, last_status,
                   given, failed>>

\* The futures of std::async wait for their tasks when they are destroyed.
EndBatch ==
    /\ pc = "join"
    /\ \A i \in 1..Len(futures) : futures[i].result # Pending
    /\ futures' = <<>>
    /\ taken' = 0
    /\ pc' = IF has_more_pages THEN "launch" ELSE "done"
    /\ UNCHANGED <<current_offset, has_more_pages, all_cards, last_status, given, failed>>

Finished == pc = "done" /\ UNCHANGED vars

Caller ==
    \/ FirstPage \/ LaunchBatch
    \/ TakePage \/ TakeEmpty \/ TakeThrow \/ BatchTaken
    \/ EndBatch

Next ==
    \/ Caller
    \/ \E i \in 1..MaxThreads : TaskEnds(i)
    \/ Finished

Spec == Init /\ [][Next]_vars

---------------------------------------------------------------------------
(* Properties. *)

TypeOK ==
    /\ pc \in {"first", "launch", "take", "join", "done"}
    /\ current_offset \in Nat
    /\ DOMAIN futures \in {{}, 1..MaxThreads}
    /\ taken \in 0..Len(futures)
    /\ has_more_pages \in BOOLEAN
    /\ last_status \in {200, 500}

\* However the tasks finish, and although failed pages look like the end, the
\* cards collected are those of the server from the first on, in order, without
\* gap or duplicate, for as long as the status says 200.  A thrown exception
\* ends the read: a caller that checks the status takes no list with a hole.
\* Nothing is said when the filters exclude a card (see FilterApplied).
Unfiltered == Range(list) \subseteq matching

\* How far all_cards agrees with the list.
Agreed ==
    {n \in 0..Len(list) : n <= Len(all_cards) /\ \A m \in 1..n : all_cards[m] = list[m]}

Prefix ==
    IF ~Unfiltered THEN <<>>
    ELSE IF last_status = 200 THEN all_cards ELSE SubSeq(list, 1, Max(Agreed))

Abstract == INSTANCE PagedRead
    WITH got <- Prefix, stopped <- (pc = "done" \/ last_status # 200)

InOrder == Abstract!Spec

\* When no request failed and nothing is filtered out, all cards are returned.
Complete ==
    pc = "done" /\ ~failed /\ Unfiltered
    => all_cards = list

\* As long as requests succeed, no offset is requested further than one batch
\* and a page past the end of the list, although a batch is launched whenever
\* any page of the last one was full.
BoundedWaste == ~failed => current_offset < Len(list) + (MaxThreads + 1) * Limit

\* What the caller asked for: only cards that satisfy the filters.
FilterApplied == \A i \in 1..Len(all_cards) : all_cards[i] \in matching
=============================================================================
