----------------------------- MODULE CardsFilter -----------------------------
(***************************************************************************)
(* handle_cards_filter: the filters given on the command line select the    *)
(* cards of the first request of get_all_cards_batched (BatchedFetch),      *)
(* whose last status decides on the exit status.                           *)
(***************************************************************************)
EXTENDS CommandLine, Filters, SequencesExt, Subsequences

CONSTANTS
    FilterArguments,  \* what may be given as filters, split at the commas
    FilterLists,      \* the lists of cards the server may have
    CardOf(_),        \* the fields of a card that filters can be about
    PageSize, ApiLimit, MaxThreads, FetchEnv, Pending  \* as in BatchedFetch

ASSUME FetchAssumption ==
    /\ \A l \in FilterLists : l \in Seq(Range(l)) /\ IsInjective(l)
    /\ PageSize \in Nat \ {0} /\ ApiLimit \in Nat \ {0} /\ MaxThreads \in Nat \ {0}
    /\ FetchEnv \subseteq {"http_fail", "exception"}

\* A value that is a number as a whole is found to be one.
ASSUME FilterAssumption ==
    \A pieces \in FilterArguments :
        /\ pieces \in Seq(Range(pieces))
        /\ \A n \in DOMAIN pieces :
              pieces[n] # Junk /\ pieces[n].value.whole => pieces[n].value.number # NoNumber

VARIABLES
    filters,  \* the argument
    \* the state of the fetch
    fetch_pc, current_offset, futures, taken, has_more_pages, all_cards, last_status,
    fetch_list, matching, fetch_failed

fetchVars ==
    <<fetch_pc, current_offset, futures, taken, has_more_pages, all_cards, last_status,
      fetch_list, matching, fetch_failed>>
filterVars == <<filters, fetchVars>>

\* The server's answer to a query (external): it knows the fields of a card and
\* ignores every other condition.
Selected(pieces) ==
    LET query == Query(pieces)
    IN  {c \in UNION {Range(l) : l \in FilterLists} :
            \A k \in DOMAIN query \cap DOMAIN CardOf(c) : CardOf(c)[k] = query[k]}

Fetch == INSTANCE BatchedFetch
    WITH pc <- fetch_pc, list <- fetch_list, failed <- fetch_failed,
         Lists <- FilterLists, Env <- FetchEnv,
         Selections <- {Selected(pieces) : pieces \in FilterArguments}

FilterInit ==
    /\ filters \in FilterArguments
    /\ matching = Selected(filters)
    /\ Fetch!Init

FilterFetch ==
    /\ fetch_pc # "done"
    /\ Fetch!Next
    /\ UNCHANGED <<exit, filters>>

\* Mutant: the status of the fetch is not looked at.
EndFilterGood ==
    /\ fetch_pc = "done"
    /\ exit' = Success
    /\ UNCHANGED filterVars

\* Nothing found is a success.
EndFilter ==
    /\ fetch_pc = "done"
    /\ exit' = IF last_status = 200 THEN Success ELSE Failure
    /\ UNCHANGED filterVars

FilterStep == FilterFetch \/ EndFilter

---------------------------------------------------------------------------
(* Properties. *)

\* The types of the fetch.
FetchTypeOK == Fetch!TypeOK

\* As in BatchedFetch: no gap and no duplicate, however the tasks finish and
\* although a failed page looks like the end.
FetchInOrder == Fetch!InOrder

\* As in BatchedFetch: everything, when nothing fails and nothing is filtered out.
FetchComplete == Fetch!Complete

\* As in BatchedFetch: no batch is launched far behind the end.
FetchBoundedWaste == Fetch!BoundedWaste

\* A result that fits into one page is what was asked for: the cards that
\* satisfy every filter of a well-formed argument (of filters with the same key
\* the last one), all of them, in the server's order.
SmallResultIsWhatWasTyped ==
    LET counts(n) == \A m \in (n + 1)..Len(filters) : filters[m].key # filters[n].key
        wanted(c) == \A n \in DOMAIN filters : counts(n) => Satisfies(CardOf(c), filters[n])
        result == Subsequence(fetch_list, {n \in 1..Len(fetch_list) : wanted(fetch_list[n])})
    IN  fetch_pc = "done" /\ ~fetch_failed /\ WellFormed(filters)
            /\ Len(result) < Fetch!Limit
        => all_cards = result

\* Exit status 0 stands for a list without a hole: a page that a task threw away
\* shows in it, however many good pages came after.  (A failed request does not:
\* it looks like the end.)
ExitZeroMeansNoHole ==
    mode = "cards-filter" /\ exit = Success /\ Range(fetch_list) \subseteq matching =>
        all_cards = SubSeq(fetch_list, 1, Len(all_cards))
=============================================================================
