------------------------------- MODULE Listing -------------------------------
(***************************************************************************)
(* The sequential readers of a paginated list: handle_cards_list, the       *)
(* paginate_with_offset_limit of handle_users_list and handle_boards_list,  *)
(* and get_all_users.  They ask for one page after the other by offset,     *)
(* until a page is not full or comes back empty, as it also does when the   *)
(* request fails or its answer does not parse.  One item that the parser     *)
(* rejects (CardJson) spoils its page.                                     *)
(*                                                                         *)
(* The list lives on the server (external) and changes between two pages.   *)
(* Cards are sorted by "updated", latest first: an update moves a card to   *)
(* the front and a new card appears there.                                 *)
(***************************************************************************)
EXTENDS CommandLine, FiniteSets, SequencesExt

CONSTANTS
    MaxItems,     \* bound: the length of the list at first
    PageLimit,    \* params.limit; never above what the API allows
    MaxRequests,  \* max_requests
    MaxChanges    \* bound: changes of the list, if all of it parses

ASSUME ListingAssumption ==
    /\ MaxItems \in Nat
    /\ PageLimit \in Nat \ {0}
    /\ MaxRequests \in Nat \ {0}
    /\ MaxChanges \in Nat

VARIABLES
    bad,       \* an item that does not parse, or 0
    list,      \* the server's list; items are numbered as they come into being
    offset,    \* current_offset, params.offset
    items,     \* what has been received, in order
    requests,  \* requests_processed
    reading,   \* the loop goes on
    failed,    \* history: a request has failed
    initial,   \* history: the length of the list when the program started
    moved,     \* history: the items brought to the front, again and again
    removed    \* history: the items deleted

listingVars ==
    <<bad, list, offset, items, requests, reading, failed, initial, moved, removed>>

ListingModes == {"cards-list", "users-list", "boards-list"}

\* Only paginate_with_offset_limit counts its requests.
Capped == mode \in {"users-list", "boards-list"}

ListingInit ==
    /\ exit = Running
    /\ initial \in 0..MaxItems
    /\ list = [n \in 1..initial |-> n]
    /\ bad \in 0..(IF mode = "users-list" THEN 0 ELSE initial)
    /\ offset = 0
    /\ items = <<>>
    /\ requests = 0
    /\ reading = TRUE
    /\ failed = FALSE
    /\ moved = <<>>
    /\ removed = {}

Smaller(a, b) == IF a < b THEN a ELSE b

\* The server's answer to ?limit=PageLimit&offset=offset.
ServerPage == SubSeq(list, offset + 1, Smaller(offset + PageLimit, Len(list)))

\* Mutant: what does not parse is left out and the rest of the page is taken.
ParsesAlways(page) == TRUE

\* An exception of from_json, for any one item, leaves the whole page empty.
Parses(page) == bad \notin Range(page)

\* has_more: the page is full.
HasMore(page) == Len(page) = PageLimit

\* Mutants of the step from one page to the next.
NextOffsetShort == offset + PageLimit - 1
NextOffsetLong == offset + PageLimit + 1

NextOffset == offset + PageLimit

\* Mutant: one request too many.
MayGoOnLonger == Capped => requests < MaxRequests

MayGoOn == Capped => requests + 1 < MaxRequests

\* A page with items is collected; behind a full one the loop goes on.
ReadPage ==
    /\ reading
    /\ ServerPage # <<>> /\ Parses(ServerPage)
    /\ items' = items \o ServerPage
    /\ IF HasMore(ServerPage)
       THEN offset' = NextOffset /\ requests' = requests + 1 /\ reading' = MayGoOn
       ELSE reading' = FALSE /\ UNCHANGED <<offset, requests>>
    /\ UNCHANGED <<exit, bad, list, failed, initial, moved, removed>>

\* An empty page ends the loop, and so does one that does not parse, or a request
\* that fails.
ReadNothing ==
    /\ reading
    /\ failed' \in {ServerPage # <<>> /\ Parses(ServerPage), TRUE}
    /\ reading' = FALSE
    /\ UNCHANGED <<exit, bad, list, offset, items, requests, initial, moved, removed>>

\* The mode reports failure when nothing has come.
EndListing ==
    /\ ~reading
    /\ exit' = IF items = <<>> THEN Failure ELSE Success
    /\ UNCHANGED listingVars

ListMayChange ==
    /\ mode = "cards-list"
    /\ bad = 0
    /\ reading
    /\ Len(moved) + Cardinality(removed) < MaxChanges

\* Somebody updates the card at place n (external).
CardUpdated(n) ==
    /\ ListMayChange
    /\ list' = <<list[n]>> \o RemoveAt(list, n)
    /\ moved' = Append(moved, list[n])
    /\ UNCHANGED <<exit, bad, offset, items, requests, reading, failed, initial, removed>>

\* The number of a card that has not existed before.
Unused == 1 + initial + Cardinality({n \in DOMAIN moved : moved[n] > initial})

\* Somebody creates a card (external).
CardAppears ==
    /\ ListMayChange
    /\ list' = <<Unused>> \o list
    /\ moved' = Append(moved, Unused)
    /\ UNCHANGED <<exit, bad, offset, items, requests, reading, failed, initial, removed>>

\* Somebody deletes the card at place n (external).
CardVanishes(n) ==
    /\ ListMayChange
    /\ list' = RemoveAt(list, n)
    /\ removed' = removed \cup {list[n]}
    /\ UNCHANGED <<exit, bad, offset, items, requests, reading, failed, initial, moved>>

ListingStep == ReadPage \/ ReadNothing \/ EndListing

ListingNext ==
    \/ ListingStep
    \/ \E n \in DOMAIN list : CardUpdated(n)
    \/ \E n \in DOMAIN list : CardVanishes(n)
    \/ CardAppears

---------------------------------------------------------------------------
(* Properties. *)

\* The types; and no request is made once their number has reached its limit.
ListingTypeOK ==
    /\ IsInjective(list)
    /\ bad \in 0..initial
    /\ offset \in Nat
    /\ requests \in Nat
    /\ Capped /\ reading => requests < MaxRequests
    /\ reading \in BOOLEAN /\ failed \in BOOLEAN
    /\ initial \in 0..MaxItems
    /\ Len(moved) + Cardinality(removed) <= MaxChanges

\* Nothing has changed and no request has failed.
Quiet == moved = <<>> /\ removed = {} /\ ~failed

\* How much of the list there is to read: up to the page with the bad item.
Readable == IF bad = 0 THEN Len(list) ELSE ((bad - 1) \div PageLimit) * PageLimit

\* From a list that stays as it is the readers get all of it, in order, however
\* its length falls between the pages; the capped one gets what the cap allows.
\* A bad item costs its page and all that follow, and nothing before it.
ReadsAll ==
    mode \in ListingModes /\ Quiet /\ ~reading =>
        items = SubSeq(list, 1, IF Capped
                                THEN Smaller(MaxRequests * PageLimit, Readable)
                                ELSE Readable)

\* The cards that were there all the time and that nobody has touched.
Untouched == (1..initial) \ (Range(moved) \cup removed)

\* Updates and new cards never hide a card that nobody touches, although they
\* shift the pages; a deletion hides at most one.
MissesFew ==
    mode \in ListingModes /\ ~reading /\ ~failed /\ bad = 0 /\ ~Capped =>
        Cardinality(Untouched \ Range(items)) <= Cardinality(removed)

\* A card is listed twice at most once per update or new card, and deletions
\* repeat nothing: the total that is printed is off by no more than that.
RepeatsFew == Len(items) - Cardinality(Range(items)) <= Len(moved)
=============================================================================
