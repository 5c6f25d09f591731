------------------------------- MODULE Filters -------------------------------
(***************************************************************************)
(* From the argument of --cards-filter to the query of the first request:   *)
(* parse_filters splits "key1=value1,key2=value2", apply_filters hands each *)
(* filter to the handler of its key, Query_builder::build writes what came  *)
(* of it.  A filter that no handler knows is passed on as it is.           *)
(*                                                                         *)
(* A value is the record of its text, of the number that std::stoll or      *)
(* std::stoi finds at its beginning (NoNumber when there is none), and of   *)
(* whether the number is the whole text.                                   *)
(***************************************************************************)
EXTENDS Integers, Sequences

CONSTANTS
    Junk,     \* a piece without "="
    NoNumber

NumberKeys ==
    {"board_id", "lane_id", "column_id", "owner_id", "member_id", "type_id", "condition"}
FlagKeys == {"archived", "blocked", "asap"}

Yes == {"true", "1", "yes"}

KeysOf(pieces) == {pieces[n].key : n \in {m \in DOMAIN pieces : pieces[m] # Junk}}

\* The piece of the argument that says what k is to be.
IsLast(pieces, k, n) ==
    /\ pieces[n] # Junk /\ pieces[n].key = k
    /\ \A m \in (n + 1)..Len(pieces) : pieces[m] # Junk => pieces[m].key # k

IsFirst(pieces, k, n) ==
    /\ pieces[n] # Junk /\ pieces[n].key = k
    /\ \A m \in 1..(n - 1) : pieces[m] # Junk => pieces[m].key # k

\* Mutant: of two filters with the same key the first counts.
ParseFiltersFirst(pieces) ==
    [k \in KeysOf(pieces) |->
        pieces[CHOOSE n \in DOMAIN pieces : IsFirst(pieces, k, n)].value]

\* A later filter replaces an earlier one with the same key; junk is only logged.
ParseFilters(pieces) ==
    [k \in KeysOf(pieces) |->
        pieces[CHOOSE n \in DOMAIN pieces : IsLast(pieces, k, n)].value]

\* What the handler of key k makes of a value.
Handled(k, value) ==
    IF k \in NumberKeys THEN value.number
    ELSE IF k \in FlagKeys THEN value.text \in Yes
    ELSE value.text

\* apply_filters: a filter whose number does not parse is only logged.
ApplyFilters(filters) ==
    LET applied == {k \in DOMAIN filters :
                        k \in NumberKeys => filters[k].number # NoNumber}
    IN  [k \in applied |-> Handled(k, filters[k])]

\* The conditions that Query_builder::build writes behind limit and offset.
Query(pieces) == ApplyFilters(ParseFilters(pieces))

---------------------------------------------------------------------------
(* What a user means. *)

\* As the help text and the README have it: key=value, with a number where one
\* is due.
WellFormed(pieces) ==
    \A n \in DOMAIN pieces :
        /\ pieces[n] # Junk
        /\ pieces[n].key \in NumberKeys => pieces[n].value.whole

\* The card satisfies a filter: its field has the value, or is no field at all.
Satisfies(card, piece) ==
    LET k == piece.key
        v == piece.value
    IN  k \in DOMAIN card =>
            IF k \in NumberKeys THEN card[k] = v.number
            ELSE IF k \in FlagKeys THEN card[k] = (v.text \in Yes)
            ELSE card[k] = v.text
=============================================================================
