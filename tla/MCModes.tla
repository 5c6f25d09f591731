------------------------------- MODULE MCModes -------------------------------
(* Instances of Modes for TLC. *)
EXTENDS Modes

CONSTANTS p1, dev, stranger, FE, x1, x2, t1, t2, done, open

\* Two versions of a parent card: with a work code in its title and without.
TwoParentCards ==
    {[sprint |-> None, code |-> x1], [sprint |-> x2, code |-> None]}

Plain == [parent |-> None, responsible |-> None, role |-> None,
          tasks |-> <<"good">>, tags |-> <<>>]

Full == [parent |-> p1, responsible |-> dev, role |-> None,
         tasks |-> <<"good", "good">>, tags |-> <<t1, t2>>]

\* Files of one and of two entries; entries that share a parent, that lack one,
\* that have no tasks, and that make the program throw at its first or at its
\* second task.
SmallBacklogs ==
    {Unreadable,
     <<>>,
     <<Plain>>,
     <<[Plain EXCEPT !.parent = p1, !.tags = <<t1>>]>>,
     <<Full, [Plain EXCEPT !.role = FE]>>,
     <<[Full EXCEPT !.tasks = <<"good">>, !.tags = <<>>],
       [Plain EXCEPT !.parent = p1, !.responsible = stranger]>>,
     <<[Plain EXCEPT !.parent = Malformed]>>,
     <<[Plain EXCEPT !.tasks = Missing], Plain>>,
     <<Plain, [Plain EXCEPT !.tasks = <<"good", "bad">>]>>}

\* Lists of every length: last pages that are full, short, and missing, at
\* every place in a batch.
ListsUpTo(n) == {[c \in 1..len |-> c] : len \in 0..n}
Lists14 == ListsUpTo(14)

FilterCard(c) ==
    [board_id |-> IF c \in {1, 4, 5} THEN 1 ELSE 2,
     archived |-> c \in {2, 4},
     state |-> IF c \in {3, 6} THEN done ELSE open]

Piece(key, text, number, whole) ==
    [key |-> key, value |-> [text |-> text, number |-> number, whole |-> whole]]

Board(n) == Piece("board_id", "n", n, TRUE)
Archived(text) == Piece("archived", text, NoNumber, FALSE)
State(text) == Piece("state", text, NoNumber, FALSE)

\* No filter; one of each type; two; the same key twice; flags by other words; a
\* number with a rest and one without digits; a key nobody knows; junk.
SomeFilters ==
    {<<>>, <<Board(1)>>, <<Board(1), Archived("true")>>, <<State(open), State(done)>>,
     <<Board(2), Archived("no"), Board(1)>>, <<Archived("1")>>,
     <<Piece("board_id", "1x", 1, FALSE)>>, <<Piece("board_id", "x", NoNumber, FALSE)>>,
     <<Piece("color", done, NoNumber, FALSE)>>, <<Junk, State(done)>>}

ProperCard == [f \in CardFields |-> CHOOSE kind \in Proper(f) : TRUE]
ProperUser == [f \in UserFields |-> CHOOSE kind \in ProperForUser(f) : TRUE]

Noon == [year |-> 2024, month |-> 6, day |-> 15, hour |-> 12, minute |-> 0,
         zone |-> [sign |-> 0, hours |-> 0, minutes |-> 0]]

\* The ends of months and years, in leap years and others, the first and the
\* last hour of the day, offsets of either sign and with half hours.
EndsOfMonths ==
    {<<1, 1>>, <<1, 31>>, <<2, 1>>, <<2, 28>>, <<3, 1>>, <<4, 30>>, <<12, 1>>, <<12, 31>>}
Zones ==
    {[sign |-> s, hours |-> z[1], minutes |-> z[2]] :
        s \in {1, -1}, z \in {<<0, 0>>, <<0, 30>>, <<3, 0>>, <<5, 45>>, <<14, 0>>}}
        \cup {Noon.zone}
Stamps ==
    {[year |-> y, month |-> d[1], day |-> d[2], hour |-> t[1], minute |-> t[2], zone |-> z] :
        y \in {1970, 1999, 2000, 2023, 2024, 2100},
        d \in EndsOfMonths, t \in {<<0, 0>>, <<0, 30>>, <<14, 0>>, <<23, 59>>}, z \in Zones}
    \cup {[year |-> y, month |-> 2, day |-> 29, hour |-> h, minute |-> 0, zone |-> z] :
            y \in {2000, 2024}, h \in {0, 23}, z \in Zones}

\* A proper card at each of the stamps; one with any field of any kind; one with
\* two odd fields, of which the second throws; an object without any fields.
SomeCardAnswers ==
    {[fields |-> ProperCard, stamp |-> s] : s \in Stamps}
    \cup {[fields |-> [ProperCard EXCEPT ![f] = kind], stamp |-> Noon] :
            f \in CardFields, kind \in Kinds}
    \cup {[fields |-> [ProperCard EXCEPT !["id"] = "text", ![f] = kind], stamp |-> Noon] :
            f \in Fragile, kind \in Kinds}
    \cup {[fields |-> [f \in CardFields |-> "absent"], stamp |-> Noon]}

\* A proper user; one with any field of any kind; an object without any fields.
SomeUserAnswers ==
    {[fields |-> [ProperUser EXCEPT ![f] = kind]] : f \in UserFields, kind \in Kinds}
    \cup {[fields |-> ProperUser], [fields |-> [f \in UserFields |-> "absent"]]}

\* Bounds: the lists that change are shorter than those that a cap cuts off, and so
\* are those with filters, of which only the first page depends on them.
BoundedInit ==
    /\ Init
    /\ mode = "cards-list" => initial <= 6
    /\ filters # <<>> => Len(fetch_list) <= 7

ModesBounded == BoundedInit /\ [][Next]_allVars /\ Fairness
=============================================================================
