------------------------------ MODULE PagedRead ------------------------------
(***************************************************************************)
(* What the "get all" operations promise: they collect a collection of the  *)
(* server from its beginning, in the server's order, without a gap and      *)
(* without a duplicate, and then stop.  How much is read before stopping is *)
(* left open.                                                              *)
(***************************************************************************)
EXTENDS Integers, Sequences

VARIABLES list,     \* the server's collection, in its order
          got,      \* what has been collected
          stopped   \* the result has been returned

vars == <<list, got, stopped>>

Init == got = <<>> /\ stopped = FALSE

\* The next items arrive; they may be the last ones wanted.
Read ==
    /\ ~stopped
    /\ \E n \in (Len(got) + 1)..Len(list) : got' = SubSeq(list, 1, n)
    /\ UNCHANGED list /\ stopped' \in BOOLEAN

Stop ==
    /\ ~stopped
    /\ stopped' = TRUE
    /\ UNCHANGED <<list, got>>

Next == Read \/ Stop

Spec == Init /\ [][Next]_vars
=============================================================================
