---------------------------- MODULE Subsequences ----------------------------
(***************************************************************************)
(* What is left of a sequence when some of its elements are erased.  It is  *)
(* what SelectSeq computes, for a set of positions in place of a test, and   *)
(* written by rank so that it can be reasoned about without recursion: the  *)
(* k-th element that is left stands at the position of rank k.              *)
(***************************************************************************)
EXTENDS Integers, Sequences, FiniteSets

\* How many positions of P there are up to i.
Rank(P, i) == Cardinality({j \in P : j <= i})

\* The elements of q at the positions P, in order.
Subsequence(q, P) ==
    [k \in 1..Cardinality(P) |-> q[CHOOSE i \in P : Rank(P, i) = k]]
=============================================================================
