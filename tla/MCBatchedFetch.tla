--------------------------- MODULE MCBatchedFetch ---------------------------
(* Instances of BatchedFetch for TLC. *)
EXTENDS BatchedFetch

\* Lists of every length: last pages that are full, short, and missing, at
\* every place in a batch.
UpTo(n) == {[i \in 1..k |-> i] : k \in 0..n}
Lists9 == UpTo(9)
SomeCards == {1..6}
=============================================================================
