-------------------------- MODULE MCConnectionPool --------------------------
(* Instances of ConnectionPool for TLC. *)
EXTENDS ConnectionPool, TLC

CONSTANTS a1, a2, a3, a4, b1, b2, b3, hostA, hostB

\* All streams to one host, as Http_client uses the pool.
OneHost == [c \in Conns |-> hostA]

\* Streams to two hosts.
TwoHosts == [c \in Conns |-> IF c \in {a1, a2, a3, a4} THEN hostA ELSE hostB]

Symmetry == Permutations(Threads) \cup Permutations(Conns)

TwoHostSymmetry ==
    Permutations(Threads)
        \cup Permutations(Conns \cap {a1, a2, a3, a4})
        \cup Permutations(Conns \cap {b1, b2, b3})

\* Live agrees with SelectSeq on every short queue.
ASSUME LiveIsSelectSeq ==
    \A n \in 0..3 : \A q \in [1..n -> Conns] : \A dead \in SUBSET Conns :
        Live(q, dead) = SelectSeq(q, LAMBDA c : c \notin dead)
=============================================================================
