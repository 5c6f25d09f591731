---------------------------- MODULE MCRequestPath ----------------------------
(* Instances of RequestPath for TLC. *)
EXTENDS RequestPath, TLC

\* Http_client talks to one server.
CONSTANTS server

OneServer == [c \in Conns |-> server]

\* One request a minute; many, but at a distance.
PathLimits == {[minute |-> 1, hour |-> 10, interval |-> 0],
               [minute |-> 5, hour |-> 10, interval |-> 2]}

\* Bound: only a page reader runs with the distance, the one property about it.
BoundedInit == PathInit /\ (limits.interval > 0 => reader)

PathBounded == BoundedInit /\ [][PathNext]_pathVars

AnyThread == Permutations(Threads)
=============================================================================
