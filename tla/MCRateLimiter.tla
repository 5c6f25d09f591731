--------------------------- MODULE MCRateLimiter ----------------------------
(* Instances of RateLimiter for TLC. *)
EXTENDS RateLimiter

\* Small limits, with and without a minimum interval between requests.
TwoLimits == {[minute |-> 1, hour |-> 3, interval |-> 0],
              [minute |-> 1, hour |-> 1, interval |-> 2]}

\* Bound: how many requests have gone through when the settings last change.
MaxBefore == 2

BoundedNext == Next /\ (UNCHANGED config \/ Len(log) <= MaxBefore)

FairBounded == Init /\ [][BoundedNext]_vars /\ Fairness
=============================================================================
