-------------------------- MODULE MCOfflineManager --------------------------
(* Instances of OfflineManager for TLC. *)
EXTENDS OfflineManager, TLC

Symmetry == Permutations(Threads) \cup Permutations(Ids \ BadIds)
=============================================================================
