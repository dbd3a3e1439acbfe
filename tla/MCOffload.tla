----------------------------- MODULE MCOffload ------------------------------
(* Instances of Offload for TLC. *)
EXTENDS OffloadInvariant, TLC

Symmetry == Permutations(Threads) \cup Permutations(Requests \ NullRequests)
=============================================================================
