--------------------------- MODULE MCRequestPool ----------------------------
(* Instances of RequestPool for TLC. *)
EXTENDS RequestPool, TLC

Symmetry == Permutations(Releasers)
=============================================================================
