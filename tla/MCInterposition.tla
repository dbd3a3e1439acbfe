-------------------------- MODULE MCInterposition ---------------------------
(* Instances of Interposition for TLC. *)
EXTENDS Interposition, TLC

\* Every call has one role.
ASSUME OneRole ==
    \A r1, r2 \in Roles : r1 = r2 \/ Calls(r1) \cap Calls(r2) = {}

AllCalls == UNION {Calls(role) : role \in Roles}

\* Calls that are safe at any moment.
SafeCalls == UNION {Calls(role) : role \in {"local", "creates", "closes"}}

Symmetry == Permutations(Threads) \cup Permutations(Requests)
=============================================================================
