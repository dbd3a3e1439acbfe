------------------------------ MODULE MCRanks -------------------------------
(* Instances of Ranks for TLC: two processes, the first with two threads. *)
EXTENDS RanksInvariant, TLC

CONSTANTS a, b, c       \* the threads

TwoOnFirst == (a :> 0) @@ (b :> 0) @@ (c :> 1)

Kind(family, root) == [family |-> family, root |-> root, ranks |-> {0, 1}]

Both      == Kind("p2p", 0)
First     == Kind("fromRoot", 0)
Second    == Kind("toRoot", 0)
Fence     == Kind("window", 0)
Accumulate == [Kind("accumulate", 0) EXCEPT !.ranks = {0}]

\* Every pair of operations, up to their order.  With two ranks the families that
\* are missing make a rank wait for the same ranks as one of these.
Pairs == {<<Both, Both>>, <<Both, First>>, <<Both, Second>>, <<Both, Fence>>,
          <<First, First>>, <<First, Second>>, <<First, Fence>>,
          <<Second, Second>>, <<Second, Fence>>, <<Fence, Fence>>,
          <<Accumulate, Both>>, <<Accumulate, Fence>>}
\* a and b are interchangeable: the first operation is a's.  (TLC's SYMMETRY is not
\* sound for liveness.)
OrderedInit == Init /\ Posts(program[a], 1) # {}

OrderedSpec == OrderedInit /\ [][Next]_vars /\ Fairness
=============================================================================
