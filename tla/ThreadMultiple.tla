--------------------------- MODULE ThreadMultiple ---------------------------
(***************************************************************************)
(* What the application is promised ("behaves as-if provided was           *)
(* MPI_THREAD_MULTIPLE", src/src/mpi/mpi_interposition.cpp:28): any thread *)
(* may post an operation and any thread may complete it; the operations of *)
(* one thread reach MPI in that thread's program order; and a request      *)
(* becomes inactive again only after its operation has finished.           *)
(***************************************************************************)
EXTENDS Naturals, Sequences

CONSTANTS Threads, Requests

VARIABLES stage,        \* per request: where its current operation is
          program       \* per thread: its requests that MPI has not seen yet

vars == <<stage, program>>

TypeOK == /\ stage \in [Requests -> {"inactive", "posted", "started", "finished"}]
          /\ program \in [Threads -> Seq(Requests)]

Init == /\ stage = [r \in Requests |-> "inactive"]
        /\ program = [t \in Threads |-> << >>]

Post(t, r) == /\ stage[r] = "inactive"
              /\ stage' = [stage EXCEPT ![r] = "posted"]
              /\ program' = [program EXCEPT ![t] = Append(@, r)]

Start(t) == /\ program[t] # << >>
            /\ stage' = [stage EXCEPT ![Head(program[t])] = "started"]
            /\ program' = [program EXCEPT ![t] = Tail(@)]

Finish(r) == /\ stage[r] = "started"
             /\ stage' = [stage EXCEPT ![r] = "finished"]
             /\ UNCHANGED program

\* MPI_Wait returns, or MPI_Test returns with flag = true
Return(r) == /\ stage[r] = "finished"
             /\ stage' = [stage EXCEPT ![r] = "inactive"]
             /\ UNCHANGED program

Next == \/ \E t \in Threads : Start(t) \/ \E r \in Requests : Post(t, r)
        \/ \E r \in Requests : Finish(r) \/ Return(r)

Spec == Init /\ [][Next]_vars
=============================================================================
