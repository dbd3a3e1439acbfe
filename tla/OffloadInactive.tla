--------------------------- MODULE OffloadInactive --------------------------
(***************************************************************************)
(* Offload with an application that also passes inactive requests to       *)
(* MPI_Wait, as MPI allows: after a wait or a successful test MPI has set  *)
(* the request to MPI_REQUEST_NULL, and a second wait returns at once.     *)
(* The library leaves the old slot index in the request instead.           *)
(***************************************************************************)
EXTENDS MCOffload

\* MPI_Wait with a request whose operation has been completed before
WaitInactive(t, r) ==
    /\ pc[t] = "idle" /\ running /\ opc # "crashed"
    /\ phase[r] = "inactive"
    /\ posts[r] > 0
    /\ pc' = [pc EXCEPT ![t] = "word"]
    /\ req' = [req EXCEPT ![t] = r]
    /\ phase' = [phase EXCEPT ![r] = "stale"]
    /\ UNCHANGED <<idx, posts, poster, word, status, queue>>
    /\ UNCHANGED <<poolVars, running, offVars, mpiVars>>

NextInactive == Next \/ \E t \in Threads, r \in Requests : WaitInactive(t, r)

SpecInactive == Init /\ [][NextInactive]_vars

\* "One is allowed to call MPI_Wait with a null or inactive request argument.
\* In this case the operation returns immediately with empty status."
\* (src/src/mpi/mpi_interposition.cpp:59-61)
InactiveWaitIsEmpty ==
    [][\A r \in Requests : phase[r] = "stale" /\ phase'[r] = "inactive"
           => status'[r] = EmptyStatus]_vars
=============================================================================
