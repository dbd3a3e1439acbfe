------------------------------- MODULE Ranks --------------------------------
(***************************************************************************)
(* Several MPI processes that communicate through the library.  In each,   *)
(* the calls of all threads pass through one command queue to one offload  *)
(* thread.  A call that has a nonblocking counterpart only starts its      *)
(* operation there; one that has none (null_request_) keeps the offload    *)
(* thread until the other ranks have called it too.                        *)
(*                                                                         *)
(*   src/src/mpi/mpi_p2p.cpp, mpi_collective.cpp, mpi_win.cpp,             *)
(*   mpi_one_sided.cpp, and OffloadThread of src/src/offload.h.            *)
(*                                                                         *)
(* The question is who waits for whom.  Slots, flags and statuses are in   *)
(* module Offload; an operation here is over when the ranks it depends on  *)
(* have called it.                                                         *)
(***************************************************************************)
EXTENDS Naturals, Sequences, FiniteSets

CONSTANTS
    Ranks,              \* 0 .. number of processes - 1
    Threads,            \* the application threads of all processes
    RankOf,             \* the process of each thread
    Ops,                \* the operations of the program
    Operations,         \* what the operations are: a set of functions on Ops
    MaxCalls,           \* bound: calls made by each thread
    WindowsShareRank,   \* are window calls made while other threads communicate?
    NoOp

ASSUME RanksAssumption ==
    /\ Ranks = 0 .. Cardinality(Ranks) - 1
    /\ IsFiniteSet(Threads) /\ RankOf \in [Threads -> Ranks]
    /\ \A kind \in Operations : \A o \in Ops :
          /\ kind[o].family \in {"p2p", "all", "fromRoot", "toRoot", "prefix",
                                 "neighbor", "window", "accumulate"}
          /\ kind[o].root \in Ranks /\ kind[o].ranks \subseteq Ranks
    /\ NoOp \notin Ops /\ MaxCalls \in Nat

VARIABLES
    operation,          \* what each operation is (chosen initially)
    program,            \* the calls of each thread (chosen initially)
    entered,            \* how many of its calls a thread has entered
    inside,             \* is it inside a call that waits?
    queue,              \* per rank: the commands
    blocked,            \* per rank: the call that keeps the offload thread
    called,             \* per rank: the operations that MPI has been called for
    done                \* per rank: those whose done_ flag is set

vars == <<operation, program, entered, inside, queue, blocked, called, done>>

-----------------------------------------------------------------------------
(***************************************************************************)
(* The operations: the ranks that have to call one before it is over at r  *)
(***************************************************************************)
\* A send that MPI need not buffer, and its receive.
PointToPoint(o, r) == o.ranks

\* Barrier, Allgather, Alltoall, Allreduce, Reduce_scatter and their variants:
\* everybody sends to everybody.
Everybody(o, r) == o.ranks

\* Bcast, Scatter, Scatterv: everybody receives from the root.  A buffered send is
\* the root of such an operation, and its receive the other rank.
FromRoot(o, r) == {r, o.root}

\* Reduce, Gather, Gatherv: the root receives from everybody.
ToRoot(o, r) == IF r = o.root THEN o.ranks ELSE {r}

\* Scan, Exscan: a rank receives from the ranks below.
FromBelow(o, r) == {q \in o.ranks : q <= r}

\* The neighborhood collectives, here on a ring.
FromNeighbors(o, r) ==
    LET n == Cardinality(Ranks)
    IN  {q \in o.ranks : q = r \/ q = (r + 1) % n \/ r = (q + 1) % n}

\* Win_create, Win_fence: collective, and made without request.
Window(o, r) == o.ranks

\* Accumulate: over locally, and made without request.
Local(o, r) == {r}

Needs(o, r) ==
    CASE o.family = "p2p" -> PointToPoint(o, r)
      [] o.family = "all" -> Everybody(o, r)
      [] o.family = "fromRoot" -> FromRoot(o, r)
      [] o.family = "toRoot" -> ToRoot(o, r)
      [] o.family = "prefix" -> FromBelow(o, r)
      [] o.family = "neighbor" -> FromNeighbors(o, r)
      [] o.family = "window" -> Window(o, r)
      [] o.family = "accumulate" -> Local(o, r)

NullRequest(o) == o.family \in {"window", "accumulate"}

-----------------------------------------------------------------------------
(***************************************************************************)
(* Programs                                                                *)
(***************************************************************************)
\* MPI_Ixxx, MPI_Xxx and MPI_Wait
Calls == [style : {"start", "call", "wait"}, op : Ops]

Posts(s, o) == {i \in DOMAIN s : s[i].style # "wait" /\ s[i].op = o}

\* A thread posts an operation once, and waits once after starting it.
ThreadPrograms ==
    {s \in UNION {[1 .. n -> Calls] : n \in 0 .. MaxCalls} :
        \A o \in Ops :
            LET waits == {i \in DOMAIN s : s[i].style = "wait" /\ s[i].op = o}
            IN  \/ Posts(s, o) = {} /\ waits = {}
                \/ \E i \in Posts(s, o) :
                      /\ Posts(s, o) = {i}
                      /\ IF s[i].style = "call" THEN waits = {}
                         ELSE \E j \in waits : waits = {j} /\ i < j}

ThreadsOf(r) == {t \in Threads : RankOf[t] = r}

\* Each operation is called by one thread of every rank that takes part in it,
\* and with a request only where there is a nonblocking call.
Legal(kind, p) ==
    \A o \in Ops : \A r \in Ranks :
        LET callers == {t \in ThreadsOf(r) : Posts(p[t], o) # {}}
        IN  /\ Cardinality(callers) = IF r \in kind[o].ranks THEN 1 ELSE 0
            /\ \A t \in callers : NullRequest(kind[o]) =>
                  \A i \in Posts(p[t], o) : p[t][i].style = "call"
            /\ kind[o].family = "window" /\ ~WindowsShareRank =>
                  \A t \in callers : \A u \in ThreadsOf(r) \ {t} : p[u] = << >>

\* The program run on an MPI library with MPI_THREAD_MULTIPLE, when at[t] calls
\* of thread t have returned: it is stuck when no thread's next call returns.
Stuck(kind, p, at) ==
    LET Called(r) == {o \in Ops : \E t \in ThreadsOf(r) :
                         \E i \in Posts(p[t], o) : i <= at[t] + 1}
    IN  \A t \in Threads : at[t] < Len(p[t]) =>
            LET call == p[t][at[t] + 1]
            IN  call.style # "start" /\ \E q \in Needs(kind[call.op], RankOf[t]) : call.op \notin Called(q)

\* A call that can return stays so while others return, so the program completes
\* in one execution, and then in all, when it is stuck nowhere but at its end.
Completes(kind, p) ==
    \A at \in [Threads -> 0 .. MaxCalls] :
        (\A t \in Threads : at[t] <= Len(p[t])) /\ Stuck(kind, p, at)
            => \A t \in Threads : at[t] = Len(p[t])

Init ==
    /\ operation \in Operations
    /\ program \in {p \in [Threads -> ThreadPrograms] :
                       Legal(operation, p) /\ Completes(operation, p)}
    /\ entered = [t \in Threads |-> 0]
    /\ inside = [t \in Threads |-> FALSE]
    /\ queue = [r \in Ranks |-> << >>]
    /\ blocked = [r \in Ranks |-> NoOp]
    /\ called = [r \in Ranks |-> {}]
    /\ done = [r \in Ranks |-> {}]

-----------------------------------------------------------------------------
Current(t) == program[t][entered[t]]

Over(o, r) == \A q \in Needs(operation[o], r) : o \in called[q]

\* MPI_Ixxx posts a command and returns; MPI_Xxx goes on to MPI_Wait.
Post(t) ==
    /\ ~inside[t]
    /\ entered[t] < Len(program[t])
    /\ entered' = [entered EXCEPT ![t] = @ + 1]
    /\ LET call == program[t][entered[t] + 1]
       IN  /\ call.style # "wait"
           /\ queue' = [queue EXCEPT ![RankOf[t]] = Append(@, call.op)]
           /\ inside' = [inside EXCEPT ![t] = call.style = "call"]
    /\ UNCHANGED <<operation, program, blocked, called, done>>

Wait(t) ==
    /\ ~inside[t]
    /\ entered[t] < Len(program[t])
    /\ program[t][entered[t] + 1].style = "wait"
    /\ entered' = [entered EXCEPT ![t] = @ + 1]
    /\ inside' = [inside EXCEPT ![t] = TRUE]
    /\ UNCHANGED <<operation, program, queue, blocked, called, done>>

Return(t) ==
    /\ inside[t]
    /\ Current(t).op \in done[RankOf[t]]
    /\ inside' = [inside EXCEPT ![t] = FALSE]
    /\ UNCHANGED <<operation, program, entered, queue, blocked, called, done>>

\* The loop of wait, while done_ is not set: a program that is stuck spins.
Spin(t) ==
    /\ inside[t]
    /\ Current(t).op \notin done[RankOf[t]]
    /\ UNCHANGED vars

\* Mutant: every call blocks the offload thread.
ExecuteBlocking(r) ==
    /\ blocked[r] = NoOp /\ queue[r] # << >>
    /\ queue' = [queue EXCEPT ![r] = Tail(@)]
    /\ called' = [called EXCEPT ![r] = @ \cup {Head(queue[r])}]
    /\ blocked' = [blocked EXCEPT ![r] = Head(queue[r])]
    /\ UNCHANGED <<operation, program, entered, inside, done>>

\* The offload thread takes a command and calls MPI; a call with a request
\* returns at once.
Execute(r) ==
    /\ blocked[r] = NoOp
    /\ queue[r] # << >>
    /\ LET o == Head(queue[r])
       IN  /\ called' = [called EXCEPT ![r] = @ \cup {o}]
           /\ blocked' = [blocked EXCEPT ![r] = IF NullRequest(operation[o]) THEN o ELSE NoOp]
    /\ queue' = [queue EXCEPT ![r] = Tail(@)]
    /\ UNCHANGED <<operation, program, entered, inside, done>>

\* A call without request returns, and test_request sets its done_.
CallReturn(r) ==
    /\ blocked[r] # NoOp
    /\ Over(blocked[r], r)
    /\ done' = [done EXCEPT ![r] = @ \cup {blocked[r]}]
    /\ blocked' = [blocked EXCEPT ![r] = NoOp]
    /\ UNCHANGED <<operation, program, entered, inside, queue, called>>

\* test_request after a call and test_requests: the offload thread, when no call
\* keeps it, finds an operation to be over.  Which operations it tests when is left
\* open (a pass of test_requests goes on while commands arrive), but not for ever:
\* with an empty queue this is all it does.
TestRequests(r) ==
    /\ blocked[r] = NoOp
    /\ \E o \in called[r] \ done[r] :
          Over(o, r) /\ done' = [done EXCEPT ![r] = @ \cup {o}]
    /\ UNCHANGED <<operation, program, entered, inside, queue, blocked, called>>

Finished(t) == entered[t] = Len(program[t]) /\ ~inside[t]

Terminated == (\A t \in Threads : Finished(t)) /\ UNCHANGED vars

ThreadStep(t) == Post(t) \/ Wait(t) \/ Return(t) \/ Spin(t)

OffloadStep(r) == Execute(r) \/ CallReturn(r) \/ TestRequests(r)

Next ==
    \/ \E t \in Threads : ThreadStep(t)
    \/ \E r \in Ranks : OffloadStep(r)
    \/ Terminated

Spec == Init /\ [][Next]_vars

\* Every thread is scheduled, and MPI operations proceed.
Fairness ==
    /\ \A t \in Threads : WF_vars(ThreadStep(t))
    /\ \A r \in Ranks : WF_vars(OffloadStep(r))

LiveSpec == Spec /\ Fairness

-----------------------------------------------------------------------------
\* Nobody can do anything but spin: every thread has finished or waits for a flag
\* that is not set, and every offload thread is kept by its call or finds neither a
\* command nor an operation that is over.
Idle ==
    /\ \A t \in Threads : Finished(t) \/ (inside[t] /\ Current(t).op \notin done[RankOf[t]])
    /\ \A r \in Ranks :
          IF blocked[r] = NoOp
          THEN queue[r] = << >> /\ \A o \in called[r] \ done[r] : ~Over(o, r)
          ELSE ~Over(blocked[r], r)

\* No cycle of waiting passes through threads, command queues and offload threads
\* of several processes: where nobody can go on the program has ended.
NeverStuck == Idle => \A t \in Threads : Finished(t)

\* "using one offloading thread behaves as-if provided was MPI_THREAD_MULTIPLE"
\* (src/src/mpi/mpi_interposition.cpp:28): a program that completes on an MPI
\* library with MPI_THREAD_MULTIPLE completes with the offload thread.
EveryProgramCompletes == <>(\A t \in Threads : Finished(t))
=============================================================================
