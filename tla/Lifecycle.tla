------------------------------ MODULE Lifecycle -----------------------------
(***************************************************************************)
(* Start and end of the engine: MPI_Init_thread and MPI_Finalize of        *)
(* src/src/mpi/mpi_interposition.cpp, start, run and stop of               *)
(* src/src/offload.h.  The application's main thread starts the offload    *)
(* thread, which initializes MPI and answers through a promise; at the end *)
(* the main thread joins it and finalizes MPI itself.  In between any      *)
(* thread makes offloaded calls, and calls that the library does not       *)
(* interpose, which enter MPI in the calling thread.                       *)
(*                                                                         *)
(* The life of an offloaded operation is the subject of Offload: here each *)
(* is a blocking call of its thread, and the thread stands for its command *)
(* and its request.                                                        *)
(***************************************************************************)
EXTENDS Naturals, Sequences, FiniteSets

CONSTANTS
    Threads,            \* application threads
    Main,               \* the one that initializes and finalizes MPI
    OffloadThread,
    DirectCalls,        \* does the application make calls not interposed?
    Pinning,            \* is there an affinity for this rank in the environment?
    MaxCalls,           \* bound: calls of each application thread
    None                \* no value yet; the handle of no thread

Levels == {"SINGLE", "FUNNELED", "SERIALIZED", "MULTIPLE"}

ASSUME LifecycleAssumption ==
    /\ Main \in Threads
    /\ OffloadThread \notin Threads
    /\ None \notin Threads \cup {OffloadThread} \cup Levels
    /\ DirectCalls \in BOOLEAN /\ Pinning \in BOOLEAN /\ MaxCalls \in Nat

VARIABLES
    pc, calls,          \* application threads: place, calls made
    level, reported,    \* MPI_Init_thread: the future's value, *provided
    running, thread_,   \* members of OffloadThread
    promise,            \* provided_promise
    opc, command,       \* the offload thread: place, command in hand
    queue, used, done,  \* commands posted; operations started; completed
    mpi, provided       \* the MPI library: state, and the thread level

appVars == <<pc, calls, level, reported>>
opVars  == <<command, queue, used, done>>
vars == <<appVars, running, thread_, promise, opc, opVars, mpi, provided>>

Queue == INSTANCE CommandQueue WITH Items <- Threads

Init ==
    /\ pc = [t \in Threads |-> IF t = Main THEN "start" ELSE "idle"]
    /\ calls = [t \in Threads |-> 0]
    /\ level = None /\ reported = None
    /\ running = FALSE /\ thread_ = None
    /\ promise = None
    /\ opc = "none" /\ command = None
    /\ Queue!Init /\ used = {} /\ done = {}
    /\ mpi = "uninitialized" /\ provided = None

\* The process runs: neither MPI_Abort nor a segmentation fault ended it.
Alive == mpi # "aborted" /\ opc # "crashed"

Goto(t, place) == pc' = [pc EXCEPT ![t] = place]

-----------------------------------------------------------------------------
(***************************************************************************)
(* MPI_Init_thread                                                         *)
(***************************************************************************)
\* start: running_ = true
InitThread ==
    /\ pc[Main] = "start"
    /\ running' = TRUE
    /\ Goto(Main, "spawn")
    /\ UNCHANGED <<calls, level, reported, thread_, promise, opc, opVars, mpi, provided>>

\* start: std::thread{&OffloadThread::run, ...}
Spawn ==
    /\ pc[Main] = "spawn"
    /\ opc' = "init"
    /\ Goto(Main, "assign")
    /\ UNCHANGED <<calls, level, reported, running, thread_, promise, opVars, mpi, provided>>

\* start: the temporary is moved to thread_ while the new thread runs already.
Assign ==
    /\ pc[Main] = "assign"
    /\ thread_' = OffloadThread
    /\ Goto(Main, "get")
    /\ UNCHANGED <<calls, level, reported, running, promise, opc, opVars, mpi, provided>>

\* Mutant: the future is not waited for.
GetAtOnce ==
    /\ pc[Main] = "get" /\ level' = IF promise = None THEN "FUNNELED" ELSE promise
    /\ Goto(Main, "check")
    /\ UNCHANGED <<calls, reported, running, thread_, promise, opc, opVars, mpi, provided>>

\* provided_future.get()
Get ==
    /\ pc[Main] = "get"
    /\ promise # None
    /\ level' = promise
    /\ Goto(Main, "check")
    /\ UNCHANGED <<calls, reported, running, thread_, promise, opc, opVars, mpi, provided>>

AbortSingle ==
    /\ pc[Main] = "check"
    /\ level = "SINGLE"
    /\ mpi' = "aborted"
    /\ UNCHANGED <<appVars, running, thread_, promise, opc, opVars, provided>>

InitReturn ==
    /\ pc[Main] = "check"
    /\ level # "SINGLE"
    /\ reported' = IF level \in {"SERIALIZED", "FUNNELED"} THEN "MULTIPLE" ELSE level
    /\ Goto(Main, "idle")
    /\ UNCHANGED <<calls, level, running, thread_, promise, opc, opVars, mpi, provided>>

-----------------------------------------------------------------------------
(***************************************************************************)
(* The application between initialization and finalization                 *)
(***************************************************************************)
Working(t) ==
    /\ reported # None
    /\ pc[Main] \notin {"join", "finalize", "finalized"}
    /\ pc[t] = "idle"
    /\ calls[t] < MaxCalls
    /\ calls' = [calls EXCEPT ![t] = @ + 1]

\* A blocking call: post, then MPI_Wait.
Post(t) ==
    /\ Working(t)
    /\ Queue!Enqueue(t)
    /\ Goto(t, "wait")
    /\ UNCHANGED <<level, reported, running, thread_, promise, opc, command, used, done, mpi, provided>>

WaitReturn(t) ==
    /\ pc[t] = "wait"
    /\ t \in done
    /\ done' = done \ {t}
    /\ Goto(t, "idle")
    /\ UNCHANGED <<calls, level, reported, running, thread_, promise, opc>>
    /\ UNCHANGED <<command, queue, used, mpi, provided>>

\* A call that is only declared, not implemented: MPI's own function runs.
DirectCall(t) ==
    /\ DirectCalls
    /\ Working(t)
    /\ Goto(t, "direct")
    /\ UNCHANGED <<level, reported, running, thread_, promise, opc, opVars, mpi, provided>>

DirectReturn(t) ==
    /\ pc[t] = "direct"
    /\ Goto(t, "idle")
    /\ UNCHANGED <<calls, level, reported, running, thread_, promise, opc, opVars, mpi, provided>>

-----------------------------------------------------------------------------
(***************************************************************************)
(* MPI_Finalize: the other threads make no more calls (MPI's rule)         *)
(***************************************************************************)
\* Mutant: stop does not clear running_.
StopWithoutClearing ==
    /\ reported # None /\ \A t \in Threads : pc[t] = "idle"
    /\ Goto(Main, "join")
    /\ UNCHANGED <<calls, level, reported, running, thread_, promise, opc, opVars, mpi, provided>>

\* stop: running_ = false
Stop ==
    /\ reported # None
    /\ \A t \in Threads : pc[t] = "idle"
    /\ running' = FALSE
    /\ Goto(Main, "join")
    /\ UNCHANGED <<calls, level, reported, thread_, promise, opc, opVars, mpi, provided>>

\* Mutant: stop does not join.
JoinNothing ==
    /\ pc[Main] = "join" /\ thread_' = None /\ Goto(Main, "finalize")
    /\ UNCHANGED <<calls, level, reported, running, promise, opc, opVars, mpi, provided>>

\* stop: thread_.join()
Join ==
    /\ pc[Main] = "join"
    /\ opc = "exited"
    /\ thread_' = None
    /\ Goto(Main, "finalize")
    /\ UNCHANGED <<calls, level, reported, running, promise, opc, opVars, mpi, provided>>

\* PMPI_Finalize returns.
Finalize ==
    /\ pc[Main] = "finalize"
    /\ mpi' = "finalized"
    /\ Goto(Main, "finalized")
    /\ UNCHANGED <<calls, level, reported, running, thread_, promise, opc, opVars, provided>>

-----------------------------------------------------------------------------
(***************************************************************************)
(* The offload thread                                                      *)
(***************************************************************************)
\* PMPI_Init_thread returns: whatever level the library has.
InitMPI ==
    /\ opc = "init"
    /\ provided' \in Levels
    /\ mpi' = "initialized"
    /\ opc' = "promise"
    /\ UNCHANGED <<appVars, running, thread_, promise, opVars>>

\* Mutant: the promise is kept only if the library has the level asked for.
SetValueIfMultiple ==
    /\ opc = "promise" /\ opc' = "rank"
    /\ promise' = IF provided = "MULTIPLE" THEN provided ELSE promise
    /\ UNCHANGED <<appVars, running, thread_, opVars, mpi, provided>>

SetValue ==
    /\ opc = "promise"
    /\ promise' = provided
    /\ opc' = "rank"
    /\ UNCHANGED <<appVars, running, thread_, opVars, mpi, provided>>

\* PMPI_Comm_rank returns.
CommRank ==
    /\ opc = "rank"
    /\ opc' = "pin"
    /\ UNCHANGED <<appVars, running, thread_, promise, opVars, mpi, provided>>

\* thread_.native_handle() is whatever is in thread_ now: nothing orders this
\* read after Assign.  pthread_setaffinity_np reads through the handle, if the
\* environment has an entry for the rank.
Pin ==
    /\ opc = "pin"
    /\ opc' = IF Pinning /\ thread_ = None THEN "crashed" ELSE "loop"
    /\ UNCHANGED <<appVars, running, thread_, promise, opVars, mpi, provided>>

\* poll_and_test: while (running_)
Loop ==
    /\ opc = "loop"
    /\ opc' = IF running THEN "dequeue" ELSE "exited"
    /\ UNCHANGED <<appVars, running, thread_, promise, opVars, mpi, provided>>

Dequeue ==
    /\ opc = "dequeue"
    /\ \E t \in Threads : Queue!Dequeue(t) /\ command' = t
    /\ opc' = "call"
    /\ UNCHANGED <<appVars, running, thread_, promise, used, done, mpi, provided>>

DequeueNone ==
    /\ opc = "dequeue"
    /\ Queue!DequeueNone
    /\ opc' = IF used = {} THEN "loop" ELSE "test"
    /\ UNCHANGED <<appVars, running, thread_, promise, command, used, done, mpi, provided>>

\* Mutant: what is complete at the first test is not marked.
CallWithoutMark ==
    /\ opc = "call" /\ opc' = "loop" /\ command' = None
    /\ used' \in {used, used \cup {command}}
    /\ UNCHANGED <<appVars, running, thread_, promise, queue, done, mpi, provided>>

\* The MPI call, and with it the first test of its request.
Call ==
    /\ opc = "call"
    /\ \/ used' = used \cup {command} /\ UNCHANGED done
       \/ done' = done \cup {command} /\ UNCHANGED used
    /\ command' = None
    /\ opc' = "loop"
    /\ UNCHANGED <<appVars, running, thread_, promise, queue, mpi, provided>>

\* test_requests: some of the operations have finished.
TestRequests ==
    /\ opc = "test"
    /\ \E finished \in SUBSET used : /\ used' = used \ finished
                                     /\ done' = done \cup finished
    /\ opc' = "loop"
    /\ UNCHANGED <<appVars, running, thread_, promise, command, queue, mpi, provided>>

-----------------------------------------------------------------------------
\* The program has ended.
Terminated == (pc[Main] = "finalized" \/ ~Alive) /\ UNCHANGED vars

\* What a thread does inside the library, or inside MPI.
MainStep == InitThread \/ Spawn \/ Assign \/ Get \/ AbortSingle \/ InitReturn
            \/ Join \/ Finalize

CallReturns(t) == WaitReturn(t) \/ DirectReturn(t)

OffloadStep == InitMPI \/ SetValue \/ CommRank \/ Pin \/ Loop \/ Dequeue
               \/ DequeueNone \/ Call \/ TestRequests

Next ==
    \/ /\ Alive
       /\ \/ MainStep \/ Stop \/ OffloadStep
          \/ \E t \in Threads : Post(t) \/ DirectCall(t) \/ CallReturns(t)
    \/ Terminated

Spec == Init /\ [][Next]_vars

\* Threads inside the library are scheduled, and every started operation ends:
\* a test sees it at some point.
LiveSpec ==
    /\ Spec
    /\ WF_vars(Alive /\ MainStep)
    /\ WF_vars(Alive /\ OffloadStep)
    /\ SF_vars(Alive /\ TestRequests /\ used' = {})
    /\ \A t \in Threads : WF_vars(Alive /\ CallReturns(t))

-----------------------------------------------------------------------------
TypeOK ==
    /\ pc \in [Threads -> {"start", "spawn", "assign", "get", "check", "idle", "wait",
                           "direct", "join", "finalize", "finalized"}]
    /\ calls \in [Threads -> 0 .. MaxCalls]
    /\ level \in Levels \cup {None} /\ reported \in Levels \cup {None}
    /\ running \in BOOLEAN
    /\ thread_ \in {None, OffloadThread}
    /\ promise \in Levels \cup {None}
    /\ opc \in {"none", "init", "promise", "rank", "pin", "loop", "dequeue", "call",
                "test", "exited", "crashed"}
    /\ command \in Threads \cup {None}
    /\ queue \in Seq(Threads)
    /\ used \in SUBSET Threads /\ done \in SUBSET Threads
    /\ mpi \in {"uninitialized", "initialized", "finalized", "aborted"}
    /\ provided \in Levels \cup {None}

\* The threads that are inside an MPI function.
InMPI ==
    {t \in Threads : pc[t] \in {"direct", "finalize"}}
        \cup IF opc \in {"rank", "call", "test"} THEN {OffloadThread} ELSE {}

\* No thread is inside MPI before PMPI_Init_thread has returned or after
\* PMPI_Finalize has: the promise holds back the application, the join of stop
\* holds back PMPI_Finalize, however late the offload thread enters its loop.
InitializedInMPI == Alive /\ InMPI # {} => mpi = "initialized"

\* While PMPI_Finalize runs no other thread is inside MPI and no operation is
\* queued, started or waited for.
FinalizeAlone ==
    Alive /\ pc[Main] = "finalize" =>
        InMPI = {Main} /\ queue = << >> /\ used = {} /\ command = None

\* If all communication is offloaded one thread at a time is inside MPI, as the
\* level SERIALIZED wants, at start and end too.
OneThreadInMPI == ~DirectCalls => Cardinality(InMPI) <= 1

\* "using one offloading thread behaves as-if provided was MPI_THREAD_MULTIPLE"
\* (mpi_interposition.cpp:28): MPI is entered only as its level allows, which
\* with FUNNELED is by the thread that initialized it.
AsIfMultiple ==
    Alive => /\ provided = "FUNNELED" => InMPI \subseteq {OffloadThread}
             /\ provided = "SERIALIZED" => Cardinality(InMPI) <= 1

\* "Set thread affinity of offloading thread(s)" (README.md:43): run pins the
\* thread it runs in.
PinsItself == opc # "crashed"

\* MPI_Init_thread returns, unless the library has only SINGLE.
InitReturns == pc[Main] = "start" ~> reported # None \/ mpi = "aborted"

\* Every call returns, and so does MPI_Finalize.
CallsReturn == \A t \in Threads : pc[t] \in {"wait", "direct"} ~> pc[t] = "idle"
FinalizeReturns == pc[Main] = "join" ~> pc[Main] = "finalized"
=============================================================================
