----------------------------- MODULE Benchmark ------------------------------
(***************************************************************************)
(* bench/mt_overlap.cpp on the offload engine: in each process the main    *)
(* thread duplicates the world communicator once for each thread, then all *)
(* threads pass messages around the ring of processes, rep times, each     *)
(* over its own communicator.  The engine is what Offload shows it to be:  *)
(* a queue of commands in each process whose operations MPI then finishes. *)
(* The exits on errors of the system and the measurements are left out.    *)
(***************************************************************************)
EXTENDS Integers, Sequences, FiniteSets

CONSTANTS
    num_procs,
    nthreads,           \* omp_get_max_threads, the same in all processes
    rep

ASSUME BenchmarkAssumption ==
    /\ num_procs \in Nat \ {0} /\ nthreads \in Nat \ {0} /\ rep \in Nat

Procs == 0 .. num_procs - 1
Threads == 0 .. nthreads - 1

rank_send(p) == (p + 1) % num_procs
rank_recv(p) == (p + num_procs - 1) % num_procs

VARIABLES
    place,              \* per process: where the main thread is
    dups,               \* per process: communicators made so far
    pc,                 \* per process and thread: place in the parallel region
    iteration,          \* per process and thread: i of the loop over rep
    recvbuf,            \* per process and thread: -1, or the sender's thread_id
    queue,              \* per process: commands posted
    started, finished,  \* per process: operations in MPI; finished, not waited for
    sent                \* messages that no receive has matched

vars == <<place, dups, pc, iteration, recvbuf, queue, started, finished, sent>>

\* A thread has at most one operation of a kind at a time.
Calls == {"Comm_dup", "Irecv", "Isend"}
Commands == Calls \X Threads
Main == 0

Messages == [to : Procs, from : Procs, comm : Threads, tag : Threads,
             data : Threads, i : 0 .. rep - 1]

Init ==
    /\ place = [p \in Procs |-> "dup"]
    /\ dups = [p \in Procs |-> 0]
    /\ pc = [p \in Procs |-> [t \in Threads |-> "barrier"]]
    /\ iteration = [p \in Procs |-> [t \in Threads |-> 0]]
    /\ recvbuf = [p \in Procs |-> [t \in Threads |-> -1]]
    /\ queue = [p \in Procs |-> << >>]
    /\ started = [p \in Procs |-> {}]
    /\ finished = [p \in Procs |-> {}]
    /\ sent = {}

-----------------------------------------------------------------------------
\* The engine as a thread sees it.
Post(p, c) == queue' = [queue EXCEPT ![p] = Append(@, c)]

Wait(p, c) == c \in finished[p] /\ finished' = [finished EXCEPT ![p] = @ \ {c}]

Goto(p, t, where) == pc' = [pc EXCEPT ![p][t] = where]

-----------------------------------------------------------------------------
(***************************************************************************)
(* The main thread                                                         *)
(***************************************************************************)
CommDup(p) ==
    /\ place[p] = "dup"
    /\ Post(p, <<"Comm_dup", Main>>)
    /\ place' = [place EXCEPT ![p] = "dupwait"]
    /\ UNCHANGED <<dups, pc, iteration, recvbuf, started, finished, sent>>

\* Mutant: the loop does not count.
CommDupReturnAgain(p) ==
    /\ place[p] = "dupwait" /\ Wait(p, <<"Comm_dup", Main>>)
    /\ place' = [place EXCEPT ![p] = "dup"]
    /\ UNCHANGED <<dups, pc, iteration, recvbuf, queue, started, sent>>

CommDupReturn(p) ==
    /\ place[p] = "dupwait"
    /\ Wait(p, <<"Comm_dup", Main>>)
    /\ dups' = [dups EXCEPT ![p] = @ + 1]
    /\ place' = [place EXCEPT ![p] = IF dups'[p] = nthreads THEN "parallel" ELSE "dup"]
    /\ UNCHANGED <<pc, iteration, recvbuf, queue, started, sent>>

\* #pragma omp barrier: all threads of the process leave it together.
Barrier(p) ==
    /\ place[p] = "parallel"
    /\ \A t \in Threads : pc[p][t] = "barrier"
    /\ pc' = [pc EXCEPT ![p] = [t \in Threads |-> IF rep = 0 THEN "joined" ELSE "irecv"]]
    /\ UNCHANGED <<place, dups, iteration, recvbuf, queue, started, finished, sent>>

\* MPI_Finalize, after the end of the parallel region
Finalize(p) ==
    /\ place[p] = "parallel"
    /\ \A t \in Threads : pc[p][t] = "joined"
    /\ place' = [place EXCEPT ![p] = "finalized"]
    /\ UNCHANGED <<dups, pc, iteration, recvbuf, queue, started, finished, sent>>

-----------------------------------------------------------------------------
(***************************************************************************)
(* A thread in the parallel region                                         *)
(***************************************************************************)
\* Mutant: all threads use one communicator and one tag.
EnvelopeForAll(t) == [comm |-> Main, tag |-> Main]

\* The communicator and the tag of a thread's messages.
Envelope(t) == [comm |-> t, tag |-> t]

PostReceive(p, t) ==
    /\ pc[p][t] = "irecv"
    /\ Post(p, <<"Irecv", t>>)
    /\ Goto(p, t, "isend")
    /\ UNCHANGED <<place, dups, iteration, recvbuf, started, finished, sent>>

PostSend(p, t) ==
    /\ pc[p][t] = "isend"
    /\ Post(p, <<"Isend", t>>)
    /\ Goto(p, t, "wait_s")
    /\ UNCHANGED <<place, dups, iteration, recvbuf, started, finished, sent>>

WaitSend(p, t) ==
    /\ pc[p][t] = "wait_s"
    /\ Wait(p, <<"Isend", t>>)
    /\ Goto(p, t, "wait_r")
    /\ UNCHANGED <<place, dups, iteration, recvbuf, queue, started, sent>>

\* Mutant: the request of the receive is not waited for.
WaitNoReceive(p, t) ==
    /\ pc[p][t] = "wait_r" /\ finished' = [finished EXCEPT ![p] = @ \ {<<"Irecv", t>>}]
    /\ Goto(p, t, "check")
    /\ UNCHANGED <<place, dups, iteration, recvbuf, queue, started, sent>>

WaitReceive(p, t) ==
    /\ pc[p][t] = "wait_r"
    /\ Wait(p, <<"Irecv", t>>)
    /\ Goto(p, t, "check")
    /\ UNCHANGED <<place, dups, iteration, recvbuf, queue, started, sent>>

\* The assertions, which clear the buffer, and the end of the loop.
Check(p, t) ==
    /\ pc[p][t] = "check"
    /\ recvbuf' = [recvbuf EXCEPT ![p][t] = -1]
    /\ iteration' = [iteration EXCEPT ![p][t] = @ + 1]
    /\ Goto(p, t, IF iteration'[p][t] = rep THEN "joined" ELSE "irecv")
    /\ UNCHANGED <<place, dups, queue, started, finished, sent>>

-----------------------------------------------------------------------------
(***************************************************************************)
(* The offload threads and MPI                                             *)
(***************************************************************************)
Message(p, t) == [to |-> rank_send(p), from |-> p, comm |-> Envelope(t).comm,
                  tag |-> Envelope(t).tag, data |-> t, i |-> iteration[p][t]]

Start(p) ==
    /\ queue[p] # << >>
    /\ queue' = [queue EXCEPT ![p] = Tail(@)]
    /\ LET c == Head(queue[p])
       IN  /\ started' = [started EXCEPT ![p] = @ \cup {c}]
           /\ sent' = IF c[1] = "Isend" THEN sent \cup {Message(p, c[2])} ELSE sent
    /\ UNCHANGED <<place, dups, pc, iteration, recvbuf, finished>>

Finish(p, c) ==
    /\ c \in started[p]
    /\ started' = [started EXCEPT ![p] = @ \ {c}]
    /\ finished' = [finished EXCEPT ![p] = @ \cup {c}]

\* Every process has made this call of MPI_Comm_dup.
FinishDup(p) ==
    /\ Finish(p, <<"Comm_dup", Main>>)
    /\ \A q \in Procs :
           \/ dups[q] > dups[p]
           \/ dups[q] = dups[p] /\ <<"Comm_dup", Main>> \in started[q] \cup finished[q]
    /\ UNCHANGED <<place, dups, pc, iteration, recvbuf, queue, sent>>

\* The receive takes any message that it matches ("mpi_assert_allow_overtaking").
FinishReceive(p, t) ==
    /\ Finish(p, <<"Irecv", t>>)
    /\ \E m \in sent :
          /\ m.to = p /\ m.from = rank_recv(p)
          /\ [comm |-> m.comm, tag |-> m.tag] = Envelope(t)
          /\ sent' = sent \ {m}
          /\ recvbuf' = [recvbuf EXCEPT ![p][t] = m.data]
    /\ UNCHANGED <<place, dups, pc, iteration, queue>>

\* MPI may keep the message for a receive that is not posted yet, or not.
FinishSend(p, t, matched) ==
    /\ Finish(p, <<"Isend", t>>)
    /\ matched <=> Message(p, t) \notin sent
    /\ UNCHANGED <<place, dups, pc, iteration, recvbuf, queue, sent>>

-----------------------------------------------------------------------------
Terminated == (\A p \in Procs : place[p] = "finalized") /\ UNCHANGED vars

MainStep(p) == CommDup(p) \/ CommDupReturn(p) \/ Barrier(p) \/ Finalize(p)

ThreadStep(p, t) == PostReceive(p, t) \/ PostSend(p, t) \/ WaitSend(p, t)
                    \/ WaitReceive(p, t) \/ Check(p, t)

Next ==
    \/ \E p \in Procs :
          \/ MainStep(p) \/ Start(p) \/ FinishDup(p)
          \/ \E t \in Threads : \/ ThreadStep(p, t) \/ FinishReceive(p, t)
                                \/ \E matched \in BOOLEAN : FinishSend(p, t, matched)
    \/ Terminated

Spec == Init /\ [][Next]_vars

\* Threads are scheduled, and MPI finishes an operation whose partner is there.
LiveSpec ==
    /\ Spec
    /\ \A p \in Procs :
          /\ WF_vars(MainStep(p)) /\ WF_vars(Start(p)) /\ WF_vars(FinishDup(p))
          /\ \A t \in Threads : /\ WF_vars(ThreadStep(p, t))
                                /\ WF_vars(FinishReceive(p, t))
                                /\ WF_vars(FinishSend(p, t, TRUE))

-----------------------------------------------------------------------------
TypeOK ==
    /\ place \in [Procs -> {"dup", "dupwait", "parallel", "finalized"}]
    /\ dups \in [Procs -> 0 .. nthreads]
    /\ pc \in [Procs -> [Threads -> {"barrier", "irecv", "isend", "wait_s", "wait_r",
                                     "check", "joined"}]]
    /\ iteration \in [Procs -> [Threads -> 0 .. rep]]
    /\ recvbuf \in [Procs -> [Threads -> Threads \cup {-1}]]
    /\ queue \in [Procs -> Seq(Commands)]
    /\ started \in [Procs -> SUBSET Commands]
    /\ finished \in [Procs -> SUBSET Commands]
    /\ sent \subseteq Messages

\* The assertions of the benchmark (mt_overlap.cpp:187-191): after both waits
\* the buffer has the data of the same thread of the left neighbour.
Received == \A p \in Procs, t \in Threads : pc[p][t] = "check" => recvbuf[p][t] = t

\* Buffers are checked, cleared and freed only while no operation uses them.
BuffersIdle ==
    \A p \in Procs, t \in Threads :
        pc[p][t] \in {"barrier", "irecv", "check", "joined"} =>
            \A call \in {"Irecv", "Isend"} :
                /\ <<call, t>> \notin started[p]
                /\ \A i \in 1 .. Len(queue[p]) : queue[p][i] # <<call, t>>

\* Nothing but the ring holds a process back: however slow its right neighbour,
\* a thread is ahead by less than the number of processes, and the messages that
\* wait for a receive are those it is ahead by, and one.
Ahead ==
    \A p \in Procs, t \in Threads :
        LET lead == iteration[rank_recv(p)][t] - iteration[p][t]
        IN  /\ lead < num_procs
            /\ Cardinality({m \in sent : m.to = p /\ m.data = t}) <= lead + 1

\* The benchmark ends.
Ends == \A p \in Procs : <>(place[p] = "finalized")
=============================================================================
