--------------------------- MODULE RanksInvariant ---------------------------
(***************************************************************************)
(* The inductive invariant of Ranks: where a command is between its post   *)
(* and the return of its call, and why nothing is queued behind a window   *)
(* call, which keeps the offload thread.  It needs that no other thread of *)
(* a process communicates beside one that makes window calls.              *)
(***************************************************************************)
EXTENDS Ranks

\* What Init chooses, and nothing changes.
ProgramInv ==
    /\ operation \in Operations /\ program \in [Threads -> ThreadPrograms]
    /\ Legal(operation, program) /\ Completes(operation, program)

TypeOK ==
    /\ entered \in [Threads -> Nat] /\ inside \in [Threads -> BOOLEAN]
    /\ queue \in [Ranks -> Seq(Ops)] /\ blocked \in [Ranks -> Ops \cup {NoOp}]
    /\ called \in [Ranks -> SUBSET Ops] /\ done \in [Ranks -> SUBSET Ops]

PlaceInv ==
    \A t \in Threads : /\ entered[t] <= Len(program[t])
                       /\ inside[t] => entered[t] >= 1 /\ Current(t).style # "start"

InQueue(r, o) == \E i \in 1 .. Len(queue[r]) : queue[r][i] = o

Posted(r, o) == \E t \in ThreadsOf(r) : \E i \in Posts(program[t], o) : i <= entered[t]

\* What was posted is in the queue, or MPI has been called for it.
CommandInv ==
    \A r \in Ranks : \A o \in Ops :
        /\ Posted(r, o) <=> InQueue(r, o) \/ o \in called[r]
        /\ ~(InQueue(r, o) /\ o \in called[r])

\* The commands of a thread are in the queue in the order of its calls.
OrderInv ==
    \A r \in Ranks : \A t \in ThreadsOf(r) : \A i, j \in 1 .. Len(queue[r]) : i < j =>
        \A m \in Posts(program[t], queue[r][i]), n \in Posts(program[t], queue[r][j]) : m < n

\* A thread does not go on before its blocking call is over.
ReturnInv ==
    \A t \in Threads : \A i \in 1 .. entered[t] : program[t][i].style = "call" =>
        program[t][i].op \in done[RankOf[t]] \/ (inside[t] /\ i = entered[t])

\* A call that keeps the offload thread is not over, and when it is a window call
\* there is nothing behind it.
BlockedInv ==
    \A r \in Ranks :
        /\ done[r] \subseteq called[r]
        /\ blocked[r] # NoOp =>
              /\ NullRequest(operation[blocked[r]])
              /\ blocked[r] \in called[r] \ done[r]
              /\ operation[blocked[r]].family = "window" => queue[r] = << >>

IInv ==
    /\ ProgramInv /\ TypeOK /\ PlaceInv /\ CommandInv /\ OrderInv
    /\ ReturnInv /\ BlockedInv
=============================================================================
