------------------------- MODULE LifecycleInvariant -------------------------
(* The inductive invariant behind the properties of Lifecycle. *)
EXTENDS Lifecycle

Starting == {"start", "spawn", "assign", "get", "check"}
Ending == {"join", "finalize", "finalized"}

\* Main answers its caller only after the promise is kept, and that is only
\* after PMPI_Init_thread.
StartInv ==
    /\ pc[Main] \in {"start", "spawn"} <=> opc = "none"
    /\ opc \in {"none", "init"} <=> mpi = "uninitialized"
    /\ opc = "promise" => provided # None
    /\ opc \in {"none", "init", "promise"} <=> promise = None
    /\ level # None => promise # None
    /\ pc[Main] = "check" => level # None
    /\ reported # None => level # None
    /\ reported = None <=> pc[Main] \in Starting

\* The other threads make calls only in between, and Main ends MPI only when
\* they and the offload thread are through.
EndInv ==
    /\ \A t \in Threads \ {Main} :
          /\ pc[t] \in {"idle", "wait", "direct"}
          /\ pc[Main] \in Starting \cup Ending => pc[t] = "idle"
    /\ pc[Main] \in {"finalize", "finalized"} => opc = "exited"
    /\ mpi = "finalized" => pc[Main] = "finalized"
    /\ \A t \in Threads : pc[t] = "direct" => DirectCalls

\* A waiting thread's operation is in one place, and nothing else is there.
CallInv ==
    /\ opc = "call" <=> command # None
    /\ command # None => pc[command] = "wait" /\ command \notin used \cup done
    /\ \A t \in used \cup done : pc[t] = "wait"
    /\ used \cap done = {}
    /\ \A i \in 1 .. Len(queue) : /\ pc[queue[i]] = "wait"
                                  /\ queue[i] \notin used \cup done \cup {command}
    /\ \A i, j \in 1 .. Len(queue) : queue[i] = queue[j] => i = j

IInv == TypeOK /\ StartInv /\ EndInv /\ CallInv
=============================================================================
