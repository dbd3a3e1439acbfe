---------------------------- MODULE CommandQueue ----------------------------
(***************************************************************************)
(* What the offload engine expects of its command queue (LockedQueue or    *)
(* AtomicQueue): an unbounded first-in first-out queue.  dequeue returns   *)
(* nullptr exactly when the queue is empty.                                *)
(***************************************************************************)
EXTENDS Naturals, Sequences

CONSTANT Items          \* the OffloadCommand pointers

VARIABLE queue

Init == queue = << >>

Enqueue(c) == queue' = Append(queue, c)

\* Mutant: a stack.
DequeueNewest(c) ==
    /\ queue # << >>
    /\ c = queue[Len(queue)]
    /\ queue' = SubSeq(queue, 1, Len(queue) - 1)

Dequeue(c) == queue # << >> /\ c = Head(queue) /\ queue' = Tail(queue)

DequeueNone == queue = << >> /\ UNCHANGED queue

Next == DequeueNone \/ \E c \in Items : Enqueue(c) \/ Dequeue(c)

Spec == Init /\ [][Next]_queue
=============================================================================
