------------------------------ MODULE SlotPool ------------------------------
(***************************************************************************)
(* What RequestPool (src/src/array_request_manager.h) promises its users:  *)
(* a set of free slots.  acquire hands out some free slot, or none exactly *)
(* when there is none; release gives one back.  The order in which slots   *)
(* are reused is not promised.                                             *)
(***************************************************************************)
EXTENDS Naturals

CONSTANT PoolSize       \* template parameter Size: length of the arrays

VARIABLE free           \* the slots reachable from head_

Slots == 0 .. PoolSize - 1

\* The constructor releases Size-1, ..., 1: slot 0 never enters the pool.
Usable == 1 .. PoolSize - 1

Init == free = Usable

Acquire(s) == s \in free /\ free' = free \ {s}

\* acquire returns INVALID_INDEX
AcquireNone == free = {} /\ UNCHANGED free

Release(s) == s \in Slots /\ free' = free \cup {s}

Next == AcquireNone \/ \E s \in Slots : Acquire(s) \/ Release(s)

Spec == Init /\ [][Next]_free
=============================================================================
