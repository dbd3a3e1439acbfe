----------------------------- MODULE AtomicQueue ----------------------------
(***************************************************************************)
(* The ring buffer behind the command queue: AtomicQueue of                *)
(* external/atomic_queue/include/atomic_queue/atomic_queue.h, used through *)
(* src/src/atomic_queue.h with push by the application threads and try_pop *)
(* by the offload thread.                                                  *)
(*                                                                         *)
(* A push claims a position by fetch_add on head_ and then stores into its *)
(* cell; nothing compares head_ with tail_ before.  The cell of a position *)
(* is found modulo the size, then remapped to spread the cache lines.      *)
(***************************************************************************)
EXTENDS Integers, Sequences, FiniteSets

CONSTANTS
    Producers,          \* application threads
    Size,               \* size_, a power of two
    Remap,              \* remap_index<SHUFFLE_BITS> on 0 .. Size - 1
    Wrap,               \* 2^32 in the code: head_ and tail_ are unsigned
    Capacity,           \* how many commands the application has outstanding
    MaxPushes,          \* bound: commands pushed by each thread
    NIL                 \* nullptr

Cells == 0 .. Size - 1

\* <<p, n>> is the n-th command that p posts.
Items == Producers \X (1 .. MaxPushes)

ASSUME RingAssumption ==
    /\ Size \in Nat \ {0} /\ Wrap \in Nat /\ Capacity \in Nat /\ MaxPushes \in Nat
    /\ Wrap % Size = 0 /\ Wrap > 2 * Size
    /\ Remap \in [Cells -> Cells]
    /\ \A i, j \in Cells : Remap[i] = Remap[j] => i = j
    /\ NIL \notin Items

VARIABLES
    head, tail,         \* head_, tail_
    elements,           \* elements_
    ppc, claimed,       \* push, per thread: place, and the head_ it claimed
    pushed,             \* how many commands each thread has begun to push
    cpc, ctail,         \* try_pop: place, and its local tail
    popped              \* per thread: which of its commands was received last

vars == <<head, tail, elements, ppc, claimed, pushed, cpc, ctail, popped>>

Cell(pos) == Remap[pos % Size]

\* static_cast<int>(h - t)
Distance(h, t) ==
    LET d == (h - t) % Wrap IN IF 2 * d >= Wrap THEN d - Wrap ELSE d

Init ==
    /\ head = 0 /\ tail = 0
    /\ elements = [i \in Cells |-> NIL]
    /\ ppc = [p \in Producers |-> "idle"]
    /\ claimed = [p \in Producers |-> 0]
    /\ pushed = [p \in Producers |-> 0]
    /\ cpc = "idle"
    /\ ctail = 0
    /\ popped = [p \in Producers |-> 0]

\* The commands that are posted and not received yet.
Outstanding == {e \in Items : popped[e[1]] < e[2] /\ e[2] <= pushed[e[1]]}

-----------------------------------------------------------------------------
\* push: head = head_.fetch_add(1).  Capacity bounds what the application does,
\* it is no test of the queue.
PushClaim(p) ==
    /\ ppc[p] = "idle"
    /\ pushed[p] < MaxPushes
    /\ Cardinality(Outstanding) < Capacity
    /\ pushed' = [pushed EXCEPT ![p] = @ + 1]
    /\ claimed' = [claimed EXCEPT ![p] = head]
    /\ head' = (head + 1) % Wrap
    /\ ppc' = [ppc EXCEPT ![p] = "store"]
    /\ UNCHANGED <<tail, elements, cpc, ctail, popped>>

\* Mutant: the cell is found by head_, read again.
PushStoreReread(p) ==
    LET i == Cell((head - 1) % Wrap)
    IN  /\ ppc[p] = "store" /\ elements[i] = NIL
        /\ elements' = [elements EXCEPT ![i] = <<p, pushed[p]>>]
        /\ ppc' = [ppc EXCEPT ![p] = "idle"]
        /\ UNCHANGED <<head, tail, claimed, pushed, cpc, ctail, popped>>

\* do_push_atomic: compare_exchange_strong from NIL, repeated until it succeeds
PushStore(p) ==
    LET i == Cell(claimed[p])
    IN  /\ ppc[p] = "store"
        /\ elements[i] = NIL
        /\ elements' = [elements EXCEPT ![i] = <<p, pushed[p]>>]
        /\ ppc' = [ppc EXCEPT ![p] = "idle"]
        /\ UNCHANGED <<head, tail, claimed, pushed, cpc, ctail, popped>>

\* Mutant: the positions are compared as they are.
PopCheckUnsigned ==
    /\ cpc = "idle" /\ head > tail
    /\ ctail' = tail /\ cpc' = "claim"
    /\ UNCHANGED <<head, tail, elements, ppc, claimed, pushed, popped>>

\* try_pop: nothing is there, it returns false.
PopNone ==
    /\ cpc = "idle"
    /\ Distance(head, tail) <= 0
    /\ UNCHANGED vars

\* try_pop: something is there.
PopCheck ==
    /\ cpc = "idle"
    /\ Distance(head, tail) > 0
    /\ ctail' = tail
    /\ cpc' = "claim"
    /\ UNCHANGED <<head, tail, elements, ppc, claimed, pushed, popped>>

\* try_pop: compare_exchange_strong on tail_; nobody else pops, it succeeds.
PopClaim ==
    /\ cpc = "claim"
    /\ tail' = (ctail + 1) % Wrap
    /\ cpc' = "take"
    /\ UNCHANGED <<head, elements, ppc, claimed, pushed, ctail, popped>>

\* do_pop_atomic: exchange with NIL, repeated until an element came out
PopTake ==
    LET e == elements[Cell(ctail)]
    IN  /\ cpc = "take"
        /\ e # NIL
        /\ elements' = [elements EXCEPT ![Cell(ctail)] = NIL]
        /\ popped' = [popped EXCEPT ![e[1]] = e[2]]
        /\ cpc' = "idle"
        /\ UNCHANGED <<head, tail, ppc, claimed, pushed, ctail>>

Pop == PopCheck \/ PopClaim \/ PopTake

Next == Pop \/ PopNone \/ \E p \in Producers : PushClaim(p) \/ PushStore(p)

Spec == Init /\ [][Next]_vars

\* A thread inside push goes on, and the offload thread polls.
LiveSpec == Spec /\ WF_vars(Pop) /\ \A p \in Producers : WF_vars(PushStore(p))

-----------------------------------------------------------------------------
TypeOK ==
    /\ head \in 0 .. Wrap - 1
    /\ tail \in 0 .. Wrap - 1
    /\ elements \in [Cells -> Items \cup {NIL}]
    /\ ppc \in [Producers -> {"idle", "store"}]
    /\ claimed \in [Producers -> 0 .. Wrap - 1]
    /\ pushed \in [Producers -> 0 .. MaxPushes]
    /\ cpc \in {"idle", "claim", "take"}
    /\ ctail \in 0 .. Wrap - 1
    /\ popped \in [Producers -> 0 .. MaxPushes]

\* The element of a claimed position: on its way, or in the cell.
ElementAt(pos) ==
    IF \E p \in Producers : ppc[p] = "store" /\ claimed[p] = pos
    THEN LET p == CHOOSE p \in Producers : ppc[p] = "store" /\ claimed[p] = pos
         IN  <<p, pushed[p]>>
    ELSE elements[Cell(pos)]

\* With at most Size commands outstanding the ring is the queue of the engine:
\* a command is in it from the fetch_add of push to the exchange on tail_ of
\* try_pop, also while head_ and tail_ wrap around.
Abstract == INSTANCE CommandQueue WITH
    queue <- [i \in 1 .. Distance(head, tail) |-> ElementAt((tail + i - 1) % Wrap)]

ImplementsCommandQueue == Abstract!Spec

\* "FIFO and total order" (atomic_queue.h:300): the commands of a thread come
\* out in the order in which it pushed them.
ProducerOrder ==
    [][\A p \in Producers : popped'[p] # popped[p] => popped'[p] = popped[p] + 1]_vars

\* Every push returns, and its command is received, however long other threads
\* are preempted between their two steps.
EveryPushReceived ==
    \A p \in Producers, n \in 1 .. MaxPushes :
        pushed[p] = n ~> popped[p] >= n /\ ppc[p] = "idle"
=============================================================================
