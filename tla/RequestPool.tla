----------------------------- MODULE RequestPool ----------------------------
(***************************************************************************)
(* RequestPool of src/src/array_request_manager.h: the free list of slots, *)
(* a stack linked through nexts_ whose head_ is changed by compare and     *)
(* swap.  Any thread releases (MPI_Wait); only the offload thread acquires.*)
(*                                                                         *)
(* compare_exchange_weak may fail spuriously.  The relaxed reload of head_ *)
(* and the load of nexts_ after it are ordered by the address dependency   *)
(* between them, on x86 and ARM.                                           *)
(***************************************************************************)
EXTENDS Naturals, Sequences, SequencesExt

CONSTANTS
    Releasers,          \* threads that call release
    PoolSize,
    INVALID_INDEX

Slots  == 0 .. PoolSize - 1
Usable == 1 .. PoolSize - 1

ASSUME RequestPoolAssumption ==
    PoolSize \in Nat \ {0} /\ INVALID_INDEX \notin Slots

VARIABLES
    head,               \* head_
    nexts,              \* nexts_
    held,               \* slots acquired and not given to release yet
    apc, old_head, next,    \* acquire: place, and its local values
    rpc, ridx, rhead,       \* release, per thread: place, idx, head_ as read
    list                \* history: the free list, from head_ on

acqVars == <<apc, old_head, next>>
relVars == <<rpc, ridx, rhead>>
vars == <<head, nexts, held, acqVars, relVars, list>>

\* The constructor has released Size-1, ..., 1, each on top of the one before.
Init ==
    /\ head = IF Usable = {} THEN INVALID_INDEX ELSE 1
    /\ nexts = [s \in Slots |-> IF s = 0 THEN 0
                                ELSE IF s + 1 \in Slots THEN s + 1 ELSE INVALID_INDEX]
    /\ held = {}
    /\ apc = "idle"
    /\ old_head = INVALID_INDEX
    /\ next = INVALID_INDEX
    /\ rpc = [t \in Releasers |-> "idle"]
    /\ ridx = [t \in Releasers |-> INVALID_INDEX]
    /\ rhead = [t \in Releasers |-> INVALID_INDEX]
    /\ list = [i \in 1 .. PoolSize - 1 |-> i]

-----------------------------------------------------------------------------
(***************************************************************************)
(* release(idx)                                                            *)
(***************************************************************************)
\* A thread gives back a slot that somebody acquired, and reads head_.
Release(t, s) ==
    /\ rpc[t] = "idle"
    /\ s \in held
    /\ held' = held \ {s}
    /\ ridx' = [ridx EXCEPT ![t] = s]
    /\ rhead' = [rhead EXCEPT ![t] = head]
    /\ rpc' = [rpc EXCEPT ![t] = "link"]
    /\ UNCHANGED <<head, nexts, acqVars, list>>

\* nexts_[idx] = head_, and the same store by a failed compare_exchange_weak
ReleaseLink(t) ==
    /\ rpc[t] = "link"
    /\ nexts' = [nexts EXCEPT ![ridx[t]] = rhead[t]]
    /\ rpc' = [rpc EXCEPT ![t] = "cas"]
    /\ UNCHANGED <<head, held, acqVars, ridx, rhead, list>>

\* compare_exchange_weak(nexts_[idx], idx)
ReleaseCas(t) ==
    /\ rpc[t] = "cas"
    /\ head = nexts[ridx[t]]
    /\ head' = ridx[t]
    /\ list' = Cons(ridx[t], list)
    /\ rpc' = [rpc EXCEPT ![t] = "idle"]
    /\ ridx' = [ridx EXCEPT ![t] = INVALID_INDEX]
    /\ rhead' = [rhead EXCEPT ![t] = INVALID_INDEX]
    /\ UNCHANGED <<nexts, held, acqVars>>

\* Mutant: if instead of while, a plain store follows the failed exchange.
ReleaseRetryStoring(t) ==
    /\ rpc[t] = "cas" /\ head # nexts[ridx[t]] /\ head' = ridx[t]
    /\ list' = Cons(ridx[t], list)
    /\ rpc' = [rpc EXCEPT ![t] = "idle"]
    /\ ridx' = [ridx EXCEPT ![t] = INVALID_INDEX]
    /\ rhead' = [rhead EXCEPT ![t] = INVALID_INDEX]
    /\ UNCHANGED <<nexts, held, acqVars>>

\* It fails, spuriously too, and takes the present head_ as the expected one.
ReleaseRetry(t) ==
    /\ rpc[t] = "cas"
    /\ rhead' = [rhead EXCEPT ![t] = head]
    /\ rpc' = [rpc EXCEPT ![t] = "link"]
    /\ UNCHANGED <<head, nexts, held, acqVars, ridx, list>>

-----------------------------------------------------------------------------
(***************************************************************************)
(* acquire()                                                               *)
(***************************************************************************)
AcquireHead ==
    /\ apc = "idle"
    /\ old_head' = head
    /\ apc' = "next"
    /\ UNCHANGED <<head, nexts, held, next, relVars, list>>

\* The list was empty when head_ was read: INVALID_INDEX is returned.
AcquireNone ==
    /\ apc = "next"
    /\ old_head = INVALID_INDEX
    /\ apc' = "idle"
    /\ UNCHANGED <<head, nexts, held, old_head, next, relVars, list>>

\* The argument nexts_[old_head] is read before the exchange.
AcquireNext ==
    /\ apc = "next"
    /\ old_head # INVALID_INDEX
    /\ next' = nexts[old_head]
    /\ apc' = "cas"
    /\ UNCHANGED <<head, nexts, held, old_head, relVars, list>>

AcquireCas ==
    /\ apc = "cas"
    /\ head = old_head
    /\ head' = next
    /\ held' = held \cup {old_head}
    /\ list' = Tail(list)
    /\ apc' = "idle"
    /\ old_head' = INVALID_INDEX
    /\ next' = INVALID_INDEX
    /\ UNCHANGED <<nexts, relVars>>

\* Mutant: nexts_[old_head] is read once, before the loop.
AcquireRetryStale ==
    /\ apc = "cas" /\ old_head' = head /\ head # INVALID_INDEX
    /\ UNCHANGED <<head, nexts, held, next, apc, relVars, list>>

AcquireRetry ==
    /\ apc = "cas"
    /\ old_head' = head
    /\ next' = INVALID_INDEX
    /\ apc' = "next"
    /\ UNCHANGED <<head, nexts, held, relVars, list>>

-----------------------------------------------------------------------------
Next ==
    \/ \E t \in Releasers :
          \/ \E s \in Slots : Release(t, s)
          \/ ReleaseLink(t) \/ ReleaseCas(t) \/ ReleaseRetry(t)
    \/ AcquireHead \/ AcquireNone \/ AcquireNext \/ AcquireCas \/ AcquireRetry

Spec == Init /\ [][Next]_vars

-----------------------------------------------------------------------------
TypeOK ==
    /\ head \in Usable \cup {INVALID_INDEX}
    /\ nexts \in [Slots -> Slots \cup {INVALID_INDEX}]
    /\ held \in SUBSET Usable
    /\ apc \in {"idle", "next", "cas"}
    /\ old_head \in Usable \cup {INVALID_INDEX}
    /\ next \in Usable \cup {INVALID_INDEX}
    /\ rpc \in [Releasers -> {"idle", "link", "cas"}]
    /\ ridx \in [Releasers -> Usable \cup {INVALID_INDEX}]
    /\ rhead \in [Releasers -> Usable \cup {INVALID_INDEX}]
    /\ list \in Seq(Usable)

\* The list is what head_ and nexts_ make it, and it ends.
Linked ==
    /\ head = IF list = << >> THEN INVALID_INDEX ELSE list[1]
    /\ \A i \in 1 .. Len(list) :
          nexts[list[i]] = IF i = Len(list) THEN INVALID_INDEX ELSE list[i + 1]

Free == {list[i] : i \in 1 .. Len(list)}

Releasing == {ridx[t] : t \in {u \in Releasers : rpc[u] # "idle"}}

\* Whatever compare_exchange succeeds or fails when, every slot is in exactly
\* one place: once in the list, with its holder, or in the hands of one release.
EverySlotOnce ==
    /\ \A i, j \in 1 .. Len(list) : list[i] = list[j] => i = j
    /\ Free \cap held = {} /\ Free \cap Releasing = {} /\ held \cap Releasing = {}
    /\ Free \cup held \cup Releasing = Usable
    /\ \A t, u \in Releasers :
          rpc[t] # "idle" /\ rpc[u] # "idle" /\ ridx[t] = ridx[u] => t = u

\* A slot that acquire looks at, and its successor, stay where they are until
\* the exchange: only acquire removes slots, so head_ cannot come back to
\* old_head with another successor (the ABA of a stack with two consumers).
NoAba == apc = "cas" /\ head = old_head => next = nexts[old_head]

Abstract == INSTANCE SlotPool WITH free <- Free

\* What leaves the pool is what acquire hands out, neither more nor another slot.
HandsOut == Free \ Free' = held' \ held

\* The list implements the pool: a successful exchange takes one free slot, the
\* one that acquire returns, or gives one back; nothing else changes the set of
\* free slots.
ImplementsSlotPool == Abstract!Spec /\ [][HandsOut]_vars
=============================================================================
