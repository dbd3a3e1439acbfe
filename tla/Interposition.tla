--------------------------- MODULE Interposition ----------------------------
(***************************************************************************)
(* An application that makes offloaded calls and calls that are not        *)
(* interposed (Bypassed).  The engine keeps the promise of ThreadMultiple; *)
(* a direct call enters MPI at once, whatever is still in the queue.       *)
(*                                                                         *)
(* A handle is a communicator, a window, a file, a datatype or any other   *)
(* object that an operation names; calls of one thread that communicate    *)
(* over the same handle must reach MPI in the order in which it made them. *)
(* MPI_Imrecv and MPI_Waitall are whole calls here; the other offloaded    *)
(* calls are Post and, if they block, a Wait after it.                     *)
(***************************************************************************)
EXTENDS Naturals, Sequences, SequencesExt, Bypassed

CONSTANTS
    Threads, Requests,  \* application threads, and its MPI_Request variables
    Handles,
    OpenHandles,        \* the handles that exist at the start
    Direct,             \* the calls not interposed that the application makes
    Settled,            \* does it complete its operations on a handle first?
    MaxCalls,           \* bound: calls of each thread
    None

ASSUME InterpositionAssumption ==
    /\ OpenHandles \subseteq Handles
    /\ Direct \subseteq UNION {Calls(role) : role \in Roles}
    /\ Settled \in BOOLEAN /\ MaxCalls \in Nat
    /\ None \notin {"engine", "MPI"}

VARIABLES
    stage, program,     \* the engine: see ThreadMultiple
    op,                 \* per request: the call that posted its operation
    word,               \* per request: who stored it, engine or MPI
    calls,              \* per thread: how many calls it has made
    waiting,            \* per thread: the requests it has still to wait for
    array,              \* per thread: the requests it passed to MPI_Waitall
    handles,            \* per handle: unused, open or freed
    message,            \* per thread: its MPI_Message variable, 0 if null
    matched,            \* how many messages were matched so far
    misread,            \* requests that were given to the wrong side
    reached             \* MPI: per thread and handle, its last call that arrived

engine == <<stage, program>>
vars == <<engine, op, word, calls, waiting, array, handles, message, matched,
          misread, reached>>

TM == INSTANCE ThreadMultiple

NoOp == [thread |-> None, number |-> 0, handle |-> None, message |-> 0]

Init ==
    /\ TM!Init
    /\ op = [r \in Requests |-> NoOp]
    /\ word = [r \in Requests |-> None]
    /\ calls = [t \in Threads |-> 0]
    /\ waiting = [t \in Threads |-> << >>]
    /\ array = [t \in Threads |-> << >>]
    /\ handles = [h \in Handles |-> IF h \in OpenHandles THEN "open" ELSE "unused"]
    /\ message = [t \in Threads |-> 0]
    /\ matched = 0
    /\ misread = {}
    /\ reached = [t \in Threads |-> [h \in Handles |-> 0]]

-----------------------------------------------------------------------------
\* Thread t makes a call.
Calling(t) ==
    /\ waiting[t] = << >>
    /\ calls[t] < MaxCalls
    /\ calls' = [calls EXCEPT ![t] = @ + 1]

Waited(r) == \E t \in Threads : r \in ToSet(array[t])

\* A direct call of t over h enters MPI.
Reach(t, h) == reached' = [reached EXCEPT ![t][h] = calls'[t]]

\* The operations that name h and have not been completed.
Pending(h) == {r \in Requests : stage[r] # "inactive" /\ op[r].handle = h}

\* An application that takes no chance: t has completed what it posted over h.
Quiet(t, h) == Settled => \A r \in Pending(h) : op[r].thread # t

\* An MPI_Imrecv of t that has not been completed.
ImrecvPending(t) == {r \in Requests : stage[r] # "inactive" /\ op[r].thread = t
                                      /\ op[r].message # 0}

\* t's variable has a message that t has not asked to receive yet.
Unclaimed(t) == message[t] # 0 /\ \A r \in ImrecvPending(t) : op[r].message # message[t]

-----------------------------------------------------------------------------
(***************************************************************************)
(* Offloaded calls                                                         *)
(***************************************************************************)
PostOp(t, r, h, m) ==
    /\ Calling(t)
    /\ handles[h] = "open"
    /\ word[r] = None /\ ~Waited(r)
    /\ TM!Post(t, r)
    /\ op' = [op EXCEPT ![r] = [thread |-> t, number |-> calls'[t], handle |-> h,
                                message |-> m]]
    /\ word' = [word EXCEPT ![r] = "engine"]
    /\ UNCHANGED <<waiting, array, handles, message, matched, misread, reached>>

Post(t, r, h) == PostOp(t, r, h, 0)

\* MPI_Imrecv: the command has the address of t's variable, not the message.
Imrecv(t, r, h) == Unclaimed(t) /\ PostOp(t, r, h, message[t])

\* Mutant: the newest command of the thread is taken.
StartReordered(t) ==
    /\ program[t] # << >>
    /\ LET r == Last(program[t])
       IN  /\ stage' = [stage EXCEPT ![r] = "started"]
           /\ reached' = [reached EXCEPT ![t][op[r].handle] = op[r].number]
           /\ message' = IF op[r].message = 0 THEN message ELSE [message EXCEPT ![t] = 0]
    /\ program' = [program EXCEPT ![t] = Front(@)]
    /\ UNCHANGED <<op, word, calls, waiting, array, handles, matched, misread>>

\* The offload thread makes the call of t's oldest command.  PMPI_Imrecv reads
\* the variable and sets it to MPI_MESSAGE_NULL.
Start(t) ==
    /\ TM!Start(t)
    /\ LET r == Head(program[t])
       IN  /\ reached' = [reached EXCEPT ![t][op[r].handle] = op[r].number]
           /\ message' = IF op[r].message = 0 THEN message ELSE [message EXCEPT ![t] = 0]
    /\ UNCHANGED <<op, word, calls, waiting, array, handles, matched, misread>>

Finish(r) ==
    /\ TM!Finish(r)
    /\ UNCHANGED <<op, word, calls, waiting, array, handles, message, matched, misread, reached>>

\* MPI_Waitall, and MPI_Wait with one request.  MPI forbids two threads to wait
\* for the same request.
Waitall(t, rs) ==
    /\ Calling(t)
    /\ \A i \in 1 .. Len(rs) : word[rs[i]] # None /\ ~Waited(rs[i])
    /\ waiting' = [waiting EXCEPT ![t] = rs]
    /\ array' = [array EXCEPT ![t] = rs]
    /\ UNCHANGED <<engine, op, word, handles, message, matched, misread, reached>>

\* MPI_Wait is over for request r of t's array; the loop goes on with the next.
NextRequest(t, r) ==
    /\ op' = [op EXCEPT ![r] = NoOp]
    /\ word' = [word EXCEPT ![r] = None]
    /\ waiting' = [waiting EXCEPT ![t] = Tail(@)]
    /\ array' = IF waiting'[t] = << >> THEN [array EXCEPT ![t] = << >>] ELSE array
    /\ UNCHANGED <<calls, handles, message, matched, misread, reached>>

\* Mutant: MPI_Waitall returns with its first request.
WaitNextOnly(t) ==
    LET r == Head(waiting[t])
    IN  /\ waiting[t] # << >> /\ word[r] = "engine" /\ TM!Return(r)
        /\ op' = [op EXCEPT ![r] = NoOp] /\ word' = [word EXCEPT ![r] = None]
        /\ waiting' = [waiting EXCEPT ![t] = << >>]
        /\ array' = [array EXCEPT ![t] = << >>]
        /\ UNCHANGED <<calls, handles, message, matched, misread, reached>>

\* Mutant: MPI_Wait returns when the command is posted.
WaitNextEarly(t) ==
    LET r == Head(waiting[t])
    IN  /\ waiting[t] # << >> /\ word[r] = "engine"
        /\ stage' = [stage EXCEPT ![r] = "inactive"]
        /\ waiting' = [waiting EXCEPT ![t] = Tail(@)]
        /\ array' = IF waiting'[t] = << >> THEN [array EXCEPT ![t] = << >>] ELSE array
        /\ UNCHANGED <<program, op, word, calls, handles, message, matched, misread, reached>>

WaitNext(t) ==
    LET r == Head(waiting[t])
    IN  /\ waiting[t] # << >>
        /\ word[r] = "engine"
        /\ TM!Return(r)
        /\ NextRequest(t, r)

\* The first half of a handle of MPI is taken for the index of a slot.
WaitMisreads(t) ==
    LET r == Head(waiting[t])
    IN  /\ waiting[t] # << >>
        /\ word[r] = "MPI"
        /\ misread' = misread \cup {r}
        /\ UNCHANGED <<engine, op, word, calls, waiting, array>>
        /\ UNCHANGED <<handles, message, matched, reached>>

-----------------------------------------------------------------------------
(***************************************************************************)
(* Direct calls: h is the handle they name                                 *)
(***************************************************************************)
\* The roles of the calls that the application makes.
DirectRoles == {role \in Roles : Direct \cap Calls(role) # {}}

May(t, role) == role \in DirectRoles /\ Calling(t)

LocalCall(t) ==
    /\ May(t, "local")
    /\ UNCHANGED <<engine, op, word, waiting, array, handles, message, matched, misread, reached>>

Communicate(t, h) ==
    /\ May(t, "communicates")
    /\ handles[h] = "open" /\ Quiet(t, h)
    /\ Reach(t, h)
    /\ UNCHANGED <<engine, op, word, waiting, array, handles, message, matched, misread>>

Create(t, h) ==
    /\ May(t, "creates")
    /\ handles[h] = "unused"
    /\ handles' = [handles EXCEPT ![h] = "open"]
    /\ UNCHANGED <<engine, op, word, waiting, array, message, matched, misread, reached>>

Derive(t, h, new) ==
    /\ May(t, "derives")
    /\ handles[h] = "open" /\ Quiet(t, h)
    /\ handles[new] = "unused"
    /\ Reach(t, h)
    /\ handles' = [handles EXCEPT ![new] = "open"]
    /\ UNCHANGED <<engine, op, word, waiting, array, message, matched, misread>>

\* MPI keeps the object for the operations that were started with it; the
\* application names it no more.
Free(t, h) ==
    /\ May(t, "frees")
    /\ handles[h] = "open"
    /\ Settled => Pending(h) = {}
    /\ handles' = [handles EXCEPT ![h] = "freed"]
    /\ UNCHANGED <<engine, op, word, waiting, array, message, matched, misread, reached>>

\* MPI wants the operations over h to be complete.
Close(t, h) ==
    /\ May(t, "closes")
    /\ handles[h] = "open" /\ Pending(h) = {}
    /\ Reach(t, h)
    /\ handles' = [handles EXCEPT ![h] = "freed"]
    /\ UNCHANGED <<engine, op, word, waiting, array, message, matched, misread>>

StartDirect(t, r, h) ==
    /\ May(t, "starts")
    /\ handles[h] = "open" /\ Quiet(t, h)
    /\ word[r] = None /\ ~Waited(r)
    /\ Reach(t, h)
    /\ word' = [word EXCEPT ![r] = "MPI"]
    /\ UNCHANGED <<engine, op, waiting, array, handles, message, matched, misread>>

\* MPI completes the request or leaves it as it is; the index of a slot is no
\* request of MPI's.
UseRequest(t, r) ==
    /\ May(t, "uses")
    /\ word[r] # None /\ ~Waited(r)
    /\ \/ /\ word[r] = "MPI"
          /\ \E w \in {"MPI", None} : word' = [word EXCEPT ![r] = w]
          /\ UNCHANGED misread
       \/ /\ word[r] = "engine"
          /\ misread' = misread \cup {r}
          /\ UNCHANGED word
    /\ UNCHANGED <<engine, op, waiting, array, handles, message, matched, reached>>

\* The variable is free again when MPI_Imrecv has returned.  MPI_Improbe may
\* find no message.
Match(t, h) ==
    /\ May(t, "matches")
    /\ handles[h] = "open" /\ Quiet(t, h)
    /\ ~Unclaimed(t)
    /\ Settled => ImrecvPending(t) = {}
    /\ \/ /\ matched' = matched + 1
          /\ message' = [message EXCEPT ![t] = matched']
       \/ UNCHANGED <<matched, message>>
    /\ Reach(t, h)
    /\ UNCHANGED <<engine, op, word, waiting, array, handles, misread>>

Receive(t) ==
    /\ May(t, "receives")
    /\ Unclaimed(t)
    /\ message' = [message EXCEPT ![t] = 0]
    /\ UNCHANGED <<engine, op, word, waiting, array, handles, matched, misread, reached>>

-----------------------------------------------------------------------------
Offloaded(t) ==
    \/ \E r \in Requests, h \in Handles : Post(t, r, h) \/ Imrecv(t, r, h)
    \/ \E r, q \in Requests : Waitall(t, <<r>>) \/ (r # q /\ Waitall(t, <<r, q>>))
    \/ WaitNext(t) \/ WaitMisreads(t)
    \/ Start(t)

NotOffloaded(t) ==
    \/ LocalCall(t) \/ Receive(t)
    \/ \E h \in Handles : \/ Communicate(t, h) \/ Create(t, h) \/ Free(t, h) \/ Close(t, h)
                          \/ Match(t, h)
                          \/ \E new \in Handles : Derive(t, h, new)
                          \/ \E r \in Requests : StartDirect(t, r, h)
    \/ \E r \in Requests : UseRequest(t, r)

\* Nothing is said of what follows once a request has been misread.
Next == /\ misread = {}
        /\ \/ \E t \in Threads : Offloaded(t) \/ NotOffloaded(t)
           \/ \E r \in Requests : Finish(r)

Spec == Init /\ [][Next]_vars

-----------------------------------------------------------------------------
TypeOK ==
    /\ TM!TypeOK
    /\ op \in [Requests -> {NoOp} \cup [thread : Threads, number : 1 .. MaxCalls,
                                        handle : Handles, message : Nat]]
    /\ word \in [Requests -> {None, "engine", "MPI"}]
    /\ calls \in [Threads -> 0 .. MaxCalls]
    /\ waiting \in [Threads -> Seq(Requests)]
    /\ array \in [Threads -> Seq(Requests)]
    /\ handles \in [Handles -> {"unused", "open", "freed"}]
    /\ message \in [Threads -> Nat] /\ matched \in Nat
    /\ misread \in SUBSET Requests
    /\ reached \in [Threads -> [Handles -> 0 .. MaxCalls]]

\* The calls of a thread over one handle reach MPI in the order in which the
\* thread made them, some through the queue and some not ("behaves as-if
\* provided was MPI_THREAD_MULTIPLE", mpi_interposition.cpp:28).
CallsInOrder ==
    [][\A t \in Threads, h \in Handles : reached'[t][h] >= reached[t][h]]_vars

\* The operation that the offload thread begins for t in this step.
Begins(t) == Len(program'[t]) < Len(program[t])
Begun(t) == op[Head(program[t])]

\* The offload thread makes no call that names an object freed since the call
\* was posted: MPI allows to free it when the nonblocking call has returned.
HandlesOpen ==
    [][\A t \in Threads : Begins(t) => handles[Begun(t).handle] = "open"]_vars

\* MPI_Imrecv receives the message its caller passed, although its command
\* carries only the address of the caller's variable (mpi_p2p.cpp:66).
OwnMessage ==
    [][\A t \in Threads : Begins(t) /\ Begun(t).message # 0
           => message[t] = Begun(t).message]_vars

\* When MPI_Waitall returns, all its requests are complete.
WaitallCompletes ==
    [][\A t \in Threads : array[t] # << >> /\ array'[t] = << >>
           => \A i \in 1 .. Len(array[t]) : stage'[array[t][i]] = "inactive"]_vars

\* A request is completed by the side that stored it: the application uses the
\* MPI_Request of any call with any function that completes requests.
RequestsUnderstood == misread = {}
=============================================================================
