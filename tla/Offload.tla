------------------------------ MODULE Offload -------------------------------
(***************************************************************************)
(* The offload engine: application threads post commands and wait for or   *)
(* test their requests; one offload thread takes the commands from the     *)
(* queue, gives each a slot of the request pool, makes the MPI call, tests *)
(* the outstanding MPI requests and publishes their completion.            *)
(*                                                                         *)
(*   src/src/offload.h, src/src/array_request_manager.h, and the wait,     *)
(*   test and finalize entry points of src/src/mpi/mpi_interposition.cpp.  *)
(*                                                                         *)
(* Every access to memory that two threads share is an action of its own.  *)
(* The command queue and the slot pool are used through what they promise  *)
(* (CommandQueue, SlotPool).  The MPI library is external: an operation is *)
(* started by a call, finishes at some later moment, and PMPI_Test sees it.*)
(***************************************************************************)
EXTENDS Naturals, Sequences, SequencesExt

CONSTANTS
    Threads,            \* application threads
    Requests,           \* MPI_Request variables of the application
    NullRequests,       \* those local to a blocking call with null_request_
    PoolSize,           \* REQUEST_POOL_SIZE
    MaxPosts,           \* bound: operations posted per request variable
    UseTest,            \* does the application call MPI_Test?
    CallsMayFail,       \* may an MPI call return an error code?
    INVALID_INDEX,      \* 2^32 - 1 in the code: the index of no slot
    MPI_REQUEST_NULL,
    ZeroRequest,        \* the value of a value-initialized requests_ element
    EmptyStatus,        \* what PMPI_Test stores for a null request
    nullptr

Slots  == 0 .. PoolSize - 1
Usable == 1 .. PoolSize - 1

\* <<r, n>> is the n-th operation posted with request variable r, and also the
\* MPI_Request and the MPI_Status that the MPI library makes for it.
Ops == Requests \X (1 .. MaxPosts)

Commands == [request : Requests, post : 1 .. MaxPosts, null_request : BOOLEAN]

ASSUME ConstantsAssumption ==
    /\ PoolSize \in Nat \ {0}
    /\ MaxPosts \in Nat
    /\ UseTest \in BOOLEAN
    /\ CallsMayFail \in BOOLEAN
    /\ NullRequests \subseteq Requests

ASSUME DistinctAssumption ==
    /\ INVALID_INDEX \notin Slots
    /\ MPI_REQUEST_NULL \notin Ops
    /\ ZeroRequest \notin Ops \cup {MPI_REQUEST_NULL}
    /\ EmptyStatus \notin Ops
    /\ nullptr \notin Commands

VARIABLES
    \* Application threads.
    pc,                 \* where each thread is in the library
    req,                \* the request it passed
    idx,                \* the slot index it read from the request
    \* Application memory and the application's bookkeeping, per request.
    phase,              \* inactive, posting, active, or busy in wait/test
    posts,              \* how many operations were posted with it
    poster,             \* which thread posted its operation
    word,               \* first 32 bits of the MPI_Request
    status,             \* the MPI_Status last returned for it
    \* Shared memory of the engine.
    queue, free, done, statuses, requests, running,
    \* The offload thread.
    opc, command, slot, used, it,
    \* The MPI library: operations started and finished.
    started, finished

threadVars == <<pc, req, idx>>
appVars    == <<phase, posts, poster, word, status>>
poolVars   == <<free, done, statuses, requests>>
offVars    == <<opc, command, slot, used, it>>
mpiVars    == <<started, finished>>
vars == <<threadVars, appVars, queue, poolVars, running, offVars, mpiVars>>

Pool  == INSTANCE SlotPool
Queue == INSTANCE CommandQueue WITH Items <- Commands

CurrentOp(r) == <<r, posts[r]>>

-----------------------------------------------------------------------------
\* A new MPI_Request variable holds whatever was in that memory.
Init ==
    /\ pc = [t \in Threads |-> "idle"]
    /\ req = [t \in Threads |-> nullptr]
    /\ idx = [t \in Threads |-> INVALID_INDEX]
    /\ phase = [r \in Requests |-> "inactive"]
    /\ posts = [r \in Requests |-> 0]
    /\ poster = [r \in Requests |-> nullptr]
    /\ word \in [Requests -> Slots \cup {INVALID_INDEX}]
    /\ status = [r \in Requests |-> EmptyStatus]
    /\ Queue!Init
    /\ Pool!Init
    /\ done = [s \in Slots |-> FALSE]
    /\ statuses = [s \in Slots |-> EmptyStatus]
    /\ requests = [s \in Slots |-> ZeroRequest]
    /\ running = TRUE
    /\ opc = "loop"
    /\ command = nullptr
    /\ slot = INVALID_INDEX
    /\ used = << >>
    /\ it = 1
    /\ started = {}
    /\ finished = {}

-----------------------------------------------------------------------------
(***************************************************************************)
(* Application threads                                                     *)
(***************************************************************************)
\* Leave the library: the locals of the call are gone.
ReturnToApp(t) ==
    /\ pc' = [pc EXCEPT ![t] = "idle"]
    /\ req' = [req EXCEPT ![t] = nullptr]
    /\ idx' = [idx EXCEPT ![t] = INVALID_INDEX]

\* The operation of r is over and the application may use r again.
Inactive(r) ==
    /\ phase' = [phase EXCEPT ![r] = "inactive"]
    /\ poster' = [poster EXCEPT ![r] = nullptr]

\* Mutant: post without invalidate_request.
PostWithoutInvalidate(t, r) ==
    /\ running /\ pc[t] = "idle" /\ phase[r] = "inactive" /\ posts[r] < MaxPosts
    /\ phase' = [phase EXCEPT ![r] = "posting"]
    /\ posts' = [posts EXCEPT ![r] = @ + 1]
    /\ poster' = [poster EXCEPT ![r] = t]
    /\ pc' = [pc EXCEPT ![t] = "enqueue"]
    /\ req' = [req EXCEPT ![t] = r]
    /\ UNCHANGED <<idx, word, status, queue, poolVars, running, offVars, mpiVars>>

\* OffloadEngine::post, first half: invalidate_request.
Post(t, r) ==
    /\ running
    /\ pc[t] = "idle"
    /\ phase[r] = "inactive"
    /\ posts[r] < MaxPosts
    /\ word' = [word EXCEPT ![r] = INVALID_INDEX]
    /\ phase' = [phase EXCEPT ![r] = "posting"]
    /\ posts' = [posts EXCEPT ![r] = @ + 1]
    /\ poster' = [poster EXCEPT ![r] = t]
    /\ pc' = [pc EXCEPT ![t] = "enqueue"]
    /\ req' = [req EXCEPT ![t] = r]
    /\ UNCHANGED <<idx, status, queue, poolVars, running, offVars, mpiVars>>

\* OffloadEngine::post, second half.  A call without nonblocking counterpart
\* goes on to MPI_Wait; after the others any thread may wait, the poster too.
Enqueue(t) ==
    /\ pc[t] = "enqueue"
    /\ Queue!Enqueue([request |-> req[t], post |-> posts[req[t]],
                      null_request |-> req[t] \in NullRequests])
    /\ IF req[t] \in NullRequests
       THEN /\ pc' = [pc EXCEPT ![t] = "word"]
            /\ phase' = [phase EXCEPT ![req[t]] = "busy"]
            /\ UNCHANGED <<req, idx>>
       ELSE /\ ReturnToApp(t)
            /\ phase' = [phase EXCEPT ![req[t]] = "active"]
    /\ UNCHANGED <<posts, poster, word, status>>
    /\ UNCHANGED <<poolVars, running, offVars, mpiVars>>

\* MPI_Wait.  MPI forbids two threads to complete the same request.
Wait(t, r) ==
    /\ pc[t] = "idle"
    /\ phase[r] = "active"
    /\ pc' = [pc EXCEPT ![t] = "word"]
    /\ req' = [req EXCEPT ![t] = r]
    /\ phase' = [phase EXCEPT ![r] = "busy"]
    /\ UNCHANGED <<idx, posts, poster, word, status, queue>>
    /\ UNCHANGED <<poolVars, running, offVars, mpiVars>>

\* wait: the loop that reads the index ends when the index is valid
WaitWord(t) ==
    /\ pc[t] = "word"
    /\ word[req[t]] # INVALID_INDEX
    /\ idx' = [idx EXCEPT ![t] = word[req[t]]]
    /\ pc' = [pc EXCEPT ![t] = "done"]
    /\ UNCHANGED <<req, appVars, queue, poolVars, running, offVars, mpiVars>>

\* wait: the loop that reads done_ ends when it is set
WaitDone(t) ==
    /\ pc[t] = "done"
    /\ done[idx[t]]
    /\ pc' = [pc EXCEPT ![t] = "copy"]
    /\ UNCHANGED <<req, idx, appVars, queue, poolVars, running, offVars, mpiVars>>

\* A caller that passes MPI_STATUS_IGNORE takes this step without looking at
\* the copy.
WaitCopy(t) ==
    /\ pc[t] = "copy"
    /\ status' = [status EXCEPT ![req[t]] = statuses[idx[t]]]
    /\ pc' = [pc EXCEPT ![t] = "clear"]
    /\ UNCHANGED <<req, idx, phase, posts, poster, word, queue>>
    /\ UNCHANGED <<poolVars, running, offVars, mpiVars>>

WaitClear(t) ==
    /\ pc[t] = "clear"
    /\ done' = [done EXCEPT ![idx[t]] = FALSE]
    /\ pc' = [pc EXCEPT ![t] = "release"]
    /\ UNCHANGED <<req, idx, appVars, queue, free, statuses, requests>>
    /\ UNCHANGED <<running, offVars, mpiVars>>

\* Mutant: wait without release.
WaitWithoutRelease(t) ==
    /\ pc[t] = "release" /\ Inactive(req[t]) /\ ReturnToApp(t)
    /\ UNCHANGED <<posts, word, status, queue, poolVars, running, offVars, mpiVars>>

WaitRelease(t) ==
    /\ pc[t] = "release"
    /\ Pool!Release(idx[t])
    /\ Inactive(req[t])
    /\ ReturnToApp(t)
    /\ UNCHANGED <<posts, word, status, queue, done, statuses, requests>>
    /\ UNCHANGED <<running, offVars, mpiVars>>

\* MPI_Test whose read of the index finds a valid one (with INVALID_INDEX it
\* returns false and nothing changes).
Test(t, r) ==
    /\ UseTest
    /\ pc[t] = "idle"
    /\ phase[r] = "active"
    /\ word[r] # INVALID_INDEX
    /\ pc' = [pc EXCEPT ![t] = "flag"]
    /\ req' = [req EXCEPT ![t] = r]
    /\ idx' = [idx EXCEPT ![t] = word[r]]
    /\ phase' = [phase EXCEPT ![r] = "busy"]
    /\ UNCHANGED <<posts, poster, word, status, queue>>
    /\ UNCHANGED <<poolVars, running, offVars, mpiVars>>

\* test: done_ is not set, return false
TestFalse(t) ==
    /\ pc[t] = "flag"
    /\ ~done[idx[t]]
    /\ phase' = [phase EXCEPT ![req[t]] = "active"]
    /\ ReturnToApp(t)
    /\ UNCHANGED <<posts, poster, word, status, queue>>
    /\ UNCHANGED <<poolVars, running, offVars, mpiVars>>

TestFlag(t) ==
    /\ pc[t] = "flag"
    /\ done[idx[t]]
    /\ pc' = [pc EXCEPT ![t] = "take"]
    /\ UNCHANGED <<req, idx, appVars, queue, poolVars, running, offVars, mpiVars>>

\* test: copy the status, return true.  The slot stays out of the pool and its
\* done_ stays set.
TestTrue(t) ==
    /\ pc[t] = "take"
    /\ status' = [status EXCEPT ![req[t]] = statuses[idx[t]]]
    /\ Inactive(req[t])
    /\ ReturnToApp(t)
    /\ UNCHANGED <<posts, word, queue, poolVars, running, offVars, mpiVars>>

\* MPI_Finalize: all operations are complete and no other thread calls MPI.
\* stop() clears running_ and joins the offload thread.
Stop(t) ==
    /\ running
    /\ \A u \in Threads : pc[u] = "idle"
    /\ \A r \in Requests : phase[r] = "inactive"
    /\ running' = FALSE
    /\ pc' = [pc EXCEPT ![t] = "join"]
    /\ UNCHANGED <<req, idx, appVars, queue, poolVars, offVars, mpiVars>>

Join(t) ==
    /\ pc[t] = "join"
    /\ opc = "exited"
    /\ pc' = [pc EXCEPT ![t] = "finalized"]
    /\ UNCHANGED <<req, idx, appVars, queue, poolVars, running, offVars, mpiVars>>

-----------------------------------------------------------------------------
(***************************************************************************)
(* The offload thread: poll_and_test                                       *)
(***************************************************************************)
\* What the offload thread leaves alone in most of its steps.
AppUnchanged == UNCHANGED <<threadVars, phase, posts, poster, status, running>>

CommandOp == <<command.request, command.post>>

\* Mutant: while (true)
LoopForever ==
    /\ opc = "loop" /\ opc' = "dequeue"
    /\ AppUnchanged
    /\ UNCHANGED <<word, queue, poolVars, command, slot, used, it, mpiVars>>

\* while (running_)
Loop ==
    /\ opc = "loop"
    /\ opc' = IF running THEN "dequeue" ELSE "exited"
    /\ AppUnchanged
    /\ UNCHANGED <<word, queue, poolVars, command, slot, used, it, mpiVars>>

Dequeue ==
    /\ opc = "dequeue"
    /\ \E c \in Commands : Queue!Dequeue(c) /\ command' = c
    /\ opc' = "acquire"
    /\ AppUnchanged
    /\ UNCHANGED <<word, poolVars, slot, used, it, mpiVars>>

\* No command: test_requests, from the head of used_.
DequeueNone ==
    /\ opc = "dequeue"
    /\ Queue!DequeueNone
    /\ opc' = "scan"
    /\ it' = 1
    /\ AppUnchanged
    /\ UNCHANGED <<word, poolVars, command, slot, used, mpiVars>>

\* RequestManager::post, acquire
Acquire ==
    /\ opc = "acquire"
    /\ \E s \in Slots : /\ Pool!Acquire(s)
                        /\ slot' = s
                        /\ used' = Cons(s, used)
    /\ opc' = "reset"
    /\ AppUnchanged
    /\ UNCHANGED <<word, queue, done, statuses, requests, command, it, mpiVars>>

\* The pool is empty: post goes on with INVALID_INDEX and stores to
\* flags_[2^32 - 1], far outside the array; the process dies.
AcquireNone ==
    /\ opc = "acquire"
    /\ Pool!AcquireNone
    /\ slot' = INVALID_INDEX
    /\ used' = Cons(INVALID_INDEX, used)
    /\ opc' = "crashed"
    /\ AppUnchanged
    /\ UNCHANGED <<word, queue, done, statuses, requests, command, it, mpiVars>>

\* post: done_ = false
Reset ==
    /\ opc = "reset"
    /\ done' = [done EXCEPT ![slot] = FALSE]
    /\ opc' = "publish"
    /\ AppUnchanged
    /\ UNCHANGED <<word, queue, free, statuses, requests, command, slot, used, it, mpiVars>>

\* post: store the index in the application's request
Publish ==
    /\ opc = "publish"
    /\ word' = [word EXCEPT ![command.request] = slot]
    /\ opc' = "call"
    /\ AppUnchanged
    /\ UNCHANGED <<queue, poolVars, command, slot, used, it, mpiVars>>

\* A nonblocking MPI call starts its operation, stores the MPI_Request in the
\* slot and returns; the command is deleted.
Call ==
    /\ opc = "call"
    /\ ~command.null_request
    /\ started' = started \cup {CommandOp}
    /\ requests' = [requests EXCEPT ![slot] = CommandOp]
    /\ command' = nullptr
    /\ opc' = "test"
    /\ AppUnchanged
    /\ UNCHANGED <<word, queue, free, done, statuses, slot, used, it, finished>>

\* A call without a request starts its operation and blocks the offload thread.
CallBlocking ==
    /\ opc = "call"
    /\ command.null_request
    /\ started' = started \cup {CommandOp}
    /\ opc' = "blocked"
    /\ AppUnchanged
    /\ UNCHANGED <<word, queue, poolVars, command, slot, used, it, finished>>

\* It returns when the operation is over: *request = MPI_REQUEST_NULL
CallReturn ==
    /\ opc = "blocked"
    /\ CommandOp \in finished
    /\ requests' = [requests EXCEPT ![slot] = MPI_REQUEST_NULL]
    /\ command' = nullptr
    /\ opc' = "test"
    /\ AppUnchanged
    /\ UNCHANGED <<word, queue, free, done, statuses, slot, used, it, mpiVars>>

\* The call returns an error code and starts nothing; the code is dropped and
\* the slot keeps the MPI_Request it had, unless the command has none.
CallFails ==
    /\ CallsMayFail
    /\ opc = "call"
    /\ requests' = IF command.null_request
                   THEN [requests EXCEPT ![slot] = MPI_REQUEST_NULL]
                   ELSE requests
    /\ command' = nullptr
    /\ opc' = "test"
    /\ AppUnchanged
    /\ UNCHANGED <<word, queue, free, done, statuses, slot, used, it, mpiVars>>

\* PMPI_Test(&requests_[s], &flag, &statuses_[s]): the flag is set for the null
\* request and for a finished operation, whose request becomes null.  On a
\* request that MPI does not know it returns an error and leaves the
\* uninitialized flag, and the rest, as it was.
PmpiTestSetsFlag(s) ==
    \/ /\ requests[s] = MPI_REQUEST_NULL
       /\ statuses' = [statuses EXCEPT ![s] = EmptyStatus]
       /\ UNCHANGED requests
    \/ /\ requests[s] \in finished
       /\ statuses' = [statuses EXCEPT ![s] = requests[s]]
       /\ requests' = [requests EXCEPT ![s] = MPI_REQUEST_NULL]
    \/ /\ requests[s] = ZeroRequest
       /\ UNCHANGED <<statuses, requests>>

PmpiTestLeavesFlag(s) ==
    /\ requests[s] \in (Ops \ finished) \cup {ZeroRequest}
    /\ UNCHANGED <<statuses, requests>>

\* test_request, right after the call
TestRequestPending ==
    /\ opc = "test"
    /\ PmpiTestLeavesFlag(slot)
    /\ slot' = INVALID_INDEX
    /\ opc' = "loop"
    /\ AppUnchanged
    /\ UNCHANGED <<word, queue, free, done, command, used, it, mpiVars>>

TestRequestComplete ==
    /\ opc = "test"
    /\ PmpiTestSetsFlag(slot)
    /\ opc' = "mark"
    /\ AppUnchanged
    /\ UNCHANGED <<word, queue, free, done, command, slot, used, it, mpiVars>>

\* Mutant: the slot stays in used_.
TestRequestMarkOnly ==
    /\ opc = "mark" /\ opc' = "loop"
    /\ done' = [done EXCEPT ![slot] = TRUE] /\ slot' = INVALID_INDEX
    /\ AppUnchanged
    /\ UNCHANGED <<word, queue, free, statuses, requests, command, used, it, mpiVars>>

\* Mutant: the offload thread gives the slot back when the operation completes.
TestRequestMarkAndRelease ==
    /\ opc = "mark" /\ opc' = "loop"
    /\ used' = RemoveFirst(used, slot) /\ Pool!Release(slot)
    /\ done' = [done EXCEPT ![slot] = TRUE] /\ slot' = INVALID_INDEX
    /\ AppUnchanged
    /\ UNCHANGED <<word, queue, statuses, requests, command, it, mpiVars>>

\* used_.remove(idx); done_ = true.  (A slot is in used_ once: SlotExclusive.)
TestRequestMark ==
    /\ opc = "mark"
    /\ used' = RemoveFirst(used, slot)
    /\ done' = [done EXCEPT ![slot] = TRUE]
    /\ slot' = INVALID_INDEX
    /\ opc' = "loop"
    /\ AppUnchanged
    /\ UNCHANGED <<word, queue, free, statuses, requests, command, it, mpiVars>>

\* test_requests: the iterator is at the end
ScanEnd ==
    /\ opc = "scan"
    /\ it > Len(used)
    /\ it' = 1
    /\ opc' = "loop"
    /\ AppUnchanged
    /\ UNCHANGED <<word, queue, poolVars, command, slot, used, mpiVars>>

\* test_requests: a null request is skipped, an incomplete one stays
ScanSkip ==
    /\ opc = "scan"
    /\ it <= Len(used)
    /\ \/ requests[used[it]] = MPI_REQUEST_NULL /\ UNCHANGED <<statuses, requests>>
       \/ PmpiTestLeavesFlag(used[it])
    /\ it' = it + 1
    /\ AppUnchanged
    /\ UNCHANGED <<word, queue, free, done, opc, command, slot, used, mpiVars>>

ScanComplete ==
    /\ opc = "scan"
    /\ it <= Len(used)
    /\ requests[used[it]] # MPI_REQUEST_NULL
    /\ PmpiTestSetsFlag(used[it])
    /\ opc' = "scanmark"
    /\ AppUnchanged
    /\ UNCHANGED <<word, queue, free, done, command, slot, used, it, mpiVars>>

\* Mutant: test_requests does not set done_.
ScanMarkNothing ==
    /\ opc = "scanmark" /\ opc' = "erase"
    /\ AppUnchanged
    /\ UNCHANGED <<word, queue, poolVars, command, slot, used, it, mpiVars>>

ScanMark ==
    /\ opc = "scanmark"
    /\ done' = [done EXCEPT ![used[it]] = TRUE]
    /\ opc' = "erase"
    /\ AppUnchanged
    /\ UNCHANGED <<word, queue, free, statuses, requests, command, slot, used, it, mpiVars>>

\* it = used_.erase(it), then ++it: the element that followed is skipped.  When
\* the last one was erased, ++it increments end(), which is undefined; the list
\* of libstdc++ and libc++ is circular and goes on with the first element.
ScanErase ==
    /\ opc = "erase"
    /\ used' = RemoveAt(used, it)
    /\ it' = IF it = Len(used) THEN 1 ELSE it + 1
    /\ opc' = "scan"
    /\ AppUnchanged
    /\ UNCHANGED <<word, queue, poolVars, command, slot, mpiVars>>

-----------------------------------------------------------------------------
\* The MPI library: a started operation finishes at some moment.
Complete(op) ==
    /\ opc # "crashed"
    /\ op \in started \ finished
    /\ finished' = finished \cup {op}
    /\ UNCHANGED <<threadVars, appVars, queue, poolVars, running, offVars, started>>

\* The program has ended: PMPI_Finalize has returned.
Terminated ==
    /\ \E t \in Threads : pc[t] = "finalized"
    /\ UNCHANGED vars

InLibrary(t) ==
    /\ opc # "crashed"
    /\ \/ Enqueue(t) \/ WaitWord(t) \/ WaitDone(t) \/ WaitCopy(t) \/ WaitClear(t)
       \/ WaitRelease(t) \/ TestFalse(t) \/ TestFlag(t) \/ TestTrue(t) \/ Join(t)

CallsLibrary(t) ==
    /\ opc # "crashed"
    /\ \/ \E r \in Requests : Post(t, r) \/ Wait(t, r) \/ Test(t, r)
       \/ Stop(t)

OffloadStep ==
    \/ Loop \/ Dequeue \/ DequeueNone
    \/ Acquire \/ AcquireNone \/ Reset \/ Publish
    \/ Call \/ CallBlocking \/ CallReturn \/ CallFails
    \/ TestRequestPending \/ TestRequestComplete \/ TestRequestMark
    \/ ScanEnd \/ ScanSkip \/ ScanComplete \/ ScanMark \/ ScanErase

Next ==
    \/ \E t \in Threads : CallsLibrary(t) \/ InLibrary(t)
    \/ OffloadStep
    \/ \E op \in Ops : Complete(op)
    \/ Terminated

Spec == Init /\ [][Next]_vars

\* The threads are scheduled: the offload thread runs, a thread inside the
\* library goes on, and every operation that MPI has started finishes.
LiveSpec ==
    /\ Spec
    /\ WF_vars(OffloadStep)
    /\ \A t \in Threads : WF_vars(InLibrary(t))
    /\ \A op \in Ops : WF_vars(Complete(op))

-----------------------------------------------------------------------------
TypeOK ==
    /\ pc \in [Threads -> {"idle", "enqueue", "word", "done", "copy", "clear",
                           "release", "flag", "take", "join", "finalized"}]
    /\ req \in [Threads -> Requests \cup {nullptr}]
    /\ idx \in [Threads -> Slots \cup {INVALID_INDEX}]
    /\ phase \in [Requests -> {"inactive", "posting", "active", "busy"}]
    /\ posts \in [Requests -> 0 .. MaxPosts]
    /\ poster \in [Requests -> Threads \cup {nullptr}]
    /\ word \in [Requests -> Slots \cup {INVALID_INDEX}]
    /\ status \in [Requests -> Ops \cup {EmptyStatus}]
    /\ queue \in Seq(Commands)
    /\ free \in SUBSET Usable
    /\ done \in [Slots -> BOOLEAN]
    /\ statuses \in [Slots -> Ops \cup {EmptyStatus}]
    /\ requests \in [Slots -> Ops \cup {MPI_REQUEST_NULL, ZeroRequest}]
    /\ running \in BOOLEAN
    /\ opc \in {"loop", "dequeue", "acquire", "reset", "publish", "call", "blocked",
                "test", "mark", "scan", "scanmark", "erase", "exited", "crashed"}
    /\ command \in Commands \cup {nullptr}
    /\ slot \in Usable \cup {INVALID_INDEX}
    /\ used \in Seq(Usable \cup {INVALID_INDEX})
    /\ it \in Nat \ {0}
    /\ started \in SUBSET Ops
    /\ finished \in SUBSET started

Live(r) == phase[r] # "inactive"

\* Slot s is at work for r: its index is in r's word, or about to be stored there.
Holds(r, s) ==
    \/ Live(r) /\ word[r] = s
    \/ opc \in {"reset", "publish"} /\ command.request = r /\ slot = s

\* No two requests share a slot, and no slot is in the pool while a request
\* holds it: two completions never meet in one flag (post, wait, release).
SlotExclusive ==
    \A s \in Slots : /\ \A r1, r2 \in Requests : Holds(r1, s) /\ Holds(r2, s) => r1 = r2
                     /\ s \in free => \A r \in Requests : ~Holds(r, s)

\* Without MPI_Test every slot is in the pool or at work for a request: wait
\* gives each one back, whatever the interleaving with acquire and test_requests.
NoSlotLost ==
    \A s \in Usable : s \in free \/ \E r \in Requests : Holds(r, s)

\* With MPI_Test too, except that the slot of an operation whose completion
\* MPI_Test has reported stays out of the pool, with done_ set.
SlotAccounting ==
    \A s \in Usable : s \in free \/ done[s] \/ \E r \in Requests : Holds(r, s)

\* The pool suffices for PoolSize - 1 requests: acquire finds a slot.
NeverExhausted == opc # "crashed"

\* The status of r's operation: that of a call without request is empty.
OwnStatus(r) == IF r \in NullRequests THEN EmptyStatus ELSE CurrentOp(r)

\* wait returns, or test returns true, only when the operation of that very
\* request has finished, and with the status of that operation.
CompletionIsOwn ==
    [][\A r \in Requests : phase[r] = "busy" /\ phase'[r] = "inactive"
           => CurrentOp(r) \in finished /\ status'[r] = OwnStatus(r)]_vars

\* The offload thread stores to a request variable only while its operation is
\* outstanding: afterwards the variable may be a dead local of a blocking call.
NoLateWrite ==
    [][\A r \in Requests : phase[r] = "inactive" /\ word'[r] # word[r]
           => phase'[r] = "posting"]_vars

\* test_requests passes over null requests, so a slot it has to find is never
\* null: its waiter would spin forever.
UsedIsTestable ==
    \A i \in 1 .. Len(used) :
        used[i] \in Slots /\ requests[used[i]] = MPI_REQUEST_NULL =>
            \/ i = it /\ opc \in {"scanmark", "erase"}
            \/ i = 1 /\ opc \in {"reset", "publish", "call", "blocked", "test", "mark"}

\* When the offload thread leaves its loop there is no command it has not
\* executed and no operation it has not completed.
StopLosesNothing ==
    opc = "exited" => /\ queue = << >> /\ used = << >>
                      /\ started = finished

\* The engine behaves as MPI_THREAD_MULTIPLE promises.
Stage(r) ==
    IF phase[r] \in {"inactive", "posting"} THEN "inactive"
    ELSE IF CurrentOp(r) \in finished THEN "finished"
    ELSE IF CurrentOp(r) \in started THEN "started" ELSE "posted"

\* The requests whose calls have not been made, oldest first.
NotCalled ==
    LET hand == IF command = nullptr \/ opc = "blocked" THEN << >> ELSE <<command>>
    IN  [i \in 1 .. Len(hand \o queue) |-> (hand \o queue)[i].request]

\* The elements of s that are in S, in their order.
Only(s, S) ==
    LET upTo[n \in 0 .. Len(s)] ==
            IF n = 0 THEN << >>
            ELSE IF s[n] \in S THEN Append(upTo[n - 1], s[n]) ELSE upTo[n - 1]
    IN  upTo[Len(s)]

PostedBy(t) == {r \in Requests : poster[r] = t}

TM == INSTANCE ThreadMultiple WITH
        stage   <- [r \in Requests |-> Stage(r)],
        program <- [t \in Threads |-> Only(NotCalled, PostedBy(t))]

ImplementsThreadMultiple == TM!Spec

\* More than was promised: MPI sees one thread, which makes the calls of all
\* threads in the order of their posts and starts each operation once.
OneThread == INSTANCE ThreadMultiple WITH
        Threads <- {"application"},
        stage   <- [r \in Requests |-> Stage(r)],
        program <- [t \in {"application"} |-> NotCalled]

ImplementsOneThread == OneThread!Spec

\* Whether calls fail or not, each command leads to one call, in the order of the
\* posts: the commands whose calls have not been made are a queue.
Calls == INSTANCE CommandQueue WITH queue <- NotCalled, Items <- Requests

CallsInPostOrder == Calls!Spec

\* MPI_Wait (and with it every blocking call) returns.
WaitReturns ==
    \A t \in Threads : pc[t] \in {"enqueue", "word", "done"} ~> pc[t] = "idle"

\* MPI_Finalize returns.
FinalizeReturns == \A t \in Threads : pc[t] = "join" ~> pc[t] = "finalized"

-----------------------------------------------------------------------------
(***************************************************************************)
(* What comments of the code say of an exhausted pool                      *)
(***************************************************************************)
\* "size_max_{Size}; // maximum number of outstanding MPI requests"
\* (array_request_manager.h:215): the pool is exhausted only by more requests
\* than that.
SizeMaxHonoured ==
    opc = "crashed" => Cardinality({r \in Requests : Live(r)}) > PoolSize

\* "this means that all request slots are in use" (array_request_manager.h:165):
\* each one of the pool works for an outstanding request.
ExhaustedMeansAllInUse ==
    opc = "crashed" => \A s \in Usable : \E r \in Requests : Holds(r, s)
=============================================================================
