# A verification project for libmmc.so (mmcso)

TLA+ models of the MPI software-offloading library in this repository, TLC
configurations that check them on small instances, and TLAPS proofs of the
central safety properties for every size.  Source paths below are relative to
the repository root; `PROJECT.json` maps each definition to the lines it
models.

Contents: [1 the system](#1-the-system) · [2 plan](#2-plan) · [3
models](#3-the-models) · [4 runs](#4-the-runs) · [5 fairness](#5-fairness) · [6
proofs](#6-the-proofs) · [7 findings](#7-where-code-and-comments-disagree) · [8
not modelled](#8-what-is-not-modelled)

## 1 The system

`libmmc.so` is preloaded into an MPI program.  Its MPI_* functions do not call
MPI: they pack the call into an `OffloadCommand`, put it in a queue, and one
*offload thread* per process takes the commands out and makes the PMPI_* calls.
The application completes an operation by spinning on a flag that the offload
thread sets.

| Component | Source | State | Operations |
|---|---|---|---|
| Offload engine | `src/offload.h` | `thread_`, `running_` | `start`, `post`, `wait`, `test`, `stop` |
| Offload thread | `src/offload.h` | the command in hand, its slot | `run`, `poll_and_test` |
| Request manager | `src/array_request_manager.h` | per slot: `flags_[i].done_`, `statuses_`, `requests_`; the list `used_` | `invalidate_request`, `post`, `test_request`, `test_requests`, `wait`, `test` |
| Request pool | `src/array_request_manager.h` | `head_`, `nexts_` (a lock-free stack of slot indexes) | `acquire`, `release` |
| Command queue | `src/atomic_queue.h` over `external/atomic_queue`, or `src/locked_queue.h` | `head_`, `tail_`, `elements_`; or a list and a mutex | `enqueue`, `dequeue` |
| Entry points | `src/mpi/mpi_interposition.cpp` | none of their own | MPI_Init_thread, MPI_Init, MPI_Finalize, MPI_Wait, MPI_Waitall, MPI_Test |
| Interposed operations | `src/mpi/mpi_{p2p,collective,comm,win,one_sided}.cpp` | none | one function per MPI call |
| Thread affinity | `src/util.cpp` | none | parse `MMCSO_THREAD_AFFINITY`, pin |
| Calls not offloaded | blocks of MMCSO_OFFLOAD_NOT_IMPLEMENTED_YET in `src/mpi/` | none | declarations; the application's call enters MPI itself |
| Benchmark | `bench/mt_overlap.cpp` | per thread: two buffers, two requests, a communicator | a ring of nonblocking sends and receives |
| Generator | `cmake/`, `tools/` | none | none at run time |

### How the parts interact

An application thread that calls MPI_Isend writes INVALID_INDEX into the first
32 bits of the caller's `MPI_Request` (`invalidate_request`) and pushes a
command.  The offload thread pops it, takes a slot from the pool, clears the
slot's `done_`, writes the slot index into the caller's `MPI_Request`, makes
the PMPI call into `requests_[slot]` and tests it once.  If the operation is
not over, the slot stays in `used_`; whenever the queue is found empty,
`test_requests` walks `used_`, sets `done_` for what has finished and erases
it. MPI_Wait spins until the index is valid, then until `done_` is set, copies
the status, clears `done_` and pushes the slot back on the pool.  So four
pieces of memory are shared without a lock: the request variable, the flag and
status of a slot, the pool, and the queue.

MPI_Init_thread starts the offload thread, which initializes MPI and answers
through a promise; MPI_Finalize joins it and calls PMPI_Finalize in the
application's thread.  Some 300 MPI functions are only declared in the library:
a call of one of these goes straight to MPI, in the calling thread, past
whatever is in the queue.

### What is hard, and what makes each part correct

- **Engine and request manager.**  A request variable is reused, and still
  holds its last index; slots are reused; flag, status and pool are written by
  different threads.  Correct means: a completion is that of its own operation
  and with its own status (`CompletionIsOwn`), no slot serves two requests or
  is in the pool while it serves one (`SlotExclusive`), no slot is lost
  (`NoSlotLost`), the pool suffices for Size - 1 requests (`NeverExhausted`),
  the offload thread does not write to a dead variable (`NoLateWrite`), and no
  request that must still complete is passed over (`UsedIsTestable`,
  `WaitReturns`).
- **Start and end.**  Two threads start and end MPI together: no thread may be
  in MPI before PMPI_Init_thread has returned or after PMPI_Finalize has
  (`InitializedInMPI`), PMPI_Finalize runs alone (`FinalizeAlone`), and both
  calls return (`InitReturns`, `FinalizeReturns`).  `stop` ends the loop without
  looking at the queue; it must not strand anything (`StopLosesNothing`).
- **Calls not offloaded.**  They enter MPI beside the offload thread
  (`OneThreadInMPI`, `AsIfMultiple`), overtake queued calls of their own thread
  (`CallsInOrder`), free objects that queued calls name (`HandlesOpen`), and
  share the request type with the engine (`RequestsUnderstood`).
- **Order.**  MPI matches messages in call order, so the operations of a thread
  must reach MPI in the order it posted them (`ImplementsThreadMultiple`).  They
  do more than that: all calls are made in the order of all posts
  (`ImplementsOneThread`), also when calls fail (`CallsInPostOrder`), and the
  queue below keeps its own order (`ImplementsCommandQueue`, which implies
  `ProducerOrder`).
- **Pool.**  A compare-and-swap stack: lost nodes, double hand-out, ABA
  (`Linked`, `EverySlotOnce`, `NoAba`, `ImplementsSlotPool`).
- **Ring.**  Two-step push and pop, wrapping counters, no test for a full ring
  (`ImplementsCommandQueue`, `EveryPushReceived`); a cell for each outstanding
  position after rounding and remapping (`OneCellEach`, `Spread`).
- **Several processes.**  A call with no nonblocking counterpart occupies the
  only offload thread until the other processes call it too: no cycle of waiting
  may arise that MPI_THREAD_MULTIPLE would not have (`NeverStuck`,
  `EveryProgramCompletes`).
- **Affinity.**  A hand-written loop over `sscanf` (`ListHonoured`,
  `NothingInvented`).
- **Benchmark.**  Buffers used by operations of another thread (`BuffersIdle`),
  processes that drift apart (`Ahead`).
- **Errors.**  The return code of the MPI call is dropped; the slot keeps a
  stale or zero request (`Offload_degraded.cfg`).

The full list, each at its line, is under `hazards` in `PROJECT.json`.

## 2 Plan

Done:

1. `SlotPool`, `CommandQueue`: abstract specifications of the two shared
   structures.
2. `Offload`: the engine, built from those two; `ThreadMultiple`: what it
   promises.
3. `OffloadInvariant`: its inductive invariant; the `Offload*Proofs` modules.
4. `RequestPool`, refines `SlotPool`; `RequestPoolProofs`.
5. `AtomicQueue`, refines `CommandQueue`.
6. `Ranks`: several processes.
7. `Lifecycle`: start and end, with the threads that are inside MPI;
   `LifecycleInvariant`, `LifecycleProofs`.
8. `Bypassed`, `Interposition`: offloaded calls mixed with calls that are not.
9. `RingIndex`, `RingDigits`: the ring's compile-time arithmetic.
10. `Affinity`, `Benchmark`.
11. In `OffloadProofs`: the engine implements `ThreadMultiple`, in its total
    order.
12. `AtomicQueueProofs`: the ring is the queue, as long as it is not overfull.
13. `InterpositionProofs`: what an application keeps that makes direct calls.
14. `BenchmarkProofs`: the assertions, the buffers and the drift of processes.
15. In `LifecycleProofs`: the loop over the affinity list, for any text.
16. `RanksInvariant`, `RanksProofs`: no reachable state but the end is stuck,
    which is the safety half of `EveryProgramCompletes`.
17. In `OffloadProofs`: the engine implements `ThreadMultiple` for the
    application's own threads too, and makes the calls in order when MPI calls
    fail.

Left open: liveness, which is with TLC alone (section 6, "Model-checked only").

## 3 The models

```
ThreadMultiple  <--refines--  Offload  --uses-->  SlotPool      <--refines--  RequestPool
                                 |     --uses-->  CommandQueue  <--refines--  AtomicQueue
                                 |
          OffloadInvariant, OffloadInactive extend it

Ranks: several processes;  RanksInvariant extends it

Lifecycle      --uses--> CommandQueue;       MCLifecycle adds Affinity
Interposition  --uses--> ThreadMultiple, Bypassed
AtomicQueue    ;  MCAtomicQueue adds RingIndex, RingDigits
Benchmark stands alone
```

**Offload** has one action for each access to memory that two threads share.

| Code | Actions |
|---|---|
| `OffloadEngine::post` | `Post` (invalidate), `Enqueue` |
| `RequestManager::wait` | `Wait`, `WaitWord`, `WaitDone` (the two spin loops, enabled when they end), `WaitCopy`, `WaitClear`, `WaitRelease` |
| `RequestManager::test` | `Test`, `TestFalse`, `TestFlag`, `TestTrue` |
| `poll_and_test` | `Loop`, `Dequeue`, `DequeueNone` |
| `RequestManager::post` | `Acquire`, `AcquireNone`, `Reset`, `Publish` |
| the MPI call | `Call`, `CallBlocking` and `CallReturn`, `CallFails` |
| `test_request` | `TestRequestPending`, `TestRequestComplete`, `TestRequestMark` |
| `test_requests` | `ScanEnd`, `ScanSkip`, `ScanComplete`, `ScanMark`, `ScanErase` |
| `stop`, `join` | `Stop`, `Join` |
| the MPI library (external) | `Complete`, `PmpiTestSetsFlag`, `PmpiTestLeavesFlag` |

`word` is the first 32 bits of the application's MPI_Request, `status` its
MPI_Status; `done`, `statuses`, `requests`, `used` are the manager's arrays and
list; `command`, `slot`, `it` are locals of the offload thread and `opc` its
place in the code; `pc`, `req`, `idx` are the same for application threads.
`phase`, `posts`, `poster`, `started` and `finished` are bookkeeping of what
MPI's rules speak about.  The application follows these rules: a request is
posted again only after its completion, two threads do not complete the same
request, and MPI_Finalize is called when everything is complete.
`OffloadInactive` adds the one legal call that the library does not provide
for, MPI_Wait on an inactive request.

`Offload` implements **ThreadMultiple** twice.  `ImplementsThreadMultiple` has a
sequence of posted operations for each thread, as MPI promises.
`ImplementsOneThread` has one sequence for the whole process: the engine is like
an application of a single thread that makes all calls in the order of their
posts, which is what an application relies on that orders the posts of its
threads by a barrier or a lock.  The two are related by `Only`: what is left of
a thread's calls are the elements of `NotCalled` that it posted.
`CallsInPostOrder` is the part that is independent of MPI's errors: the calls
not yet made are a `CommandQueue`.

Three places where the C++ says more than a reader might expect:

- `it = used_.erase(it)` inside `for (...; ++it)` skips the element after an
  erased one, and increments end() after the last.  The increment is undefined;
  with the circular lists of libstdc++ and libc++ it continues at the first
  element, and this is what `ScanErase` does.
- An exhausted pool is only logged.  `post` goes on with index 2^32 - 1 and
  stores far outside the array: `AcquireNone` ends in "crashed", after which
  nothing moves.
- After a failed call PMPI_Test may get an `MPI_Request` that MPI never made
  (`ZeroRequest`) while `flag` is uninitialized: both outcomes are possible.

**RequestPool** has one action per load, store and compare-and-swap.  `list` is
a history variable: the free list read from `head_` on.
`compare_exchange_weak` may fail spuriously.  Memory is sequentially consistent
in all modules.  The relaxed reload of `head_` in `acquire` is followed by a
load through the value it returned; that address dependency orders the two on
x86 and ARM, the C++ standard does not promise it.

**AtomicQueue** has `push` as `fetch_add` then store, and `try_pop` as test,
claim and take.  The compare-and-swap on `tail_` has no competitor, so
`PopClaim` cannot fail. `Wrap` stands for 2^32 and `Capacity` for the number of
commands the application has outstanding; nothing in the code limits it.

**Ranks** leaves slots and flags to `Offload` and keeps who waits for whom.  A
program is any assignment of calls to threads that MPI allows (`Legal`) and
that would complete on an MPI library with MPI_THREAD_MULTIPLE (`Completes`).
A call that can return stays able to while others return, so `Completes` need
not explore the orders: a program completes if no combination of call counts,
other than the end, is stuck.  Operations are classes of calls with the same
dependencies: `PointToPoint`, `Everybody`, `FromRoot`, `ToRoot`, `FromBelow`,
`FromNeighbors`, and the two made with `null_request_`, `Window` and `Local`.  A
send that MPI must buffer waits for nobody, and its receive waits for it: that
is `FromRoot`, with the sender as root.
`Idle` describes the states in which nobody can do anything but spin, and
`NeverStuck` says that only the end of the program is one.  `WindowsShareRank`
says whether other threads of a process may communicate beside one that makes
window calls.

**Lifecycle** has one action for each step of the two threads between
MPI_Init_thread and PMPI_Finalize.

| Code | Actions |
|---|---|
| `OffloadThread::start` | `InitThread` (`running_`), `Spawn`, `Assign` (`thread_`) |
| `MPI_Init_thread` | `Get` (the future), `AbortSingle`, `InitReturn` |
| `OffloadThread::run` | `InitMPI`, `SetValue` (the promise), `CommRank`, `Pin` |
| `poll_and_test` | `Loop`, `Dequeue`, `DequeueNone`, `Call`, `TestRequests` |
| `MPI_Finalize` | `Stop`, `Join`, `Finalize` |
| the application | `Post` and `WaitReturn`, `DirectCall` and `DirectReturn` |

An offloaded operation is a blocking call of its thread here, and the thread
stands for the command and its request; `Offload` has the details.  MPI may
report any level.  `DirectCalls` says whether the application makes calls that
the library does not interpose, `Pinning` whether the environment has an
affinity for the rank: the handle of `thread_` is read in both cases, but only
then used.

**Bypassed** lists the declarations behind MMCSO_OFFLOAD_NOT_IMPLEMENTED_YET,
one record per block, sorted by what a call has to do with offloaded
operations: nothing (`local`), communication, creation, derivation and release
of objects, requests of MPI made or used, matched messages.
**Interposition** lets several threads mix offloaded calls, which go through
`ThreadMultiple` and so reach MPI later, with an action for each sort of direct
call, which reach it at once.  `reached` is the last call of a thread over a
handle that has arrived, `word` who stored a request, `message` a thread's
MPI_Message variable.  MPI_Improbe may find no message and then leaves the
variable alone.  Handles that offloaded calls make are left out.  `Settled` is an application that completes its
operations on a handle before it makes a direct call over it.  MPI_Imrecv and
the loop of MPI_Waitall are here too.

**RingIndex** has `round_up_to_power_of_2`, `GetIndexShuffleBits`,
`remap_index` and `map` as operators, with the width of an unsigned as a
constant.  `MCAtomicQueue` has the properties about them, for every size and
every counter value, and assumes that the remapping which its ring is given is
what `RingIndex` computes.  **RingDigits** says without bits what `remap_index`
does: the lowest two digits of the index in base 2^BITS change places.
`Spread` compares the two for every counter value and BITS from 0 to 3, and
`OneCellEach` says that a ring which is remapped has a multiple of the square of
the base for its size.

**Affinity** reads the value of MMCSO_THREAD_AFFINITY as a sequence of tokens
(an entry `rank:cpu`, a comma, a blank, something else): `Scan` is the loop, a
function of the offset, `Pinned` and `Shown` its effects.  `%n[^,]` counts the
characters of the entry only: the `[^,]` after `%n` is literal text for sscanf,
whose mismatch does not change the result.  The function touches nothing but the
thread it pins, so it has no state of its own; `MCLifecycle` checks it where the
offload thread calls it, with every text and rank.

**Benchmark** has the calls of every thread of every process, an engine per
process (queue, started, finished) and the messages in flight.  Messages may
overtake, as the info key of line 75 allows, and MPI may keep a send until its
receive or not.

## 4 The runs

| Run | Instance | States | Shows |
|---|---|---|---|
| `offload` | 2 threads, 1 nonblocking request and 1 blocking call without request, 2 usable slots, 2 posts each | 56,382 | the inductive invariant and all safety properties; the refinement of `ThreadMultiple`, per thread and in total order; waits and MPI_Finalize return |
| `offload_degraded` | 2 threads, 2 requests, MPI_Test allowed, calls may fail | 625,078 | which guarantees survive: the inductive invariant (and with it, as proved, `SlotExclusive` and `UsedIsTestable`), the order of the calls, accounting of slots |
| `request_pool` | 2 releasing threads, 4 usable slots | 96,530 | the free list is the abstract pool |
| `atomic_queue` | 2 producers, ring of 4, `Wrap` 12, 7 pushes each; 11 sizes and 4 cache lines for an 8-bit counter | 17,039 | the ring is a FIFO queue while Capacity <= Size; every push arrives; a cell for each outstanding position, neighbours on different cache lines |
| `ranks` | 2 processes, 2 + 1 threads, 12 pairs of operations | 344,755 | every program completes, and no state on the way is stuck, when no other thread communicates beside window calls |
| `lifecycle` | 2 threads, 2 calls each, any thread level, with direct calls; every text of at most 5 tokens, 2 ranks, 3 cpus | 1,573 | nobody in MPI before its start or after its end, PMPI_Finalize alone, every call returns; lists are honoured, nothing is invented |
| `interposition` | 2 threads, 2 requests, 2 handles, 3 calls each, all 300 direct calls | 392,653 | an application that completes its operations first may mix any calls |
| `benchmark` | 2 processes, 2 threads, 2 repetitions | 239,999 | its assertions hold, the processes stay together, and it ends |
| `ranks_window` | the same as `ranks`, window calls beside other threads | violated | finding 1 |
| `test_leak` | 1 thread, 1 request, tested 3 times | violated | finding 2 |
| `inactive` | 2 threads, 2 requests | violated | finding 3 |
| `lifecycle_pin` | as `lifecycle`, with an affinity | violated | finding 4 |

### Further configurations

These show the limits of what the runs above establish.  They are not among the
runs of `PROJECT.json`; each is started with `tlc -config <file> <module>`.

| Configuration | Module | Property | Result |
|---|---|---|---|
| `Offload_pool_size.cfg` | `MCOffload` | `SizeMaxHonoured` | violated: a pool of Size slots serves Size - 1 requests |
| `Offload_scan.cfg` | `MCOffload` | `WaitReturns` | holds (284,586 states): with two nonblocking requests in `used_`, the one that the scan passes over is tested later |
| `AtomicQueue_fifo.cfg` | `MCAtomicQueue` | `ProducerOrder` | violated: a ring of 2 with 3 commands outstanding reorders |
| `Ranks_invariant.cfg` | `MCRanks` | `IInv` | holds (344,755 states): the inductive invariant of `RanksInvariant` |
| `Lifecycle_level.cfg` | `Lifecycle` | `AsIfMultiple` | violated: a direct call with an MPI library that has FUNNELED or SERIALIZED |
| `Lifecycle_finalize.cfg` | `Lifecycle` | `AsIfMultiple` | violated without direct calls: PMPI_Finalize runs on another thread than PMPI_Init_thread |
| `Interposition_order.cfg` | `MCInterposition` | `CallsInOrder` | violated: MPI_Sendrecv overtakes MPI_Isend |
| `Interposition_free.cfg` | `MCInterposition` | `HandlesOpen` | violated: MPI_Type_free is faster than the queued call |
| `Interposition_request.cfg` | `MCInterposition` | `RequestsUnderstood` | violated: a request of one side reaches the other |
| `Interposition_message.cfg` | `MCInterposition` | `OwnMessage` | violated: MPI_Imrecv reads the variable late |
| `Benchmark_invariant.cfg` | `BenchmarkProofs` | `BenchmarkInv` | holds (11,059 states): the inductive invariant on a ring of three processes |
| `Interposition_invariant.cfg` | `InterpositionProofs` | `InterpositionInv` | holds (10,666 states): the inductive invariant for an application that is not careful |
| `Interposition_safe.cfg` | `MCInterposition` | `TypeOK`, `CallsInOrder`, `HandlesOpen` | hold (252,141 states): local calls, calls that make an object and collective closing calls need no care |

The inductive invariants of `Offload`, `Lifecycle` and `Ranks` contain their
`TypeOK`, and that of `Offload` contains `UsedIsTestable`.  `TypeOK` of
`RequestPool`, `AtomicQueue`, `Interposition` and `Benchmark` is proved and in
no run.

### Bounds

- `MaxPosts` = 2 lets a request variable be reused with its old index in it,
  and a slot pass from one request to another and back.  The proofs remove this
  bound.  It also ends every stream of commands: `WaitReturns` says that waits
  return once the load pauses, as test_requests runs only when the queue is
  found empty.
- `PoolSize` = 3 gives two usable slots.  With two requests the pool is
  sometimes empty, and an erased element of `used_` has a neighbour.
  `offload_degraded`, which has two nonblocking requests, exhausts the pool by
  MPI_Test.  `offload` has one, so its scan has one element at a time; that
  waits return when the scan passes over a second one is in `Offload_scan.cfg`.
- `request_pool` has `PoolSize` 5, so that a list of two remains below the slot
  that is being acquired while both other threads release: the shape an ABA
  needs.
- `Wrap` = 12 is a multiple of `Size` and more than twice as large, as 2^32 is
  for the 1024 cells of the program.  The 14 pushes take both counters past it.
- `REQUEST_POOL_SIZE` and `QUEUE_SIZE` (1024, `mpi_interposition.h`) appear
  only as these small sizes.
- `Ranks`: two operations suffice for a cycle of waiting between two processes,
  and `MaxCalls` = 4 lets one thread start and wait for both.  With two ranks
  the classes `Everybody`, `FromBelow` and `FromNeighbors` have the
  dependencies of classes that are instantiated, so they are not in `Pairs`.
- `Lifecycle`: the main thread and one other are enough for a direct call beside
  the offload thread; a second call lets a command arrive while an earlier
  operation is in `used`.
- `Interposition`: two calls suffice for each hazard (a post and a direct call);
  the third and fourth complete the operation and go on, also with the second
  thread's variables.  Two handles, one open at the start, let a handle be made,
  used and freed.
- `Width` = 8 for `RingIndex`: eight bits are enough for the cache lines of 2, 4 and 8 elements
  in rings below and above the square of that, and for sizes at, below and above
  powers of two.  The properties look at all values of the counter at once.
- `Affinity`: five tokens are a list of three entries, or one of two with
  something wrong in any place.
- `Benchmark`: two threads per process can take each other's messages if
  anything lets them.  With two processes and two repetitions a thread could be
  two repetitions ahead of its neighbour, and `Ahead` allows one.
- Symmetry is used only for safety: threads are interchangeable, and so are
  requests of the same kind.  The runs with liveness use none; `Ranks` instead
  gives the first operation to thread a, which is sound because a and b are
  interchangeable (`OrderedSpec`).

`CHECK_DEADLOCK FALSE` is in `Offload_degraded.cfg`, where the program may
crash on an exhausted pool, and in the `Interposition` configurations, whose
threads stop after `MaxCalls` calls with whatever they have posted.  The other
runs check deadlock.  In `Ranks` the
spinning of a waiting thread is a step (`Spin`), so a stuck program is a
violation of the property.

## 5 Fairness

`Offload!LiveSpec`: weak fairness of the offload thread's step, of every thread
inside the library, and of the completion of each operation MPI has started.
The first two are the operating system's scheduler: the offload thread polls
and never blocks except in an MPI call, and `wait` spins.  The third is MPI's
progress rule for operations whose partner exists; `Ranks` drops it and makes
completion depend on the partner's call.  Nothing makes the application call
the library.  A stream of commands that never ends would keep `test_requests`
from running, since it runs only on an empty queue; the bound on posts excludes
this, and the property is read as: once the load pauses, waits return.

`Lifecycle!LiveSpec`: the threads inside the library and the offload thread are
scheduled, again the operating system's promise.  The completion of started
operations is strong fairness of the test that finds all of them finished: the
offload thread tests again and again, with other steps in between, and each
operation ends.

`Benchmark!LiveSpec`: every thread is scheduled, and MPI finishes a receive whose
message has come, a send whose message was received and a duplication that every
process has called; a send need not finish before its receive.

`AtomicQueue!LiveSpec`: a thread between its `fetch_add` and its store goes on,
and the offload thread polls.  `Ranks!LiveSpec`: each thread and each offload
thread is scheduled.

## 6 The proofs

`tlapm` checks every leaf of:

| Theorem | States | Under |
|---|---|---|
| `Invariance` | `IInv` always holds | |
| `TypeCorrect` | `TypeOK` | |
| `SlotsAreExclusive` | `SlotExclusive` | |
| `UsedSlotsAreTestable` | `UsedIsTestable` | |
| `NoWriteIsLate` | `NoLateWrite` | |
| `CompletionsAreOwn` | `CompletionIsOwn` | calls do not fail |
| `FinalizeIsClean` | `StopLosesNothing` | calls do not fail |
| `WaitLosesNoSlot` | `NoSlotLost` | MPI_Test not used |
| `PoolSuffices` | `NeverExhausted` | MPI_Test not used, fewer requests than `PoolSize` |
| `SlotsAreAccountedFor` | `SlotAccounting` | |
| `CallsAreInPostOrder` | `CallsInPostOrder`: one call for each command, in the order of the posts | |
| `EngineIsOneThread` | `ImplementsOneThread` | calls do not fail |
| `EngineIsThreadMultiple` | `ImplementsThreadMultiple` | calls do not fail |
| `Ranks`: `Invariance` | `IInv` of `RanksInvariant` | `~WindowsShareRank` |
| `NoProgramIsStuck` | `NeverStuck` | `~WindowsShareRank` |
| `PoolTypeCorrect`, `ListStaysLinked`, `SlotsAreInOnePlace` | `TypeOK`, `Linked`, `EverySlotOnce` of the free list | |
| `SingleConsumerHasNoAba` | `NoAba` | |
| `ListImplementsPool` | `RequestPool` refines `SlotPool` | |
| `Lifecycle`: `Invariance`, `TypeCorrect` | `IInv`, `TypeOK` | |
| `MPIIsInitialized`, `FinalizeIsAlone` | `InitializedInMPI`, `FinalizeAlone` | |
| `OneThreadAtATime` | `OneThreadInMPI` | (the property says: no direct calls) |
| `AtomicQueue`: `TypeCorrect` | `TypeOK` of the ring | |
| `RingIsWindow` | `RingInv`, the window of positions | Capacity <= Size |
| `RingIsQueue` | `ImplementsCommandQueue`: the ring refines `CommandQueue` | Capacity <= Size |
| `ProducerOrderHolds` | `ProducerOrder` | Capacity <= Size |
| `CellsAreDistinct` | `remap_index` gives each index a cell of its own | the size is a multiple of base² |
| `NeighboursAreSpread` | commands that fit on one cache line are on different ones | the size is a multiple of base² |
| `Interposition`: `InvariantHolds`, `TypeCorrect` | `InterpositionInv`, `TypeOK` | |
| `WaitallIsComplete` | `WaitallCompletes` | |
| `CallsStayInOrder` | `CallsInOrder` | `Ordered` |
| `HandlesStayOpen` | `HandlesOpen` | `Kept` |
| `MessagesAreOwn` | `OwnMessage` | `Single` |
| `Benchmark`: `InvariantHolds`, `TypeCorrect` | `BenchmarkInv`, `TypeOK` | |
| `EveryMessageIsReceived`, `BuffersAreIdle`, `TheRingHoldsBack` | `Received`, `BuffersIdle`, `Ahead` | |
| `AListIsHonoured`, `NoCpuIsInvented` | `ListHonoured`, `NothingInvented` | |

They hold for any sets of threads, requests and handles, any pool and ring size,
any number of processes and iterations, and texts of any length.  The
assumptions on the constants are `ConstantsAssumption`, `DistinctAssumption` (the
special values are different from slots, operations and commands),
`RequestPoolAssumption`, `RingAssumption`, `RanksAssumption` (ranks are numbered
from 0, there are finitely many threads), `LifecycleAssumption`,
`AffinityAssumption` (a cpu of the system is a cpu, separators are not entries),
`InterpositionAssumption` and `BenchmarkAssumption` (at least one process and
one thread).

The conditions of the last column are what the code needs of its application
and of MPI.  Without them there are counterexamples: the pool is exhausted in
`Offload_pool_size.cfg` and `test_leak`, after a failed call a completion may
report an operation that never started, an overfull ring reorders in
`AtomicQueue_fifo.cfg`, a program that lets window calls and other communication
share a share a process gets stuck in `ranks_window`, and three of the violated
`Interposition` configurations have an application that does not meet one of the
following conditions:

- `Ordered`: it is `Settled` (completes its operations on a handle before a direct
  call over it), or makes no direct call that communicates, derives a
  communicator, starts an operation or matches a message;
- `Kept`: it is `Settled`, or frees nothing by a direct call;
- `Single`: it is `Settled`, or matches no message by a direct call.

For the fourth, `Interposition_request.cfg`, there is no such condition short of
making no call of one kind: nothing tells a request of the engine from one of
MPI.

### The argument for the engine

None of the properties is inductive.  What carries them is a description of
where a request can be, in `OffloadInvariant`:

- `ThreadInv`: a thread in a call has its own request, shared with no other
  thread, and from `WaitWord` on the index that is in that request's word;
- `RequestInv`: a request that is being posted is invalidated, and its
  operation new;
- `QueueInv`, `HandInv`: a queued command is the current one of its request,
  whose word is still INVALID_INDEX; it is queued once, and not also in the
  offload thread's hand.  This is why a waiter cannot read the old index: the
  word was invalidated before the command became visible;
- `UsedInv`: a slot in `used_` is held by a request, not free and not done,
  except the one that `test_requests` has marked and not yet erased.  That
  exception is why marking before erasing is harmless: the slot may already be
  in the pool, but only the offload thread acquires, and it erases first;
- `TestInv`: each slot in `used_` leads to the completion of the operation that
  holds it;
- `FlagInv`: a set `done_` speaks for the request that holds the slot, and is
  clear for slots in the pool;
- `StopInv`: after `Stop` no request is outstanding.

`OffloadStepProofs` proves that each action of an application thread, of the
offload thread and of MPI keeps `IInv`, one lemma per action, and
`OffloadProofs` combines them.  `NoSlotLost` needs a
second invariant (`PoolFull`, relative to `IInv`), and `NeverExhausted` follows
from it by counting: with the pool empty every usable slot is held by a
different request other than the one in hand.

### The argument for the pool

`list` makes the linked structure explicit.  `Linked` says that `head_` and
`nexts_` spell it, `EverySlotOnce` that list, holders and releasers partition
the slots.  A releaser writes `nexts_` only of its own slot, which is not in
the list, and only `AcquireCas` removes from the list.  So the slot that `acquire` has read
from `head_` stays in the list until the exchange, and the successor it has
read stays that slot's successor (`AcquireInv`), which gives `NoAba`.  A
successful exchange then adds or takes one element of the set of free slots,
which is a step of `SlotPool`, and the one it takes is the one that `acquire`
returns (`HandsOut`).

### The argument for the order

`EngineIsOneThread` maps `NotCalled`, the command in hand followed by the queue,
to the program of the one thread, and each request to its stage.  `Enqueue` and
the posts of `ThreadMultiple` are the same step, as are `Call` or `CallBlocking`
and its start of an operation; `Dequeue` only moves the first command from the
queue to the hand, and everything else but completion and return stutters.
`IInv` is needed for the stages: a queued request is at stage "posted" because
it is queued once and its operation has not started.  When the calls of MPI may
fail the start of an operation is not the step of `ThreadMultiple`, and the
theorem excludes it; `CallsAreInPostOrder` says what remains: `NotCalled` is a
queue, to which every post appends and from which every call, failed or not,
takes the first.

For `EngineIsThreadMultiple` the program of a thread is `NotCalled` filtered by
poster.  The filter `Only` is a recursive function, so that it has a value is
proved first (`OnlyEnds`), and then what it makes of a list that gets an element
at the end, loses one at the front, or is filtered by a set that agrees with the
other on its elements (`OnlyAppend`, `OnlyFront`, `OnlySame`).  The prover has no
induction for these; each is a comparison of two recursions that go in step
(`InStep`), by least counterexample.  Two invariants carry the step: `InOrder`,
the requests of `NotCalled` are posted and each is in it once, which every step
of `ImplementsOneThread` keeps; and `Owned`, a request in use has a poster.  The
poster of a posted request does not change, so a step at one end of `NotCalled`
is that of one thread, and the programs of the others stay.

`SlotAccounting` needs one more fact besides `IInv`: a slot that is in no other
place has `done_` set, which only `WaitClear` and `Reset` undo, for a slot that
is held.

### The argument for several processes

`NoProgramIsStuck` compares an idle state with the execution of the same program
on MPI_THREAD_MULTIPLE.  Let every thread there have returned from the calls it
has returned from here.  `Completes` says that if no thread could go on there,
the program has ended; so it must be shown that nobody can: `WaitsFacts` takes a
thread that waits here, and the rank q that has not called the operation o it
waits for, and shows that no thread of q has reached o there either.  This is
where the queue could be a difference: o might have been posted, and be behind
another call.  In an idle state a queue that is not empty is behind a call that
keeps the offload thread, and `BlockedInv` says that this is not a window call.
The other calls without request are local, over as soon as they are made, so
they keep nobody (`NeedsFacts`).

`BlockedInv` is what needs `~WindowsShareRank`, and most of the work: when a
window call is taken from the queue, the thread that made it is the only one of
its process (`WindowFacts`), its commands are in the order of its calls
(`OrderInv`), and it has not gone on to post another (`ReturnInv`), so the queue is
empty.  `CommandInv` says that what was posted is in the queue or called.

### The argument for start and end

`StartInv` orders the two threads until the application runs: the promise is
kept only after PMPI_Init_thread, and `MPI_Init_thread` returns only with the
promise's value.  `EndInv` orders them afterwards: the other threads are idle
when `Stop` is called, and PMPI_Finalize runs only when the offload thread has
exited.  `CallInv` says where the operation of a waiting thread is (in the queue,
in the hand, started or completed, and in one of these only); nobody waits at
`Stop`, hence nothing is queued or outstanding in `FinalizeAlone`, whatever the
offload thread was doing when `running_` was cleared.

### The argument for the affinity

`Scan` is a recursive function of the offset, so that it has a value at all must
be proved first: `LoopEnds` takes the least remaining length at which there
would be none, and shows that there is one.  The same least counterexample gives
what `Scan` returns: `ScanFindsOwn` says that its result is an entry of the text
with the rank of the process, and `ListScan` that in a list it is the first
such entry.  That needs where `NextToken` stops, which `TokenFacts` and
`ReadFacts` say.

### The argument for the ring

`TypeOK` of `AtomicQueue` is inductive with two additions: a producer in `push`
has a command, and `tail_` is what `try_pop` has read when it exchanges it.  No
bound on the outstanding commands is needed: a ring that overflows reorders
(`AtomicQueue_fifo.cfg`) but stays inside its array.

That it is a queue needs the bound.  `RingInv` describes the window of positions
from `tail_` (or from the one that `try_pop` has claimed) to `head_`, modulo the
wrap of the counters:

- `WindowInv`: it has at most Size positions;
- `CellInv`: a cell outside is NIL; one inside is NIL only while its producer has
  yet to store.  Two positions of one window have different cells (`SameCell`:
  equal cells differ by a multiple of Size), also when the window spans the wrap,
  which is at a multiple of Size;
- `ClaimInv`: each producer between `fetch_add` and store has claimed one
  position of the window, not that of another;
- `ItemInv`: positions and outstanding commands correspond, those of one producer
  in the order of its pushes.

The queue is then the sequence of the commands from `tail_` to `head_`.  A push
takes effect with its `fetch_add` and a pop with its exchange: `PushClaim`
appends, `PopClaim` removes the first, the other steps stutter.

All of this holds for any permutation of the cells as the remapping.  That
`remap_index` is one follows from its being an exchange of two digits: it is its
own inverse (`SwapTwice`) and stays below a multiple of the square of the base
(`SwapInRing`).  The cache line of a cell is its index without the lowest digit,
so its last digit is the lowest digit of the index before the exchange
(`LineFacts`).  Subsequent positions differ in that digit, also across the wrap
and the end of the ring, which are at multiples of the base (`MultipleGone`).

### The argument for direct calls

The offloaded operations of a thread are queued with increasing numbers
(`ProgramInv`).  `OrderInv` says that no call newer than a queued one has reached
MPI over its handle.  A direct call over the handle would break it, unless none is
queued there, which is what `Settled` gives.  `HandleInv` and `MessageInv` are of the
same kind: what a queued command names is open, and the variable of a queued
MPI_Imrecv still holds the message of its call.  Each of these is kept by every step
under its own condition, and none needs another's.  `ArrayInv`, for MPI_Waitall,
needs no condition: a request of the array that is no longer waited for stays
complete, because nobody posts a request that another thread waits for.

### The argument for the benchmark

`ThreadInv` says which operations of a thread are pending at each line, from
which `BuffersIdle` follows, and `BufferInv` when the buffer is full.
`MessageInv` says that a message on its way has the sender, communicator and tag of
one thread, so a receive can match no other's, in whatever order; that gives
`Received`.  `CountInv` counts: the messages on their way to a thread are the
sends of its left neighbour less its own receives.  As a number of messages is
not negative, no thread can have done more than one iteration more than its left
neighbour's.  `Around` takes this round the ring, by least counterexample: from
a process to its left neighbour there are num_procs - 1 such steps the other way.

### Model-checked only

Liveness (`WaitReturns`, `FinalizeReturns`, `EveryPushReceived`,
`EveryProgramCompletes`, `InitReturns`, `CallsReturn`, `Ends`): beyond the prover.
Of `EveryProgramCompletes` the safety half is proved (`NoProgramIsStuck`): what
is left to TLC is that fair threads reach such a state.  `OneCellEach` and
`Spread`: `RingIndex` is recursive and uses bit operations, neither of which the
prover has.  That its `RemapIndex` exchanges two digits is part of `Spread`,
and what the exchange does for a ring is proved (`CellsAreDistinct`,
`NeighboursAreSpread`).  `OneThreadInMPI` is proved and in no run, as the run `lifecycle` has the direct calls that it excludes.

## 7 Where code and comments disagree

1. **A window call can deadlock a program that MPI_THREAD_MULTIPLE completes**
   (`ranks_window`; `src/mpi/mpi_win.cpp:27`).  `mpi_interposition.cpp:28`
   reports MPI_THREAD_MULTIPLE.  One thread fences while another's send is
   queued behind the fence; the other process receives before it fences.
2. **MPI_Test loses the slot** (`test_leak`; `array_request_manager.h:117`).
   It neither clears `done_` nor releases, as `wait` does; the comment at line
   165 takes an empty pool for one with all slots in use.
3. **MPI_Wait on an inactive request returns another operation's status**
   (`inactive`; `mpi_interposition.cpp:70`), where the comment above it, a
   TODO, says what MPI requires.
4. **`thread_` is read before it is assigned** (`lifecycle_pin`;
   `offload.h:73`).  With an affinity for the rank, `pthread_setaffinity_np` may
   get the handle of no thread.

The further configurations show more of them:

5. **A pool of Size slots serves Size - 1** (`Offload_pool_size.cfg`;
   `array_request_manager.h:139`). The constructor does not release slot 0.
   The comment at line 215 promises Size.
6. **An overfull ring reorders** (`AtomicQueue_fifo.cfg`; `atomic_queue.h:300`).
   With more commands outstanding than cells, a push that is preempted after its
   `fetch_add` is overtaken by one a lap later.
7. **MPI_THREAD_MULTIPLE is reported, but not given to calls that are not
   offloaded** (`Lifecycle_level.cfg`; `mpi_interposition.cpp:29`).  An
   application thread that makes one enters MPI beside the offload thread, or at
   all when MPI has only FUNNELED.
8. **PMPI_Finalize runs on another thread than PMPI_Init_thread**
   (`Lifecycle_finalize.cfg`; `mpi_interposition.cpp:45`), which FUNNELED
   forbids.
9. **A call that is not offloaded overtakes** (`Interposition_order.cfg`;
   `mpi_p2p.cpp:117`).  MPI_Sendrecv reaches MPI before an MPI_Isend that the
   same thread called earlier.
10. **Objects are freed before the call that names them is made**
    (`Interposition_free.cfg`; MPI_Type_free in `mpi_type.cpp`).
11. **Requests of MPI and of the engine are mixed**
    (`Interposition_request.cfg`; `mpi_interposition.cpp:84`).
12. **MPI_Imrecv reads its message late** (`Interposition_message.cfg`;
    `mpi_p2p.cpp:66`).  It captures the address of the caller's variable.

Divergences 7 to 12 contradict the comment at `mpi_interposition.cpp:28` that
the library behaves as if MPI_THREAD_MULTIPLE were provided.  The runs
`lifecycle` and `interposition`, and `Interposition_safe.cfg`, say how far it is
true.

## 8 What is not modelled

- The values that calls transfer, other than MPI_Imrecv's message and the
  handles.  Every implemented call has one of three shapes (post; post and wait;
  post with `null_request_` and wait), and the models have all three.
- Weak memory beyond the remark on `acquire`.
- The code generator (`cmake/`, `tools/`): a text template run by hand over an
  MPI header at development time.  `tools/mpi.h` is its input.
- The benchmark's exits on system errors, its measurements and its assertions on
  the statuses; processes with different numbers of threads.
- A size of the ring above 2^31, which is rounded to zero and does not compile.
- `NumThreads` > 1, which a static_assert excludes.
- `reset(idx)`, `first_`, `last_`, `size_` of the manager, which nothing uses,
  and the queues of the vendored header that the library does not instantiate.
