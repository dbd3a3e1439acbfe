---------------------------- MODULE OffloadProofs ---------------------------
(***************************************************************************)
(* What holds of the offload engine for every number of threads, requests  *)
(* and slots.  The inductive invariant is IInv of OffloadInvariant; the    *)
(* lemmas that each action preserves it are in OffloadStepProofs.  The     *)
(* last parts are the refinements: whether MPI calls fail or not, they are *)
(* made in the order of the posts; and if they do not, the engine          *)
(* implements ThreadMultiple, for an application of one thread that makes  *)
(* the calls of all threads and for the application as it is.              *)
(***************************************************************************)
EXTENDS OffloadStepProofs, FiniteSetTheorems, WellFoundedInduction

\* The initial state: nothing posted, the pool full.
LEMMA InitInvariant == Init => IInv
<1> SUFFICES ASSUME Init
             PROVE  IInv
  OBVIOUS
<1> USE DEF Init
<1>1. TypeOK
  BY ConstantsAssumption DEF TypeOK, Pool!Init, Queue!Init, Usable, Pool!Usable, Pool!Slots, Slots
<1>2. ThreadInv
  BY DEF ThreadInv, ThreadOK, InCall, HasIndex
<1>3. RequestInv
  BY DEF RequestInv, RequestOK, Live, CurrentOp
<1>4. queue = << >> /\ used = << >>
  BY DEF Queue!Init
<1>5. QueueInv /\ HandInv /\ UsedInv /\ TestInv /\ UsedIsTestable
  BY <1>4 DEF QueueInv, HandInv, Hand, HasSlot, UsedInv, TestInv, UsedIsTestable
<1>6. FlagInv
  BY SlotFacts DEF FlagInv, FlagOK
<1>7. SlotExclusive
  BY DEF SlotExclusive, Holds, Live
<1>8. StopInv
  BY DEF StopInv, Live
<1> QED
  BY <1>1, <1>2, <1>3, <1>5, <1>6, <1>7, <1>8 DEF IInv

\* A step that changes nothing.
LEMMA StutterStep ==
  ASSUME IInv, UNCHANGED vars
  PROVE  IInv'
<1> USE DEF IInv, vars, threadVars, appVars, poolVars, offVars, mpiVars, CurrentOp, Live,
            InCall, HasIndex, OwnStatus, IsCurrent, CommandOp, Erasing, Holds
<1>1. TypeOK'
  BY DEF TypeOK
<1>2. ThreadInv'
  BY DEF ThreadInv, ThreadOK
<1>3. RequestInv' /\ StopInv' /\ UsedIsTestable' /\ SlotExclusive'
  BY DEF RequestInv, RequestOK, StopInv, UsedIsTestable, SlotExclusive
<1>4. QueueInv' /\ HandInv'
  BY DEF QueueInv, QueuedOK, HandInv
<1>5. UsedInv'
  BY DEF UsedInv, UsedOK
<1>6. TestInv' /\ FlagInv'
  BY DEF TestInv, TestOK, FlagInv, FlagOK, Completed, Outstanding
<1> QED
  BY <1>1, <1>2, <1>3, <1>4, <1>5, <1>6 DEF IInv

\* Every step of the system preserves the invariant.
LEMMA NextInvariant == IInv /\ [Next]_vars => IInv'
<1> SUFFICES ASSUME IInv, [Next]_vars
             PROVE  IInv'
  OBVIOUS
<1>1. ASSUME NEW t \in Threads, CallsLibrary(t)
      PROVE  IInv'
  <2>1. opc # "crashed"
    BY <1>1 DEF CallsLibrary
  <2>2. CASE \E r \in Requests : Post(t, r) \/ Wait(t, r) \/ Test(t, r)
    BY <2>1, <2>2, PostStep, WaitStep, TestStep
  <2>3. CASE Stop(t)
    BY <2>1, <2>3, StopStep
  <2> QED
    BY <1>1, <2>2, <2>3 DEF CallsLibrary
<1>2. ASSUME NEW t \in Threads, InLibrary(t)
      PROVE  IInv'
  <2>1. opc # "crashed"
    BY <1>2 DEF InLibrary
  <2>2. CASE Enqueue(t) \/ WaitWord(t) \/ WaitDone(t) \/ WaitCopy(t) \/ WaitClear(t) \/ WaitRelease(t)
    BY <2>1, <2>2, EnqueueStep, WaitWordStep, WaitDoneStep, WaitCopyStep, WaitClearStep, WaitReleaseStep
  <2>3. CASE TestFalse(t) \/ TestFlag(t) \/ TestTrue(t) \/ Join(t)
    BY <2>1, <2>3, TestFalseStep, TestFlagStep, TestTrueStep, JoinStep
  <2> QED
    BY <1>2, <2>2, <2>3 DEF InLibrary
<1>3. ASSUME OffloadStep
      PROVE  IInv'
  <2>1. CASE Loop \/ Dequeue \/ DequeueNone \/ Acquire \/ AcquireNone \/ Reset \/ Publish
    BY <2>1, LoopStep, DequeueStep, DequeueNoneStep, AcquireStep, AcquireNoneStep, ResetStep, PublishStep
  <2>2. CASE Call \/ CallBlocking \/ CallReturn \/ CallFails
    BY <2>2, CallStep, CallBlockingStep, CallReturnStep, CallFailsStep
  <2>3. CASE TestRequestPending \/ TestRequestComplete \/ TestRequestMark
    BY <2>3, TestRequestPendingStep, TestRequestCompleteStep, TestRequestMarkStep
  <2>4. CASE ScanEnd \/ ScanSkip \/ ScanComplete \/ ScanMark \/ ScanErase
    BY <2>4, ScanEndStep, ScanSkipStep, ScanCompleteStep, ScanMarkStep, ScanEraseStep
  <2> QED
    BY <1>3, <2>1, <2>2, <2>3, <2>4 DEF OffloadStep
<1>4. ASSUME NEW op \in Ops, Complete(op)
      PROVE  IInv'
  BY <1>4, CompleteStep
<1>5. CASE UNCHANGED vars
  BY <1>5, StutterStep
<1>6. CASE Terminated
  BY <1>6, StutterStep DEF Terminated
<1> QED
  BY <1>1, <1>2, <1>3, <1>4, <1>5, <1>6 DEF Next

\* The inductive invariant holds in every behaviour.
THEOREM Invariance == Spec => []IInv
<1> QED
  BY InitInvariant, NextInvariant, PTL DEF Spec

\* Every variable of the engine keeps its type.
THEOREM TypeCorrect == Spec => []TypeOK
<1>1. IInv => TypeOK
  BY DEF IInv
<1> QED
  BY <1>1, Invariance, PTL

\* The engine gives a slot to one request at a time, and never takes it back
\* into the pool while that request is outstanding.
THEOREM SlotsAreExclusive == Spec => []SlotExclusive
<1>1. IInv => SlotExclusive
  BY DEF IInv
<1> QED
  BY <1>1, Invariance, PTL

\* test_requests passes over no slot that it has to complete.
THEOREM UsedSlotsAreTestable == Spec => []UsedIsTestable
<1>1. IInv => UsedIsTestable
  BY DEF IInv
<1> QED
  BY <1>1, Invariance, PTL

\* When no call fails, MPI_Finalize leaves no command and no operation behind.
THEOREM FinalizeIsClean ==
  ASSUME ~CallsMayFail
  PROVE  Spec => []StopLosesNothing
<1>1. ASSUME IInv, opc = "exited"
      PROVE  queue = << >> /\ used = << >> /\ started = finished
  <2>1. \A r \in Requests : ~Live(r)
    BY <1>1 DEF IInv, StopInv
  <2>2. queue = << >>
    <3>1. ASSUME queue # << >>
          PROVE  FALSE
      <4>1. 1 \in 1 .. Len(queue) /\ queue[1] \in Commands
        BY <1>1, <3>1, QueuedCommand DEF IInv, TypeOK
      <4>2. IsCurrent(queue[1])
        BY <1>1, <4>1 DEF IInv, QueueInv, QueuedOK
      <4> QED
        BY <2>1, <4>1, <4>2, CommandFacts DEF IsCurrent, Live
    <3> QED
      BY <3>1
  <2>3. used = << >>
    <3>1. ASSUME used # << >>
          PROVE  FALSE
      <4>1. 1 \in 1 .. Len(used)
        BY <1>1, <3>1 DEF IInv, TypeOK
      <4>2. \E r \in Requests : Holds(r, used[1])
        BY <1>1, <4>1 DEF IInv, UsedInv, UsedOK, Erasing
      <4> QED
        BY <1>1, <2>1, <4>2 DEF Holds
    <3> QED
      BY <3>1
  <2>4. \A r \in Requests, n \in 1 .. MaxPosts : <<r, n>> \notin started \ finished
    BY <1>1, <2>1 DEF IInv, StopInv
  <2>5. started = finished
    <3>1. finished \subseteq started /\ started \subseteq Ops
      BY <1>1 DEF IInv, TypeOK
    <3>2. \A op \in Ops : \E r \in Requests, n \in 1 .. MaxPosts : op = <<r, n>>
      BY DEF Ops
    <3> QED
      BY <2>4, <3>1, <3>2
  <2> QED
    BY <2>2, <2>3, <2>5
<1>2. IInv => StopLosesNothing
  BY <1>1 DEF StopLosesNothing
<1> QED
  BY <1>2, Invariance, PTL

\* Only a wait that has released the slot, or a test that has seen done_, ends
\* the operation of a request.
LEMMA EndsInWaitOrTest ==
  ASSUME IInv, Next, NEW r \in Requests, phase[r] = "busy", phase'[r] = "inactive"
  PROVE  \E t \in Threads : opc # "crashed" /\ (WaitRelease(t) \/ TestTrue(t)) /\ req[t] = r
<1> USE DEF threadVars, appVars
<1>0. phase \in [Requests -> {"inactive", "posting", "active", "busy"}]
  BY DEF IInv, TypeOK
<1>1. ASSUME NEW t \in Threads, CallsLibrary(t)
      PROVE  phase'[r] # "inactive"
  BY <1>0, <1>1 DEF CallsLibrary, Post, Wait, Test, Stop
<1>2. ASSUME NEW t \in Threads, InLibrary(t), ~WaitRelease(t), ~TestTrue(t)
      PROVE  phase'[r] # "inactive"
  BY <1>0, <1>2 DEF InLibrary, Enqueue, WaitWord, WaitDone, WaitCopy, WaitClear,
                    TestFalse, TestFlag, Join
<1>3. ASSUME OffloadStep
      PROVE  UNCHANGED phase
  BY <1>3 DEF OffloadStep, AppUnchanged, Loop, Dequeue, DequeueNone, Acquire, AcquireNone,
              Reset, Publish, Call, CallBlocking, CallReturn, CallFails,
              TestRequestPending, TestRequestComplete, TestRequestMark,
              ScanEnd, ScanSkip, ScanComplete, ScanMark, ScanErase
<1>4. ASSUME (\E op \in Ops : Complete(op)) \/ Terminated
      PROVE  UNCHANGED phase
  BY <1>4 DEF Complete, Terminated, vars
<1>5. ASSUME NEW t \in Threads, WaitRelease(t) \/ TestTrue(t), req[t] # r
      PROVE  phase'[r] # "inactive"
  BY <1>0, <1>5 DEF WaitRelease, TestTrue, Inactive
<1> QED
  BY <1>1, <1>2, <1>3, <1>4, <1>5 DEF Next, InLibrary

\* When no call fails, wait returns and test returns true only for an operation
\* that has finished, with the status of that very operation.
THEOREM CompletionsAreOwn ==
  ASSUME ~CallsMayFail
  PROVE  Spec => CompletionIsOwn
<1> DEFINE Own == \A r \in Requests : phase[r] = "busy" /\ phase'[r] = "inactive"
                     => CurrentOp(r) \in finished /\ status'[r] = OwnStatus(r)
<1>1. ASSUME IInv, Next
      PROVE  Own
  <2> SUFFICES ASSUME NEW r \in Requests, phase[r] = "busy", phase'[r] = "inactive"
               PROVE  CurrentOp(r) \in finished /\ status'[r] = OwnStatus(r)
    OBVIOUS
  <2>1. PICK t \in Threads : opc # "crashed" /\ (WaitRelease(t) \/ TestTrue(t)) /\ req[t] = r
    BY <1>1, EndsInWaitOrTest
  <2>2. CASE WaitRelease(t)
    BY <1>1, <2>1, <2>2 DEF IInv, ThreadInv, ThreadOK, WaitRelease
  <2>3. CASE TestTrue(t)
    <3>1. HasIndex(t) /\ done[idx[t]]
      BY <1>1, <2>3 DEF IInv, ThreadInv, ThreadOK, TestTrue, HasIndex
    <3>2. Completed(r, idx[t])
      BY <1>1, <2>1, <3>1, IndexFacts DEF IInv, FlagInv, FlagOK, Live
    <3>3. status' = [status EXCEPT ![r] = statuses[idx[t]]] /\ r \in DOMAIN status
      BY <1>1, <2>1, <2>3 DEF IInv, TypeOK, TestTrue
    <3> QED
      BY <3>2, <3>3 DEF Completed
  <2> QED
    BY <2>1, <2>2, <2>3
<1>2. IInv /\ [Next]_vars => [Own]_vars
  BY <1>1
<1> QED
  BY <1>2, Invariance, PTL DEF Spec, CompletionIsOwn

\* The offload thread never stores to a request whose operation is over: the
\* request of a blocking call may be gone by then.
THEOREM NoWriteIsLate == Spec => NoLateWrite
<1> DEFINE Timely == \A r \in Requests : phase[r] = "inactive" /\ word'[r] # word[r]
                        => phase'[r] = "posting"
<1>1. ASSUME IInv, Next
      PROVE  Timely
  <2> SUFFICES ASSUME NEW r \in Requests, phase[r] = "inactive", word'[r] # word[r]
               PROVE  phase'[r] = "posting"
    OBVIOUS
  <2> USE DEF threadVars, appVars
  <2>0. /\ phase \in [Requests -> {"inactive", "posting", "active", "busy"}]
        /\ word \in [Requests -> Slots \cup {INVALID_INDEX}]
    BY <1>1 DEF IInv, TypeOK
  <2>1. ASSUME NEW t \in Threads, CallsLibrary(t)
        PROVE  phase'[r] = "posting"
    BY <2>0, <2>1 DEF CallsLibrary, Post, Wait, Test, Stop
  <2>2. ASSUME NEW t \in Threads, InLibrary(t)
        PROVE  UNCHANGED word
    BY <2>2 DEF InLibrary, Enqueue, WaitWord, WaitDone, WaitCopy, WaitClear, WaitRelease,
                TestFalse, TestFlag, TestTrue, Join
  <2>3. ASSUME OffloadStep, ~Publish
        PROVE  UNCHANGED word
    BY <2>3 DEF OffloadStep, Loop, Dequeue, DequeueNone, Acquire, AcquireNone,
                Reset, Call, CallBlocking, CallReturn, CallFails,
                TestRequestPending, TestRequestComplete, TestRequestMark,
                ScanEnd, ScanSkip, ScanComplete, ScanMark, ScanErase
  <2>4. ~Publish
    <3>1. ASSUME Publish
          PROVE  command.request = r
      BY <2>0, <3>1 DEF Publish
    <3>2. ASSUME Publish
          PROVE  phase[command.request] \in {"active", "busy"}
      BY <1>1, <3>2, CommandInHand DEF IsCurrent, Publish, Hand
    <3> QED
      BY <3>1, <3>2
  <2>5. ASSUME (\E op \in Ops : Complete(op)) \/ Terminated
        PROVE  UNCHANGED word
    BY <2>5 DEF Complete, Terminated, vars
  <2> QED
    BY <1>1, <2>1, <2>2, <2>3, <2>4, <2>5 DEF Next
<1>2. IInv /\ [Next]_vars => [Timely]_vars
  BY <1>1
<1> QED
  BY <1>2, Invariance, PTL DEF Spec, NoLateWrite

-----------------------------------------------------------------------------
(***************************************************************************)
(* The pool without MPI_Test                                               *)
(***************************************************************************)
NoTest == \A t \in Threads : pc[t] \notin {"flag", "take"}

PoolFull == NoTest /\ NoSlotLost

\* Who holds a slot still holds it after a step that leaves these alone.
LEMMA HoldsOn ==
  ASSUME UNCHANGED <<phase, word, free>>,
         opc \in {"reset", "publish"} => opc' \in {"reset", "publish"} /\ UNCHANGED <<command, slot>>,
         NoSlotLost
  PROVE  NoSlotLost'
  BY DEF NoSlotLost, Holds, Live

\* An application that does not call MPI_Test is never in the middle of test.
LEMMA NoTestStep ==
  ASSUME ~UseTest, IInv, NoTest, Next
  PROVE  NoTest'
<1> USE DEF NoTest, threadVars
<1>0. pc \in [Threads -> {"idle", "enqueue", "word", "done", "copy", "clear",
                          "release", "flag", "take", "join", "finalized"}]
  BY DEF IInv, TypeOK
<1>1. ASSUME NEW t \in Threads, CallsLibrary(t)
      PROVE  NoTest'
  BY <1>0, <1>1 DEF CallsLibrary, Post, Wait, Test, Stop
<1>2. ASSUME NEW t \in Threads, InLibrary(t)
      PROVE  NoTest'
  BY <1>0, <1>2 DEF InLibrary, Enqueue, WaitWord, WaitDone, WaitCopy, WaitClear,
                    WaitRelease, TestFalse, TestFlag, TestTrue, Join, ReturnToApp
<1>3. ASSUME OffloadStep
      PROVE  UNCHANGED pc
  BY <1>3 DEF OffloadStep, AppUnchanged, Loop, Dequeue, DequeueNone, Acquire, AcquireNone,
              Reset, Publish, Call, CallBlocking, CallReturn, CallFails,
              TestRequestPending, TestRequestComplete, TestRequestMark,
              ScanEnd, ScanSkip, ScanComplete, ScanMark, ScanErase
<1>4. ASSUME (\E op \in Ops : Complete(op)) \/ Terminated
      PROVE  UNCHANGED pc
  BY <1>4 DEF Complete, Terminated, vars
<1> QED
  BY <1>1, <1>2, <1>3, <1>4 DEF Next

\* Only test leaves a slot behind.
LEMMA PoolFullStep ==
  ASSUME ~UseTest, IInv, PoolFull, Next
  PROVE  PoolFull'
<1> USE DEF threadVars, appVars, poolVars, offVars, mpiVars
<1>0. /\ phase \in [Requests -> {"inactive", "posting", "active", "busy"}]
      /\ word \in [Requests -> Slots \cup {INVALID_INDEX}]
      /\ NoSlotLost /\ NoTest
  BY DEF IInv, TypeOK, PoolFull
<1>1. ASSUME NEW t \in Threads, CallsLibrary(t)
      PROVE  NoSlotLost'
  <2>1. ASSUME NEW r \in Requests, Post(t, r) \/ Wait(t, r) \/ Test(t, r)
        PROVE  NoSlotLost'
    <3>1. phase'[r] # "inactive" /\ (Live(r) => word'[r] = word[r])
      BY <1>0, <2>1 DEF Post, Wait, Test, Live
    <3>2. \A q \in Requests : q # r => phase'[q] = phase[q] /\ word'[q] = word[q]
      BY <1>0, <2>1 DEF Post, Wait, Test
    <3>3. UNCHANGED <<free, opc, command, slot>>
      BY <2>1 DEF Post, Wait, Test
    <3> QED
      BY <1>0, <3>1, <3>2, <3>3 DEF NoSlotLost, Holds, Live
  <2>2. CASE Stop(t)
    BY <1>0, <2>2, HoldsOn DEF Stop
  <2> QED
    BY <1>1, <2>1, <2>2 DEF CallsLibrary
<1>2. ASSUME NEW t \in Threads, InLibrary(t)
      PROVE  NoSlotLost'
  <2>1. CASE Enqueue(t)
    <3>1. req[t] \in Requests /\ phase[req[t]] # "inactive"
      BY <2>1 DEF IInv, ThreadInv, ThreadOK, InCall, Enqueue
    <3>2. \A q \in Requests : phase[q] # "inactive" => phase'[q] # "inactive"
      BY <1>0, <2>1, <3>1 DEF Enqueue
    <3>3. UNCHANGED <<word, free, opc, command, slot>>
      BY <2>1 DEF Enqueue
    <3> QED
      BY <1>0, <3>2, <3>3 DEF NoSlotLost, Holds, Live
  <2>2. CASE WaitRelease(t)
    <3>1. idx[t] = word[req[t]]
      BY <2>2, IndexFacts DEF WaitRelease, HasIndex
    <3>2. free' = free \cup {idx[t]} /\ UNCHANGED <<word, opc, command, slot>>
      BY <2>2 DEF WaitRelease, Pool!Release
    <3>3. \A q \in Requests : q # req[t] => phase'[q] = phase[q]
      BY <1>0, <2>2 DEF WaitRelease, Inactive
    <3> QED
      BY <1>0, <3>1, <3>2, <3>3 DEF NoSlotLost, Holds, Live
  <2>3. CASE WaitWord(t) \/ WaitDone(t) \/ WaitCopy(t) \/ WaitClear(t) \/ Join(t)
    BY <1>0, <2>3, HoldsOn DEF WaitWord, WaitDone, WaitCopy, WaitClear, Join
  <2>4. ~TestFalse(t) /\ ~TestFlag(t) /\ ~TestTrue(t)
    BY <1>0 DEF NoTest, TestFalse, TestFlag, TestTrue
  <2> QED
    BY <1>2, <2>1, <2>2, <2>3, <2>4 DEF InLibrary
<1>3. ASSUME OffloadStep
      PROVE  NoSlotLost'
  <2>1. UNCHANGED phase
    BY <1>3 DEF OffloadStep, AppUnchanged, Loop, Dequeue, DequeueNone, Acquire, AcquireNone,
                Reset, Publish, Call, CallBlocking, CallReturn, CallFails,
                TestRequestPending, TestRequestComplete, TestRequestMark,
                ScanEnd, ScanSkip, ScanComplete, ScanMark, ScanErase
  <2>2. CASE Loop \/ Dequeue \/ DequeueNone \/ AcquireNone \/ Reset
    BY <1>0, <2>1, <2>2, HoldsOn DEF Loop, Dequeue, DequeueNone, AcquireNone, Reset,
                                     Pool!AcquireNone
  <2>3. CASE Call \/ CallBlocking \/ CallReturn \/ CallFails
    BY <1>0, <2>1, <2>3, HoldsOn DEF Call, CallBlocking, CallReturn, CallFails
  <2>4. CASE \/ TestRequestPending \/ TestRequestComplete \/ TestRequestMark
             \/ ScanEnd \/ ScanSkip \/ ScanComplete \/ ScanMark \/ ScanErase
    BY <1>0, <2>1, <2>4, HoldsOn DEF TestRequestPending, TestRequestComplete,
          TestRequestMark, ScanEnd, ScanSkip, ScanComplete, ScanMark, ScanErase
  <2>5. CASE Acquire
    <3>1. command.request \in Requests
      BY <2>5, CommandInHand DEF Acquire, Hand
    <3>2. PICK s \in Slots : free' = free \ {s} /\ slot' = s
      BY <2>5 DEF Acquire, Pool!Acquire
    <3>3. opc = "acquire" /\ opc' = "reset" /\ UNCHANGED <<word, command>>
      BY <2>5 DEF Acquire
    <3> QED
      BY <1>0, <2>1, <3>1, <3>2, <3>3 DEF NoSlotLost, Holds, Live
  <2>6. CASE Publish
    <3>1. /\ command.request \in Requests /\ phase[command.request] # "inactive"
          /\ slot \in Usable /\ word[command.request] = INVALID_INDEX
      BY <2>6, CommandInHand, SlotInHand DEF Publish, Hand, HasSlot, IsCurrent, IInv, HandInv
    <3>2. /\ word' = [word EXCEPT ![command.request] = slot]
          /\ UNCHANGED <<free, command, slot>>
      BY <2>6 DEF Publish
    <3> QED
      BY <1>0, <2>1, <3>1, <3>2, SlotFacts DEF NoSlotLost, Holds, Live
  <2> QED
    BY <1>3, <2>2, <2>3, <2>4, <2>5, <2>6 DEF OffloadStep
<1>4. ASSUME (\E op \in Ops : Complete(op)) \/ Terminated
      PROVE  NoSlotLost'
  BY <1>0, <1>4, HoldsOn DEF Complete, Terminated, vars
<1>5. NoTest'
  BY <1>0, NoTestStep
<1> QED
  BY <1>1, <1>2, <1>3, <1>4, <1>5 DEF Next, PoolFull

\* Without MPI_Test every slot is in the pool or works for a request.
THEOREM WaitLosesNoSlot ==
  ASSUME ~UseTest
  PROVE  Spec => []NoSlotLost
<1>1. Init => PoolFull
  BY DEF Init, PoolFull, NoTest, NoSlotLost, Pool!Init, Pool!Usable, Usable
<1>2. IInv /\ PoolFull /\ [Next]_vars => PoolFull'
  <2>1. ASSUME PoolFull, UNCHANGED vars
        PROVE  PoolFull'
    BY <2>1 DEF PoolFull, NoTest, NoSlotLost, Holds, Live, vars, threadVars, appVars,
                poolVars, offVars
  <2> QED
    BY <2>1, PoolFullStep
<1>3. PoolFull => NoSlotLost
  BY DEF PoolFull
<1> QED
  BY <1>1, <1>2, <1>3, Invariance, PTL DEF Spec

\* A pool of PoolSize slots suffices for PoolSize - 1 request variables: slot 0
\* is never used, and the command in hand has no slot yet.
THEOREM PoolSuffices ==
  ASSUME ~UseTest, IsFiniteSet(Requests), Cardinality(Requests) < PoolSize
  PROVE  Spec => []NeverExhausted
<1>1. ASSUME IInv, NoSlotLost, AcquireNone
      PROVE  FALSE
  <2> DEFINE Others == Requests \ {command.request}
             f == [s \in Usable |-> CHOOSE r \in Requests : Holds(r, s)]
  <2>1. opc = "acquire" /\ free = {}
    BY <1>1 DEF AcquireNone, Pool!AcquireNone
  <2>2. command.request \in Requests /\ word[command.request] = INVALID_INDEX
    BY <1>1, <2>1, CommandInHand DEF IInv, HandInv, Hand
  <2>3. ASSUME NEW s \in Usable
        PROVE  f[s] \in Others /\ word[f[s]] = s
    <3>1. \E r \in Requests : Holds(r, s)
      BY <1>1, <2>1 DEF NoSlotLost
    <3>2. f[s] \in Requests /\ Holds(f[s], s)
      BY <3>1
    <3> HIDE DEF f
    <3>3. word[f[s]] = s
      BY <2>1, <3>2 DEF Holds
    <3> QED
      BY <2>2, <3>2, <3>3, SlotFacts
  <2>4. f \in Injection(Usable, Others)
    <3>1. f \in [Usable -> Others]
      BY <2>3
    <3>2. \A s1, s2 \in Usable : f[s1] = f[s2] => s1 = s2
      BY <2>3
    <3> HIDE DEF f
    <3> QED
      BY <3>1, <3>2 DEF Injection, IsInjective
  <2>5. IsFiniteSet(Others) /\ Cardinality(Others) = Cardinality(Requests) - 1
    BY <2>2, FS_RemoveElement
  <2>6. Cardinality(Usable) <= Cardinality(Others)
    <3> HIDE DEF f, Others
    <3> QED
      BY <2>4, <2>5, FS_Injection
  <2>7. Cardinality(Usable) = PoolSize - 1
    BY ConstantsAssumption, FS_Interval DEF Usable
  <2>8. Cardinality(Requests) \in Nat
    BY FS_CardinalityType
  <2> QED
    BY <2>5, <2>6, <2>7, <2>8, ConstantsAssumption
<1>2. Init => NeverExhausted
  BY DEF Init, NeverExhausted
<1>3. IInv /\ NoSlotLost /\ NeverExhausted /\ [Next]_vars => NeverExhausted'
  <2> SUFFICES ASSUME IInv, NoSlotLost, NeverExhausted, [Next]_vars
               PROVE  opc' # "crashed"
    BY DEF NeverExhausted
  <2> USE DEF offVars
  <2>1. opc # "crashed"
    BY DEF NeverExhausted
  <2>2. ASSUME NEW t \in Threads, CallsLibrary(t) \/ InLibrary(t)
        PROVE  UNCHANGED opc
    BY <2>2 DEF CallsLibrary, Post, Wait, Test, Stop, InLibrary, Enqueue, WaitWord,
                WaitDone, WaitCopy, WaitClear, WaitRelease, TestFalse, TestFlag,
                TestTrue, Join
  <2>3. ASSUME OffloadStep
        PROVE  opc' # "crashed"
    <3>1. ~AcquireNone
      BY <1>1
    <3> QED
      BY <2>1, <2>3, <3>1 DEF OffloadStep, Loop, Dequeue, DequeueNone, Acquire,
            Reset, Publish, Call, CallBlocking, CallReturn, CallFails,
            TestRequestPending, TestRequestComplete, TestRequestMark,
            ScanEnd, ScanSkip, ScanComplete, ScanMark, ScanErase
  <2>4. ASSUME (\E op \in Ops : Complete(op)) \/ Terminated \/ UNCHANGED vars
        PROVE  UNCHANGED opc
    BY <2>4 DEF Complete, Terminated, vars
  <2> QED
    BY <2>1, <2>2, <2>3, <2>4 DEF Next
<1> QED
  BY <1>2, <1>3, Invariance, WaitLosesNoSlot, PTL DEF Spec

\* Who accounts for a slot still does after a step that leaves these alone and
\* clears no flag.
LEMMA AccountedOn ==
  ASSUME UNCHANGED <<phase, word, free>>,
         opc \in {"reset", "publish"} => opc' \in {"reset", "publish"} /\ UNCHANGED <<command, slot>>,
         \A s \in Usable : done[s] => done'[s],
         SlotAccounting
  PROVE  SlotAccounting'
  BY DEF SlotAccounting, Holds, Live

\* Every step accounts for every slot, MPI_Test and failed calls included.
LEMMA AccountingStep ==
  ASSUME IInv, SlotAccounting, Next
  PROVE  SlotAccounting'
<1> USE DEF threadVars, appVars, poolVars, offVars, mpiVars
<1>0. /\ phase \in [Requests -> {"inactive", "posting", "active", "busy"}]
      /\ word \in [Requests -> Slots \cup {INVALID_INDEX}]
      /\ done \in [Slots -> BOOLEAN] /\ Usable \subseteq Slots
  BY SlotFacts DEF IInv, TypeOK
<1>1. ASSUME NEW t \in Threads, CallsLibrary(t)
      PROVE  SlotAccounting'
  <2>1. ASSUME NEW r \in Requests, Post(t, r) \/ Wait(t, r) \/ Test(t, r)
        PROVE  SlotAccounting'
    <3>1. phase'[r] # "inactive" /\ (Live(r) => word'[r] = word[r])
      BY <1>0, <2>1 DEF Post, Wait, Test, Live
    <3>2. \A q \in Requests : q # r => phase'[q] = phase[q] /\ word'[q] = word[q]
      BY <1>0, <2>1 DEF Post, Wait, Test
    <3>3. UNCHANGED <<free, done, opc, command, slot>>
      BY <2>1 DEF Post, Wait, Test
    <3> QED
      BY <1>0, <3>1, <3>2, <3>3 DEF SlotAccounting, Holds, Live
  <2>2. CASE Stop(t)
    BY <1>0, <2>2, AccountedOn DEF Stop
  <2> QED
    BY <1>1, <2>1, <2>2 DEF CallsLibrary
<1>2. ASSUME NEW t \in Threads, InLibrary(t)
      PROVE  SlotAccounting'
  <2>1. CASE Enqueue(t) \/ TestFalse(t)
    <3>1. req[t] \in Requests
      BY <2>1, IndexFacts DEF IInv, ThreadInv, ThreadOK, InCall, HasIndex, Enqueue, TestFalse
    <3>2. \A q \in Requests : phase[q] # "inactive" => phase'[q] # "inactive"
      BY <1>0, <2>1, <3>1 DEF Enqueue, TestFalse
    <3>3. UNCHANGED <<word, free, done, opc, command, slot>>
      BY <2>1 DEF Enqueue, TestFalse
    <3> QED
      BY <1>0, <3>2, <3>3 DEF SlotAccounting, Holds, Live
  <2>2. CASE WaitRelease(t)
    <3>1. idx[t] = word[req[t]]
      BY <2>2, IndexFacts DEF WaitRelease, HasIndex
    <3>2. free' = free \cup {idx[t]} /\ UNCHANGED <<word, done, opc, command, slot>>
      BY <2>2 DEF WaitRelease, Pool!Release
    <3>3. \A q \in Requests : q # req[t] => phase'[q] = phase[q]
      BY <1>0, <2>2 DEF WaitRelease, Inactive
    <3> QED
      BY <1>0, <3>1, <3>2, <3>3 DEF SlotAccounting, Holds, Live
  <2>3. CASE TestTrue(t)
    <3>1. idx[t] = word[req[t]] /\ done[idx[t]]
      BY <2>3, IndexFacts DEF TestTrue, HasIndex, IInv, ThreadInv, ThreadOK
    <3>2. UNCHANGED <<free, word, done, opc, command, slot>>
      BY <2>3 DEF TestTrue
    <3>3. \A q \in Requests : q # req[t] => phase'[q] = phase[q]
      BY <1>0, <2>3 DEF TestTrue, Inactive
    <3> QED
      BY <1>0, <3>1, <3>2, <3>3 DEF SlotAccounting, Holds, Live
  <2>4. CASE WaitClear(t)
    <3>1. req[t] \in Requests /\ idx[t] = word[req[t]] /\ Live(req[t])
      BY <2>4, IndexFacts DEF WaitClear, HasIndex, Live
    <3>2. /\ \A s \in Usable : s # idx[t] => done'[s] = done[s]
          /\ UNCHANGED <<free, phase, word, opc, command, slot>>
      BY <1>0, <2>4 DEF WaitClear
    <3> QED
      BY <1>0, <3>1, <3>2 DEF SlotAccounting, Holds, Live
  <2>5. CASE WaitWord(t) \/ WaitDone(t) \/ WaitCopy(t) \/ TestFlag(t) \/ Join(t)
    BY <1>0, <2>5, AccountedOn DEF WaitWord, WaitDone, WaitCopy, TestFlag, Join
  <2> QED
    BY <1>2, <2>1, <2>2, <2>3, <2>4, <2>5 DEF InLibrary
<1>3. ASSUME OffloadStep
      PROVE  SlotAccounting'
  <2>1. UNCHANGED phase
    BY <1>3 DEF OffloadStep, AppUnchanged, Loop, Dequeue, DequeueNone, Acquire, AcquireNone,
                Reset, Publish, Call, CallBlocking, CallReturn, CallFails,
                TestRequestPending, TestRequestComplete, TestRequestMark,
                ScanEnd, ScanSkip, ScanComplete, ScanMark, ScanErase
  <2>2. CASE Loop \/ Dequeue \/ DequeueNone \/ AcquireNone
    BY <1>0, <2>1, <2>2, AccountedOn DEF Loop, Dequeue, DequeueNone, AcquireNone, Pool!AcquireNone
  <2>3. CASE Call \/ CallBlocking \/ CallReturn \/ CallFails
    BY <1>0, <2>1, <2>3, AccountedOn DEF Call, CallBlocking, CallReturn, CallFails
  <2>4. CASE \/ TestRequestPending \/ TestRequestComplete
             \/ ScanEnd \/ ScanSkip \/ ScanComplete \/ ScanErase
    BY <1>0, <2>1, <2>4, AccountedOn DEF TestRequestPending, TestRequestComplete,
          ScanEnd, ScanSkip, ScanComplete, ScanErase
  <2>5. CASE TestRequestMark \/ ScanMark
    <3>1. \A s \in Usable : done[s] => done'[s]
      BY <1>0, <2>5 DEF TestRequestMark, ScanMark
    <3> QED
      BY <1>0, <2>1, <2>5, <3>1, AccountedOn DEF TestRequestMark, ScanMark
  <2>6. CASE Acquire
    <3>1. command.request \in Requests
      BY <2>6, CommandInHand DEF Acquire, Hand
    <3>2. PICK s \in Slots : free' = free \ {s} /\ slot' = s
      BY <2>6 DEF Acquire, Pool!Acquire
    <3>3. opc = "acquire" /\ opc' = "reset" /\ UNCHANGED <<word, command, done>>
      BY <2>6 DEF Acquire
    <3> QED
      BY <1>0, <2>1, <3>1, <3>2, <3>3 DEF SlotAccounting, Holds, Live
  <2>7. CASE Reset
    <3>1. command.request \in Requests
      BY <2>7, CommandInHand DEF Reset, Hand
    <3>2. /\ opc' = "publish" /\ UNCHANGED <<word, command, slot, free>>
          /\ \A s \in Usable : s # slot => done'[s] = done[s]
      BY <1>0, <2>7 DEF Reset
    <3> QED
      BY <1>0, <2>1, <2>7, <3>1, <3>2 DEF SlotAccounting, Holds, Live, Reset
  <2>8. CASE Publish
    <3>1. /\ command.request \in Requests /\ phase[command.request] # "inactive"
          /\ slot \in Usable /\ word[command.request] = INVALID_INDEX
      BY <2>8, CommandInHand, SlotInHand DEF Publish, Hand, HasSlot, IsCurrent, IInv, HandInv
    <3>2. /\ word' = [word EXCEPT ![command.request] = slot]
          /\ UNCHANGED <<free, command, slot, done>>
      BY <2>8 DEF Publish
    <3> QED
      BY <1>0, <2>1, <3>1, <3>2, SlotFacts DEF SlotAccounting, Holds, Live
  <2> QED
    BY <1>3, <2>2, <2>3, <2>4, <2>5, <2>6, <2>7, <2>8 DEF OffloadStep
<1>4. ASSUME (\E op \in Ops : Complete(op)) \/ Terminated
      PROVE  SlotAccounting'
  BY <1>0, <1>4, AccountedOn DEF Complete, Terminated, vars
<1> QED
  BY <1>1, <1>2, <1>3, <1>4 DEF Next

\* With MPI_Test and failed calls too, a slot outside the pool works for a
\* request or belongs to a completion that MPI_Test has reported: wait, test
\* and acquire lose nothing else.
THEOREM SlotsAreAccountedFor == Spec => []SlotAccounting
<1>1. Init => SlotAccounting
  BY DEF Init, SlotAccounting, Pool!Init, Pool!Usable, Usable
<1>2. IInv /\ SlotAccounting /\ [Next]_vars => SlotAccounting'
  <2>1. ASSUME SlotAccounting, UNCHANGED vars
        PROVE  SlotAccounting'
    BY <2>1 DEF SlotAccounting, Holds, Live, vars, threadVars, appVars, poolVars, offVars
  <2> QED
    BY <2>1, AccountingStep
<1> QED
  BY <1>1, <1>2, Invariance, PTL DEF Spec

-----------------------------------------------------------------------------
(* The refinement of ThreadMultiple. *)

\* The command in hand whose call has not been made.
HasHand == command # nullptr /\ opc # "blocked"

Names(q) == [i \in 1 .. Len(q) |-> q[i].request]

\* NotCalled by cases: with a hand, and without.
LEMMA NotCalledCases ==
  ASSUME NEW q \in Seq(Commands)
  PROVE  /\ Names(q) \in Seq(Requests)
         /\ [i \in 1 .. Len(<< >> \o q) |-> (<< >> \o q)[i].request] = Names(q)
         /\ \A c \in Commands :
               [i \in 1 .. Len(<<c>> \o q) |-> (<<c>> \o q)[i].request]
                  = <<c.request>> \o Names(q)
<1>1. Len(q) \in Nat /\ << >> \o q = q
  OBVIOUS
<1>2. Names(q) \in Seq(Requests)
  BY <1>1, CommandFacts DEF Names
<1>3. [i \in 1 .. Len(<< >> \o q) |-> (<< >> \o q)[i].request] = Names(q)
  BY <1>1 DEF Names
<1>4. ASSUME NEW c \in Commands
      PROVE  [i \in 1 .. Len(<<c>> \o q) |-> (<<c>> \o q)[i].request] = <<c.request>> \o Names(q)
  <2>1. c.request \in Requests
    BY CommandFacts
  <2> DEFINE both == <<c>> \o q
             names == <<c.request>> \o Names(q)
             list == [i \in 1 .. Len(both) |-> both[i].request]
  <2>2. /\ both \in Seq(Commands)
        /\ Len(both) = 1 + Len(q)
        /\ \A i \in 1 .. 1 + Len(q) : both[i] = IF i <= 1 THEN c ELSE q[i - 1]
    BY <1>1
  <2>3. /\ names \in Seq(Requests)
        /\ Len(names) = 1 + Len(q)
        /\ \A i \in 1 .. 1 + Len(q) :
              names[i] = IF i <= 1 THEN c.request ELSE q[i - 1].request
    BY <1>1, <1>2, <2>1 DEF Names
  <2> HIDE DEF both, names
  <2>4. list \in Seq(Requests) /\ Len(list) = Len(names)
    BY <1>1, <2>1, <2>2, <2>3, CommandFacts
  <2>5. \A i \in 1 .. Len(names) : list[i] = names[i]
    BY <1>1, <2>2, <2>3
  <2> HIDE DEF list
  <2>6. list = names
    BY <2>3, <2>4, <2>5, SeqEqual, Zenon
  <2> QED
    BY <2>6 DEF names, both, list
<1> QED
  BY <1>2, <1>3, <1>4

\* A hand and a queue, in this state and in the next.
LEMMA NotCalledNow ==
  ASSUME TypeOK
  PROVE  /\ Names(queue) \in Seq(Requests)
         /\ ~HasHand => NotCalled = Names(queue)
         /\ HasHand => /\ command \in Commands
                       /\ NotCalled = <<command.request>> \o Names(queue)
<1>1. queue \in Seq(Commands) /\ (HasHand => command \in Commands)
  BY DEF TypeOK, HasHand
<1> QED
  BY <1>1, NotCalledCases DEF NotCalled, HasHand

\* The same in the next state.
LEMMA NotCalledNext ==
  ASSUME TypeOK'
  PROVE  /\ ~HasHand' => NotCalled' = Names(queue')
         /\ HasHand' => /\ command' \in Commands
                        /\ NotCalled' = <<command'.request>> \o Names(queue')
<1>1. queue' \in Seq(Commands) /\ (HasHand' => command' \in Commands)
  BY DEF TypeOK, HasHand
<1> QED
  BY <1>1, NotCalledCases DEF NotCalled, HasHand

\* A step that leaves the queue and the hand alone.
LEMMA NotCalledOn ==
  ASSUME UNCHANGED <<queue, command>>, opc = "blocked" <=> opc' = "blocked"
  PROVE  NotCalled' = NotCalled
BY DEF NotCalled

\* The head and the tail of a list are what it was put together from.
LEMMA HeadAndTail ==
  ASSUME NEW S, NEW a \in S, NEW s \in Seq(S)
  PROVE  /\ <<a>> \o s # << >> /\ Head(<<a>> \o s) = a /\ Tail(<<a>> \o s) = s
         /\ <<a>> \o s \in Seq(S)
<1>1. /\ <<a>> \o s \in Seq(S) /\ Len(<<a>> \o s) = 1 + Len(s)
      /\ \A i \in 1 .. 1 + Len(s) : (<<a>> \o s)[i] = IF i <= 1 THEN a ELSE s[i - 1]
  OBVIOUS
<1> DEFINE b == <<a>> \o s
<1>2. /\ b \in Seq(S) /\ Len(b) = 1 + Len(s) /\ Len(s) \in Nat
      /\ \A i \in 1 .. 1 + Len(s) : b[i] = IF i <= 1 THEN a ELSE s[i - 1]
  BY <1>1
<1> HIDE DEF b
<1>3. b # << >> /\ Head(b) = a
  BY <1>2
<1>4. Tail(b) \in Seq(S) /\ Len(Tail(b)) = Len(s) /\ \A i \in 1 .. Len(s) : Tail(b)[i] = s[i]
  BY <1>2, <1>3
<1>5. Tail(b) = s
  BY <1>2, <1>4
<1> QED
  BY <1>2, <1>3, <1>5 DEF b

\* An element at the end of a list is at the end of any list that ends with it.
LEMMA AppendBehind ==
  ASSUME NEW S, NEW a \in S, NEW s \in Seq(S), NEW b \in S
  PROVE  <<a>> \o Append(s, b) = Append(<<a>> \o s, b)
<1>1. /\ <<a>> \in Seq(S) /\ <<b>> \in Seq(S) /\ Append(s, b) = s \o <<b>>
      /\ <<a>> \o s \in Seq(S)
  OBVIOUS
<1>2. (<<a>> \o s) \o <<b>> = Append(<<a>> \o s, b)
  BY <1>1
<1> QED
  BY <1>1, <1>2

\* The requests of a longer queue.
LEMMA NamesAppend ==
  ASSUME NEW q \in Seq(Commands), NEW c \in Commands
  PROVE  Names(Append(q, c)) = Append(Names(q), c.request)
<1>1. /\ Append(q, c) \in Seq(Commands) /\ Len(Append(q, c)) = Len(q) + 1 /\ Len(q) \in Nat
      /\ \A i \in 1 .. Len(q) + 1 : Append(q, c)[i] = IF i <= Len(q) THEN q[i] ELSE c
  OBVIOUS
<1>2. Names(q) \in Seq(Requests) /\ Len(Names(q)) = Len(q) /\ c.request \in Requests
  BY <1>1, CommandFacts DEF Names
<1>3. Names(Append(q, c)) \in Seq(Requests) /\ Len(Names(Append(q, c))) = Len(q) + 1
  BY <1>1, CommandFacts DEF Names
<1>4. Append(Names(q), c.request) \in Seq(Requests) /\ Len(Append(Names(q), c.request)) = Len(q) + 1
  BY <1>2
<1>5. ASSUME NEW i \in 1 .. Len(q) + 1
      PROVE  Names(Append(q, c))[i] = Append(Names(q), c.request)[i]
  BY <1>1, <1>2 DEF Names
<1> QED
  BY <1>1, <1>3, <1>4, <1>5

\* The requests of a queue without its head.
LEMMA NamesTail ==
  ASSUME NEW q \in Seq(Commands), q # << >>
  PROVE  Names(q) = <<Head(q).request>> \o Names(Tail(q))
<1>1. /\ Tail(q) \in Seq(Commands) /\ Len(Tail(q)) = Len(q) - 1 /\ Len(q) \in Nat \ {0}
      /\ Head(q) = q[1] /\ Head(q) \in Commands
      /\ \A i \in 1 .. Len(q) - 1 : Tail(q)[i] = q[i + 1]
  OBVIOUS
<1> DEFINE a == <<Head(q).request>>
           s == Names(Tail(q))
<1>2. Names(q) \in Seq(Requests) /\ Len(Names(q)) = Len(q)
  BY <1>1, CommandFacts DEF Names
<1>3. /\ a \in Seq(Requests) /\ Len(a) = 1 /\ a[1] = q[1].request
      /\ s \in Seq(Requests) /\ Len(s) = Len(q) - 1
      /\ \A i \in 1 .. Len(q) - 1 : s[i] = q[i + 1].request
  BY <1>1, CommandFacts DEF Names
<1> HIDE DEF a, s
<1>4. /\ a \o s \in Seq(Requests) /\ Len(a \o s) = Len(q)
      /\ \A i \in 1 .. Len(q) : (a \o s)[i] = IF i <= 1 THEN a[i] ELSE s[i - 1]
  <2>1. /\ a \o s \in Seq(Requests) /\ Len(a \o s) = Len(a) + Len(s)
        /\ \A i \in 1 .. Len(a) + Len(s) :
              (a \o s)[i] = IF i <= Len(a) THEN a[i] ELSE s[i - Len(a)]
    BY <1>3, ConcatProperties, Zenon
  <2>2. Len(a) + Len(s) = Len(q)
    BY <1>1, <1>3
  <2> QED
    BY <1>3, <2>1, <2>2
<1>5. ASSUME NEW i \in 1 .. Len(q)
      PROVE  Names(q)[i] = (a \o s)[i]
  <2>1. Names(q)[i] = q[i].request
    BY DEF Names
  <2>2. CASE i = 1
    BY <1>1, <1>3, <1>4, <2>1, <2>2
  <2>3. CASE i # 1
    <3>1. i - 1 \in 1 .. Len(q) - 1 /\ q[(i - 1) + 1] = q[i]
      BY <1>1, <2>3
    <3> QED
      BY <1>1, <1>3, <1>4, <2>1, <2>3, <3>1
  <2> QED
    BY <2>2, <2>3
<1>6. Names(q) = a \o s
  BY <1>2, <1>4, <1>5, SeqEqual, Zenon
<1> QED
  BY <1>6 DEF a, s

\* enqueue puts the request at the end.
LEMMA NotCalledEnqueue ==
  ASSUME IInv, IInv', NEW t \in Threads, Enqueue(t)
  PROVE  NotCalled' = Append(NotCalled, req[t]) /\ req[t] \in Requests
<1> DEFINE r == req[t]
           c == [request |-> r, post |-> posts[r], null_request |-> r \in NullRequests]
<1>0. TypeOK /\ TypeOK' /\ queue \in Seq(Commands)
  BY DEF IInv, TypeOK
<1>1. r \in Requests /\ phase[r] = "posting"
  BY DEF IInv, ThreadInv, ThreadOK, InCall, Enqueue
<1>2. posts[r] \in 1 .. MaxPosts
  BY <1>1 DEF IInv, RequestInv, RequestOK, Live
<1>3. c \in Commands /\ c.request = r
  <2>1. (r \in NullRequests) \in BOOLEAN
    OBVIOUS
  <2> QED
    BY <1>1, <1>2, <2>1, CommandType
<1>4. queue' = Append(queue, c) /\ UNCHANGED <<command, opc>>
  BY DEF Enqueue, Queue!Enqueue, offVars
<1> HIDE DEF c, r
<1>5. Names(queue') = Append(Names(queue), r)
  BY <1>0, <1>3, <1>4, NamesAppend
<1>6. HasHand' <=> HasHand
  BY <1>4 DEF HasHand
<1>7. NotCalled' = Append(NotCalled, r)
  <2>1. CASE HasHand
    <3>1. /\ command.request \in Requests /\ Names(queue) \in Seq(Requests)
          /\ NotCalled = <<command.request>> \o Names(queue)
      BY <1>0, <2>1, NotCalledNow, CommandFacts
    <3>2. NotCalled' = <<command.request>> \o Names(queue')
      BY <1>0, <1>4, <1>6, <2>1, NotCalledNext
    <3> QED
      BY <1>1, <1>5, <3>1, <3>2, AppendBehind DEF r
  <2>2. CASE ~HasHand
    BY <1>0, <1>5, <1>6, <2>2, NotCalledNow, NotCalledNext
  <2> QED
    BY <2>1, <2>2
<1> QED
  BY <1>1, <1>7 DEF r

\* dequeue moves the head to the hand: the list stays.
LEMMA NotCalledDequeue ==
  ASSUME IInv, IInv', Dequeue
  PROVE  NotCalled' = NotCalled
<1>0. TypeOK /\ TypeOK' /\ queue \in Seq(Commands)
  BY DEF IInv, TypeOK
<1>1. command = nullptr
  BY DEF IInv, HandInv, Hand, Dequeue
<1>2. queue # << >> /\ command' = Head(queue) /\ queue' = Tail(queue) /\ opc' = "acquire"
  BY DEF Dequeue, Queue!Dequeue
<1>3. command' \in Commands
  BY <1>0, <1>2
<1>4. ~HasHand /\ HasHand'
  BY <1>1, <1>2, <1>3, DistinctAssumption DEF HasHand
<1> QED
  BY <1>0, <1>2, <1>4, NotCalledNow, NotCalledNext, NamesTail

\* A call takes the hand off the head of the list.
LEMMA NotCalledCall ==
  ASSUME IInv, IInv', Call \/ CallBlocking \/ CallFails
  PROVE  /\ NotCalled # << >> /\ Head(NotCalled) = command.request
         /\ NotCalled' = Tail(NotCalled)
<1>0. TypeOK /\ TypeOK'
  BY DEF IInv
<1>1. opc = "call" /\ command \in Commands
  BY CommandInHand DEF Call, CallBlocking, CallFails, Hand
<1>2. HasHand /\ ~HasHand'
  BY <1>1, DistinctAssumption DEF HasHand, Call, CallBlocking, CallFails
<1>3. /\ NotCalled = <<command.request>> \o Names(queue)
      /\ command.request \in Requests /\ Names(queue) \in Seq(Requests)
  BY <1>0, <1>2, NotCalledNow, CommandFacts
<1>4. NotCalled' = Names(queue)
  <2>1. NotCalled' = Names(queue') /\ queue' = queue
    BY <1>0, <1>2, NotCalledNext DEF Call, CallBlocking, CallFails
  <2> QED
    BY <2>1
<1> QED
  BY <1>3, <1>4, HeadAndTail

\* No other step of the offload thread changes the list.
LEMMA NotCalledOffload ==
  ASSUME IInv, IInv', OffloadStep, ~Call, ~CallBlocking, ~CallFails
  PROVE  NotCalled' = NotCalled
<1>1. CASE Loop \/ DequeueNone \/ Acquire \/ AcquireNone \/ Reset \/ Publish
  <2>1. UNCHANGED <<queue, command>> /\ opc # "blocked" /\ opc' # "blocked"
    BY <1>1 DEF Loop, DequeueNone, Queue!DequeueNone, Acquire, AcquireNone, Reset, Publish
  <2> QED
    BY <2>1, NotCalledOn
<1>2. CASE Dequeue
  BY <1>2, NotCalledDequeue
<1>3. CASE CallReturn
  <2>1. ~HasHand /\ ~HasHand' /\ queue' = queue
    BY <1>3 DEF HasHand, CallReturn
  <2> QED
    BY <2>1, NotCalledNow, NotCalledNext DEF IInv
<1>4. CASE \/ TestRequestPending \/ TestRequestComplete \/ TestRequestMark
           \/ ScanEnd \/ ScanSkip \/ ScanComplete \/ ScanMark \/ ScanErase
  <2>1. UNCHANGED <<queue, command>> /\ opc # "blocked" /\ opc' # "blocked"
    BY <1>4 DEF TestRequestPending, TestRequestComplete, TestRequestMark, ScanEnd, ScanSkip,
                ScanComplete, ScanMark, ScanErase
  <2> QED
    BY <2>1, NotCalledOn
<1> QED
  BY <1>1, <1>2, <1>3, <1>4 DEF OffloadStep

\* A step appends what it posts, takes the head off with the call of MPI, or leaves
\* the list alone.
LEMMA NotCalledStep ==
  ASSUME IInv, IInv', [Next]_vars
  PROVE  [Calls!Next]_NotCalled
<1> USE DEF threadVars, appVars, offVars, mpiVars
<1>1. ASSUME NEW t \in Threads, CallsLibrary(t)
      PROVE  NotCalled' = NotCalled
  BY <1>1, NotCalledOn DEF CallsLibrary, Post, Wait, Test, Stop
<1>2. ASSUME NEW t \in Threads, InLibrary(t)
      PROVE  [Calls!Next]_NotCalled
  <2>1. CASE Enqueue(t)
    BY <2>1, NotCalledEnqueue DEF Calls!Next, Calls!Enqueue
  <2>2. ASSUME ~Enqueue(t)
        PROVE  NotCalled' = NotCalled
    BY <1>2, <2>2, NotCalledOn DEF InLibrary, WaitWord, WaitDone, WaitCopy, WaitClear, WaitRelease,
       TestFalse, TestFlag, TestTrue, Join
  <2> QED
    BY <2>1, <2>2
<1>3. ASSUME OffloadStep
      PROVE  [Calls!Next]_NotCalled
  <2>1. CASE Call \/ CallBlocking \/ CallFails
    <3>1. command.request \in Requests
      BY <2>1, CommandInHand DEF Call, CallBlocking, CallFails, Hand
    <3>2. Calls!Dequeue(command.request)
      BY <2>1, NotCalledCall DEF Calls!Dequeue
    <3> QED
      BY <3>1, <3>2 DEF Calls!Next
  <2>2. CASE ~Call /\ ~CallBlocking /\ ~CallFails
    BY <1>3, <2>2, NotCalledOffload
  <2> QED
    BY <2>1, <2>2
<1>4. ASSUME (\E op \in Ops : Complete(op)) \/ Terminated \/ UNCHANGED vars
      PROVE  NotCalled' = NotCalled
  BY <1>4, NotCalledOn DEF Complete, Terminated, vars
<1> QED
  BY <1>1, <1>2, <1>3, <1>4 DEF Next

\* Whether the calls of MPI fail or not, and with MPI_Test too: every command that
\* was posted leads to one call of MPI, in the order of the posts.
THEOREM CallsAreInPostOrder == Spec => CallsInPostOrder
<1>1. Init => Calls!Init
  BY DEF Init, Queue!Init, Calls!Init, NotCalled
<1>2. IInv /\ IInv' /\ [Next]_vars => [Calls!Next]_NotCalled
  BY NotCalledStep
<1> QED
  BY <1>1, <1>2, Invariance, PTL DEF Spec, CallsInPostOrder, Calls!Spec

-----------------------------------------------------------------------------
(***************************************************************************)
(* Where the operation of a request is                                     *)
(***************************************************************************)
Places == [r \in Requests |-> Stage(r)]

\* A request whose own words stay is where it was, as long as MPI's sets do.
LEMMA PlacesOn ==
  ASSUME UNCHANGED <<phase, posts, started, finished>>
  PROVE  UNCHANGED Places
BY DEF Places, Stage, CurrentOp

\* A step that moves request r alone.
LEMMA PlacesMove ==
  ASSUME NEW r \in Requests, NEW place, Stage(r)' = place,
         \A q \in Requests \ {r} : Stage(q)' = Stage(q)
  PROVE  Places' = [Places EXCEPT ![r] = place]
BY DEF Places

\* What an abstract step is made of.
Simulated == [OneThread!Next]_(OneThread!vars)

LEMMA SimulatedStutter ==
  ASSUME UNCHANGED Places, UNCHANGED NotCalled
  PROVE  Simulated
BY DEF Simulated, OneThread!vars, Places

LEMMA SimulatedPost ==
  ASSUME NEW r \in Requests, Stage(r) = "inactive",
         Places' = [Places EXCEPT ![r] = "posted"], NotCalled' = Append(NotCalled, r)
  PROVE  Simulated
<1>1. OneThread!Post("application", r)
  BY DEF OneThread!Post, Places
<1> QED
  BY <1>1 DEF Simulated, OneThread!Next

LEMMA SimulatedStart ==
  ASSUME NotCalled # << >>, NotCalled' = Tail(NotCalled),
         Places' = [Places EXCEPT ![Head(NotCalled)] = "started"]
  PROVE  Simulated
<1>1. OneThread!Start("application")
  BY DEF OneThread!Start, Places
<1> QED
  BY <1>1 DEF Simulated, OneThread!Next

LEMMA SimulatedFinish ==
  ASSUME NEW r \in Requests, Stage(r) = "started",
         Places' = [Places EXCEPT ![r] = "finished"], UNCHANGED NotCalled
  PROVE  Simulated
<1>1. OneThread!Finish(r)
  BY DEF OneThread!Finish, Places
<1> QED
  BY <1>1 DEF Simulated, OneThread!Next

LEMMA SimulatedReturn ==
  ASSUME NEW r \in Requests, Stage(r) = "finished",
         Places' = [Places EXCEPT ![r] = "inactive"], UNCHANGED NotCalled
  PROVE  Simulated
<1>1. OneThread!Return(r)
  BY DEF OneThread!Return, Places
<1> QED
  BY <1>1 DEF Simulated, OneThread!Next

-----------------------------------------------------------------------------
(***************************************************************************)
(* The steps of the engine                                                 *)
(***************************************************************************)
\* The calls of the application that go into the library.
LEMMA CallsSimulated ==
  ASSUME IInv, NEW t \in Threads, CallsLibrary(t)
  PROVE  Simulated
<1> USE DEF threadVars, appVars, offVars, mpiVars
<1>0. /\ phase \in [Requests -> {"inactive", "posting", "active", "busy"}]
      /\ posts \in [Requests -> 0 .. MaxPosts]
  BY DEF IInv, TypeOK
<1>1. UNCHANGED NotCalled
  BY NotCalledOn DEF CallsLibrary, Post, Wait, Test, Stop
<1>2. ASSUME NEW r \in Requests, Post(t, r) \/ Wait(t, r) \/ Test(t, r)
      PROVE  UNCHANGED Places
  <2>1. \A q \in Requests \ {r} : phase'[q] = phase[q] /\ posts'[q] = posts[q]
    BY <1>0, <1>2 DEF Post, Wait, Test
  <2>2. UNCHANGED <<started, finished>>
    BY <1>2 DEF Post, Wait, Test
  <2>3. \A q \in Requests \ {r} : Stage(q)' = Stage(q)
    BY <2>1, <2>2 DEF Stage, CurrentOp
  <2>4. Stage(r)' = Stage(r)
    <3>1. CASE Post(t, r)
      BY <1>0, <3>1 DEF Post, Stage
    <3>2. CASE Wait(t, r) \/ Test(t, r)
      <4>1. phase[r] = "active" /\ phase'[r] = "busy" /\ posts' = posts
        BY <1>0, <3>2 DEF Wait, Test
      <4> QED
        BY <2>2, <4>1 DEF Stage, CurrentOp
    <3> QED
      BY <1>2, <3>1, <3>2
  <2> QED
    BY <2>3, <2>4 DEF Places
<1>3. ASSUME Stop(t)
      PROVE  UNCHANGED Places
  BY <1>3, PlacesOn DEF Stop
<1>4. UNCHANGED Places
  BY <1>2, <1>3 DEF CallsLibrary
<1> QED
  BY <1>1, <1>4, SimulatedStutter

\* enqueue posts the operation.
LEMMA EnqueueSimulated ==
  ASSUME IInv, IInv', NEW t \in Threads, Enqueue(t)
  PROVE  Simulated
<1>0. /\ phase \in [Requests -> {"inactive", "posting", "active", "busy"}]
      /\ finished \subseteq started
  BY DEF IInv, TypeOK
<1>1. PICK r \in Requests : r = req[t] /\ NotCalled' = Append(NotCalled, r)
  BY NotCalledEnqueue
<1>2. phase[r] = "posting" /\ CurrentOp(r) \notin started
  BY <1>1 DEF IInv, ThreadInv, ThreadOK, InCall, Enqueue, RequestInv, RequestOK
<1>3. /\ phase'[r] \in {"active", "busy"}
      /\ \A q \in Requests \ {r} : phase'[q] = phase[q]
      /\ UNCHANGED <<posts, started, finished>>
  BY <1>0, <1>1 DEF Enqueue, mpiVars
<1>4. Stage(r) = "inactive" /\ Stage(r)' = "posted"
  BY <1>0, <1>2, <1>3 DEF Stage, CurrentOp
<1>5. \A q \in Requests \ {r} : Stage(q)' = Stage(q)
  BY <1>3 DEF Stage, CurrentOp
<1>6. Places' = [Places EXCEPT ![r] = "posted"]
  BY <1>1, <1>4, <1>5, PlacesMove
<1> QED
  BY <1>1, <1>4, <1>6, SimulatedPost

\* release of wait, and the true result of test, return the request.
LEMMA ReturnSimulated ==
  ASSUME ~CallsMayFail, IInv, NEW t \in Threads, WaitRelease(t) \/ TestTrue(t)
  PROVE  Simulated
<1>0. phase \in [Requests -> {"inactive", "posting", "active", "busy"}]
  BY DEF IInv, TypeOK
<1>1. HasIndex(t)
  BY DEF HasIndex, WaitRelease, TestTrue
<1>2. PICK r \in Requests : /\ r = req[t] /\ phase[r] = "busy"
                            /\ idx[t] = word[r] /\ idx[t] \in Usable
  BY <1>1, IndexFacts
<1>3. CurrentOp(r) \in finished
  <2>1. CASE WaitRelease(t)
    BY <1>2, <2>1 DEF IInv, ThreadInv, ThreadOK, WaitRelease
  <2>2. CASE TestTrue(t)
    <3>1. done[idx[t]]
      BY <2>2 DEF IInv, ThreadInv, ThreadOK, TestTrue
    <3>2. Completed(r, idx[t])
      BY <1>2, <3>1 DEF IInv, FlagInv, FlagOK, Live
    <3> QED
      BY <3>2 DEF Completed
  <2> QED
    BY <2>1, <2>2
<1>4. /\ phase'[r] = "inactive"
      /\ \A q \in Requests \ {r} : phase'[q] = phase[q]
      /\ UNCHANGED <<posts, started, finished, queue, command, opc>>
  BY <1>0, <1>2 DEF WaitRelease, TestTrue, Inactive, mpiVars, offVars
<1>5. Stage(r) = "finished" /\ Stage(r)' = "inactive"
  BY <1>2, <1>3, <1>4 DEF Stage
<1>6. \A q \in Requests \ {r} : Stage(q)' = Stage(q)
  BY <1>4 DEF Stage, CurrentOp
<1>7. UNCHANGED NotCalled
  BY <1>4, NotCalledOn
<1>8. Places' = [Places EXCEPT ![r] = "inactive"]
  BY <1>2, <1>5, <1>6, PlacesMove
<1> QED
  BY <1>2, <1>5, <1>7, <1>8, SimulatedReturn

\* What a thread does inside wait and test.
LEMMA InLibrarySimulated ==
  ASSUME ~CallsMayFail, IInv, IInv', NEW t \in Threads, InLibrary(t)
  PROVE  Simulated
<1> USE DEF threadVars, appVars, offVars, mpiVars
<1>1. CASE Enqueue(t)
  BY <1>1, EnqueueSimulated
<1>2. CASE WaitRelease(t) \/ TestTrue(t)
  BY <1>2, ReturnSimulated
<1>3. CASE WaitWord(t) \/ WaitDone(t) \/ WaitCopy(t) \/ WaitClear(t) \/ TestFlag(t) \/ Join(t)
  <2>1. UNCHANGED Places
    BY <1>3, PlacesOn DEF WaitWord, WaitDone, WaitCopy, WaitClear, TestFlag, Join
  <2>2. UNCHANGED NotCalled
    BY <1>3, NotCalledOn DEF WaitWord, WaitDone, WaitCopy, WaitClear, TestFlag, Join
  <2> QED
    BY <2>1, <2>2, SimulatedStutter
<1>4. CASE TestFalse(t)
  <2>1. req[t] \in Requests /\ phase[req[t]] = "busy"
    BY <1>4, IndexFacts DEF HasIndex, TestFalse
  <2>2. /\ phase'[req[t]] = "active"
        /\ \A q \in Requests \ {req[t]} : phase'[q] = phase[q]
        /\ UNCHANGED <<posts, started, finished>>
    BY <1>4, <2>1 DEF TestFalse, IInv, TypeOK
  <2>3. \A q \in Requests : Stage(q)' = Stage(q)
    BY <2>1, <2>2 DEF Stage, CurrentOp
  <2>4. UNCHANGED Places
    BY <2>3 DEF Places
  <2>5. UNCHANGED NotCalled
    BY <1>4, NotCalledOn DEF TestFalse
  <2> QED
    BY <2>4, <2>5, SimulatedStutter
<1> QED
  BY <1>1, <1>2, <1>3, <1>4 DEF InLibrary

\* The call starts the operation.
LEMMA CallSimulated ==
  ASSUME IInv, IInv', Call \/ CallBlocking
  PROVE  Simulated
<1>0. finished \subseteq started
  BY DEF IInv, TypeOK
<1>1. opc = "call" /\ opc \in Hand
  BY DEF Call, CallBlocking, Hand
<1>2. PICK r \in Requests : /\ r = command.request /\ phase[r] \in {"active", "busy"}
                            /\ CommandOp = CurrentOp(r) /\ CommandOp \notin started
  BY <1>1, CommandInHand DEF IsCurrent, IInv, HandInv
<1>3. /\ started' = started \cup {CurrentOp(r)}
      /\ UNCHANGED <<phase, posts, finished>>
  BY <1>2 DEF Call, CallBlocking, AppUnchanged
<1>4. Stage(r)' = "started"
  BY <1>0, <1>2, <1>3 DEF Stage, CurrentOp
<1>5. \A q \in Requests \ {r} : CurrentOp(q) # CurrentOp(r)
  BY DEF CurrentOp
<1>6. \A q \in Requests \ {r} : Stage(q)' = Stage(q)
  BY <1>3, <1>5 DEF Stage, CurrentOp
<1>7. NotCalled # << >> /\ Head(NotCalled) = r /\ NotCalled' = Tail(NotCalled)
  BY <1>2, NotCalledCall
<1>8. Places' = [Places EXCEPT ![r] = "started"]
  BY <1>2, <1>4, <1>6, PlacesMove
<1> QED
  BY <1>7, <1>8, SimulatedStart

\* The steps of the offload thread.
LEMMA OffloadSimulated ==
  ASSUME ~CallsMayFail, IInv, IInv', OffloadStep
  PROVE  Simulated
<1>1. CASE Call \/ CallBlocking
  BY <1>1, CallSimulated
<1>2. CASE ~Call /\ ~CallBlocking
  <2>1. ~CallFails
    BY DEF CallFails
  <2>2. UNCHANGED <<phase, posts, started, finished>>
    BY <1>2, <2>1 DEF OffloadStep, AppUnchanged, Loop, Dequeue, DequeueNone, Acquire,
          AcquireNone, Reset, Publish, CallReturn, TestRequestPending, TestRequestComplete,
          TestRequestMark, ScanEnd, ScanSkip, ScanComplete, ScanMark, ScanErase, mpiVars
  <2>3. UNCHANGED Places
    BY <2>2, PlacesOn
  <2>4. UNCHANGED NotCalled
    BY <1>2, <2>1, NotCalledOffload
  <2> QED
    BY <2>3, <2>4, SimulatedStutter
<1> QED
  BY <1>1, <1>2

\* MPI finishes an operation: that of an outstanding request.
LEMMA CompleteSimulated ==
  ASSUME ~CallsMayFail, IInv, NEW op \in Ops, Complete(op)
  PROVE  Simulated
<1>1. op \in started \ finished /\ finished' = finished \cup {op}
  BY DEF Complete
<1>2. PICK r \in Requests, n \in 1 .. MaxPosts : op = <<r, n>>
  BY DEF Ops
<1>3. Live(r) /\ n = posts[r]
  BY <1>1, <1>2 DEF IInv, StopInv
<1>4. op = CurrentOp(r)
  BY <1>2, <1>3 DEF CurrentOp
<1>5. phase[r] \in {"active", "busy"}
  BY <1>1, <1>3, <1>4 DEF IInv, TypeOK, RequestInv, RequestOK, Live
<1>6. UNCHANGED <<phase, posts, started, queue, command, opc>>
  BY DEF Complete, appVars, offVars
<1>7. Stage(r) = "started" /\ Stage(r)' = "finished"
  BY <1>1, <1>4, <1>5, <1>6 DEF Stage, CurrentOp
<1>8. \A q \in Requests \ {r} : CurrentOp(q) # op
  BY <1>2 DEF CurrentOp
<1>9. \A q \in Requests \ {r} : Stage(q)' = Stage(q)
  BY <1>1, <1>6, <1>8 DEF Stage, CurrentOp
<1>10. Places' = [Places EXCEPT ![r] = "finished"]
  BY <1>7, <1>9, PlacesMove
<1>11. UNCHANGED NotCalled
  BY <1>6, NotCalledOn
<1> QED
  BY <1>7, <1>10, <1>11, SimulatedFinish

\* Every step of the engine is a step of one thread.
LEMMA StepSimulated ==
  ASSUME ~CallsMayFail, IInv, IInv', [Next]_vars
  PROVE  Simulated
<1>1. ASSUME UNCHANGED vars
      PROVE  Simulated
  BY <1>1, PlacesOn, NotCalledOn, SimulatedStutter DEF vars, appVars, offVars, mpiVars
<1> QED
  BY <1>1, CallsSimulated, InLibrarySimulated, OffloadSimulated, CompleteSimulated
  DEF Next, Terminated

\* If MPI calls do not fail, MPI sees what one thread with MPI's own threads
\* support would do: the calls in the order of the posts, each operation
\* started once, and a request inactive again only when its operation is over.
THEOREM EngineIsOneThread ==
  ASSUME ~CallsMayFail
  PROVE  Spec => ImplementsOneThread
<1>1. Init => OneThread!Init
  BY DEF Init, Queue!Init, OneThread!Init, Stage, NotCalled
<1>2. IInv /\ IInv' /\ [Next]_vars => Simulated
  BY StepSimulated
<1> QED
  BY <1>1, <1>2, Invariance, PTL DEF Spec, ImplementsOneThread, OneThread!Spec, Simulated

-----------------------------------------------------------------------------
(***************************************************************************)
(* The elements of a list that are in a set, for lists of any length       *)
(***************************************************************************)
\* What induction on the length of a list comes to.
LEMMA LeastNumber ==
  ASSUME NEW T, T \subseteq Nat, T # {}
  PROVE  \E n \in T : \A k \in T : n <= k
<1>1. PICK n \in T : \A k \in T : <<k, n>> \notin OpToRel(<, Nat)
  BY NatLessThanWellFounded, WFMin
<1>2. \A k \in T : n <= k
  <2>1. ASSUME NEW k \in T, k < n
        PROVE  FALSE
    BY <1>1, <2>1 DEF OpToRel
  <2> QED
    BY <2>1
<1> QED
  BY <1>2

\* One step of the recursion of Only, from the value for the list without element n.
Longer(s, S, shorter, n) == IF s[n] \in S THEN Append(shorter, s[n]) ELSE shorter

\* f tells what Only makes of the first n elements, for n up to m.
Tells(f, s, S, m) ==
    f = [n \in 0 .. m |-> IF n = 0 THEN << >> ELSE Longer(s, S, f[n - 1], n)]

\* There is such a function.
LEMMA OnlyEnds ==
  ASSUME NEW s, NEW S, NEW len \in Nat
  PROVE  \E f : Tells(f, s, S, len)
<1> DEFINE Bad == {n \in Nat : ~ \E f : Tells(f, s, S, n)}
<1>1. SUFFICES ASSUME Bad # {}
               PROVE  FALSE
  OBVIOUS
<1>2. PICK n \in Bad : \A k \in Bad : n <= k
  <2>1. Bad \subseteq Nat
    OBVIOUS
  <2> HIDE DEF Bad
  <2> QED
    BY <1>1, <2>1, LeastNumber
<1>3. n \in Nat /\ ~ \E f : Tells(f, s, S, n)
  BY <1>2
<1>4. CASE n = 0
  <2> DEFINE f == [k \in 0 .. 0 |-> << >>]
  <2>1. f = [k \in 0 .. 0 |-> IF k = 0 THEN << >> ELSE Longer(s, S, f[k - 1], k)]
    OBVIOUS
  <2> HIDE DEF f
  <2> QED
    BY <1>3, <1>4, <2>1 DEF Tells
<1>5. CASE n # 0
  <2>1. n - 1 \in Nat /\ n - 1 \notin Bad
    <3>1. n - 1 \in Nat /\ ~(n <= n - 1)
      BY <1>3, <1>5
    <3> HIDE DEF Bad
    <3> QED
      BY <1>2, <3>1
  <2>2. PICK f : Tells(f, s, S, n - 1)
    BY <2>1
  <2>3. \A k \in 0 .. n - 1 : f[k] = IF k = 0 THEN << >> ELSE Longer(s, S, f[k - 1], k)
    BY <2>2 DEF Tells
  <2> DEFINE g == [k \in 0 .. n |-> IF k = 0 THEN << >> ELSE Longer(s, S, f[k - 1], k)]
  <2>4. \A k \in 0 .. n - 1 : g[k] = f[k]
    <3>1. \A k \in 0 .. n - 1 : k \in 0 .. n
      BY <1>3
    <3> QED
      BY <2>3, <3>1
  <2>5. \A k \in 0 .. n : k # 0 => g[k - 1] = f[k - 1]
    <3>1. \A k \in 0 .. n : k # 0 => k - 1 \in 0 .. n - 1
      BY <1>3
    <3> HIDE DEF g
    <3> QED
      BY <2>4, <3>1
  <2>6. g = [k \in 0 .. n |-> IF k = 0 THEN << >> ELSE Longer(s, S, g[k - 1], k)]
    <3> DEFINE h == [k \in 0 .. n |-> IF k = 0 THEN << >> ELSE Longer(s, S, g[k - 1], k)]
    <3>1. ASSUME NEW k \in 0 .. n
          PROVE  g[k] = IF k = 0 THEN << >> ELSE Longer(s, S, g[k - 1], k)
      <4>1. g[k] = IF k = 0 THEN << >> ELSE Longer(s, S, f[k - 1], k)
        OBVIOUS
      <4>2. k # 0 => g[k - 1] = f[k - 1]
        BY <2>5
      <4> HIDE DEF g
      <4> QED
        BY <4>1, <4>2
    <3>2. g = [k \in 0 .. n |-> g[k]]
      OBVIOUS
    <3> HIDE DEF g
    <3> QED
      BY <3>1, <3>2
  <2> HIDE DEF g
  <2> QED
    BY <1>3, <2>6 DEF Tells
<1> QED
  BY <1>4, <1>5

\* f follows the recursion for m elements, from element d on.
Follows(f, s, S, d, m) ==
    \A n \in 1 .. m : f[n + d] = Longer(s, S, f[n + d - 1], n + d)

\* The first n elements come to a list, for every n up to m.
Lists(f, X, m) == f[0] = << >> /\ \A n \in 0 .. m : f[n] \in Seq(X)

\* Only is the last value of such a function.
LEMMA OnlyFacts ==
  ASSUME NEW X, NEW s \in Seq(X), NEW S
  PROVE  \E f : Only(s, S) = f[Len(s)] /\ Follows(f, s, S, 0, Len(s)) /\ Lists(f, X, Len(s))
<1>0. Len(s) \in Nat /\ \A n \in 1 .. Len(s) : s[n] \in X
  OBVIOUS
<1>1. PICK f : Tells(f, s, S, Len(s)) /\ Only(s, S) = f[Len(s)]
  <2> DEFINE f == CHOOSE f : Tells(f, s, S, Len(s))
  <2>1. Tells(f, s, S, Len(s))
    BY <1>0, OnlyEnds
  <2>2. Only(s, S) = f[Len(s)]
    BY DEF Only, Tells, Longer
  <2> QED
    BY <2>1, <2>2
<1>2. f[0] = << >> /\ \A n \in 1 .. Len(s) : f[n] = Longer(s, S, f[n - 1], n)
  BY <1>0, <1>1 DEF Tells
<1>3. \A n \in 0 .. Len(s) : f[n] \in Seq(X)
  <2> DEFINE Bad == {n \in 0 .. Len(s) : f[n] \notin Seq(X)}
  <2>1. SUFFICES ASSUME Bad # {}
                 PROVE  FALSE
    OBVIOUS
  <2>2. PICK n \in Bad : \A k \in Bad : n <= k
    <3>1. Bad \subseteq Nat
      BY <1>0
    <3> HIDE DEF Bad
    <3> QED
      BY <2>1, <3>1, LeastNumber
  <2>3. n \in 1 .. Len(s) /\ n - 1 \in 0 .. Len(s)
    <3>1. f[0] \in Seq(X)
      BY <1>2
    <3>2. n \in 0 .. Len(s) /\ n # 0
      BY <2>2, <3>1
    <3> QED
      BY <1>0, <3>2
  <2>4. n - 1 \notin Bad
    <3>1. ~(n <= n - 1)
      BY <1>0, <2>3
    <3> HIDE DEF Bad
    <3> QED
      BY <2>2, <3>1
  <2>5. f[n - 1] \in Seq(X)
    BY <2>3, <2>4
  <2>6. f[n] \in Seq(X)
    <3>1. f[n] = IF s[n] \in S THEN Append(f[n - 1], s[n]) ELSE f[n - 1]
      BY <1>2, <2>3 DEF Longer
    <3>2. s[n] \in X
      BY <1>0, <2>3
    <3> HIDE DEF Bad
    <3> QED
      BY <2>5, <3>1, <3>2
  <2> QED
    BY <2>2, <2>6
<1>4. Follows(f, s, S, 0, Len(s))
  <2>1. \A n \in 1 .. Len(s) : n + 0 = n
    BY <1>0
  <2> QED
    BY <1>2, <2>1 DEF Follows
<1>5. Lists(f, X, Len(s))
  BY <1>2, <1>3 DEF Lists
<1> QED
  BY <1>1, <1>4, <1>5

\* The first m elements of s are those of z from element d on, and kept alike.
Alike(s, S, z, T, X, d, m) ==
    \A n \in 1 .. m : s[n] \in X /\ z[n + d] = s[n] /\ (s[n] \in S <=> s[n] \in T)

\* The second recursion starts where d is, with some list, and goes on like the first.
Parallel(X, s, z, S, T, f, g, d, m) ==
    /\ d \in Nat
    /\ m \in Nat
    /\ g[d] \in Seq(X)
    /\ Lists(f, X, m)
    /\ Follows(f, s, S, 0, m)
    /\ Follows(g, z, T, d, m)
    /\ Alike(s, S, z, T, X, d, m)

\* The second recursion has come to what it started with, and what the first came to.
Prolongs(f, g, d, m) == g[m + d] = g[d] \o f[m]

\* Two recursions go in step, the second from a later element and another list on,
\* as long as their elements are the same and are kept alike.
LEMMA InStep ==
  ASSUME NEW X, NEW s, NEW z, NEW S, NEW T, NEW f, NEW g, NEW d, NEW m,
         Parallel(X, s, z, S, T, f, g, d, m)
  PROVE  Prolongs(f, g, d, m)
<1> SUFFICES ASSUME d \in Nat, m \in Nat, g[d] \in Seq(X),
                    Lists(f, X, m), Follows(f, s, S, 0, m), Follows(g, z, T, d, m),
                    Alike(s, S, z, T, X, d, m)
             PROVE  g[m + d] = g[d] \o f[m]
  BY Zenon DEF Parallel, Prolongs
<1>0. PICK front \in Seq(X) : front = g[d]
  OBVIOUS
<1>1. ASSUME NEW a \in Seq(X), NEW b \in X
      PROVE  front \o Append(a, b) = Append(front \o a, b)
  <2>1. <<b>> \in Seq(X) /\ Append(a, b) = a \o <<b>> /\ front \o a \in Seq(X)
    OBVIOUS
  <2>2. (front \o a) \o <<b>> = Append(front \o a, b)
    BY <2>1
  <2>3. front \o (a \o <<b>>) = (front \o a) \o <<b>>
    BY <2>1
  <2> QED
    BY <2>1, <2>2, <2>3
<1> DEFINE Bad == {n \in 0 .. m : g[n + d] # front \o f[n]}
<1>2. SUFFICES ASSUME Bad # {}
               PROVE  FALSE
  <2>1. m \in 0 .. m
    OBVIOUS
  <2> QED
    BY <1>0, <1>2, <2>1
<1>3. PICK n \in Bad : \A k \in Bad : n <= k
  <2>1. Bad \subseteq Nat
    OBVIOUS
  <2> HIDE DEF Bad
  <2> QED
    BY <1>2, <2>1, LeastNumber
<1>4. n \in 1 .. m /\ n - 1 \in 0 .. m
  <2>1. g[0 + d] = front \o f[0]
    <3>1. front \o << >> = front /\ 0 + d = d
      OBVIOUS
    <3> QED
      BY <1>0, <3>1 DEF Lists
  <2>2. n # 0
    BY <1>3, <2>1
  <2>3. n \in 0 .. m
    BY <1>3
  <2> QED
    BY <2>2, <2>3
<1>5. n - 1 \notin Bad
  <2>1. ~(n <= n - 1)
    BY <1>4
  <2> HIDE DEF Bad
  <2> QED
    BY <1>3, <2>1
<1>6. g[n + d - 1] = front \o f[n - 1]
  <2>1. (n - 1) + d = n + d - 1
    BY <1>4
  <2> QED
    BY <1>4, <1>5, <2>1
<1>7. PICK a \in Seq(X), b \in X : a = f[n - 1] /\ b = s[n]
  BY <1>4 DEF Lists, Alike
<1>8. g[n + d] = front \o f[n]
  <2>1. f[n] = IF b \in S THEN Append(a, b) ELSE a
    <3>1. n + 0 = n
      BY <1>4
    <3> QED
      BY <1>4, <1>7, <3>1 DEF Follows, Longer
  <2>2. g[n + d] = IF b \in T THEN Append(front \o a, b) ELSE front \o a
    BY <1>4, <1>6, <1>7 DEF Follows, Longer, Alike
  <2>3. b \in S <=> b \in T
    BY <1>4, <1>7 DEF Alike
  <2> QED
    BY <1>1, <2>1, <2>2, <2>3
<1> QED
  BY <1>3, <1>8

\* A list is filtered alike by sets that agree on its elements.
LEMMA OnlySame ==
  ASSUME NEW X, NEW s \in Seq(X), NEW S, NEW T,
         \A n \in 1 .. Len(s) : s[n] \in S <=> s[n] \in T
  PROVE  Only(s, S) = Only(s, T)
<1>0. Len(s) \in Nat /\ (\A n \in 1 .. Len(s) : s[n] \in X) /\ << >> \in Seq(X)
  OBVIOUS
<1>1. PICK f : Only(s, S) = f[Len(s)] /\ Follows(f, s, S, 0, Len(s)) /\ Lists(f, X, Len(s))
  BY OnlyFacts, Zenon
<1>2. PICK g : Only(s, T) = g[Len(s)] /\ Follows(g, s, T, 0, Len(s)) /\ Lists(g, X, Len(s))
  BY OnlyFacts, Zenon
<1>3. g[0] = << >>
  BY <1>2 DEF Lists
<1>4. Alike(s, S, s, T, X, 0, Len(s))
  BY <1>0 DEF Alike
<1>5. g[Len(s) + 0] = << >> \o f[Len(s)]
  <2>1. 0 \in Nat /\ g[0] \in Seq(X) /\ Len(s) \in Nat
    BY <1>0, <1>3
  <2>2. Parallel(X, s, s, S, T, f, g, 0, Len(s))
    BY <1>1, <1>2, <1>4, <2>1 DEF Parallel
  <2>3. Prolongs(f, g, 0, Len(s))
    BY <2>2, InStep, Zenon
  <2>4. g[Len(s) + 0] = g[0] \o f[Len(s)]
    BY <2>3 DEF Prolongs
  <2> QED
    BY <1>3, <2>4
<1>6. Len(s) + 0 = Len(s) /\ f[Len(s)] \in Seq(X)
  BY <1>0, <1>1 DEF Lists
<1>7. << >> \o f[Len(s)] = f[Len(s)]
  BY <1>6
<1> QED
  BY <1>1, <1>2, <1>5, <1>6, <1>7

\* An element at the end comes last, if it is kept.
LEMMA OnlyAppend ==
  ASSUME NEW X, NEW s \in Seq(X), NEW a \in X, NEW S
  PROVE  /\ Only(s, S) \in Seq(X)
         /\ Only(Append(s, a), S) = IF a \in S THEN Append(Only(s, S), a) ELSE Only(s, S)
<1>0. PICK z \in Seq(X) : /\ z = Append(s, a) /\ Len(z) = Len(s) + 1 /\ z[Len(s) + 1] = a
                          /\ \A n \in 1 .. Len(s) : z[n] = s[n]
  <2>1. /\ Append(s, a) \in Seq(X) /\ Len(Append(s, a)) = Len(s) + 1
        /\ Append(s, a)[Len(s) + 1] = a
        /\ \A n \in 1 .. Len(s) : Append(s, a)[n] = s[n]
    OBVIOUS
  <2> QED
    BY <2>1, Zenon
<1>1. Len(s) \in Nat /\ (\A n \in 1 .. Len(s) : s[n] \in X) /\ << >> \in Seq(X)
  OBVIOUS
<1>2. PICK f : Only(s, S) = f[Len(s)] /\ Follows(f, s, S, 0, Len(s)) /\ Lists(f, X, Len(s))
  BY OnlyFacts, Zenon
<1>3. PICK g : Only(z, S) = g[Len(z)] /\ Follows(g, z, S, 0, Len(z)) /\ Lists(g, X, Len(z))
  BY OnlyFacts, Zenon
<1>4. g[0] = << >>
  BY <1>3 DEF Lists
<1>5. Follows(g, z, S, 0, Len(s))
  <2>1. \A n \in 1 .. Len(s) : n \in 1 .. Len(z)
    BY <1>0, <1>1
  <2> QED
    BY <1>3, <2>1 DEF Follows
<1>6. Alike(s, S, z, S, X, 0, Len(s))
  BY <1>0, <1>1 DEF Alike
<1>7. g[Len(s) + 0] = << >> \o f[Len(s)]
  <2>1. 0 \in Nat /\ g[0] \in Seq(X) /\ Len(s) \in Nat
    BY <1>1, <1>4
  <2>2. Parallel(X, s, z, S, S, f, g, 0, Len(s))
    BY <1>2, <1>5, <1>6, <2>1 DEF Parallel
  <2>3. Prolongs(f, g, 0, Len(s))
    BY <2>2, InStep, Zenon
  <2>4. g[Len(s) + 0] = g[0] \o f[Len(s)]
    BY <2>3 DEF Prolongs
  <2> QED
    BY <1>4, <2>4
<1>8. f[Len(s)] \in Seq(X) /\ Len(s) + 0 = Len(s)
  BY <1>1, <1>2 DEF Lists
<1>9. << >> \o f[Len(s)] = f[Len(s)]
  BY <1>8
<1>10. g[Len(s) + 1] = Longer(z, S, f[Len(s)], Len(s) + 1)
  <2>1. Len(s) + 1 \in 1 .. Len(z) /\ Len(s) + 1 + 0 - 1 = Len(s) /\ Len(s) + 1 + 0 = Len(s) + 1
    BY <1>0, <1>1
  <2>2. g[Len(s) + 1 + 0] = Longer(z, S, g[Len(s) + 1 + 0 - 1], Len(s) + 1 + 0)
    BY <1>3, <2>1 DEF Follows
  <2>3. g[Len(s)] = f[Len(s)]
    BY <1>7, <1>8, <1>9
  <2> QED
    BY <2>1, <2>2, <2>3
<1> QED
  BY <1>0, <1>2, <1>3, <1>8, <1>10 DEF Longer

\* An element at the front comes first, if it is kept.
KeptFirst(X, a, s, S) ==
    /\ Only(s, S) \in Seq(X)
    /\ Only(<<a>> \o s, S) = IF a \in S THEN <<a>> \o Only(s, S) ELSE Only(s, S)

\* It does, whatever the list.
LEMMA OnlyFront ==
  ASSUME NEW X, NEW a \in X, NEW s \in Seq(X), NEW S
  PROVE  KeptFirst(X, a, s, S)
<1>0. PICK z \in Seq(X) : /\ z = <<a>> \o s /\ Len(z) = Len(s) + 1 /\ z[1] = a
                          /\ \A n \in 1 .. Len(s) : z[n + 1] = s[n]
  <2>1. /\ <<a>> \o s \in Seq(X) /\ Len(<<a>> \o s) = 1 + Len(s) /\ Len(s) \in Nat
        /\ \A n \in 1 .. 1 + Len(s) : (<<a>> \o s)[n] = IF n <= 1 THEN a ELSE s[n - 1]
    OBVIOUS
  <2> DEFINE z == <<a>> \o s
  <2>2. /\ z \in Seq(X) /\ Len(z) = 1 + Len(s) /\ Len(s) \in Nat
        /\ \A n \in 1 .. 1 + Len(s) : z[n] = IF n <= 1 THEN a ELSE s[n - 1]
    BY <2>1
  <2>3. z = <<a>> \o s
    OBVIOUS
  <2> HIDE DEF z
  <2>4. \A n \in 1 .. Len(s) : n + 1 \in 1 .. 1 + Len(s) /\ ~(n + 1 <= 1) /\ n + 1 - 1 = n
    BY <2>2
  <2>5. Len(z) = Len(s) + 1 /\ z[1] = a /\ \A n \in 1 .. Len(s) : z[n + 1] = s[n]
    BY <2>2, <2>4
  <2> QED
    BY <2>2, <2>3, <2>5
<1>1. Len(s) \in Nat /\ (\A n \in 1 .. Len(s) : s[n] \in X)
  OBVIOUS
<1>2. PICK f : Only(s, S) = f[Len(s)] /\ Follows(f, s, S, 0, Len(s)) /\ Lists(f, X, Len(s))
  BY OnlyFacts, Zenon
<1>3. PICK g : Only(z, S) = g[Len(z)] /\ Follows(g, z, S, 0, Len(z)) /\ Lists(g, X, Len(z))
  BY OnlyFacts, Zenon
<1>4. PICK front \in Seq(X) : g[1] = front /\ front = IF a \in S THEN <<a>> ELSE << >>
  <2>1. g[1] = Longer(z, S, g[0], 1)
    <3>1. 1 \in 1 .. Len(z) /\ 1 + 0 - 1 = 0 /\ 1 + 0 = 1
      BY <1>0, <1>1
    <3>2. g[1 + 0] = Longer(z, S, g[1 + 0 - 1], 1 + 0)
      BY <1>3, <3>1 DEF Follows
    <3> QED
      BY <3>1, <3>2
  <2>2. g[1] = IF a \in S THEN Append(<< >>, a) ELSE << >>
    BY <1>0, <1>3, <2>1 DEF Longer, Lists
  <2>3. Append(<< >>, a) = <<a>> /\ <<a>> \in Seq(X) /\ << >> \in Seq(X)
    OBVIOUS
  <2> QED
    BY <2>2, <2>3
<1>5. Follows(g, z, S, 1, Len(s))
  <2> SUFFICES ASSUME NEW n \in 1 .. Len(s)
               PROVE  g[n + 1] = Longer(z, S, g[n + 1 - 1], n + 1)
    BY DEF Follows
  <2>1. n + 1 \in 1 .. Len(z) /\ n + 1 + 0 = n + 1 /\ n + 1 + 0 - 1 = n + 1 - 1
    BY <1>0, <1>1
  <2>2. g[n + 1 + 0] = Longer(z, S, g[n + 1 + 0 - 1], n + 1 + 0)
    BY <1>3, <2>1 DEF Follows
  <2> QED
    BY <2>1, <2>2
<1>6. Alike(s, S, z, S, X, 1, Len(s))
  BY <1>0, <1>1 DEF Alike
<1>7. g[Len(s) + 1] = front \o f[Len(s)]
  <2>1. 1 \in Nat /\ Len(s) \in Nat /\ g[1] \in Seq(X)
    BY <1>1, <1>4
  <2>2. Parallel(X, s, z, S, S, f, g, 1, Len(s))
    BY <1>2, <1>5, <1>6, <2>1 DEF Parallel
  <2>3. Prolongs(f, g, 1, Len(s))
    BY <2>2, InStep, Zenon
  <2>4. g[Len(s) + 1] = g[1] \o f[Len(s)]
    BY <2>3 DEF Prolongs
  <2> QED
    BY <1>4, <2>4
<1>8. Only(s, S) \in Seq(X)
  BY <1>1, <1>2 DEF Lists
<1>9. Only(z, S) = front \o Only(s, S)
  BY <1>0, <1>2, <1>3, <1>7
<1>10. << >> \o Only(s, S) = Only(s, S)
  BY <1>8
<1> QED
  BY <1>0, <1>4, <1>8, <1>9, <1>10 DEF KeptFirst

-----------------------------------------------------------------------------
(***************************************************************************)
(* The refinement of ThreadMultiple with the application's own threads     *)
(***************************************************************************)
\* The requests whose calls have not been made are posted, each once.
InOrder ==
    /\ NotCalled \in Seq(Requests)
    /\ \A i \in 1 .. Len(NotCalled) : Stage(NotCalled[i]) = "posted"
    /\ \A i, j \in 1 .. Len(NotCalled) : NotCalled[i] = NotCalled[j] => i = j

\* A request that is in use was posted by a thread.
Owned == \A r \in Requests : phase[r] # "inactive" => poster[r] \in Threads

\* The steps of one thread, with Places and NotCalled for its variables.
LEMMA SimulatedCases ==
  ASSUME Simulated
  PROVE  \/ UNCHANGED <<Places, NotCalled>>
         \/ \E r \in Requests : /\ Stage(r) = "inactive"
                                /\ Places' = [Places EXCEPT ![r] = "posted"]
                                /\ NotCalled' = Append(NotCalled, r)
         \/ /\ NotCalled # << >> /\ NotCalled' = Tail(NotCalled)
            /\ Places' = [Places EXCEPT ![Head(NotCalled)] = "started"]
         \/ \E r \in Requests : /\ Stage(r) = "started" /\ UNCHANGED NotCalled
                                /\ Places' = [Places EXCEPT ![r] = "finished"]
         \/ \E r \in Requests : /\ Stage(r) = "finished" /\ UNCHANGED NotCalled
                                /\ Places' = [Places EXCEPT ![r] = "inactive"]
<1> DEFINE program == [t \in {"application"} |-> NotCalled]
<1>0. program["application"] = NotCalled /\ program'["application"] = NotCalled'
  OBVIOUS
<1>1. CASE UNCHANGED OneThread!vars
  <2>1. UNCHANGED Places /\ UNCHANGED program
    BY <1>1 DEF OneThread!vars, Places
  <2> QED
    BY <1>0, <2>1
<1>2. ASSUME NEW r \in Requests, OneThread!Post("application", r)
      PROVE  /\ Stage(r) = "inactive"
             /\ Places' = [Places EXCEPT ![r] = "posted"]
             /\ NotCalled' = Append(NotCalled, r)
  <2>1. /\ Stage(r) = "inactive"
        /\ Places' = [Places EXCEPT ![r] = "posted"]
        /\ program' = [program EXCEPT !["application"] = Append(@, r)]
    BY <1>2 DEF OneThread!Post, Places
  <2> QED
    BY <1>0, <2>1
<1>3. ASSUME OneThread!Start("application")
      PROVE  /\ NotCalled # << >> /\ NotCalled' = Tail(NotCalled)
             /\ Places' = [Places EXCEPT ![Head(NotCalled)] = "started"]
  <2>1. /\ program["application"] # << >>
        /\ Places' = [Places EXCEPT ![Head(program["application"])] = "started"]
        /\ program' = [program EXCEPT !["application"] = Tail(@)]
    BY <1>3 DEF OneThread!Start, Places
  <2> QED
    BY <1>0, <2>1
<1>4. ASSUME NEW r \in Requests, OneThread!Finish(r)
      PROVE  /\ Stage(r) = "started" /\ UNCHANGED NotCalled
             /\ Places' = [Places EXCEPT ![r] = "finished"]
  <2>1. /\ Stage(r) = "started" /\ UNCHANGED program
        /\ Places' = [Places EXCEPT ![r] = "finished"]
    BY <1>4 DEF OneThread!Finish, Places
  <2> QED
    BY <1>0, <2>1
<1>5. ASSUME NEW r \in Requests, OneThread!Return(r)
      PROVE  /\ Stage(r) = "finished" /\ UNCHANGED NotCalled
             /\ Places' = [Places EXCEPT ![r] = "inactive"]
  <2>1. /\ Stage(r) = "finished" /\ UNCHANGED program
        /\ Places' = [Places EXCEPT ![r] = "inactive"]
    BY <1>5 DEF OneThread!Return, Places
  <2> QED
    BY <1>0, <2>1
<1> QED
  BY <1>1, <1>2, <1>3, <1>4, <1>5 DEF Simulated, OneThread!Next

\* Places is Stage as a function.
LEMMA PlacesAre ==
  /\ \A r \in Requests : Places[r] = Stage(r)
  /\ \A r \in Requests : Places'[r] = Stage(r)'
  /\ DOMAIN Places = Requests
BY DEF Places

\* A step of one thread keeps the requests in order.
LEMMA OrderStep ==
  ASSUME InOrder, Simulated
  PROVE  InOrder'
<1> PICK n \in Seq(Requests) : n = NotCalled
  BY DEF InOrder
<1>0. /\ \A i \in 1 .. Len(n) : n[i] \in Requests /\ Places[n[i]] = "posted"
      /\ \A i, j \in 1 .. Len(n) : n[i] = n[j] => i = j
  BY PlacesAre DEF InOrder
<1>1. ASSUME NotCalled' \in Seq(Requests),
             \A i \in 1 .. Len(NotCalled') : Places'[NotCalled'[i]] = "posted",
             \A i, j \in 1 .. Len(NotCalled') : NotCalled'[i] = NotCalled'[j] => i = j
      PROVE  InOrder'
  <2>1. \A i \in 1 .. Len(NotCalled') : NotCalled'[i] \in Requests
    BY <1>1
  <2>2. \A i \in 1 .. Len(NotCalled') : Stage(NotCalled[i])' = "posted"
    BY <1>1, <2>1, PlacesAre
  <2> QED
    BY <1>1, <2>2 DEF InOrder
<1>2. CASE UNCHANGED <<Places, NotCalled>>
  BY <1>0, <1>1, <1>2
<1>3. ASSUME NEW r \in Requests, Stage(r) = "inactive",
             Places' = [Places EXCEPT ![r] = "posted"], NotCalled' = Append(NotCalled, r)
      PROVE  InOrder'
  <2>1. \A i \in 1 .. Len(n) : n[i] # r
    BY <1>0, <1>3, PlacesAre
  <2>2. /\ NotCalled' \in Seq(Requests) /\ Len(NotCalled') = Len(n) + 1
        /\ \A i \in 1 .. Len(n) : NotCalled'[i] = n[i]
        /\ NotCalled'[Len(n) + 1] = r
    BY <1>3
  <2>3. \A q \in Requests : Places'[q] = IF q = r THEN "posted" ELSE Places[q]
    BY <1>3, PlacesAre
  <2> QED
    BY <1>0, <1>1, <2>1, <2>2, <2>3
<1>4. ASSUME NotCalled # << >>, NotCalled' = Tail(NotCalled),
             Places' = [Places EXCEPT ![Head(NotCalled)] = "started"]
      PROVE  InOrder'
  <2>1. /\ NotCalled' \in Seq(Requests) /\ Len(NotCalled') = Len(n) - 1 /\ Len(n) \in Nat \ {0}
        /\ \A i \in 1 .. Len(n) - 1 : NotCalled'[i] = n[i + 1]
        /\ Head(NotCalled) = n[1]
    BY <1>4
  <2>2. \A i \in 1 .. Len(n) - 1 : i + 1 \in 1 .. Len(n) /\ 1 \in 1 .. Len(n) /\ i + 1 # 1
    BY <2>1
  <2>3. \A i \in 1 .. Len(n) - 1 : n[i + 1] # n[1]
    BY <1>0, <2>2
  <2>4. \A q \in Requests : q # n[1] => Places'[q] = Places[q]
    BY <1>4, <2>1, PlacesAre
  <2> QED
    BY <1>0, <1>1, <2>1, <2>2, <2>3, <2>4
<1>5. ASSUME NEW r \in Requests, NEW p, Stage(r) # "posted", UNCHANGED NotCalled,
             Places' = [Places EXCEPT ![r] = p]
      PROVE  InOrder'
  <2>1. \A i \in 1 .. Len(n) : n[i] # r
    BY <1>0, <1>5, PlacesAre
  <2>2. \A q \in Requests : q # r => Places'[q] = Places[q]
    BY <1>5, PlacesAre
  <2> QED
    BY <1>0, <1>1, <1>5, <2>1, <2>2
<1> QED
  BY <1>2, <1>3, <1>4, <1>5, SimulatedCases

\* A request in use keeps its poster, and has one.
LEMMA OwnedStep ==
  ASSUME IInv, Owned, [Next]_vars
  PROVE  Owned'
<1> USE DEF threadVars, appVars, offVars, mpiVars
<1>0. /\ phase \in [Requests -> {"inactive", "posting", "active", "busy"}]
      /\ poster \in [Requests -> Threads \cup {nullptr}]
  BY DEF IInv, TypeOK
<1>1. ASSUME UNCHANGED poster, \A r \in Requests : phase'[r] # "inactive" => phase[r] # "inactive"
      PROVE  Owned'
  BY <1>1 DEF Owned
<1>2. ASSUME NEW t \in Threads, NEW r \in Requests, Post(t, r)
      PROVE  Owned'
  <2>1. /\ poster'[r] = t
        /\ \A q \in Requests \ {r} : poster'[q] = poster[q] /\ phase'[q] = phase[q]
    BY <1>0, <1>2 DEF Post
  <2> QED
    BY <2>1 DEF Owned
<1>3. ASSUME NEW t \in Threads, WaitRelease(t) \/ TestTrue(t)
      PROVE  Owned'
  <2>1. req[t] \in Requests
    BY <1>3, IndexFacts DEF HasIndex, WaitRelease, TestTrue
  <2>2. /\ phase'[req[t]] = "inactive"
        /\ \A q \in Requests \ {req[t]} : poster'[q] = poster[q] /\ phase'[q] = phase[q]
    BY <1>0, <1>3, <2>1 DEF WaitRelease, TestTrue, Inactive
  <2> QED
    BY <2>1, <2>2 DEF Owned
<1>4. ASSUME NEW t \in Threads, NEW r \in Requests, Wait(t, r) \/ Test(t, r)
      PROVE  Owned'
  <2>1. UNCHANGED poster /\ phase[r] = "active"
        /\ \A q \in Requests \ {r} : phase'[q] = phase[q]
    BY <1>0, <1>4 DEF Wait, Test
  <2> QED
    BY <1>1, <2>1
<1>5. ASSUME NEW t \in Threads, Enqueue(t) \/ TestFalse(t)
      PROVE  Owned'
  <2>1. req[t] \in Requests /\ phase[req[t]] \in {"posting", "busy"}
    BY <1>5 DEF IInv, ThreadInv, ThreadOK, InCall, Enqueue, TestFalse
  <2>2. UNCHANGED poster /\ \A q \in Requests \ {req[t]} : phase'[q] = phase[q]
    BY <1>0, <1>5, <2>1 DEF Enqueue, TestFalse
  <2> QED
    BY <1>1, <2>1, <2>2
<1>6. ASSUME UNCHANGED <<phase, poster>>
      PROVE  Owned'
  BY <1>1, <1>6
<1>7. CASE OffloadStep
  <2>1. UNCHANGED <<phase, poster>>
    BY <1>7 DEF OffloadStep, AppUnchanged, Loop, Dequeue, DequeueNone, Acquire,
          AcquireNone, Reset, Publish, Call, CallBlocking, CallReturn, CallFails,
          TestRequestPending, TestRequestComplete, TestRequestMark, ScanEnd, ScanSkip,
          ScanComplete, ScanMark, ScanErase
  <2> QED
    BY <1>6, <2>1
<1>8. ASSUME NEW t \in Threads, CallsLibrary(t) \/ InLibrary(t)
      PROVE  Owned'
  <2>1. CASE Stop(t) \/ WaitWord(t) \/ WaitDone(t) \/ WaitCopy(t) \/ WaitClear(t) \/ TestFlag(t) \/ Join(t)
    <3>1. UNCHANGED <<phase, poster>>
      BY <2>1 DEF Stop, WaitWord, WaitDone, WaitCopy, WaitClear, TestFlag, Join
    <3> QED
      BY <1>6, <3>1
  <2> QED
    BY <1>2, <1>3, <1>4, <1>5, <1>8, <2>1 DEF CallsLibrary, InLibrary
<1>9. CASE UNCHANGED vars \/ \E op \in Ops : Complete(op)
  BY <1>6, <1>9 DEF vars, Complete
<1> QED
  BY <1>7, <1>8, <1>9 DEF Next, Terminated

\* A step of the engine leaves the poster of a posted request alone.
LEMMA PosterStays ==
  ASSUME ~CallsMayFail, IInv, [Next]_vars, NEW r \in Requests, Stage(r) = "posted"
  PROVE  poster'[r] = poster[r]
<1> USE DEF threadVars, appVars, offVars, mpiVars
<1>0. /\ poster \in [Requests -> Threads \cup {nullptr}]
      /\ phase[r] # "inactive" /\ CurrentOp(r) \notin finished
  BY DEF IInv, TypeOK, Stage
<1>1. ASSUME NEW t \in Threads, NEW q \in Requests, Post(t, q)
      PROVE  poster'[r] = poster[r]
  BY <1>0, <1>1 DEF Post
<1>2. ASSUME NEW t \in Threads, WaitRelease(t) \/ TestTrue(t)
      PROVE  poster'[r] = poster[r]
  <2>1. HasIndex(t)
    BY <1>2 DEF HasIndex, WaitRelease, TestTrue
  <2>2. PICK q \in Requests : /\ q = req[t] /\ phase[q] = "busy"
                              /\ idx[t] = word[q] /\ idx[t] \in Usable
    BY <2>1, IndexFacts
  <2>3. CurrentOp(q) \in finished
    <3>1. CASE WaitRelease(t)
      BY <2>2, <3>1 DEF IInv, ThreadInv, ThreadOK, WaitRelease
    <3>2. CASE TestTrue(t)
      <4>1. done[idx[t]]
        BY <3>2 DEF IInv, ThreadInv, ThreadOK, TestTrue
      <4>2. Completed(q, idx[t])
        BY <2>2, <4>1 DEF IInv, FlagInv, FlagOK, Live
      <4> QED
        BY <4>2 DEF Completed
    <3> QED
      BY <1>2, <3>1, <3>2
  <2>4. q # r
    BY <1>0, <2>3
  <2> QED
    BY <1>0, <1>2, <2>2, <2>4 DEF WaitRelease, TestTrue, Inactive
<1>3. ASSUME NEW t \in Threads, CallsLibrary(t) \/ InLibrary(t)
      PROVE  poster'[r] = poster[r]
  <2>1. ASSUME NEW q \in Requests, Wait(t, q) \/ Test(t, q)
        PROVE  UNCHANGED poster
    BY <2>1 DEF Wait, Test
  <2>2. CASE \/ Stop(t) \/ WaitWord(t) \/ WaitDone(t) \/ WaitCopy(t) \/ WaitClear(t)
             \/ TestFlag(t) \/ TestFalse(t) \/ Join(t) \/ Enqueue(t)
    BY <2>2 DEF Stop, WaitWord, WaitDone, WaitCopy, WaitClear, TestFlag, TestFalse, Join, Enqueue
  <2> QED
    BY <1>1, <1>2, <1>3, <2>1, <2>2 DEF CallsLibrary, InLibrary
<1>4. CASE OffloadStep
  BY <1>4 DEF OffloadStep, AppUnchanged, Loop, Dequeue, DequeueNone, Acquire,
        AcquireNone, Reset, Publish, Call, CallBlocking, CallReturn, CallFails,
        TestRequestPending, TestRequestComplete, TestRequestMark, ScanEnd, ScanSkip,
        ScanComplete, ScanMark, ScanErase
<1>5. CASE UNCHANGED vars \/ \E op \in Ops : Complete(op)
  BY <1>5 DEF vars, Complete
<1> QED
  BY <1>3, <1>4, <1>5 DEF Next, Terminated

\* The program of thread t: what is left of its calls.
Program(t) == Only(NotCalled, PostedBy(t))

\* A step of the engine is a step of its threads.
LEMMA ThreadsSimulated ==
  ASSUME ~CallsMayFail, IInv, InOrder, InOrder', Owned, Owned', [Next]_vars, Simulated
  PROVE  [TM!Next]_(TM!vars)
<1> DEFINE programs == [t \in Threads |-> Program(t)]
<1>0. PICK n \in Seq(Requests) : n = NotCalled
  BY DEF InOrder
<1>1. \A i \in 1 .. Len(n) : n[i] \in Requests /\ Stage(n[i]) = "posted"
  BY <1>0 DEF InOrder
<1>2. ASSUME NEW s \in Seq(Requests), NEW t \in Threads,
             \A i \in 1 .. Len(s) : Stage(s[i]) = "posted"
      PROVE  Only(s, PostedBy(t)') = Only(s, PostedBy(t))
  <2>1. \A i \in 1 .. Len(s) : s[i] \in Requests
    BY <1>2
  <2>2. \A i \in 1 .. Len(s) : poster'[s[i]] = poster[s[i]]
    BY <1>2, <2>1, PosterStays
  <2>3. \A i \in 1 .. Len(s) : s[i] \in PostedBy(t)' <=> s[i] \in PostedBy(t)
    BY <2>1, <2>2 DEF PostedBy
  <2> QED
    BY <2>3, OnlySame
<1>3. \A t \in Threads : Only(n, PostedBy(t)') = Program(t)
  BY <1>0, <1>1, <1>2 DEF Program
<1>4. ASSUME NotCalled' = NotCalled
      PROVE  UNCHANGED programs
  <2>1. \A t \in Threads : Program(t)' = Program(t)
    BY <1>0, <1>3, <1>4 DEF Program
  <2> QED
    BY <2>1
<1>5. CASE UNCHANGED <<Places, NotCalled>>
  BY <1>4, <1>5 DEF TM!vars, Places, Program
<1>6. ASSUME NEW r \in Requests, Stage(r) = "inactive",
             Places' = [Places EXCEPT ![r] = "posted"], NotCalled' = Append(NotCalled, r)
      PROVE  TM!Next
  <2>1. PICK t \in Threads : poster'[r] = t
    <3>1. Stage(r)' = "posted"
      BY <1>6, PlacesAre
    <3>2. phase'[r] # "inactive"
      BY <3>1 DEF Stage
    <3> QED
      BY <3>2 DEF Owned
  <2>2. \A u \in Threads : Program(u)' = IF u = t THEN Append(Program(u), r) ELSE Program(u)
    <3> SUFFICES ASSUME NEW u \in Threads
                 PROVE  Program(u)' = IF u = t THEN Append(Program(u), r) ELSE Program(u)
      OBVIOUS
    <3>1. Only(Append(n, r), PostedBy(u)')
             = IF r \in PostedBy(u)' THEN Append(Only(n, PostedBy(u)'), r) ELSE Only(n, PostedBy(u)')
      BY OnlyAppend
    <3>2. r \in PostedBy(u)' <=> u = t
      BY <2>1 DEF PostedBy
    <3>3. Program(u)' = Only(Append(n, r), PostedBy(u)')
      BY <1>0, <1>6 DEF Program
    <3> QED
      BY <1>3, <3>1, <3>2, <3>3
  <2>3. programs' = [programs EXCEPT ![t] = Append(@, r)]
    BY <2>2
  <2>4. TM!Post(t, r)
    BY <1>6, <2>3 DEF TM!Post, Places, Program
  <2> QED
    BY <2>4 DEF TM!Next
<1>7. ASSUME NotCalled # << >>, NotCalled' = Tail(NotCalled),
             Places' = [Places EXCEPT ![Head(NotCalled)] = "started"]
      PROVE  TM!Next
  <2>1. PICK r \in Requests, s \in Seq(Requests) :
           /\ r = Head(n) /\ s = Tail(n) /\ n = <<r>> \o s /\ Stage(r) = "posted"
           /\ \A i \in 1 .. Len(s) : Stage(s[i]) = "posted"
    <3>1. /\ Head(n) \in Requests /\ Tail(n) \in Seq(Requests) /\ n = <<Head(n)>> \o Tail(n)
          /\ Head(n) = n[1] /\ 1 \in 1 .. Len(n)
          /\ \A i \in 1 .. Len(Tail(n)) : Tail(n)[i] = n[i + 1] /\ i + 1 \in 1 .. Len(n)
      BY <1>0, <1>7
    <3> QED
      BY <1>1, <3>1
  <2>2. PICK t \in Threads : poster[r] = t
    <3>1. phase[r] # "inactive"
      BY <2>1 DEF Stage
    <3> QED
      BY <3>1 DEF Owned
  <2>3. \A u \in Threads :
           Program(u) = IF u = t THEN <<r>> \o Program(u)' ELSE Program(u)'
    <3> SUFFICES ASSUME NEW u \in Threads
                 PROVE  Program(u) = IF u = t THEN <<r>> \o Program(u)' ELSE Program(u)'
      OBVIOUS
    <3>1. Only(<<r>> \o s, PostedBy(u))
             = IF r \in PostedBy(u) THEN <<r>> \o Only(s, PostedBy(u)) ELSE Only(s, PostedBy(u))
      <4>1. r \in Requests /\ s \in Seq(Requests)
        BY <2>1
      <4>2. KeptFirst(Requests, r, s, PostedBy(u))
        BY <4>1, OnlyFront, Zenon
      <4> QED
        BY <4>2 DEF KeptFirst
    <3>2. r \in PostedBy(u) <=> u = t
      BY <2>2 DEF PostedBy
    <3>3. Only(s, PostedBy(u)) = Program(u)'
      BY <1>0, <1>2, <1>7, <2>1 DEF Program
    <3>4. Program(u) = Only(<<r>> \o s, PostedBy(u))
      BY <1>0, <2>1 DEF Program
    <3> QED
      BY <3>1, <3>2, <3>3, <3>4
  <2>4. Program(t) # << >> /\ Head(Program(t)) = r /\ Tail(Program(t)) = Program(t)'
    <3>1. Program(t)' \in Seq(Requests)
      <4>1. Only(s, PostedBy(t)') \in Seq(Requests)
        BY <2>1, OnlyAppend
      <4> QED
        BY <1>0, <1>7, <2>1, <4>1 DEF Program
    <3>2. Program(t) = <<r>> \o Program(t)'
      BY <2>3
    <3> QED
      BY <3>1, <3>2, HeadAndTail
  <2>5. programs' = [programs EXCEPT ![t] = Tail(@)]
    BY <2>3, <2>4
  <2>6. TM!Start(t)
    BY <1>0, <1>7, <2>1, <2>4, <2>5 DEF TM!Start, Places, Program
  <2> QED
    BY <2>6 DEF TM!Next
<1>8. ASSUME NEW r \in Requests, Stage(r) = "started", UNCHANGED NotCalled,
             Places' = [Places EXCEPT ![r] = "finished"]
      PROVE  TM!Next
  <2>1. TM!Finish(r)
    BY <1>4, <1>8 DEF TM!Finish, Places, Program
  <2> QED
    BY <2>1 DEF TM!Next
<1>9. ASSUME NEW r \in Requests, Stage(r) = "finished", UNCHANGED NotCalled,
             Places' = [Places EXCEPT ![r] = "inactive"]
      PROVE  TM!Next
  <2>1. TM!Return(r)
    BY <1>4, <1>9 DEF TM!Return, Places, Program
  <2> QED
    BY <2>1 DEF TM!Next
<1> QED
  BY <1>5, <1>6, <1>7, <1>8, <1>9, SimulatedCases

\* At first no list has an element.
LEMMA OnlyNone ==
  ASSUME NEW S
  PROVE  Only(<< >>, S) = << >>
<1>1. << >> \in Seq({}) /\ Len(<< >>) = 0
  OBVIOUS
<1>2. PICK f : Only(<< >>, S) = f[Len(<< >>)] /\ Lists(f, {}, Len(<< >>))
  BY <1>1, OnlyFacts, Zenon
<1> QED
  BY <1>1, <1>2 DEF Lists

\* The promise of the library, if MPI calls do not fail: every thread may post
\* and complete, MPI gets the operations of a thread in the thread's own order,
\* and a request is inactive again only when its operation is over.
THEOREM EngineIsThreadMultiple ==
  ASSUME ~CallsMayFail
  PROVE  Spec => ImplementsThreadMultiple
<1>1. Init => TM!Init /\ OneThread!Init /\ InOrder /\ Owned
  <2> SUFFICES ASSUME Init
               PROVE  TM!Init /\ OneThread!Init /\ InOrder /\ Owned
    OBVIOUS
  <2>1. NotCalled = << >> /\ \A r \in Requests : Stage(r) = "inactive"
    BY DEF Init, Queue!Init, Stage, NotCalled
  <2>2. \A t \in Threads : Only(NotCalled, PostedBy(t)) = << >>
    BY <2>1, OnlyNone
  <2>3. TM!Init /\ OneThread!Init
    BY <2>1, <2>2 DEF TM!Init, OneThread!Init
  <2>4. InOrder
    BY <2>1 DEF InOrder
  <2>5. Owned
    BY DEF Init, Owned
  <2> QED
    BY <2>3, <2>4, <2>5
<1>2. IInv /\ IInv' /\ InOrder /\ Owned /\ [Next]_vars
         => InOrder' /\ Owned' /\ [TM!Next]_(TM!vars)
  <2> SUFFICES ASSUME IInv, IInv', InOrder, Owned, [Next]_vars
               PROVE  InOrder' /\ Owned' /\ [TM!Next]_(TM!vars)
    OBVIOUS
  <2>1. Simulated
    BY StepSimulated
  <2>2. InOrder' /\ Owned'
    BY <2>1, OrderStep, OwnedStep
  <2> QED
    BY <2>1, <2>2, ThreadsSimulated
<1> QED
  BY <1>1, <1>2, Invariance, PTL DEF Spec, ImplementsThreadMultiple, TM!Spec

=============================================================================
