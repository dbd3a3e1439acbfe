------------------------- MODULE InterpositionProofs ------------------------
(***************************************************************************)
(* What an application keeps that mixes offloaded calls with calls that    *)
(* are not interposed, for any number of threads, requests, handles and    *)
(* calls.  The order of its calls, the objects they name and the messages  *)
(* they receive need care of the application (Settled), or that it makes   *)
(* no direct call of the kind that can overtake the queue; what            *)
(* MPI_Waitall promises needs neither.                                     *)
(***************************************************************************)
EXTENDS Interposition, SequenceTheorems, TLAPS

\* What the application does so that no direct call overtakes an operation, no
\* object is freed under one, and no message is matched over one.
Ordered == Settled \/ DirectRoles \cap {"communicates", "derives", "starts", "matches"} = {}
Kept == Settled \/ "frees" \notin DirectRoles
Single == Settled \/ "matches" \notin DirectRoles

Active(r) == stage[r] # "inactive"

\* The i-th command of t in the queue.
Queued(t, i) == op[program[t][i]]

\* An active request is the engine's, and remembers the call that posted it.
EngineInv ==
    \A r \in Requests :
        /\ Active(r) <=> word[r] = "engine"
        /\ Active(r) => /\ op[r].thread \in Threads /\ op[r].handle \in Handles
                        /\ op[r].number \in 1 .. calls[op[r].thread]
                        /\ op[r].message \in Nat

\* The queue has the thread's posted operations, oldest first.
ProgramInv ==
    \A t \in Threads : \A i \in 1 .. Len(program[t]) :
        /\ stage[program[t][i]] = "posted"
        /\ Queued(t, i).thread = t
        /\ \A j \in 1 .. i - 1 : Queued(t, j).number < Queued(t, i).number

BaseInv == TypeOK /\ EngineInv /\ ProgramInv

\* No call of t has reached MPI over the handle of a queued one that is newer.
OrderInv ==
    \A t \in Threads :
        /\ \A h \in Handles : reached[t][h] <= calls[t]
        /\ \A i \in 1 .. Len(program[t]) :
              reached[t][Queued(t, i).handle] < Queued(t, i).number

\* The operations that are not complete name objects that exist.
HandleInv == \A r \in Requests : Active(r) => handles[op[r].handle] = "open"

\* A queued MPI_Imrecv finds its message in the variable of its thread, and no
\* other is queued that will look there.
MessageInv ==
    \A r \in Requests : stage[r] = "posted" /\ op[r].message # 0 =>
        /\ message[op[r].thread] = op[r].message
        /\ \A q \in Requests :
              stage[q] = "posted" /\ op[q].message # 0 /\ op[q].thread = op[r].thread => q = r

\* What MPI_Waitall has waited for stays complete until it returns.
ArrayInv ==
    \A t \in Threads : \A r \in ToSet(array[t]) :
        r \in ToSet(waiting[t]) \/ stage[r] = "inactive"

InterpositionInv == /\ BaseInv /\ ArrayInv
                    /\ (Ordered => OrderInv) /\ (Kept => HandleInv) /\ (Single => MessageInv)

-----------------------------------------------------------------------------
\* What each step does to the state of the requests.
LEMMA ToSetFacts ==
  ASSUME NEW S, NEW s \in Seq(S)
  PROVE  /\ ToSet(s) \subseteq S
         /\ \A i \in 1 .. Len(s) : s[i] \in ToSet(s)
         /\ \A x \in ToSet(s) : \E i \in 1 .. Len(s) : x = s[i]
         /\ s # << >> => /\ Head(s) \in S /\ Tail(s) \in Seq(S)
                         /\ \A x \in ToSet(s) : x = Head(s) \/ x \in ToSet(Tail(s))
<1>0. \A r \in Seq(S) : ToSet(r) = {r[i] : i \in 1 .. Len(r)}
  BY DEF ToSet
<1>1. /\ ToSet(s) = {s[i] : i \in 1 .. Len(s)}
      /\ \A i \in 1 .. Len(s) : s[i] \in S
  BY <1>0
<1>2. ASSUME s # << >>
      PROVE  /\ Head(s) \in S /\ Tail(s) \in Seq(S)
             /\ \A x \in ToSet(s) : x = Head(s) \/ x \in ToSet(Tail(s))
  <2>1. /\ Tail(s) \in Seq(S) /\ Len(Tail(s)) = Len(s) - 1 /\ Head(s) = s[1] /\ Len(s) \in Nat
        /\ \A i \in 1 .. Len(s) - 1 : Tail(s)[i] = s[i + 1]
        /\ Head(s) \in S
    BY <1>2, HeadTailProperties
  <2>2. ToSet(Tail(s)) = {Tail(s)[i] : i \in 1 .. Len(s) - 1}
    BY <1>0, <2>1
  <2>3. ASSUME NEW i \in 1 .. Len(s)
        PROVE  s[i] = Head(s) \/ s[i] \in ToSet(Tail(s))
    <3>1. CASE i = 1
      BY <2>1, <3>1
    <3>2. CASE i # 1
      <4>1. i - 1 \in 1 .. Len(s) - 1 /\ Tail(s)[i - 1] = s[i]
        BY <2>1, <3>2
      <4> QED
        BY <2>2, <4>1
    <3> QED
      BY <3>1, <3>2
  <2> QED
    BY <1>1, <2>1, <2>3
<1> QED
  BY <1>1, <1>2

\* A direct call, and an MPI_Wait that misreads its request, leave the engine
\* and its requests alone.
LEMMA DirectStep ==
  ASSUME TypeOK, NEW t \in Threads, NotOffloaded(t) \/ WaitMisreads(t)
  PROVE  /\ TypeOK'
         /\ UNCHANGED <<stage, program, op, waiting, array>>
         /\ \A r \in Requests : word'[r] = "engine" <=> word[r] = "engine"
         /\ \A u \in Threads : calls'[u] >= calls[u]
<1> USE DEF engine, TypeOK, TM!TypeOK, May
<1>0. None # "engine" /\ MaxCalls \in Nat /\ \A u \in Threads : calls[u] \in 0 .. MaxCalls
  BY InterpositionAssumption
<1>1. ASSUME Calling(t)
      PROVE  /\ calls' \in [Threads -> 0 .. MaxCalls] /\ calls'[t] \in 0 .. MaxCalls
             /\ \A u \in Threads : calls'[u] >= calls[u]
  BY <1>0, <1>1 DEF Calling
<1>2. ASSUME Calling(t), NEW h \in Handles, Reach(t, h)
      PROVE  reached' \in [Threads -> [Handles -> 0 .. MaxCalls]]
  BY <1>1, <1>2 DEF Reach
<1>3. CASE LocalCall(t)
  BY <1>1, <1>3 DEF LocalCall
<1>4. CASE Receive(t)
  BY <1>1, <1>4 DEF Receive
<1>5. ASSUME NEW h \in Handles, Communicate(t, h)
      PROVE  TypeOK' /\ UNCHANGED <<stage, program, op, waiting, array, word>>
  BY <1>1, <1>2, <1>5 DEF Communicate
<1>6. ASSUME NEW h \in Handles, Create(t, h)
      PROVE  TypeOK' /\ UNCHANGED <<stage, program, op, waiting, array, word>>
  BY <1>1, <1>6 DEF Create
<1>7. ASSUME NEW h \in Handles, Free(t, h)
      PROVE  TypeOK' /\ UNCHANGED <<stage, program, op, waiting, array, word>>
  BY <1>1, <1>7 DEF Free
<1>8. ASSUME NEW h \in Handles, Close(t, h)
      PROVE  TypeOK' /\ UNCHANGED <<stage, program, op, waiting, array, word>>
  BY <1>1, <1>2, <1>8 DEF Close
<1>9. ASSUME NEW h \in Handles, Match(t, h)
      PROVE  TypeOK' /\ UNCHANGED <<stage, program, op, waiting, array, word>>
  <2>1. \/ matched' = matched + 1 /\ message' = [message EXCEPT ![t] = matched + 1]
        \/ matched' = matched /\ message' = message
    BY <1>9 DEF Match
  <2>2. message' \in [Threads -> Nat] /\ matched' \in Nat
    <3>1. message \in [Threads -> Nat] /\ matched \in Nat /\ matched + 1 \in Nat
      OBVIOUS
    <3>2. [message EXCEPT ![t] = matched + 1] \in [Threads -> Nat]
      BY <3>1
    <3> QED
      BY <2>1, <3>1, <3>2, Zenon
  <2> QED
    BY <1>1, <1>2, <1>9, <2>2 DEF Match
<1>10. ASSUME NEW h \in Handles, NEW new \in Handles, Derive(t, h, new)
       PROVE  TypeOK' /\ UNCHANGED <<stage, program, op, waiting, array, word>>
  BY <1>1, <1>2, <1>10 DEF Derive
<1>11. ASSUME NEW h \in Handles, NEW r \in Requests, StartDirect(t, r, h)
       PROVE  /\ TypeOK' /\ UNCHANGED <<stage, program, op, waiting, array>>
              /\ \A q \in Requests : word'[q] = "engine" <=> word[q] = "engine"
  BY <1>0, <1>1, <1>2, <1>11 DEF StartDirect
<1>12. ASSUME NEW r \in Requests, UseRequest(t, r)
       PROVE  /\ TypeOK' /\ UNCHANGED <<stage, program, op, waiting, array>>
              /\ \A q \in Requests : word'[q] = "engine" <=> word[q] = "engine"
  BY <1>0, <1>1, <1>12 DEF UseRequest
<1>13. CASE WaitMisreads(t)
  BY <1>0, <1>13, ToSetFacts DEF WaitMisreads
<1> QED
  BY <1>1, <1>3, <1>4, <1>5, <1>6, <1>7, <1>8, <1>9, <1>10, <1>11, <1>12, <1>13
     DEF NotOffloaded, LocalCall, Receive, Communicate, Create, Free, Close, Match, Derive,
         StartDirect, UseRequest

\* A request is queued once.
LEMMA QueuedOnce ==
  ASSUME BaseInv, NEW t \in Threads, NEW i \in 1 .. Len(program[t])
  PROVE  /\ program[t] \in Seq(Requests) /\ Len(program[t]) \in Nat
         /\ program[t][i] \in Requests /\ stage[program[t][i]] = "posted" /\ Active(program[t][i])
         /\ Queued(t, i).thread = t /\ Queued(t, i).handle \in Handles
         /\ Queued(t, i).number \in 1 .. calls[t] /\ calls[t] \in Nat
         /\ \A u \in Threads : \A j \in 1 .. Len(program[u]) :
               program[u][j] = program[t][i] => u = t /\ j = i
<1>1. /\ program[t] \in Seq(Requests) /\ Len(program[t]) \in Nat /\ program[t][i] \in Requests
      /\ \A u \in Threads : program[u] \in Seq(Requests)
      /\ calls[t] \in Nat
  BY InterpositionAssumption DEF BaseInv, TypeOK, TM!TypeOK
<1>2. /\ stage[program[t][i]] = "posted" /\ Active(program[t][i])
      /\ Queued(t, i).thread = t
  BY DEF BaseInv, ProgramInv, Active
<1>3. /\ Queued(t, i).handle \in Handles /\ Queued(t, i).number \in 1 .. calls[t]
  BY <1>1, <1>2 DEF BaseInv, EngineInv, Queued
<1>4. ASSUME NEW u \in Threads, NEW j \in 1 .. Len(program[u]), program[u][j] = program[t][i]
      PROVE  u = t /\ j = i
  <2>1. u = t
    BY <1>2, <1>4 DEF BaseInv, ProgramInv, Queued
  <2>2. Queued(t, j).number = Queued(t, i).number
    BY <1>4, <2>1 DEF Queued
  <2>3. ~(j < i) /\ ~(i < j)
    BY <1>1, <1>3, <1>4, <2>1, <2>2 DEF BaseInv, ProgramInv
  <2> QED
    BY <1>1, <2>1, <2>3
<1> QED
  BY <1>1, <1>2, <1>3, <1>4

\* What a post does to the queue of its thread.
PostEffect(t, r, h, m) ==
    /\ ~Active(r) /\ stage'[r] = "posted" /\ Active(r)'
    /\ \A q \in Requests : q # r => stage'[q] = stage[q] /\ op'[q] = op[q]
    /\ op'[r] = [thread |-> t, number |-> calls'[t], handle |-> h, message |-> m]
    /\ calls'[t] = calls[t] + 1 /\ calls'[t] \in 1 .. MaxCalls /\ MaxCalls \in Nat
    /\ \A u \in Threads : u # t => calls'[u] = calls[u] /\ program'[u] = program[u]
    /\ Len(program'[t]) = Len(program[t]) + 1 /\ Len(program[t]) \in Nat
    /\ program'[t][Len(program[t]) + 1] = r
    /\ \A i \in 1 .. Len(program[t]) :
          program'[t][i] = program[t][i] /\ program[t][i] # r /\ program[t][i] \in Requests
    /\ program' \in [Threads -> Seq(Requests)]

\* PostOp has that effect.
LEMMA PostFacts ==
  ASSUME BaseInv, NEW t \in Threads, NEW r \in Requests, NEW h \in Handles, NEW m \in Nat,
         PostOp(t, r, h, m)
  PROVE  PostEffect(t, r, h, m)
<1>0. /\ program[t] \in Seq(Requests) /\ program \in [Threads -> Seq(Requests)]
      /\ stage \in [Requests -> {"inactive", "posted", "started", "finished"}]
      /\ calls \in [Threads -> 0 .. MaxCalls] /\ MaxCalls \in Nat
      /\ DOMAIN op = Requests
  BY InterpositionAssumption DEF BaseInv, TypeOK, TM!TypeOK
<1>1. /\ ~Active(r) /\ stage' = [stage EXCEPT ![r] = "posted"]
      /\ program' = [program EXCEPT ![t] = Append(@, r)]
      /\ calls' = [calls EXCEPT ![t] = @ + 1] /\ calls[t] < MaxCalls
      /\ op' = [op EXCEPT ![r] = [thread |-> t, number |-> calls'[t], handle |-> h, message |-> m]]
  BY DEF PostOp, TM!Post, Calling, Active
<1>2. /\ Append(program[t], r) \in Seq(Requests)
      /\ Len(Append(program[t], r)) = Len(program[t]) + 1 /\ Len(program[t]) \in Nat
      /\ Append(program[t], r)[Len(program[t]) + 1] = r
      /\ \A i \in 1 .. Len(program[t]) :
            Append(program[t], r)[i] = program[t][i] /\ program[t][i] \in Requests
  BY <1>0, AppendProperties
<1>3. \A i \in 1 .. Len(program[t]) : program[t][i] # r
  BY <1>1, QueuedOnce
<1> QED
  BY <1>0, <1>1, <1>2, <1>3 DEF Active, PostEffect

\* What a start does to the queue of its thread.
StartEffect(t) ==
    /\ Len(program[t]) \in Nat /\ Len(program[t]) >= 1
    /\ Head(program[t]) = program[t][1] /\ program[t][1] \in Requests
    /\ stage[program[t][1]] = "posted" /\ Active(program[t][1])
    /\ stage' = [stage EXCEPT ![program[t][1]] = "started"]
    /\ Len(program'[t]) = Len(program[t]) - 1
    /\ \A i \in 1 .. Len(program'[t]) :
          i + 1 \in 1 .. Len(program[t]) /\ program'[t][i] = program[t][i + 1]
    /\ \A u \in Threads : u # t => program'[u] = program[u]
    /\ program' \in [Threads -> Seq(Requests)]
    /\ \A u \in Threads : \A i \in 1 .. Len(program'[u]) : program'[u][i] # program[t][1]
    /\ UNCHANGED <<op, word, calls, waiting, array, handles, matched, misread>>

\* Start has that effect.
LEMMA StartFacts ==
  ASSUME BaseInv, NEW t \in Threads, Start(t)
  PROVE  StartEffect(t)
<1>0. /\ program[t] \in Seq(Requests) /\ program \in [Threads -> Seq(Requests)]
      /\ program[t] # << >>
      /\ stage' = [stage EXCEPT ![Head(program[t])] = "started"]
      /\ program' = [program EXCEPT ![t] = Tail(@)]
  BY DEF BaseInv, TypeOK, TM!TypeOK, Start, TM!Start
<1>1. /\ Tail(program[t]) \in Seq(Requests) /\ Len(Tail(program[t])) = Len(program[t]) - 1
      /\ Head(program[t]) = program[t][1] /\ Len(program[t]) \in Nat /\ Len(program[t]) >= 1
      /\ \A i \in 1 .. Len(program[t]) - 1 : Tail(program[t])[i] = program[t][i + 1]
  BY <1>0, HeadTailProperties
<1>2. /\ Len(program'[t]) = Len(program[t]) - 1
      /\ \A i \in 1 .. Len(program'[t]) :
            i + 1 \in 1 .. Len(program[t]) /\ program'[t][i] = program[t][i + 1]
      /\ \A u \in Threads : u # t => program'[u] = program[u]
      /\ program' \in [Threads -> Seq(Requests)]
  BY <1>0, <1>1
<1>3. 1 \in 1 .. Len(program[t]) /\ program[t][1] \in Requests
      /\ stage[program[t][1]] = "posted" /\ Active(program[t][1])
  BY <1>1, QueuedOnce
<1>4. ASSUME NEW u \in Threads, NEW i \in 1 .. Len(program'[u]), program'[u][i] = program[t][1]
      PROVE  FALSE
  <2>1. CASE u = t
    <3>1. i + 1 \in 1 .. Len(program[t]) /\ program[t][i + 1] = program[t][1]
      BY <1>2, <1>4, <2>1
    <3>2. i + 1 = 1
      BY <1>3, <3>1, QueuedOnce
    <3> QED
      BY <3>2
  <2>2. CASE u # t
    <3>1. i \in 1 .. Len(program[u]) /\ program[u][i] = program[t][1]
      BY <1>2, <1>4, <2>2
    <3> QED
      BY <1>3, <2>2, <3>1, QueuedOnce
  <2> QED
    BY <2>1, <2>2
<1>5. UNCHANGED <<op, word, calls, waiting, array, handles, matched, misread>>
  BY DEF Start
<1> QED
  BY <1>0, <1>1, <1>2, <1>3, <1>4, <1>5 DEF StartEffect

\* A request that waits for MPI_Wait is not queued when MPI_Wait returns.
LEMMA WaitFacts ==
  ASSUME BaseInv, NEW t \in Threads, WaitNext(t)
  PROVE  LET r == Head(waiting[t])
         IN  /\ waiting[t] # << >> /\ r \in Requests /\ stage[r] = "finished" /\ Active(r)
             /\ stage' = [stage EXCEPT ![r] = "inactive"] /\ program' = program
             /\ op' = [op EXCEPT ![r] = NoOp] /\ word' = [word EXCEPT ![r] = None]
             /\ waiting' = [waiting EXCEPT ![t] = Tail(@)]
             /\ Tail(waiting[t]) \in Seq(Requests)
             /\ UNCHANGED <<calls, handles, message, matched, misread, reached>>
             /\ array' = IF waiting'[t] = << >> THEN [array EXCEPT ![t] = << >>] ELSE array
             /\ \A u \in Threads : \A i \in 1 .. Len(program[u]) : program[u][i] # r
<1>1. waiting[t] \in Seq(Requests) /\ waiting[t] # << >>
  BY DEF BaseInv, TypeOK, WaitNext
<1>2. Head(waiting[t]) \in Requests /\ Tail(waiting[t]) \in Seq(Requests)
  BY <1>1, ToSetFacts
<1>3. stage[Head(waiting[t])] = "finished"
  BY DEF WaitNext, TM!Return
<1>4. \A u \in Threads : \A i \in 1 .. Len(program[u]) : program[u][i] # Head(waiting[t])
  BY <1>3, QueuedOnce
<1> QED
  BY <1>1, <1>2, <1>3, <1>4 DEF WaitNext, TM!Return, NextRequest, Active

\* The steps in which MPI finishes an operation, or a thread begins to wait.
LEMMA QuietFacts ==
  ASSUME TypeOK, (\E r \in Requests : Finish(r))
                 \/ (\E t \in Threads : \E r \in Requests : \E q \in Requests :
                        Waitall(t, <<r>>) \/ Waitall(t, <<r, q>>))
  PROVE  /\ TypeOK'
         /\ UNCHANGED <<program, op, word, handles, message, matched, misread, reached>>
         /\ \A u \in Threads : calls'[u] >= calls[u]
         /\ \A r \in Requests : /\ stage'[r] = "inactive" <=> stage[r] = "inactive"
                                /\ stage'[r] = "posted" <=> stage[r] = "posted"
<1> USE DEF TypeOK, TM!TypeOK, engine
<1>0. MaxCalls \in Nat /\ \A u \in Threads : calls[u] \in 0 .. MaxCalls
  BY InterpositionAssumption
<1>1. ASSUME NEW r \in Requests, Finish(r)
      PROVE  /\ TypeOK' /\ UNCHANGED <<program, op, word, calls, handles, message, matched, misread, reached>>
             /\ \A q \in Requests : /\ stage'[q] = "inactive" <=> stage[q] = "inactive"
                                    /\ stage'[q] = "posted" <=> stage[q] = "posted"
  BY <1>1 DEF Finish, TM!Finish
<1>2. ASSUME NEW t \in Threads, NEW rs \in Seq(Requests), Waitall(t, rs)
      PROVE  /\ TypeOK' /\ UNCHANGED <<stage, program, op, word, handles, message, matched, misread, reached>>
             /\ \A u \in Threads : calls'[u] >= calls[u]
  <2>1. /\ UNCHANGED <<stage, program, op, word, handles, message, matched, misread, reached>>
        /\ calls' = [calls EXCEPT ![t] = @ + 1] /\ calls[t] < MaxCalls
        /\ waiting' = [waiting EXCEPT ![t] = rs] /\ array' = [array EXCEPT ![t] = rs]
    BY <1>2 DEF Waitall, Calling
  <2>2. /\ calls' \in [Threads -> 0 .. MaxCalls] /\ \A u \in Threads : calls'[u] >= calls[u]
        /\ waiting' \in [Threads -> Seq(Requests)] /\ array' \in [Threads -> Seq(Requests)]
    BY <1>0, <2>1
  <2> QED
    BY <2>1, <2>2
<1>3. \A r, q \in Requests : <<r>> \in Seq(Requests) /\ <<r, q>> \in Seq(Requests)
  OBVIOUS
<1>4. CASE \E r \in Requests : Finish(r)
  <2>1. PICK r \in Requests : Finish(r)
    BY <1>4
  <2> HIDE DEF TypeOK
  <2> QED
    BY <1>0, <1>1, <2>1
<1>5. CASE \E t \in Threads : \E r \in Requests : \E q \in Requests :
              Waitall(t, <<r>>) \/ Waitall(t, <<r, q>>)
  <2>1. PICK t \in Threads, rs \in Seq(Requests) : Waitall(t, rs)
    BY <1>3, <1>5
  <2> HIDE DEF TypeOK
  <2> QED
    BY <1>2, <2>1
<1> QED
  BY <1>4, <1>5

\* A post keeps BaseInv: the new operation has the highest number of its thread.
LEMMA BasePost ==
  ASSUME BaseInv, NEW t \in Threads, NEW r \in Requests, NEW h \in Handles, NEW m \in Nat,
         PostOp(t, r, h, m)
  PROVE  BaseInv'
<1>0. /\ TypeOK /\ EngineInv /\ ProgramInv
      /\ MaxCalls \in Nat /\ \A u \in Threads : calls[u] \in 0 .. MaxCalls
      /\ calls' = [calls EXCEPT ![t] = @ + 1]
      /\ word' = [word EXCEPT ![r] = "engine"]
      /\ stage' = [stage EXCEPT ![r] = "posted"]
      /\ op' = [op EXCEPT ![r] = [thread |-> t, number |-> calls'[t], handle |-> h, message |-> m]]
      /\ UNCHANGED <<waiting, array, handles, message, matched, misread, reached>>
  BY InterpositionAssumption DEF BaseInv, TypeOK, PostOp, Calling, TM!Post
<1>f. PostEffect(t, r, h, m)
  BY PostFacts
<1>1. TypeOK'
  <2>1. /\ calls' \in [Threads -> 0 .. MaxCalls] /\ calls'[t] \in 1 .. MaxCalls
        /\ program' \in [Threads -> Seq(Requests)]
    <3>1. calls \in [Threads -> 0 .. MaxCalls]
      BY <1>0 DEF TypeOK
    <3>2. calls'[t] \in 1 .. MaxCalls /\ program' \in [Threads -> Seq(Requests)]
      BY <1>f DEF PostEffect
    <3> QED
      BY <1>0, <3>1, <3>2
  <2>2. [thread |-> t, number |-> calls'[t], handle |-> h, message |-> m]
          \in [thread : Threads, number : 1 .. MaxCalls, handle : Handles, message : Nat]
    BY <2>1
  <2> QED
    BY <1>0, <2>1, <2>2 DEF TypeOK, TM!TypeOK
<1>2. EngineInv'
  <2>1. ASSUME NEW q \in Requests, q # r
        PROVE  /\ Active(q)' <=> Active(q)
               /\ word'[q] = word[q] /\ op'[q] = op[q]
    BY <1>0, <2>1 DEF Active, TypeOK, TM!TypeOK
  <2>2. \A u \in Threads : \A n \in 1 .. calls[u] : n \in 1 .. calls'[u]
    BY <1>0 DEF TypeOK
  <2>3. Active(r)' /\ word'[r] = "engine"
    BY <1>0, <1>f DEF TypeOK, PostEffect
  <2>4. /\ op'[r].thread = t /\ op'[r].handle = h /\ op'[r].number = calls'[t]
        /\ op'[r].message = m /\ calls'[t] \in 1 .. calls'[t]
    BY <1>0, <1>f DEF PostEffect
  <2>5. ASSUME NEW q \in Requests
        PROVE  /\ Active(q)' <=> word'[q] = "engine"
               /\ Active(q)' => /\ op'[q].thread \in Threads /\ op'[q].handle \in Handles
                                /\ op'[q].number \in 1 .. calls'[op'[q].thread]
                                /\ op'[q].message \in Nat
    <3>1. CASE q = r
      BY <2>3, <2>4, <3>1
    <3>2. CASE q # r
      BY <1>0, <2>1, <2>2, <3>2 DEF EngineInv
    <3> QED
      BY <3>1, <3>2
  <2> QED
    BY <2>5 DEF EngineInv, Active
<1>3. ProgramInv'
  <2>1. ASSUME NEW u \in Threads, NEW i \in 1 .. Len(program'[u]), u # t \/ i # Len(program[t]) + 1
        PROVE  /\ i \in 1 .. Len(program[u]) /\ program'[u][i] = program[u][i]
               /\ program[u][i] # r /\ program[u][i] \in Requests
               /\ Queued(u, i)' = Queued(u, i) /\ stage'[program'[u][i]] = stage[program[u][i]]
    <3>1. /\ i \in 1 .. Len(program[u]) /\ program'[u][i] = program[u][i]
          /\ program[u][i] # r /\ program[u][i] \in Requests
      <4>1. CASE u = t
        BY <2>1, <4>1, <1>f DEF PostEffect
      <4>2. CASE u # t
        BY <2>1, <4>2, <1>f, QueuedOnce DEF PostEffect
      <4> QED
        BY <4>1, <4>2
    <3> QED
      BY <3>1, <1>f DEF Queued, PostEffect
  <2>2. ASSUME NEW u \in Threads, NEW i \in 1 .. Len(program'[u])
        PROVE  /\ stage'[program'[u][i]] = "posted" /\ Queued(u, i)'.thread = u
               /\ \A j \in 1 .. i - 1 : Queued(u, j)'.number < Queued(u, i)'.number
    <3>0. Len(program[t]) \in Nat /\ Len(program'[u]) \in Nat
      BY <1>1, <1>f DEF TypeOK, TM!TypeOK, PostEffect
    <3>1. CASE u = t /\ i = Len(program[t]) + 1
      <4>1. program'[u][i] = r /\ Queued(u, i)' = op'[r]
        BY <3>1, <1>f DEF Queued, PostEffect
      <4>2. ASSUME NEW j \in 1 .. i - 1
            PROVE  Queued(u, j)'.number < calls'[t]
        <5>1. j \in 1 .. Len(program'[u]) /\ j # Len(program[t]) + 1 /\ j \in 1 .. Len(program[t])
          BY <3>0, <3>1, <1>f DEF PostEffect
        <5>2. Queued(u, j)' = Queued(t, j)
          BY <2>1, <3>1, <5>1
        <5>3. Queued(t, j).number \in 1 .. calls[t] /\ calls[t] \in Nat /\ calls'[t] = calls[t] + 1
          BY <5>1, QueuedOnce, <1>f DEF PostEffect
        <5> QED
          BY <5>2, <5>3
      <4> QED
        BY <3>1, <4>1, <4>2, <1>f DEF PostEffect
    <3>2. CASE u # t \/ i # Len(program[t]) + 1
      <4>1. \A j \in 1 .. i - 1 : /\ j \in 1 .. Len(program'[u]) /\ (u # t \/ j # Len(program[t]) + 1)
                                  /\ j \in 1 .. Len(program[u])
        BY <2>1, <3>0, <3>2, QueuedOnce, <1>f DEF PostEffect
      <4>2. \A j \in 1 .. i - 1 : Queued(u, j)' = Queued(u, j)
        BY <2>1, <4>1
      <4> QED
        BY <1>0, <2>1, <3>2, <4>2 DEF ProgramInv
    <3> QED
      BY <3>1, <3>2
  <2> QED
    BY <2>2 DEF ProgramInv, Queued
<1> QED
  BY <1>1, <1>2, <1>3 DEF BaseInv

\* A start keeps BaseInv: the oldest command leaves the queue.
LEMMA BaseStart ==
  ASSUME BaseInv, NEW t \in Threads, Start(t)
  PROVE  BaseInv'
<1>0. TypeOK /\ EngineInv /\ ProgramInv
  BY DEF BaseInv
<1> DEFINE r == program[t][1]
<1>f. StartEffect(t)
  BY StartFacts
<1>1. TypeOK'
  <2>1. op[r].thread \in Threads /\ op[r].handle \in Handles /\ op[r].number \in 0 .. MaxCalls
    <3>1. op[r].number \in 1 .. calls[op[r].thread] /\ op[r].thread \in Threads /\ op[r].handle \in Handles
      BY <1>0, <1>f DEF EngineInv, StartEffect
    <3>2. MaxCalls \in Nat /\ \A u \in Threads : calls[u] \in 0 .. MaxCalls
      BY <1>0, InterpositionAssumption DEF TypeOK
    <3> HIDE DEF r
    <3> QED
      BY <3>1, <3>2
  <2>2. /\ reached' = [reached EXCEPT ![t][op[r].handle] = op[r].number]
        /\ message' = IF op[r].message = 0 THEN message ELSE [message EXCEPT ![t] = 0]
    BY <1>f DEF Start, StartEffect
  <2>3. reached' \in [Threads -> [Handles -> 0 .. MaxCalls]] /\ message' \in [Threads -> Nat]
    BY <1>0, <2>1, <2>2 DEF TypeOK
  <2>4. stage' \in [Requests -> {"inactive", "posted", "started", "finished"}]
    BY <1>0, <1>f DEF TypeOK, TM!TypeOK, StartEffect
  <2> QED
    BY <1>0, <2>3, <2>4, <1>f DEF TypeOK, TM!TypeOK, StartEffect
<1>2. EngineInv'
  <2>1. \A q \in Requests : Active(q)' <=> Active(q)
    BY <1>0, <1>f DEF Active, TypeOK, TM!TypeOK, StartEffect
  <2> QED
    BY <1>0, <2>1, <1>f DEF EngineInv, StartEffect
<1>3. ProgramInv'
  <2>1. ASSUME NEW u \in Threads, NEW i \in 1 .. Len(program'[u])
        PROVE  \E k \in {0, 1} : i + k \in 1 .. Len(program[u])
                  /\ \A j \in 1 .. i : j + k \in 1 .. Len(program[u]) /\ program'[u][j] = program[u][j + k]
    <3>0. Len(program[u]) \in Nat /\ Len(program'[u]) \in Nat
      <4>1. program \in [Threads -> Seq(Requests)] /\ program' \in [Threads -> Seq(Requests)]
        BY <1>0, <1>f DEF TypeOK, TM!TypeOK, StartEffect
      <4> QED
        BY <4>1
    <3>1. CASE u = t
      <4>1. \A j \in 1 .. i : j \in 1 .. Len(program'[t])
        BY <2>1, <3>0, <3>1
      <4>2. \A j \in 1 .. i : j + 1 \in 1 .. Len(program[t]) /\ program'[t][j] = program[t][j + 1]
        BY <4>1, <1>f DEF StartEffect
      <4> QED
        BY <3>1, <4>2, <1>f DEF StartEffect
    <3>2. CASE u # t
      <4>1. program'[u] = program[u] /\ \A j \in 1 .. i : j + 0 = j /\ j \in 1 .. Len(program[u])
        BY <2>1, <3>0, <3>2, <1>f DEF StartEffect
      <4> QED
        BY <3>0, <4>1
    <3> QED
      BY <3>1, <3>2
  <2>2. ASSUME NEW u \in Threads, NEW i \in 1 .. Len(program'[u])
        PROVE  /\ stage'[program'[u][i]] = "posted" /\ Queued(u, i)'.thread = u
               /\ \A j \in 1 .. i - 1 : Queued(u, j)'.number < Queued(u, i)'.number
    <3>1. PICK k \in {0, 1} : i + k \in 1 .. Len(program[u])
                  /\ \A j \in 1 .. i : j + k \in 1 .. Len(program[u]) /\ program'[u][j] = program[u][j + k]
      BY <2>1
    <3>2. \A j \in 1 .. i : Queued(u, j)' = Queued(u, j + k)
      BY <3>1, <1>f DEF Queued, StartEffect
    <3>3. i \in Nat /\ i \in 1 .. i /\ k \in Nat
          /\ \A j \in 1 .. i - 1 : j \in 1 .. i /\ j + k \in 1 .. (i + k) - 1
      OBVIOUS
    <3>4. stage'[program'[u][i]] = stage[program'[u][i]]
      BY <1>0, <1>f DEF TypeOK, TM!TypeOK, StartEffect
    <3>5. /\ stage[program[u][i + k]] = "posted" /\ Queued(u, i + k).thread = u
          /\ \A j \in 1 .. (i + k) - 1 : Queued(u, j).number < Queued(u, i + k).number
      BY <1>0, <3>1 DEF ProgramInv
    <3> QED
      BY <3>1, <3>2, <3>3, <3>4, <3>5
  <2> QED
    BY <2>2 DEF ProgramInv, Queued
<1> QED
  BY <1>1, <1>2, <1>3 DEF BaseInv

\* A return of MPI_Wait keeps BaseInv: its request is not queued.
LEMMA BaseWait ==
  ASSUME BaseInv, NEW t \in Threads, WaitNext(t)
  PROVE  BaseInv'
<1> DEFINE r == Head(waiting[t])
<1>0. TypeOK /\ EngineInv /\ ProgramInv
  BY DEF BaseInv
<1>1. /\ r \in Requests /\ stage[r] = "finished"
      /\ stage' = [stage EXCEPT ![r] = "inactive"] /\ program' = program
      /\ op' = [op EXCEPT ![r] = NoOp] /\ word' = [word EXCEPT ![r] = None]
      /\ waiting' = [waiting EXCEPT ![t] = Tail(@)] /\ Tail(waiting[t]) \in Seq(Requests)
      /\ UNCHANGED <<calls, handles, message, matched, misread, reached>>
      /\ array' = IF waiting'[t] = << >> THEN [array EXCEPT ![t] = << >>] ELSE array
      /\ \A u \in Threads : \A i \in 1 .. Len(program[u]) : program[u][i] # r
  BY WaitFacts
<1> HIDE DEF r
<1>2. TypeOK'
  <2>1. array' \in [Threads -> Seq(Requests)] /\ waiting' \in [Threads -> Seq(Requests)]
    BY <1>0, <1>1 DEF TypeOK
  <2> QED
    BY <1>0, <1>1, <2>1 DEF TypeOK, TM!TypeOK
<1>3. EngineInv'
  <2>1. ASSUME NEW q \in Requests
        PROVE  /\ Active(q)' <=> word'[q] = "engine"
               /\ Active(q)' => Active(q) /\ op'[q] = op[q]
    <3>1. CASE q = r
      BY <1>0, <1>1, <3>1, InterpositionAssumption DEF Active, TypeOK, TM!TypeOK
    <3>2. CASE q # r
      BY <1>0, <1>1, <3>2 DEF Active, EngineInv, TypeOK, TM!TypeOK
    <3> QED
      BY <3>1, <3>2
  <2> QED
    BY <1>0, <1>1, <2>1 DEF EngineInv
<1>4. ProgramInv'
  <2>1. ASSUME NEW u \in Threads, NEW i \in 1 .. Len(program[u])
        PROVE  Queued(u, i)' = Queued(u, i) /\ stage'[program[u][i]] = stage[program[u][i]]
    <3>1. program[u][i] # r /\ program[u][i] \in Requests
      BY <1>1, QueuedOnce
    <3>2. /\ stage \in [Requests -> {"inactive", "posted", "started", "finished"}]
          /\ DOMAIN op = Requests
      BY <1>0 DEF TypeOK, TM!TypeOK
    <3> QED
      BY <1>1, <3>1, <3>2 DEF Queued
  <2>2. ASSUME NEW u \in Threads, NEW i \in 1 .. Len(program[u]), NEW j \in 1 .. i - 1
        PROVE  j \in 1 .. Len(program[u])
    BY QueuedOnce
  <2> QED
    BY <1>0, <1>1, <2>1, <2>2 DEF ProgramInv
<1> QED
  BY <1>2, <1>3, <1>4 DEF BaseInv

\* A step that leaves the queue and the operations alone keeps BaseInv.
LEMMA BaseElse ==
  ASSUME BaseInv, TypeOK', UNCHANGED <<program, op>>,
         \A u \in Threads : calls'[u] >= calls[u],
         \A r \in Requests : /\ stage'[r] = "inactive" <=> stage[r] = "inactive"
                             /\ stage'[r] = "posted" <=> stage[r] = "posted"
                             /\ word'[r] = "engine" <=> word[r] = "engine"
  PROVE  BaseInv'
<1>0. TypeOK /\ EngineInv /\ ProgramInv
  BY DEF BaseInv
<1>1. \A u \in Threads : \A n \in 1 .. calls[u] : n \in 1 .. calls'[u]
  BY <1>0, InterpositionAssumption DEF TypeOK
<1>2. EngineInv'
  BY <1>0, <1>1 DEF EngineInv, Active
<1>3. ProgramInv'
  BY <1>0, QueuedOnce DEF ProgramInv, Queued
<1> QED
  BY <1>2, <1>3 DEF BaseInv

\* The steps of the system.
LEMMA StepCases ==
  ASSUME TypeOK, Next
  PROVE  \/ \E t \in Threads :
            \/ \E r \in Requests, h \in Handles, m \in Nat :
                  PostOp(t, r, h, m) /\ (m # 0 => Unclaimed(t) /\ m = message[t])
            \/ Start(t) \/ WaitNext(t) \/ NotOffloaded(t) \/ WaitMisreads(t)
            \/ \E r, q \in Requests : Waitall(t, <<r>>) \/ Waitall(t, <<r, q>>)
         \/ \E r \in Requests : Finish(r)
<1>1. \A t \in Threads : message[t] \in Nat
  BY DEF TypeOK
<1>2. ASSUME NEW t \in Threads, NEW r \in Requests, NEW h \in Handles, Post(t, r, h) \/ Imrecv(t, r, h)
      PROVE  \E m \in Nat : PostOp(t, r, h, m) /\ (m # 0 => Unclaimed(t) /\ m = message[t])
  BY <1>1, <1>2 DEF Post, Imrecv
<1> QED
  BY <1>2 DEF Next, Offloaded

\* BaseInv is inductive.
LEMMA BaseStep ==
  ASSUME BaseInv, [Next]_vars
  PROVE  BaseInv'
<1>0. TypeOK
  BY DEF BaseInv
<1>1. CASE UNCHANGED vars
  BY <1>1 DEF vars, engine, BaseInv, TypeOK, TM!TypeOK, EngineInv, ProgramInv, Active, Queued
<1>2. CASE Next
  <2>1. ASSUME NEW t \in Threads, NotOffloaded(t) \/ WaitMisreads(t)
        PROVE  BaseInv'
    BY <1>0, <2>1, DirectStep, BaseElse
  <2>2. ASSUME \/ \E r \in Requests : Finish(r)
               \/ \E t \in Threads : \E r \in Requests : \E q \in Requests :
                     Waitall(t, <<r>>) \/ Waitall(t, <<r, q>>)
        PROVE  BaseInv'
    BY <1>0, <2>2, QuietFacts, BaseElse
  <2> QED
    BY <1>0, <1>2, <2>1, <2>2, StepCases, BasePost, BaseStart, BaseWait
<1> QED
  BY <1>1, <1>2

-----------------------------------------------------------------------------
(***************************************************************************)
(* MPI_Waitall                                                             *)
(***************************************************************************)
\* What MPI_Waitall has waited for is not posted again before it returns.
LEMMA ArrayStep ==
  ASSUME BaseInv, ArrayInv, [Next]_vars
  PROVE  ArrayInv'
<1>0. /\ TypeOK /\ \A t \in Threads : waiting[t] \in Seq(Requests) /\ array[t] \in Seq(Requests)
      /\ \A t \in Threads : ToSet(array[t]) \subseteq Requests
      /\ stage \in [Requests -> {"inactive", "posted", "started", "finished"}]
      /\ waiting \in [Threads -> Seq(Requests)] /\ array \in [Threads -> Seq(Requests)]
  BY ToSetFacts DEF BaseInv, TypeOK, TM!TypeOK
<1>1. ASSUME NEW t \in Threads, NEW r \in Requests, NEW h \in Handles, NEW m \in Nat,
             PostOp(t, r, h, m)
      PROVE  ArrayInv'
  <2>1. /\ UNCHANGED <<waiting, array>> /\ stage' = [stage EXCEPT ![r] = "posted"]
        /\ \A u \in Threads : r \notin ToSet(array[u])
    BY <1>1 DEF PostOp, Waited, TM!Post
  <2> QED
    BY <1>0, <2>1 DEF ArrayInv
<1>2. ASSUME NEW t \in Threads, Start(t)
      PROVE  ArrayInv'
  <2>1. StartEffect(t)
    BY <1>2, StartFacts
  <2> QED
    BY <1>0, <2>1 DEF ArrayInv, StartEffect, Active
<1>3. ASSUME NEW t \in Threads, WaitNext(t)
      PROVE  ArrayInv'
  <2> DEFINE r == Head(waiting[t])
  <2>1. /\ r \in Requests /\ stage' = [stage EXCEPT ![r] = "inactive"]
        /\ waiting' = [waiting EXCEPT ![t] = Tail(@)] /\ waiting[t] # << >>
        /\ array' = IF waiting'[t] = << >> THEN [array EXCEPT ![t] = << >>] ELSE array
    BY <1>3, WaitFacts
  <2>2. \A x \in ToSet(waiting[t]) : x = r \/ x \in ToSet(Tail(waiting[t]))
    BY <1>0, <2>1, ToSetFacts
  <2> HIDE DEF r
  <2>3. ASSUME NEW u \in Threads, NEW x \in ToSet(array'[u])
        PROVE  x \in ToSet(waiting'[u]) \/ stage'[x] = "inactive"
    <3>1. x \in ToSet(array[u]) /\ x \in Requests
      <4>1. ToSet(<< >>) = {}
        BY DEF ToSet
      <4> QED
        BY <1>0, <2>1, <4>1
    <3>2. x \in ToSet(waiting[u]) \/ stage[x] = "inactive"
      BY <3>1 DEF ArrayInv
    <3> QED
      BY <1>0, <2>1, <2>2, <3>1, <3>2
  <2> QED
    BY <2>3 DEF ArrayInv
<1>4. ASSUME NEW t \in Threads, NEW rs, Waitall(t, rs)
      PROVE  ArrayInv'
  <2>1. /\ waiting' = [waiting EXCEPT ![t] = rs] /\ array' = [array EXCEPT ![t] = rs]
        /\ stage' = stage
    BY <1>4 DEF Waitall, engine
  <2> QED
    BY <1>0, <2>1 DEF ArrayInv
<1>5. ASSUME NEW r \in Requests, Finish(r)
      PROVE  ArrayInv'
  BY <1>0, <1>5 DEF Finish, TM!Finish, ArrayInv
<1>6. ASSUME NEW t \in Threads, NotOffloaded(t) \/ WaitMisreads(t)
      PROVE  ArrayInv'
  BY <1>0, <1>6, DirectStep DEF ArrayInv
<1>7. CASE UNCHANGED vars
  BY <1>7 DEF vars, engine, ArrayInv
<1> QED
  BY <1>0, <1>1, <1>2, <1>3, <1>4, <1>5, <1>6, <1>7, StepCases

\* The array of a thread is given up only when its last request is complete.
LEMMA WaitallStep ==
  ASSUME BaseInv, ArrayInv, [Next]_vars, NEW t \in Threads, array[t] # << >>, array'[t] = << >>
  PROVE  \A i \in 1 .. Len(array[t]) : stage'[array[t][i]] = "inactive"
<1>0. /\ TypeOK /\ array \in [Threads -> Seq(Requests)] /\ waiting \in [Threads -> Seq(Requests)]
      /\ stage \in [Requests -> {"inactive", "posted", "started", "finished"}]
  BY DEF BaseInv, TypeOK, TM!TypeOK
<1>1. ASSUME NEW u \in Threads, NEW r \in Requests, NEW q \in Requests,
             Waitall(u, <<r>>) \/ Waitall(u, <<r, q>>)
      PROVE  FALSE
  <2>1. array'[t] = array[t] \/ array'[t] = <<r>> \/ array'[t] = <<r, q>>
    BY <1>0, <1>1 DEF Waitall
  <2> QED
    BY <2>1
<1>2. ASSUME NEW u \in Threads, WaitNext(u)
      PROVE  \A i \in 1 .. Len(array[t]) : stage'[array[t][i]] = "inactive"
  <2> DEFINE r == Head(waiting[u])
  <2>1. /\ r \in Requests /\ stage' = [stage EXCEPT ![r] = "inactive"]
        /\ waiting' = [waiting EXCEPT ![u] = Tail(@)] /\ waiting[u] # << >>
        /\ array' = IF waiting'[u] = << >> THEN [array EXCEPT ![u] = << >>] ELSE array
    BY <1>2, WaitFacts
  <2>2. u = t /\ Tail(waiting[t]) = << >>
    BY <1>0, <2>1
  <2>3. \A x \in ToSet(waiting[t]) : x = r
    <3>1. ToSet(<< >>) = {}
      BY DEF ToSet
    <3>2. \A x \in ToSet(waiting[t]) : x = r \/ x \in ToSet(Tail(waiting[t]))
      BY <1>0, <2>1, <2>2, ToSetFacts
    <3> QED
      BY <2>2, <3>1, <3>2
  <2> HIDE DEF r
  <2>4. ASSUME NEW i \in 1 .. Len(array[t])
        PROVE  stage'[array[t][i]] = "inactive"
    <3>1. array[t][i] \in ToSet(array[t]) /\ array[t][i] \in Requests
      BY <1>0, ToSetFacts
    <3>2. array[t][i] = r \/ stage[array[t][i]] = "inactive"
      BY <2>3, <3>1 DEF ArrayInv
    <3> QED
      BY <1>0, <2>1, <3>1, <3>2
  <2> QED
    BY <2>4
<1>3. ASSUME array' = array
      PROVE  FALSE
  BY <1>3
<1>4. ASSUME NEW u \in Threads, NotOffloaded(u) \/ WaitMisreads(u)
      PROVE  array' = array
  BY <1>0, <1>4, DirectStep
<1>5. ASSUME (\E r \in Requests : Finish(r)) \/ (\E u \in Threads : Start(u))
             \/ (\E u \in Threads, r \in Requests, h \in Handles, m \in Nat : PostOp(u, r, h, m))
             \/ UNCHANGED vars
      PROVE  array' = array
  BY <1>5 DEF Finish, Start, PostOp, vars
<1> QED
  BY <1>0, <1>1, <1>2, <1>3, <1>4, <1>5, StepCases

-----------------------------------------------------------------------------
(***************************************************************************)
(* The order of a thread's calls                                           *)
(***************************************************************************)
\* A direct call reaches MPI over a handle for which its thread has nothing
\* queued.
LEMMA DirectReach ==
  ASSUME TypeOK, Ordered, NEW t \in Threads, NotOffloaded(t)
  PROVE  \/ reached' = reached
         \/ \E h \in Handles :
               /\ reached' = [reached EXCEPT ![t][h] = calls'[t]]
               /\ calls' = [calls EXCEPT ![t] = @ + 1]
               /\ \A r \in Requests : Active(r) /\ op[r].handle = h => op[r].thread # t
<1> USE DEF May, Calling
<1>1. ASSUME NEW h \in Handles, Quiet(t, h), Settled
      PROVE  \A r \in Requests : Active(r) /\ op[r].handle = h => op[r].thread # t
  BY <1>1 DEF Quiet, Pending, Active
<1>2. ASSUME NEW h \in Handles, Pending(h) = {}
      PROVE  \A r \in Requests : Active(r) /\ op[r].handle = h => op[r].thread # t
  BY <1>2 DEF Pending, Active
<1>3. CASE LocalCall(t) \/ Receive(t)
  BY <1>3 DEF LocalCall, Receive
<1>4. ASSUME NEW h \in Handles, Create(t, h) \/ Free(t, h)
      PROVE  reached' = reached
  BY <1>4 DEF Create, Free
<1>5. ASSUME NEW h \in Handles, Close(t, h)
      PROVE  /\ reached' = [reached EXCEPT ![t][h] = calls'[t]]
             /\ calls' = [calls EXCEPT ![t] = @ + 1] /\ Pending(h) = {}
  BY <1>5 DEF Close, Reach
<1>6. ASSUME NEW h \in Handles,
             Communicate(t, h) \/ Match(t, h) \/ (\E new \in Handles : Derive(t, h, new))
             \/ (\E r \in Requests : StartDirect(t, r, h))
      PROVE  /\ reached' = [reached EXCEPT ![t][h] = calls'[t]]
             /\ calls' = [calls EXCEPT ![t] = @ + 1] /\ Quiet(t, h)
             /\ DirectRoles \cap {"communicates", "derives", "starts", "matches"} # {}
  BY <1>6 DEF Communicate, Match, Derive, StartDirect, Reach
<1>7. ASSUME NEW r \in Requests, UseRequest(t, r)
      PROVE  reached' = reached
  BY <1>7 DEF UseRequest
<1> QED
  BY <1>1, <1>2, <1>3, <1>4, <1>5, <1>6, <1>7 DEF NotOffloaded, Ordered

\* Every step keeps the order, and none takes back what has reached MPI.
LEMMA OrderStep ==
  ASSUME BaseInv, Ordered, OrderInv, [Next]_vars
  PROVE  /\ OrderInv'
         /\ \A t \in Threads, h \in Handles : reached'[t][h] >= reached[t][h]
<1>0. /\ TypeOK /\ BaseInv'
      /\ \A t \in Threads : \A h \in Handles : reached[t][h] \in Nat /\ reached[t][h] <= calls[t]
      /\ \A t \in Threads : calls[t] \in Nat
      /\ reached \in [Threads -> [Handles -> 0 .. MaxCalls]]
      /\ calls \in [Threads -> 0 .. MaxCalls] /\ MaxCalls \in Nat
  <2>1. MaxCalls \in Nat
    BY InterpositionAssumption
  <2>2. TypeOK /\ BaseInv'
    BY BaseStep DEF BaseInv
  <2>3. /\ reached \in [Threads -> [Handles -> 0 .. MaxCalls]]
        /\ calls \in [Threads -> 0 .. MaxCalls]
    BY <2>2 DEF TypeOK
  <2>4. \A t \in Threads : \A h \in Handles : reached[t][h] <= calls[t]
    BY DEF OrderInv
  <2> QED
    BY <2>1, <2>2, <2>3, <2>4
<1>1. ASSUME \A u \in Threads : calls'[u] >= calls[u] /\ calls'[u] \in Nat, UNCHANGED <<program, reached>>,
             \A u \in Threads : \A i \in 1 .. Len(program[u]) : Queued(u, i)' = Queued(u, i)
      PROVE  OrderInv'
  BY <1>0, <1>1 DEF OrderInv
<1>2. ASSUME NEW t \in Threads, NEW r \in Requests, NEW h \in Handles, NEW m \in Nat,
             PostOp(t, r, h, m)
      PROVE  OrderInv' /\ reached' = reached
  <2>1. PostEffect(t, r, h, m) /\ reached' = reached
    BY <1>2, PostFacts DEF PostOp
  <2>2. ASSUME NEW u \in Threads, NEW i \in 1 .. Len(program'[u])
        PROVE  reached[u][Queued(u, i)'.handle] < Queued(u, i)'.number
    <3>1. CASE u = t /\ i = Len(program[t]) + 1
      <4>1. Queued(u, i)' = op'[r]
        BY <2>1, <3>1 DEF Queued, PostEffect
      <4>2. op'[r].handle = h /\ op'[r].number = calls[t] + 1
        BY <2>1 DEF PostEffect
      <4> QED
        BY <1>0, <3>1, <4>1, <4>2
    <3>2. CASE u # t \/ i # Len(program[t]) + 1
      <4>1. i \in 1 .. Len(program[u]) /\ program'[u][i] = program[u][i] /\ program[u][i] # r
            /\ program[u][i] \in Requests
        <5>1. CASE u = t
          BY <2>1, <3>2, <5>1 DEF PostEffect
        <5>2. CASE u # t
          <6>1. program'[u] = program[u] /\ ~Active(r)
            BY <2>1, <5>2 DEF PostEffect
          <6> QED
            BY <6>1, QueuedOnce
        <5> QED
          BY <5>1, <5>2
      <4>2. Queued(u, i)' = Queued(u, i)
        BY <2>1, <4>1 DEF Queued, PostEffect
      <4> QED
        BY <4>1, <4>2 DEF OrderInv
    <3> QED
      BY <3>1, <3>2
  <2>3. \A u \in Threads : calls'[u] >= calls[u] /\ calls'[u] \in Nat
    <3>1. calls'[t] = calls[t] + 1 /\ \A u \in Threads : u # t => calls'[u] = calls[u]
      BY <2>1 DEF PostEffect
    <3> QED
      BY <1>0, <3>1
  <2>4. ASSUME NEW u \in Threads, NEW g \in Handles
        PROVE  reached[u][g] <= calls'[u]
    <3>1. /\ reached[u][g] \in Nat /\ reached[u][g] <= calls[u] /\ calls[u] \in Nat
          /\ calls'[u] >= calls[u] /\ calls'[u] \in Nat
      BY <1>0, <2>3
    <3> QED
      BY <3>1
  <2> QED
    BY <2>1, <2>2, <2>4 DEF OrderInv
<1>3. ASSUME NEW t \in Threads, Start(t)
      PROVE  OrderInv' /\ \A u \in Threads, h \in Handles : reached'[u][h] >= reached[u][h]
  <2> DEFINE f == Queued(t, 1)
  <2>0. StartEffect(t)
    BY <1>3, StartFacts
  <2>1. 1 \in 1 .. Len(program[t]) /\ op[Head(program[t])] = f
    BY <2>0 DEF StartEffect, Queued
  <2>2. /\ reached' = [reached EXCEPT ![t][f.handle] = f.number]
        /\ UNCHANGED <<calls, op>>
    BY <1>3, <2>1 DEF Start
  <2>3. /\ f.handle \in Handles /\ f.number \in 1 .. calls[t]
        /\ reached[t][f.handle] < f.number
    BY <2>1, QueuedOnce DEF OrderInv
  <2>4. ASSUME NEW i \in 1 .. Len(program[t]), i # 1
        PROVE  f.number < Queued(t, i).number /\ Queued(t, i).number \in Nat
    <3>1. 1 \in 1 .. i - 1
      BY <2>0, <2>4 DEF StartEffect
    <3> QED
      BY <3>1, QueuedOnce DEF BaseInv, ProgramInv
  <2> HIDE DEF f
  <2>5. ASSUME NEW u \in Threads, NEW h \in Handles
        PROVE  reached'[u][h] <= calls[u] /\ reached'[u][h] >= reached[u][h]
    BY <1>0, <2>2, <2>3
  <2>6. ASSUME NEW u \in Threads, NEW i \in 1 .. Len(program'[u])
        PROVE  reached'[u][Queued(u, i)'.handle] < Queued(u, i)'.number
    <3>1. CASE u = t
      <4>1. i + 1 \in 1 .. Len(program[t]) /\ i + 1 # 1 /\ Queued(u, i)' = Queued(t, i + 1)
        BY <2>0, <2>2, <2>6, <3>1 DEF StartEffect, Queued
      <4>2. /\ f.number < Queued(t, i + 1).number /\ Queued(t, i + 1).handle \in Handles
            /\ reached[t][Queued(t, i + 1).handle] < Queued(t, i + 1).number
        BY <2>4, <4>1, QueuedOnce DEF OrderInv
      <4> QED
        BY <1>0, <2>2, <2>3, <3>1, <4>1, <4>2
    <3>2. CASE u # t
      <4>1. i \in 1 .. Len(program[u]) /\ Queued(u, i)' = Queued(u, i)
        BY <2>0, <2>2, <2>6, <3>2 DEF StartEffect, Queued
      <4> QED
        BY <1>0, <2>2, <2>3, <3>2, <4>1 DEF OrderInv
    <3> QED
      BY <3>1, <3>2
  <2> QED
    BY <2>2, <2>5, <2>6 DEF OrderInv
<1>4. ASSUME NEW t \in Threads, WaitNext(t)
      PROVE  OrderInv' /\ reached' = reached
  <2>1. /\ UNCHANGED <<program, calls, reached>> /\ op' = [op EXCEPT ![Head(waiting[t])] = NoOp]
        /\ \A u \in Threads : \A i \in 1 .. Len(program[u]) : program[u][i] # Head(waiting[t])
    BY <1>4, WaitFacts
  <2>2. \A u \in Threads : \A i \in 1 .. Len(program[u]) : Queued(u, i)' = Queued(u, i)
    BY <1>0, <2>1, QueuedOnce DEF Queued, TypeOK
  <2> QED
    BY <1>0, <1>1, <2>1, <2>2
<1>5. ASSUME (\E r \in Requests : Finish(r))
             \/ (\E t \in Threads : \E r \in Requests : \E q \in Requests :
                    Waitall(t, <<r>>) \/ Waitall(t, <<r, q>>))
      PROVE  OrderInv' /\ reached' = reached
  <2>1. /\ UNCHANGED <<program, op, reached>> /\ TypeOK'
        /\ \A u \in Threads : calls'[u] >= calls[u]
    BY <1>0, <1>5, QuietFacts
  <2>2. \A u \in Threads : calls'[u] \in Nat
    BY <1>0, <2>1 DEF TypeOK
  <2> QED
    BY <1>1, <2>1, <2>2 DEF Queued
<1>6. ASSUME NEW t \in Threads, NotOffloaded(t) \/ WaitMisreads(t)
      PROVE  OrderInv' /\ \A u \in Threads, h \in Handles : reached'[u][h] >= reached[u][h]
  <2>1. /\ UNCHANGED <<program, op>> /\ TypeOK'
        /\ \A u \in Threads : calls'[u] >= calls[u]
    BY <1>0, <1>6, DirectStep
  <2>2. \A u \in Threads : calls'[u] \in Nat
    BY <1>0, <2>1 DEF TypeOK
  <2>3. CASE reached' = reached
    BY <1>0, <1>1, <2>1, <2>2, <2>3 DEF Queued
  <2>4. CASE reached' # reached
    <3>1. PICK h \in Handles :
               /\ reached' = [reached EXCEPT ![t][h] = calls'[t]]
               /\ calls' = [calls EXCEPT ![t] = @ + 1]
               /\ \A r \in Requests : Active(r) /\ op[r].handle = h => op[r].thread # t
      BY <1>0, <1>6, <2>4, DirectReach DEF WaitMisreads
    <3>2. ASSUME NEW u \in Threads, NEW i \in 1 .. Len(program[u])
          PROVE  reached'[u][Queued(u, i).handle] < Queued(u, i).number
      <4>1. u = t => Queued(u, i).handle # h
        BY <3>1, QueuedOnce DEF Queued
      <4>2. Queued(u, i).handle \in Handles /\ reached[u][Queued(u, i).handle] < Queued(u, i).number
        BY QueuedOnce DEF OrderInv
      <4> QED
        BY <1>0, <3>1, <4>1, <4>2
    <3>3. \A u \in Threads, g \in Handles : reached'[u][g] <= calls'[u] /\ reached'[u][g] >= reached[u][g]
      BY <1>0, <3>1
    <3> QED
      BY <2>1, <3>2, <3>3 DEF OrderInv, Queued
  <2> QED
    BY <2>3, <2>4
<1>7. CASE UNCHANGED vars
  <2>1. OrderInv'
    BY <1>7 DEF vars, engine, OrderInv, Queued
  <2>2. reached' = reached
    BY <1>7 DEF vars
  <2> QED
    BY <1>0, <2>1, <2>2
<1>8. ASSUME reached' = reached
      PROVE  \A t \in Threads, h \in Handles : reached'[t][h] >= reached[t][h]
  BY <1>0, <1>8
<1>9. CASE Next
  <2>1. ASSUME NEW t \in Threads,
               \E r \in Requests, h \in Handles, m \in Nat : PostOp(t, r, h, m)
        PROVE  OrderInv' /\ reached' = reached
    BY <1>2, <2>1
  <2> QED
    BY <1>0, <1>3, <1>4, <1>5, <1>6, <1>8, <1>9, <2>1, StepCases
<1> QED
  BY <1>7, <1>9

-----------------------------------------------------------------------------
(***************************************************************************)
(* The objects that operations name                                        *)
(***************************************************************************)
\* Only an object without active operations is given up.
LEMMA DirectHandles ==
  ASSUME TypeOK, Kept, NEW t \in Threads, NotOffloaded(t)
  PROVE  \A h \in Handles : handles[h] = "open" /\ Pending(h) # {} => handles'[h] = "open"
<1> USE DEF May
<1>0. handles \in [Handles -> {"unused", "open", "freed"}]
  BY DEF TypeOK
<1>1. ASSUME NEW h \in Handles, Free(t, h)
      PROVE  Pending(h) = {} /\ handles' = [handles EXCEPT ![h] = "freed"]
  BY <1>1 DEF Free, Kept
<1>2. ASSUME NEW h \in Handles, Close(t, h)
      PROVE  Pending(h) = {} /\ handles' = [handles EXCEPT ![h] = "freed"]
  BY <1>2 DEF Close
<1>3. ASSUME NEW h \in Handles, Create(t, h) \/ (\E g \in Handles : Derive(t, g, h))
      PROVE  handles' = [handles EXCEPT ![h] = "open"]
  BY <1>3 DEF Create, Derive
<1>4. ASSUME \/ LocalCall(t) \/ Receive(t) \/ (\E r \in Requests : UseRequest(t, r))
             \/ \E h \in Handles : \/ Communicate(t, h) \/ Match(t, h)
                                   \/ \E r \in Requests : StartDirect(t, r, h)
      PROVE  handles' = handles
  BY <1>4 DEF LocalCall, Receive, UseRequest, Communicate, Match, StartDirect
<1>5. ASSUME NEW h \in Handles, Free(t, h) \/ Close(t, h)
      PROVE  \A g \in Handles : handles[g] = "open" /\ Pending(g) # {} => handles'[g] = "open"
  BY <1>0, <1>1, <1>2, <1>5
<1>6. ASSUME NEW h \in Handles, Create(t, h) \/ (\E g \in Handles : Derive(t, g, h))
      PROVE  \A g \in Handles : handles[g] = "open" => handles'[g] = "open"
  BY <1>0, <1>3, <1>6
<1> QED
  BY <1>4, <1>5, <1>6 DEF NotOffloaded

\* Every step leaves an object open while an operation that names it is active.
LEMMA HandleStep ==
  ASSUME BaseInv, Kept, HandleInv, [Next]_vars
  PROVE  HandleInv'
<1>0. TypeOK /\ EngineInv
  BY DEF BaseInv
<1>1. ASSUME handles' = handles, op' = op, \A r \in Requests : Active(r)' => Active(r)
      PROVE  HandleInv'
  BY <1>1 DEF HandleInv
<1>2. ASSUME NEW t \in Threads, NEW r \in Requests, NEW h \in Handles, NEW m \in Nat,
             PostOp(t, r, h, m)
      PROVE  HandleInv'
  <2>1. PostEffect(t, r, h, m) /\ handles' = handles /\ handles[h] = "open"
    BY <1>2, PostFacts DEF PostOp
  <2>2. /\ op'[r].handle = h
        /\ \A q \in Requests : q # r => (Active(q)' <=> Active(q)) /\ op'[q] = op[q]
    BY <2>1 DEF PostEffect, Active
  <2> QED
    BY <2>1, <2>2 DEF HandleInv
<1>3. ASSUME NEW t \in Threads, Start(t)
      PROVE  HandleInv'
  <2>1. StartEffect(t)
    BY <1>3, StartFacts
  <2> QED
    BY <1>0, <1>1, <2>1 DEF StartEffect, Active, TypeOK, TM!TypeOK
<1>4. ASSUME NEW t \in Threads, WaitNext(t)
      PROVE  HandleInv'
  <2> DEFINE r == Head(waiting[t])
  <2>1. /\ r \in Requests /\ stage' = [stage EXCEPT ![r] = "inactive"]
        /\ op' = [op EXCEPT ![r] = NoOp] /\ handles' = handles
    BY <1>4, WaitFacts
  <2> HIDE DEF r
  <2>2. \A q \in Requests : Active(q)' => Active(q) /\ op'[q] = op[q]
    BY <1>0, <2>1 DEF Active, TypeOK, TM!TypeOK
  <2> QED
    BY <2>1, <2>2 DEF HandleInv
<1>5. ASSUME (\E r \in Requests : Finish(r))
             \/ (\E t \in Threads : \E r \in Requests : \E q \in Requests :
                    Waitall(t, <<r>>) \/ Waitall(t, <<r, q>>))
      PROVE  HandleInv'
  BY <1>0, <1>1, <1>5, QuietFacts DEF Active
<1>6. ASSUME NEW t \in Threads, NotOffloaded(t) \/ WaitMisreads(t)
      PROVE  HandleInv'
  <2>1. UNCHANGED <<stage, op>>
    BY <1>0, <1>6, DirectStep
  <2>2. \A h \in Handles : handles[h] = "open" /\ Pending(h) # {} => handles'[h] = "open"
    BY <1>0, <1>6, DirectHandles DEF WaitMisreads
  <2>3. \A r \in Requests : Active(r) => op[r].handle \in Handles /\ r \in Pending(op[r].handle)
    BY <1>0 DEF EngineInv, Pending, Active
  <2> QED
    BY <2>1, <2>2, <2>3 DEF HandleInv, Active
<1>7. CASE UNCHANGED vars
  BY <1>7 DEF vars, engine, HandleInv, Active
<1>8. ASSUME NEW t \in Threads, \E r \in Requests, h \in Handles, m \in Nat : PostOp(t, r, h, m)
      PROVE  HandleInv'
  BY <1>2, <1>8
<1> QED
  BY <1>0, <1>3, <1>4, <1>5, <1>6, <1>7, <1>8, StepCases

-----------------------------------------------------------------------------
(***************************************************************************)
(* The messages of MPI_Imrecv                                              *)
(***************************************************************************)
\* A queued MPI_Imrecv.
Pends(r) == stage[r] = "posted" /\ op[r].message # 0

\* A direct call leaves the variable that a queued MPI_Imrecv will read.
LEMMA DirectMessages ==
  ASSUME TypeOK, Single, MessageInv, NEW t \in Threads, NotOffloaded(t)
  PROVE  \A r \in Requests : Pends(r) => message'[op[r].thread] = message[op[r].thread]
<1> USE DEF May
<1>0. message \in [Threads -> Nat]
  BY DEF TypeOK
<1>1. ASSUME NEW h \in Handles, Match(t, h)
      PROVE  /\ \A r \in Requests : Pends(r) => op[r].thread # t
             /\ \E m : message' = [message EXCEPT ![t] = m]
  <2>1. ImrecvPending(t) = {}
    BY <1>1 DEF Match, Single
  <2>2. \A r \in Requests : Pends(r) => op[r].thread # t
    BY <2>1 DEF ImrecvPending, Pends
  <2>3. \E m : message' = [message EXCEPT ![t] = m]
    <3>1. message = [message EXCEPT ![t] = message[t]]
      BY <1>0
    <3> QED
      BY <1>1, <3>1 DEF Match
  <2> QED
    BY <2>2, <2>3
<1>2. ASSUME Receive(t)
      PROVE  /\ \A r \in Requests : Pends(r) => op[r].thread # t
             /\ \E m : message' = [message EXCEPT ![t] = m]
  <2>1. \A r \in ImrecvPending(t) : op[r].message # message[t]
    BY <1>2 DEF Receive, Unclaimed
  <2>2. \A r \in Requests : Pends(r) /\ op[r].thread = t => r \in ImrecvPending(t) /\ op[r].message = message[t]
    BY DEF Pends, ImrecvPending, MessageInv
  <2> QED
    BY <1>2, <2>1, <2>2 DEF Receive
<1>3. ASSUME \/ LocalCall(t) \/ (\E r \in Requests : UseRequest(t, r))
             \/ \E h \in Handles : \/ Communicate(t, h) \/ Create(t, h) \/ Free(t, h) \/ Close(t, h)
                                   \/ \E new \in Handles : Derive(t, h, new)
                                   \/ \E r \in Requests : StartDirect(t, r, h)
      PROVE  message' = message
  BY <1>3 DEF LocalCall, UseRequest, Communicate, Create, Free, Close, Derive, StartDirect
<1>4. ASSUME NEW m, message' = [message EXCEPT ![t] = m],
             \A r \in Requests : Pends(r) => op[r].thread # t
      PROVE  \A r \in Requests : Pends(r) => message'[op[r].thread] = message[op[r].thread]
  BY <1>0, <1>4
<1> QED
  BY <1>1, <1>2, <1>3, <1>4 DEF NotOffloaded

\* Every step leaves a queued MPI_Imrecv its message.
LEMMA MessageStep ==
  ASSUME BaseInv, Single, MessageInv, [Next]_vars
  PROVE  MessageInv'
<1> USE DEF Pends
<1>0. /\ TypeOK /\ EngineInv /\ message \in [Threads -> Nat]
      /\ \A r \in Requests : Pends(r) => op[r].thread \in Threads
  BY DEF BaseInv, TypeOK, EngineInv, Active
<1>1. ASSUME \A r \in Requests : Pends(r)' => /\ Pends(r) /\ op'[r] = op[r]
                                              /\ message'[op[r].thread] = message[op[r].thread]
      PROVE  MessageInv'
  BY <1>1 DEF MessageInv
<1>2. ASSUME NEW t \in Threads, NEW r \in Requests, NEW h \in Handles, NEW m \in Nat,
             PostOp(t, r, h, m), m # 0 => Unclaimed(t) /\ m = message[t]
      PROVE  MessageInv'
  <2>1. PostEffect(t, r, h, m) /\ message' = message
    BY <1>2, PostFacts DEF PostOp
  <2>2. /\ \A q \in Requests : q # r => (Pends(q)' <=> Pends(q)) /\ op'[q] = op[q]
        /\ op'[r].thread = t /\ op'[r].message = m
    BY <2>1 DEF PostEffect
  <2>3. m # 0 => \A q \in Requests : Pends(q) => op[q].thread # t
    <3>1. m # 0 => \A q \in ImrecvPending(t) : op[q].message # message[t]
      BY <1>2 DEF Unclaimed
    <3>2. \A q \in Requests : Pends(q) /\ op[q].thread = t
                                => q \in ImrecvPending(t) /\ op[q].message = message[t]
      BY DEF ImrecvPending, MessageInv
    <3> QED
      BY <3>1, <3>2
  <2>4. ASSUME NEW x \in Requests, Pends(x)'
        PROVE  message'[op'[x].thread] = op'[x].message
    <3>1. CASE x = r
      BY <1>2, <2>1, <2>2, <2>4, <3>1
    <3>2. CASE x # r
      BY <2>1, <2>2, <2>4, <3>2 DEF MessageInv
    <3> QED
      BY <3>1, <3>2
  <2>5. ASSUME NEW x \in Requests, Pends(x)', NEW y \in Requests, Pends(y)', op'[y].thread = op'[x].thread
        PROVE  y = x
    <3>1. CASE x = r /\ y # r
      BY <2>2, <2>3, <2>5, <3>1
    <3>2. CASE x # r /\ y = r
      BY <2>2, <2>3, <2>5, <3>2
    <3>3. CASE x # r /\ y # r
      BY <2>2, <2>5, <3>3 DEF MessageInv
    <3> QED
      BY <3>1, <3>2, <3>3
  <2> QED
    BY <2>4, <2>5 DEF MessageInv
<1>3. ASSUME NEW t \in Threads, Start(t)
      PROVE  MessageInv'
  <2> DEFINE f == program[t][1]
  <2>1. /\ f \in Requests /\ stage[f] = "posted" /\ stage' = [stage EXCEPT ![f] = "started"]
        /\ op' = op /\ f = Head(program[t])
    BY <1>3, StartFacts DEF StartEffect
  <2>2. op[f].thread = t
    <3>1. 1 \in 1 .. Len(program[t])
      BY <1>3, StartFacts DEF StartEffect
    <3> QED
      BY <3>1, QueuedOnce DEF Queued
  <2>3. message' = IF op[f].message = 0 THEN message ELSE [message EXCEPT ![t] = 0]
    BY <1>3, <2>1 DEF Start
  <2> HIDE DEF f
  <2>4. ASSUME NEW r \in Requests, Pends(r)'
        PROVE  Pends(r) /\ r # f
    BY <1>0, <2>1, <2>4 DEF TypeOK, TM!TypeOK
  <2>5. ASSUME NEW r \in Requests, Pends(r)'
        PROVE  message'[op[r].thread] = message[op[r].thread]
    <3>1. op[f].message # 0 => op[r].thread # t
      BY <2>1, <2>2, <2>4, <2>5 DEF MessageInv
    <3> QED
      BY <1>0, <2>3, <2>4, <2>5, <3>1
  <2> QED
    BY <1>1, <2>1, <2>4, <2>5
<1>4. ASSUME NEW t \in Threads, WaitNext(t)
      PROVE  MessageInv'
  <2> DEFINE r == Head(waiting[t])
  <2>1. /\ r \in Requests /\ stage' = [stage EXCEPT ![r] = "inactive"]
        /\ op' = [op EXCEPT ![r] = NoOp] /\ message' = message
    BY <1>4, WaitFacts
  <2> HIDE DEF r
  <2>2. \A q \in Requests : Pends(q)' => Pends(q) /\ op'[q] = op[q]
    BY <1>0, <2>1 DEF TypeOK, TM!TypeOK
  <2> QED
    BY <1>1, <2>1, <2>2
<1>5. ASSUME (\E r \in Requests : Finish(r))
             \/ (\E t \in Threads : \E r \in Requests : \E q \in Requests :
                    Waitall(t, <<r>>) \/ Waitall(t, <<r, q>>))
      PROVE  MessageInv'
  BY <1>0, <1>1, <1>5, QuietFacts
<1>6. ASSUME NEW t \in Threads, NotOffloaded(t) \/ WaitMisreads(t)
      PROVE  MessageInv'
  <2>1. UNCHANGED <<stage, op>>
    BY <1>0, <1>6, DirectStep
  <2>2. \A r \in Requests : Pends(r) => message'[op[r].thread] = message[op[r].thread]
    BY <1>0, <1>6, DirectMessages DEF WaitMisreads
  <2> QED
    BY <1>1, <2>1, <2>2
<1>7. CASE UNCHANGED vars
  BY <1>7 DEF vars, engine, MessageInv
<1>8. ASSUME NEW t \in Threads,
             \E r \in Requests, h \in Handles, m \in Nat :
                  PostOp(t, r, h, m) /\ (m # 0 => Unclaimed(t) /\ m = message[t])
      PROVE  MessageInv'
  BY <1>2, <1>8
<1> QED
  BY <1>0, <1>3, <1>4, <1>5, <1>6, <1>7, <1>8, StepCases

-----------------------------------------------------------------------------
\* The commands that leave the queue in a step are begun by Start.
LEMMA BeginsFacts ==
  ASSUME BaseInv, [Next]_vars, NEW t \in Threads, Begins(t)
  PROVE  Start(t) /\ Begun(t) = Queued(t, 1) /\ 1 \in 1 .. Len(program[t])
<1>0. TypeOK /\ Len(program[t]) \in Nat
  BY DEF BaseInv, TypeOK, TM!TypeOK
<1>1. program'[t] # program[t]
  BY <1>0 DEF Begins
<1>2. ASSUME NEW u \in Threads, NEW r \in Requests, NEW h \in Handles, NEW m \in Nat,
             PostOp(u, r, h, m)
      PROVE  FALSE
  <2>1. PostEffect(u, r, h, m)
    BY <1>2, PostFacts
  <2>2. CASE u = t
    BY <1>0, <2>1, <2>2 DEF PostEffect, Begins
  <2>3. CASE u # t
    BY <1>1, <2>1, <2>3 DEF PostEffect
  <2> QED
    BY <2>2, <2>3
<1>3. ASSUME NEW u \in Threads, Start(u)
      PROVE  Start(t) /\ Begun(t) = Queued(t, 1) /\ 1 \in 1 .. Len(program[t])
  <2>1. StartEffect(u)
    BY <1>3, StartFacts
  <2>2. u = t
    BY <1>1, <2>1 DEF StartEffect
  <2> QED
    BY <1>3, <2>1, <2>2 DEF StartEffect, Begun, Queued
<1>4. ASSUME NEW u \in Threads, NotOffloaded(u) \/ WaitMisreads(u)
      PROVE  program' = program
  BY <1>0, <1>4, DirectStep
<1>5. ASSUME (\E r \in Requests : Finish(r))
             \/ (\E u \in Threads : \E r \in Requests : \E q \in Requests :
                    Waitall(u, <<r>>) \/ Waitall(u, <<r, q>>))
      PROVE  program' = program
  BY <1>0, <1>5, QuietFacts
<1>6. ASSUME NEW u \in Threads, WaitNext(u)
      PROVE  program' = program
  BY <1>6, WaitFacts
<1>7. UNCHANGED vars => program' = program
  BY DEF vars, engine
<1>8. ASSUME NEW u \in Threads, \E r \in Requests, h \in Handles, m \in Nat : PostOp(u, r, h, m)
      PROVE  FALSE
  BY <1>2, <1>8
<1> QED
  BY <1>0, <1>1, <1>3, <1>4, <1>5, <1>6, <1>7, <1>8, StepCases

\* The invariant holds at the start.
LEMMA InitInvariant == Init => InterpositionInv
<1> SUFFICES ASSUME Init
             PROVE  InterpositionInv
  OBVIOUS
<1>0. /\ stage = [r \in Requests |-> "inactive"] /\ program = [t \in Threads |-> << >>]
      /\ MaxCalls \in Nat /\ None \notin {"engine", "MPI"}
  BY InterpositionAssumption DEF Init, TM!Init
<1>1. TypeOK
  BY <1>0 DEF Init, TypeOK, TM!TypeOK
<1>2. EngineInv /\ ProgramInv
  BY <1>0 DEF Init, EngineInv, ProgramInv, Active
<1>3. ArrayInv
  <2>1. ToSet(<< >>) = {}
    BY DEF ToSet
  <2> QED
    BY <2>1 DEF Init, ArrayInv
<1>4. OrderInv /\ HandleInv /\ MessageInv
  BY <1>0 DEF Init, OrderInv, HandleInv, MessageInv, Active
<1> QED
  BY <1>1, <1>2, <1>3, <1>4 DEF InterpositionInv, BaseInv

\* The invariant is inductive.
THEOREM InvariantHolds == Spec => []InterpositionInv
<1>1. InterpositionInv /\ [Next]_vars => InterpositionInv'
  <2> SUFFICES ASSUME InterpositionInv, [Next]_vars
               PROVE  InterpositionInv'
    OBVIOUS
  <2>1. Ordered' = Ordered /\ Kept' = Kept /\ Single' = Single
    BY DEF Ordered, Kept, Single, DirectRoles
  <2> QED
    BY <2>1, BaseStep, ArrayStep, OrderStep, HandleStep, MessageStep DEF InterpositionInv
<1> QED
  BY <1>1, InitInvariant, PTL DEF Spec

\* The types of the requests, queues and handles.
THEOREM TypeCorrect == Spec => []TypeOK
<1>1. InterpositionInv => TypeOK
  BY DEF InterpositionInv, BaseInv
<1> QED
  BY <1>1, InvariantHolds, PTL

\* MPI_Waitall returns only when all its requests are complete, whatever calls
\* the application makes directly meanwhile.
THEOREM WaitallIsComplete == Spec => WaitallCompletes
<1>1. ASSUME InterpositionInv, [Next]_vars
      PROVE  [\A t \in Threads : array[t] # << >> /\ array'[t] = << >>
                => \A i \in 1 .. Len(array[t]) : stage'[array[t][i]] = "inactive"]_vars
  BY <1>1, WaitallStep DEF InterpositionInv
<1> QED
  BY <1>1, InvariantHolds, PTL DEF Spec, WaitallCompletes

\* The calls of a thread over a handle reach MPI in its order, those through
\* the queue and the direct ones, if no direct call over the handle is made
\* while an operation of the thread is active there, or none at all is made
\* that takes part in that order.
THEOREM CallsStayInOrder ==
  ASSUME Ordered
  PROVE  Spec => CallsInOrder
<1>1. ASSUME InterpositionInv, [Next]_vars
      PROVE  [\A t \in Threads, h \in Handles : reached'[t][h] >= reached[t][h]]_vars
  BY <1>1, OrderStep DEF InterpositionInv
<1> QED
  BY <1>1, InvariantHolds, PTL DEF Spec, CallsInOrder

\* The offload thread never names an object that was given up after the call
\* was posted, if objects are freed only when no operation on them is active.
THEOREM HandlesStayOpen ==
  ASSUME Kept
  PROVE  Spec => HandlesOpen
<1>1. ASSUME InterpositionInv, [Next]_vars
      PROVE  [\A t \in Threads : Begins(t) => handles[Begun(t).handle] = "open"]_vars
  <2>1. ASSUME NEW t \in Threads, Begins(t)
        PROVE  handles[Begun(t).handle] = "open"
    <3>1. BaseInv /\ HandleInv
      BY <1>1 DEF InterpositionInv
    <3>2. Begun(t) = Queued(t, 1) /\ 1 \in 1 .. Len(program[t])
      BY <1>1, <2>1, <3>1, BeginsFacts
    <3> QED
      BY <3>1, <3>2, QueuedOnce DEF HandleInv, Queued
  <2> QED
    BY <2>1
<1> QED
  BY <1>1, InvariantHolds, PTL DEF Spec, HandlesOpen

\* MPI_Imrecv receives the message that its caller passed, if the caller does
\* not match another one before.
THEOREM MessagesAreOwn ==
  ASSUME Single
  PROVE  Spec => OwnMessage
<1>1. ASSUME InterpositionInv, [Next]_vars
      PROVE  [\A t \in Threads : Begins(t) /\ Begun(t).message # 0
                 => message[t] = Begun(t).message]_vars
  <2>1. ASSUME NEW t \in Threads, Begins(t), Begun(t).message # 0
        PROVE  message[t] = Begun(t).message
    <3>1. BaseInv /\ MessageInv
      BY <1>1 DEF InterpositionInv
    <3>2. Begun(t) = Queued(t, 1) /\ 1 \in 1 .. Len(program[t])
      BY <1>1, <2>1, <3>1, BeginsFacts
    <3> QED
      BY <2>1, <3>1, <3>2, QueuedOnce DEF MessageInv, Queued
  <2> QED
    BY <2>1
<1> QED
  BY <1>1, InvariantHolds, PTL DEF Spec, OwnMessage

=============================================================================
