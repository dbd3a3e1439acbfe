---------------------------- MODULE RanksProofs -----------------------------
(***************************************************************************)
(* A program that completes on an MPI library with MPI_THREAD_MULTIPLE     *)
(* never gets stuck with one offload thread per process, for any number of *)
(* processes, threads, operations and calls, if no other thread of a       *)
(* process communicates beside one that makes window calls.                *)
(***************************************************************************)
EXTENDS RanksInvariant, FiniteSetTheorems, SequenceTheorems, TLAPS

-----------------------------------------------------------------------------
(***************************************************************************)
(* Legal programs                                                          *)
(***************************************************************************)
\* A program is a sequence of calls that posts an operation once, and waits for
\* it after that.
LEMMA ProgramFacts ==
  ASSUME ProgramInv, NEW t \in Threads
  PROVE  /\ Len(program[t]) \in 0 .. MaxCalls
         /\ DOMAIN program[t] = 1 .. Len(program[t])
         /\ \A i \in 1 .. Len(program[t]) : program[t][i] \in Calls
         /\ \A o \in Ops : Posts(program[t], o) \subseteq 1 .. Len(program[t])
         /\ \A o \in Ops : \A i, j \in Posts(program[t], o) : i = j
         /\ \A i \in 1 .. Len(program[t]) :
               IF program[t][i].style # "wait"
               THEN i \in Posts(program[t], program[t][i].op)
               ELSE \E a \in Posts(program[t], program[t][i].op) : a < i
<1>1. program[t] \in ThreadPrograms
  BY DEF ProgramInv
<1>2. PICK n \in 0 .. MaxCalls : program[t] \in [1 .. n -> Calls]
  BY <1>1 DEF ThreadPrograms
<1>3. Len(program[t]) = n /\ DOMAIN program[t] = 1 .. n
  BY <1>2, RanksAssumption
<1>4. \A o \in Ops : Posts(program[t], o) \subseteq 1 .. n
  BY <1>3 DEF Posts
<1>5. ASSUME NEW o \in Ops
      PROVE  LET waits == {i \in DOMAIN program[t] : program[t][i].style = "wait" /\ program[t][i].op = o}
             IN  \/ Posts(program[t], o) = {} /\ waits = {}
                 \/ \E i \in Posts(program[t], o) :
                       /\ Posts(program[t], o) = {i}
                       /\ IF program[t][i].style = "call" THEN waits = {}
                          ELSE \E j \in waits : waits = {j} /\ i < j
  BY <1>1 DEF ThreadPrograms
<1>6. \A o \in Ops : \A i, j \in Posts(program[t], o) : i = j
  BY <1>5
<1>7. ASSUME NEW i \in 1 .. n
      PROVE  IF program[t][i].style # "wait"
             THEN i \in Posts(program[t], program[t][i].op)
             ELSE \E a \in Posts(program[t], program[t][i].op) : a < i
  <2>1. program[t][i] \in Calls /\ program[t][i].op \in Ops
    BY <1>2 DEF Calls
  <2>2. CASE program[t][i].style # "wait"
    BY <1>3, <2>2 DEF Posts
  <2>3. CASE program[t][i].style = "wait"
    <3> DEFINE o == program[t][i].op
               waits == {k \in DOMAIN program[t] : program[t][k].style = "wait" /\ program[t][k].op = o}
    <3>1. i \in waits
      BY <1>3, <2>3
    <3>2. \/ Posts(program[t], o) = {} /\ waits = {}
          \/ \E k \in Posts(program[t], o) :
                /\ Posts(program[t], o) = {k}
                /\ IF program[t][k].style = "call" THEN waits = {}
                   ELSE \E j \in waits : waits = {j} /\ k < j
      BY <1>5, <2>1
    <3> HIDE DEF o, waits
    <3>3. \E a \in Posts(program[t], o) : a < i
      BY <3>1, <3>2
    <3> QED
      BY <2>3, <3>3 DEF o
  <2> QED
    BY <2>2, <2>3
<1> QED
  BY <1>2, <1>3, <1>4, <1>6, <1>7

\* On each rank one thread posts an operation.
LEMMA CallerFacts ==
  ASSUME ProgramInv, NEW r \in Ranks, NEW o \in Ops,
         NEW t \in ThreadsOf(r), Posts(program[t], o) # {}
  PROVE  /\ \A u \in ThreadsOf(r) : Posts(program[u], o) # {} => u = t
         /\ NullRequest(operation[o]) =>
               \A i \in Posts(program[t], o) : program[t][i].style = "call"
         /\ operation[o].family = "window" /\ ~WindowsShareRank =>
               \A u \in ThreadsOf(r) \ {t} : program[u] = << >>
<1> DEFINE callers == {u \in ThreadsOf(r) : Posts(program[u], o) # {}}
<1>1. t \in callers
  OBVIOUS
<1>2. /\ Cardinality(callers) = IF r \in operation[o].ranks THEN 1 ELSE 0
      /\ \A u \in callers : NullRequest(operation[o]) =>
            \A i \in Posts(program[u], o) : program[u][i].style = "call"
      /\ operation[o].family = "window" /\ ~WindowsShareRank =>
            \A u \in callers : \A v \in ThreadsOf(r) \ {u} : program[v] = << >>
  BY DEF ProgramInv, Legal
<1>3. IsFiniteSet(callers)
  <2>1. callers \subseteq Threads
    BY DEF ThreadsOf
  <2> QED
    BY <2>1, FS_Subset, RanksAssumption
<1>4. callers = {t}
  <2>1. Cardinality(callers) # 0
    BY <1>1, <1>3, FS_EmptySet
  <2>2. Cardinality(callers) = 1
    BY <1>2, <2>1
  <2>3. PICK u : callers = {u}
    BY <1>3, <2>2, FS_Singleton
  <2> QED
    BY <1>1, <2>3
<1> QED
  BY <1>1, <1>2, <1>4

-----------------------------------------------------------------------------
(***************************************************************************)
(* Every step preserves the invariant                                      *)
(***************************************************************************)
\* The window call that keeps the offload thread is the one its thread is in.
LEMMA WindowFacts ==
  ASSUME IInv, ~WindowsShareRank, NEW r \in Ranks, NEW o \in Ops,
         o \notin done[r], Posted(r, o),
         operation[o].family = "window"
  PROVE  \E t \in ThreadsOf(r) :
            /\ inside[t] /\ entered[t] \in Posts(program[t], o)
            /\ \A u \in ThreadsOf(r) \ {t} : program[u] = << >>
<1>1. PICK t \in ThreadsOf(r) : \E i \in Posts(program[t], o) : i <= entered[t]
  BY DEF Posted
<1>2. PICK i \in Posts(program[t], o) : i <= entered[t]
  BY <1>1
<1>3. t \in Threads /\ RankOf[t] = r
  BY DEF ThreadsOf
<1>4. i \in 1 .. entered[t] /\ program[t][i].op = o
  BY <1>2, <1>3, ProgramFacts DEF IInv, TypeOK, Posts
<1>5. /\ program[t][i].style = "call"
      /\ \A u \in ThreadsOf(r) \ {t} : program[u] = << >>
  BY <1>2, CallerFacts DEF IInv, NullRequest
<1>6. inside[t] /\ i = entered[t]
  BY <1>3, <1>4, <1>5 DEF IInv, ReturnInv
<1> QED
  BY <1>2, <1>5, <1>6

\* A thread posts its next operation.
LEMMA PostInvariant ==
  ASSUME IInv, ~WindowsShareRank, NEW t \in Threads, Post(t)
  PROVE  IInv'
<1>0. PICK r, i, o : r = RankOf[t] /\ i = entered[t] + 1 /\ o = program[t][i].op
  OBVIOUS
<1>1. /\ r \in Ranks /\ t \in ThreadsOf(r) /\ i \in 1 .. Len(program[t]) /\ o \in Ops
      /\ i \in Posts(program[t], o) /\ entered[t] \in Nat
      /\ program[t][i].style \in {"start", "call"}
  <2>1. r \in Ranks /\ t \in ThreadsOf(r)
    BY <1>0, RanksAssumption DEF ThreadsOf
  <2>2. entered[t] \in Nat /\ i \in 1 .. Len(program[t])
    BY <1>0, ProgramFacts DEF IInv, TypeOK, Post
  <2>3. program[t][i] \in Calls /\ program[t][i].style # "wait"
    BY <1>0, <2>2, ProgramFacts DEF IInv, Post
  <2> QED
    BY <1>0, <2>1, <2>2, <2>3, ProgramFacts DEF IInv, Calls
<1>2. /\ UNCHANGED <<operation, program, blocked, called, done>>
      /\ ~inside[t]
      /\ entered' = [entered EXCEPT ![t] = i]
      /\ queue' = [queue EXCEPT ![r] = Append(@, o)]
      /\ inside' = [inside EXCEPT ![t] = (program[t][i].style = "call")]
  BY <1>0 DEF Post
<1>3. /\ \A u \in ThreadsOf(r) : Posts(program[u], o) # {} => u = t
      /\ \A a \in Posts(program[t], o) : a = i
  <2>1. Posts(program[t], o) # {}
    BY <1>1
  <2>2. \A u \in ThreadsOf(r) : Posts(program[u], o) # {} => u = t
    BY <1>1, <2>1, CallerFacts DEF IInv
  <2>3. \A a \in Posts(program[t], o) : a = i
    BY <1>1, ProgramFacts DEF IInv
  <2> QED
    BY <2>2, <2>3
<1>4. ~Posted(r, o)
  <2>1. ASSUME NEW u \in ThreadsOf(r), NEW a \in Posts(program[u], o), a <= entered[u]
        PROVE  FALSE
    <3>1. Posts(program[u], o) # {}
      BY <2>1
    <3>2. u = t /\ a = i
      BY <1>3, <2>1, <3>1
    <3> QED
      BY <1>0, <1>1, <2>1, <3>2
  <2> QED
    BY <2>1 DEF Posted
<1>5. ~InQueue(r, o) /\ o \notin called[r]
  BY <1>1, <1>4 DEF IInv, CommandInv
<1>6. \A q \in Ranks, x \in Ops : Posted(q, x)' <=> Posted(q, x) \/ (q = r /\ x = o)
  <2> TAKE q \in Ranks, x \in Ops
  <2>1. ASSUME NEW u \in ThreadsOf(q), NEW a \in Posts(program[u], x)
        PROVE  a <= entered'[u] <=> a <= entered[u] \/ (q = r /\ x = o /\ u = t)
    <3>1. u \in Threads /\ a \in 1 .. Len(program[u]) /\ entered[u] \in Nat /\ program[u][a].op = x
      BY <2>1, ProgramFacts DEF IInv, TypeOK, ThreadsOf, Posts
    <3>2. CASE u # t
      BY <1>2, <3>1, <3>2 DEF IInv, TypeOK
    <3>3. CASE u = t
      <4>1. entered'[u] = i /\ q = r
        BY <1>0, <1>2, <3>3, <3>1, <2>1 DEF IInv, TypeOK, ThreadsOf
      <4>2. a = i => x = o
        BY <1>0, <3>1, <3>3
      <4>3. x = o => a = i
        BY <1>3, <2>1, <3>3
      <4> QED
        BY <1>0, <1>1, <3>1, <3>3, <4>1, <4>2, <4>3
    <3> QED
      BY <3>2, <3>3
  <2>2. x = o /\ q = r => \E a \in Posts(program[t], x) : a <= entered'[t]
    BY <1>1, <1>2 DEF IInv, TypeOK
  <2>3. ThreadsOf(q)' = ThreadsOf(q) /\ program' = program
    BY <1>2 DEF ThreadsOf
  <2>4. Posted(q, x)' <=> \E u \in ThreadsOf(q) : \E a \in Posts(program[u], x) : a <= entered'[u]
    BY <2>3 DEF Posted, Posts
  <2> QED
    BY <1>1, <2>1, <2>2, <2>4 DEF Posted
<1>7. /\ \A q \in Ranks : queue'[q] \in Seq(Ops)
      /\ \A q \in Ranks \ {r} : queue'[q] = queue[q]
      /\ Len(queue'[r]) = Len(queue[r]) + 1 /\ Len(queue[r]) \in Nat
      /\ queue'[r][Len(queue[r]) + 1] = o
      /\ \A k \in 1 .. Len(queue[r]) : queue'[r][k] = queue[r][k]
  BY <1>0, <1>1, <1>2 DEF IInv, TypeOK
<1>8. \A q \in Ranks, x \in Ops : InQueue(q, x)' <=> InQueue(q, x) \/ (q = r /\ x = o)
  <2> TAKE q \in Ranks, x \in Ops
  <2>1. CASE q # r
    BY <1>7, <2>1 DEF InQueue
  <2>2. CASE q = r
    <3>1. 1 .. Len(queue'[r]) = (1 .. Len(queue[r])) \cup {Len(queue[r]) + 1}
      BY <1>7
    <3> QED
      BY <1>7, <2>2, <3>1 DEF InQueue
  <2> QED
    BY <2>1, <2>2
<1>9. ProgramInv' /\ TypeOK'
  BY <1>1, <1>2 DEF IInv, TypeOK, ProgramInv
<1>10. PlaceInv'
  BY <1>0, <1>1, <1>2 DEF IInv, TypeOK, PlaceInv, Current
<1>11. CommandInv'
  <2> QED
    BY <1>2, <1>4, <1>5, <1>6, <1>8 DEF IInv, CommandInv
<1>12. OrderInv'
  <2> SUFFICES ASSUME NEW q \in Ranks, NEW u \in ThreadsOf(q),
                      NEW j \in 1 .. Len(queue'[q]), NEW k \in 1 .. Len(queue'[q]), j < k,
                      NEW m \in Posts(program[u], queue'[q][j]),
                      NEW n \in Posts(program[u], queue'[q][k])
               PROVE  m < n
    BY <1>2 DEF OrderInv, ThreadsOf
  <2>1. CASE q # r \/ k <= Len(queue[r])
    <3>1. /\ j \in 1 .. Len(queue[q]) /\ k \in 1 .. Len(queue[q])
          /\ queue'[q][j] = queue[q][j] /\ queue'[q][k] = queue[q][k]
      BY <1>7, <2>1
    <3> QED
      BY <3>1 DEF IInv, OrderInv
  <2>2. CASE q = r /\ k = Len(queue[r]) + 1
    <3>0. n \in Posts(program[u], o) /\ j \in 1 .. Len(queue[r])
      BY <1>7, <2>2
    <3>1. u = t /\ n = i /\ j \in 1 .. Len(queue[r]) /\ m \in Posts(program[t], queue[r][j])
      <4>1. Posts(program[u], o) # {}
        BY <3>0
      <4>2. u = t
        BY <1>3, <2>2, <4>1
      <4> QED
        BY <1>3, <1>7, <2>2, <3>0, <4>2
    <3>2. InQueue(r, queue[r][j]) /\ queue[r][j] \in Ops
      BY <1>1, <3>1 DEF InQueue, IInv, TypeOK
    <3>3. PICK v \in ThreadsOf(r) : \E a \in Posts(program[v], queue[r][j]) : a <= entered[v]
      BY <1>1, <3>2 DEF IInv, CommandInv, Posted
    <3>4. v = t
      <4>1. Posts(program[t], queue[r][j]) # {} /\ Posts(program[v], queue[r][j]) # {}
        BY <3>1, <3>3
      <4> QED
        BY <1>1, <3>2, <4>1, CallerFacts DEF IInv
    <3>5. m <= entered[t] /\ m \in 1 .. Len(program[t])
      <4>1. /\ \A x, y \in Posts(program[t], queue[r][j]) : x = y
            /\ Posts(program[t], queue[r][j]) \subseteq 1 .. Len(program[t])
        BY <3>2, ProgramFacts DEF IInv
      <4> QED
        BY <3>1, <3>3, <3>4, <4>1
    <3> QED
      BY <1>0, <1>1, <3>1, <3>5
  <2> QED
    BY <1>7, <2>1, <2>2
<1>13. ReturnInv'
  <2> SUFFICES ASSUME NEW u \in Threads, NEW j \in 1 .. entered'[u], program[u][j].style = "call"
               PROVE  program[u][j].op \in done[RankOf[u]] \/ (inside'[u] /\ j = entered'[u])
    BY <1>2 DEF ReturnInv
  <2>1. CASE u # t
    BY <1>2, <2>1 DEF IInv, TypeOK, ReturnInv
  <2>2. CASE u = t /\ j = i
    BY <1>1, <1>2, <2>2 DEF IInv, TypeOK
  <2>3. CASE u = t /\ j # i
    <3>1. j \in 1 .. entered[t] /\ entered[t] \in Nat
      BY <1>0, <1>1, <1>2, <2>3 DEF IInv, TypeOK
    <3>2. program[t][j].op \in done[RankOf[t]]
      BY <1>2, <2>3, <3>1 DEF IInv, ReturnInv
    <3> QED
      BY <2>3, <3>2
  <2> QED
    BY <2>1, <2>2, <2>3
<1>14. BlockedInv'
  <2>1. CASE blocked[r] = NoOp \/ operation[blocked[r]].family # "window"
    BY <1>2, <1>7, <2>1 DEF IInv, BlockedInv
  <2>2. CASE blocked[r] # NoOp /\ operation[blocked[r]].family = "window"
    <3>1. blocked[r] \in Ops /\ blocked[r] \in called[r] \ done[r]
      BY <1>1, <2>2 DEF IInv, TypeOK, BlockedInv
    <3>2. Posted(r, blocked[r])
      BY <1>1, <3>1 DEF IInv, CommandInv
    <3>3. PICK u \in ThreadsOf(r) : inside[u] /\ \A v \in ThreadsOf(r) \ {u} : program[v] = << >>
      BY <1>1, <2>2, <3>1, <3>2, WindowFacts
    <3>4. program[t] = << >>
      BY <1>1, <1>2, <3>3
    <3>5. Len(program[t]) = 0
      BY <3>4
    <3> QED
      BY <1>0, <1>1, <3>5
  <2> QED
    BY <2>1, <2>2
<1> QED
  BY <1>9, <1>10, <1>11, <1>12, <1>13, <1>14 DEF IInv

\* A thread enters MPI_Wait.
LEMMA WaitInvariant ==
  ASSUME IInv, NEW t \in Threads, Wait(t)
  PROVE  IInv'
<1>0. PICK i : i = entered[t] + 1
  OBVIOUS
<1>1. entered[t] \in Nat /\ i \in 1 .. Len(program[t]) /\ program[t][i].style = "wait"
  BY <1>0, ProgramFacts DEF IInv, TypeOK, Wait
<1>2. /\ UNCHANGED <<operation, program, queue, blocked, called, done>>
      /\ ~inside[t]
      /\ entered' = [entered EXCEPT ![t] = i]
      /\ inside' = [inside EXCEPT ![t] = TRUE]
  BY <1>0 DEF Wait
<1>3. ProgramInv' /\ TypeOK'
  BY <1>1, <1>2 DEF IInv, TypeOK, ProgramInv
<1>4. PlaceInv'
  BY <1>1, <1>2 DEF IInv, TypeOK, PlaceInv, Current
<1>5. \A r \in Ranks, o \in Ops : Posted(r, o)' <=> Posted(r, o)
  <2> TAKE r \in Ranks, o \in Ops
  <2>1. ASSUME NEW u \in ThreadsOf(r), NEW a \in Posts(program[u], o)
        PROVE  a <= entered'[u] <=> a <= entered[u]
    <3>1. u \in Threads /\ a \in 1 .. Len(program[u]) /\ entered[u] \in Nat
      BY ProgramFacts DEF IInv, TypeOK, ThreadsOf
    <3>2. program[u][a].style # "wait"
      BY DEF Posts
    <3>3. u = t => a # i /\ entered'[u] = i
      BY <1>1, <1>2, <3>2 DEF IInv, TypeOK
    <3>4. u # t => entered'[u] = entered[u]
      BY <1>2, <3>1 DEF IInv, TypeOK
    <3> QED
      BY <1>0, <1>1, <3>1, <3>3, <3>4
  <2>2. ThreadsOf(r)' = ThreadsOf(r) /\ program' = program
    BY <1>2 DEF ThreadsOf
  <2>3. Posted(r, o)' <=> \E u \in ThreadsOf(r) : \E a \in Posts(program[u], o) : a <= entered'[u]
    BY <2>2 DEF Posted, Posts
  <2> QED
    BY <2>1, <2>3 DEF Posted
<1>6. CommandInv'
  BY <1>2, <1>5 DEF IInv, CommandInv, InQueue
<1>7. OrderInv' /\ BlockedInv'
  BY <1>2 DEF IInv, OrderInv, BlockedInv, ThreadsOf
<1>8. ReturnInv'
  <2> SUFFICES ASSUME NEW u \in Threads, NEW j \in 1 .. entered'[u], program[u][j].style = "call"
               PROVE  program[u][j].op \in done[RankOf[u]] \/ (inside'[u] /\ j = entered'[u])
    BY <1>2 DEF ReturnInv
  <2>1. CASE u # t
    BY <1>2, <2>1 DEF IInv, TypeOK, ReturnInv
  <2>2. CASE u = t
    <3>1. entered'[t] = i
      BY <1>2 DEF IInv, TypeOK
    <3>2. j \in 1 .. entered[t]
      BY <1>0, <1>1, <2>2, <3>1
    <3> QED
      BY <1>2, <2>2, <3>2 DEF IInv, ReturnInv
  <2> QED
    BY <2>1, <2>2
<1> QED
  BY <1>3, <1>4, <1>6, <1>7, <1>8 DEF IInv

\* A call returns when the flag of its operation is set.
LEMMA ReturnInvariant ==
  ASSUME IInv, NEW t \in Threads, Return(t)
  PROVE  IInv'
<1>1. /\ UNCHANGED <<operation, program, entered, queue, blocked, called, done>>
      /\ inside' = [inside EXCEPT ![t] = FALSE]
      /\ program[t][entered[t]].op \in done[RankOf[t]]
  BY DEF Return, Current
<1>2. ProgramInv' /\ TypeOK' /\ PlaceInv'
  BY <1>1 DEF IInv, ProgramInv, TypeOK, PlaceInv, Current
<1>3. CommandInv' /\ OrderInv' /\ BlockedInv'
  BY <1>1 DEF IInv, CommandInv, OrderInv, BlockedInv, Posted, InQueue, ThreadsOf
<1>4. ReturnInv'
  <2> SUFFICES ASSUME NEW u \in Threads, NEW j \in 1 .. entered[u], program[u][j].style = "call"
               PROVE  program[u][j].op \in done[RankOf[u]] \/ (inside'[u] /\ j = entered[u])
    BY <1>1 DEF ReturnInv
  <2>1. program[u][j].op \in done[RankOf[u]] \/ (inside[u] /\ j = entered[u])
    BY DEF IInv, ReturnInv
  <2> QED
    BY <1>1, <2>1 DEF IInv, TypeOK
<1> QED
  BY <1>2, <1>3, <1>4 DEF IInv

\* The command that the offload thread takes is in the queue once, and when it is a
\* window call there is no other.
LEMMA HeadFacts ==
  ASSUME IInv, NEW r \in Ranks, queue[r] # << >>
  PROVE  LET o == queue[r][1]
         IN  /\ Len(queue[r]) \in Nat \ {0} /\ 1 \in 1 .. Len(queue[r])
             /\ o \in Ops /\ Posted(r, o) /\ o \notin called[r]
             /\ \A k \in 2 .. Len(queue[r]) : queue[r][k] # o
             /\ ~WindowsShareRank /\ operation[o].family = "window" => Len(queue[r]) = 1
<1>0. PICK o : o = queue[r][1]
  OBVIOUS
<1>1. /\ queue[r] \in Seq(Ops) /\ Len(queue[r]) \in Nat \ {0} /\ 1 \in 1 .. Len(queue[r])
      /\ \A k \in 1 .. Len(queue[r]) : queue[r][k] \in Ops
  BY DEF IInv, TypeOK
<1>2. \A k \in 1 .. Len(queue[r]) : InQueue(r, queue[r][k]) /\ Posted(r, queue[r][k])
  <2> TAKE k \in 1 .. Len(queue[r])
  <2>1. InQueue(r, queue[r][k])
    BY DEF InQueue
  <2> QED
    BY <1>1, <2>1 DEF IInv, CommandInv
<1>3. o \in Ops /\ Posted(r, o) /\ o \notin called[r]
  BY <1>0, <1>1, <1>2 DEF IInv, CommandInv
<1>4. ASSUME NEW k \in 2 .. Len(queue[r]), queue[r][k] = o
      PROVE  FALSE
  <2>1. PICK t \in ThreadsOf(r) : Posts(program[t], o) # {}
    BY <1>3 DEF Posted
  <2>2. PICK m \in Posts(program[t], o) : TRUE
    BY <2>1
  <2>3. 1 < k /\ k \in 1 .. Len(queue[r])
    BY <1>1
  <2>4. m < m
    BY <1>0, <1>1, <1>4, <2>2, <2>3 DEF IInv, OrderInv
  <2>5. t \in Threads
    BY DEF ThreadsOf
  <2>6. m \in Nat
    BY <1>3, <2>2, <2>5, ProgramFacts DEF IInv
  <2> QED
    BY <2>4, <2>6
<1>5. ASSUME ~WindowsShareRank, operation[o].family = "window", Len(queue[r]) # 1
      PROVE  FALSE
  <2>1. 2 \in 1 .. Len(queue[r])
    <3>1. \A n \in Nat \ {0} : n # 1 => 2 \in 1 .. n
      OBVIOUS
    <3>2. Len(queue[r]) \in Nat \ {0} /\ Len(queue[r]) # 1
      BY <1>1, <1>5
    <3> QED
      BY <3>1, <3>2
  <2>2. o \notin done[r]
    BY <1>3 DEF IInv, BlockedInv
  <2>3. PICK t \in ThreadsOf(r) : /\ entered[t] \in Posts(program[t], o)
                                  /\ \A u \in ThreadsOf(r) \ {t} : program[u] = << >>
    BY <1>3, <1>5, <2>2, WindowFacts
  <2>4. PICK x \in Ops : x = queue[r][2] /\ Posted(r, x)
    BY <1>1, <1>2, <2>1
  <2>5. PICK u \in ThreadsOf(r) : \E a \in Posts(program[u], x) : a <= entered[u]
    BY <2>4 DEF Posted
  <2>6. PICK a \in Posts(program[u], x) : a <= entered[u]
    BY <2>5
  <2>7. u \in Threads /\ a \in 1 .. Len(program[u]) /\ entered[u] \in Nat
    BY <2>4, ProgramFacts DEF IInv, TypeOK, ThreadsOf
  <2>8. u = t
    <3>1. Len(program[u]) # 0
      BY <2>7
    <3>2. program[u] # << >>
      BY <3>1
    <3> QED
      BY <2>3, <3>2
  <2>9. entered[t] < a
    BY <1>0, <1>1, <2>1, <2>3, <2>4, <2>6, <2>8 DEF IInv, OrderInv
  <2> QED
    BY <2>6, <2>7, <2>8, <2>9
<1> QED
  BY <1>0, <1>1, <1>3, <1>4, <1>5

\* The offload thread calls MPI for the command at the head of its queue.
LEMMA ExecuteInvariant ==
  ASSUME IInv, ~WindowsShareRank, NEW r \in Ranks, Execute(r)
  PROVE  IInv'
<1>0. PICK o : o = queue[r][1]
  OBVIOUS
<1>1. /\ UNCHANGED <<operation, program, entered, inside, done>>
      /\ blocked[r] = NoOp /\ queue[r] # << >>
      /\ queue' = [queue EXCEPT ![r] = Tail(@)]
      /\ called' = [called EXCEPT ![r] = @ \cup {o}]
      /\ blocked' = [blocked EXCEPT ![r] = IF NullRequest(operation[o]) THEN o ELSE NoOp]
  BY <1>0 DEF Execute
<1>2. /\ Len(queue[r]) \in Nat \ {0} /\ 1 \in 1 .. Len(queue[r])
      /\ o \in Ops /\ Posted(r, o) /\ o \notin called[r]
      /\ \A k \in 2 .. Len(queue[r]) : queue[r][k] # o
      /\ operation[o].family = "window" => Len(queue[r]) = 1
  BY <1>0, <1>1, HeadFacts
<1>3. /\ \A q \in Ranks : queue'[q] \in Seq(Ops)
      /\ \A q \in Ranks \ {r} : queue'[q] = queue[q]
      /\ Len(queue'[r]) = Len(queue[r]) - 1
      /\ \A k \in 1 .. Len(queue'[r]) : k + 1 \in 2 .. Len(queue[r]) /\ queue'[r][k] = queue[r][k + 1]
  <2>1. queue[r] \in Seq(Ops) /\ queue'[r] = Tail(queue[r])
    BY <1>1 DEF IInv, TypeOK
  <2>2. Tail(queue[r]) \in Seq(Ops) /\ Len(Tail(queue[r])) = Len(queue[r]) - 1
    BY <1>1, <2>1
  <2>3. \A k \in 1 .. Len(queue[r]) - 1 : Tail(queue[r])[k] = queue[r][k + 1]
    BY <1>1, <2>1
  <2> QED
    BY <1>1, <1>2, <2>1, <2>2, <2>3 DEF IInv, TypeOK
<1>4. \A q \in Ranks, x \in Ops : InQueue(q, x)' <=> InQueue(q, x) /\ ~(q = r /\ x = o)
  <2> TAKE q \in Ranks, x \in Ops
  <2>1. CASE q # r
    BY <1>3, <2>1 DEF InQueue
  <2>2. ASSUME q = r, InQueue(q, x)'
        PROVE  InQueue(q, x) /\ x # o
    <3>1. PICK k \in 1 .. Len(queue'[r]) : queue'[r][k] = x
      BY <2>2 DEF InQueue
    <3>2. k + 1 \in 2 .. Len(queue[r]) /\ queue[r][k + 1] = x
      BY <1>3, <3>1
    <3>3. k + 1 \in 1 .. Len(queue[r])
      BY <1>2, <3>2
    <3> QED
      BY <1>2, <2>2, <3>2, <3>3 DEF InQueue
  <2>3. ASSUME q = r, InQueue(q, x), x # o
        PROVE  InQueue(q, x)'
    <3>1. PICK k \in 1 .. Len(queue[r]) : queue[r][k] = x
      BY <2>3 DEF InQueue
    <3>2. k # 1
      BY <1>0, <2>3, <3>1
    <3>3. k - 1 \in 1 .. Len(queue'[r]) /\ (k - 1) + 1 = k
      BY <1>2, <1>3, <3>2
    <3>4. queue'[r][k - 1] = x
      BY <1>3, <3>1, <3>3
    <3> QED
      BY <2>3, <3>3, <3>4 DEF InQueue
  <2> QED
    BY <2>1, <2>2, <2>3
<1>5. ProgramInv' /\ PlaceInv' /\ ReturnInv'
  BY <1>1 DEF IInv, ProgramInv, PlaceInv, ReturnInv, Current
<1>6. TypeOK'
  <2>1. queue' \in [Ranks -> Seq(Ops)]
    BY <1>1, <1>3 DEF IInv, TypeOK
  <2> QED
    BY <1>1, <1>2, <2>1 DEF IInv, TypeOK
<1>7. CommandInv'
  <2> SUFFICES ASSUME NEW q \in Ranks, NEW x \in Ops
               PROVE  /\ Posted(q, x) <=> InQueue(q, x)' \/ x \in called'[q]
                      /\ ~(InQueue(q, x)' /\ x \in called'[q])
    BY <1>1 DEF CommandInv, Posted, ThreadsOf
  <2>1. x \in called'[q] <=> x \in called[q] \/ (q = r /\ x = o)
    BY <1>1 DEF IInv, TypeOK
  <2>2. /\ Posted(q, x) <=> InQueue(q, x) \/ x \in called[q]
        /\ ~(InQueue(q, x) /\ x \in called[q])
    BY DEF IInv, CommandInv
  <2> QED
    BY <1>2, <1>4, <2>1, <2>2
<1>8. OrderInv'
  <2> SUFFICES ASSUME NEW q \in Ranks, NEW u \in ThreadsOf(q),
                      NEW j \in 1 .. Len(queue'[q]), NEW k \in 1 .. Len(queue'[q]), j < k,
                      NEW m \in Posts(program[u], queue'[q][j]),
                      NEW n \in Posts(program[u], queue'[q][k])
               PROVE  m < n
    BY <1>1 DEF OrderInv, ThreadsOf
  <2>1. CASE q # r
    BY <1>3, <2>1 DEF IInv, OrderInv
  <2>2. CASE q = r
    <3>1. /\ j + 1 \in 1 .. Len(queue[r]) /\ k + 1 \in 1 .. Len(queue[r]) /\ j + 1 < k + 1
          /\ m \in Posts(program[u], queue[r][j + 1]) /\ n \in Posts(program[u], queue[r][k + 1])
      BY <1>2, <1>3, <2>2
    <3> QED
      BY <2>2, <3>1 DEF IInv, OrderInv
  <2> QED
    BY <2>1, <2>2
<1>9. BlockedInv'
  <2> SUFFICES ASSUME NEW q \in Ranks
               PROVE  /\ done[q] \subseteq called'[q]
                      /\ blocked'[q] # NoOp =>
                            /\ NullRequest(operation[blocked'[q]])
                            /\ blocked'[q] \in called'[q] \ done[q]
                            /\ operation[blocked'[q]].family = "window" => queue'[q] = << >>
    BY <1>1 DEF BlockedInv, NullRequest
  <2>1. CASE q # r
    BY <1>1, <2>1 DEF IInv, TypeOK, BlockedInv
  <2>2. CASE q = r
    <3>1. done[r] \subseteq called[r] /\ o \notin done[r]
      BY <1>2 DEF IInv, BlockedInv
    <3>2. called'[r] = called[r] \cup {o} /\ blocked'[r] = IF NullRequest(operation[o]) THEN o ELSE NoOp
      BY <1>1 DEF IInv, TypeOK
    <3>3. operation[o].family = "window" => queue'[r] = << >>
      <4>1. Len(queue[r]) = 1 => Len(queue'[r]) = 0
        BY <1>3
      <4> QED
        BY <1>2, <1>3, <4>1, EmptySeq
    <3> QED
      BY <2>2, <3>1, <3>2, <3>3
  <2> QED
    BY <2>1, <2>2
<1> QED
  BY <1>5, <1>6, <1>7, <1>8, <1>9 DEF IInv

\* The flag of an operation that MPI has been called for is set.
LEMMA DoneInvariant ==
  ASSUME IInv, NEW r \in Ranks, NEW o \in called[r] \ done[r],
         UNCHANGED <<operation, program, entered, inside, queue, called>>,
         done' = [done EXCEPT ![r] = @ \cup {o}],
         blocked' \in [Ranks -> Ops \cup {NoOp}],
         \A q \in Ranks : blocked'[q] = NoOp \/ (q # r /\ blocked'[q] = blocked[q])
  PROVE  IInv'
<1>1. ProgramInv' /\ PlaceInv' /\ CommandInv' /\ OrderInv'
  BY DEF IInv, ProgramInv, PlaceInv, CommandInv, OrderInv, Current, Posted, InQueue, ThreadsOf
<1>2. o \in Ops /\ TypeOK'
  BY DEF IInv, TypeOK
<1>3. /\ \A q \in Ranks : done[q] \subseteq done'[q]
      /\ \A q \in Ranks \ {r} : done'[q] = done[q]
      /\ done'[r] = done[r] \cup {o}
  BY DEF IInv, TypeOK
<1>4. ReturnInv'
  BY <1>3, RanksAssumption DEF IInv, ReturnInv
<1>5. BlockedInv'
  BY <1>3 DEF IInv, BlockedInv, NullRequest
<1> QED
  BY <1>1, <1>2, <1>4, <1>5 DEF IInv

\* Every step preserves the invariant.
LEMMA NextInvariant ==
  ASSUME IInv, ~WindowsShareRank, [Next]_vars
  PROVE  IInv'
<1>1. ASSUME NEW t \in Threads, ThreadStep(t)
      PROVE  IInv' \/ UNCHANGED vars
  BY <1>1, PostInvariant, WaitInvariant, ReturnInvariant DEF ThreadStep, Spin
<1>2. ASSUME NEW r \in Ranks, CallReturn(r)
      PROVE  IInv'
  <2>1. blocked[r] \in called[r] \ done[r]
    BY <1>2 DEF CallReturn, IInv, BlockedInv
  <2>2. /\ blocked' \in [Ranks -> Ops \cup {NoOp}]
        /\ \A q \in Ranks : blocked'[q] = NoOp \/ (q # r /\ blocked'[q] = blocked[q])
    BY <1>2 DEF CallReturn, IInv, TypeOK
  <2> QED
    BY <1>2, <2>1, <2>2, DoneInvariant DEF CallReturn
<1>3. ASSUME NEW r \in Ranks, TestRequests(r)
      PROVE  IInv'
  <2>1. PICK o \in called[r] \ done[r] : done' = [done EXCEPT ![r] = @ \cup {o}]
    BY <1>3 DEF TestRequests
  <2>2. /\ blocked' \in [Ranks -> Ops \cup {NoOp}]
        /\ \A q \in Ranks : blocked'[q] = NoOp \/ (q # r /\ blocked'[q] = blocked[q])
    BY <1>3 DEF TestRequests, IInv, TypeOK
  <2> QED
    BY <1>3, <2>1, <2>2, DoneInvariant DEF TestRequests
<1>4. CASE UNCHANGED vars
  BY <1>4 DEF vars, IInv, ProgramInv, TypeOK, PlaceInv, CommandInv, OrderInv, ReturnInv, BlockedInv,
     Current, Posted, InQueue, ThreadsOf, NullRequest
<1> QED
  BY <1>1, <1>2, <1>3, <1>4, ExecuteInvariant DEF Next, OffloadStep, Terminated

\* It holds before the first call.
LEMMA InitInvariant ==
  ASSUME Init
  PROVE  IInv
<1>1. ProgramInv
  BY DEF Init, ProgramInv
<1>2. TypeOK
  BY DEF Init, TypeOK
<1>3. PlaceInv /\ OrderInv /\ ReturnInv /\ BlockedInv
  BY <1>1, ProgramFacts DEF Init, PlaceInv, OrderInv, ReturnInv, BlockedInv
<1>4. CommandInv
  <2> SUFFICES ASSUME NEW r \in Ranks, NEW o \in Ops
               PROVE  ~Posted(r, o) /\ ~InQueue(r, o) /\ o \notin called[r]
    BY DEF CommandInv
  <2>1. ASSUME NEW t \in ThreadsOf(r), NEW i \in Posts(program[t], o)
        PROVE  ~(i <= entered[t])
    <3>1. t \in Threads /\ entered[t] = 0
      BY DEF ThreadsOf, Init
    <3>2. i \in 1 .. Len(program[t]) /\ Len(program[t]) \in Nat
      BY <1>1, <3>1, ProgramFacts
    <3> QED
      BY <3>1, <3>2
  <2> QED
    BY <2>1 DEF Init, Posted, InQueue
<1> QED
  BY <1>1, <1>2, <1>3, <1>4 DEF IInv

\* Commands are executed in the order of the calls, and when no other thread
\* communicates beside one that makes window calls, nothing is queued behind a
\* window call that keeps the offload thread.
THEOREM Invariance ==
  ASSUME ~WindowsShareRank
  PROVE  Spec => []IInv
<1>1. Init => IInv
  BY InitInvariant
<1>2. IInv /\ [Next]_vars => IInv'
  BY NextInvariant
<1> QED
  BY <1>1, <1>2, PTL DEF Spec

-----------------------------------------------------------------------------
(***************************************************************************)
(* No program is stuck before its end                                      *)
(***************************************************************************)
\* An operation depends on processes only, and one of Accumulate's kind on its own.
LEMMA NeedsFacts ==
  ASSUME NEW kind \in Operations, NEW o \in Ops, NEW r \in Ranks
  PROVE  /\ Needs(kind[o], r) \subseteq Ranks
         /\ NullRequest(kind[o]) => kind[o].family = "window" \/ Needs(kind[o], r) = {r}
<1> DEFINE k == kind[o]
<1>1. /\ k.family \in {"p2p", "all", "fromRoot", "toRoot", "prefix", "neighbor", "window", "accumulate"}
      /\ k.root \in Ranks /\ k.ranks \subseteq Ranks
  BY RanksAssumption
<1> HIDE DEF k
<1>2. k.family \in {"p2p", "all", "window"} => Needs(k, r) = k.ranks
  BY DEF Needs, PointToPoint, Everybody, Window
<1>3. k.family = "fromRoot" => Needs(k, r) = {r, k.root}
  BY DEF Needs, FromRoot
<1>4. k.family = "toRoot" => Needs(k, r) = k.ranks \/ Needs(k, r) = {r}
  BY DEF Needs, ToRoot
<1>5. k.family \in {"prefix", "neighbor"} => Needs(k, r) \subseteq k.ranks
  BY DEF Needs, FromBelow, FromNeighbors
<1>6. k.family = "accumulate" => Needs(k, r) = {r}
  BY DEF Needs, Local
<1>7. Needs(k, r) \subseteq Ranks
  BY <1>1, <1>2, <1>3, <1>4, <1>5, <1>6
<1>8. NullRequest(k) => k.family = "window" \/ Needs(k, r) = {r}
  BY <1>6 DEF NullRequest
<1> QED
  BY <1>7, <1>8 DEF k

\* When nobody can go on, MPI has been called for whatever was posted.
LEMMA IdleFacts ==
  ASSUME IInv, Idle, NEW r \in Ranks
  PROVE  /\ blocked[r] # NoOp => operation[blocked[r]].family = "window"
         /\ \A o \in Ops : Posted(r, o) <=> o \in called[r]
<1>1. ASSUME blocked[r] # NoOp
      PROVE  operation[blocked[r]].family = "window"
  <2>1. PICK o \in Ops : o = blocked[r]
    BY <1>1 DEF IInv, TypeOK
  <2>2. o \in called[r] /\ NullRequest(operation[o]) /\ ~Over(o, r)
    BY <1>1, <2>1 DEF IInv, BlockedInv, Idle
  <2>3. Needs(operation[o], r) # {r}
    BY <2>2 DEF Over
  <2> QED
    BY <2>1, <2>2, <2>3, NeedsFacts DEF IInv, ProgramInv
<1>2. queue[r] = << >>
  BY <1>1 DEF IInv, BlockedInv, Idle
<1>3. \A o \in Ops : ~InQueue(r, o)
  BY <1>2 DEF InQueue
<1> QED
  BY <1>1, <1>3 DEF IInv, CommandInv

\* The operation that a thread waits for then is not over.
LEMMA WaitsFacts ==
  ASSUME IInv, ~WindowsShareRank, Idle, NEW t \in Threads, ~Finished(t)
  PROVE  /\ inside[t] /\ entered[t] \in 1 .. Len(program[t])
         /\ program[t][entered[t]].style # "start"
         /\ \E q \in Needs(operation[program[t][entered[t]].op], RankOf[t]) :
               q \in Ranks /\ program[t][entered[t]].op \notin called[q]
<1>0. PICK r, i, o : r = RankOf[t] /\ i = entered[t] /\ o = program[t][i].op
  OBVIOUS
<1>1. inside[t] /\ o \notin done[r]
  BY <1>0 DEF Idle, Current
<1>2. i \in 1 .. Len(program[t]) /\ program[t][i].style # "start"
  BY <1>0, <1>1, ProgramFacts DEF IInv, TypeOK, PlaceInv, Current
<1>3. r \in Ranks /\ t \in ThreadsOf(r) /\ o \in Ops
  BY <1>0, <1>2, ProgramFacts, RanksAssumption DEF IInv, Calls, ThreadsOf
<1>4. Posted(r, o)
  <2>1. PICK a \in Posts(program[t], o) : a <= i
    <3>1. IF program[t][i].style # "wait"
          THEN i \in Posts(program[t], o)
          ELSE \E a \in Posts(program[t], o) : a < i
      BY <1>0, <1>2, ProgramFacts DEF IInv
    <3>2. \A a \in Posts(program[t], o) : a \in Nat
      BY <1>3, ProgramFacts DEF IInv
    <3> QED
      BY <1>2, <3>1, <3>2
  <2> QED
    BY <1>0, <1>3, <2>1 DEF Posted
<1>5. o \in called[r]
  BY <1>3, <1>4, IdleFacts
<1>6. ~Over(o, r)
  <2>1. CASE blocked[r] = NoOp
    BY <1>1, <1>3, <1>5, <2>1 DEF Idle
  <2>2. CASE blocked[r] # NoOp
    <3>1. PICK w \in Ops : w = blocked[r]
      BY <1>3, <2>2 DEF IInv, TypeOK
    <3>2. operation[w].family = "window" /\ w \in called[r] \ done[r] /\ ~Over(w, r)
      BY <1>3, <2>2, <3>1, IdleFacts DEF IInv, BlockedInv, Idle
    <3>3. Posted(r, w)
      BY <1>3, <3>2 DEF IInv, CommandInv
    <3>4. PICK u \in ThreadsOf(r) : /\ entered[u] \in Posts(program[u], w)
                                    /\ \A v \in ThreadsOf(r) \ {u} : program[v] = << >>
      BY <1>3, <3>2, <3>3, WindowFacts
    <3>5. u = t
      <4>1. Len(program[t]) # 0
        BY <1>2
      <4>2. program[t] # << >>
        BY <4>1
      <4> QED
        BY <1>3, <3>4, <4>2
    <3>6. w = o
      BY <1>0, <3>4, <3>5 DEF Posts
    <3> QED
      BY <3>2, <3>6
  <2> QED
    BY <2>1, <2>2
<1>7. \E q \in Needs(operation[o], r) : q \in Ranks /\ o \notin called[q]
  BY <1>3, <1>6, NeedsFacts DEF Over, IInv, ProgramInv
<1> QED
  BY <1>0, <1>1, <1>2, <1>7

\* In such a state the program would be stuck with MPI_THREAD_MULTIPLE too, and so
\* it has ended.
LEMMA IdleIsTheEnd ==
  ASSUME IInv, ~WindowsShareRank
  PROVE  NeverStuck
<1> SUFFICES ASSUME Idle
             PROVE  \A t \in Threads : Finished(t)
  BY DEF NeverStuck
<1>1. PICK at : at = [t \in Threads |-> IF inside[t] THEN entered[t] - 1 ELSE entered[t]]
  OBVIOUS
<1>2. \A t \in Threads : /\ Len(program[t]) \in 0 .. MaxCalls /\ entered[t] \in 0 .. Len(program[t])
                         /\ inside[t] \in BOOLEAN /\ (inside[t] => entered[t] >= 1)
  BY ProgramFacts DEF IInv, TypeOK, PlaceInv
<1>3. \A t \in Threads : /\ at[t] \in 0 .. Len(program[t])
                         /\ Finished(t) => at[t] = Len(program[t])
                         /\ inside[t] => at[t] + 1 = entered[t]
  BY <1>1, <1>2 DEF Finished
<1>4. at \in [Threads -> 0 .. MaxCalls]
  <2>1. \A t \in Threads : at[t] \in 0 .. MaxCalls
    BY <1>2, <1>3, RanksAssumption
  <2> QED
    BY <1>1, <2>1
<1>5. ASSUME NEW q \in Ranks, NEW o \in Ops,
             NEW u \in ThreadsOf(q), NEW i \in Posts(program[u], o), i <= at[u] + 1
      PROVE  o \in called[q]
  <2>1. u \in Threads /\ i \in 1 .. Len(program[u])
    BY ProgramFacts DEF IInv, ThreadsOf
  <2>2. CASE Finished(u)
    <3>1. i <= entered[u]
      BY <2>1, <2>2 DEF Finished
    <3> QED
      BY <3>1, IdleFacts DEF Posted
  <2>3. CASE ~Finished(u)
    <3>1. i <= entered[u]
      BY <1>3, <1>5, <2>1, <2>3, WaitsFacts
    <3> QED
      BY <3>1, IdleFacts DEF Posted
  <2> QED
    BY <2>2, <2>3
<1>6. Stuck(operation, program, at)
  <2> DEFINE Called(q) == {o \in Ops : \E u \in ThreadsOf(q) :
                              \E i \in Posts(program[u], o) : i <= at[u] + 1}
  <2>1. ASSUME NEW t \in Threads, at[t] < Len(program[t])
        PROVE  /\ program[t][at[t] + 1].style # "start"
               /\ \E q \in Needs(operation[program[t][at[t] + 1].op], RankOf[t]) :
                     program[t][at[t] + 1].op \notin Called(q)
    <3>1. ~Finished(t)
      BY <1>2, <1>3, <2>1
    <3>2. at[t] + 1 = entered[t]
      BY <1>3, <3>1, WaitsFacts
    <3>3. \A q \in Ranks : Called(q) \subseteq called[q]
      BY <1>5
    <3> HIDE DEF Called
    <3> QED
      BY <3>1, <3>2, <3>3, WaitsFacts
  <2> QED
    BY <2>1 DEF Stuck
<1>7. \A t \in Threads : at[t] = Len(program[t])
  BY <1>2, <1>3, <1>4, <1>6 DEF IInv, ProgramInv, Completes
<1>8. ASSUME NEW t \in Threads
      PROVE  Finished(t)
  <2>1. ~inside[t]
    BY <1>2, <1>3, <1>7
  <2> QED
    BY <1>1, <1>7, <2>1 DEF Finished
<1> QED
  BY <1>8

\* Whatever the operations, the programs of the threads and the schedule: if the
\* program completes with MPI_THREAD_MULTIPLE, no cycle of waiting arises from the
\* command queues and from the calls that keep an offload thread.
THEOREM NoProgramIsStuck ==
  ASSUME ~WindowsShareRank
  PROVE  Spec => []NeverStuck
<1>1. IInv => NeverStuck
  BY IdleIsTheEnd
<1> QED
  BY <1>1, Invariance, PTL

=============================================================================
