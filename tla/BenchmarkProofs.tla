--------------------------- MODULE BenchmarkProofs --------------------------
(***************************************************************************)
(* What the benchmark checks, for any number of processes, threads and     *)
(* iterations: every message comes from the same thread of the left        *)
(* neighbour, no buffer is used while an operation has it, and the ring    *)
(* holds every process back.                                               *)
(***************************************************************************)
EXTENDS Benchmark, FiniteSetTheorems, SequenceTheorems, WellFoundedInduction, TLAPS

InQueue(p, c) == \E i \in 1 .. Len(queue[p]) : queue[p][i] = c

\* Posted, and not yet waited for.
Pending(p, c) == InQueue(p, c) \/ c \in started[p] \cup finished[p]

\* An operation is in one place.
OnceInv ==
    \A p \in Procs :
        /\ started[p] \cap finished[p] = {}
        /\ \A i \in 1 .. Len(queue[p]) : queue[p][i] \notin started[p] \cup finished[p]
        /\ \A i, j \in 1 .. Len(queue[p]) : queue[p][i] = queue[p][j] => i = j

\* The place of a thread tells which of its operations are pending.
MainInv ==
    \A p \in Procs :
        /\ Pending(p, <<"Comm_dup", Main>>) <=> place[p] = "dupwait"
        /\ place[p] \in {"dup", "dupwait"} => dups[p] < nthreads

InPlace(p, t) ==
    /\ Pending(p, <<"Irecv", t>>) <=> pc[p][t] \in {"isend", "wait_s", "wait_r"}
    /\ Pending(p, <<"Isend", t>>) <=> pc[p][t] = "wait_s"
    /\ pc[p][t] = "barrier" => iteration[p][t] = 0
    /\ pc[p][t] \notin {"barrier", "joined"} => iteration[p][t] < rep

ThreadInv == \A p \in Procs, t \in Threads : InPlace(p, t)

\* The buffer is filled from the end of the receive to the assertions.
Full(p, t) == pc[p][t] = "check" \/ <<"Irecv", t>> \in finished[p]

BufferInv ==
    \A p \in Procs, t \in Threads : recvbuf[p][t] = IF Full(p, t) THEN t ELSE -1

\* The send of this iteration is in MPI, or done.
Launched(p, t) ==
    \/ pc[p][t] \in {"wait_r", "check"}
    \/ pc[p][t] = "wait_s" /\ <<"Isend", t>> \in started[p] \cup finished[p]

\* The messages that the thread has sent and received so far.
Sends(p, t) == iteration[p][t] + (IF Launched(p, t) THEN 1 ELSE 0)
Receives(p, t) == iteration[p][t] + (IF Full(p, t) THEN 1 ELSE 0)

MessageInv ==
    \A m \in sent : /\ m.from = rank_recv(m.to)
                    /\ m.comm = m.data /\ m.tag = m.data
                    /\ m.i < Sends(m.from, m.data)

\* What is on its way to a thread.
Waiting(p, t) == {m \in sent : m.to = p /\ m.data = t}

CountInv ==
    \A p \in Procs, t \in Threads :
        /\ IsFiniteSet(Waiting(p, t))
        /\ Cardinality(Waiting(p, t)) = Sends(rank_recv(p), t) - Receives(p, t)

ProgramInv == TypeOK /\ OnceInv /\ MainInv /\ ThreadInv
TrafficInv == BufferInv /\ MessageInv /\ CountInv
BenchmarkInv == ProgramInv /\ TrafficInv

-----------------------------------------------------------------------------
(***************************************************************************)
(* The ring of processes                                                   *)
(***************************************************************************)
\* The neighbours, without the remainder.
LEMMA RingFacts ==
  ASSUME NEW p \in Procs
  PROVE  /\ rank_send(p) = (IF p = num_procs - 1 THEN 0 ELSE p + 1)
         /\ rank_recv(p) = (IF p = 0 THEN num_procs - 1 ELSE p - 1)
         /\ rank_send(p) \in Procs /\ rank_recv(p) \in Procs
         /\ rank_recv(rank_send(p)) = p /\ rank_send(rank_recv(p)) = p
<1>1. num_procs \in Nat \ {0} /\ p \in 0 .. num_procs - 1
  BY BenchmarkAssumption DEF Procs
<1>2. \A q \in 0 .. num_procs - 1 :
          (q + 1) % num_procs = (IF q = num_procs - 1 THEN 0 ELSE q + 1)
  BY <1>1
<1>3. \A q \in 0 .. num_procs - 1 :
          (q + num_procs - 1) % num_procs = (IF q = 0 THEN num_procs - 1 ELSE q - 1)
  BY <1>1
<1>4. \A q \in Procs : /\ rank_send(q) = (IF q = num_procs - 1 THEN 0 ELSE q + 1)
                       /\ rank_recv(q) = (IF q = 0 THEN num_procs - 1 ELSE q - 1)
  BY <1>2, <1>3 DEF rank_send, rank_recv, Procs
<1> QED
  BY <1>1, <1>4 DEF Procs

\* A function on the processes that grows by at most one from each to the next
\* grows by at most their distance.
LEMMA Climb ==
  ASSUME NEW f \in [Procs -> Nat],
         \A q \in Procs : q # 0 => f[q] <= f[q - 1] + 1,
         NEW a \in Procs, NEW b \in Procs, a <= b
  PROVE  f[b] <= f[a] + (b - a)
<1> DEFINE Bad == {q \in Nat : a <= q /\ q <= b /\ f[q] > f[a] + (q - a)}
<1>0. num_procs \in Nat \ {0} /\ a \in 0 .. num_procs - 1 /\ b \in 0 .. num_procs - 1
  BY BenchmarkAssumption DEF Procs
<1>1. SUFFICES ASSUME Bad # {}
               PROVE  FALSE
  <2>1. b \in Nat /\ a \in Nat /\ f[b] \in Nat /\ f[a] \in Nat
    BY <1>0 DEF Procs
  <2> QED
    BY <2>1
<1>2. PICK q \in Bad : \A r \in Bad : <<r, q>> \notin OpToRel(<, Nat)
  BY <1>1, NatLessThanWellFounded, WFMin
<1>3. q \in Nat /\ a <= q /\ q <= b /\ f[q] > f[a] + (q - a) /\ q \in Procs
  BY <1>0 DEF Procs
<1>4. q # a
  BY <1>0, <1>3 DEF Procs
<1>5. q - 1 \in Procs /\ q - 1 \in Nat /\ a <= q - 1 /\ q # 0
  BY <1>0, <1>3, <1>4 DEF Procs
<1>6. f[q] \in Nat /\ f[q - 1] \in Nat /\ f[a] \in Nat /\ f[q] <= f[q - 1] + 1
  BY <1>3, <1>5
<1>7. q - 1 \in Bad
  BY <1>0, <1>3, <1>5, <1>6
<1>8. <<q - 1, q>> \in OpToRel(<, Nat)
  BY <1>3, <1>5 DEF OpToRel
<1> QED
  BY <1>2, <1>7, <1>8

\* Round the ring, a function that grows by at most one from each process to the
\* next is less than num_procs greater at the left neighbour.
LEMMA Around ==
  ASSUME NEW f \in [Procs -> Nat],
         \A q \in Procs : f[q] <= f[rank_recv(q)] + 1,
         NEW p \in Procs
  PROVE  f[rank_recv(p)] - f[p] < num_procs
<1>0. num_procs \in Nat \ {0} /\ p \in 0 .. num_procs - 1
  BY BenchmarkAssumption DEF Procs
<1>1. 0 \in Procs /\ num_procs - 1 \in Procs
  BY <1>0 DEF Procs
<1>2. \A q \in Procs : q # 0 => f[q] <= f[q - 1] + 1
  BY RingFacts
<1>3. f[num_procs - 1] <= f[p] + (num_procs - 1 - p)
  BY <1>0, <1>1, <1>2, Climb
<1>4. CASE p = 0
  BY <1>0, <1>1, <1>3, <1>4, RingFacts
<1>5. CASE p # 0
  <2>1. p - 1 \in Procs /\ 0 <= p - 1 /\ rank_recv(p) = p - 1
    BY <1>0, <1>5, RingFacts DEF Procs
  <2>2. f[p - 1] <= f[0] + (p - 1 - 0)
    BY <1>1, <1>2, <2>1, Climb
  <2>3. f[0] <= f[num_procs - 1] + 1
    BY <1>1, RingFacts
  <2>4. f[0] \in Nat /\ f[p] \in Nat /\ f[p - 1] \in Nat /\ f[num_procs - 1] \in Nat
    BY <1>1, <2>1
  <2> QED
    BY <1>0, <1>3, <2>1, <2>2, <2>3, <2>4
<1> QED
  BY <1>4, <1>5

-----------------------------------------------------------------------------
(***************************************************************************)
(* What a step does to the operations of a process                         *)
(***************************************************************************)
\* Posting adds an operation, waiting removes one, the others only move it.
LEMMA PostFacts ==
  ASSUME TypeOK, OnceInv, NEW p \in Procs, NEW c \in Commands, ~Pending(p, c),
         Post(p, c), UNCHANGED <<started, finished>>
  PROVE  /\ queue' \in [Procs -> Seq(Commands)]
         /\ OnceInv'
         /\ \A q \in Procs, d \in Commands :
                Pending(q, d)' <=> Pending(q, d) \/ (q = p /\ d = c)
<1>1. queue \in [Procs -> Seq(Commands)]
  BY DEF TypeOK
<1>2. /\ queue' \in [Procs -> Seq(Commands)]
      /\ queue'[p] = Append(queue[p], c)
      /\ \A q \in Procs : q # p => queue'[q] = queue[q]
  BY <1>1 DEF Post
<1>3. /\ Len(queue[p]) \in Nat
      /\ Len(queue'[p]) = Len(queue[p]) + 1
      /\ queue'[p][Len(queue[p]) + 1] = c
      /\ \A i \in 1 .. Len(queue[p]) : queue'[p][i] = queue[p][i]
  BY <1>1, <1>2
<1>4. \A i \in 1 .. Len(queue'[p]) : i \in 1 .. Len(queue[p]) \/ i = Len(queue[p]) + 1
  BY <1>3
<1>5. Len(queue[p]) + 1 \in 1 .. Len(queue'[p])
      /\ \A i \in 1 .. Len(queue[p]) : i \in 1 .. Len(queue'[p])
  BY <1>3
<1>6. \A q \in Procs, d \in Commands : Pending(q, d)' <=> Pending(q, d) \/ (q = p /\ d = c)
  BY <1>2, <1>3, <1>4, <1>5 DEF Pending, InQueue
<1>7. OnceInv'
  <2>1. c \notin started[p] \cup finished[p] /\ \A i \in 1 .. Len(queue[p]) : queue[p][i] # c
    BY DEF Pending, InQueue
  <2>2. \A i \in 1 .. Len(queue'[p]) : queue'[p][i] \notin started'[p] \cup finished'[p]
    BY <1>3, <1>4, <2>1 DEF OnceInv
  <2>3. \A i, j \in 1 .. Len(queue'[p]) : queue'[p][i] = queue'[p][j] => i = j
    BY <1>3, <1>4, <2>1 DEF OnceInv
  <2> QED
    BY <1>2, <2>2, <2>3 DEF OnceInv
<1> QED
  BY <1>2, <1>6, <1>7

LEMMA WaitFacts ==
  ASSUME TypeOK, OnceInv, NEW p \in Procs, NEW c \in Commands,
         Wait(p, c), UNCHANGED <<queue, started>>
  PROVE  /\ finished' \in [Procs -> SUBSET Commands]
         /\ OnceInv'
         /\ \A q \in Procs, d \in Commands :
                Pending(q, d)' <=> Pending(q, d) /\ ~(q = p /\ d = c)
<1>1. finished \in [Procs -> SUBSET Commands]
  BY DEF TypeOK
<1>2. /\ finished' \in [Procs -> SUBSET Commands]
      /\ finished'[p] = finished[p] \ {c}
      /\ \A q \in Procs : q # p => finished'[q] = finished[q]
  BY <1>1 DEF Wait
<1>3. OnceInv'
  BY <1>2 DEF OnceInv
<1>4. c \in finished[p] /\ c \notin started[p] /\ ~InQueue(p, c)
  BY DEF Wait, OnceInv, InQueue
<1>5. \A q \in Procs, d \in Commands : Pending(q, d)' <=> Pending(q, d) /\ ~(q = p /\ d = c)
  BY <1>2, <1>4 DEF Pending, InQueue
<1> QED
  BY <1>2, <1>3, <1>5

LEMMA StartFacts ==
  ASSUME TypeOK, OnceInv, NEW p \in Procs, Start(p)
  PROVE  /\ queue' \in [Procs -> Seq(Commands)] /\ started' \in [Procs -> SUBSET Commands]
         /\ Head(queue[p]) \in Commands /\ InQueue(p, Head(queue[p]))
         /\ OnceInv'
         /\ \A q \in Procs, d \in Commands : Pending(q, d)' <=> Pending(q, d)
<1>1. queue \in [Procs -> Seq(Commands)] /\ started \in [Procs -> SUBSET Commands]
  BY DEF TypeOK
<1>2. queue[p] \in Seq(Commands) /\ queue[p] # << >>
  BY <1>1 DEF Start
<1>3. /\ Head(queue[p]) = queue[p][1] /\ 1 \in 1 .. Len(queue[p])
      /\ Tail(queue[p]) \in Seq(Commands) /\ Len(Tail(queue[p])) = Len(queue[p]) - 1
      /\ Len(queue[p]) \in Nat
      /\ \A i \in 1 .. Len(Tail(queue[p])) : Tail(queue[p])[i] = queue[p][i + 1]
  BY <1>2, HeadTailProperties
<1>4. Head(queue[p]) \in Commands
  BY <1>2, <1>3
<1>5. /\ queue' \in [Procs -> Seq(Commands)] /\ queue'[p] = Tail(queue[p])
      /\ started' \in [Procs -> SUBSET Commands]
      /\ started'[p] = started[p] \cup {queue[p][1]}
      /\ \A q \in Procs : q # p => queue'[q] = queue[q] /\ started'[q] = started[q]
      /\ finished' = finished
  BY <1>1, <1>3, <1>4 DEF Start
<1>6. /\ \A i \in 1 .. Len(queue'[p]) :
            i + 1 \in 1 .. Len(queue[p]) /\ queue'[p][i] = queue[p][i + 1] /\ i + 1 # 1
      /\ \A i \in 1 .. Len(queue[p]) : i = 1 \/ (i - 1 \in 1 .. Len(queue'[p]) /\ i - 1 + 1 = i)
  BY <1>3, <1>5
<1>7. OnceInv'
  <2>1. \A i \in 1 .. Len(queue'[p]) : queue'[p][i] \notin started'[p] \cup finished'[p]
    BY <1>3, <1>5, <1>6 DEF OnceInv
  <2>2. \A i, j \in 1 .. Len(queue'[p]) : queue'[p][i] = queue'[p][j] => i = j
    BY <1>6 DEF OnceInv
  <2>3. started'[p] \cap finished'[p] = {}
    BY <1>3, <1>5 DEF OnceInv
  <2> QED
    BY <1>5, <2>1, <2>2, <2>3 DEF OnceInv
<1>8. \A d \in Commands : InQueue(p, d) <=> InQueue(p, d)' \/ d = queue[p][1]
  <2> TAKE d \in Commands
  <2>1. ASSUME NEW i \in 1 .. Len(queue[p]), queue[p][i] = d, d # queue[p][1]
        PROVE  \E k \in 1 .. Len(queue'[p]) : queue'[p][k] = d
    <3>1. i # 1 /\ i - 1 \in 1 .. Len(queue'[p]) /\ i - 1 + 1 = i
      BY <1>6, <2>1
    <3> QED
      BY <1>6, <2>1, <3>1
  <2>2. ASSUME NEW i \in 1 .. Len(queue'[p]), queue'[p][i] = d
        PROVE  \E k \in 1 .. Len(queue[p]) : queue[p][k] = d
    BY <1>6, <2>2
  <2> QED
    BY <1>3, <2>1, <2>2 DEF InQueue
<1>9. \A q \in Procs, d \in Commands : Pending(q, d)' <=> Pending(q, d)
  <2>1. \A d \in Commands : Pending(p, d)' <=> Pending(p, d)
    BY <1>5, <1>8 DEF Pending
  <2>2. \A q \in Procs, d \in Commands : q # p => (Pending(q, d)' <=> Pending(q, d))
    BY <1>5 DEF Pending, InQueue
  <2> QED
    BY <2>1, <2>2
<1> QED
  BY <1>3, <1>4, <1>5, <1>7, <1>9 DEF InQueue

LEMMA FinishFacts ==
  ASSUME TypeOK, OnceInv, NEW p \in Procs, NEW c \in Commands,
         Finish(p, c), UNCHANGED queue
  PROVE  /\ started' \in [Procs -> SUBSET Commands] /\ finished' \in [Procs -> SUBSET Commands]
         /\ OnceInv'
         /\ \A q \in Procs, d \in Commands : Pending(q, d)' <=> Pending(q, d)
<1>1. started \in [Procs -> SUBSET Commands] /\ finished \in [Procs -> SUBSET Commands]
  BY DEF TypeOK
<1>2. /\ started' \in [Procs -> SUBSET Commands] /\ finished' \in [Procs -> SUBSET Commands]
      /\ c \in started[p]
      /\ started'[p] = started[p] \ {c} /\ finished'[p] = finished[p] \cup {c}
      /\ \A q \in Procs : q # p => started'[q] = started[q] /\ finished'[q] = finished[q]
  BY <1>1 DEF Finish
<1>3. OnceInv'
  BY <1>2 DEF OnceInv
<1>4. \A q \in Procs, d \in Commands : Pending(q, d)' <=> Pending(q, d)
  BY <1>2 DEF Pending, InQueue
<1> QED
  BY <1>2, <1>3, <1>4

\* The calls of the main thread and of thread t.
LEMMA CommandFacts ==
  /\ <<"Comm_dup", Main>> \in Commands
  /\ \A t \in Threads : <<"Irecv", t>> \in Commands /\ <<"Isend", t>> \in Commands
<1>1. Main \in Threads
  BY BenchmarkAssumption DEF Main, Threads
<1> QED
  BY <1>1 DEF Commands, Calls

-----------------------------------------------------------------------------
(***************************************************************************)
(* The program                                                             *)
(***************************************************************************)
\* The main thread has one operation pending exactly while it waits for it.
LEMMA MainProgram ==
  ASSUME ProgramInv, NEW p \in Procs, MainStep(p)
  PROVE  ProgramInv'
<1> DEFINE dup == <<"Comm_dup", Main>>
<1>0. dup \in Commands /\ nthreads \in Nat \ {0} /\ rep \in Nat
  BY CommandFacts, BenchmarkAssumption
<1>1. CASE CommDup(p)
  <2>1. ~Pending(p, dup)
    BY <1>1 DEF CommDup, ProgramInv, MainInv
  <2>2. /\ queue' \in [Procs -> Seq(Commands)] /\ OnceInv'
        /\ \A q \in Procs, d \in Commands : Pending(q, d)' <=> Pending(q, d) \/ (q = p /\ d = dup)
    BY <1>0, <1>1, <2>1, PostFacts DEF CommDup, ProgramInv
  <2>3. TypeOK'
    BY <1>1, <2>2 DEF CommDup, ProgramInv, TypeOK
  <2>4. MainInv'
    BY <1>0, <1>1, <2>2 DEF CommDup, ProgramInv, MainInv, TypeOK
  <2>5. ThreadInv'
    <3>1. \A q \in Procs, u \in Threads :
              /\ Pending(q, <<"Irecv", u>>)' <=> Pending(q, <<"Irecv", u>>)
              /\ Pending(q, <<"Isend", u>>)' <=> Pending(q, <<"Isend", u>>)
      BY <2>2, CommandFacts
    <3>2. pc' = pc /\ iteration' = iteration
      BY <1>1 DEF CommDup
    <3> QED
      BY <3>1, <3>2 DEF ProgramInv, ThreadInv, InPlace
  <2> QED
    BY <2>2, <2>3, <2>4, <2>5 DEF ProgramInv
<1>2. CASE CommDupReturn(p)
  <2>1. /\ finished' \in [Procs -> SUBSET Commands] /\ OnceInv'
        /\ \A q \in Procs, d \in Commands : Pending(q, d)' <=> Pending(q, d) /\ ~(q = p /\ d = dup)
    BY <1>0, <1>2, WaitFacts DEF CommDupReturn, ProgramInv
  <2>2. dups[p] \in Nat /\ dups[p] < nthreads
    BY <1>2 DEF CommDupReturn, ProgramInv, TypeOK, MainInv
  <2>3. /\ dups' \in [Procs -> 0 .. nthreads] /\ dups'[p] = dups[p] + 1
        /\ \A q \in Procs : q # p => dups'[q] = dups[q] /\ place'[q] = place[q]
        /\ place' \in [Procs -> {"dup", "dupwait", "parallel", "finalized"}]
        /\ place'[p] = IF dups'[p] = nthreads THEN "parallel" ELSE "dup"
    BY <1>0, <1>2, <2>2 DEF CommDupReturn, ProgramInv, TypeOK
  <2>4. TypeOK'
    BY <1>2, <2>1, <2>3 DEF CommDupReturn, ProgramInv, TypeOK
  <2>5. MainInv'
    BY <1>0, <2>1, <2>2, <2>3 DEF ProgramInv, MainInv
  <2>6. ThreadInv'
    <3>1. \A q \in Procs, u \in Threads :
              /\ Pending(q, <<"Irecv", u>>)' <=> Pending(q, <<"Irecv", u>>)
              /\ Pending(q, <<"Isend", u>>)' <=> Pending(q, <<"Isend", u>>)
      BY <2>1, CommandFacts
    <3>2. pc' = pc /\ iteration' = iteration
      BY <1>2 DEF CommDupReturn
    <3> QED
      BY <3>1, <3>2 DEF ProgramInv, ThreadInv, InPlace
  <2> QED
    BY <2>1, <2>4, <2>5, <2>6 DEF ProgramInv
<1>3. CASE Barrier(p)
  <2>1. OnceInv' /\ MainInv' /\ \A q \in Procs, d \in Commands : Pending(q, d)' <=> Pending(q, d)
    BY <1>3 DEF Barrier, ProgramInv, OnceInv, MainInv, Pending, InQueue
  <2>2. TypeOK'
    BY <1>3 DEF Barrier, ProgramInv, TypeOK
  <2>3. ThreadInv'
    <3>1. \A t \in Threads : /\ pc'[p][t] = IF rep = 0 THEN "joined" ELSE "irecv"
                             /\ pc[p][t] = "barrier"
      BY <1>3 DEF Barrier, ProgramInv, TypeOK
    <3>2. \A q \in Procs : q # p => pc'[q] = pc[q]
      BY <1>3 DEF Barrier, ProgramInv, TypeOK
    <3>3. iteration' = iteration
      BY <1>3 DEF Barrier
    <3>4. \A q \in Procs, u \in Threads :
              /\ Pending(q, <<"Irecv", u>>)' <=> Pending(q, <<"Irecv", u>>)
              /\ Pending(q, <<"Isend", u>>)' <=> Pending(q, <<"Isend", u>>)
      BY <2>1, CommandFacts
    <3>5. ASSUME NEW q \in Procs, NEW u \in Threads, q # p
          PROVE  InPlace(q, u)'
      BY <3>2, <3>3, <3>4, <3>5 DEF ProgramInv, ThreadInv, InPlace
    <3>6. ASSUME NEW u \in Threads
          PROVE  InPlace(p, u)'
      BY <1>0, <3>1, <3>3, <3>4, <3>6 DEF ProgramInv, ThreadInv, InPlace
    <3> QED
      BY <3>5, <3>6 DEF ThreadInv
  <2> QED
    BY <2>1, <2>2, <2>3 DEF ProgramInv
<1>4. CASE Finalize(p)
  <2>1. OnceInv' /\ \A q \in Procs, d \in Commands : Pending(q, d)' <=> Pending(q, d)
    BY <1>4 DEF Finalize, ProgramInv, OnceInv, Pending, InQueue
  <2>2. TypeOK'
    BY <1>4 DEF Finalize, ProgramInv, TypeOK
  <2>3. MainInv'
    BY <1>0, <1>4, <2>1 DEF Finalize, ProgramInv, MainInv, TypeOK
  <2>4. ThreadInv'
    <3>1. \A q \in Procs, u \in Threads :
              /\ Pending(q, <<"Irecv", u>>)' <=> Pending(q, <<"Irecv", u>>)
              /\ Pending(q, <<"Isend", u>>)' <=> Pending(q, <<"Isend", u>>)
      BY <2>1, CommandFacts
    <3>2. pc' = pc /\ iteration' = iteration
      BY <1>4 DEF Finalize
    <3> QED
      BY <3>1, <3>2 DEF ProgramInv, ThreadInv, InPlace
  <2> QED
    BY <2>1, <2>2, <2>3, <2>4 DEF ProgramInv
<1> QED
  BY <1>1, <1>2, <1>3, <1>4 DEF MainStep

\* A thread has pending what it has posted and not waited for.
LEMMA ThreadProgram ==
  ASSUME ProgramInv, NEW p \in Procs, NEW t \in Threads, ThreadStep(p, t)
  PROVE  ProgramInv'
<1> DEFINE recv == <<"Irecv", t>>
           send == <<"Isend", t>>
<1>0. recv \in Commands /\ send \in Commands /\ rep \in Nat
  BY CommandFacts, BenchmarkAssumption
<1>a. ASSUME NEW where, Goto(p, t, where)
      PROVE  /\ pc'[p][t] = where
             /\ \A q \in Procs, u \in Threads : q # p \/ u # t => pc'[q][u] = pc[q][u]
  BY <1>a DEF Goto, ProgramInv, TypeOK
<1>1. CASE PostReceive(p, t)
  <2>1. ~Pending(p, recv)
    BY <1>1 DEF PostReceive, ProgramInv, ThreadInv, InPlace
  <2>2. /\ queue' \in [Procs -> Seq(Commands)] /\ OnceInv'
        /\ \A q \in Procs, d \in Commands : Pending(q, d)' <=> Pending(q, d) \/ (q = p /\ d = recv)
    BY <1>0, <1>1, <2>1, PostFacts DEF PostReceive, ProgramInv
  <2>3. TypeOK'
    BY <1>1, <2>2 DEF PostReceive, Goto, ProgramInv, TypeOK
  <2>4. MainInv'
    BY <1>1, <2>2, CommandFacts DEF PostReceive, ProgramInv, MainInv
  <2>5. ThreadInv'
    <3>1. \A q \in Procs, u \in Threads :
              /\ Pending(q, <<"Irecv", u>>)' <=> Pending(q, <<"Irecv", u>>) \/ (q = p /\ u = t)
              /\ Pending(q, <<"Isend", u>>)' <=> Pending(q, <<"Isend", u>>)
      BY <2>2, CommandFacts
    <3>2. /\ pc[p][t] = "irecv" /\ pc'[p][t] = "isend" /\ iteration' = iteration
          /\ \A q \in Procs, u \in Threads : q # p \/ u # t => pc'[q][u] = pc[q][u]
      BY <1>1, <1>a DEF PostReceive
    <3>3. ASSUME NEW q \in Procs, NEW u \in Threads, q # p \/ u # t
           PROVE  InPlace(q, u)'
      BY <3>1, <3>2, <3>3 DEF ProgramInv, ThreadInv, InPlace
    <3>4. InPlace(p, t)'
      BY <3>1, <3>2 DEF ProgramInv, ThreadInv, InPlace
    <3> QED
      BY <3>3, <3>4 DEF ThreadInv
  <2> QED
    BY <2>2, <2>3, <2>4, <2>5 DEF ProgramInv
<1>2. CASE PostSend(p, t)
  <2>1. ~Pending(p, send)
    BY <1>2 DEF PostSend, ProgramInv, ThreadInv, InPlace
  <2>2. /\ queue' \in [Procs -> Seq(Commands)] /\ OnceInv'
        /\ \A q \in Procs, d \in Commands : Pending(q, d)' <=> Pending(q, d) \/ (q = p /\ d = send)
    BY <1>0, <1>2, <2>1, PostFacts DEF PostSend, ProgramInv
  <2>3. TypeOK'
    BY <1>2, <2>2 DEF PostSend, Goto, ProgramInv, TypeOK
  <2>4. MainInv'
    BY <1>2, <2>2, CommandFacts DEF PostSend, ProgramInv, MainInv
  <2>5. ThreadInv'
    <3>1. \A q \in Procs, u \in Threads :
              /\ Pending(q, <<"Irecv", u>>)' <=> Pending(q, <<"Irecv", u>>)
              /\ Pending(q, <<"Isend", u>>)' <=> Pending(q, <<"Isend", u>>) \/ (q = p /\ u = t)
      BY <2>2, CommandFacts
    <3>2. /\ pc[p][t] = "isend" /\ pc'[p][t] = "wait_s" /\ iteration' = iteration
          /\ \A q \in Procs, u \in Threads : q # p \/ u # t => pc'[q][u] = pc[q][u]
      BY <1>2, <1>a DEF PostSend
    <3>3. ASSUME NEW q \in Procs, NEW u \in Threads, q # p \/ u # t
           PROVE  InPlace(q, u)'
      BY <3>1, <3>2, <3>3 DEF ProgramInv, ThreadInv, InPlace
    <3>4. InPlace(p, t)'
      BY <3>1, <3>2 DEF ProgramInv, ThreadInv, InPlace
    <3> QED
      BY <3>3, <3>4 DEF ThreadInv
  <2> QED
    BY <2>2, <2>3, <2>4, <2>5 DEF ProgramInv
<1>3. CASE WaitSend(p, t)
  <2>1. /\ finished' \in [Procs -> SUBSET Commands] /\ OnceInv'
        /\ \A q \in Procs, d \in Commands : Pending(q, d)' <=> Pending(q, d) /\ ~(q = p /\ d = send)
    BY <1>0, <1>3, WaitFacts DEF WaitSend, ProgramInv
  <2>2. TypeOK'
    BY <1>3, <2>1 DEF WaitSend, Goto, ProgramInv, TypeOK
  <2>3. MainInv'
    BY <1>3, <2>1, CommandFacts DEF WaitSend, ProgramInv, MainInv
  <2>4. ThreadInv'
    <3>1. \A q \in Procs, u \in Threads :
              /\ Pending(q, <<"Irecv", u>>)' <=> Pending(q, <<"Irecv", u>>)
              /\ Pending(q, <<"Isend", u>>)' <=> Pending(q, <<"Isend", u>>) /\ ~(q = p /\ u = t)
      BY <2>1, CommandFacts
    <3>2. /\ pc[p][t] = "wait_s" /\ pc'[p][t] = "wait_r" /\ iteration' = iteration
          /\ \A q \in Procs, u \in Threads : q # p \/ u # t => pc'[q][u] = pc[q][u]
      BY <1>3, <1>a DEF WaitSend
    <3>3. ASSUME NEW q \in Procs, NEW u \in Threads, q # p \/ u # t
           PROVE  InPlace(q, u)'
      BY <3>1, <3>2, <3>3 DEF ProgramInv, ThreadInv, InPlace
    <3>4. InPlace(p, t)'
      BY <3>1, <3>2 DEF ProgramInv, ThreadInv, InPlace
    <3> QED
      BY <3>3, <3>4 DEF ThreadInv
  <2> QED
    BY <2>1, <2>2, <2>3, <2>4 DEF ProgramInv
<1>4. CASE WaitReceive(p, t)
  <2>1. /\ finished' \in [Procs -> SUBSET Commands] /\ OnceInv'
        /\ \A q \in Procs, d \in Commands : Pending(q, d)' <=> Pending(q, d) /\ ~(q = p /\ d = recv)
    BY <1>0, <1>4, WaitFacts DEF WaitReceive, ProgramInv
  <2>2. TypeOK'
    BY <1>4, <2>1 DEF WaitReceive, Goto, ProgramInv, TypeOK
  <2>3. MainInv'
    BY <1>4, <2>1, CommandFacts DEF WaitReceive, ProgramInv, MainInv
  <2>4. ThreadInv'
    <3>1. \A q \in Procs, u \in Threads :
              /\ Pending(q, <<"Irecv", u>>)' <=> Pending(q, <<"Irecv", u>>) /\ ~(q = p /\ u = t)
              /\ Pending(q, <<"Isend", u>>)' <=> Pending(q, <<"Isend", u>>)
      BY <2>1, CommandFacts
    <3>2. /\ pc[p][t] = "wait_r" /\ pc'[p][t] = "check" /\ iteration' = iteration
          /\ \A q \in Procs, u \in Threads : q # p \/ u # t => pc'[q][u] = pc[q][u]
      BY <1>4, <1>a DEF WaitReceive
    <3>3. ASSUME NEW q \in Procs, NEW u \in Threads, q # p \/ u # t
           PROVE  InPlace(q, u)'
      BY <3>1, <3>2, <3>3 DEF ProgramInv, ThreadInv, InPlace
    <3>4. InPlace(p, t)'
      BY <3>1, <3>2 DEF ProgramInv, ThreadInv, InPlace
    <3> QED
      BY <3>3, <3>4 DEF ThreadInv
  <2> QED
    BY <2>1, <2>2, <2>3, <2>4 DEF ProgramInv
<1>5. CASE Check(p, t)
  <2>1. OnceInv' /\ MainInv' /\ \A q \in Procs, d \in Commands : Pending(q, d)' <=> Pending(q, d)
    BY <1>5 DEF Check, ProgramInv, OnceInv, MainInv, Pending, InQueue
  <2>2. iteration[p][t] \in Nat /\ iteration[p][t] < rep
    <3>1. InPlace(p, t) /\ pc[p][t] = "check"
      BY <1>5 DEF Check, ProgramInv, ThreadInv
    <3>2. iteration[p][t] \in 0 .. rep
      BY DEF ProgramInv, TypeOK
    <3> QED
      BY <1>0, <3>1, <3>2 DEF InPlace
  <2>3. /\ iteration' \in [Procs -> [Threads -> 0 .. rep]]
        /\ iteration'[p][t] = iteration[p][t] + 1
        /\ \A q \in Procs, u \in Threads : q # p \/ u # t => iteration'[q][u] = iteration[q][u]
    BY <1>0, <1>5, <2>2 DEF Check, ProgramInv, TypeOK
  <2>4. TypeOK'
    <3>1. recvbuf' \in [Procs -> [Threads -> Threads \cup {-1}]]
      BY <1>5 DEF Check, ProgramInv, TypeOK
    <3>2. pc' \in [Procs -> [Threads -> {"barrier", "irecv", "isend", "wait_s", "wait_r",
                                         "check", "joined"}]]
      BY <1>5 DEF Check, Goto, ProgramInv, TypeOK
    <3> QED
      BY <1>5, <2>3, <3>1, <3>2 DEF Check, ProgramInv, TypeOK
  <2>5. ThreadInv'
    <3>1. pc'[p][t] = IF iteration'[p][t] = rep THEN "joined" ELSE "irecv"
      BY <1>5, <1>a DEF Check
    <3>2. \A q \in Procs, u \in Threads : q # p \/ u # t => pc'[q][u] = pc[q][u]
      BY <1>5, <1>a DEF Check
    <3>3. pc[p][t] = "check"
      BY <1>5 DEF Check
    <3>4. \A q \in Procs, u \in Threads :
              /\ Pending(q, <<"Irecv", u>>)' <=> Pending(q, <<"Irecv", u>>)
              /\ Pending(q, <<"Isend", u>>)' <=> Pending(q, <<"Isend", u>>)
      BY <2>1, CommandFacts
    <3>5. ASSUME NEW q \in Procs, NEW u \in Threads, q # p \/ u # t
           PROVE  InPlace(q, u)'
      BY <1>0, <2>2, <2>3, <3>1, <3>2, <3>3, <3>4, <3>5 DEF ProgramInv, ThreadInv, InPlace
    <3>6. InPlace(p, t)'
      BY <1>0, <2>2, <2>3, <3>1, <3>2, <3>3, <3>4 DEF ProgramInv, ThreadInv, InPlace
    <3> QED
      BY <3>5, <3>6 DEF ThreadInv
  <2> QED
    BY <2>1, <2>4, <2>5 DEF ProgramInv
<1> QED
  BY <1>1, <1>2, <1>3, <1>4, <1>5 DEF ThreadStep

\* MPI takes the commands in order and finishes them in any: none is lost.
LEMMA EngineProgram ==
  ASSUME ProgramInv, NEW p \in Procs,
         \/ Start(p) \/ FinishDup(p)
         \/ \E t \in Threads : \/ FinishReceive(p, t)
                               \/ \E matched \in BOOLEAN : FinishSend(p, t, matched)
  PROVE  ProgramInv'
<1>1. /\ queue' \in [Procs -> Seq(Commands)]
      /\ started' \in [Procs -> SUBSET Commands] /\ finished' \in [Procs -> SUBSET Commands]
      /\ OnceInv'
      /\ \A q \in Procs, d \in Commands : Pending(q, d)' <=> Pending(q, d)
  <2>1. CASE Start(p)
    BY <2>1, StartFacts DEF Start, ProgramInv, TypeOK
  <2>2. ASSUME NEW c \in Commands, Finish(p, c), UNCHANGED queue
        PROVE  <1>1!1 /\ <1>1!2 /\ <1>1!3 /\ <1>1!4
    BY <2>2, FinishFacts DEF ProgramInv, TypeOK
  <2>3. CASE FinishDup(p)
    BY <2>2, <2>3, CommandFacts DEF FinishDup
  <2>4. ASSUME NEW t \in Threads, \/ FinishReceive(p, t)
                                  \/ \E matched \in BOOLEAN : FinishSend(p, t, matched)
        PROVE  \E c \in Commands : Finish(p, c) /\ UNCHANGED queue
    BY <2>4, CommandFacts DEF FinishReceive, FinishSend
  <2> QED
    BY <2>1, <2>2, <2>3, <2>4
<1>2. UNCHANGED <<place, dups, pc, iteration>>
  BY DEF Start, FinishDup, FinishReceive, FinishSend
<1>3. sent' \subseteq Messages /\ recvbuf' \in [Procs -> [Threads -> Threads \cup {-1}]]
  <2>1. CASE Start(p)
    <3> DEFINE c == Head(queue[p])
    <3>1. c \in Commands /\ Pending(p, c)
      BY <2>1, StartFacts DEF ProgramInv, Pending
    <3>2. ASSUME c[1] = "Isend"
          PROVE  Message(p, c[2]) \in Messages
      <4>1. c[2] \in Threads /\ c = <<"Isend", c[2]>>
        BY <3>1, <3>2 DEF Commands
      <4>2. pc[p][c[2]] = "wait_s" /\ iteration[p][c[2]] < rep
        BY <3>1, <4>1 DEF ProgramInv, ThreadInv, InPlace
      <4>3. iteration[p][c[2]] \in 0 .. rep - 1
        BY <4>1, <4>2, BenchmarkAssumption DEF ProgramInv, TypeOK
      <4> QED
        BY <4>1, <4>3, RingFacts DEF Message, Messages, Envelope
    <3> QED
      BY <2>1, <3>2 DEF Start, ProgramInv, TypeOK
  <2>2. CASE FinishDup(p)
    BY <2>2 DEF FinishDup, ProgramInv, TypeOK
  <2>3. ASSUME NEW t \in Threads, FinishReceive(p, t)
        PROVE  <1>3
    <3>1. PICK m \in sent : sent' = sent \ {m}
                           /\ recvbuf' = [recvbuf EXCEPT ![p][t] = m.data]
      BY <2>3 DEF FinishReceive
    <3>2. m.data \in Threads
      BY DEF ProgramInv, TypeOK, Messages
    <3> QED
      BY <3>1, <3>2 DEF ProgramInv, TypeOK
  <2>4. ASSUME NEW t \in Threads, NEW matched \in BOOLEAN, FinishSend(p, t, matched)
        PROVE  <1>3
    BY <2>4 DEF FinishSend, ProgramInv, TypeOK
  <2> QED
    BY <2>1, <2>2, <2>3, <2>4
<1>4. TypeOK'
  BY <1>1, <1>2, <1>3 DEF ProgramInv, TypeOK
<1>5. MainInv'
  BY <1>1, <1>2, CommandFacts DEF ProgramInv, MainInv
<1>6. ThreadInv'
  <2>1. ASSUME NEW q \in Procs, NEW u \in Threads
        PROVE  InPlace(q, u)'
    BY <1>1, <1>2, <2>1, CommandFacts DEF ProgramInv, ThreadInv, InPlace
  <2> QED
    BY <2>1 DEF ThreadInv
<1> QED
  BY <1>1, <1>4, <1>5, <1>6 DEF ProgramInv

-----------------------------------------------------------------------------
(***************************************************************************)
(* The messages                                                            *)
(***************************************************************************)
\* A step that is no part of a message leaves the counters and buffers alone.
Steady ==
    /\ UNCHANGED <<iteration, recvbuf, sent>>
    /\ \A q \in Procs, u \in Threads : /\ Full(q, u)' <=> Full(q, u)
                                       /\ Launched(q, u)' <=> Launched(q, u)

\* The steps of the main thread are such.
LEMMA MainSteady ==
  ASSUME ProgramInv, NEW p \in Procs, MainStep(p)
  PROVE  Steady
<1>1. UNCHANGED <<iteration, recvbuf, sent, started>>
  BY DEF MainStep, CommDup, CommDupReturn, Barrier, Finalize
<1>2. CASE Barrier(p)
  <2>1. \A q \in Procs : q # p => pc'[q] = pc[q]
    BY <1>2 DEF Barrier, ProgramInv, TypeOK
  <2>2. \A u \in Threads : pc[p][u] = "barrier" /\ pc'[p][u] \in {"irecv", "joined"}
    BY <1>2 DEF Barrier, ProgramInv, TypeOK
  <2>3. finished' = finished
    BY <1>2 DEF Barrier
  <2> QED
    BY <1>1, <2>1, <2>2, <2>3 DEF Steady, Full, Launched
<1>3. CASE CommDup(p) \/ CommDupReturn(p) \/ Finalize(p)
  <2>1. pc' = pc
    BY <1>3 DEF CommDup, CommDupReturn, Finalize
  <2>2. \A q \in Procs, u \in Threads :
            /\ <<"Irecv", u>> \in finished'[q] <=> <<"Irecv", u>> \in finished[q]
            /\ <<"Isend", u>> \in finished'[q] <=> <<"Isend", u>> \in finished[q]
    <3>1. \/ finished' = finished
          \/ finished' = [finished EXCEPT ![p] = @ \ {<<"Comm_dup", Main>>}]
      BY <1>3 DEF CommDup, CommDupReturn, Finalize, Wait
    <3>2. finished \in [Procs -> SUBSET Commands]
      BY DEF ProgramInv, TypeOK
    <3> QED
      BY <3>1, <3>2
  <2> QED
    BY <1>1, <2>1, <2>2 DEF Steady, Full, Launched
<1> QED
  BY <1>2, <1>3 DEF MainStep

\* So are those of a thread, but for the end of an iteration.
LEMMA ThreadSteady ==
  ASSUME ProgramInv, NEW p \in Procs, NEW t \in Threads,
         PostReceive(p, t) \/ PostSend(p, t) \/ WaitSend(p, t) \/ WaitReceive(p, t)
  PROVE  Steady
<1>1. UNCHANGED <<iteration, recvbuf, sent, started>>
  BY DEF PostReceive, PostSend, WaitSend, WaitReceive
<1>2. InPlace(p, t)
  BY DEF ProgramInv, ThreadInv
<1>3. ASSUME NEW where, Goto(p, t, where)
      PROVE  /\ pc'[p][t] = where
             /\ \A q \in Procs, u \in Threads : q # p \/ u # t => pc'[q][u] = pc[q][u]
  BY <1>3 DEF Goto, ProgramInv, TypeOK
<1>4. \A q \in Procs, u \in Threads : q # p \/ u # t =>
          /\ pc'[q][u] = pc[q][u]
          /\ <<"Irecv", u>> \in finished'[q] <=> <<"Irecv", u>> \in finished[q]
          /\ <<"Isend", u>> \in finished'[q] <=> <<"Isend", u>> \in finished[q]
  <2>1. \A q \in Procs, u \in Threads : q # p \/ u # t => pc'[q][u] = pc[q][u]
    BY <1>3 DEF PostReceive, PostSend, WaitSend, WaitReceive
  <2>2. \/ finished' = finished
        \/ finished' = [finished EXCEPT ![p] = @ \ {<<"Isend", t>>}]
        \/ finished' = [finished EXCEPT ![p] = @ \ {<<"Irecv", t>>}]
    BY DEF PostReceive, PostSend, WaitSend, WaitReceive, Wait
  <2>3. finished \in [Procs -> SUBSET Commands]
    BY DEF ProgramInv, TypeOK
  <2>4. ASSUME NEW q \in Procs, NEW u \in Threads, q # p \/ u # t
        PROVE  /\ <<"Irecv", u>> \in finished'[q] <=> <<"Irecv", u>> \in finished[q]
               /\ <<"Isend", u>> \in finished'[q] <=> <<"Isend", u>> \in finished[q]
    BY <2>2, <2>3, <2>4
  <2> QED
    BY <2>1, <2>4
<1>5. (Full(p, t)' <=> Full(p, t)) /\ (Launched(p, t)' <=> Launched(p, t))
  <2>1. CASE PostReceive(p, t)
    BY <1>1, <1>3, <2>1 DEF PostReceive, Full, Launched
  <2>2. CASE PostSend(p, t)
    <3>1. <<"Isend", t>> \notin started[p] \cup finished[p]
      BY <1>2, <2>2 DEF PostSend, InPlace, Pending
    <3>2. pc[p][t] = "isend" /\ pc'[p][t] = "wait_s" /\ finished' = finished
      BY <1>3, <2>2 DEF PostSend
    <3> QED
      BY <1>1, <3>1, <3>2 DEF Full, Launched
  <2>3. CASE WaitSend(p, t)
    <3>1. /\ pc[p][t] = "wait_s" /\ pc'[p][t] = "wait_r" /\ <<"Isend", t>> \in finished[p]
          /\ finished'[p] = finished[p] \ {<<"Isend", t>>}
      BY <1>3, <2>3 DEF WaitSend, Wait, ProgramInv, TypeOK
    <3> QED
      BY <1>1, <3>1 DEF Full, Launched
  <2>4. CASE WaitReceive(p, t)
    <3>1. /\ pc[p][t] = "wait_r" /\ pc'[p][t] = "check" /\ <<"Irecv", t>> \in finished[p]
          /\ finished'[p] = finished[p] \ {<<"Irecv", t>>}
      BY <1>3, <2>4 DEF WaitReceive, Wait, ProgramInv, TypeOK
    <3> QED
      BY <1>1, <3>1 DEF Full, Launched
  <2> QED
    BY <2>1, <2>2, <2>3, <2>4
<1>6. ASSUME NEW q \in Procs, NEW u \in Threads, q # p \/ u # t
      PROVE  (Full(q, u)' <=> Full(q, u)) /\ (Launched(q, u)' <=> Launched(q, u))
  BY <1>1, <1>4, <1>6 DEF Full, Launched
<1> QED
  BY <1>1, <1>5, <1>6 DEF Steady

\* So are those of the engine and MPI, but for the start of a send and the end
\* of a receive.
LEMMA EngineSteady ==
  ASSUME ProgramInv, NEW p \in Procs,
         \/ Start(p) /\ Head(queue[p])[1] # "Isend"
         \/ FinishDup(p)
         \/ \E t \in Threads, matched \in BOOLEAN : FinishSend(p, t, matched)
  PROVE  Steady
<1>1. UNCHANGED <<iteration, recvbuf, sent, pc>>
  BY DEF Start, FinishDup, FinishSend
<1>2. \A q \in Procs, u \in Threads :
          /\ <<"Irecv", u>> \in finished'[q] <=> <<"Irecv", u>> \in finished[q]
          /\ <<"Isend", u>> \in started'[q] \cup finished'[q]
                  <=> <<"Isend", u>> \in started[q] \cup finished[q]
  <2>1. CASE Start(p) /\ Head(queue[p])[1] # "Isend"
    BY <2>1 DEF Start, ProgramInv, TypeOK
  <2>2. CASE FinishDup(p)
    BY <2>2 DEF FinishDup, Finish, ProgramInv, TypeOK
  <2>3. CASE \E t \in Threads, matched \in BOOLEAN : FinishSend(p, t, matched)
    <3>1. PICK t \in Threads : Finish(p, <<"Isend", t>>)
      BY <2>3 DEF FinishSend
    <3>2. /\ started' = [started EXCEPT ![p] = @ \ {<<"Isend", t>>}]
          /\ finished' = [finished EXCEPT ![p] = @ \cup {<<"Isend", t>>}]
          /\ <<"Isend", t>> \in started[p]
      BY <3>1 DEF Finish
    <3>3. started \in [Procs -> SUBSET Commands] /\ finished \in [Procs -> SUBSET Commands]
      BY DEF ProgramInv, TypeOK
    <3>4. \A q \in Procs : q # p => started'[q] = started[q] /\ finished'[q] = finished[q]
      BY <3>2, <3>3
    <3>5. /\ started'[p] = started[p] \ {<<"Isend", t>>}
          /\ finished'[p] = finished[p] \cup {<<"Isend", t>>}
      BY <3>2, <3>3
    <3> QED
      BY <3>2, <3>4, <3>5
  <2> QED
    BY <2>1, <2>2, <2>3
<1> QED
  BY <1>1, <1>2 DEF Steady, Full, Launched

\* Who sends what to whom.
LEMMA MessageFacts ==
  ASSUME ProgramInv
  PROVE  /\ \A m \in sent : m.to \in Procs /\ m.from \in Procs /\ m.data \in Threads /\ m.i \in Nat
         /\ \A q \in Procs, u \in Threads : iteration[q][u] \in Nat
<1>1. rep \in Nat
  BY BenchmarkAssumption
<1> QED
  BY <1>1 DEF ProgramInv, TypeOK, Messages

LEMMA SteadyTraffic ==
  ASSUME ProgramInv, TrafficInv, Steady
  PROVE  TrafficInv'
<1>1. \A q \in Procs, u \in Threads :
          Sends(q, u)' = Sends(q, u) /\ Receives(q, u)' = Receives(q, u)
  <2>1. iteration' = iteration
    BY DEF Steady
  <2>2. ASSUME NEW q \in Procs, NEW u \in Threads
        PROVE  Sends(q, u)' = Sends(q, u) /\ Receives(q, u)' = Receives(q, u)
    <3>1. (Full(q, u)' <=> Full(q, u)) /\ (Launched(q, u)' <=> Launched(q, u))
      BY DEF Steady, Full, Launched
    <3>2. Sends(q, u)' = Sends(q, u)
      BY <2>1, <3>1 DEF Sends
    <3>3. Receives(q, u)' = Receives(q, u)
      BY <2>1, <3>1 DEF Receives
    <3> QED
      BY <3>2, <3>3
  <2> QED
    BY <2>2
<1>2. sent' = sent /\ recvbuf' = recvbuf
  BY DEF Steady
<1>3. BufferInv'
  <2>1. ASSUME NEW q \in Procs, NEW u \in Threads
        PROVE  recvbuf'[q][u] = IF Full(q, u)' THEN u ELSE -1
    <3>1. recvbuf[q][u] = IF Full(q, u) THEN u ELSE -1
      BY DEF TrafficInv, BufferInv
    <3>2. Full(q, u)' <=> Full(q, u)
      BY DEF Steady, Full, Launched
    <3> QED
      BY <1>2, <3>1, <3>2
  <2> QED
    BY <2>1 DEF BufferInv
<1>4. MessageInv'
  BY <1>1, <1>2, MessageFacts DEF TrafficInv, MessageInv
<1>5. CountInv'
  <2>1. \A q \in Procs, u \in Threads : Waiting(q, u)' = Waiting(q, u)
    BY <1>2 DEF Waiting
  <2> QED
    BY <1>1, <2>1, RingFacts DEF TrafficInv, CountInv
<1> QED
  BY <1>3, <1>4, <1>5 DEF TrafficInv

\* The end of an iteration keeps the counters: what was sent and received in it
\* is what the count of the iterations then says.
LEMMA CheckTraffic ==
  ASSUME ProgramInv, TrafficInv, NEW p \in Procs, NEW t \in Threads, Check(p, t)
  PROVE  TrafficInv'
<1>1. /\ pc[p][t] = "check" /\ pc'[p][t] \in {"joined", "irecv"}
      /\ \A q \in Procs, u \in Threads : q # p \/ u # t => pc'[q][u] = pc[q][u]
  BY DEF Check, Goto, ProgramInv, TypeOK
<1>2. /\ iteration'[p][t] = iteration[p][t] + 1
      /\ \A q \in Procs, u \in Threads : q # p \/ u # t => iteration'[q][u] = iteration[q][u]
  BY DEF Check, ProgramInv, TypeOK
<1>3. /\ recvbuf'[p][t] = -1
      /\ \A q \in Procs, u \in Threads : q # p \/ u # t => recvbuf'[q][u] = recvbuf[q][u]
  BY DEF Check, ProgramInv, TypeOK
<1>4. UNCHANGED <<started, finished, sent>>
  BY DEF Check
<1>5. <<"Irecv", t>> \notin finished[p]
  BY <1>1 DEF ProgramInv, ThreadInv, InPlace, Pending
<1>6. Full(p, t) /\ ~Full(p, t)' /\ Launched(p, t) /\ ~Launched(p, t)'
  BY <1>1, <1>4, <1>5 DEF Full, Launched
<1>7. \A q \in Procs, u \in Threads : q # p \/ u # t =>
          (Full(q, u)' <=> Full(q, u)) /\ (Launched(q, u)' <=> Launched(q, u))
  <2>1. ASSUME NEW q \in Procs, NEW u \in Threads, q # p \/ u # t
        PROVE  (Full(q, u)' <=> Full(q, u)) /\ (Launched(q, u)' <=> Launched(q, u))
    BY <1>1, <1>4, <2>1 DEF Full, Launched
  <2> QED
    BY <2>1
<1>8. \A q \in Procs, u \in Threads :
          Sends(q, u)' = Sends(q, u) /\ Receives(q, u)' = Receives(q, u)
  <2>1. Sends(p, t)' = Sends(p, t) /\ Receives(p, t)' = Receives(p, t)
    BY <1>2, <1>6, MessageFacts DEF Sends, Receives
  <2>2. ASSUME NEW q \in Procs, NEW u \in Threads, q # p \/ u # t
        PROVE  Sends(q, u)' = Sends(q, u) /\ Receives(q, u)' = Receives(q, u)
    BY <1>2, <1>7, <2>2 DEF Sends, Receives
  <2> QED
    BY <2>1, <2>2
<1>9. BufferInv'
  <2>1. ASSUME NEW q \in Procs, NEW u \in Threads
        PROVE  recvbuf'[q][u] = IF Full(q, u)' THEN u ELSE -1
    BY <1>3, <1>6, <1>7 DEF TrafficInv, BufferInv
  <2> QED
    BY <2>1 DEF BufferInv
<1>10. MessageInv'
  BY <1>4, <1>8, MessageFacts DEF TrafficInv, MessageInv
<1>11. CountInv'
  <2>1. \A q \in Procs, u \in Threads : Waiting(q, u)' = Waiting(q, u)
    BY <1>4 DEF Waiting
  <2> QED
    BY <1>8, <2>1, RingFacts DEF TrafficInv, CountInv
<1> QED
  BY <1>9, <1>10, <1>11 DEF TrafficInv

\* MPI gets a message that is new, because each iteration sends one.
LEMMA StartTraffic ==
  ASSUME ProgramInv, TrafficInv, NEW p \in Procs, Start(p), Head(queue[p])[1] = "Isend"
  PROVE  TrafficInv'
<1>1. PICK t \in Threads : /\ Head(queue[p]) = <<"Isend", t>>
                           /\ InQueue(p, <<"Isend", t>>) /\ <<"Isend", t>> \in Commands
  <2>1. Head(queue[p]) \in Commands /\ InQueue(p, Head(queue[p]))
    BY StartFacts DEF ProgramInv
  <2>2. Head(queue[p])[2] \in Threads /\ Head(queue[p]) = <<"Isend", Head(queue[p])[2]>>
    BY <2>1 DEF Commands
  <2> QED
    BY <2>1, <2>2
<1>m. PICK m : m = Message(p, t)
  OBVIOUS
<1>to. PICK to : to = rank_send(p)
  OBVIOUS
<1>2. /\ started' = [started EXCEPT ![p] = @ \cup {<<"Isend", t>>}]
      /\ sent' = sent \cup {m}
      /\ UNCHANGED <<pc, iteration, recvbuf, finished>>
  <2>1. Head(queue[p])[2] = t
    BY <1>1
  <2> QED
    BY <1>1, <1>m, <2>1 DEF Start
<1>3. pc[p][t] = "wait_s" /\ <<"Isend", t>> \notin started[p] \cup finished[p]
  <2>1. InPlace(p, t) /\ Pending(p, <<"Isend", t>>)
    BY <1>1 DEF ProgramInv, ThreadInv, Pending
  <2>2. <<"Isend", t>> \notin started[p] \cup finished[p]
    BY <1>1 DEF ProgramInv, OnceInv, InQueue
  <2> QED
    BY <2>1, <2>2 DEF InPlace
<1>4. /\ <<"Isend", t>> \in started'[p]
      /\ \A q \in Procs, u \in Threads : q # p \/ u # t =>
             (<<"Isend", u>> \in started'[q] <=> <<"Isend", u>> \in started[q])
  BY <1>2 DEF ProgramInv, TypeOK
<1>5. /\ Launched(p, t)' /\ ~Launched(p, t)
      /\ \A q \in Procs, u \in Threads : q # p \/ u # t => (Launched(q, u)' <=> Launched(q, u))
  <2>1. Launched(p, t)' /\ ~Launched(p, t)
    BY <1>2, <1>3, <1>4 DEF Launched
  <2>2. ASSUME NEW q \in Procs, NEW u \in Threads, q # p \/ u # t
        PROVE  Launched(q, u)' <=> Launched(q, u)
    BY <1>2, <1>4, <2>2 DEF Launched
  <2> QED
    BY <2>1, <2>2
<1>6. \A q \in Procs, u \in Threads : Full(q, u)' <=> Full(q, u)
  BY <1>2 DEF Full
<1>7. /\ Sends(p, t) = iteration[p][t] /\ Sends(p, t)' = Sends(p, t) + 1
      /\ \A q \in Procs, u \in Threads :
             /\ Receives(q, u)' = Receives(q, u)
             /\ q # p \/ u # t => Sends(q, u)' = Sends(q, u)
  <2>1. Sends(p, t) = iteration[p][t] /\ Sends(p, t)' = Sends(p, t) + 1
    BY <1>1, <1>2, <1>5, MessageFacts DEF Sends
  <2>2. ASSUME NEW q \in Procs, NEW u \in Threads
        PROVE  Receives(q, u)' = Receives(q, u)
    BY <1>2, <1>6 DEF Receives
  <2>3. ASSUME NEW q \in Procs, NEW u \in Threads, q # p \/ u # t
        PROVE  Sends(q, u)' = Sends(q, u)
    BY <1>2, <1>5, <2>3 DEF Sends
  <2> QED
    BY <2>1, <2>2, <2>3
<1>8. /\ m.to = to /\ m.from = p /\ m.comm = t /\ m.tag = t /\ m.data = t
      /\ m.i = iteration[p][t]
      /\ to \in Procs /\ rank_recv(to) = p
  BY <1>m, <1>to, RingFacts DEF Message, Envelope
<1>9. m \notin sent
  BY <1>1, <1>7, <1>8, MessageFacts DEF TrafficInv, MessageInv
<1>10. BufferInv'
  BY <1>2, <1>6 DEF TrafficInv, BufferInv
<1>11. MessageInv'
  <2>1. \A q \in Procs, u \in Threads : Sends(q, u) \in Nat
    BY MessageFacts DEF Sends
  <2>2. ASSUME NEW n \in sent
        PROVE  /\ n.from = rank_recv(n.to) /\ n.comm = n.data /\ n.tag = n.data
               /\ n.i < Sends(n.from, n.data)'
    <3>1. n.from \in Procs /\ n.data \in Threads /\ n.i \in Nat
      BY MessageFacts
    <3>2. n.i < Sends(n.from, n.data)
      BY DEF TrafficInv, MessageInv
    <3>3. Sends(n.from, n.data)' = Sends(n.from, n.data) \/ Sends(n.from, n.data)' = Sends(n.from, n.data) + 1
      BY <1>7, <3>1
    <3> QED
      BY <2>1, <3>1, <3>2, <3>3 DEF TrafficInv, MessageInv
  <2>3. m.i < Sends(m.from, m.data)'
    BY <1>1, <1>7, <1>8, <2>1
  <2>4. m.from = rank_recv(m.to) /\ m.comm = m.data /\ m.tag = m.data
    BY <1>8
  <2>5. ASSUME NEW n \in sent'
        PROVE  /\ n.from = rank_recv(n.to) /\ n.comm = n.data /\ n.tag = n.data
               /\ n.i < Sends(n.from, n.data)'
    BY <1>2, <2>2, <2>3, <2>4
  <2> QED
    BY <2>5 DEF MessageInv
<1>12. CountInv'
  <2>1. Waiting(to, t)' = Waiting(to, t) \cup {m} /\ m \notin Waiting(to, t)
    BY <1>2, <1>8, <1>9 DEF Waiting
  <2>2. \A q \in Procs, u \in Threads : q # to \/ u # t => Waiting(q, u)' = Waiting(q, u)
    BY <1>2, <1>8 DEF Waiting
  <2>3. /\ IsFiniteSet(Waiting(to, t))
        /\ Cardinality(Waiting(to, t)) = Sends(p, t) - Receives(to, t)
    BY <1>1, <1>8 DEF TrafficInv, CountInv
  <2>4. /\ IsFiniteSet(Waiting(to, t)')
        /\ Cardinality(Waiting(to, t)') = Sends(rank_recv(to), t)' - Receives(to, t)'
    <3>1. /\ IsFiniteSet(Waiting(to, t)')
          /\ Cardinality(Waiting(to, t)') = Cardinality(Waiting(to, t)) + 1
      BY <2>1, <2>3, FS_AddElement
    <3>2. Sends(p, t) \in Int /\ Receives(to, t) \in Int
      BY <1>1, <1>8, MessageFacts DEF Sends, Receives
    <3>3. Sends(rank_recv(to), t)' = Sends(p, t) + 1 /\ Receives(to, t)' = Receives(to, t)
      BY <1>1, <1>7, <1>8
    <3> QED
      BY <2>3, <3>1, <3>2, <3>3
  <2>5. ASSUME NEW q \in Procs, NEW u \in Threads, q # to \/ u # t
        PROVE  /\ IsFiniteSet(Waiting(q, u)')
               /\ Cardinality(Waiting(q, u)') = Sends(rank_recv(q), u)' - Receives(q, u)'
    <3>1. rank_recv(q) \in Procs /\ (rank_recv(q) # p \/ u # t)
      BY <1>to, <2>5, RingFacts
    <3>2. Sends(rank_recv(q), u)' = Sends(rank_recv(q), u) /\ Receives(q, u)' = Receives(q, u)
      BY <1>7, <3>1
    <3> QED
      BY <2>2, <2>5, <3>2 DEF TrafficInv, CountInv
  <2> QED
    BY <2>4, <2>5 DEF CountInv
<1> QED
  BY <1>10, <1>11, <1>12 DEF TrafficInv

\* A receive that matches takes one message out: of its own thread, as no other
\* uses that communicator and tag.
LEMMA ReceiveTraffic ==
  ASSUME ProgramInv, TrafficInv, NEW p \in Procs, NEW t \in Threads, FinishReceive(p, t)
  PROVE  TrafficInv'
<1>1. PICK m \in sent : /\ m.to = p /\ m.comm = t
                        /\ sent' = sent \ {m}
                        /\ recvbuf' = [recvbuf EXCEPT ![p][t] = m.data]
  BY DEF FinishReceive, Envelope
<1>2. m.data = t
  BY <1>1 DEF TrafficInv, MessageInv
<1>3. /\ started' = [started EXCEPT ![p] = @ \ {<<"Irecv", t>>}]
      /\ finished' = [finished EXCEPT ![p] = @ \cup {<<"Irecv", t>>}]
      /\ <<"Irecv", t>> \in started[p]
      /\ UNCHANGED <<pc, iteration>>
  BY DEF FinishReceive, Finish
<1>4. started \in [Procs -> SUBSET Commands] /\ finished \in [Procs -> SUBSET Commands]
  BY DEF ProgramInv, TypeOK
<1>5. ~Full(p, t)
  <2>1. <<"Irecv", t>> \notin finished[p]
    BY <1>3 DEF ProgramInv, OnceInv
  <2>2. InPlace(p, t) /\ Pending(p, <<"Irecv", t>>)
    BY <1>3 DEF ProgramInv, ThreadInv, Pending
  <2>3. pc[p][t] # "check"
    BY <2>2 DEF InPlace
  <2> QED
    BY <2>1, <2>3 DEF Full
<1>6. Full(p, t)'
  BY <1>3, <1>4 DEF Full
<1>7. \A q \in Procs, u \in Threads : q # p \/ u # t => (Full(q, u)' <=> Full(q, u))
  <2>1. ASSUME NEW q \in Procs, NEW u \in Threads, q # p \/ u # t
        PROVE  <<"Irecv", u>> \in finished'[q] <=> <<"Irecv", u>> \in finished[q]
    BY <1>3, <1>4, <2>1
  <2>2. ASSUME NEW q \in Procs, NEW u \in Threads, q # p \/ u # t
        PROVE  Full(q, u)' <=> Full(q, u)
    BY <1>3, <2>1, <2>2 DEF Full
  <2> QED
    BY <2>2
<1>8. \A q \in Procs, u \in Threads : Launched(q, u)' <=> Launched(q, u)
  <2>1. ASSUME NEW q \in Procs, NEW u \in Threads
        PROVE  <<"Isend", u>> \in started'[q] \cup finished'[q]
                  <=> <<"Isend", u>> \in started[q] \cup finished[q]
    BY <1>3, <1>4
  <2>2. ASSUME NEW q \in Procs, NEW u \in Threads
        PROVE  Launched(q, u)' <=> Launched(q, u)
    BY <1>3, <2>1 DEF Launched
  <2> QED
    BY <2>2
<1>9. /\ Receives(p, t)' = Receives(p, t) + 1
      /\ \A q \in Procs, u \in Threads :
             /\ Sends(q, u)' = Sends(q, u)
             /\ q # p \/ u # t => Receives(q, u)' = Receives(q, u)
  <2>1. Receives(p, t)' = Receives(p, t) + 1
    BY <1>3, <1>5, <1>6, MessageFacts DEF Receives
  <2>2. ASSUME NEW q \in Procs, NEW u \in Threads
        PROVE  Sends(q, u)' = Sends(q, u)
    BY <1>3, <1>8 DEF Sends
  <2>3. ASSUME NEW q \in Procs, NEW u \in Threads, q # p \/ u # t
        PROVE  Receives(q, u)' = Receives(q, u)
    BY <1>3, <1>7, <2>3 DEF Receives
  <2> QED
    BY <2>1, <2>2, <2>3
<1>10. BufferInv'
  <2>1. /\ recvbuf'[p][t] = t
        /\ \A q \in Procs, u \in Threads : q # p \/ u # t => recvbuf'[q][u] = recvbuf[q][u]
    BY <1>1, <1>2 DEF ProgramInv, TypeOK
  <2>2. ASSUME NEW q \in Procs, NEW u \in Threads
        PROVE  recvbuf'[q][u] = IF Full(q, u)' THEN u ELSE -1
    BY <1>6, <1>7, <2>1 DEF TrafficInv, BufferInv
  <2> QED
    BY <2>2 DEF BufferInv
<1>11. MessageInv'
  BY <1>1, <1>9, MessageFacts DEF TrafficInv, MessageInv
<1>12. CountInv'
  <2>1. Waiting(p, t)' = Waiting(p, t) \ {m} /\ m \in Waiting(p, t)
    BY <1>1, <1>2 DEF Waiting
  <2>2. \A q \in Procs, u \in Threads : q # p \/ u # t => Waiting(q, u)' = Waiting(q, u)
    BY <1>1, <1>2 DEF Waiting
  <2>3. /\ IsFiniteSet(Waiting(p, t)')
        /\ Cardinality(Waiting(p, t)') = Sends(rank_recv(p), t)' - Receives(p, t)'
    <3>1. /\ IsFiniteSet(Waiting(p, t))
          /\ Cardinality(Waiting(p, t)) = Sends(rank_recv(p), t) - Receives(p, t)
      BY DEF TrafficInv, CountInv
    <3>2. /\ IsFiniteSet(Waiting(p, t)')
          /\ Cardinality(Waiting(p, t)') = Cardinality(Waiting(p, t)) - 1
      BY <2>1, <3>1, FS_RemoveElement
    <3>3. Sends(rank_recv(p), t) \in Int /\ Receives(p, t) \in Int
      BY RingFacts, MessageFacts DEF Sends, Receives
    <3>4. Sends(rank_recv(p), t)' = Sends(rank_recv(p), t) /\ Receives(p, t)' = Receives(p, t) + 1
      BY <1>9, RingFacts
    <3> QED
      BY <3>1, <3>2, <3>3, <3>4
  <2>4. ASSUME NEW q \in Procs, NEW u \in Threads, q # p \/ u # t
        PROVE  /\ IsFiniteSet(Waiting(q, u)')
               /\ Cardinality(Waiting(q, u)') = Sends(rank_recv(q), u)' - Receives(q, u)'
    <3>1. Sends(rank_recv(q), u)' = Sends(rank_recv(q), u) /\ Receives(q, u)' = Receives(q, u)
      BY <1>9, <2>4, RingFacts
    <3> QED
      BY <2>2, <2>4, <3>1 DEF TrafficInv, CountInv
  <2> QED
    BY <2>3, <2>4 DEF CountInv
<1> QED
  BY <1>10, <1>11, <1>12 DEF TrafficInv

-----------------------------------------------------------------------------
(***************************************************************************)
(* The theorems                                                            *)
(***************************************************************************)
\* The invariant holds when no process has made a call.
LEMMA InitInvariant == Init => BenchmarkInv
<1> SUFFICES ASSUME Init
             PROVE  BenchmarkInv
  OBVIOUS
<1>1. nthreads \in Nat \ {0} /\ rep \in Nat
  BY BenchmarkAssumption
<1>2. TypeOK
  BY <1>1 DEF Init, TypeOK
<1>3. \A p \in Procs, c \in Commands : ~Pending(p, c)
  BY DEF Init, Pending, InQueue
<1>4. OnceInv /\ MainInv
  BY <1>1, <1>3, CommandFacts DEF Init, OnceInv, MainInv
<1>5. ThreadInv
  BY <1>3, CommandFacts DEF Init, ThreadInv, InPlace
<1>6. \A p \in Procs, t \in Threads :
          ~Full(p, t) /\ ~Launched(p, t) /\ iteration[p][t] = 0 /\ recvbuf[p][t] = -1
  BY DEF Init, Full, Launched
<1>7. BufferInv
  BY <1>6 DEF BufferInv
<1>8. MessageInv
  BY DEF Init, MessageInv
<1>9. CountInv
  <2>1. \A p \in Procs, t \in Threads : Sends(p, t) = 0 /\ Receives(p, t) = 0
    BY <1>6 DEF Sends, Receives
  <2>2. \A p \in Procs, t \in Threads : Waiting(p, t) = {}
    BY DEF Init, Waiting
  <2> QED
    BY <2>1, <2>2, RingFacts, FS_EmptySet DEF CountInv
<1> QED
  BY <1>2, <1>4, <1>5, <1>7, <1>8, <1>9 DEF BenchmarkInv, ProgramInv, TrafficInv

\* Every step of a process, of a thread and of MPI preserves it.
LEMMA NextInvariant == BenchmarkInv /\ [Next]_vars => BenchmarkInv'
<1> SUFFICES ASSUME BenchmarkInv, [Next]_vars
             PROVE  BenchmarkInv'
  OBVIOUS
<1>0. ProgramInv /\ TrafficInv
  BY DEF BenchmarkInv
<1>1. CASE UNCHANGED vars
  <2>1. ProgramInv'
    <3>1. TypeOK'
      BY <1>0, <1>1 DEF vars, ProgramInv, TypeOK
    <3>2. OnceInv' /\ MainInv'
      BY <1>0, <1>1 DEF vars, ProgramInv, OnceInv, MainInv, Pending, InQueue
    <3>3. ThreadInv'
      BY <1>0, <1>1 DEF vars, ProgramInv, ThreadInv, InPlace, Pending, InQueue
    <3> QED
      BY <3>1, <3>2, <3>3 DEF ProgramInv
  <2>2. Steady
    BY <1>1 DEF vars, Steady, Full, Launched
  <2> QED
    BY <1>0, <2>1, <2>2, SteadyTraffic DEF BenchmarkInv
<1>2. ASSUME NEW p \in Procs, MainStep(p)
      PROVE  BenchmarkInv'
  BY <1>0, <1>2, MainProgram, MainSteady, SteadyTraffic DEF BenchmarkInv
<1>3. ASSUME NEW p \in Procs, NEW t \in Threads, ThreadStep(p, t)
      PROVE  BenchmarkInv'
  <2>1. ProgramInv'
    BY <1>0, <1>3, ThreadProgram
  <2>2. CASE Check(p, t)
    BY <1>0, <2>1, <2>2, CheckTraffic DEF BenchmarkInv
  <2>3. CASE PostReceive(p, t) \/ PostSend(p, t) \/ WaitSend(p, t) \/ WaitReceive(p, t)
    BY <1>0, <2>1, <2>3, ThreadSteady, SteadyTraffic DEF BenchmarkInv
  <2> QED
    BY <1>3, <2>2, <2>3 DEF ThreadStep
<1>4. ASSUME NEW p \in Procs, Start(p)
      PROVE  BenchmarkInv'
  <2>1. ProgramInv'
    BY <1>0, <1>4, EngineProgram
  <2>2. CASE Head(queue[p])[1] = "Isend"
    BY <1>0, <1>4, <2>1, <2>2, StartTraffic DEF BenchmarkInv
  <2>3. CASE Head(queue[p])[1] # "Isend"
    BY <1>0, <1>4, <2>1, <2>3, EngineSteady, SteadyTraffic DEF BenchmarkInv
  <2> QED
    BY <2>2, <2>3
<1>5. ASSUME NEW p \in Procs, FinishDup(p)
      PROVE  BenchmarkInv'
  BY <1>0, <1>5, EngineProgram, EngineSteady, SteadyTraffic DEF BenchmarkInv
<1>6. ASSUME NEW p \in Procs, NEW t \in Threads, NEW matched \in BOOLEAN, FinishSend(p, t, matched)
      PROVE  BenchmarkInv'
  BY <1>0, <1>6, EngineProgram, EngineSteady, SteadyTraffic DEF BenchmarkInv
<1>7. ASSUME NEW p \in Procs, NEW t \in Threads, FinishReceive(p, t)
      PROVE  BenchmarkInv'
  BY <1>0, <1>7, EngineProgram, ReceiveTraffic DEF BenchmarkInv
<1>8. CASE Next
  BY <1>1, <1>2, <1>3, <1>4, <1>5, <1>6, <1>7, <1>8 DEF Next, Terminated
<1> QED
  BY <1>1, <1>8

\* The threads, the operations of the engine and the messages agree throughout.
THEOREM InvariantHolds == Spec => []BenchmarkInv
  BY InitInvariant, NextInvariant, PTL DEF Spec

\* Main makes nthreads communicators, no thread more than rep iterations, and
\* every command, buffer and message is of its kind.
THEOREM TypeCorrect == Spec => []TypeOK
<1>1. BenchmarkInv => TypeOK
  BY DEF BenchmarkInv, ProgramInv
<1> QED
  BY <1>1, InvariantHolds, PTL

\* The assertions of the benchmark (mt_overlap.cpp:187-191): what arrives is from
\* the same thread of the left neighbour, though MPI may match in any order.
THEOREM EveryMessageIsReceived == Spec => []Received
<1>1. BenchmarkInv => Received
  BY DEF BenchmarkInv, TrafficInv, BufferInv, Received, Full
<1> QED
  BY <1>1, InvariantHolds, PTL

\* No thread touches its buffers while an operation that uses them is in the
\* queue or in MPI.
THEOREM BuffersAreIdle == Spec => []BuffersIdle
<1>1. BenchmarkInv => BuffersIdle
  <2> SUFFICES ASSUME BenchmarkInv,
                      NEW p \in Procs, NEW t \in Threads,
                      pc[p][t] \in {"barrier", "irecv", "check", "joined"},
                      NEW call \in {"Irecv", "Isend"}
               PROVE  /\ <<call, t>> \notin started[p]
                      /\ \A i \in 1 .. Len(queue[p]) : queue[p][i] # <<call, t>>
    BY DEF BuffersIdle
  <2>1. InPlace(p, t)
    BY DEF BenchmarkInv, ProgramInv, ThreadInv
  <2>2. ~Pending(p, <<call, t>>)
    BY <2>1 DEF InPlace
  <2> QED
    BY <2>2 DEF Pending, InQueue
<1> QED
  BY <1>1, InvariantHolds, PTL

\* The ring holds every thread back, although a send may finish before it is
\* matched: each neighbour is ahead by at most one, and so round the ring.
THEOREM TheRingHoldsBack == Spec => []Ahead
<1>1. BenchmarkInv => Ahead
  <2> SUFFICES ASSUME BenchmarkInv, NEW p \in Procs, NEW t \in Threads
               PROVE  /\ iteration[rank_recv(p)][t] - iteration[p][t] < num_procs
                      /\ Cardinality({m \in sent : m.to = p /\ m.data = t})
                             <= iteration[rank_recv(p)][t] - iteration[p][t] + 1
    BY DEF Ahead
  <2> DEFINE f == [q \in Procs |-> iteration[q][t]]
  <2>1. \A q \in Procs : iteration[q][t] \in Nat
    BY MessageFacts DEF BenchmarkInv
  <2>2. ASSUME NEW q \in Procs
        PROVE  /\ iteration[q][t] <= iteration[rank_recv(q)][t] + 1
               /\ Cardinality(Waiting(q, t)) <= iteration[rank_recv(q)][t] - iteration[q][t] + 1
    <3>1. /\ IsFiniteSet(Waiting(q, t))
          /\ Cardinality(Waiting(q, t)) = Sends(rank_recv(q), t) - Receives(q, t)
      BY DEF BenchmarkInv, TrafficInv, CountInv
    <3>2. Cardinality(Waiting(q, t)) \in Nat
      BY <3>1, FS_CardinalityType
    <3>3. iteration[q][t] \in Nat /\ iteration[rank_recv(q)][t] \in Nat
      BY <2>1, RingFacts
    <3>4. /\ Sends(rank_recv(q), t) \in Nat
          /\ Sends(rank_recv(q), t) <= iteration[rank_recv(q)][t] + 1
      BY <3>3 DEF Sends
    <3>5. Receives(q, t) \in Nat /\ Receives(q, t) >= iteration[q][t]
      BY <3>3 DEF Receives
    <3> QED
      BY <3>1, <3>2, <3>3, <3>4, <3>5
  <2>3. f[rank_recv(p)] - f[p] < num_procs
    <3>1. f \in [Procs -> Nat]
      BY <2>1
    <3>2. \A q \in Procs : f[q] <= f[rank_recv(q)] + 1
      BY <2>2, RingFacts
    <3> HIDE DEF f
    <3> QED
      BY <3>1, <3>2, Around
  <2> QED
    BY <2>2, <2>3, RingFacts DEF Waiting
<1> QED
  BY <1>1, InvariantHolds, PTL
=============================================================================
