-------------------------- MODULE OffloadStepProofs -------------------------
(***************************************************************************)
(* What IInv says of a thread, a command or a slot, in the form proofs     *)
(* use, and every step of an application thread, of the offload thread and *)
(* of the MPI library preserves IInv.                                      *)
(***************************************************************************)
EXTENDS OffloadInvariant, SequenceTheorems, TLAPS


-----------------------------------------------------------------------------
(* What the list operations on used_ do, element by element. *)

\* erase: the elements behind position i move up by one.
LEMMA RemoveAtFacts ==
  ASSUME NEW S, NEW s \in Seq(S), NEW i \in 1 .. Len(s)
  PROVE  /\ RemoveAt(s, i) \in Seq(S)
         /\ Len(RemoveAt(s, i)) = Len(s) - 1
         /\ \A j \in 1 .. Len(s) - 1 :
               RemoveAt(s, i)[j] = IF j < i THEN s[j] ELSE s[j + 1]
<1> DEFINE a == SubSeq(s, 1, i - 1)
           b == SubSeq(s, i + 1, Len(s))
<1>0. Len(s) \in Nat /\ i \in Nat
  OBVIOUS
<1>1. a \in Seq(S) /\ Len(a) = i - 1 /\ \A j \in 1 .. i - 1 : a[j] = s[j]
  BY <1>0
<1>2. /\ b \in Seq(S) /\ Len(b) = Len(s) - i
      /\ \A j \in 1 .. Len(s) - i : b[j] = s[j + i]
  BY <1>0
<1> HIDE DEF a, b
<1>3. /\ a \o b \in Seq(S)
      /\ Len(a \o b) = Len(a) + Len(b)
      /\ \A j \in 1 .. Len(a) + Len(b) :
            (a \o b)[j] = IF j <= Len(a) THEN a[j] ELSE b[j - Len(a)]
  BY <1>1, <1>2, ConcatProperties, Zenon
<1>4. Len(a) + Len(b) = Len(s) - 1
  BY <1>0, <1>1, <1>2
<1>5. /\ a \o b \in Seq(S)
      /\ Len(a \o b) = Len(s) - 1
      /\ \A j \in 1 .. Len(s) - 1 :
            (a \o b)[j] = IF j <= i - 1 THEN a[j] ELSE b[j - (i - 1)]
  BY <1>0, <1>1, <1>2, <1>3, <1>4
<1>6. ASSUME NEW j \in 1 .. Len(s) - 1
      PROVE  (a \o b)[j] = IF j < i THEN s[j] ELSE s[j + 1]
  BY <1>0, <1>1, <1>2, <1>5
<1> QED
  BY <1>5, <1>6 DEF a, b, RemoveAt

\* remove of the first element is erase at the first position.
LEMMA RemoveFirstFacts ==
  ASSUME NEW S, NEW s \in Seq(S), s # << >>
  PROVE  RemoveFirst(s, s[1]) = RemoveAt(s, 1)
<1> DEFINE I == {i \in 1 .. Len(s) : s[i] = s[1]}
<1>1. 1 \in I /\ \A i \in I : 1 <= i
  OBVIOUS
<1>2. \A m \in I : (\A i \in I : m <= i) => m = 1
  BY <1>1
<1>3. Min(I) = 1
  BY <1>1, <1>2 DEF Min
<1>4. SelectInSeq(s, LAMBDA v : v = s[1]) = 1
  BY <1>1, <1>3 DEF SelectInSeq
<1> QED
  BY <1>1, <1>4 DEF RemoveFirst

-----------------------------------------------------------------------------

\* Slot 0 is a slot too, but never in the pool.
LEMMA SlotFacts == Usable \subseteq Slots /\ INVALID_INDEX \notin Usable
  BY ConstantsAssumption, DistinctAssumption DEF Usable, Slots

\* The fields of a command.
LEMMA CommandFacts ==
  ASSUME NEW c \in Commands
  PROVE  c.request \in Requests /\ c.post \in 1 .. MaxPosts /\ c.null_request \in BOOLEAN
  BY DEF Commands

\* What post makes is a command.
LEMMA CommandType ==
  ASSUME NEW r \in Requests, NEW n \in 1 .. MaxPosts, NEW b \in BOOLEAN
  PROVE  [request |-> r, post |-> n, null_request |-> b] \in Commands
  BY DEF Commands

\* What a command stands for is an operation.
LEMMA OpFacts ==
  ASSUME NEW r \in Requests, NEW n \in 1 .. MaxPosts
  PROVE  <<r, n>> \in Ops
  BY DEF Ops

\* What the queue holds are commands.
LEMMA QueuedCommand ==
  ASSUME TypeOK, NEW i \in 1 .. Len(queue)
  PROVE  queue[i] \in Commands
  BY DEF TypeOK

\* A thread that has read an index looks at the slot of its own request.
LEMMA IndexFacts ==
  ASSUME IInv, NEW t \in Threads, HasIndex(t)
  PROVE  /\ req[t] \in Requests /\ phase[req[t]] = "busy"
         /\ idx[t] = word[req[t]] /\ idx[t] \in Usable /\ Holds(req[t], idx[t])
<1>1. InCall(t) /\ pc[t] # "enqueue"
  BY DEF HasIndex, InCall
<1> QED
  BY <1>1 DEF IInv, ThreadInv, ThreadOK, Holds, Live

\* Two threads never look at the same slot.
LEMMA IndexDistinct ==
  ASSUME IInv, NEW t \in Threads, NEW u \in Threads, HasIndex(t), HasIndex(u), t # u
  PROVE  idx[t] # idx[u] /\ req[t] # req[u]
<1>1. InCall(t) /\ InCall(u)
  BY DEF HasIndex, InCall
<1>2. req[t] # req[u]
  BY <1>1 DEF IInv, ThreadInv
<1> QED
  BY <1>2, IndexFacts, SlotFacts DEF IInv, SlotExclusive

\* Once the completion of t's request is being taken, the offload thread is
\* finished with it.
LEMMA TakenIsNotInHand ==
  ASSUME IInv, opc # "crashed", NEW t \in Threads, pc[t] \in {"copy", "clear", "release", "take"}
  PROVE  /\ opc \in HasSlot => slot # idx[t]
         /\ opc \in Hand => command.request # req[t]
         /\ \A i \in 1 .. Len(used) : used[i] = idx[t] => Erasing(i)
<1>1. HasIndex(t)
  BY DEF HasIndex
<1>2. \A i \in 1 .. Len(used) : used[i] = idx[t] => Erasing(i)
  BY DEF IInv, ThreadInv, ThreadOK, UsedInv, UsedOK
<1>3. ASSUME opc \in HasSlot
      PROVE  slot # idx[t]
  <2>1. used[1] = slot /\ 1 \in 1 .. Len(used) /\ opc # "erase"
    BY <1>3 DEF IInv, TypeOK, HandInv, HasSlot
  <2> QED
    BY <1>2, <2>1 DEF Erasing
<1>4. ASSUME opc \in Hand
      PROVE  command.request # req[t]
  BY <1>1, <1>3, <1>4, IndexFacts, SlotFacts DEF IInv, HandInv, Hand, HasSlot
<1> QED
  BY <1>2, <1>3, <1>4

\* The command in hand is that of the current operation of its request.
LEMMA CommandInHand ==
  ASSUME IInv, opc \in Hand
  PROVE  /\ command \in Commands /\ command.request \in Requests /\ IsCurrent(command)
         /\ CommandOp = CurrentOp(command.request) /\ CommandOp \in Ops
<1>1. command \in Commands /\ IsCurrent(command)
  BY DEF IInv, HandInv
<1> QED
  BY <1>1, CommandFacts, OpFacts DEF IsCurrent, CommandOp, CurrentOp

\* The slot in hand is the head of used_: not free, not done, there once.
LEMMA SlotInHand ==
  ASSUME IInv, opc \in HasSlot
  PROVE  /\ slot \in Usable /\ slot \notin free /\ ~done[slot]
         /\ used # << >> /\ 1 \in 1 .. Len(used) /\ used[1] = slot
         /\ \A i \in 1 .. Len(used) : i # 1 => used[i] # slot
<1>1. slot \in Usable /\ used # << >> /\ used[1] = slot
  BY DEF IInv, HandInv
<1>2. 1 \in 1 .. Len(used)
  BY <1>1 DEF IInv, TypeOK
<1> QED
  BY <1>1, <1>2 DEF IInv, UsedInv, UsedOK, Erasing, HasSlot

\* acquire puts the slot at the head of used_.
LEMMA UsedPushed ==
  ASSUME TypeOK, NEW s \in Usable \cup {INVALID_INDEX}
  PROVE  /\ Cons(s, used) \in Seq(Usable \cup {INVALID_INDEX})
         /\ Len(Cons(s, used)) = Len(used) + 1 /\ Len(used) \in Nat
         /\ Cons(s, used)[1] = s
         /\ \A i \in 1 .. Len(Cons(s, used)) :
               i = 1 \/ (i - 1 \in 1 .. Len(used) /\ Cons(s, used)[i] = used[i - 1])
<1>1. used \in Seq(Usable \cup {INVALID_INDEX}) /\ Len(used) \in Nat
  BY DEF TypeOK
<1>2. /\ Cons(s, used) \in Seq(Usable \cup {INVALID_INDEX})
      /\ Len(Cons(s, used)) = Len(used) + 1
      /\ Cons(s, used)[1] = s
      /\ \A i \in 1 .. Len(used) : Cons(s, used)[i + 1] = used[i]
  BY <1>1 DEF Cons
<1> QED
  BY <1>1, <1>2

-----------------------------------------------------------------------------
(* The steps of an application thread. *)

USE SlotFacts, CommandFacts, OpFacts, DistinctAssumption

\* The request is invalidated before its command can be seen: post.
LEMMA PostStep ==
  ASSUME IInv, opc # "crashed", NEW t \in Threads, NEW r \in Requests, Post(t, r)
  PROVE  IInv'
<1> USE DEF Post, threadVars, appVars, poolVars, offVars, mpiVars, CurrentOp,
            Live, InCall, HasIndex
<1>0. \A u \in Threads : InCall(u) =>
        req[u] \in Requests /\ req[u] # r /\ phase[req[u]] # "inactive"
  BY DEF IInv, ThreadInv, ThreadOK
<1>a. posts[r] + 1 \in 1 .. MaxPosts /\ posts[r] \in 0 .. MaxPosts /\ MaxPosts \in Nat
  BY ConstantsAssumption DEF IInv, TypeOK
<1>1. TypeOK'
  BY <1>a DEF IInv, TypeOK
<1>2. ThreadInv'
  <2>1. ASSUME NEW u \in Threads
        PROVE  ThreadOK(u)'
    <3>1. CASE u = t
      BY <1>0, <3>1 DEF IInv, TypeOK, ThreadOK
    <3>2. CASE u # t
      BY <1>0, <3>2 DEF IInv, TypeOK, ThreadInv, ThreadOK, Erasing, OwnStatus
    <3> QED
      BY <3>1, <3>2
  <2>2. ASSUME NEW u \in Threads, NEW v \in Threads,
               (InCall(u) /\ InCall(v) /\ req[u] = req[v])'
        PROVE  u = v
    BY <1>0, <2>2 DEF IInv, TypeOK, ThreadInv
  <2> QED
    BY <2>1, <2>2 DEF ThreadInv
<1>3. RequestInv'
  <2>1. ASSUME NEW q \in Requests
        PROVE  RequestOK(q)'
    <3>1. CASE q = r
      <4>1. \A n \in 1 .. MaxPosts : n > posts[r] => <<r, n>> \notin started
        BY DEF IInv, RequestInv, RequestOK
      <4>2. posts'[r] = posts[r] + 1 /\ word'[r] = INVALID_INDEX /\ started' = started
        BY DEF IInv, TypeOK
      <4> HIDE DEF Post
      <4> QED
        BY <1>a, <3>1, <4>1, <4>2 DEF RequestOK
    <3>2. CASE q # r
      BY <3>2 DEF IInv, TypeOK, RequestInv, RequestOK
    <3> QED
      BY <3>1, <3>2
  <2> QED
    BY <2>1 DEF RequestInv
<1>4. QueueInv'
  <2>1. ASSUME NEW i \in 1 .. Len(queue)
        PROVE  QueuedOK(queue[i])'
    <3>1. queue[i] \in Commands /\ QueuedOK(queue[i])
      BY QueuedCommand DEF IInv, QueueInv
    <3>2. queue[i].request \in Requests /\ queue[i].request # r
      BY <1>0, <3>1 DEF QueuedOK, IsCurrent
    <3> QED
      BY <3>1, <3>2 DEF IInv, TypeOK, QueuedOK, IsCurrent, Hand, CurrentOp
  <2> QED
    BY <2>1 DEF IInv, QueueInv
<1>5. HandInv'
  BY <1>0 DEF IInv, HandInv, IsCurrent, CommandOp
<1>6. UsedInv'
  BY <1>0 DEF IInv, UsedInv, Erasing, Holds, UsedOK
<1>7. TestInv'
  BY <1>0 DEF IInv, TypeOK, TestInv, UsedInv, Completed, Outstanding, OwnStatus,
      TestOK, UsedOK
<1>8. FlagInv'
  BY <1>0 DEF IInv, TypeOK, FlagInv, Completed, OwnStatus, FlagOK
<1>9. SlotExclusive'
  BY <1>0 DEF IInv, TypeOK, SlotExclusive, Holds
<1>10. UsedIsTestable'
  BY <1>0 DEF IInv, UsedIsTestable
<1>11. StopInv'
  BY <1>0 DEF IInv, StopInv
<1> QED
  BY <1>1, <1>2, <1>3, <1>4, <1>5, <1>6, <1>7, <1>8, <1>9, <1>10, <1>11 DEF IInv

\* The queued command is the only one of its request: post.
LEMMA EnqueueStep ==
  ASSUME IInv, opc # "crashed", NEW t \in Threads, Enqueue(t)
  PROVE  IInv'
<1> USE DEF Enqueue, threadVars, appVars, poolVars, offVars, mpiVars, CurrentOp,
            Live, InCall, HasIndex, ReturnToApp, Queue!Enqueue
<1>0. /\ req[t] \in Requests /\ phase[req[t]] = "posting"
      /\ word[req[t]] = INVALID_INDEX
      /\ \A u \in Threads : InCall(u) /\ u # t => req[u] \in Requests /\ req[u] # req[t]
  BY DEF IInv, ThreadInv, ThreadOK, RequestInv, RequestOK
<1>a. \E p \in {"active", "busy"} : phase' = [phase EXCEPT ![req[t]] = p]
  OBVIOUS
<1>1. TypeOK'
  <2> DEFINE c == [request |-> req[t], post |-> posts[req[t]],
                   null_request |-> req[t] \in NullRequests]
  <2>1. posts[req[t]] \in 1 .. MaxPosts
    BY <1>0 DEF IInv, RequestInv, RequestOK
  <2>2. c \in Commands
    <3>1. \A b \in BOOLEAN : [request |-> req[t], post |-> posts[req[t]], null_request |-> b] \in Commands
      BY <1>0, <2>1, CommandType, Zenon
    <3>2. (req[t] \in NullRequests) \in BOOLEAN
      OBVIOUS
    <3> HIDE DEF Enqueue
    <3> QED
      BY <3>1, <3>2, Zenon
  <2> HIDE DEF c
  <2>3. queue' \in Seq(Commands)
    <3>1. queue' = Append(queue, c)
      BY DEF c
    <3> QED
      BY <2>2, <3>1 DEF IInv, TypeOK
  <2>4. phase' \in [Requests -> {"inactive", "posting", "active", "busy"}]
    <3>1. phase \in [Requests -> {"inactive", "posting", "active", "busy"}]
      BY DEF IInv, TypeOK
    <3> QED
      BY <3>1
  <2>5. /\ req' \in [Threads -> Requests \cup {nullptr}]
        /\ idx' \in [Threads -> Slots \cup {INVALID_INDEX}]
    BY DEF ReturnToApp, IInv, TypeOK
  <2>6. pc' \in [Threads -> {"idle", "enqueue", "word", "done", "copy", "clear",
                            "release", "flag", "take", "join", "finalized"}]
    <3>1. pc \in [Threads -> {"idle", "enqueue", "word", "done", "copy", "clear",
                             "release", "flag", "take", "join", "finalized"}]
      BY DEF IInv, TypeOK
    <3> QED
      BY <3>1
  <2> QED
    BY <2>3, <2>4, <2>5, <2>6 DEF IInv, TypeOK
<1>2. ThreadInv'
  <2>1. ASSUME NEW u \in Threads
        PROVE  ThreadOK(u)'
    <3>1. CASE u = t
      BY <1>0, <3>1 DEF IInv, TypeOK, ThreadOK
    <3>2. CASE u # t
      BY <1>0, <3>2 DEF IInv, TypeOK, ThreadInv, ThreadOK, Erasing, OwnStatus
    <3> QED
      BY <3>1, <3>2
  <2>2. ASSUME NEW u \in Threads, NEW v \in Threads,
               (InCall(u) /\ InCall(v) /\ req[u] = req[v])'
        PROVE  u = v
    <3>1. CASE req[t] \in NullRequests
      BY SMTT(30), <1>0, <2>2, <3>1 DEF IInv, TypeOK, ThreadInv
    <3>2. CASE req[t] \notin NullRequests
      <4>1. u # t /\ v # t
        BY <2>2, <3>2 DEF IInv, TypeOK
      <4> QED
        BY <1>0, <2>2, <3>2, <4>1 DEF IInv, TypeOK, ThreadInv
    <3> QED
      BY <3>1, <3>2
  <2> QED
    BY <2>1, <2>2 DEF ThreadInv
<1>3. RequestInv'
  <2>1. ASSUME NEW r \in Requests
        PROVE  RequestOK(r)'
    BY <1>0, <1>a DEF IInv, TypeOK, RequestInv, RequestOK
  <2> QED
    BY <2>1 DEF RequestInv
<1>4. QueueInv'
  <2> DEFINE c == [request |-> req[t], post |-> posts[req[t]],
                   null_request |-> req[t] \in NullRequests]
  <2>1. /\ Len(queue') = Len(queue) + 1 /\ queue'[Len(queue) + 1] = c
        /\ \A i \in 1 .. Len(queue) : queue'[i] = queue[i]
        /\ c.request = req[t] /\ c.post = posts[req[t]]
        /\ c.null_request = (req[t] \in NullRequests)
    BY DEF IInv, TypeOK
  <2> HIDE DEF c
  <2>2. \A i \in 1 .. Len(queue) : queue[i].request \in Requests /\ queue[i].request # req[t]
    BY <1>0, QueuedCommand DEF IInv, QueueInv, QueuedOK, IsCurrent
  <2>3. ASSUME NEW i \in 1 .. Len(queue)
        PROVE  QueuedOK(queue[i])'
    BY <1>0, <1>a, <2>1, <2>2 DEF IInv, TypeOK, QueueInv, QueuedOK, IsCurrent, Hand
  <2>4. ASSUME NEW k \in Nat, k = Len(queue) + 1
        PROVE  QueuedOK(queue[k])'
    <3>1. CurrentOp(req[t]) \notin started
      BY <1>0 DEF IInv, RequestInv, RequestOK
    <3>2. opc \in Hand => command.request # req[t]
      BY <1>0 DEF IInv, HandInv, IsCurrent
    <3>3. /\ queue'[k].request = req[t] /\ queue'[k].post = posts[req[t]]
          /\ queue'[k].null_request = (req[t] \in NullRequests)
      BY <2>1, <2>4
    <3>4. /\ phase'[req[t]] \in {"active", "busy"} /\ posts' = posts /\ word' = word
          /\ started' = started /\ opc' = opc /\ command' = command
      BY <1>0, <1>a DEF IInv, TypeOK
    <3> HIDE DEF Enqueue
    <3> QED
      BY <1>0, <3>1, <3>2, <3>3, <3>4 DEF QueuedOK, IsCurrent, Hand
  <2>5. \A i \in 1 .. Len(queue') : i \in 1 .. Len(queue) \/ i = Len(queue) + 1
    BY <2>1 DEF IInv, TypeOK
  <2>6. ASSUME NEW i \in 1 .. Len(queue')
        PROVE  QueuedOK(queue[i])'
    <3>1. CASE i \in 1 .. Len(queue)
      BY <2>3, <3>1
    <3>2. CASE i = Len(queue) + 1
      BY <2>4, <3>2
    <3> QED
      BY <2>5, <3>1, <3>2
  <2>7. \A i, j \in 1 .. Len(queue') : queue'[i].request = queue'[j].request => i = j
    BY <2>1, <2>2, <2>5 DEF IInv, QueueInv
  <2> QED
    BY <2>6, <2>7 DEF QueueInv
<1>5. HandInv'
  BY <1>0 DEF IInv, TypeOK, HandInv, IsCurrent, CommandOp
<1>6. UsedInv'
  BY <1>0 DEF IInv, TypeOK, UsedInv, Erasing, Holds, UsedOK
<1>7. TestInv'
  BY <1>0 DEF IInv, TypeOK, TestInv, HandInv, UsedInv, FlagInv, Completed,
      Outstanding, OwnStatus, Hand, HasSlot, Holds, TestOK, UsedOK, FlagOK
<1>8. FlagInv'
  BY <1>0 DEF IInv, TypeOK, FlagInv, Completed, OwnStatus, FlagOK
<1>9. SlotExclusive'
  BY <1>0 DEF IInv, TypeOK, SlotExclusive, Holds
<1>10. UsedIsTestable'
  BY <1>0 DEF IInv, UsedIsTestable
<1>11. StopInv'
  BY <1>0 DEF IInv, TypeOK, StopInv
<1> QED
  BY <1>1, <1>2, <1>3, <1>4, <1>5, <1>6, <1>7, <1>8, <1>9, <1>10, <1>11 DEF IInv

\* The waiting thread is the only one in a call with its request: MPI_Wait.
LEMMA WaitStep ==
  ASSUME IInv, opc # "crashed", NEW t \in Threads, NEW r \in Requests, Wait(t, r)
  PROVE  IInv'
<1> USE DEF Wait, threadVars, appVars, poolVars, offVars, mpiVars, CurrentOp,
            Live, InCall, HasIndex
<1>0. \A u \in Threads : InCall(u) =>
        req[u] \in Requests /\ req[u] # r /\ phase[req[u]] # "active"
  BY DEF IInv, ThreadInv, ThreadOK
<1>1. TypeOK'
  BY <1>0 DEF IInv, TypeOK
<1>2. ThreadInv'
  <2>1. ASSUME NEW u \in Threads
        PROVE  ThreadOK(u)'
    <3>1. CASE u = t
      BY <1>0, <3>1 DEF IInv, TypeOK, ThreadOK
    <3>2. CASE u # t
      BY <1>0, <3>2 DEF IInv, TypeOK, ThreadInv, ThreadOK, Erasing, OwnStatus
    <3> QED
      BY <3>1, <3>2
  <2>2. ASSUME NEW u \in Threads, NEW v \in Threads,
               (InCall(u) /\ InCall(v) /\ req[u] = req[v])'
        PROVE  u = v
    BY <1>0, <2>2 DEF IInv, TypeOK, ThreadInv
  <2> QED
    BY <2>1, <2>2 DEF ThreadInv
<1>3. RequestInv'
  BY <1>0 DEF IInv, RequestInv, RequestOK
<1>4. QueueInv'
  <2>1. ASSUME NEW i \in 1 .. Len(queue)
        PROVE  QueuedOK(queue[i])'
    <3>1. queue[i] \in Commands /\ QueuedOK(queue[i])
      BY QueuedCommand DEF IInv, QueueInv
    <3> QED
      BY <3>1 DEF IInv, TypeOK, QueuedOK, IsCurrent, Hand
  <2> QED
    BY <2>1 DEF IInv, QueueInv
<1>5. HandInv'
  BY <1>0 DEF IInv, HandInv, IsCurrent, CommandOp
<1>6. UsedInv'
  BY <1>0 DEF IInv, UsedInv, FlagInv, Erasing, Holds, UsedOK, FlagOK
<1>7. TestInv'
  BY <1>0 DEF IInv, TestInv, UsedInv, Completed, Outstanding, OwnStatus, TestOK,
      UsedOK
<1>8. FlagInv'
  BY <1>0 DEF IInv, FlagInv, Completed, OwnStatus, FlagOK
<1>9. SlotExclusive'
  BY <1>0 DEF IInv, SlotExclusive, Holds
<1>10. UsedIsTestable'
  BY <1>0 DEF IInv, UsedIsTestable
<1>11. StopInv'
  BY <1>0 DEF IInv, StopInv
<1> QED
  BY <1>1, <1>2, <1>3, <1>4, <1>5, <1>6, <1>7, <1>8, <1>9, <1>10, <1>11 DEF IInv

\* The index that was read is that of the request's own slot: wait.
LEMMA WaitWordStep ==
  ASSUME IInv, opc # "crashed", NEW t \in Threads, WaitWord(t)
  PROVE  IInv'
<1> USE DEF WaitWord, threadVars, appVars, poolVars, offVars, mpiVars,
            CurrentOp, Live, InCall, HasIndex
<1>1. TypeOK'
  BY DEF IInv, TypeOK, RequestInv, ThreadInv, ThreadOK, RequestOK
<1>2. ThreadInv'
  BY DEF IInv, TypeOK, ThreadInv, RequestInv, Erasing, OwnStatus, ThreadOK,
      RequestOK
<1>3. RequestInv'
  BY DEF IInv, RequestInv, RequestOK
<1>4. QueueInv'
  BY DEF IInv, QueueInv, QueuedOK, IsCurrent
<1>5. HandInv'
  BY DEF IInv, HandInv, IsCurrent, CommandOp
<1>6. UsedInv'
  BY DEF IInv, UsedInv, Erasing, Holds, UsedOK
<1>7. TestInv'
  BY DEF IInv, TestInv, UsedInv, Completed, Outstanding, OwnStatus, TestOK,
      UsedOK
<1>8. FlagInv'
  BY DEF IInv, FlagInv, Completed, OwnStatus, FlagOK
<1>9. SlotExclusive'
  BY DEF IInv, SlotExclusive, Holds
<1>10. UsedIsTestable'
  BY DEF IInv, UsedIsTestable
<1>11. StopInv'
  BY DEF IInv, StopInv
<1> QED
  BY <1>1, <1>2, <1>3, <1>4, <1>5, <1>6, <1>7, <1>8, <1>9, <1>10, <1>11 DEF IInv

\* done_ is that of the operation waited for: wait.
LEMMA WaitDoneStep ==
  ASSUME IInv, opc # "crashed", NEW t \in Threads, WaitDone(t)
  PROVE  IInv'
<1> USE DEF WaitDone, threadVars, appVars, poolVars, offVars, mpiVars,
            CurrentOp, Live, InCall, HasIndex
<1>1. TypeOK'
  BY DEF IInv, TypeOK
<1>2. ThreadInv'
  BY DEF IInv, ThreadInv, RequestInv, FlagInv, Erasing, OwnStatus, ThreadOK,
      RequestOK, FlagOK
<1>3. RequestInv'
  BY DEF IInv, RequestInv, RequestOK
<1>4. QueueInv'
  BY DEF IInv, QueueInv, QueuedOK, IsCurrent
<1>5. HandInv'
  BY DEF IInv, HandInv, IsCurrent, CommandOp
<1>6. UsedInv'
  BY DEF IInv, UsedInv, Erasing, Holds, UsedOK
<1>7. TestInv'
  BY DEF IInv, TestInv, UsedInv, Completed, Outstanding, OwnStatus, TestOK,
      UsedOK
<1>8. FlagInv'
  BY DEF IInv, FlagInv, Completed, OwnStatus, FlagOK
<1>9. SlotExclusive'
  BY DEF IInv, SlotExclusive, Holds
<1>10. UsedIsTestable'
  BY DEF IInv, UsedIsTestable
<1>11. StopInv'
  BY DEF IInv, StopInv
<1> QED
  BY <1>1, <1>2, <1>3, <1>4, <1>5, <1>6, <1>7, <1>8, <1>9, <1>10, <1>11 DEF IInv

\* The status copied is that of the operation waited for: wait.
LEMMA WaitCopyStep ==
  ASSUME IInv, opc # "crashed", NEW t \in Threads, WaitCopy(t)
  PROVE  IInv'
<1> USE DEF WaitCopy, threadVars, appVars, poolVars, offVars, mpiVars,
            CurrentOp, Live, InCall, HasIndex
<1>0. /\ req[t] \in Requests /\ phase[req[t]] = "busy"
      /\ idx[t] = word[req[t]] /\ idx[t] \in Usable
      /\ \A u \in Threads : InCall(u) /\ u # t => req[u] \in Requests /\ req[u] # req[t]
  BY DEF IInv, ThreadInv, ThreadOK
<1>1. TypeOK'
  BY <1>0 DEF IInv, TypeOK
<1>2. ThreadInv'
  BY <1>0 DEF IInv, TypeOK, ThreadInv, FlagInv, Completed, Erasing, OwnStatus,
      ThreadOK, FlagOK
<1>3. RequestInv'
  BY <1>0 DEF IInv, RequestInv, RequestOK
<1>4. QueueInv'
  BY <1>0 DEF IInv, QueueInv, QueuedOK, IsCurrent
<1>5. HandInv'
  BY <1>0 DEF IInv, HandInv, IsCurrent, CommandOp
<1>6. UsedInv'
  BY <1>0 DEF IInv, UsedInv, Erasing, Holds, UsedOK
<1>7. TestInv'
  BY <1>0 DEF IInv, TestInv, UsedInv, Completed, Outstanding, OwnStatus, TestOK,
      UsedOK
<1>8. FlagInv'
  BY <1>0 DEF IInv, FlagInv, Completed, OwnStatus, FlagOK
<1>9. SlotExclusive'
  BY <1>0 DEF IInv, SlotExclusive, Holds
<1>10. UsedIsTestable'
  BY <1>0 DEF IInv, UsedIsTestable
<1>11. StopInv'
  BY <1>0 DEF IInv, StopInv
<1> QED
  BY <1>1, <1>2, <1>3, <1>4, <1>5, <1>6, <1>7, <1>8, <1>9, <1>10, <1>11 DEF IInv

\* Nothing sets done_ again once it has been cleared: wait.
LEMMA WaitClearStep ==
  ASSUME IInv, opc # "crashed", NEW t \in Threads, WaitClear(t)
  PROVE  IInv'
<1> USE DEF WaitClear, threadVars, appVars, poolVars, offVars, mpiVars,
            CurrentOp, Live, InCall, HasIndex
<1>0. /\ req[t] \in Requests /\ phase[req[t]] = "busy"
      /\ idx[t] = word[req[t]] /\ idx[t] \in Usable
      /\ \A u \in Threads : InCall(u) /\ u # t => req[u] \in Requests /\ req[u] # req[t]
  BY DEF IInv, ThreadInv, ThreadOK
<1>a. \A u \in Threads : HasIndex(u) /\ u # t => idx[u] # idx[t]
  BY IndexDistinct DEF HasIndex
<1>1. TypeOK'
  BY <1>0 DEF IInv, TypeOK
<1>2. ThreadInv'
  <2>1. ThreadOK(t)'
    <3>1. done[idx[t]] /\ Completed(req[t], idx[t])
      BY <1>0 DEF IInv, ThreadInv, ThreadOK, FlagInv, FlagOK
    <3>2. \A i \in 1 .. Len(used) : used[i] = idx[t] => Erasing(i)
      BY <3>1 DEF IInv, UsedInv, UsedOK
    <3> QED
      BY <1>0, <3>1, <3>2 DEF IInv, TypeOK, ThreadInv, ThreadOK, Completed, Erasing, OwnStatus
  <2>2. ASSUME NEW u \in Threads, u # t
        PROVE  ThreadOK(u)'
    BY <1>0, <1>a, <2>2 DEF IInv, TypeOK, ThreadInv, ThreadOK, Erasing, OwnStatus
  <2>3. \A u, v \in Threads : (InCall(u) /\ InCall(v) /\ req[u] = req[v] => u = v)'
    BY <1>0 DEF IInv, TypeOK, ThreadInv
  <2> QED
    BY <2>1, <2>2, <2>3 DEF ThreadInv
<1>3. RequestInv'
  BY <1>0 DEF IInv, RequestInv, RequestOK
<1>4. QueueInv'
  BY <1>0 DEF IInv, QueueInv, QueuedOK, IsCurrent
<1>5. HandInv'
  BY <1>0 DEF IInv, HandInv, IsCurrent, CommandOp
<1>6. UsedInv'
  BY <1>0 DEF IInv, UsedInv, RequestInv, Erasing, Holds, UsedOK, RequestOK
<1>7. TestInv'
  BY <1>0 DEF IInv, TestInv, UsedInv, Completed, Outstanding, OwnStatus, TestOK,
      UsedOK
<1>8. FlagInv'
  BY <1>0 DEF IInv, FlagInv, Completed, OwnStatus, FlagOK
<1>9. SlotExclusive'
  BY <1>0 DEF IInv, SlotExclusive, Holds
<1>10. UsedIsTestable'
  BY <1>0 DEF IInv, UsedIsTestable
<1>11. StopInv'
  BY <1>0 DEF IInv, StopInv
<1> QED
  BY <1>1, <1>2, <1>3, <1>4, <1>5, <1>6, <1>7, <1>8, <1>9, <1>10, <1>11 DEF IInv

\* The slot given back is of no use to anyone else: wait.
LEMMA WaitReleaseStep ==
  ASSUME IInv, opc # "crashed", NEW t \in Threads, WaitRelease(t)
  PROVE  IInv'
<1> USE DEF WaitRelease, threadVars, appVars, poolVars, offVars, mpiVars,
            CurrentOp, Live, InCall, HasIndex, ReturnToApp, Inactive,
            Pool!Release, Pool!Slots
<1>0. /\ req[t] \in Requests /\ phase[req[t]] = "busy"
      /\ idx[t] = word[req[t]] /\ idx[t] \in Usable
      /\ \A u \in Threads : InCall(u) /\ u # t => req[u] \in Requests /\ req[u] # req[t]
  BY DEF IInv, ThreadInv, ThreadOK
<1>b. /\ opc \in HasSlot => slot # idx[t]
      /\ opc \in Hand => command.request # req[t]
      /\ \A i \in 1 .. Len(used) : used[i] = idx[t] => Erasing(i)
  BY TakenIsNotInHand
<1>1. TypeOK'
  BY <1>0 DEF IInv, TypeOK
<1>2. ThreadInv'
  <2>1. ASSUME NEW u \in Threads
        PROVE  ThreadOK(u)'
    <3>1. CASE u = t
      BY <1>0, <3>1 DEF IInv, TypeOK, ThreadOK
    <3>2. CASE u # t
      BY <1>0, <3>2 DEF IInv, TypeOK, ThreadInv, ThreadOK, Erasing, OwnStatus
    <3> QED
      BY <3>1, <3>2
  <2>2. ASSUME NEW u \in Threads, NEW v \in Threads,
               (InCall(u) /\ InCall(v) /\ req[u] = req[v])'
        PROVE  u = v
    BY <1>0, <2>2 DEF IInv, TypeOK, ThreadInv
  <2> QED
    BY <2>1, <2>2 DEF ThreadInv
<1>3. RequestInv'
  BY <1>0 DEF IInv, RequestInv, RequestOK
<1>4. QueueInv'
  BY <1>0 DEF IInv, QueueInv, QueuedOK, IsCurrent
<1>5. HandInv'
  BY <1>0, <1>b DEF IInv, HandInv, IsCurrent, CommandOp
<1>6. UsedInv'
  <2>1. ASSUME NEW i \in 1 .. Len(used)
        PROVE  UsedOK(i)'
    <3>1. UsedOK(i) /\ (used[i] = idx[t] => Erasing(i))
      BY <1>b DEF IInv, UsedInv
    <3>2. \A r \in Requests : Holds(r, used[i]) /\ used[i] # idx[t] => Holds(r, used[i])'
      BY <1>0 DEF IInv, TypeOK, Holds
    <3> QED
      BY <3>1, <3>2 DEF UsedOK, Erasing
  <2> QED
    BY <2>1 DEF IInv, UsedInv
<1>7. TestInv'
  BY <1>0 DEF IInv, TestInv, UsedInv, Completed, Outstanding, OwnStatus, TestOK,
      UsedOK
<1>8. FlagInv'
  <2>1. ~done[idx[t]]
    BY DEF IInv, ThreadInv, ThreadOK
  <2>2. ASSUME NEW s \in Usable
        PROVE  FlagOK(s)'
    BY <1>0, <2>1, <2>2 DEF IInv, TypeOK, FlagInv, FlagOK, Completed, OwnStatus
  <2> QED
    BY <2>2 DEF FlagInv
<1>9. SlotExclusive'
  BY <1>0 DEF IInv, TypeOK, SlotExclusive, Holds, HandInv, Hand
<1>10. UsedIsTestable'
  BY <1>0 DEF IInv, UsedIsTestable
<1>11. StopInv'
  BY <1>0 DEF IInv, StopInv, ThreadInv, ThreadOK
<1> QED
  BY <1>1, <1>2, <1>3, <1>4, <1>5, <1>6, <1>7, <1>8, <1>9, <1>10, <1>11 DEF IInv

\* The testing thread is the only one in a call with its request: test.
LEMMA TestStep ==
  ASSUME IInv, opc # "crashed", NEW t \in Threads, NEW r \in Requests, Test(t, r)
  PROVE  IInv'
<1> USE DEF Test, threadVars, appVars, poolVars, offVars, mpiVars, CurrentOp,
            Live, InCall, HasIndex
<1>0. \A u \in Threads : InCall(u) =>
        req[u] \in Requests /\ req[u] # r /\ phase[req[u]] # "active"
  BY DEF IInv, ThreadInv, ThreadOK
<1>1. TypeOK'
  BY <1>0 DEF IInv, TypeOK
<1>2. ThreadInv'
  <2>1. ASSUME NEW u \in Threads
        PROVE  ThreadOK(u)'
    <3>1. CASE u = t
      BY <1>0, <3>1 DEF IInv, TypeOK, ThreadOK, RequestInv, RequestOK
    <3>2. CASE u # t
      BY <1>0, <3>2 DEF IInv, TypeOK, ThreadInv, ThreadOK, Erasing, OwnStatus
    <3> QED
      BY <3>1, <3>2
  <2>2. ASSUME NEW u \in Threads, NEW v \in Threads,
               (InCall(u) /\ InCall(v) /\ req[u] = req[v])'
        PROVE  u = v
    BY <1>0, <2>2 DEF IInv, TypeOK, ThreadInv
  <2> QED
    BY <2>1, <2>2 DEF ThreadInv
<1>3. RequestInv'
  BY <1>0 DEF IInv, RequestInv, RequestOK
<1>4. QueueInv'
  <2>1. ASSUME NEW i \in 1 .. Len(queue)
        PROVE  QueuedOK(queue[i])'
    <3>1. queue[i] \in Commands /\ QueuedOK(queue[i])
      BY QueuedCommand DEF IInv, QueueInv
    <3> QED
      BY <3>1 DEF IInv, TypeOK, QueuedOK, IsCurrent, Hand
  <2> QED
    BY <2>1 DEF IInv, QueueInv
<1>5. HandInv'
  BY <1>0 DEF IInv, HandInv, IsCurrent, CommandOp
<1>6. UsedInv'
  BY <1>0 DEF IInv, UsedInv, Erasing, Holds, UsedOK
<1>7. TestInv'
  BY <1>0 DEF IInv, TestInv, UsedInv, Completed, Outstanding, OwnStatus, TestOK,
      UsedOK
<1>8. FlagInv'
  BY <1>0 DEF IInv, FlagInv, Completed, OwnStatus, FlagOK
<1>9. SlotExclusive'
  BY <1>0 DEF IInv, SlotExclusive, Holds
<1>10. UsedIsTestable'
  BY <1>0 DEF IInv, UsedIsTestable
<1>11. StopInv'
  BY <1>0 DEF IInv, StopInv
<1> QED
  BY <1>1, <1>2, <1>3, <1>4, <1>5, <1>6, <1>7, <1>8, <1>9, <1>10, <1>11 DEF IInv

\* The request is active again: test.
LEMMA TestFalseStep ==
  ASSUME IInv, opc # "crashed", NEW t \in Threads, TestFalse(t)
  PROVE  IInv'
<1> USE DEF TestFalse, threadVars, appVars, poolVars, offVars, mpiVars,
            CurrentOp, Live, InCall, HasIndex, ReturnToApp
<1>0. /\ req[t] \in Requests /\ phase[req[t]] = "busy"
      /\ idx[t] = word[req[t]] /\ idx[t] \in Usable
      /\ \A u \in Threads : InCall(u) /\ u # t => req[u] \in Requests /\ req[u] # req[t]
  BY DEF IInv, ThreadInv, ThreadOK
<1>1. TypeOK'
  BY <1>0 DEF IInv, TypeOK
<1>2. ThreadInv'
  <2>1. ASSUME NEW u \in Threads
        PROVE  ThreadOK(u)'
    <3>1. CASE u = t
      BY <1>0, <3>1 DEF IInv, TypeOK, ThreadOK
    <3>2. CASE u # t
      BY <1>0, <3>2 DEF IInv, TypeOK, ThreadInv, ThreadOK, Erasing, OwnStatus
    <3> QED
      BY <3>1, <3>2
  <2>2. ASSUME NEW u \in Threads, NEW v \in Threads,
               (InCall(u) /\ InCall(v) /\ req[u] = req[v])'
        PROVE  u = v
    BY <1>0, <2>2 DEF IInv, TypeOK, ThreadInv
  <2> QED
    BY <2>1, <2>2 DEF ThreadInv
<1>3. RequestInv'
  BY <1>0 DEF IInv, RequestInv, RequestOK
<1>4. QueueInv'
  BY <1>0 DEF IInv, QueueInv, QueuedOK, IsCurrent
<1>5. HandInv'
  BY <1>0 DEF IInv, HandInv, IsCurrent, CommandOp
<1>6. UsedInv'
  BY <1>0 DEF IInv, UsedInv, Erasing, Holds, UsedOK
<1>7. TestInv'
  BY <1>0 DEF IInv, TypeOK, TestInv, UsedInv, Completed, Outstanding, OwnStatus,
      TestOK, UsedOK
<1>8. FlagInv'
  BY <1>0 DEF IInv, FlagInv, Completed, OwnStatus, FlagOK
<1>9. SlotExclusive'
  BY <1>0 DEF IInv, SlotExclusive, Holds
<1>10. UsedIsTestable'
  BY <1>0 DEF IInv, UsedIsTestable
<1>11. StopInv'
  BY <1>0 DEF IInv, StopInv
<1> QED
  BY <1>1, <1>2, <1>3, <1>4, <1>5, <1>6, <1>7, <1>8, <1>9, <1>10, <1>11 DEF IInv

\* done_ is that of the operation tested: test.
LEMMA TestFlagStep ==
  ASSUME IInv, opc # "crashed", NEW t \in Threads, TestFlag(t)
  PROVE  IInv'
<1> USE DEF TestFlag, threadVars, appVars, poolVars, offVars, mpiVars,
            CurrentOp, Live, InCall, HasIndex
<1>1. TypeOK'
  BY DEF IInv, TypeOK
<1>2. ThreadInv'
  BY DEF IInv, ThreadInv, RequestInv, FlagInv, Erasing, OwnStatus, ThreadOK,
      RequestOK, FlagOK
<1>3. RequestInv'
  BY DEF IInv, RequestInv, RequestOK
<1>4. QueueInv'
  BY DEF IInv, QueueInv, QueuedOK, IsCurrent
<1>5. HandInv'
  BY DEF IInv, HandInv, IsCurrent, CommandOp
<1>6. UsedInv'
  BY DEF IInv, UsedInv, Erasing, Holds, UsedOK
<1>7. TestInv'
  BY DEF IInv, TestInv, UsedInv, Completed, Outstanding, OwnStatus, TestOK,
      UsedOK
<1>8. FlagInv'
  BY DEF IInv, FlagInv, Completed, OwnStatus, FlagOK
<1>9. SlotExclusive'
  BY DEF IInv, SlotExclusive, Holds
<1>10. UsedIsTestable'
  BY DEF IInv, UsedIsTestable
<1>11. StopInv'
  BY DEF IInv, StopInv
<1> QED
  BY <1>1, <1>2, <1>3, <1>4, <1>5, <1>6, <1>7, <1>8, <1>9, <1>10, <1>11 DEF IInv

\* The operation of the request is over, its slot stays out of the pool: test.
LEMMA TestTrueStep ==
  ASSUME IInv, opc # "crashed", NEW t \in Threads, TestTrue(t)
  PROVE  IInv'
<1> USE DEF TestTrue, threadVars, appVars, poolVars, offVars, mpiVars,
            CurrentOp, Live, InCall, HasIndex, ReturnToApp, Inactive
<1>0. /\ req[t] \in Requests /\ phase[req[t]] = "busy"
      /\ idx[t] = word[req[t]] /\ idx[t] \in Usable
      /\ \A u \in Threads : InCall(u) /\ u # t => req[u] \in Requests /\ req[u] # req[t]
  BY DEF IInv, ThreadInv, ThreadOK
<1>b. /\ opc \in HasSlot => slot # idx[t]
      /\ opc \in Hand => command.request # req[t]
      /\ \A i \in 1 .. Len(used) : used[i] = idx[t] => Erasing(i)
  BY TakenIsNotInHand
<1>1. TypeOK'
  BY <1>0 DEF IInv, TypeOK
<1>2. ThreadInv'
  <2>1. ASSUME NEW u \in Threads
        PROVE  ThreadOK(u)'
    <3>1. CASE u = t
      BY <1>0, <3>1 DEF IInv, TypeOK, ThreadOK
    <3>2. CASE u # t
      BY <1>0, <3>2 DEF IInv, TypeOK, ThreadInv, ThreadOK, Erasing, OwnStatus
    <3> QED
      BY <3>1, <3>2
  <2>2. ASSUME NEW u \in Threads, NEW v \in Threads,
               (InCall(u) /\ InCall(v) /\ req[u] = req[v])'
        PROVE  u = v
    BY <1>0, <2>2 DEF IInv, TypeOK, ThreadInv
  <2> QED
    BY <2>1, <2>2 DEF ThreadInv
<1>3. RequestInv'
  BY <1>0 DEF IInv, RequestInv, RequestOK
<1>4. QueueInv'
  BY <1>0 DEF IInv, QueueInv, QueuedOK, IsCurrent
<1>5. HandInv'
  BY <1>0, <1>b DEF IInv, HandInv, IsCurrent, CommandOp
<1>6. UsedInv'
  <2>1. ASSUME NEW i \in 1 .. Len(used)
        PROVE  UsedOK(i)'
    <3>1. UsedOK(i) /\ (used[i] = idx[t] => Erasing(i))
      BY <1>b DEF IInv, UsedInv
    <3>2. \A r \in Requests : Holds(r, used[i]) /\ used[i] # idx[t] => Holds(r, used[i])'
      BY <1>0 DEF IInv, TypeOK, Holds
    <3> QED
      BY <3>1, <3>2 DEF UsedOK, Erasing
  <2> QED
    BY <2>1 DEF IInv, UsedInv
<1>7. TestInv'
  BY <1>0 DEF IInv, TestInv, UsedInv, Completed, Outstanding, OwnStatus, TestOK,
      UsedOK
<1>8. FlagInv'
  BY <1>0 DEF IInv, FlagInv, Completed, OwnStatus, FlagOK
<1>9. SlotExclusive'
  BY <1>0 DEF IInv, SlotExclusive, Holds
<1>10. UsedIsTestable'
  BY <1>0 DEF IInv, UsedIsTestable
<1>11. StopInv'
  <2>1. CallsMayFail \/ CurrentOp(req[t]) \in finished
    BY <1>0 DEF IInv, ThreadInv, ThreadOK, FlagInv, FlagOK, Completed
  <2> QED
    BY <1>0, <2>1 DEF IInv, TypeOK, StopInv
<1> QED
  BY <1>1, <1>2, <1>3, <1>4, <1>5, <1>6, <1>7, <1>8, <1>9, <1>10, <1>11 DEF IInv

\* No operation is outstanding when finalize begins: stop.
LEMMA StopStep ==
  ASSUME IInv, opc # "crashed", NEW t \in Threads, Stop(t)
  PROVE  IInv'
<1> USE DEF Stop, threadVars, appVars, poolVars, offVars, mpiVars, CurrentOp,
            Live, InCall, HasIndex
<1>1. TypeOK'
  BY DEF IInv, TypeOK
<1>2. ThreadInv'
  BY DEF IInv, ThreadInv, ThreadOK
<1>3. RequestInv'
  BY DEF IInv, RequestInv, RequestOK
<1>4. QueueInv'
  BY DEF IInv, QueueInv, QueuedOK, IsCurrent
<1>5. HandInv'
  BY DEF IInv, HandInv, IsCurrent, CommandOp
<1>6. UsedInv'
  BY DEF IInv, UsedInv, Erasing, Holds, UsedOK
<1>7. TestInv'
  BY DEF IInv, TestInv, TestOK
<1>8. FlagInv'
  BY DEF IInv, FlagInv, FlagOK
<1>9. SlotExclusive'
  BY DEF IInv, SlotExclusive, Holds
<1>10. UsedIsTestable'
  BY DEF IInv, UsedIsTestable
<1>11. StopInv'
  BY DEF IInv, StopInv
<1> QED
  BY <1>1, <1>2, <1>3, <1>4, <1>5, <1>6, <1>7, <1>8, <1>9, <1>10, <1>11 DEF IInv

\* Nothing but the thread's own place changes: stop.
LEMMA JoinStep ==
  ASSUME IInv, opc # "crashed", NEW t \in Threads, Join(t)
  PROVE  IInv'
<1> USE DEF Join, threadVars, appVars, poolVars, offVars, mpiVars, CurrentOp,
            Live, InCall, HasIndex
<1>1. TypeOK'
  BY DEF IInv, TypeOK
<1>2. ThreadInv'
  BY DEF IInv, ThreadInv, Erasing, OwnStatus, ThreadOK
<1>3. RequestInv'
  BY DEF IInv, RequestInv, RequestOK
<1>4. QueueInv'
  BY DEF IInv, QueueInv, QueuedOK, IsCurrent
<1>5. HandInv'
  BY DEF IInv, HandInv, IsCurrent, CommandOp
<1>6. UsedInv'
  BY DEF IInv, UsedInv, Erasing, Holds, UsedOK
<1>7. TestInv'
  BY DEF IInv, TypeOK, TestInv, UsedInv, Outstanding, TestOK, UsedOK
<1>8. FlagInv'
  BY DEF IInv, FlagInv, Completed, OwnStatus, FlagOK
<1>9. SlotExclusive'
  BY DEF IInv, SlotExclusive, Holds
<1>10. UsedIsTestable'
  BY DEF IInv, UsedIsTestable
<1>11. StopInv'
  BY DEF IInv, StopInv
<1> QED
  BY <1>1, <1>2, <1>3, <1>4, <1>5, <1>6, <1>7, <1>8, <1>9, <1>10, <1>11 DEF IInv

-----------------------------------------------------------------------------
(***************************************************************************)
(* The offload thread and the MPI library                                  *)
(***************************************************************************)

\* The loop is left only when running_ is clear: run.
LEMMA LoopStep ==
  ASSUME IInv, Loop
  PROVE  IInv'
<1> USE DEF Loop, threadVars, appVars, poolVars, offVars, mpiVars, CurrentOp,
            Live, InCall, HasIndex, AppUnchanged
<1>1. TypeOK'
  BY DEF IInv, TypeOK
<1>2. ThreadInv'
  BY DEF IInv, ThreadInv, Erasing, OwnStatus, ThreadOK
<1>3. RequestInv'
  BY DEF IInv, RequestInv, RequestOK
<1>4. QueueInv'
  BY DEF IInv, QueueInv, IsCurrent, Hand, QueuedOK
<1>5. HandInv'
  BY DEF IInv, HandInv, IsCurrent, CommandOp, Hand, HasSlot
<1>6. UsedInv'
  BY DEF IInv, UsedInv, Erasing, Holds, UsedOK
<1>7. TestInv'
  BY DEF IInv, TestInv, UsedInv, Outstanding, TestOK, UsedOK
<1>8. FlagInv'
  BY DEF IInv, FlagInv, Completed, OwnStatus, FlagOK
<1>9. SlotExclusive'
  BY DEF IInv, SlotExclusive, Holds
<1>10. UsedIsTestable'
  BY DEF IInv, UsedIsTestable
<1>11. StopInv'
  BY DEF IInv, StopInv
<1> QED
  BY <1>1, <1>2, <1>3, <1>4, <1>5, <1>6, <1>7, <1>8, <1>9, <1>10, <1>11 DEF IInv

\* The oldest command is taken in hand: poll_and_test.
LEMMA DequeueStep ==
  ASSUME IInv, Dequeue
  PROVE  IInv'
<1> USE DEF Dequeue, threadVars, appVars, poolVars, offVars, mpiVars, CurrentOp,
            Live, InCall, HasIndex, AppUnchanged, Queue!Dequeue
<1>0. /\ queue # << >> /\ command' = Head(queue) /\ queue' = Tail(queue)
      /\ command' \in Commands /\ QueuedOK(command') /\ command' = queue[1]
  BY QueuedCommand DEF IInv, TypeOK, QueueInv
<1>a. /\ Len(queue') = Len(queue) - 1
      /\ \A i \in 1 .. Len(queue') : i + 1 \in 1 .. Len(queue) /\ queue'[i] = queue[i + 1]
  BY <1>0 DEF IInv, TypeOK
<1>1. TypeOK'
  BY <1>0 DEF IInv, TypeOK
<1>2. ThreadInv'
  BY <1>0 DEF IInv, ThreadInv, Erasing, OwnStatus, ThreadOK
<1>3. RequestInv'
  BY <1>0 DEF IInv, RequestInv, RequestOK
<1>4. QueueInv'
  <2>1. ASSUME NEW i \in 1 .. Len(queue')
        PROVE  QueuedOK(queue[i])'
    <3>1. i + 1 \in 1 .. Len(queue) /\ queue'[i] = queue[i + 1] /\ QueuedOK(queue[i + 1])
      BY <1>a DEF IInv, QueueInv
    <3>2. queue'[i].request # command'.request
      <4>1. 1 \in 1 .. Len(queue) /\ i + 1 # 1
        BY <1>0 DEF IInv, TypeOK
      <4> QED
        BY <1>0, <3>1, <4>1 DEF IInv, QueueInv
    <3> QED
      BY <3>1, <3>2 DEF QueuedOK, IsCurrent
  <2>2. \A i, j \in 1 .. Len(queue') : queue'[i].request = queue'[j].request => i = j
    BY <1>a DEF IInv, TypeOK, QueueInv
  <2> QED
    BY <2>1, <2>2 DEF QueueInv
<1>5. HandInv'
  <2>1. /\ command'.request \in Requests /\ IsCurrent(command')
        /\ word[command'.request] = INVALID_INDEX
        /\ <<command'.request, command'.post>> \notin started
    BY <1>0 DEF QueuedOK, IsCurrent
  <2> QED
    BY <1>0, <2>1 DEF HandInv, IsCurrent, CommandOp, Hand, HasSlot
<1>6. UsedInv'
  BY <1>0 DEF IInv, UsedInv, Erasing, Holds, UsedOK
<1>7. TestInv'
  BY <1>0 DEF IInv, TypeOK, TestInv, UsedInv, Outstanding, TestOK, UsedOK
<1>8. FlagInv'
  BY <1>0 DEF IInv, FlagInv, Completed, OwnStatus, FlagOK
<1>9. SlotExclusive'
  BY <1>0 DEF IInv, SlotExclusive, Holds
<1>10. UsedIsTestable'
  BY <1>0 DEF IInv, UsedIsTestable
<1>11. StopInv'
  BY <1>0 DEF IInv, StopInv
<1> QED
  BY <1>1, <1>2, <1>3, <1>4, <1>5, <1>6, <1>7, <1>8, <1>9, <1>10, <1>11 DEF IInv

\* The scan begins: poll_and_test.
LEMMA DequeueNoneStep ==
  ASSUME IInv, DequeueNone
  PROVE  IInv'
<1> USE DEF DequeueNone, threadVars, appVars, poolVars, offVars, mpiVars,
            CurrentOp, Live, InCall, HasIndex, AppUnchanged, Queue!DequeueNone
<1>1. TypeOK'
  BY DEF IInv, TypeOK
<1>2. ThreadInv'
  BY DEF IInv, ThreadInv, Erasing, OwnStatus, ThreadOK
<1>3. RequestInv'
  BY DEF IInv, RequestInv, RequestOK
<1>4. QueueInv'
  BY DEF IInv, QueueInv, QueuedOK, IsCurrent
<1>5. HandInv'
  BY DEF IInv, HandInv, IsCurrent, CommandOp, Hand, HasSlot
<1>6. UsedInv'
  BY DEF IInv, UsedInv, Erasing, Holds, UsedOK
<1>7. TestInv'
  BY DEF IInv, TypeOK, TestInv, UsedInv, Outstanding, TestOK, UsedOK
<1>8. FlagInv'
  BY DEF IInv, FlagInv, Completed, OwnStatus, FlagOK
<1>9. SlotExclusive'
  BY DEF IInv, SlotExclusive, Holds
<1>10. UsedIsTestable'
  BY DEF IInv, UsedIsTestable
<1>11. StopInv'
  BY DEF IInv, StopInv
<1> QED
  BY <1>1, <1>2, <1>3, <1>4, <1>5, <1>6, <1>7, <1>8, <1>9, <1>10, <1>11 DEF IInv

\* The slot acquired works for no other request: post, acquire.
LEMMA AcquireStep ==
  ASSUME IInv, Acquire
  PROVE  IInv'
<1> USE DEF Acquire, threadVars, appVars, poolVars, offVars, mpiVars, CurrentOp,
            Live, InCall, HasIndex, AppUnchanged, Pool!Acquire
<1>0. PICK s \in Slots : s \in free /\ free' = free \ {s} /\ slot' = s /\ used' = Cons(s, used)
  OBVIOUS
<1>a. /\ s \in Usable
      /\ used' \in Seq(Usable \cup {INVALID_INDEX})
      /\ Len(used') = Len(used) + 1 /\ Len(used) \in Nat /\ used'[1] = s
      /\ \A i \in 1 .. Len(used') :
            i = 1 \/ (i - 1 \in 1 .. Len(used) /\ used'[i] = used[i - 1])
  <2>1. s \in Usable
    BY <1>0 DEF IInv, TypeOK
  <2> QED
    BY <1>0, <2>1, UsedPushed DEF IInv
<1>b. /\ \A i \in 1 .. Len(used) : used[i] # s /\ UsedOK(i)
      /\ \A u \in Threads : HasIndex(u) => idx[u] # s
      /\ ~done[s]
  <2>1. \A u \in Threads : HasIndex(u) => idx[u] # s
    BY <1>0, <1>a, IndexFacts DEF IInv, SlotExclusive, HasIndex
  <2>2. \A i \in 1 .. Len(used) : used[i] # s /\ UsedOK(i)
    BY <1>0 DEF IInv, UsedInv, UsedOK, Erasing
  <2>3. ~done[s]
    BY <1>0, <1>a DEF IInv, FlagInv, FlagOK
  <2> QED
    BY <2>1, <2>2, <2>3
<1> HIDE DEF Acquire
<1>c. /\ opc = "acquire" /\ opc' = "reset" /\ AppUnchanged
      /\ UNCHANGED <<word, queue, done, statuses, requests, command, it, mpiVars>>
  BY DEF Acquire
<1>1. TypeOK'
  BY <1>0, <1>a, <1>c DEF IInv, TypeOK
<1>2. ThreadInv'
  <2>1. ASSUME NEW u \in Threads
        PROVE  ThreadOK(u)'
    <3>1. ASSUME HasIndex(u), NEW i \in 1 .. Len(used'), used'[i] = idx[u]
          PROVE  i - 1 \in 1 .. Len(used) /\ used[i - 1] = idx[u]
      BY <1>a, <1>b, <3>1
    <3>2. ~\E i \in 1 .. Len(used) : Erasing(i)
      BY <1>c DEF Erasing
    <3> QED
      BY <1>c, <3>1, <3>2 DEF IInv, TypeOK, ThreadInv, ThreadOK, OwnStatus
  <2> QED
    BY <1>c, <2>1 DEF IInv, ThreadInv
<1>3. RequestInv'
  BY <1>0, <1>a, <1>b, <1>c DEF IInv, RequestInv, RequestOK
<1>4. QueueInv'
  BY <1>0, <1>a, <1>b, <1>c DEF IInv, QueueInv, IsCurrent, Hand, QueuedOK
<1>5. HandInv'
  BY <1>0, <1>a, <1>c DEF IInv, HandInv, IsCurrent, CommandOp, Hand
<1>6. UsedInv'
  <2>1. ASSUME NEW i \in 1 .. Len(used')
        PROVE  UsedOK(i)'
    <3>1. CASE i = 1
      <4>1. command.request \in Requests
        BY <1>c DEF IInv, HandInv, Hand
      <4>2. Holds(command.request, s)'
        BY <1>0, <1>c DEF Holds
      <4> QED
        BY <1>0, <1>a, <1>b, <1>c, <3>1, <4>1, <4>2 DEF UsedOK, Erasing
    <3>2. CASE i # 1
      <4>1. i - 1 \in 1 .. Len(used) /\ used'[i] = used[i - 1] /\ UsedOK(i - 1)
        BY <1>a, <1>b, <3>2
      <4>2. \A r \in Requests : Holds(r, used[i - 1]) => Holds(r, used[i])'
        BY <1>c, <4>1 DEF Holds
      <4> QED
        BY <1>0, <1>a, <1>b, <1>c, <4>1, <4>2 DEF UsedOK, Erasing
    <3> QED
      BY <3>1, <3>2
  <2>2. ASSUME NEW i \in 1 .. Len(used'), NEW j \in 1 .. Len(used'), used'[i] = used'[j]
        PROVE  i = j
    <3>1. \A k \in 1 .. Len(used), l \in 1 .. Len(used) : used[k] = used[l] => k = l
      BY DEF IInv, UsedInv
    <3>2. i = 1 <=> j = 1
      BY <1>a, <1>b, <2>2
    <3> QED
      BY <1>a, <2>2, <3>1, <3>2
  <2> QED
    BY <1>c, <2>1, <2>2 DEF UsedInv
<1>7. TestInv'
  <2>1. ASSUME NEW i \in 1 .. Len(used'), NEW r \in Requests, (Live(r) /\ word[r] = used[i])'
        PROVE  TestOK(i, r)'
    <3>1. i # 1
      BY <1>0, <1>a, <1>c, <2>1 DEF IInv, SlotExclusive, Holds
    <3>2. i - 1 \in 1 .. Len(used) /\ used'[i] = used[i - 1]
      BY <1>a, <3>1
    <3>3. Outstanding(r, used[i - 1])
      BY <1>c, <2>1, <3>2 DEF IInv, TestInv, TestOK
    <3> QED
      BY <1>c, <3>1, <3>2, <3>3 DEF TestOK, Outstanding
  <2> QED
    BY <2>1 DEF TestInv
<1>8. FlagInv'
  BY <1>0, <1>a, <1>b, <1>c DEF IInv, FlagInv, Completed, OwnStatus, FlagOK
<1>9. SlotExclusive'
  BY <1>0, <1>a, <1>b, <1>c DEF IInv, SlotExclusive, Holds
<1>10. UsedIsTestable'
  BY <1>a, <1>c DEF IInv, UsedIsTestable
<1>11. StopInv'
  BY <1>0, <1>a, <1>b, <1>c DEF IInv, StopInv
<1> QED
  BY <1>1, <1>2, <1>3, <1>4, <1>5, <1>6, <1>7, <1>8, <1>9, <1>10, <1>11 DEF IInv

\* The process is about to die: post, acquire.
LEMMA AcquireNoneStep ==
  ASSUME IInv, AcquireNone
  PROVE  IInv'
<1> USE DEF AcquireNone, threadVars, appVars, poolVars, offVars, mpiVars,
            CurrentOp, Live, InCall, HasIndex, AppUnchanged, Pool!AcquireNone
<1>0. /\ used' \in Seq(Usable \cup {INVALID_INDEX})
      /\ Len(used') = Len(used) + 1 /\ Len(used) \in Nat /\ used'[1] = INVALID_INDEX
      /\ \A i \in 1 .. Len(used') :
            i = 1 \/ (i - 1 \in 1 .. Len(used) /\ used'[i] = used[i - 1])
  BY UsedPushed DEF IInv
<1>b. /\ \A i \in 1 .. Len(used) : used[i] # INVALID_INDEX
      /\ \A u \in Threads : HasIndex(u) => idx[u] # INVALID_INDEX
  BY IndexFacts DEF IInv, UsedInv, UsedOK, HasIndex
<1>1. TypeOK'
  BY <1>0 DEF IInv, TypeOK
<1>2. ThreadInv'
  <2>1. ASSUME NEW u \in Threads
        PROVE  ThreadOK(u)'
    <3>1. ASSUME HasIndex(u), NEW i \in 1 .. Len(used'), used'[i] = idx[u]
          PROVE  i - 1 \in 1 .. Len(used) /\ used[i - 1] = idx[u]
      BY <1>0, <1>b, <3>1
    <3>2. ~\E i \in 1 .. Len(used) : Erasing(i)
      BY DEF Erasing
    <3> QED
      BY <3>1, <3>2 DEF IInv, TypeOK, ThreadInv, ThreadOK, OwnStatus
  <2> QED
    BY <2>1 DEF IInv, ThreadInv
<1>3. RequestInv'
  BY <1>0 DEF IInv, RequestInv, RequestOK
<1>4. QueueInv'
  BY <1>0 DEF IInv, QueueInv, IsCurrent, Hand, QueuedOK
<1>5. HandInv'
  BY <1>0 DEF IInv, HandInv, IsCurrent, CommandOp, Hand, HasSlot
<1>6. UsedInv'
  <2>1. \A i, j \in 1 .. Len(used') : used'[i] = used'[j] => i = j
    BY <1>0, <1>b DEF IInv, UsedInv
  <2> QED
    BY <2>1 DEF UsedInv
<1>7. TestInv'
  BY <1>0 DEF IInv, TestInv, TestOK
<1>8. FlagInv'
  BY <1>0 DEF IInv, FlagInv, Completed, OwnStatus, FlagOK
<1>9. SlotExclusive'
  BY <1>0 DEF IInv, SlotExclusive, Holds
<1>10. UsedIsTestable'
  BY SMTT(30), <1>0 DEF IInv, UsedIsTestable
<1>11. StopInv'
  BY <1>0 DEF IInv, StopInv
<1> QED
  BY <1>1, <1>2, <1>3, <1>4, <1>5, <1>6, <1>7, <1>8, <1>9, <1>10, <1>11 DEF IInv

\* No thread looks at the slot whose done_ is cleared: post.
LEMMA ResetStep ==
  ASSUME IInv, Reset
  PROVE  IInv'
<1> USE DEF Reset, threadVars, appVars, poolVars, offVars, mpiVars, CurrentOp,
            Live, InCall, HasIndex, AppUnchanged
<1>0. \A u \in Threads : pc[u] \in {"copy", "clear", "take"} => idx[u] # slot
  BY TakenIsNotInHand DEF HasSlot
<1>1. TypeOK'
  BY <1>0 DEF IInv, TypeOK
<1>2. ThreadInv'
  <2>1. ASSUME NEW u \in Threads
        PROVE  ThreadOK(u)'
    BY <1>0 DEF IInv, TypeOK, ThreadInv, ThreadOK, Erasing, OwnStatus
  <2> QED
    BY <2>1 DEF IInv, ThreadInv
<1>3. RequestInv'
  BY <1>0 DEF IInv, RequestInv, RequestOK
<1>4. QueueInv'
  BY <1>0 DEF IInv, QueueInv, IsCurrent, Hand, QueuedOK
<1>5. HandInv'
  BY <1>0 DEF IInv, HandInv, IsCurrent, CommandOp, Hand, HasSlot
<1>6. UsedInv'
  BY <1>0 DEF IInv, UsedInv, Erasing, Holds, UsedOK
<1>7. TestInv'
  BY <1>0 DEF IInv, TestInv, UsedInv, Outstanding, TestOK, UsedOK
<1>8. FlagInv'
  BY <1>0 DEF IInv, FlagInv, Completed, OwnStatus, FlagOK
<1>9. SlotExclusive'
  BY <1>0 DEF IInv, SlotExclusive, Holds
<1>10. UsedIsTestable'
  BY <1>0 DEF IInv, UsedIsTestable
<1>11. StopInv'
  BY <1>0 DEF IInv, StopInv
<1> QED
  BY <1>1, <1>2, <1>3, <1>4, <1>5, <1>6, <1>7, <1>8, <1>9, <1>10, <1>11 DEF IInv

\* The request learns its slot: post.
LEMMA PublishStep ==
  ASSUME IInv, Publish
  PROVE  IInv'
<1> USE DEF Publish, threadVars, appVars, poolVars, offVars, mpiVars, CurrentOp,
            Live, InCall, HasIndex, AppUnchanged
<1>0. /\ command \in Commands /\ command.request \in Requests
      /\ IsCurrent(command) /\ word[command.request] = INVALID_INDEX
      /\ slot \in Usable /\ used # << >> /\ used[1] = slot /\ 1 \in 1 .. Len(used)
      /\ CommandOp = CurrentOp(command.request) /\ CommandOp \in Ops
  <2>1. opc \in Hand /\ opc \in HasSlot
    BY DEF Hand, HasSlot
  <2>2. word[command.request] = INVALID_INDEX
    BY <2>1 DEF IInv, HandInv
  <2> QED
    BY <2>1, <2>2, CommandInHand, SlotInHand
<1>a. \A u \in Threads : HasIndex(u) => req[u] # command.request
  BY <1>0, IndexFacts DEF HasIndex
<1>1. TypeOK'
  BY <1>0 DEF IInv, TypeOK
<1>2. ThreadInv'
  <2>1. ASSUME NEW u \in Threads
        PROVE  ThreadOK(u)'
    BY <1>0, <1>a DEF IInv, TypeOK, ThreadInv, ThreadOK, Erasing, OwnStatus
  <2> QED
    BY <2>1 DEF IInv, ThreadInv
<1>3. RequestInv'
  BY <1>0 DEF IInv, TypeOK, RequestInv, RequestOK, IsCurrent
<1>4. QueueInv'
  BY <1>0 DEF IInv, QueueInv, RequestInv, IsCurrent, Hand, QueuedOK, RequestOK
<1>5. HandInv'
  BY <1>0 DEF IInv, TypeOK, HandInv, IsCurrent, CommandOp, Hand
<1>6. UsedInv'
  <2>1. ASSUME NEW i \in 1 .. Len(used)
        PROVE  UsedOK(i)'
    <3>1. \A r \in Requests : Holds(r, used[i]) => Holds(r, used[i])'
      BY <1>0 DEF IInv, TypeOK, UsedInv, UsedOK, Holds, IsCurrent
    <3> QED
      BY <3>1 DEF IInv, UsedInv, UsedOK, Erasing
  <2> QED
    BY <2>1 DEF IInv, UsedInv
<1>7. TestInv'
  <2>1. ASSUME NEW i \in 1 .. Len(used), NEW r \in Requests, i # 1,
               Live(r)', word'[r] = used[i]
        PROVE  TestOK(i, r)'
    <3>1. word[r] = used[i]
      BY <1>0, <2>1 DEF IInv, TypeOK, UsedInv
    <3> QED
      BY <1>0, <2>1, <3>1 DEF IInv, TestInv, TestOK, Outstanding
  <2> QED
    BY <1>0, <2>1 DEF TestInv, TestOK
<1>8. FlagInv'
  <2>1. ~done[slot]
    BY <1>0 DEF IInv, UsedInv, UsedOK, Erasing
  <2>2. ASSUME NEW s \in Usable
        PROVE  FlagOK(s)'
    BY <1>0, <2>1 DEF IInv, TypeOK, FlagInv, FlagOK, Completed, OwnStatus
  <2> QED
    BY <2>2 DEF FlagInv
<1>9. SlotExclusive'
  BY <1>0 DEF IInv, SlotExclusive, Holds
<1>10. UsedIsTestable'
  BY <1>0 DEF IInv, UsedIsTestable
<1>11. StopInv'
  BY <1>0 DEF IInv, StopInv
<1> QED
  BY <1>1, <1>2, <1>3, <1>4, <1>5, <1>6, <1>7, <1>8, <1>9, <1>10, <1>11 DEF IInv

\* The operation that starts is new: poll_and_test.
LEMMA CallStep ==
  ASSUME IInv, Call
  PROVE  IInv'
<1> USE DEF Call, threadVars, appVars, poolVars, offVars, mpiVars, CurrentOp,
            Live, InCall, HasIndex, AppUnchanged
<1>0. /\ command \in Commands /\ command.request \in Requests
      /\ IsCurrent(command) /\ word[command.request] = slot
      /\ slot \in Usable /\ used # << >> /\ used[1] = slot /\ 1 \in 1 .. Len(used)
      /\ CommandOp = CurrentOp(command.request) /\ CommandOp \in Ops
  <2>1. opc \in Hand /\ opc \in HasSlot
    BY DEF Hand, HasSlot
  <2>2. word[command.request] = slot
    BY <2>1 DEF IInv, HandInv
  <2> QED
    BY <2>1, <2>2, CommandInHand, SlotInHand
<1>a. \A r \in Requests, i \in 1 .. Len(used) :
         Live(r) /\ word[r] = used[i] => (r = command.request <=> i = 1)
  <2>1. Live(command.request)
    BY <1>0 DEF IsCurrent
  <2>2. \A r \in Requests : Live(r) /\ word[r] = slot => r = command.request
    BY <1>0, <2>1 DEF IInv, SlotExclusive, Holds
  <2> QED
    BY <1>0, <2>2 DEF IInv, UsedInv
<1>1. TypeOK'
  BY <1>0 DEF IInv, TypeOK
<1>2. ThreadInv'
  BY <1>0 DEF IInv, ThreadInv, Erasing, OwnStatus, ThreadOK
<1>3. RequestInv'
  <2>1. ASSUME NEW r \in Requests
        PROVE  RequestOK(r)'
    <3>1. \A n \in 1 .. MaxPosts : <<r, n>> = CommandOp => phase[r] # "posting" /\ n = posts[r]
      BY <1>0 DEF CommandOp, IsCurrent
    <3>2. RequestOK(r)
      BY DEF IInv, RequestInv
    <3> QED
      BY <3>1, <3>2 DEF IInv, TypeOK, RequestOK
  <2> QED
    BY <2>1 DEF RequestInv
<1>4. QueueInv'
  <2>1. ASSUME NEW i \in 1 .. Len(queue)
        PROVE  QueuedOK(queue[i])'
    <3>1. QueuedOK(queue[i]) /\ queue[i].request # command.request
      BY DEF IInv, QueueInv, QueuedOK, Hand
    <3>2. CurrentOp(queue[i].request) # CommandOp
      BY <1>0, <3>1
    <3> QED
      BY <3>1, <3>2 DEF QueuedOK, IsCurrent, Hand
  <2> QED
    BY <2>1 DEF IInv, QueueInv
<1>5. HandInv'
  BY <1>0 DEF IInv, HandInv, IsCurrent, CommandOp, Hand
<1>6. UsedInv'
  BY SMTT(30), <1>0 DEF IInv, UsedInv, Erasing, Holds, UsedOK
<1>7. TestInv'
  <2>1. ASSUME NEW i \in 1 .. Len(used), NEW r \in Requests, Live(r), word[r] = used[i]
        PROVE  TestOK(i, r)'
    <3>1. CASE i = 1
      <4>1. r = command.request
        BY <1>a, <2>1, <3>1
      <4> QED
        BY <1>0, <3>1, <4>1 DEF IInv, TypeOK, HandInv, Hand, IsCurrent, TestOK, Outstanding
    <3>2. CASE i # 1
      <4>1. TestOK(i, r)
        BY <2>1 DEF IInv, TestInv
      <4>2. used[i] # slot
        BY <1>0, <3>2 DEF IInv, UsedInv
      <4> QED
        BY <3>2, <4>1, <4>2 DEF IInv, TypeOK, TestOK, Outstanding
    <3> QED
      BY <3>1, <3>2
  <2> QED
    BY <2>1 DEF TestInv
<1>8. FlagInv'
  BY <1>0 DEF IInv, FlagInv, Completed, OwnStatus, FlagOK
<1>9. SlotExclusive'
  BY <1>0 DEF IInv, SlotExclusive, Holds
<1>10. UsedIsTestable'
  BY <1>0 DEF IInv, UsedIsTestable
<1>11. StopInv'
  BY <1>0 DEF IInv, StopInv, IsCurrent
<1> QED
  BY <1>1, <1>2, <1>3, <1>4, <1>5, <1>6, <1>7, <1>8, <1>9, <1>10, <1>11 DEF IInv

\* The operation that starts is new: poll_and_test.
LEMMA CallBlockingStep ==
  ASSUME IInv, CallBlocking
  PROVE  IInv'
<1> USE DEF CallBlocking, threadVars, appVars, poolVars, offVars, mpiVars,
            CurrentOp, Live, InCall, HasIndex, AppUnchanged
<1>0. /\ command \in Commands /\ command.request \in Requests
      /\ IsCurrent(command) /\ word[command.request] = slot
      /\ slot \in Usable /\ used # << >> /\ used[1] = slot /\ 1 \in 1 .. Len(used)
      /\ CommandOp = CurrentOp(command.request) /\ CommandOp \in Ops
  <2>1. opc \in Hand /\ opc \in HasSlot
    BY DEF Hand, HasSlot
  <2>2. word[command.request] = slot
    BY <2>1 DEF IInv, HandInv
  <2> QED
    BY <2>1, <2>2, CommandInHand, SlotInHand
<1>a. \A r \in Requests, i \in 1 .. Len(used) :
         Live(r) /\ word[r] = used[i] => (r = command.request <=> i = 1)
  <2>1. Live(command.request)
    BY <1>0 DEF IsCurrent
  <2>2. \A r \in Requests : Live(r) /\ word[r] = slot => r = command.request
    BY <1>0, <2>1 DEF IInv, SlotExclusive, Holds
  <2> QED
    BY <1>0, <2>2 DEF IInv, UsedInv
<1>1. TypeOK'
  BY <1>0 DEF IInv, TypeOK
<1>2. ThreadInv'
  BY <1>0 DEF IInv, ThreadInv, Erasing, OwnStatus, ThreadOK
<1>3. RequestInv'
  <2>1. ASSUME NEW r \in Requests
        PROVE  RequestOK(r)'
    <3>1. \A n \in 1 .. MaxPosts : <<r, n>> = CommandOp => phase[r] # "posting" /\ n = posts[r]
      BY <1>0 DEF CommandOp, IsCurrent
    <3>2. RequestOK(r)
      BY DEF IInv, RequestInv
    <3> QED
      BY <3>1, <3>2 DEF IInv, TypeOK, RequestOK
  <2> QED
    BY <2>1 DEF RequestInv
<1>4. QueueInv'
  <2>1. ASSUME NEW i \in 1 .. Len(queue)
        PROVE  QueuedOK(queue[i])'
    <3>1. QueuedOK(queue[i]) /\ queue[i].request # command.request
      BY DEF IInv, QueueInv, QueuedOK, Hand
    <3>2. CurrentOp(queue[i].request) # CommandOp
      BY <1>0, <3>1
    <3> QED
      BY <3>1, <3>2 DEF QueuedOK, IsCurrent, Hand
  <2> QED
    BY <2>1 DEF IInv, QueueInv
<1>5. HandInv'
  BY <1>0 DEF IInv, HandInv, IsCurrent, CommandOp, Hand
<1>6. UsedInv'
  BY <1>0 DEF IInv, UsedInv, Erasing, Holds, UsedOK
<1>7. TestInv'
  BY <1>0 DEF IInv, TestInv, Outstanding, TestOK
<1>8. FlagInv'
  BY <1>0 DEF IInv, FlagInv, Completed, OwnStatus, FlagOK
<1>9. SlotExclusive'
  BY <1>0 DEF IInv, SlotExclusive, Holds
<1>10. UsedIsTestable'
  BY <1>0 DEF IInv, UsedIsTestable
<1>11. StopInv'
  BY <1>0 DEF IInv, StopInv, IsCurrent
<1> QED
  BY <1>1, <1>2, <1>3, <1>4, <1>5, <1>6, <1>7, <1>8, <1>9, <1>10, <1>11 DEF IInv

\* The null request is stored when the operation is over: poll_and_test.
LEMMA CallReturnStep ==
  ASSUME IInv, CallReturn
  PROVE  IInv'
<1> USE DEF CallReturn, threadVars, appVars, poolVars, offVars, mpiVars,
            CurrentOp, Live, InCall, HasIndex, AppUnchanged
<1>0. /\ command \in Commands /\ command.request \in Requests
      /\ IsCurrent(command) /\ word[command.request] = slot
      /\ slot \in Usable /\ used # << >> /\ used[1] = slot /\ 1 \in 1 .. Len(used)
      /\ CommandOp = CurrentOp(command.request) /\ CommandOp \in Ops
  <2>1. opc \in Hand /\ opc \in HasSlot
    BY DEF Hand, HasSlot
  <2>2. word[command.request] = slot
    BY <2>1 DEF IInv, HandInv
  <2> QED
    BY <2>1, <2>2, CommandInHand, SlotInHand
<1>a. \A r \in Requests, i \in 1 .. Len(used) :
         Live(r) /\ word[r] = used[i] => (r = command.request <=> i = 1)
  <2>1. Live(command.request)
    BY <1>0 DEF IsCurrent
  <2>2. \A r \in Requests : Live(r) /\ word[r] = slot => r = command.request
    BY <1>0, <2>1 DEF IInv, SlotExclusive, Holds
  <2> QED
    BY <1>0, <2>2 DEF IInv, UsedInv
<1>1. TypeOK'
  BY <1>0 DEF IInv, TypeOK
<1>2. ThreadInv'
  BY <1>0 DEF IInv, ThreadInv, Erasing, OwnStatus, ThreadOK
<1>3. RequestInv'
  BY <1>0 DEF IInv, RequestInv, RequestOK
<1>4. QueueInv'
  BY <1>0 DEF IInv, QueueInv, IsCurrent, Hand, QueuedOK
<1>5. HandInv'
  BY <1>0 DEF IInv, HandInv, IsCurrent, CommandOp, Hand
<1>6. UsedInv'
  BY <1>0 DEF IInv, UsedInv, Erasing, Holds, UsedOK
<1>7. TestInv'
  <2>1. ASSUME NEW i \in 1 .. Len(used), NEW r \in Requests, Live(r), word[r] = used[i]
        PROVE  TestOK(i, r)'
    <3>1. CASE i = 1
      <4>1. r = command.request
        BY <1>a, <2>1, <3>1
      <4> QED
        BY <1>0, <3>1, <4>1 DEF IInv, TypeOK, HandInv, Hand, IsCurrent, TestOK, Outstanding
    <3>2. CASE i # 1
      <4>1. TestOK(i, r)
        BY <2>1 DEF IInv, TestInv
      <4>2. used[i] # slot
        BY <1>0, <3>2 DEF IInv, UsedInv
      <4> QED
        BY <3>2, <4>1, <4>2 DEF IInv, TypeOK, TestOK, Outstanding
    <3> QED
      BY <3>1, <3>2
  <2> QED
    BY <2>1 DEF TestInv
<1>8. FlagInv'
  BY <1>0 DEF IInv, FlagInv, Completed, OwnStatus, FlagOK
<1>9. SlotExclusive'
  BY <1>0 DEF IInv, SlotExclusive, Holds
<1>10. UsedIsTestable'
  BY <1>0 DEF IInv, UsedIsTestable, UsedInv, UsedOK
<1>11. StopInv'
  BY <1>0 DEF IInv, StopInv
<1> QED
  BY <1>1, <1>2, <1>3, <1>4, <1>5, <1>6, <1>7, <1>8, <1>9, <1>10, <1>11 DEF IInv

\* Nothing has started, and the slot is still tested: poll_and_test.
LEMMA CallFailsStep ==
  ASSUME IInv, CallFails
  PROVE  IInv'
<1> USE DEF CallFails, threadVars, appVars, poolVars, offVars, mpiVars,
            CurrentOp, Live, InCall, HasIndex, AppUnchanged
<1>0. /\ command \in Commands /\ command.request \in Requests
      /\ IsCurrent(command) /\ word[command.request] = slot
      /\ slot \in Usable /\ used # << >> /\ used[1] = slot /\ 1 \in 1 .. Len(used)
      /\ CommandOp = CurrentOp(command.request) /\ CommandOp \in Ops
  <2>1. opc \in Hand /\ opc \in HasSlot
    BY DEF Hand, HasSlot
  <2>2. word[command.request] = slot
    BY <2>1 DEF IInv, HandInv
  <2> QED
    BY <2>1, <2>2, CommandInHand, SlotInHand
<1>a. \A r \in Requests, i \in 1 .. Len(used) :
         Live(r) /\ word[r] = used[i] => (r = command.request <=> i = 1)
  <2>1. Live(command.request)
    BY <1>0 DEF IsCurrent
  <2>2. \A r \in Requests : Live(r) /\ word[r] = slot => r = command.request
    BY <1>0, <2>1 DEF IInv, SlotExclusive, Holds
  <2> QED
    BY <1>0, <2>2 DEF IInv, UsedInv
<1>1. TypeOK'
  BY <1>0 DEF IInv, TypeOK
<1>2. ThreadInv'
  BY <1>0 DEF IInv, ThreadInv, Erasing, ThreadOK
<1>3. RequestInv'
  BY <1>0 DEF IInv, RequestInv, RequestOK
<1>4. QueueInv'
  BY <1>0 DEF IInv, QueueInv, IsCurrent, Hand, QueuedOK
<1>5. HandInv'
  BY <1>0 DEF IInv, HandInv, IsCurrent, CommandOp, Hand
<1>6. UsedInv'
  <2>1. ASSUME NEW i \in 1 .. Len(used)
        PROVE  UsedOK(i)'
    BY <1>0 DEF IInv, TypeOK, UsedInv, UsedOK, Erasing, Holds
  <2> QED
    BY <2>1 DEF IInv, UsedInv
<1>7. TestInv'
  BY <1>0 DEF IInv, TestInv, Outstanding, TestOK
<1>8. FlagInv'
  BY <1>0 DEF IInv, FlagInv, Completed, FlagOK
<1>9. SlotExclusive'
  BY <1>0 DEF IInv, SlotExclusive, Holds
<1>10. UsedIsTestable'
  BY <1>0 DEF IInv, TypeOK, UsedIsTestable, UsedInv
<1>11. StopInv'
  BY <1>0 DEF IInv, StopInv
<1> QED
  BY <1>1, <1>2, <1>3, <1>4, <1>5, <1>6, <1>7, <1>8, <1>9, <1>10, <1>11 DEF IInv

\* The slot stays in used_: test_request.
LEMMA TestRequestPendingStep ==
  ASSUME IInv, TestRequestPending
  PROVE  IInv'
<1> USE DEF TestRequestPending, threadVars, appVars, poolVars, offVars, mpiVars,
            CurrentOp, Live, InCall, HasIndex, AppUnchanged, PmpiTestLeavesFlag
<1>1. TypeOK'
  BY DEF IInv, TypeOK
<1>2. ThreadInv'
  BY DEF IInv, ThreadInv, Erasing, OwnStatus, ThreadOK
<1>3. RequestInv'
  BY DEF IInv, RequestInv, RequestOK
<1>4. QueueInv'
  BY DEF IInv, QueueInv, IsCurrent, Hand, QueuedOK
<1>5. HandInv'
  BY DEF IInv, HandInv, IsCurrent, CommandOp, Hand, HasSlot
<1>6. UsedInv'
  BY DEF IInv, UsedInv, Erasing, Holds, UsedOK
<1>7. TestInv'
  BY DEF IInv, TestInv, UsedInv, Outstanding, OwnStatus, TestOK, UsedOK
<1>8. FlagInv'
  BY DEF IInv, FlagInv, Completed, OwnStatus, FlagOK
<1>9. SlotExclusive'
  BY DEF IInv, SlotExclusive, Holds
<1>10. UsedIsTestable'
  BY DEF IInv, UsedIsTestable, HandInv, HasSlot
<1>11. StopInv'
  BY DEF IInv, StopInv
<1> QED
  BY <1>1, <1>2, <1>3, <1>4, <1>5, <1>6, <1>7, <1>8, <1>9, <1>10, <1>11 DEF IInv

\* The status stored is that of the operation: test_request.
LEMMA TestRequestCompleteStep ==
  ASSUME IInv, TestRequestComplete
  PROVE  IInv'
<1> USE DEF TestRequestComplete, threadVars, appVars, poolVars, offVars,
            mpiVars, CurrentOp, Live, InCall, HasIndex, AppUnchanged,
            PmpiTestSetsFlag
<1>0. /\ slot \in Usable /\ slot \notin free /\ ~done[slot]
      /\ used # << >> /\ 1 \in 1 .. Len(used) /\ used[1] = slot
      /\ \A i \in 1 .. Len(used) : i # 1 => used[i] # slot
  BY SlotInHand DEF HasSlot
<1>1. TypeOK'
  BY DEF IInv, TypeOK
<1>2. ThreadInv'
  BY <1>0 DEF IInv, ThreadInv, Erasing, OwnStatus, ThreadOK
<1>3. RequestInv'
  BY <1>0 DEF IInv, RequestInv, RequestOK
<1>4. QueueInv'
  BY <1>0 DEF IInv, QueueInv, IsCurrent, Hand, QueuedOK
<1>5. HandInv'
  BY <1>0 DEF IInv, HandInv, IsCurrent, CommandOp, Hand
<1>6. UsedInv'
  BY <1>0 DEF IInv, UsedInv, Erasing, Holds, UsedOK
<1>7. TestInv'
  <2>1. ASSUME NEW i \in 1 .. Len(used), NEW r \in Requests, Live(r), word[r] = used[i]
        PROVE  TestOK(i, r)'
    <3>1. Outstanding(r, used[i])
      BY <2>1 DEF IInv, TestInv, TestOK
    <3>2. CurrentOp(r) \in Ops
      BY <2>1 DEF IInv, RequestInv, RequestOK
    <3>3. CASE i = 1
      <4>1. requests[slot] # ZeroRequest \/ CallsMayFail
        BY <1>0, <3>1, <3>2, <3>3 DEF Outstanding
      <4>2. Completed(r, slot)'
        <5>1. CASE CallsMayFail
          BY <5>1 DEF Completed
        <5>2. CASE ~CallsMayFail /\ r \in NullRequests
          BY <1>0, <3>1, <3>3, <5>2 DEF IInv, TypeOK, Outstanding, Completed, OwnStatus
        <5>3. CASE ~CallsMayFail /\ r \notin NullRequests
          <6>1. requests[slot] = CurrentOp(r)
            BY <1>0, <3>1, <3>3, <5>3 DEF Outstanding
          <6> QED
            BY <1>0, <3>2, <5>3, <6>1 DEF IInv, TypeOK, Completed, OwnStatus
        <5> QED
          BY <5>1, <5>2, <5>3
      <4> QED
        BY <1>0, <3>3, <4>2 DEF TestOK
    <3>4. CASE i # 1
      <4>1. requests'[used[i]] = requests[used[i]]
        <5>1. used[i] \in Usable
          BY DEF IInv, UsedInv, UsedOK
        <5> QED
          BY <1>0, <3>4, <5>1 DEF IInv, TypeOK
      <4> QED
        BY <3>1, <3>4, <4>1 DEF TestOK, Outstanding
    <3> QED
      BY <3>3, <3>4
  <2> QED
    BY <2>1 DEF TestInv
<1>8. FlagInv'
  <2>1. ASSUME NEW s \in Usable
        PROVE  FlagOK(s)'
    BY <1>0 DEF IInv, TypeOK, FlagInv, FlagOK, Completed, OwnStatus
  <2> QED
    BY <2>1 DEF FlagInv
<1>9. SlotExclusive'
  BY <1>0 DEF IInv, SlotExclusive, Holds
<1>10. UsedIsTestable'
  BY <1>0 DEF IInv, TypeOK, UsedIsTestable
<1>11. StopInv'
  BY <1>0 DEF IInv, StopInv
<1> QED
  BY <1>1, <1>2, <1>3, <1>4, <1>5, <1>6, <1>7, <1>8, <1>9, <1>10, <1>11 DEF IInv

\* done_ is set for the request that holds the slot: test_request.
LEMMA TestRequestMarkStep ==
  ASSUME IInv, TestRequestMark
  PROVE  IInv'
<1> USE DEF TestRequestMark, threadVars, appVars, poolVars, offVars, mpiVars,
            CurrentOp, Live, InCall, HasIndex, AppUnchanged
<1>0. /\ slot \in Usable /\ slot \notin free /\ ~done[slot]
      /\ used # << >> /\ 1 \in 1 .. Len(used) /\ used[1] = slot
      /\ \A i \in 1 .. Len(used) : i # 1 => used[i] # slot
  BY SlotInHand DEF HasSlot
<1>a. /\ used' \in Seq(Usable \cup {INVALID_INDEX})
      /\ Len(used') = Len(used) - 1 /\ Len(used) \in Nat
      /\ \A i \in 1 .. Len(used') : i + 1 \in 1 .. Len(used) /\ used'[i] = used[i + 1]
  <2>1. used \in Seq(Usable \cup {INVALID_INDEX}) /\ used' = RemoveFirst(used, slot)
    BY DEF IInv, TypeOK
  <2>2. used' = RemoveAt(used, 1) /\ Len(used) \in Nat
    BY <1>0, <2>1, RemoveFirstFacts
  <2> QED
    BY SMTT(30), <1>0, <2>1, <2>2, RemoveAtFacts
<1>b. \A u \in Threads : pc[u] \in {"copy", "clear", "take", "release"} => idx[u] # slot
  BY TakenIsNotInHand DEF HasSlot
<1>c. /\ opc = "mark" /\ opc' = "loop" /\ slot' = INVALID_INDEX
      /\ done' = [done EXCEPT ![slot] = TRUE] /\ AppUnchanged
      /\ UNCHANGED <<word, queue, free, statuses, requests, command, it, mpiVars>>
  OBVIOUS
<1> HIDE DEF TestRequestMark
<1>1. TypeOK'
  BY <1>0, <1>a, <1>b, <1>c DEF IInv, TypeOK
<1>2. ThreadInv'
  <2>1. ASSUME NEW u \in Threads
        PROVE  ThreadOK(u)'
    BY <1>0, <1>a, <1>b, <1>c DEF IInv, TypeOK, ThreadInv, ThreadOK, Erasing, OwnStatus
  <2> QED
    BY <1>c, <2>1 DEF IInv, ThreadInv
<1>3. RequestInv'
  BY <1>0, <1>a, <1>b, <1>c DEF IInv, RequestInv, RequestOK
<1>4. QueueInv'
  BY <1>0, <1>a, <1>b, <1>c DEF IInv, QueueInv, IsCurrent, Hand, QueuedOK
<1>5. HandInv'
  BY <1>0, <1>a, <1>b, <1>c DEF IInv, HandInv, IsCurrent, CommandOp, Hand,
      HasSlot
<1>6. UsedInv'
  <2>1. ASSUME NEW i \in 1 .. Len(used')
        PROVE  UsedOK(i)'
    <3>1. i + 1 \in 1 .. Len(used) /\ used'[i] = used[i + 1] /\ used[i + 1] # slot
      BY <1>0, <1>a
    <3>2. UsedOK(i + 1) /\ ~Erasing(i + 1)
      BY <1>c, <3>1 DEF IInv, UsedInv, Erasing
    <3>3. \A r \in Requests : Holds(r, used[i + 1]) => Holds(r, used[i])'
      BY <1>c, <3>1 DEF Holds
    <3> QED
      BY <1>0, <1>c, <3>1, <3>2, <3>3 DEF IInv, TypeOK, UsedOK, Erasing
  <2>2. \A i, j \in 1 .. Len(used') : used'[i] = used'[j] => i = j
    BY <1>a DEF IInv, UsedInv
  <2> QED
    BY <1>c, <2>1, <2>2 DEF UsedInv
<1>7. TestInv'
  <2>1. ASSUME NEW i \in 1 .. Len(used'), NEW r \in Requests, (Live(r) /\ word[r] = used[i])'
        PROVE  TestOK(i, r)'
    <3>1. i + 1 \in 1 .. Len(used) /\ used'[i] = used[i + 1] /\ i + 1 # 1
      BY <1>a
    <3>2. Outstanding(r, used[i + 1])
      BY <1>c, <2>1, <3>1 DEF IInv, TestInv, TestOK
    <3> QED
      BY <1>c, <3>1, <3>2 DEF TestOK, Outstanding
  <2> QED
    BY <2>1 DEF TestInv
<1>8. FlagInv'
  <2>1. ASSUME NEW r \in Requests, Live(r), word[r] = slot
        PROVE  Completed(r, slot)
    BY <1>0, <1>c, <2>1 DEF IInv, TestInv, TestOK
  <2>2. ASSUME NEW s \in Usable
        PROVE  FlagOK(s)'
    <3>1. FlagOK(s)
      BY DEF IInv, FlagInv
    <3>2. done' = [done EXCEPT ![slot] = TRUE] /\ done \in [Slots -> BOOLEAN]
      BY <1>c DEF IInv, TypeOK
    <3> QED
      BY <1>0, <1>c, <2>1, <3>1, <3>2 DEF FlagOK, Completed, OwnStatus
  <2> QED
    BY <2>2 DEF FlagInv
<1>9. SlotExclusive'
  BY <1>0, <1>a, <1>b, <1>c DEF IInv, SlotExclusive, Holds
<1>10. UsedIsTestable'
  <2>1. ASSUME NEW i \in 1 .. Len(used')
        PROVE  ~(used'[i] \in Slots /\ requests'[used'[i]] = MPI_REQUEST_NULL)
    <3>1. i + 1 \in 1 .. Len(used) /\ used'[i] = used[i + 1] /\ i + 1 # 1
      BY <1>a
    <3> QED
      BY <1>c, <3>1 DEF IInv, UsedIsTestable
  <2> QED
    BY <2>1 DEF UsedIsTestable
<1>11. StopInv'
  BY <1>0, <1>a, <1>b, <1>c DEF IInv, StopInv
<1> QED
  BY <1>1, <1>2, <1>3, <1>4, <1>5, <1>6, <1>7, <1>8, <1>9, <1>10, <1>11 DEF IInv

\* The scan is over: test_requests.
LEMMA ScanEndStep ==
  ASSUME IInv, ScanEnd
  PROVE  IInv'
<1> USE DEF ScanEnd, threadVars, appVars, poolVars, offVars, mpiVars, CurrentOp,
            Live, InCall, HasIndex, AppUnchanged
<1>1. TypeOK'
  BY DEF IInv, TypeOK
<1>2. ThreadInv'
  BY DEF IInv, ThreadInv, Erasing, OwnStatus, ThreadOK
<1>3. RequestInv'
  BY DEF IInv, RequestInv, RequestOK
<1>4. QueueInv'
  BY DEF IInv, QueueInv, IsCurrent, Hand, QueuedOK
<1>5. HandInv'
  BY DEF IInv, HandInv, IsCurrent, CommandOp, Hand, HasSlot
<1>6. UsedInv'
  BY DEF IInv, UsedInv, Erasing, Holds, UsedOK
<1>7. TestInv'
  BY DEF IInv, TestInv, UsedInv, Outstanding, TestOK, UsedOK
<1>8. FlagInv'
  BY DEF IInv, FlagInv, Completed, OwnStatus, FlagOK
<1>9. SlotExclusive'
  BY DEF IInv, SlotExclusive, Holds
<1>10. UsedIsTestable'
  BY DEF IInv, UsedIsTestable
<1>11. StopInv'
  BY DEF IInv, StopInv
<1> QED
  BY <1>1, <1>2, <1>3, <1>4, <1>5, <1>6, <1>7, <1>8, <1>9, <1>10, <1>11 DEF IInv

\* The slot stays in used_: test_requests.
LEMMA ScanSkipStep ==
  ASSUME IInv, ScanSkip
  PROVE  IInv'
<1> USE DEF ScanSkip, threadVars, appVars, poolVars, offVars, mpiVars,
            CurrentOp, Live, InCall, HasIndex, AppUnchanged, PmpiTestLeavesFlag
<1>1. TypeOK'
  BY DEF IInv, TypeOK
<1>2. ThreadInv'
  BY DEF IInv, ThreadInv, Erasing, OwnStatus, ThreadOK
<1>3. RequestInv'
  BY DEF IInv, RequestInv, RequestOK
<1>4. QueueInv'
  BY DEF IInv, QueueInv, QueuedOK, IsCurrent
<1>5. HandInv'
  BY DEF IInv, HandInv, IsCurrent, CommandOp
<1>6. UsedInv'
  BY DEF IInv, UsedInv, Erasing, Holds, UsedOK
<1>7. TestInv'
  BY DEF IInv, TypeOK, TestInv, UsedInv, Outstanding, TestOK, UsedOK
<1>8. FlagInv'
  BY DEF IInv, FlagInv, Completed, OwnStatus, FlagOK
<1>9. SlotExclusive'
  BY DEF IInv, SlotExclusive, Holds
<1>10. UsedIsTestable'
  BY DEF IInv, UsedIsTestable
<1>11. StopInv'
  BY DEF IInv, StopInv
<1> QED
  BY <1>1, <1>2, <1>3, <1>4, <1>5, <1>6, <1>7, <1>8, <1>9, <1>10, <1>11 DEF IInv

\* The status stored is that of the operation: test_requests.
LEMMA ScanCompleteStep ==
  ASSUME IInv, ScanComplete
  PROVE  IInv'
<1> USE DEF ScanComplete, threadVars, appVars, poolVars, offVars, mpiVars,
            CurrentOp, Live, InCall, HasIndex, AppUnchanged, PmpiTestSetsFlag
<1>0. /\ it \in 1 .. Len(used) /\ Len(used) \in Nat
      /\ used[it] \in Usable /\ used \in Seq(Usable \cup {INVALID_INDEX})
      /\ \A i \in 1 .. Len(used) : i # it => used[i] # used[it]
  BY DEF IInv, TypeOK, UsedInv, UsedOK
<1>1. TypeOK'
  BY <1>0 DEF IInv, TypeOK
<1>2. ThreadInv'
  BY <1>0 DEF IInv, ThreadInv, Erasing, OwnStatus, ThreadOK
<1>3. RequestInv'
  BY <1>0 DEF IInv, RequestInv, RequestOK
<1>4. QueueInv'
  BY <1>0 DEF IInv, QueueInv, IsCurrent, Hand, QueuedOK
<1>5. HandInv'
  BY <1>0 DEF IInv, HandInv, IsCurrent, CommandOp, Hand, HasSlot
<1>6. UsedInv'
  <2>1. ASSUME NEW i \in 1 .. Len(used)
        PROVE  UsedOK(i)'
    <3>1. \A r \in Requests : Holds(r, used[i]) => Holds(r, used[i])'
      BY DEF Holds
    <3> QED
      BY <3>1 DEF IInv, UsedInv, UsedOK, Erasing
  <2> QED
    BY <1>0, <2>1 DEF IInv, UsedInv
<1>7. TestInv'
  <2>1. ASSUME NEW i \in 1 .. Len(used), NEW r \in Requests, Live(r), word[r] = used[i]
        PROVE  TestOK(i, r)'
    <3>1. Outstanding(r, used[i])
      BY <2>1 DEF IInv, TestInv, TestOK
    <3>2. CurrentOp(r) \in Ops
      BY <2>1 DEF IInv, RequestInv, RequestOK
    <3>3. CASE i = it
      <4>1. requests[used[it]] # ZeroRequest \/ CallsMayFail
        BY <1>0, <3>1, <3>2, <3>3 DEF Outstanding
      <4>2. Completed(r, used[it])'
        BY <1>0, <3>1, <3>2, <3>3, <4>1 DEF IInv, TypeOK, Outstanding, Completed, OwnStatus
      <4> QED
        BY <1>0, <3>3, <4>2 DEF TestOK
    <3>4. CASE i # it
      <4>1. requests'[used[i]] = requests[used[i]]
        <5>1. used[i] \in Usable
          BY DEF IInv, UsedInv, UsedOK
        <5> QED
          BY <1>0, <3>4, <5>1 DEF IInv, TypeOK
      <4> QED
        BY <3>1, <3>4, <4>1 DEF TestOK, Outstanding
    <3> QED
      BY <3>3, <3>4
  <2> QED
    BY <2>1 DEF TestInv
<1>8. FlagInv'
  <2>1. ~done[used[it]]
    BY <1>0 DEF IInv, UsedInv, UsedOK, Erasing
  <2>2. ASSUME NEW s \in Usable
        PROVE  FlagOK(s)'
    BY <1>0, <2>1 DEF IInv, TypeOK, FlagInv, FlagOK, Completed, OwnStatus
  <2> QED
    BY <2>2 DEF FlagInv
<1>9. SlotExclusive'
  BY <1>0 DEF IInv, SlotExclusive, Holds
<1>10. UsedIsTestable'
  BY <1>0 DEF IInv, TypeOK, UsedIsTestable
<1>11. StopInv'
  BY <1>0 DEF IInv, StopInv
<1> QED
  BY <1>1, <1>2, <1>3, <1>4, <1>5, <1>6, <1>7, <1>8, <1>9, <1>10, <1>11 DEF IInv

\* done_ is set for the request that holds the slot: test_requests.
LEMMA ScanMarkStep ==
  ASSUME IInv, ScanMark
  PROVE  IInv'
<1> USE DEF ScanMark, threadVars, appVars, poolVars, offVars, mpiVars,
            CurrentOp, Live, InCall, HasIndex, AppUnchanged
<1>0. /\ it \in 1 .. Len(used) /\ Len(used) \in Nat
      /\ used[it] \in Usable /\ used \in Seq(Usable \cup {INVALID_INDEX})
      /\ \A i \in 1 .. Len(used) : i # it => used[i] # used[it]
  BY DEF IInv, TypeOK, UsedInv, UsedOK
<1>1. TypeOK'
  BY <1>0 DEF IInv, TypeOK
<1>2. ThreadInv'
  BY <1>0 DEF IInv, ThreadInv, Erasing, OwnStatus, ThreadOK
<1>3. RequestInv'
  BY <1>0 DEF IInv, RequestInv, RequestOK
<1>4. QueueInv'
  BY <1>0 DEF IInv, QueueInv, IsCurrent, Hand, QueuedOK
<1>5. HandInv'
  BY <1>0 DEF IInv, HandInv, IsCurrent, CommandOp, Hand, HasSlot
<1>6. UsedInv'
  <2>1. ASSUME NEW i \in 1 .. Len(used)
        PROVE  UsedOK(i)'
    <3>1. UsedOK(i) /\ (i # it => used[i] # used[it])
      BY <1>0 DEF IInv, UsedInv
    <3>2. \A r \in Requests : Holds(r, used[i]) => Holds(r, used[i])'
      BY DEF Holds
    <3> QED
      BY <1>0, <3>1, <3>2 DEF IInv, TypeOK, UsedOK, Erasing
  <2> QED
    BY <1>0, <2>1 DEF IInv, UsedInv
<1>7. TestInv'
  BY <1>0 DEF IInv, TestInv, UsedInv, Completed, Outstanding, OwnStatus, TestOK,
      UsedOK
<1>8. FlagInv'
  <2>1. \A r \in Requests : Live(r) /\ word[r] = used[it] => Completed(r, used[it])
    BY <1>0 DEF IInv, TestInv, TestOK
  <2>2. used[it] \notin free
    BY <1>0 DEF IInv, UsedInv, UsedOK, Erasing
  <2>3. ASSUME NEW s \in Usable
        PROVE  FlagOK(s)'
    <3>1. FlagOK(s)
      BY DEF IInv, FlagInv
    <3>2. done' = [done EXCEPT ![used[it]] = TRUE] /\ done \in [Slots -> BOOLEAN]
      BY DEF IInv, TypeOK
    <3> QED
      BY <1>0, <2>1, <2>2, <3>1, <3>2 DEF FlagOK, Completed, OwnStatus
  <2> QED
    BY <2>3 DEF FlagInv
<1>9. SlotExclusive'
  BY <1>0 DEF IInv, SlotExclusive, Holds
<1>10. UsedIsTestable'
  BY <1>0 DEF IInv, UsedIsTestable
<1>11. StopInv'
  BY <1>0 DEF IInv, StopInv
<1> QED
  BY <1>1, <1>2, <1>3, <1>4, <1>5, <1>6, <1>7, <1>8, <1>9, <1>10, <1>11 DEF IInv

\* The element erased is that of the slot marked: test_requests.
LEMMA ScanEraseStep ==
  ASSUME IInv, ScanErase
  PROVE  IInv'
<1> USE DEF ScanErase, threadVars, appVars, poolVars, offVars, mpiVars,
            CurrentOp, Live, InCall, HasIndex, AppUnchanged
<1>0. /\ it \in 1 .. Len(used) /\ Len(used) \in Nat
      /\ used \in Seq(Usable \cup {INVALID_INDEX}) /\ opc = "erase"
      /\ \A i, j \in 1 .. Len(used) : used[i] = used[j] => i = j
  <2>1. used \in Seq(Usable \cup {INVALID_INDEX}) /\ opc = "erase"
    BY DEF IInv, TypeOK
  <2> HIDE DEF ScanErase
  <2> QED
    BY <2>1 DEF IInv, UsedInv
<1>a. /\ used' \in Seq(Usable \cup {INVALID_INDEX}) /\ Len(used') = Len(used) - 1
      /\ \A i \in 1 .. Len(used') :
            \E j \in 1 .. Len(used) : j # it /\ j = (IF i < it THEN i ELSE i + 1) /\ used'[i] = used[j]
  <2>1. /\ used' \in Seq(Usable \cup {INVALID_INDEX}) /\ Len(used') = Len(used) - 1
        /\ \A i \in 1 .. Len(used) - 1 : used'[i] = IF i < it THEN used[i] ELSE used[i + 1]
    BY <1>0, RemoveAtFacts
  <2> QED
    BY <1>0, <2>1
<1>b. /\ opc' = "scan" /\ it' \in Nat \ {0} /\ AppUnchanged
      /\ UNCHANGED <<word, queue, poolVars, command, slot, mpiVars>>
  BY <1>0
<1> HIDE DEF ScanErase
<1>1. TypeOK'
  BY <1>0, <1>a, <1>b DEF IInv, TypeOK
<1>2. ThreadInv'
  <2>1. ASSUME NEW u \in Threads
        PROVE  ThreadOK(u)'
    <3>1. ThreadOK(u) /\ \A i \in 1 .. Len(used) : Erasing(i) => i = it
      BY DEF IInv, ThreadInv, Erasing
    <3>2. pc[u] = "release" => \A i \in 1 .. Len(used') : used'[i] # idx[u]
      BY <1>0, <1>a, <3>1 DEF ThreadOK
    <3> QED
      BY <1>b, <3>1, <3>2 DEF ThreadOK, OwnStatus
  <2> QED
    BY <1>b, <2>1 DEF IInv, ThreadInv
<1>3. RequestInv'
  BY <1>0, <1>a, <1>b DEF IInv, RequestInv, RequestOK
<1>4. QueueInv'
  BY <1>0, <1>a, <1>b DEF IInv, QueueInv, IsCurrent, Hand, QueuedOK
<1>5. HandInv'
  BY <1>0, <1>a, <1>b DEF IInv, HandInv, IsCurrent, CommandOp, Hand, HasSlot
<1>6. UsedInv'
  <2>1. ASSUME NEW i \in 1 .. Len(used')
        PROVE  UsedOK(i)'
    <3>1. PICK j \in 1 .. Len(used) : j # it /\ used'[i] = used[j]
      BY <1>a
    <3>2. UsedOK(j) /\ ~Erasing(j)
      BY <1>0, <3>1 DEF IInv, UsedInv, Erasing
    <3>3. \A r \in Requests : Holds(r, used[j]) => Holds(r, used[i])'
      BY <1>0, <1>b, <3>1 DEF Holds
    <3> QED
      BY <1>b, <3>1, <3>2, <3>3 DEF UsedOK, Erasing
  <2>2. ASSUME NEW i \in 1 .. Len(used'), NEW j \in 1 .. Len(used'), used'[i] = used'[j]
        PROVE  i = j
    <3>1. PICK k \in 1 .. Len(used) : k # it /\ k = (IF i < it THEN i ELSE i + 1) /\ used'[i] = used[k]
      BY <1>a
    <3>2. PICK l \in 1 .. Len(used) : l # it /\ l = (IF j < it THEN j ELSE j + 1) /\ used'[j] = used[l]
      BY <1>a
    <3>3. k = l
      BY <1>0, <2>2, <3>1, <3>2
    <3> QED
      BY <1>0, <1>a, <3>1, <3>2, <3>3
  <2> QED
    BY <1>b, <2>1, <2>2 DEF UsedInv
<1>7. TestInv'
  <2>1. ASSUME NEW i \in 1 .. Len(used'), NEW r \in Requests, (Live(r) /\ word[r] = used[i])'
        PROVE  TestOK(i, r)'
    <3>1. PICK j \in 1 .. Len(used) : j # it /\ used'[i] = used[j]
      BY <1>a
    <3>2. Outstanding(r, used[j])
      BY <1>0, <1>b, <2>1, <3>1 DEF IInv, TestInv, TestOK
    <3> QED
      BY <1>b, <3>1, <3>2 DEF TestOK, Outstanding
  <2> QED
    BY <2>1 DEF TestInv
<1>8. FlagInv'
  BY <1>0, <1>a, <1>b DEF IInv, FlagInv, Completed, OwnStatus, FlagOK
<1>9. SlotExclusive'
  BY <1>0, <1>a, <1>b DEF IInv, SlotExclusive, Holds
<1>10. UsedIsTestable'
  <2>1. ASSUME NEW i \in 1 .. Len(used')
        PROVE  ~(used'[i] \in Slots /\ requests'[used'[i]] = MPI_REQUEST_NULL)
    <3>1. PICK j \in 1 .. Len(used) : j # it /\ used'[i] = used[j]
      BY <1>a
    <3> QED
      BY <1>0, <1>b, <3>1 DEF IInv, UsedIsTestable
  <2> QED
    BY <2>1 DEF UsedIsTestable
<1>11. StopInv'
  BY <1>0, <1>a, <1>b DEF IInv, StopInv
<1> QED
  BY <1>1, <1>2, <1>3, <1>4, <1>5, <1>6, <1>7, <1>8, <1>9, <1>10, <1>11 DEF IInv

\* The operation that finishes belongs to a live request.
LEMMA CompleteStep ==
  ASSUME IInv, NEW op \in Ops, Complete(op)
  PROVE  IInv'
<1> USE DEF Complete, threadVars, appVars, poolVars, offVars, mpiVars,
            CurrentOp, Live, InCall, HasIndex
<1>1. TypeOK'
  BY DEF IInv, TypeOK
<1>2. ThreadInv'
  BY DEF IInv, ThreadInv, Erasing, OwnStatus, ThreadOK
<1>3. RequestInv'
  BY DEF IInv, RequestInv, RequestOK
<1>4. QueueInv'
  BY DEF IInv, QueueInv, QueuedOK, IsCurrent
<1>5. HandInv'
  BY DEF IInv, HandInv, IsCurrent, CommandOp
<1>6. UsedInv'
  BY DEF IInv, UsedInv, Erasing, Holds, UsedOK
<1>7. TestInv'
  BY DEF IInv, TestInv, UsedInv, Completed, Outstanding, OwnStatus, TestOK,
      UsedOK
<1>8. FlagInv'
  BY DEF IInv, FlagInv, Completed, OwnStatus, FlagOK
<1>9. SlotExclusive'
  BY DEF IInv, SlotExclusive, Holds
<1>10. UsedIsTestable'
  BY DEF IInv, UsedIsTestable
<1>11. StopInv'
  BY DEF IInv, StopInv
<1> QED
  BY <1>1, <1>2, <1>3, <1>4, <1>5, <1>6, <1>7, <1>8, <1>9, <1>10, <1>11 DEF IInv
=============================================================================
