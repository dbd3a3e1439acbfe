--------------------------- MODULE LifecycleProofs --------------------------
(***************************************************************************)
(* For any number of threads and calls: MPI is entered only between the    *)
(* return of PMPI_Init_thread and PMPI_Finalize, which is alone when it    *)
(* runs, and if all communication is offloaded one thread at a time.  For  *)
(* any text of the environment: the offload thread is pinned to the cpu    *)
(* that the text lists for its rank, or not at all.                        *)
(***************************************************************************)
EXTENDS MCLifecycle, FiniteSetTheorems, SequenceTheorems, WellFoundedInduction, TLAPS

USE LifecycleAssumption

\* The initial state: the program has just begun.
LEMMA InitInvariant == Init => IInv
<1> SUFFICES ASSUME Init
             PROVE  IInv
  OBVIOUS
<1> USE DEF Init, Queue!Init
<1>1. TypeOK
  <2>1. /\ pc \in [Threads -> {"start", "idle"}]
        /\ calls \in [Threads -> 0 .. MaxCalls]
    OBVIOUS
  <2>2. queue \in Seq(Threads)
    OBVIOUS
  <2> QED
    BY <2>1, <2>2 DEF TypeOK
<1>2. StartInv /\ EndInv /\ CallInv
  BY DEF StartInv, EndInv, CallInv, Starting, Ending
<1> QED
  BY <1>1, <1>2 DEF IInv

\* The steps of Main in MPI_Init_thread and MPI_Finalize.
LEMMA MainInvariant ==
  ASSUME IInv, MainStep \/ Stop
  PROVE  IInv'
<1> USE DEF IInv, TypeOK, Levels, Goto, appVars, opVars
<1>1. CASE InitThread
  BY <1>1 DEF InitThread, StartInv, EndInv, CallInv, Starting, Ending
<1>2. CASE Spawn
  BY <1>2 DEF Spawn, StartInv, EndInv, CallInv, Starting, Ending
<1>3. CASE Assign
  BY <1>3 DEF Assign, StartInv, EndInv, CallInv, Starting, Ending
<1>4. CASE Get
  BY <1>4 DEF Get, StartInv, EndInv, CallInv, Starting, Ending
<1>5. CASE AbortSingle
  BY <1>5 DEF AbortSingle, StartInv, EndInv, CallInv, Starting, Ending
<1>6. CASE InitReturn
  <2>1. pc[Main] = "check" /\ level \in Levels /\ reported' \in Levels
    BY <1>6 DEF InitReturn, StartInv
  <2>2. TypeOK'
    BY <1>6, <2>1 DEF InitReturn
  <2>3. StartInv' /\ EndInv' /\ CallInv'
    BY <1>6, <2>1 DEF InitReturn, StartInv, EndInv, CallInv, Starting, Ending
  <2> QED
    BY <2>2, <2>3
<1>7. CASE Join
  BY <1>7 DEF Join, StartInv, EndInv, CallInv, Starting, Ending
<1>8. CASE Finalize
  BY <1>8 DEF Finalize, StartInv, EndInv, CallInv, Starting, Ending
<1>9. CASE Stop
  <2>1. reported # None /\ pc[Main] = "idle" /\ \A t \in Threads : pc[t] = "idle"
    BY <1>9 DEF Stop
  <2>2. pc' = [pc EXCEPT ![Main] = "join"]
    BY <1>9 DEF Stop
  <2>3. pc'[Main] = "join" /\ \A t \in Threads \ {Main} : pc'[t] = "idle"
    BY <2>1, <2>2
  <2>4. UNCHANGED <<calls, level, reported, thread_, promise, opc, opVars, mpi, provided>>
    BY <1>9 DEF Stop
  <2>5. TypeOK'
    <3>1. running' \in BOOLEAN
      BY <1>9 DEF Stop
    <3>2. pc' \in [Threads -> {"start", "spawn", "assign", "get", "check", "idle", "wait",
                               "direct", "join", "finalize", "finalized"}]
      BY <2>2
    <3> QED
      BY <3>1, <3>2, <2>4
  <2>6. StartInv'
    BY <2>1, <2>3, <2>4 DEF StartInv, Starting
  <2>7. EndInv'
    BY <2>1, <2>3, <2>4 DEF EndInv, Starting, Ending
  <2>8. CallInv'
    <3>1. used = {} /\ done = {} /\ command = None /\ queue = << >>
      <4>1. used = {} /\ done = {} /\ command = None
        BY <2>1 DEF CallInv
      <4>2. queue = << >>
        BY <2>1 DEF CallInv
      <4> QED
        BY <4>1, <4>2
    <3> QED
      BY <3>1, <2>4 DEF CallInv
  <2> QED
    BY <2>5, <2>6, <2>7, <2>8
<1> QED
  BY <1>1, <1>2, <1>3, <1>4, <1>5, <1>6, <1>7, <1>8, <1>9 DEF MainStep

\* The steps of a thread that makes a call.
LEMMA CallInvariant ==
  ASSUME IInv, NEW t \in Threads, Post(t) \/ DirectCall(t) \/ CallReturns(t)
  PROVE  IInv'
<1> USE DEF IInv, TypeOK, Goto, Working, appVars, opVars
<1>1. CASE Post(t)
  BY <1>1 DEF Post, Queue!Enqueue, StartInv, EndInv, CallInv, Starting, Ending
<1>2. CASE DirectCall(t)
  BY <1>2 DEF DirectCall, StartInv, EndInv, CallInv, Starting, Ending
<1>3. CASE WaitReturn(t)
  BY <1>3 DEF WaitReturn, StartInv, EndInv, CallInv, Starting, Ending
<1>4. CASE DirectReturn(t)
  BY <1>4 DEF DirectReturn, StartInv, EndInv, CallInv, Starting, Ending
<1> QED
  BY <1>1, <1>2, <1>3, <1>4 DEF CallReturns

\* The steps of the offload thread.
LEMMA OffloadStepInvariant ==
  ASSUME IInv, OffloadStep
  PROVE  IInv'
<1> USE DEF IInv, TypeOK, appVars, opVars
<1>1. CASE InitMPI
  BY <1>1 DEF InitMPI, Levels, StartInv, EndInv, CallInv, Starting, Ending
<1>2. CASE SetValue
  BY <1>2 DEF SetValue, StartInv, EndInv, CallInv, Starting, Ending
<1>3. CASE CommRank
  BY <1>3 DEF CommRank, StartInv, EndInv, CallInv, Starting, Ending
<1>4. CASE Pin
  BY <1>4 DEF Pin, StartInv, EndInv, CallInv, Starting, Ending
<1>5. CASE Loop
  BY <1>5 DEF Loop, StartInv, EndInv, CallInv, Starting, Ending
<1>6. CASE Dequeue
  BY <1>6 DEF Dequeue, Queue!Dequeue, StartInv, EndInv, CallInv, Starting, Ending
<1>7. CASE DequeueNone
  BY <1>7 DEF DequeueNone, Queue!DequeueNone, StartInv, EndInv, CallInv, Starting, Ending
<1>8. CASE Call
  BY <1>8 DEF Call, StartInv, EndInv, CallInv, Starting, Ending
<1>9. CASE TestRequests
  BY <1>9 DEF TestRequests, StartInv, EndInv, CallInv, Starting, Ending
<1> QED
  BY <1>1, <1>2, <1>3, <1>4, <1>5, <1>6, <1>7, <1>8, <1>9 DEF OffloadStep

\* Every step of the program preserves the invariant.
LEMMA NextInvariant == IInv /\ [Next]_vars => IInv'
<1>1. ASSUME IInv, UNCHANGED vars
      PROVE  IInv'
  BY <1>1 DEF vars, appVars, opVars, IInv, TypeOK, StartInv, EndInv, CallInv
<1> QED
  BY <1>1, MainInvariant, CallInvariant, OffloadStepInvariant DEF Next, Terminated

\* The invariant holds in every behaviour.
THEOREM Invariance == Spec => []IInv
<1> QED
  BY InitInvariant, NextInvariant, PTL DEF Spec

\* Every variable keeps its type.
THEOREM TypeCorrect == Spec => []TypeOK
<1>1. IInv => TypeOK
  BY DEF IInv
<1> QED
  BY <1>1, Invariance, PTL

\* No thread enters MPI before PMPI_Init_thread has returned or is in MPI after
\* PMPI_Finalize, calls that are not offloaded included: the promise of run and
\* the join of stop suffice.
THEOREM MPIIsInitialized == Spec => []InitializedInMPI
<1>1. IInv => InitializedInMPI
  BY DEF IInv, TypeOK, StartInv, EndInv, InitializedInMPI, InMPI, Alive, Starting, Ending
<1> QED
  BY <1>1, Invariance, PTL

\* PMPI_Finalize is called when no other thread is in MPI and nothing is queued,
\* started or waited for: stop loses nothing.
THEOREM FinalizeIsAlone == Spec => []FinalizeAlone
<1>1. ASSUME IInv, pc[Main] = "finalize"
      PROVE  InMPI = {Main} /\ queue = << >> /\ used = {} /\ command = None
  <2>1. opc = "exited" /\ \A t \in Threads \ {Main} : pc[t] = "idle"
    BY <1>1 DEF IInv, EndInv, Ending
  <2>2. \A t \in Threads : pc[t] # "wait"
    BY <1>1, <2>1
  <2>3. used = {} /\ command = None
    BY <1>1, <2>1, <2>2 DEF IInv, TypeOK, CallInv
  <2>4. queue = << >>
    BY <1>1, <2>2 DEF IInv, TypeOK, CallInv
  <2>5. InMPI = {Main}
    BY <1>1, <2>1 DEF InMPI
  <2> QED
    BY <2>3, <2>4, <2>5
<1>2. IInv => FinalizeAlone
  BY <1>1 DEF FinalizeAlone
<1> QED
  BY <1>2, Invariance, PTL

\* If all communication is offloaded, MPI has one thread at a time in it, also
\* while it is initialized and finalized: the level SERIALIZED suffices.
THEOREM OneThreadAtATime == Spec => []OneThreadInMPI
<1>1. ASSUME IInv, ~DirectCalls
      PROVE  Cardinality(InMPI) <= 1
  <2>1. \A t \in Threads : pc[t] \in {"direct", "finalize"} => t = Main /\ opc = "exited"
    BY <1>1 DEF IInv, EndInv
  <2>2. CASE \E t \in Threads : pc[t] \in {"direct", "finalize"}
    <3>1. InMPI = {Main}
      BY <2>1, <2>2 DEF InMPI
    <3> QED
      BY <3>1, FS_Singleton
  <2>3. CASE \A t \in Threads : pc[t] \notin {"direct", "finalize"}
    <3>1. InMPI = {} \/ InMPI = {OffloadThread}
      BY <2>3 DEF InMPI
    <3>2. Cardinality({}) = 0 /\ Cardinality({OffloadThread}) = 1
      BY FS_EmptySet, FS_Singleton
    <3> QED
      BY <3>1, <3>2
  <2> QED
    BY <2>2, <2>3
<1>2. IInv => OneThreadInMPI
  BY <1>1 DEF OneThreadInMPI
<1> QED
  BY <1>2, Invariance, PTL

-----------------------------------------------------------------------------
(***************************************************************************)
(* The affinity that the offload thread asks for, for texts of any length  *)
(***************************************************************************)
\* What induction on the length of a text comes to.
LEMMA LeastNumber ==
  ASSUME NEW T, T \subseteq Nat, T # {}
  PROVE  \E n \in T : \A k \in T : n <= k
<1>1. PICK n \in T : \A k \in T : <<k, n>> \notin OpToRel(<, Nat)
  BY NatLessThanWellFounded, WFMin
<1>2. \A k \in T : n <= k
  <2>1. ASSUME NEW k \in T, k < n
        PROVE  FALSE
    BY <1>1, <2>1 DEF OpToRel
  <2> QED
    BY <2>1
<1> QED
  BY <1>2

\* A text is a sequence of tokens.
LEMMA TextFacts ==
  ASSUME NEW text \in Texts
  PROVE  /\ Len(text) \in Nat
         /\ \A i \in 1 .. Len(text) : text[i] \in Entries \cup {Comma, Blank, Other}
<1> DEFINE Tokens == Entries \cup {Comma, Blank, Other}
<1>1. PICK n \in 0 .. MaxTokens : text \in [1 .. n -> Tokens]
  BY DEF Texts, BoundedSeq, SeqOf
<1>2. n \in Nat
  BY <1>1, AffinityAssumption
<1>3. text \in Seq(Tokens)
  BY <1>1, <1>2, SeqDef
<1> QED
  BY <1>3, LenProperties, ElementOfSeq

\* sscanf stops at the first token that is no blank, or at the end.
LEMMA TokenFacts ==
  ASSUME NEW text \in Texts, NEW offset \in 0 .. Len(text)
  PROVE  LET i == NextToken(text, offset)
         IN  /\ i \in offset + 1 .. Len(text) + 1
             /\ \A j \in offset + 1 .. i - 1 : text[j] = Blank
             /\ i <= Len(text) => text[i] # Blank
<1>0. Len(text) \in Nat /\ offset \in Nat /\ offset <= Len(text)
  BY TextFacts
<1> DEFINE T == {i \in offset + 1 .. Len(text) + 1 : i <= Len(text) => text[i] # Blank}
<1>1. Len(text) + 1 \in T /\ T \subseteq Nat
  BY <1>0
<1>2. PICK i \in T : \A k \in T : i <= k
  <2> HIDE DEF T
  <2> QED
    BY <1>1, LeastNumber
<1>3. \A j \in offset + 1 .. i - 1 : text[j] = Blank
  <2>1. ASSUME NEW j \in offset + 1 .. i - 1, text[j] # Blank
        PROVE  FALSE
    <3>1. j \in T /\ j < i
      BY <1>0, <2>1
    <3> QED
      BY <1>0, <1>2, <3>1
  <2> QED
    BY <2>1
<1>4. \E k \in offset + 1 .. Len(text) + 1 :
          /\ \A j \in offset + 1 .. k - 1 : text[j] = Blank
          /\ k <= Len(text) => text[k] # Blank
  BY <1>2, <1>3
<1> QED
  BY <1>4 DEF NextToken

\* The loop moves on with every entry and stays in the text.
LEMMA ReadFacts ==
  ASSUME NEW text \in Texts, NEW offset \in 0 .. Len(text), AtEntry(text, offset)
  PROVE  /\ NextToken(text, offset) \in offset + 1 .. Len(text)
         /\ text[NextToken(text, offset)] \in Entries
         /\ Read(text, offset) \in offset + 1 .. Len(text)
<1>0. Len(text) \in Nat
  BY TextFacts
<1>1. PICK i : i = NextToken(text, offset)
  OBVIOUS
<1>2. i \in offset + 1 .. Len(text) + 1 /\ i <= Len(text) /\ text[i] \in Entries
  BY <1>1, TokenFacts DEF AtEntry
<1>3. Read(text, offset) = i \/ (Read(text, offset) = i + 1 /\ i < Len(text))
  BY <1>1 DEF Read
<1> QED
  BY <1>0, <1>1, <1>2, <1>3

\* One turn of the loop at offset, and from there what from tells.
Turn(text, rank, from, offset) ==
    LET entry == text[NextToken(text, offset)]
    IN  IF ~AtEntry(text, offset) THEN {}
        ELSE IF entry.rank = rank THEN {entry.cpu}
        ELSE from[Read(text, offset)]

\* The loop ends: there is a function that tells what it comes to from each offset.
LEMMA LoopEnds ==
  ASSUME NEW text \in Texts, NEW rank
  PROVE  \E from : from = [offset \in 0 .. Len(text) |-> Turn(text, rank, from, offset)]
<1> DEFINE Tells(from, k) == from = [offset \in k .. Len(text) |-> Turn(text, rank, from, offset)]
           Bad == {n \in 0 .. Len(text) + 1 : ~ \E from : Tells(from, Len(text) + 1 - n)}
<1>0. Len(text) \in Nat
  BY TextFacts
<1>1. SUFFICES ASSUME Bad # {}
               PROVE  FALSE
  <2>1. Len(text) + 1 \in 0 .. Len(text) + 1 /\ Len(text) + 1 - (Len(text) + 1) = 0
    BY <1>0
  <2>2. PICK from : Tells(from, Len(text) + 1 - (Len(text) + 1))
    BY <1>1, <2>1
  <2>3. Tells(from, 0)
    BY <2>1, <2>2
  <2> QED
    BY <2>3
<1>2. PICK n \in Bad : \A k \in Bad : n <= k
  <2>1. Bad \subseteq Nat
    BY <1>0
  <2> HIDE DEF Bad
  <2> QED
    BY <1>1, <2>1, LeastNumber
<1>3. n \in 0 .. Len(text) + 1 /\ ~ \E from : Tells(from, Len(text) + 1 - n)
  BY <1>2
<1> DEFINE k == Len(text) + 1 - n
<1>4. CASE n = 0
  <2>1. k .. Len(text) = {}
    BY <1>0, <1>4
  <2>2. Tells([offset \in {} |-> {}], k)
    BY <2>1
  <2> QED
    BY <1>3, <2>2
<1>5. CASE n # 0
  <2>0. n - 1 \notin Bad
    <3>1. n \in Nat /\ ~(n <= n - 1)
      BY <1>0, <1>3
    <3> HIDE DEF Bad
    <3> QED
      BY <1>2, <3>1
  <2>1. n - 1 \in 0 .. Len(text) + 1 /\ n - 1 \notin Bad /\ Len(text) + 1 - (n - 1) = k + 1
    <3>1. n - 1 \in 0 .. Len(text) + 1 /\ Len(text) + 1 - (n - 1) = Len(text) + 1 - n + 1
      <4>1. n \in 0 .. Len(text) + 1
        BY <1>3
      <4> QED
        BY <1>0, <1>5, <4>1
    <3> QED
      BY <2>0, <3>1
  <2>2. PICK from : Tells(from, k + 1)
    BY <2>1
  <2> DEFINE longer == [offset \in k .. Len(text) |-> Turn(text, rank, from, offset)]
  <2>3. k \in 0 .. Len(text)
    BY <1>0, <1>3, <1>5
  <2> HIDE DEF k
  <2>4. \A offset \in k + 1 .. Len(text) : longer[offset] = from[offset]
    <3>1. \A offset \in k + 1 .. Len(text) : from[offset] = Turn(text, rank, from, offset)
      BY <2>2
    <3>2. \A offset \in k + 1 .. Len(text) : offset \in k .. Len(text)
      BY <1>0, <2>3
    <3> QED
      BY <3>1, <3>2
  <2>5. ASSUME NEW offset \in k .. Len(text)
        PROVE  Turn(text, rank, longer, offset) = Turn(text, rank, from, offset)
    <3>1. offset \in 0 .. Len(text)
      BY <1>0, <2>3
    <3>2. AtEntry(text, offset) => Read(text, offset) \in k + 1 .. Len(text)
      BY <1>0, <2>3, <3>1, ReadFacts
    <3>3. AtEntry(text, offset) => longer[Read(text, offset)] = from[Read(text, offset)]
      BY <2>4, <3>2
    <3> HIDE DEF longer
    <3> QED
      BY <3>3 DEF Turn
  <2>6. Tells(longer, k)
    BY <2>5
  <2> QED
    BY <1>3, <2>6 DEF k
<1> QED
  BY <1>4, <1>5

\* What set_offload_thread_affinity looks up is what the loop finds from the start.
LEMMA ScanFacts ==
  ASSUME NEW text \in Texts, NEW rank
  PROVE  \E from : /\ from = [offset \in 0 .. Len(text) |-> Turn(text, rank, from, offset)]
                   /\ Scan(text, rank) = from[0]
<1> DEFINE from == CHOOSE from : from = [offset \in 0 .. Len(text) |-> Turn(text, rank, from, offset)]
<1>1. from = [offset \in 0 .. Len(text) |-> Turn(text, rank, from, offset)]
  BY LoopEnds
<1>2. Scan(text, rank) = from[0]
  BY DEF Scan, Turn
<1> QED
  BY <1>1, <1>2

\* The thread is pinned to a cpu that the text lists for its rank, or to none.
LEMMA ScanFindsOwn ==
  ASSUME NEW text \in Texts, NEW rank
  PROVE  \/ Scan(text, rank) = {}
         \/ \E i \in Own(text, rank) : Scan(text, rank) = {text[i].cpu}
<1> DEFINE Found(set) == set = {} \/ \E i \in Own(text, rank) : set = {text[i].cpu}
<1>0. Len(text) \in Nat
  BY TextFacts
<1>1. PICK from : /\ from = [offset \in 0 .. Len(text) |-> Turn(text, rank, from, offset)]
                  /\ Scan(text, rank) = from[0]
  BY ScanFacts
<1> DEFINE Bad == {n \in 0 .. Len(text) : ~Found(from[Len(text) - n])}
<1>2. CASE Bad = {}
  <2>1. Len(text) \in 0 .. Len(text) /\ Len(text) - Len(text) = 0
    BY <1>0
  <2>2. Found(from[Len(text) - Len(text)])
    BY <1>2, <2>1
  <2>3. Found(from[0])
    BY <2>1, <2>2
  <2> QED
    BY <1>1, <2>3
<1>3. CASE Bad # {}
  <2>1. PICK n \in Bad : \A k \in Bad : n <= k
    <3>1. Bad \subseteq Nat
      BY <1>0
    <3> HIDE DEF Bad
    <3> QED
      BY <1>3, <3>1, LeastNumber
  <2>2. PICK offset : offset = Len(text) - n
    OBVIOUS
  <2>3. offset \in 0 .. Len(text) /\ n \in 0 .. Len(text) /\ ~Found(from[offset])
    BY <1>0, <2>1, <2>2
  <2>4. \A o \in offset + 1 .. Len(text) : Found(from[o])
    <3>1. ASSUME NEW o \in offset + 1 .. Len(text), ~Found(from[o])
          PROVE  FALSE
      <4>1. Len(text) - o \in 0 .. Len(text) /\ Len(text) - (Len(text) - o) = o /\ Len(text) - o < n
        BY <1>0, <2>2, <2>3
      <4>2. Len(text) - o \in Bad
        BY <3>1, <4>1
      <4> QED
        BY <1>0, <2>1, <2>3, <4>1, <4>2
    <3> QED
      BY <3>1
  <2> HIDE DEF Bad, Found
  <2>5. from[offset] = Turn(text, rank, from, offset)
    BY <1>1, <2>3
  <2>6. CASE ~AtEntry(text, offset)
    BY <2>3, <2>5, <2>6 DEF Turn, Found
  <2>7. CASE AtEntry(text, offset)
    <3>1. PICK i : i = NextToken(text, offset)
      OBVIOUS
    <3>2. i \in 1 .. Len(text) /\ text[i] \in Entries
      BY <1>0, <2>3, <2>7, <3>1, ReadFacts
    <3>3. CASE text[i].rank = rank
      <4>1. i \in Own(text, rank)
        BY <3>2, <3>3 DEF Own
      <4>2. from[offset] = {text[i].cpu}
        BY <2>5, <2>7, <3>1, <3>3 DEF Turn
      <4> QED
        BY <2>3, <4>1, <4>2 DEF Found
    <3>4. CASE text[i].rank # rank
      <4>1. from[offset] = from[Read(text, offset)]
        BY <2>5, <2>7, <3>1, <3>4 DEF Turn
      <4> QED
        BY <2>3, <2>4, <2>7, <4>1, ReadFacts
    <3> QED
      BY <3>3, <3>4
  <2> QED
    BY <2>6, <2>7
<1> QED
  BY <1>2, <1>3

\* In a list the loop goes from entry to entry.
LEMMA ListFacts ==
  ASSUME NEW text \in Texts, List(text), NEW offset \in 0 .. Len(text) - 1, offset % 2 = 0
  PROVE  /\ AtEntry(text, offset)
         /\ NextToken(text, offset) = offset + 1
         /\ offset + 1 < Len(text) => Read(text, offset) = offset + 2
<1>0. Len(text) \in Nat /\ offset \in 0 .. Len(text)
  BY TextFacts
<1>1. offset + 1 \in 1 .. Len(text) /\ (offset + 1) % 2 = 1
  BY <1>0
<1>2. text[offset + 1] \in Entries /\ text[offset + 1] # Blank
  BY <1>1, AffinityAssumption DEF List
<1>3. PICK i : i = NextToken(text, offset)
  OBVIOUS
<1>4. /\ i \in offset + 1 .. Len(text) + 1
      /\ \A j \in offset + 1 .. i - 1 : text[j] = Blank
  BY <1>0, <1>3, TokenFacts
<1>5. i = offset + 1
  <2>1. CASE i # offset + 1
    <3>1. offset + 1 \in offset + 1 .. i - 1
      BY <1>0, <1>4, <2>1
    <3> QED
      BY <1>2, <1>4, <3>1
  <2> QED
    BY <2>1
<1>6. AtEntry(text, offset)
  BY <1>1, <1>2, <1>3, <1>5 DEF AtEntry
<1>7. ASSUME offset + 1 < Len(text)
      PROVE  Read(text, offset) = offset + 2
  <2>1. offset + 2 \in 1 .. Len(text) /\ (offset + 2) % 2 # 1
    BY <1>0, <1>7
  <2>2. text[offset + 2] = Comma
    BY <2>1 DEF List
  <2>3. i < Len(text) /\ i + 1 = offset + 2
    BY <1>0, <1>5, <1>7
  <2> QED
    BY <1>3, <2>2, <2>3 DEF Read
<1> QED
  BY <1>3, <1>5, <1>6, <1>7

\* In a list it finds the first entry of the rank.
LEMMA ListScan ==
  ASSUME NEW text \in Texts, List(text), NEW rank, Own(text, rank) # {}
  PROVE  Scan(text, rank) = {FirstOwn(text, rank).cpu}
<1>0. Len(text) \in Nat /\ Own(text, rank) \subseteq Nat
  BY TextFacts DEF Own
<1>1. PICK from : /\ from = [offset \in 0 .. Len(text) |-> Turn(text, rank, from, offset)]
                  /\ Scan(text, rank) = from[0]
  BY ScanFacts
<1>2. PICK first : first = CHOOSE i \in Own(text, rank) : \A j \in Own(text, rank) : i <= j
  OBVIOUS
<1>3. first \in Own(text, rank) /\ \A j \in Own(text, rank) : first <= j
  BY <1>0, <1>2, LeastNumber
<1>4. FirstOwn(text, rank) = text[first]
  BY <1>2 DEF FirstOwn
<1>5. first \in 1 .. Len(text) /\ text[first] \in Entries /\ text[first].rank = rank
  BY <1>3 DEF Own
<1>6. first % 2 = 1
  BY <1>5, AffinityAssumption DEF List
<1> DEFINE Bad == {n \in 0 .. first - 1 : n % 2 = 0 /\ from[first - 1 - n] # {text[first].cpu}}
<1>7. CASE Bad = {}
  <2>1. first - 1 \in 0 .. first - 1 /\ (first - 1) % 2 = 0 /\ first - 1 - (first - 1) = 0
    BY <1>0, <1>5, <1>6
  <2>2. from[first - 1 - (first - 1)] = {text[first].cpu}
    BY <1>7, <2>1
  <2> QED
    BY <1>1, <1>4, <2>1, <2>2
<1>8. CASE Bad # {}
  <2>1. PICK n \in Bad : \A k \in Bad : n <= k
    <3>1. Bad \subseteq Nat
      BY <1>0, <1>5
    <3> HIDE DEF Bad
    <3> QED
      BY <1>8, <3>1, LeastNumber
  <2>2. PICK offset : offset = first - 1 - n
    OBVIOUS
  <2>3. /\ offset \in 0 .. Len(text) - 1 /\ offset \in 0 .. Len(text) /\ offset % 2 = 0
        /\ n \in 0 .. first - 1 /\ n % 2 = 0 /\ from[offset] # {text[first].cpu}
    BY <1>0, <1>5, <1>6, <2>1, <2>2
  <2>4. n # 0 => n - 2 \in 0 .. first - 1 /\ (n - 2) % 2 = 0 /\ first - 1 - (n - 2) = offset + 2
    BY <1>0, <1>5, <2>2, <2>3
  <2>5. n # 0 => from[offset + 2] = {text[first].cpu}
    <3>1. n # 0 => n - 2 \notin Bad
      BY <2>1, <2>3, <2>4
    <3> QED
      BY <2>4, <3>1
  <2> HIDE DEF Bad
  <2>6. from[offset] = Turn(text, rank, from, offset)
    BY <1>1, <2>3
  <2>7. /\ AtEntry(text, offset) /\ NextToken(text, offset) = offset + 1
        /\ offset + 1 < Len(text) => Read(text, offset) = offset + 2
    BY <2>3, ListFacts
  <2>8. CASE n = 0
    <3>1. offset + 1 = first
      BY <1>0, <1>5, <2>2, <2>8
    <3> QED
      BY <1>5, <2>3, <2>6, <2>7, <3>1 DEF Turn
  <2>9. CASE n # 0
    <3>1. offset + 1 \in 1 .. Len(text) /\ offset + 1 < first /\ offset + 1 < Len(text)
      BY <1>0, <1>5, <2>2, <2>3, <2>9
    <3>2. text[offset + 1] \in Entries
      BY <2>7 DEF AtEntry
    <3>3. text[offset + 1].rank # rank
      <4>1. offset + 1 \notin Own(text, rank)
        BY <1>0, <1>3, <1>5, <2>3, <3>1
      <4> QED
        BY <3>1, <3>2, <4>1 DEF Own
    <3>4. from[offset] = from[offset + 2]
      BY <2>6, <2>7, <3>1, <3>3 DEF Turn
    <3> QED
      BY <2>3, <2>5, <2>9, <3>4
  <2> QED
    BY <2>8, <2>9
<1> QED
  BY <1>7, <1>8

\* A list is honoured, however long it is: the thread is pinned to the cpu of the
\* first entry with its rank, if the system has that cpu, and otherwise not.
THEOREM AListIsHonoured == Spec => []ListHonoured
<1>1. ASSUME NEW text \in Texts, List(text), NEW rank \in Ranks
      PROVE  LET own == Own(text, rank)
             IN  Pinned(text, rank) = IF own # {} /\ FirstOwn(text, rank).cpu \in Usable
                                      THEN {FirstOwn(text, rank).cpu} ELSE Cpus
  <2>1. CASE Own(text, rank) = {}
    BY <2>1, ScanFindsOwn DEF Pinned
  <2>2. CASE Own(text, rank) # {}
    BY <1>1, <2>2, ListScan DEF Pinned
  <2> QED
    BY <2>1, <2>2
<1>2. ListHonoured
  BY <1>1 DEF ListHonoured
<1> QED
  BY <1>2, PTL

\* No cpu is invented, whatever stands in the variable: the thread is pinned to a
\* cpu that is listed for its rank or not at all, and what is displayed is true.
THEOREM NoCpuIsInvented == Spec => []NothingInvented
<1>1. ASSUME NEW text \in Texts, NEW rank \in Ranks
      PROVE  Pinned(text, rank) # Cpus =>
                 \E i \in Own(text, rank) : Pinned(text, rank) = {text[i].cpu}
  BY ScanFindsOwn DEF Pinned
<1>2. ASSUME NEW text \in Texts, NEW rank \in Ranks, NEW display \in Displays,
             Shown(text, rank, display) # {}
      PROVE  Shown(text, rank, display) = Pinned(text, rank)
  <2>1. Shown(text, rank, display) = Scan(text, rank) \cap Usable
    BY <1>2 DEF Shown
  <2>2. PICK cpu : Scan(text, rank) = {cpu}
    BY <1>2, <2>1, ScanFindsOwn
  <2>3. cpu \in Usable
    BY <1>2, <2>1, <2>2
  <2> QED
    BY <2>1, <2>2, <2>3 DEF Pinned
<1>3. NothingInvented
  BY <1>1, <1>2 DEF NothingInvented
<1> QED
  BY <1>3, PTL
=============================================================================
