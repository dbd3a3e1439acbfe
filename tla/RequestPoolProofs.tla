-------------------------- MODULE RequestPoolProofs -------------------------
(***************************************************************************)
(* For every number of threads and slots the free list implements the pool *)
(* that the offload engine is modelled with.                               *)
(***************************************************************************)
EXTENDS RequestPool, SequenceTheorems, TLAPS

\* The slot acquire looks at stays in the list, and so does its successor.
AcquireInv ==
    /\ apc # "idle" => old_head \in Free \cup {INVALID_INDEX}
    /\ apc = "cas" => old_head # INVALID_INDEX /\ next = nexts[old_head]

PoolInv == TypeOK /\ Linked /\ EverySlotOnce /\ AcquireInv

USE RequestPoolAssumption

\* Slot 0 is a slot too, and INVALID_INDEX is none.
LEMMA SlotFacts == Usable \subseteq Slots /\ INVALID_INDEX \notin Usable
  BY DEF Usable, Slots

\* A release that is under way has a slot of its own, not in the list.
LEMMA ReleasingFacts ==
  ASSUME EverySlotOnce, NEW t \in Releasers, rpc[t] # "idle"
  PROVE  ridx[t] \in Usable /\ ridx[t] \in Releasing /\ ridx[t] \notin Free \cup held
<1>1. ridx[t] \in Releasing
  BY DEF Releasing
<1> QED
  BY <1>1 DEF EverySlotOnce

\* The constructor's list.
LEMMA InitPool == Init => PoolInv
<1> SUFFICES ASSUME Init
             PROVE  PoolInv
  OBVIOUS
<1>1. /\ list \in Seq(Usable) /\ Len(list) = PoolSize - 1
      /\ \A i \in 1 .. PoolSize - 1 : list[i] = i
  BY DEF Init, Usable
<1>2. Free = Usable
  BY <1>1 DEF Free, Usable
<1>3. TypeOK
  BY <1>1 DEF Init, TypeOK, Usable, Slots
<1>4. Linked
  <2>1. head = IF list = << >> THEN INVALID_INDEX ELSE list[1]
    <3>1. list = << >> <=> PoolSize - 1 = 0
      BY <1>1
    <3>2. Usable = {} <=> PoolSize - 1 = 0
      BY DEF Usable
    <3>3. PoolSize - 1 # 0 => list[1] = 1
      BY <1>1
    <3> QED
      BY <3>1, <3>2, <3>3 DEF Init
  <2>2. \A i \in 1 .. PoolSize - 1 :
           nexts[i] = IF i = PoolSize - 1 THEN INVALID_INDEX ELSE i + 1
    BY DEF Init, Slots
  <2> QED
    BY <1>1, <2>1, <2>2 DEF Linked
<1>5. held = {} /\ Releasing = {}
  BY DEF Init, Releasing
<1>6. EverySlotOnce
  BY <1>1, <1>2, <1>5 DEF Init, EverySlotOnce
<1>7. AcquireInv
  BY DEF Init, AcquireInv
<1> QED
  BY <1>3, <1>4, <1>6, <1>7 DEF PoolInv

\* release takes its slot from the holder: it changes hands.
LEMMA ReleaseStep ==
  ASSUME PoolInv, NEW t \in Releasers, NEW s \in Slots, Release(t, s)
  PROVE  PoolInv' /\ UNCHANGED list
<1> USE DEF Release, acqVars
<1>1. s \in Usable /\ s \notin Free /\ s \notin Releasing
  BY DEF PoolInv, TypeOK, EverySlotOnce
<1>2. TypeOK' /\ UNCHANGED list
  BY <1>1 DEF PoolInv, TypeOK
<1>3. Free' = Free
  BY DEF Free
<1>4. Linked' /\ AcquireInv'
  BY <1>3 DEF PoolInv, Linked, AcquireInv
<1>5. Releasing' = Releasing \cup {s}
  BY DEF PoolInv, TypeOK, Releasing
<1>6. \A u \in Releasers : rpc[u] # "idle" => ridx[u] # s /\ u # t
  BY <1>1 DEF Releasing
<1>7. \A u, v \in Releasers :
         (rpc[u] # "idle" /\ rpc[v] # "idle" /\ ridx[u] = ridx[v])' => u = v
  BY <1>6 DEF PoolInv, TypeOK, EverySlotOnce
<1>8. EverySlotOnce'
  BY <1>1, <1>3, <1>5, <1>7 DEF PoolInv, EverySlotOnce
<1> QED
  BY <1>2, <1>4, <1>8 DEF PoolInv

\* The link that release stores is not one of the list's.
LEMMA ReleaseLinkStep ==
  ASSUME PoolInv, NEW t \in Releasers, ReleaseLink(t)
  PROVE  PoolInv' /\ UNCHANGED list
<1> USE DEF ReleaseLink, acqVars
<1>1. ridx[t] \in Usable /\ ridx[t] \notin Free
  BY ReleasingFacts DEF PoolInv
<1>2. TypeOK' /\ UNCHANGED list
  BY <1>1, SlotFacts DEF PoolInv, TypeOK
<1>3. Free' = Free /\ Releasing' = Releasing
  BY DEF PoolInv, TypeOK, Free, Releasing
<1>4. \A s \in Free : s \in Usable /\ nexts'[s] = nexts[s]
  BY <1>1, SlotFacts DEF PoolInv, TypeOK, EverySlotOnce
<1>5. Linked'
  BY <1>4 DEF PoolInv, Linked, Free
<1>6. AcquireInv'
  BY <1>3, <1>4 DEF PoolInv, AcquireInv
<1>7. EverySlotOnce'
  BY <1>3 DEF PoolInv, TypeOK, EverySlotOnce
<1> QED
  BY <1>2, <1>5, <1>6, <1>7 DEF PoolInv

\* The exchange puts the released slot at the head of the list.
LEMMA ReleaseCasStep ==
  ASSUME PoolInv, NEW t \in Releasers, ReleaseCas(t)
  PROVE  PoolInv' /\ ridx[t] \in Usable /\ Free' = Free \cup {ridx[t]}
<1> USE DEF ReleaseCas, acqVars
<1> DEFINE s == ridx[t]
<1>1. s \in Usable /\ s \in Releasing /\ s \notin Free \cup held
  BY ReleasingFacts DEF PoolInv
<1>2. /\ list' \in Seq(Usable) /\ Len(list') = Len(list) + 1 /\ Len(list) \in Nat
      /\ list'[1] = s
      /\ \A i \in 1 .. Len(list) : list'[i + 1] = list[i]
  BY <1>1 DEF PoolInv, TypeOK, Cons
<1>3. \A i \in 1 .. Len(list') : i = 1 \/ (i - 1 \in 1 .. Len(list) /\ list'[i] = list[i - 1])
  BY <1>2
<1>4. TypeOK'
  BY <1>1, <1>2 DEF PoolInv, TypeOK
<1>5. Free' = Free \cup {s}
  <2>1. Free' \subseteq Free \cup {s}
    BY SMTT(30), <1>2, <1>3 DEF Free
  <2>2. \A i \in 1 .. Len(list) : list[i] \in Free'
    <3>1. \A i \in 1 .. Len(list) : i + 1 \in 1 .. Len(list') /\ list'[i + 1] = list[i]
      BY <1>2
    <3> QED
      BY <3>1 DEF Free
  <2>3. s \in Free'
    BY <1>2 DEF Free
  <2> QED
    BY <2>1, <2>2, <2>3 DEF Free
<1>6. Linked'
  <2>1. nexts[s] = IF list = << >> THEN INVALID_INDEX ELSE list[1]
    BY DEF PoolInv, Linked
  <2>2. list = << >> <=> Len(list) = 0
    BY DEF PoolInv, TypeOK
  <2>3. list' # << >> /\ head' = s /\ nexts' = nexts
    BY <1>2
  <2>4. ASSUME NEW i \in 1 .. Len(list')
        PROVE  nexts[list'[i]] = IF i = Len(list') THEN INVALID_INDEX ELSE list'[i + 1]
    <3>1. CASE i = 1
      BY <1>2, <2>1, <2>2, <3>1
    <3>2. CASE i # 1
      <4>1. i - 1 \in 1 .. Len(list) /\ list'[i] = list[i - 1]
        BY <1>3, <3>2
      <4>2. nexts[list[i - 1]] = IF i - 1 = Len(list) THEN INVALID_INDEX ELSE list[(i - 1) + 1]
        BY <4>1 DEF PoolInv, Linked
      <4>3. i # Len(list') => i \in 1 .. Len(list) /\ list'[i + 1] = list[i]
        BY <1>2
      <4> QED
        BY <1>2, <4>1, <4>2, <4>3
    <3> QED
      BY <3>1, <3>2
  <2> QED
    BY <1>2, <2>3, <2>4 DEF Linked
<1>7. AcquireInv'
  BY <1>5 DEF PoolInv, AcquireInv
<1>8. Releasing' = Releasing \ {s}
  <2>1. \A u \in Releasers : rpc'[u] # "idle" <=> rpc[u] # "idle" /\ u # t
    BY DEF PoolInv, TypeOK
  <2>2. \A u \in Releasers : u # t => ridx'[u] = ridx[u]
    BY DEF PoolInv, TypeOK
  <2>3. \A u \in Releasers : rpc[u] # "idle" /\ u # t => ridx[u] # s
    BY DEF PoolInv, EverySlotOnce
  <2> QED
    BY <2>1, <2>2, <2>3 DEF Releasing
<1>9. EverySlotOnce'
  <2>1. ASSUME NEW i \in 1 .. Len(list'), NEW j \in 1 .. Len(list'), list'[i] = list'[j]
        PROVE  i = j
    <3>1. \A k \in 1 .. Len(list) : list[k] # s
      BY <1>1 DEF Free
    <3>2. i = 1 <=> j = 1
      BY <1>2, <1>3, <2>1, <3>1
    <3>3. \A k, l \in 1 .. Len(list) : list[k] = list[l] => k = l
      BY DEF PoolInv, EverySlotOnce
    <3> QED
      BY <1>3, <2>1, <3>2, <3>3
  <2>2. \A u, v \in Releasers :
           (rpc[u] # "idle" /\ rpc[v] # "idle" /\ ridx[u] = ridx[v])' => u = v
    BY DEF PoolInv, TypeOK, EverySlotOnce
  <2> HIDE DEF ReleaseCas
  <2>3. held' = held
    BY DEF ReleaseCas
  <2> QED
    BY <1>1, <1>5, <1>8, <2>1, <2>2, <2>3 DEF PoolInv, EverySlotOnce
<1> QED
  BY <1>1, <1>4, <1>5, <1>6, <1>7, <1>9 DEF PoolInv

\* A failed exchange changes nothing but what the thread expects.
LEMMA ReleaseRetryStep ==
  ASSUME PoolInv, NEW t \in Releasers, ReleaseRetry(t)
  PROVE  PoolInv' /\ UNCHANGED list
<1> USE DEF ReleaseRetry, acqVars
<1>1. TypeOK' /\ UNCHANGED list
  BY DEF PoolInv, TypeOK
<1>2. Free' = Free /\ Releasing' = Releasing
  BY DEF PoolInv, TypeOK, Free, Releasing
<1>3. Linked' /\ AcquireInv'
  BY <1>2 DEF PoolInv, Linked, AcquireInv
<1>4. EverySlotOnce'
  BY <1>2 DEF PoolInv, TypeOK, EverySlotOnce
<1> QED
  BY <1>1, <1>3, <1>4 DEF PoolInv

\* Until its exchange acquire only reads.
LEMMA AcquireReadStep ==
  ASSUME PoolInv, AcquireHead \/ AcquireNone \/ AcquireNext \/ AcquireRetry
  PROVE  PoolInv' /\ UNCHANGED list
<1>1. UNCHANGED <<head, nexts, held, relVars, list>>
  BY DEF AcquireHead, AcquireNone, AcquireNext, AcquireRetry
<1>2. Free' = Free /\ Releasing' = Releasing /\ head \in Free \cup {INVALID_INDEX}
  <2>1. head \in Free \cup {INVALID_INDEX}
    BY DEF PoolInv, TypeOK, Linked, Free
  <2> QED
    BY <1>1, <2>1 DEF Free, Releasing, relVars
<1>3. Linked' /\ EverySlotOnce'
  BY <1>1, <1>2 DEF PoolInv, Linked, EverySlotOnce, relVars
<1>4. \A s \in Free : nexts[s] \in Usable \cup {INVALID_INDEX}
  <2>1. \A i \in 1 .. Len(list) :
           i # Len(list) => i + 1 \in 1 .. Len(list) /\ list[i + 1] \in Usable
    BY DEF PoolInv, TypeOK
  <2> QED
    BY <2>1 DEF PoolInv, Linked, Free
<1>5. TypeOK' /\ AcquireInv'
  <2>1. CASE AcquireHead
    BY <1>1, <1>2, <2>1 DEF PoolInv, TypeOK, AcquireInv, AcquireHead, relVars
  <2>2. CASE AcquireNone
    BY <1>1, <1>2, <2>2 DEF PoolInv, TypeOK, AcquireInv, AcquireNone, relVars
  <2>3. CASE AcquireNext
    <3>1. old_head \in Free
      BY <2>3 DEF PoolInv, AcquireInv, AcquireNext
    <3> QED
      BY <1>1, <1>2, <1>4, <2>3, <3>1 DEF PoolInv, TypeOK, AcquireInv, AcquireNext, relVars
  <2>4. CASE AcquireRetry
    BY <1>1, <1>2, <2>4 DEF PoolInv, TypeOK, AcquireInv, AcquireRetry, relVars
  <2> QED
    BY <2>1, <2>2, <2>3, <2>4
<1> QED
  BY <1>1, <1>3, <1>5 DEF PoolInv

\* The exchange takes the first slot of the list.
LEMMA AcquireCasStep ==
  ASSUME PoolInv, AcquireCas
  PROVE  PoolInv' /\ old_head \in Free /\ Free' = Free \ {old_head}
<1> USE DEF AcquireCas, relVars
<1>1. list # << >> /\ list[1] = old_head /\ old_head \in Free
  BY DEF PoolInv, TypeOK, AcquireInv, Linked
<1>2. /\ list' \in Seq(Usable) /\ Len(list') = Len(list) - 1
      /\ Len(list) \in Nat /\ Len(list) >= 1
      /\ \A i \in 1 .. Len(list') : i + 1 \in 1 .. Len(list) /\ list'[i] = list[i + 1]
  BY <1>1 DEF PoolInv, TypeOK
<1>3. \A i, j \in 1 .. Len(list) : list[i] = list[j] => i = j
  BY DEF PoolInv, EverySlotOnce
<1>4. Free' = Free \ {old_head}
  <2>1. Free' \subseteq Free
    BY <1>2 DEF Free
  <2>2. old_head \notin Free'
    BY <1>1, <1>2, <1>3 DEF Free
  <2>3. ASSUME NEW i \in 1 .. Len(list), list[i] # old_head
        PROVE  list[i] \in Free'
    <3>1. i - 1 \in 1 .. Len(list') /\ list'[i - 1] = list[i]
      BY <1>1, <1>2, <2>3
    <3> QED
      BY <3>1 DEF Free
  <2> QED
    BY <2>1, <2>2, <2>3 DEF Free
<1>5. TypeOK'
  <2>1. old_head \in Usable
    BY <1>1, <1>2 DEF PoolInv, TypeOK
  <2> QED
    BY <1>2, <2>1 DEF PoolInv, TypeOK
<1>6. Linked'
  <2>0. \A i \in 1 .. Len(list) :
           nexts[list[i]] = IF i = Len(list) THEN INVALID_INDEX ELSE list[i + 1]
    BY DEF PoolInv, Linked
  <2>1. nexts[list[1]] = IF 1 = Len(list) THEN INVALID_INDEX ELSE list[1 + 1]
    <3>1. 1 \in 1 .. Len(list)
      BY <1>2
    <3> HIDE DEF AcquireCas
    <3> QED
      BY <2>0, <3>1, Zenon
  <2>2. head' = IF list' = << >> THEN INVALID_INDEX ELSE list'[1]
    <3>1. head' = nexts[list[1]]
      BY <1>1 DEF PoolInv, AcquireInv
    <3> HIDE DEF AcquireCas
    <3>2. list' = << >> <=> Len(list) = 1
      BY <1>2
    <3>3. Len(list) # 1 => list'[1] = list[1 + 1]
      <4>1. Len(list) # 1 => 1 \in 1 .. Len(list')
        BY <1>2
      <4> QED
        BY <1>2, <4>1
    <3> QED
      BY <2>1, <3>1, <3>2, <3>3
  <2>3. ASSUME NEW i \in 1 .. Len(list')
        PROVE  nexts[list'[i]] = IF i = Len(list') THEN INVALID_INDEX ELSE list'[i + 1]
    <3>1. nexts[list[i + 1]] = IF i + 1 = Len(list) THEN INVALID_INDEX ELSE list[(i + 1) + 1]
      BY <1>2, <2>0
    <3> HIDE DEF AcquireCas
    <3>2. i # Len(list') => i + 1 \in 1 .. Len(list')
      BY <1>2
    <3>3. i # Len(list') => list'[i + 1] = list[(i + 1) + 1]
      BY <1>2, <3>2
    <3>4. list'[i] = list[i + 1] /\ (i = Len(list') <=> i + 1 = Len(list))
      BY <1>2
    <3> QED
      BY <3>1, <3>3, <3>4
  <2> QED
    BY <2>2, <2>3 DEF Linked
<1>7. AcquireInv'
  BY DEF AcquireInv
<1>8. Releasing' = Releasing
  BY DEF Releasing
<1>9. EverySlotOnce'
  <2>1. \A i, j \in 1 .. Len(list') : list'[i] = list'[j] => i = j
    BY <1>2, <1>3
  <2> QED
    BY <1>1, <1>4, <1>8, <2>1 DEF PoolInv, EverySlotOnce
<1> QED
  BY <1>1, <1>4, <1>5, <1>6, <1>7, <1>9 DEF PoolInv

\* Every step keeps the invariant, and is one of the abstract pool or none.
LEMMA NextPool ==
  ASSUME PoolInv, [Next]_vars
  PROVE  PoolInv' /\ [Abstract!Next]_Free
<1> USE DEF Abstract!Next, Abstract!Acquire, Abstract!Release, Abstract!Slots
<1>1. UNCHANGED list => Free' = Free
  BY DEF Free
<1>2. ASSUME NEW t \in Releasers, NEW s \in Slots, Release(t, s)
      PROVE  PoolInv' /\ [Abstract!Next]_Free
  BY <1>1, <1>2, ReleaseStep
<1>3. ASSUME NEW t \in Releasers, ReleaseLink(t) \/ ReleaseRetry(t)
      PROVE  PoolInv' /\ [Abstract!Next]_Free
  BY <1>1, <1>3, ReleaseLinkStep, ReleaseRetryStep
<1>4. ASSUME NEW t \in Releasers, ReleaseCas(t)
      PROVE  PoolInv' /\ [Abstract!Next]_Free
  BY <1>4, ReleaseCasStep, SlotFacts DEF Slots
<1>5. CASE AcquireHead \/ AcquireNone \/ AcquireNext \/ AcquireRetry
  BY <1>1, <1>5, AcquireReadStep
<1>6. CASE AcquireCas
  <2>1. old_head \in Slots
    BY <1>6, AcquireCasStep, SlotFacts DEF PoolInv, TypeOK, AcquireCas, EverySlotOnce
  <2> QED
    BY <1>6, <2>1, AcquireCasStep DEF Slots
<1>7. CASE UNCHANGED vars
  <2> USE <1>7 DEF vars, acqVars, relVars
  <2>1. Free' = Free /\ Releasing' = Releasing /\ UNCHANGED list
    BY DEF Free, Releasing
  <2>2. TypeOK' /\ Linked'
    BY DEF PoolInv, TypeOK, Linked
  <2>3. EverySlotOnce' /\ AcquireInv'
    BY <2>1 DEF PoolInv, EverySlotOnce, AcquireInv
  <2> QED
    BY <2>1, <2>2, <2>3 DEF PoolInv
<1> QED
  BY <1>2, <1>3, <1>4, <1>5, <1>6, <1>7 DEF Next

\* The invariant holds in every behaviour.
LEMMA PoolInvariance == Spec => []PoolInv
<1> QED
  BY InitPool, NextPool, PTL DEF Spec

\* The indexes in head_ and nexts_ stay inside the arrays.
THEOREM PoolTypeCorrect == Spec => []TypeOK
<1>1. PoolInv => TypeOK
  BY DEF PoolInv
<1> QED
  BY <1>1, PoolInvariance, PTL

\* Whatever exchanges fail, head_ and nexts_ spell a list that ends.
THEOREM ListStaysLinked == Spec => []Linked
<1>1. PoolInv => Linked
  BY DEF PoolInv
<1> QED
  BY <1>1, PoolInvariance, PTL

\* No slot is lost, duplicated or in the list while somebody has it, whatever
\* exchanges fail: release and acquire of RequestPool.
THEOREM SlotsAreInOnePlace == Spec => []EverySlotOnce
<1>1. PoolInv => EverySlotOnce
  BY DEF PoolInv
<1> QED
  BY <1>1, PoolInvariance, PTL

\* With one acquiring thread the stack has no ABA problem.
THEOREM SingleConsumerHasNoAba == Spec => []NoAba
<1>1. PoolInv => NoAba
  BY DEF PoolInv, AcquireInv, NoAba
<1> QED
  BY <1>1, PoolInvariance, PTL

\* The lock-free list implements the set of free slots of the engine's model.
THEOREM ListImplementsPool == Spec => ImplementsSlotPool
<1>1. Init => Abstract!Init
  <2>1. ASSUME Init
        PROVE  Free = Usable
    <3>1. Free \cup held \cup Releasing = Usable
      BY <2>1, InitPool DEF PoolInv, EverySlotOnce
    <3> QED
      BY <2>1, <3>1 DEF Init, Releasing
  <2> QED
    BY <2>1 DEF Abstract!Init, Abstract!Usable, Usable
<1>2. PoolInv /\ [Next]_vars => [Abstract!Next]_Free
  BY NextPool
<1>3. PoolInv /\ [Next]_vars => [HandsOut]_vars
  <2> SUFFICES ASSUME PoolInv, Next
               PROVE  HandsOut
    OBVIOUS
  <2>1. UNCHANGED list => Free' = Free
    BY DEF Free
  <2>2. ASSUME NEW t \in Releasers, NEW s \in Slots, Release(t, s)
        PROVE  HandsOut
    BY <2>1, <2>2 DEF Release, HandsOut
  <2>3. ASSUME NEW t \in Releasers, ReleaseLink(t) \/ ReleaseRetry(t)
        PROVE  HandsOut
    BY <2>1, <2>3 DEF ReleaseLink, ReleaseRetry, HandsOut
  <2>4. ASSUME NEW t \in Releasers, ReleaseCas(t)
        PROVE  HandsOut
    BY <2>4, ReleaseCasStep DEF ReleaseCas, HandsOut
  <2>5. CASE AcquireHead \/ AcquireNone \/ AcquireNext \/ AcquireRetry
    BY <2>1, <2>5 DEF AcquireHead, AcquireNone, AcquireNext, AcquireRetry, HandsOut
  <2>6. CASE AcquireCas
    <3>1. old_head \in Free /\ Free' = Free \ {old_head} /\ Free \cap held = {}
      BY <2>6, AcquireCasStep DEF PoolInv, EverySlotOnce
    <3> QED
      BY <2>6, <3>1 DEF AcquireCas, HandsOut
  <2> QED
    BY <2>2, <2>3, <2>4, <2>5, <2>6 DEF Next
<1> QED
  BY <1>1, <1>2, <1>3, PoolInvariance, PTL
  DEF Spec, ImplementsSlotPool, Abstract!Spec
=============================================================================
