-------------------------- MODULE AtomicQueueProofs -------------------------
(***************************************************************************)
(* The ring as a queue, for any size, number of producers and wrap of the  *)
(* counters.  With at most Size commands outstanding the positions between *)
(* tail_ and head_ are a window of different cells, and the window is the  *)
(* first-in first-out queue that the engine relies on.  The types hold     *)
(* beyond that: also when more commands are outstanding than it has cells  *)
(* every index stays in the arrays, and the exchange on tail_ succeeds.    *)
(* The end is about the remapping of indexes that the code gives the ring. *)
(***************************************************************************)
EXTENDS AtomicQueue, RingDigits, FiniteSetTheorems, SequenceTheorems, TLAPS

\* A thread in push has a command, and nobody moves tail_ but the one consumer.
IInv ==
    /\ TypeOK
    /\ \A p \in Producers : ppc[p] = "store" => pushed[p] \in 1 .. MaxPushes
    /\ cpc = "claim" => tail = ctail

\* A counter that wraps around stays below Wrap.
LEMMA WrapFacts ==
  ASSUME NEW n \in Int
  PROVE  n % Wrap \in 0 .. Wrap - 1
<1>1. Wrap \in Nat \ {0}
  BY RingAssumption
<1> QED
  BY <1>1

\* What a cell holds is a command or NIL.
LEMMA CellFacts ==
  ASSUME TypeOK, NEW pos \in 0 .. Wrap - 1
  PROVE  Cell(pos) \in Cells /\ elements[Cell(pos)] \in Items \cup {NIL}
<1>1. Size \in Nat \ {0} /\ pos \in Int
  BY RingAssumption
<1>2. pos % Size \in Cells
  BY <1>1 DEF Cells
<1> QED
  BY <1>2, RingAssumption DEF Cell, TypeOK

\* The two steps of push.
LEMMA PushInvariant ==
  ASSUME IInv, NEW p \in Producers, PushClaim(p) \/ PushStore(p)
  PROVE  IInv'
<1> USE DEF IInv, TypeOK
<1>1. CASE PushClaim(p)
  <2>1. head' \in 0 .. Wrap - 1
    BY <1>1, WrapFacts DEF PushClaim
  <2>2. pushed[p] + 1 \in 1 .. MaxPushes
    BY <1>1, RingAssumption DEF PushClaim
  <2> QED
    BY <1>1, <2>1, <2>2, RingAssumption DEF PushClaim
<1>2. CASE PushStore(p)
  <2>1. <<p, pushed[p]>> \in Items
    BY <1>2 DEF PushStore, Items
  <2>2. elements' \in [Cells -> Items \cup {NIL}]
    BY <1>2, <2>1 DEF PushStore
  <2> QED
    BY <1>2, <2>2 DEF PushStore
<1> QED
  BY <1>1, <1>2

\* The steps of try_pop.
LEMMA PopInvariant ==
  ASSUME IInv, Pop
  PROVE  IInv'
<1> USE DEF IInv, TypeOK
<1>1. CASE PopCheck
  BY <1>1 DEF PopCheck
<1>2. CASE PopClaim
  <2>1. tail' \in 0 .. Wrap - 1
    BY <1>2, WrapFacts DEF PopClaim
  <2> QED
    BY <1>2, <2>1 DEF PopClaim
<1>3. CASE PopTake
  <2>1. elements[Cell(ctail)] \in Items
    BY <1>3, CellFacts DEF PopTake
  <2>2. elements[Cell(ctail)][1] \in Producers /\ elements[Cell(ctail)][2] \in 0 .. MaxPushes
    BY <2>1, RingAssumption DEF Items
  <2>3. elements' \in [Cells -> Items \cup {NIL}] /\ popped' \in [Producers -> 0 .. MaxPushes]
    BY <1>3, <2>2 DEF PopTake
  <2> QED
    BY <1>3, <2>3 DEF PopTake
<1> QED
  BY <1>1, <1>2, <1>3 DEF Pop

\* Every step of the ring preserves the invariant.
LEMMA NextInvariant == IInv /\ [Next]_vars => IInv'
<1>1. ASSUME IInv, UNCHANGED vars
      PROVE  IInv'
  BY <1>1 DEF vars, IInv, TypeOK
<1> QED
  BY <1>1, PushInvariant, PopInvariant DEF Next, PopNone

\* The invariant holds of the empty ring.
LEMMA InitInvariant == Init => IInv
<1> SUFFICES ASSUME Init
             PROVE  IInv
  OBVIOUS
<1>1. 0 \in 0 .. Wrap - 1 /\ 0 \in 0 .. MaxPushes
  BY RingAssumption
<1> QED
  BY <1>1 DEF Init, IInv, TypeOK

\* head_ and tail_ stay 32-bit counters, every cell holds a pushed command or
\* NIL, and no command comes out that was not pushed, whatever Capacity is.
THEOREM TypeCorrect == Spec => []TypeOK
<1>1. IInv => TypeOK
  BY DEF IInv
<1> QED
  BY <1>1, InitInvariant, NextInvariant, PTL DEF Spec

-----------------------------------------------------------------------------
(***************************************************************************)
(* With at most Size commands outstanding the ring is a queue.             *)
(***************************************************************************)
Positions == 0 .. Wrap - 1

\* The oldest position that is in use: try_pop empties its cell only after it
\* has advanced tail_.
Base == IF cpc = "take" THEN ctail ELSE tail

\* How far pos is behind Base, around the wrap of the counters.
Offset(pos) == (pos - Base) % Wrap

\* The positions that are claimed and not yet emptied.
Window == {pos \in Positions : Offset(pos) < Offset(head)}

Claims(p, pos) == ppc[p] = "store" /\ claimed[p] = pos

\* There are as many positions in use as there are commands outstanding, and
\* try_pop works at the oldest of them.
WindowInv ==
    /\ Offset(head) <= Size
    /\ cpc = "take" => tail = (ctail + 1) % Wrap /\ head # ctail
    /\ cpc = "claim" => head # tail /\ ctail = tail
    /\ IsFiniteSet(Outstanding) /\ Cardinality(Outstanding) = Offset(head)

\* A cell is filled only for a position in use, and the cell of such a position
\* is empty exactly while the thread that claimed it has not stored.
CellInv ==
    /\ \A c \in Cells : elements[c] # NIL => \E pos \in Window : Cell(pos) = c
    /\ \A pos \in Window : elements[Cell(pos)] = NIL <=> \E p \in Producers : Claims(p, pos)

\* No two threads have claimed one position.
ClaimInv ==
    \A p \in Producers : ppc[p] = "store" =>
        /\ claimed[p] \in Window
        /\ \A q \in Producers : Claims(q, claimed[p]) => p = q

\* The positions in use hold the outstanding commands, those of one thread in
\* the order of its pushes.
ItemInv ==
    /\ \A pos \in Window : ElementAt(pos) \in Outstanding
    /\ \A e \in Outstanding : \E pos \in Window : ElementAt(pos) = e
    /\ \A pos1, pos2 \in Window :
          ElementAt(pos1)[1] = ElementAt(pos2)[1] /\ Offset(pos1) < Offset(pos2)
             => ElementAt(pos1)[2] < ElementAt(pos2)[2]

RingInv ==
    /\ WindowInv /\ CellInv /\ ClaimInv /\ ItemInv
    /\ \A p \in Producers : popped[p] <= pushed[p]

\* The remainder of a number that left the range of the counters by one turn.
LEMMA ModCases ==
  ASSUME NEW x \in (0 - Wrap) .. 2 * Wrap - 1
  PROVE  x % Wrap = IF x < 0 THEN x + Wrap ELSE IF x < Wrap THEN x ELSE x - Wrap
<1>1. Wrap \in Nat \ {0}
  BY RingAssumption
<1> QED
  BY <1>1

\* Two positions of one cell differ by a multiple of the size.
LEMMA SameCell ==
  ASSUME NEW x \in Positions, NEW y \in Positions, Cell(x) = Cell(y)
  PROVE  \E k \in Int : x - y = k * Size
<1>1. Size \in Nat \ {0} /\ x \in Int /\ y \in Int
  BY RingAssumption DEF Positions
<1>2. x % Size \in Cells /\ y % Size \in Cells
  BY <1>1 DEF Cells
<1>3. x % Size = y % Size
  BY <1>2, RingAssumption DEF Cell
<1>4. /\ x = Size * (x \div Size) + (x % Size)
      /\ y = Size * (y \div Size) + (y % Size)
      /\ x \div Size \in Int /\ y \div Size \in Int
  BY <1>1
<1>5. x - y = (x \div Size - y \div Size) * Size
  BY <1>1, <1>3, <1>4
<1> QED
  BY <1>4, <1>5

\* The wrap of the counters is at a multiple of the size.
LEMMA WrapMultiple == \E m \in Nat : Wrap = m * Size
<1>1. Size \in Nat \ {0} /\ Wrap \in Nat /\ Wrap % Size = 0
  BY RingAssumption
<1>2. Wrap = Size * (Wrap \div Size) + (Wrap % Size) /\ Wrap \div Size \in Nat
  BY <1>1
<1> QED
  BY <1>1, <1>2

\* Zero is the only multiple of the size that is smaller than the size.
LEMMA SmallMultiple ==
  ASSUME NEW k \in Int, k * Size < Size, k * Size > 0 - Size
  PROVE  k = 0
<1>1. Size \in Nat \ {0}
  BY RingAssumption
<1>2. k < 1 /\ k > -1
  BY <1>1
<1> QED
  BY <1>2

\* The circular difference of two positions without the remainder.
LEMMA DifferenceFacts ==
  ASSUME NEW x \in Positions, NEW y \in Positions
  PROVE  (x - y) % Wrap = IF x < y THEN x - y + Wrap ELSE x - y
<1>1. /\ Wrap \in Nat /\ x \in Int /\ y \in Int
      /\ x - y \in (0 - Wrap) .. 2 * Wrap - 1 /\ x - y < Wrap
  BY RingAssumption DEF Positions
<1> QED
  BY <1>1, ModCases

\* The offset of a position without the remainder.
LEMMA OffsetFacts ==
  ASSUME TypeOK, NEW pos \in Positions
  PROVE  /\ Base \in Positions
         /\ Offset(pos) = IF pos < Base THEN pos - Base + Wrap ELSE pos - Base
<1>1. Base \in Positions
  BY DEF TypeOK, Base, Positions
<1> QED
  BY <1>1, DifferenceFacts DEF Offset

\* The successor of a position.
LEMMA SuccessorFacts ==
  ASSUME NEW pos \in Positions
  PROVE  /\ (pos + 1) % Wrap \in Positions
         /\ (pos + 1) % Wrap = IF pos = Wrap - 1 THEN 0 ELSE pos + 1
<1>1. Wrap \in Nat /\ Wrap > 0 /\ pos + 1 \in (0 - Wrap) .. 2 * Wrap - 1 /\ pos \in Int /\ pos < Wrap
  BY RingAssumption DEF Positions
<1> QED
  BY <1>1, ModCases DEF Positions

\* Positions that are less than Size apart have different cells.
LEMMA DifferentCells ==
  ASSUME TypeOK, NEW x \in Positions, NEW y \in Positions, Cell(x) = Cell(y),
         Offset(x) - Offset(y) < Size, Offset(y) - Offset(x) < Size
  PROVE  x = y
<1> DEFINE d == Offset(x) - Offset(y)
<1>1. Size \in Nat \ {0} /\ Wrap \in Nat /\ x \in Int /\ y \in Int /\ Base \in Int
  BY RingAssumption, OffsetFacts DEF Positions
<1>2. d = x - y \/ d = x - y + Wrap \/ d = x - y - Wrap
  BY <1>1, OffsetFacts
<1>3. PICK k \in Int : x - y = k * Size
  BY SameCell
<1>4. PICK m \in Nat : Wrap = m * Size
  BY WrapMultiple
<1>5. \E j \in Int : d = j * Size
  <2>1. x - y + Wrap = (k + m) * Size /\ x - y - Wrap = (k - m) * Size
    BY <1>1, <1>3, <1>4
  <2> QED
    BY <1>2, <1>3, <2>1
<1>6. d = 0
  <2>1. PICK j \in Int : d = j * Size
    BY <1>5
  <2>2. j * Size < Size /\ j * Size > 0 - Size
    <3>1. d \in Int /\ d = Offset(x) - Offset(y) /\ Offset(x) \in Int /\ Offset(y) \in Int
      BY <1>1, OffsetFacts
    <3>2. d < Size /\ d > 0 - Size
      BY <1>1, <3>1
    <3> QED
      BY <2>1, <3>2
  <2>3. j = 0
    BY <2>2, SmallMultiple
  <2> QED
    BY <1>1, <2>1, <2>3
<1>7. Offset(x) = Offset(y)
  BY <1>1, <1>6, OffsetFacts
<1> QED
  BY <1>1, <1>7, OffsetFacts DEF Positions

\* The positions in use have different cells.
LEMMA WindowCells ==
  ASSUME TypeOK, WindowInv, NEW x \in Window, NEW y \in Window, Cell(x) = Cell(y)
  PROVE  x = y
<1>1. head \in Positions /\ x \in Positions /\ y \in Positions /\ Size \in Nat /\ Wrap \in Nat
  BY RingAssumption DEF TypeOK, Positions, Window
<1>2. /\ Offset(x) \in Nat /\ Offset(y) \in Nat
      /\ Offset(x) < Size /\ Offset(y) < Size
  BY <1>1, OffsetFacts DEF WindowInv, Window, Positions
<1> QED
  BY <1>1, <1>2, DifferentCells

\* The element of a position, without CHOOSE.
ElementLaw ==
    ClaimInv => \A pos :
        /\ \A p \in Producers : Claims(p, pos) => ElementAt(pos) = <<p, pushed[p]>>
        /\ (\A p \in Producers : ~Claims(p, pos)) => ElementAt(pos) = elements[Cell(pos)]

\* No two threads claim a position: the thread that claimed it is the one that
\* ElementAt chooses.
LEMMA ElementLawHolds == ElementLaw
<1> SUFFICES ASSUME ClaimInv, NEW pos
             PROVE  /\ \A p \in Producers : Claims(p, pos) => ElementAt(pos) = <<p, pushed[p]>>
                    /\ (\A p \in Producers : ~Claims(p, pos))
                          => ElementAt(pos) = elements[Cell(pos)]
  BY DEF ElementLaw
<1>1. ASSUME NEW p \in Producers, Claims(p, pos)
      PROVE  ElementAt(pos) = <<p, pushed[p]>>
  <2> DEFINE c == CHOOSE q \in Producers : ppc[q] = "store" /\ claimed[q] = pos
  <2>1. c \in Producers /\ Claims(c, pos)
    BY <1>1 DEF Claims
  <2>2. c = p
    BY <1>1, <2>1 DEF ClaimInv, Claims
  <2>3. ElementAt(pos) = <<c, pushed[c]>>
    BY <1>1 DEF ElementAt, Claims
  <2> QED
    BY <2>2, <2>3
<1>2. ASSUME \A p \in Producers : ~Claims(p, pos)
      PROVE  ElementAt(pos) = elements[Cell(pos)]
  BY <1>2 DEF ElementAt, Claims
<1> QED
  BY <1>1, <1>2

\* The same of the state after a step.
LEMMA ElementLawNext == ElementLaw'
BY ElementLawHolds, PTL

\* PushClaim: the window grows by head, and the command is the newest of p.
LEMMA RingPushClaim ==
  ASSUME IInv, RingInv, Capacity <= Size, NEW p \in Producers, PushClaim(p)
  PROVE  /\ RingInv'
         /\ head \notin Window
         /\ \A pos : pos = head => ElementAt(pos)' = <<p, pushed[p] + 1>>
         /\ \A pos \in Window : ElementAt(pos)' = ElementAt(pos)
<1> DEFINE new == <<p, pushed[p] + 1>>
<1>0. /\ TypeOK /\ TypeOK' /\ WindowInv /\ CellInv /\ ClaimInv /\ ItemInv
      /\ Size \in Nat /\ Wrap \in Nat /\ Wrap > 2 * Size /\ MaxPushes \in Nat /\ Capacity \in Nat
      /\ Size > 0
  BY PushInvariant, RingAssumption DEF IInv, RingInv
<1>1. head \in Positions /\ head' \in Positions /\ Base \in Positions
  BY <1>0, OffsetFacts DEF TypeOK, Positions
<1>2. Base' = Base /\ \A pos : Offset(pos)' = Offset(pos)
  BY DEF PushClaim, Base, Offset
<1>3. /\ new \in Items /\ new \notin Outstanding
      /\ Outstanding' = Outstanding \cup {new}
  <2>1. pushed[p] \in Nat /\ popped[p] \in Nat /\ popped[p] <= pushed[p] /\ pushed[p] < MaxPushes
    BY <1>0 DEF PushClaim, TypeOK, RingInv
  <2>2. new \in Items /\ new \notin Outstanding
    BY <1>0, <2>1 DEF Items, Outstanding
  <2>3. ASSUME NEW e \in Items
        PROVE  e \in Outstanding' <=> e \in Outstanding \cup {new}
    <3>1. e[1] \in Producers /\ e[2] \in 1 .. MaxPushes /\ e = <<e[1], e[2]>>
      BY DEF Items
    <3>2. CASE e[1] = p
      BY <1>0, <2>1, <3>1, <3>2 DEF Outstanding, PushClaim, TypeOK
    <3>3. CASE e[1] # p
      BY <1>0, <3>1, <3>3 DEF Outstanding, PushClaim, TypeOK
    <3> QED
      BY <3>2, <3>3
  <2>4. Outstanding \subseteq Items /\ Outstanding' \subseteq Items
    BY DEF Outstanding
  <2> QED
    BY <2>2, <2>3, <2>4
<1>4. Offset(head) \in Nat /\ Offset(head) < Size
  <2>1. Cardinality(Outstanding) < Capacity /\ Cardinality(Outstanding) = Offset(head)
    BY <1>0 DEF PushClaim, WindowInv
  <2>2. Offset(head) \in Nat
    BY <1>0, <1>1, OffsetFacts DEF Positions
  <2> QED
    BY <1>0, <2>1, <2>2
<1>5. Offset(head') = Offset(head) + 1
  BY <1>0, <1>1, <1>4, OffsetFacts, SuccessorFacts DEF PushClaim, Positions
<1>6. Window' = Window \cup {head} /\ head \notin Window
  <2>1. ASSUME NEW pos \in Positions
        PROVE  Offset(pos) < Offset(head) + 1 <=> Offset(pos) < Offset(head) \/ pos = head
    BY <1>0, <1>1, <1>4, OffsetFacts DEF Positions
  <2>2. Offset(head)' = Offset(head) + 1
    BY <1>2, <1>5 DEF Offset
  <2> QED
    BY <1>1, <1>2, <1>4, <2>1, <2>2 DEF Window
<1>7. elements' = elements /\ elements[Cell(head)] = NIL
  <2>1. ASSUME elements[Cell(head)] # NIL
        PROVE  FALSE
    <3>1. PICK pos \in Window : Cell(pos) = Cell(head)
      BY <1>0, <1>1, <2>1, CellFacts DEF CellInv, Positions
    <3>2. pos \in Positions /\ Offset(pos) < Offset(head) /\ Offset(pos) \in Nat
      BY <1>0, <1>1, <3>1, OffsetFacts DEF Window, Positions
    <3>3. pos = head
      BY <1>0, <1>1, <1>4, <3>1, <3>2, DifferentCells
    <3> QED
      BY <1>6, <3>1, <3>3
  <2> QED
    BY <2>1 DEF PushClaim
<1>8. \A q \in Producers, pos \in Positions :
         Claims(q, pos)' <=> (Claims(q, pos) \/ (q = p /\ pos = head))
  BY <1>0 DEF Claims, PushClaim, TypeOK
<1>9. ClaimInv'
  <2>1. \A q \in Producers : ~Claims(q, head)
    BY <1>0, <1>6 DEF ClaimInv, Claims
  <2>2. \A q \in Producers : ppc[q] = "store" => claimed[q] \in Window /\ claimed[q] \in Positions
    BY <1>0 DEF ClaimInv, Window
  <2>3. ASSUME NEW q \in Producers, ppc'[q] = "store"
        PROVE  \/ q = p /\ claimed'[q] = head
               \/ q # p /\ ppc[q] = "store" /\ claimed'[q] = claimed[q]
    BY <1>0, <2>3 DEF PushClaim, TypeOK
  <2>4. ASSUME NEW q \in Producers, ppc'[q] = "store"
        PROVE  claimed'[q] \in Window'
    BY <1>6, <2>2, <2>3, <2>4
  <2>5. ASSUME NEW q \in Producers, ppc'[q] = "store",
               NEW o \in Producers, ppc'[o] = "store", claimed'[o] = claimed'[q]
        PROVE  q = o
    <3>1. CASE q = p \/ o = p
      BY <1>6, <2>2, <2>3, <2>5, <3>1
    <3>2. CASE q # p /\ o # p
      <4>1. ppc[q] = "store" /\ Claims(o, claimed[q])
        BY <2>3, <2>5, <3>2 DEF Claims
      <4> QED
        BY <1>0, <4>1 DEF ClaimInv
    <3> QED
      BY <3>1, <3>2
  <2> QED
    BY <2>4, <2>5 DEF ClaimInv, Claims
<1>10. ASSUME NEW pos, pos = head
       PROVE  ElementAt(pos)' = new
  <2>1. Claims(p, pos)' /\ pushed'[p] = pushed[p] + 1
    BY <1>0, <1>1, <1>8, <1>10 DEF PushClaim, TypeOK
  <2> QED
    BY <1>9, <2>1, ElementLawNext DEF ElementLaw
<1>11. ASSUME NEW pos \in Window
       PROVE  /\ ElementAt(pos)' = ElementAt(pos)
              /\ \A q \in Producers : Claims(q, pos)' <=> Claims(q, pos)
  <2>1. pos # head /\ pos \in Positions
    BY <1>6 DEF Window
  <2>2. \A q \in Producers : Claims(q, pos)' <=> Claims(q, pos)
    BY <1>8, <2>1
  <2>3. CASE \E q \in Producers : Claims(q, pos)
    <3>1. PICK q \in Producers : Claims(q, pos)
      BY <2>3
    <3>2. pushed'[q] = pushed[q]
      BY <1>0, <3>1 DEF PushClaim, Claims, TypeOK
    <3> QED
      BY <1>0, <1>9, <2>2, <3>1, <3>2, ElementLawHolds, ElementLawNext DEF ElementLaw
  <2>4. CASE \A q \in Producers : ~Claims(q, pos)
    BY <1>0, <1>7, <1>9, <2>2, <2>4, ElementLawHolds, ElementLawNext DEF ElementLaw, Cell
  <2> QED
    BY <2>2, <2>3, <2>4
<1>12. WindowInv'
  <2>1. Offset(head)' = Offset(head) + 1
    BY <1>2, <1>5 DEF Offset
  <2>2. IsFiniteSet(Outstanding') /\ Cardinality(Outstanding') = Offset(head) + 1
    BY <1>0, <1>3, FS_AddElement DEF WindowInv
  <2>3. cpc' = cpc /\ tail' = tail /\ ctail' = ctail
    BY DEF PushClaim
  <2>4. cpc = "take" => head' # ctail
    <3>1. cpc = "take" => Offset(head') # 0 /\ Base = ctail /\ ctail \in Positions
      BY <1>0, <1>4, <1>5 DEF Base, TypeOK, Positions
    <3> QED
      BY <1>0, <1>1, <3>1, OffsetFacts DEF Positions
  <2>5. cpc = "claim" => head' # tail
    <3>1. cpc = "claim" => Offset(head') # 0 /\ Base = tail /\ tail \in Positions
      BY <1>0, <1>4, <1>5 DEF Base, TypeOK, Positions
    <3> QED
      BY <1>0, <1>1, <3>1, OffsetFacts DEF Positions
  <2>6. Offset(head)' <= Size
    BY <1>0, <1>4, <2>1
  <2> QED
    BY <1>0, <2>1, <2>2, <2>3, <2>4, <2>5, <2>6 DEF WindowInv
<1>13. CellInv'
  <2>1. \A c \in Cells : elements'[c] # NIL => \E pos \in Window' : Cell(pos) = c
    BY <1>0, <1>6, <1>7 DEF CellInv
  <2>2. ASSUME NEW pos \in Window'
        PROVE  elements'[Cell(pos)] = NIL <=> \E q \in Producers : Claims(q, pos)'
    <3>1. CASE pos = head
      BY <1>1, <1>7, <1>8, <3>1
    <3>2. CASE pos \in Window
      BY <1>0, <1>7, <1>11, <3>2 DEF CellInv
    <3> QED
      BY <1>6, <3>1, <3>2
  <2> QED
    BY <2>1, <2>2 DEF CellInv, Cell
<1>14. ItemInv'
  <2>1. ASSUME NEW pos \in Window'
        PROVE  ElementAt(pos)' \in Outstanding'
    BY <1>0, <1>3, <1>6, <1>10, <1>11 DEF ItemInv
  <2>2. ASSUME NEW e \in Outstanding'
        PROVE  \E pos \in Window' : ElementAt(pos)' = e
    BY <1>0, <1>3, <1>6, <1>10, <1>11 DEF ItemInv
  <2>3. ASSUME NEW x \in Window', NEW y \in Window',
               ElementAt(x)'[1] = ElementAt(y)'[1], Offset(x) < Offset(y)
        PROVE  ElementAt(x)'[2] < ElementAt(y)'[2]
    <3>1. x \in Window
      <4>1. x # head
        BY <1>0, <1>1, <1>4, <1>6, <2>3, OffsetFacts DEF Window, Positions
      <4> QED
        BY <1>6, <4>1
    <3>2. CASE y \in Window
      BY <1>0, <1>11, <2>3, <3>1, <3>2 DEF ItemInv
    <3>3. CASE y = head
      <4>1. ElementAt(x) \in Outstanding /\ ElementAt(x)[1] = p
        BY <1>0, <1>10, <1>11, <2>3, <3>1, <3>3 DEF ItemInv
      <4>2. ElementAt(x)[2] <= pushed[p] /\ ElementAt(x)[2] \in Nat /\ pushed[p] \in Nat
        BY <1>0, <4>1 DEF Outstanding, Items, TypeOK
      <4> QED
        BY <1>10, <1>11, <3>1, <3>3, <4>2
    <3> QED
      BY <1>6, <3>2, <3>3
  <2> QED
    BY <1>2, <2>1, <2>2, <2>3 DEF ItemInv
<1>15. \A q \in Producers : popped'[q] <= pushed'[q]
  BY <1>0 DEF PushClaim, TypeOK, RingInv
<1> QED
  BY <1>6, <1>9, <1>10, <1>11, <1>12, <1>13, <1>14, <1>15 DEF RingInv

\* PushStore: the command goes from the thread into the cell of its position,
\* which nobody else uses.
LEMMA RingPushStore ==
  ASSUME IInv, RingInv, NEW p \in Producers, PushStore(p)
  PROVE  RingInv' /\ \A pos \in Window : ElementAt(pos)' = ElementAt(pos)
<1> DEFINE mine == claimed[p]
<1>0. /\ TypeOK /\ WindowInv /\ CellInv /\ ClaimInv /\ ItemInv /\ ppc[p] = "store"
      /\ Claims(p, mine) /\ <<p, pushed[p]>> \in Items /\ NIL \notin Items
  BY RingAssumption DEF IInv, RingInv, PushStore, Claims, Items
<1>1. mine \in Window /\ mine \in Positions
  BY <1>0 DEF ClaimInv, Window
<1>2. /\ Base' = Base /\ \A pos : Offset(pos)' = Offset(pos)
      /\ Offset(head)' = Offset(head) /\ Outstanding' = Outstanding /\ Window' = Window
  BY DEF PushStore, Base, Offset, Outstanding, Window
<1>3. \A q \in Producers : \A pos : Claims(q, pos)' <=> Claims(q, pos) /\ q # p
  BY <1>0 DEF Claims, PushStore, TypeOK
<1>4. ASSUME NEW pos \in Window, pos # mine
      PROVE  elements'[Cell(pos)] = elements[Cell(pos)] /\ ~Claims(p, pos)
  <2>1. Cell(pos) # Cell(mine)
    BY <1>0, <1>1, <1>4, WindowCells
  <2>2. pos \in 0 .. Wrap - 1
    BY DEF Window, Positions
  <2> QED
    BY <1>0, <1>4, <2>1, <2>2, CellFacts DEF PushStore, TypeOK, Claims
<1>5. elements'[Cell(mine)] = <<p, pushed[p]>>
  BY <1>0, <1>1, CellFacts DEF PushStore, TypeOK, Positions
<1>6. ClaimInv'
  <2>1. ASSUME NEW q \in Producers, ppc'[q] = "store"
        PROVE  q # p /\ ppc[q] = "store" /\ claimed'[q] = claimed[q]
    BY <1>0, <2>1 DEF PushStore, TypeOK
  <2> QED
    BY <1>0, <1>2, <2>1 DEF ClaimInv, Claims
<1>7. ASSUME NEW pos \in Window
      PROVE  ElementAt(pos)' = ElementAt(pos)
  <2>1. CASE pos = mine
    <3>1. \A q \in Producers : ~Claims(q, pos)'
      BY <1>0, <1>3, <2>1 DEF ClaimInv
    <3> QED
      BY <1>0, <1>5, <1>6, <2>1, <3>1, ElementLawHolds, ElementLawNext DEF ElementLaw, Cell
  <2>2. CASE pos # mine
    <3>1. \A q \in Producers : Claims(q, pos)' <=> Claims(q, pos)
      BY <1>3, <1>4, <2>2
    <3>2. pushed' = pushed
      BY DEF PushStore
    <3>3. CASE \E q \in Producers : Claims(q, pos)
      BY <1>0, <1>6, <3>1, <3>2, <3>3, ElementLawHolds, ElementLawNext DEF ElementLaw
    <3>4. CASE \A q \in Producers : ~Claims(q, pos)
      BY <1>0, <1>4, <1>6, <2>2, <3>1, <3>4, ElementLawHolds, ElementLawNext DEF ElementLaw, Cell
    <3> QED
      BY <3>3, <3>4
  <2> QED
    BY <2>1, <2>2
<1>8. WindowInv'
  BY <1>0, <1>2 DEF WindowInv, PushStore
<1>9. CellInv'
  <2>1. ASSUME NEW c \in Cells, elements'[c] # NIL
        PROVE  \E pos \in Window : Cell(pos) = c
    <3>1. CASE c = Cell(mine)
      BY <1>1, <3>1
    <3>2. CASE c # Cell(mine)
      BY <1>0, <2>1, <3>2 DEF CellInv, PushStore, TypeOK
    <3> QED
      BY <3>1, <3>2
  <2>2. ASSUME NEW pos \in Window
        PROVE  elements'[Cell(pos)] = NIL <=> \E q \in Producers : Claims(q, pos)'
    <3>1. CASE pos = mine
      BY <1>0, <1>3, <1>5, <3>1 DEF ClaimInv
    <3>2. CASE pos # mine
      BY <1>0, <1>3, <1>4, <3>2 DEF CellInv
    <3> QED
      BY <3>1, <3>2
  <2> QED
    BY <1>2, <2>1, <2>2 DEF CellInv, Cell
<1>10. ItemInv'
  BY <1>0, <1>2, <1>7 DEF ItemInv
<1>11. \A q \in Producers : popped'[q] <= pushed'[q]
  BY DEF PushStore, RingInv
<1> QED
  BY <1>6, <1>7, <1>8, <1>9, <1>10, <1>11 DEF RingInv

\* Distance is the number of positions from tail_ to head_.
LEMMA DistanceFacts ==
  ASSUME IInv, RingInv
  PROVE  /\ head \in Positions /\ tail \in Positions /\ ctail \in Positions
         /\ Distance(head, tail) = IF head < tail THEN head - tail + Wrap ELSE head - tail
         /\ Distance(head, tail) \in 0 .. Size
         /\ cpc = "take" => Distance(head, tail) = Offset(head) - 1
         /\ cpc # "take" => Distance(head, tail) = Offset(head)
<1>0. /\ TypeOK /\ WindowInv /\ Size \in Nat /\ Wrap \in Nat /\ Wrap > 2 * Size
  BY RingAssumption DEF IInv, RingInv
<1>1. head \in Positions /\ tail \in Positions /\ ctail \in Positions
  BY <1>0 DEF TypeOK, Positions
<1> DEFINE d == (head - tail) % Wrap
<1>2. d = IF head < tail THEN head - tail + Wrap ELSE head - tail
  BY <1>1, DifferenceFacts
<1>3. /\ cpc = "take" => d = Offset(head) - 1
      /\ cpc # "take" => d = Offset(head)
      /\ Offset(head) <= Size /\ Offset(head) \in Nat /\ d \in Nat
  <2>1. CASE cpc = "take"
    <3>1. tail = (ctail + 1) % Wrap /\ head # ctail /\ Base = ctail
      BY <1>0, <2>1 DEF WindowInv, Base
    <3> QED
      BY <1>0, <1>1, <1>2, <2>1, <3>1, OffsetFacts, SuccessorFacts DEF Positions, WindowInv
  <2>2. CASE cpc # "take"
    <3>1. Base = tail
      BY <2>2 DEF Base
    <3> QED
      BY <1>0, <1>1, <1>2, <2>2, <3>1, OffsetFacts DEF Positions, WindowInv
  <2> QED
    BY <2>1, <2>2
<1>4. d <= Size
  BY <1>0, <1>3
<1>5. Distance(head, tail) = d
  <2> HIDE DEF d
  <2>1. Distance(head, tail) = IF 2 * d >= Wrap THEN d - Wrap ELSE d
    BY DEF Distance, d
  <2> QED
    BY <1>0, <1>3, <1>4, <2>1
<1> QED
  BY <1>0, <1>1, <1>2, <1>3, <1>4, <1>5

\* PopCheck and PopClaim: the window stays, nothing is taken yet.
LEMMA RingPopAdvance ==
  ASSUME IInv, RingInv, PopCheck \/ PopClaim
  PROVE  RingInv' /\ \A pos : ElementAt(pos)' = ElementAt(pos)
<1>0. /\ TypeOK /\ WindowInv /\ CellInv /\ ClaimInv /\ ItemInv
      /\ head \in Positions /\ tail \in Positions /\ ctail \in Positions
  BY DistanceFacts DEF IInv, RingInv
<1>1. /\ UNCHANGED <<head, elements, ppc, claimed, pushed, popped>>
      /\ Base' = Base
  BY <1>0 DEF PopCheck, PopClaim, Base, WindowInv
<1>2. WindowInv'
  <2>1. CASE PopCheck
    <3>1. head # tail
      BY <1>0, <2>1, DistanceFacts DEF PopCheck, Positions
    <3> QED
      BY <1>0, <1>1, <2>1, <3>1 DEF WindowInv, PopCheck, Offset, Outstanding
  <2>2. CASE PopClaim
    BY <1>0, <1>1, <2>2 DEF WindowInv, PopClaim, Offset, Outstanding
  <2> QED
    BY <2>1, <2>2
<1>3. /\ Window' = Window /\ Outstanding' = Outstanding
      /\ \A pos : Offset(pos)' = Offset(pos) /\ ElementAt(pos)' = ElementAt(pos)
      /\ \A p \in Producers : \A pos : Claims(p, pos)' = Claims(p, pos)
  BY <1>1 DEF Window, Offset, Outstanding, ElementAt, Claims, Cell
<1>4. CellInv' /\ ClaimInv' /\ ItemInv'
  BY <1>0, <1>1, <1>3 DEF CellInv, ClaimInv, ItemInv, Claims, Cell
<1> QED
  BY <1>1, <1>2, <1>3, <1>4 DEF RingInv

\* PopTake: what the exchange finds is the oldest outstanding command, and for
\* its thread the one after the last that was received.
LEMMA RingPopTake ==
  ASSUME IInv, RingInv, PopTake
  PROVE  /\ RingInv'
         /\ \A pos \in Window : pos # ctail => ElementAt(pos)' = ElementAt(pos)
         /\ \E p \in Producers : popped' = [popped EXCEPT ![p] = popped[p] + 1]
<1> DEFINE e == elements[Cell(ctail)]
<1>0. /\ TypeOK /\ WindowInv /\ CellInv /\ ClaimInv /\ ItemInv /\ e # NIL /\ cpc = "take"
      /\ Size \in Nat /\ Wrap \in Nat /\ Wrap > 2 * Size /\ MaxPushes \in Nat
      /\ head \in Positions /\ tail \in Positions /\ ctail \in Positions
  BY RingAssumption, DistanceFacts DEF IInv, RingInv, PopTake
<1>1. /\ Base = ctail /\ Base' = tail /\ tail = (ctail + 1) % Wrap /\ head # ctail
      /\ UNCHANGED <<head, tail, ctail, ppc, claimed, pushed>>
  BY <1>0 DEF Base, WindowInv, PopTake
<1>2. ASSUME NEW pos \in Positions
      PROVE  /\ pos # ctail => Offset(pos)' = Offset(pos) - 1 /\ Offset(pos) > 0
             /\ pos = ctail => Offset(pos)' = Wrap - 1 /\ Offset(pos) = 0
             /\ Offset(pos) \in Nat
  <2>1. Offset(pos)' = IF pos < tail THEN pos - tail + Wrap ELSE pos - tail
    BY <1>0, <1>1, DifferenceFacts DEF Offset
  <2>2. Offset(pos) = IF pos < ctail THEN pos - ctail + Wrap ELSE pos - ctail
    BY <1>0, <1>1, OffsetFacts
  <2>3. tail = IF ctail = Wrap - 1 THEN 0 ELSE ctail + 1
    BY <1>0, <1>1, SuccessorFacts
  <2> QED
    BY <1>0, <2>1, <2>2, <2>3 DEF Positions
<1>3. Offset(ctail) = 0
  BY <1>0, <1>2
<1>4. /\ Offset(head)' = Offset(head) - 1 /\ Offset(head) \in Nat /\ Offset(head) > 0
      /\ Offset(head) <= Size
  <2>1. \A pos : pos = head => Offset(pos)' = Offset(head)'
    BY <1>1 DEF Offset
  <2> QED
    BY <1>0, <1>1, <1>2, <2>1 DEF WindowInv
<1>5. Window' = Window \ {ctail} /\ ctail \in Window
  <2>1. ASSUME NEW pos \in Positions
        PROVE  Offset(pos)' < Offset(head)' <=> Offset(pos) < Offset(head) /\ pos # ctail
    <3>1. CASE pos = ctail
      BY <1>0, <1>2, <1>4, <3>1
    <3>2. CASE pos # ctail
      BY <1>2, <1>4, <3>2
    <3> QED
      BY <3>1, <3>2
  <2> QED
    BY <1>0, <1>3, <1>4, <2>1 DEF Window
<1>6. \A p \in Producers : ~Claims(p, ctail)
  BY <1>0, <1>5 DEF CellInv
<1>7. ElementAt(ctail) = e /\ e \in Outstanding
  BY <1>0, <1>5, <1>6, ElementLawHolds DEF ElementLaw, ItemInv
<1>8. /\ e \in Items /\ e[1] \in Producers /\ e[2] \in 1 .. MaxPushes /\ e = <<e[1], e[2]>>
      /\ popped[e[1]] \in Nat /\ popped[e[1]] < e[2] /\ e[2] <= pushed[e[1]] /\ pushed[e[1]] \in Nat
  BY <1>0, <1>7 DEF Outstanding, Items, TypeOK
<1>9. e[2] = popped[e[1]] + 1
  <2> DEFINE oldest == <<e[1], popped[e[1]] + 1>>
  <2>1. oldest \in Outstanding
    <3>1. popped[e[1]] + 1 \in 1 .. MaxPushes /\ popped[e[1]] + 1 <= pushed[e[1]]
      BY <1>0, <1>8
    <3> QED
      BY <1>8, <3>1 DEF Outstanding, Items
  <2>2. PICK pos \in Window : ElementAt(pos) = oldest
    BY <1>0, <2>1 DEF ItemInv
  <2>3. pos \in Positions
    BY DEF Window
  <2>4. CASE pos = ctail
    BY <1>7, <2>2, <2>4
  <2>5. CASE pos # ctail
    <3>1. Offset(ctail) < Offset(pos)
      BY <1>2, <1>3, <2>3, <2>5
    <3>2. e[2] < popped[e[1]] + 1
      BY <1>0, <1>5, <1>7, <2>2, <3>1 DEF ItemInv
    <3> QED
      BY <1>8, <3>2
  <2> QED
    BY <2>4, <2>5
<1>10. popped' = [popped EXCEPT ![e[1]] = popped[e[1]] + 1]
  BY <1>9 DEF PopTake
<1>11. Outstanding' = Outstanding \ {e}
  <2>1. ASSUME NEW x \in Items
        PROVE  x \in Outstanding' <=> x \in Outstanding /\ x # e
    <3>1. x[1] \in Producers /\ x[2] \in 1 .. MaxPushes /\ x = <<x[1], x[2]>>
      BY DEF Items
    <3>2. CASE x[1] = e[1]
      <4>1. popped'[x[1]] = popped[e[1]] + 1 /\ pushed' = pushed
        BY <1>0, <1>1, <1>8, <1>10, <3>2 DEF TypeOK
      <4>2. x[2] # e[2] => x # e
        OBVIOUS
      <4>3. x[2] = e[2] => x = e
        BY <1>8, <3>1, <3>2
      <4> QED
        BY <1>8, <1>9, <3>1, <3>2, <4>1, <4>2, <4>3 DEF Outstanding
    <3>3. CASE x[1] # e[1]
      BY <1>0, <1>1, <1>8, <1>10, <3>1, <3>3 DEF Outstanding, TypeOK
    <3> QED
      BY <3>2, <3>3
  <2>2. Outstanding \subseteq Items /\ Outstanding' \subseteq Items
    BY DEF Outstanding
  <2> QED
    BY <2>1, <2>2
<1>12. ASSUME NEW pos \in Window, pos # ctail
       PROVE  elements'[Cell(pos)] = elements[Cell(pos)] /\ Cell(pos) # Cell(ctail)
  <2>1. Cell(pos) # Cell(ctail)
    BY <1>0, <1>5, <1>12, WindowCells
  <2>2. pos \in 0 .. Wrap - 1
    BY DEF Window, Positions
  <2> QED
    BY <1>0, <2>1, <2>2, CellFacts DEF PopTake, TypeOK
<1>13. \A p \in Producers : \A pos : Claims(p, pos)' = Claims(p, pos)
  BY <1>1 DEF Claims
<1>14. ClaimInv'
  <2>1. ASSUME NEW p \in Producers, ppc[p] = "store"
        PROVE  claimed[p] \in Window /\ claimed[p] # ctail
    BY <1>0, <1>6, <2>1 DEF ClaimInv, Claims
  <2> QED
    BY <1>0, <1>1, <1>5, <2>1 DEF ClaimInv, Claims
<1>15. ASSUME NEW pos \in Window, pos # ctail
       PROVE  ElementAt(pos)' = ElementAt(pos)
  <2>1. CASE \E q \in Producers : Claims(q, pos)
    BY <1>0, <1>1, <1>13, <1>14, <2>1, ElementLawHolds, ElementLawNext DEF ElementLaw
  <2>2. CASE \A q \in Producers : ~Claims(q, pos)
    BY <1>0, <1>12, <1>13, <1>14, <1>15, <2>2, ElementLawHolds, ElementLawNext DEF ElementLaw, Cell
  <2> QED
    BY <2>1, <2>2
<1>16. WindowInv'
  <2>1. IsFiniteSet(Outstanding') /\ Cardinality(Outstanding') = Offset(head) - 1
    BY <1>0, <1>7, <1>11, FS_RemoveElement DEF WindowInv
  <2>2. cpc' = "idle"
    BY DEF PopTake
  <2> QED
    BY <1>0, <1>4, <2>1, <2>2 DEF WindowInv
<1>17. CellInv'
  <2>1. ASSUME NEW c \in Cells, elements'[c] # NIL
        PROVE  \E pos \in Window' : Cell(pos) = c
    <3>1. c # Cell(ctail) /\ elements'[c] = elements[c]
      BY <1>0, <2>1, CellFacts DEF PopTake, TypeOK
    <3>2. PICK pos \in Window : Cell(pos) = c
      BY <1>0, <2>1, <3>1 DEF CellInv
    <3> QED
      BY <1>5, <3>1, <3>2
  <2>2. ASSUME NEW pos \in Window'
        PROVE  elements'[Cell(pos)] = NIL <=> \E p \in Producers : Claims(p, pos)'
    BY <1>0, <1>5, <1>12, <1>13 DEF CellInv
  <2> QED
    BY <2>1, <2>2 DEF CellInv, Cell
<1>18. ItemInv'
  <2>1. ASSUME NEW pos \in Window, pos # ctail
        PROVE  ElementAt(pos) # e
    <3>1. pos \in Positions /\ Offset(ctail) < Offset(pos)
      BY <1>2, <1>3, <2>1 DEF Window
    <3> QED
      BY <1>0, <1>5, <1>7, <1>8, <3>1 DEF ItemInv
  <2>2. ASSUME NEW pos \in Window'
        PROVE  ElementAt(pos)' \in Outstanding'
    BY <1>0, <1>5, <1>11, <1>15, <2>1 DEF ItemInv
  <2>3. ASSUME NEW x \in Outstanding'
        PROVE  \E pos \in Window' : ElementAt(pos)' = x
    <3>1. PICK pos \in Window : ElementAt(pos) = x
      BY <1>0, <1>11 DEF ItemInv
    <3>2. pos # ctail
      BY <1>7, <1>11, <3>1
    <3> QED
      BY <1>5, <1>15, <3>1, <3>2
  <2>4. ASSUME NEW x \in Window', NEW y \in Window',
               ElementAt(x)'[1] = ElementAt(y)'[1], Offset(x)' < Offset(y)'
        PROVE  ElementAt(x)'[2] < ElementAt(y)'[2]
    <3>1. x \in Window /\ y \in Window /\ x # ctail /\ y # ctail /\ x \in Positions /\ y \in Positions
      BY <1>5 DEF Window
    <3>2. Offset(x) < Offset(y)
      BY <1>2, <2>4, <3>1
    <3> QED
      BY <1>0, <1>15, <2>4, <3>1, <3>2 DEF ItemInv
  <2> QED
    BY <2>2, <2>3, <2>4 DEF ItemInv
<1>19. \A p \in Producers : popped'[p] <= pushed'[p]
  <2>1. ASSUME NEW p \in Producers
        PROVE  popped'[p] <= pushed[p]
    BY <1>0, <1>8, <1>9, <1>10 DEF TypeOK, RingInv
  <2> QED
    BY <1>1, <2>1
<1> QED
  BY <1>8, <1>10, <1>14, <1>15, <1>16, <1>17, <1>18, <1>19 DEF RingInv

\* Every step of a ring with at most Size commands outstanding preserves RingInv.
LEMMA RingStep ==
  ASSUME Capacity <= Size, IInv, RingInv, [Next]_vars
  PROVE  RingInv'
<1>1. CASE UNCHANGED vars
  <2>1. /\ Window' = Window /\ Outstanding' = Outstanding /\ Base' = Base
        /\ \A pos : Offset(pos)' = Offset(pos) /\ ElementAt(pos)' = ElementAt(pos)
        /\ \A p \in Producers : \A pos : Claims(p, pos)' = Claims(p, pos)
    BY <1>1 DEF vars, Window, Offset, Outstanding, ElementAt, Claims, Cell, Base
  <2>2. WindowInv' /\ CellInv' /\ ClaimInv' /\ ItemInv'
    BY <1>1, <2>1 DEF RingInv, WindowInv, CellInv, ClaimInv, ItemInv, vars, Offset, Claims, Cell
  <2> QED
    BY <1>1, <2>2 DEF RingInv, vars
<1>2. CASE Next
  BY <1>1, <1>2, RingPushClaim, RingPushStore, RingPopAdvance, RingPopTake DEF Next, Pop, PopNone
<1> QED
  BY <1>1, <1>2

\* RingInv holds of the empty ring.
LEMMA RingInit == Init => RingInv
<1> SUFFICES ASSUME Init
             PROVE  RingInv
  OBVIOUS
<1>1. 0 \in Positions /\ Wrap \in Nat \ {0} /\ Size \in Nat /\ MaxPushes \in Nat
  BY RingAssumption DEF Positions
<1>2. Offset(head) = 0
  <2>1. Base = 0 /\ head = 0
    BY DEF Init, Base
  <2> QED
    BY <1>1, <2>1, DifferenceFacts DEF Offset
<1>3. Window = {}
  <2>1. TypeOK
    BY <1>1 DEF Init, TypeOK, Positions
  <2>2. \A pos \in Positions : Offset(pos) \in Nat
    BY <1>1, <2>1, OffsetFacts DEF Positions
  <2> QED
    BY <1>2, <2>2 DEF Window
<1>4. Outstanding = {}
  BY <1>1 DEF Init, Outstanding, Items
<1>5. WindowInv
  BY <1>1, <1>2, <1>4, FS_EmptySet DEF Init, WindowInv
<1> QED
  BY <1>1, <1>3, <1>4, <1>5 DEF RingInv, CellInv, ClaimInv, ItemInv, Init

\* The queue of the refinement.
Queue == [i \in 1 .. Distance(head, tail) |-> ElementAt((tail + i - 1) % Wrap)]

\* Its positions are in use, and not the one that is being emptied.
LEMMA QueuePositions ==
  ASSUME IInv, RingInv, NEW i \in 1 .. Distance(head, tail)
  PROVE  /\ (tail + i - 1) % Wrap \in Window
         /\ cpc = "take" => (tail + i - 1) % Wrap # ctail
         /\ (tail + i - 1) % Wrap =
               IF tail + i - 1 < Wrap THEN tail + i - 1 ELSE tail + i - 1 - Wrap
<1> DEFINE pos == (tail + i - 1) % Wrap
           d == Distance(head, tail)
<1>0. /\ TypeOK /\ WindowInv /\ Size \in Nat /\ Wrap \in Nat /\ Wrap > 2 * Size
      /\ head \in Positions /\ tail \in Positions /\ ctail \in Positions
      /\ d \in Nat /\ d <= Size /\ i \in Nat /\ i >= 1 /\ i <= d
  BY RingAssumption, DistanceFacts DEF IInv, RingInv
<1>1. d = IF head < tail THEN head - tail + Wrap ELSE head - tail
  BY DistanceFacts
<1> HIDE DEF d
<1>2. pos = IF tail + i - 1 < Wrap THEN tail + i - 1 ELSE tail + i - 1 - Wrap
  <2>1. tail + i - 1 \in (0 - Wrap) .. 2 * Wrap - 1 /\ tail + i - 1 >= 0
    BY <1>0 DEF Positions
  <2> QED
    BY <1>0, <2>1, ModCases DEF Positions
<1> HIDE DEF pos
<1>3. pos \in Positions
  BY <1>0, <1>2 DEF Positions
<1>4. /\ pos \in Window
      /\ cpc = "take" => pos # ctail
  <2>1. CASE cpc = "take"
    <3>1. Base = ctail /\ d = Offset(head) - 1 /\ tail = (ctail + 1) % Wrap
      BY <1>0, <2>1, DistanceFacts DEF Base, WindowInv, d
    <3>2. tail = IF ctail = Wrap - 1 THEN 0 ELSE ctail + 1
      BY <1>0, <3>1, SuccessorFacts
    <3>3. /\ Offset(pos) = IF pos < ctail THEN pos - ctail + Wrap ELSE pos - ctail
          /\ Offset(head) = IF head < ctail THEN head - ctail + Wrap ELSE head - ctail
      BY <1>0, <1>3, <3>1, OffsetFacts
    <3>4. Offset(pos) < Offset(head) /\ pos # ctail
      BY <1>0, <1>1, <1>2, <1>3, <3>1, <3>2, <3>3 DEF Positions
    <3> QED
      BY <1>3, <3>4 DEF Window
  <2>2. CASE cpc # "take"
    <3>1. Base = tail /\ d = Offset(head)
      BY <1>0, <2>2, DistanceFacts DEF Base, d
    <3>2. Offset(pos) = IF pos < tail THEN pos - tail + Wrap ELSE pos - tail
      BY <1>0, <1>3, <3>1, OffsetFacts
    <3>3. Offset(pos) < Offset(head)
      BY <1>0, <1>1, <1>2, <1>3, <3>1, <3>2 DEF Positions
    <3> QED
      BY <1>3, <2>2, <3>3 DEF Window
  <2> QED
    BY <2>1, <2>2
<1> QED
  BY <1>2, <1>4 DEF pos

\* The elements of the queue are commands.
LEMMA QueueFacts ==
  ASSUME IInv, RingInv
  PROVE  /\ Distance(head, tail) \in Nat
         /\ Queue \in Seq(Items) /\ Len(Queue) = Distance(head, tail)
<1>1. Distance(head, tail) \in Nat
  BY DistanceFacts, RingAssumption
<1>2. ASSUME NEW i \in 1 .. Distance(head, tail)
      PROVE  ElementAt((tail + i - 1) % Wrap) \in Items
  BY QueuePositions DEF RingInv, ItemInv, Outstanding
<1> QED
  BY <1>1, <1>2 DEF Queue

\* A step that leaves the positions and their elements alone is a stutter.
LEMMA QueueStutters ==
  ASSUME IInv, RingInv, head' = head, tail' = tail,
         \A pos \in Window : (cpc = "take" => pos # ctail) => ElementAt(pos)' = ElementAt(pos)
  PROVE  Queue' = Queue
<1>1. ASSUME NEW i \in 1 .. Distance(head, tail)
      PROVE  ElementAt((tail + i - 1) % Wrap)' = ElementAt((tail + i - 1) % Wrap)
  <2>1. \A pos : pos = (tail + i - 1) % Wrap => ElementAt(pos)' = ElementAt((tail + i - 1) % Wrap)'
    BY DEF ElementAt, Cell
  <2> QED
    BY <2>1, QueuePositions
<1>2. Distance(head, tail)' = Distance(head, tail)
  BY DEF Distance
<1> QED
  BY <1>1, <1>2 DEF Queue

\* The distance after a step.
DistanceLaw ==
    IInv /\ RingInv =>
        /\ head \in Positions /\ tail \in Positions
        /\ Distance(head, tail) = IF head < tail THEN head - tail + Wrap ELSE head - tail

\* DistanceFacts says so of every state.
LEMMA DistanceLawHolds == DistanceLaw
BY DistanceFacts DEF DistanceLaw

\* Also of the state after a step.
LEMMA DistanceLawNext == DistanceLaw'
BY DistanceLawHolds, PTL

\* The fetch_add of push is Enqueue.
LEMMA EnqueueStep ==
  ASSUME Capacity <= Size, IInv, RingInv, NEW p \in Producers, PushClaim(p)
  PROVE  <<p, pushed[p] + 1>> \in Items /\ Queue' = Append(Queue, <<p, pushed[p] + 1>>)
<1> DEFINE new == <<p, pushed[p] + 1>>
           d == Distance(head, tail)
<1>0. /\ IInv' /\ RingInv' /\ TypeOK /\ WindowInv
      /\ Size \in Nat \ {0} /\ Wrap \in Nat /\ Wrap > 2 * Size /\ MaxPushes \in Nat
      /\ head \in Positions /\ tail \in Positions
      /\ d \in Nat /\ d <= Size
      /\ d = IF head < tail THEN head - tail + Wrap ELSE head - tail
  BY RingAssumption, RingPushClaim, PushInvariant, DistanceFacts DEF IInv, RingInv
<1>1. new \in Items
  BY <1>0 DEF PushClaim, TypeOK, Items
<1>2. tail' = tail /\ (head' = IF head = Wrap - 1 THEN 0 ELSE head + 1)
  BY <1>0, SuccessorFacts DEF PushClaim
<1>3. Distance(head, tail)' = d + 1
  <2>1. Distance(head, tail)' = IF head' < tail THEN head' - tail + Wrap ELSE head' - tail
    BY <1>0, <1>2, DistanceLawNext DEF DistanceLaw
  <2> HIDE DEF d
  <2> QED
    BY <1>0, <1>2, <2>1 DEF Positions
<1> HIDE DEF d
<1>4. (tail + (d + 1) - 1) % Wrap = head
  <2>1. tail + d \in (0 - Wrap) .. 2 * Wrap - 1 /\ tail + (d + 1) - 1 = tail + d
    BY <1>0 DEF Positions
  <2> QED
    BY <1>0, <2>1, ModCases DEF Positions
<1>5. ASSUME NEW i \in 1 .. d + 1
      PROVE  ElementAt((tail + i - 1) % Wrap)' = IF i = d + 1 THEN new ELSE Queue[i]
  <2>1. \A pos : pos = (tail + i - 1) % Wrap => ElementAt(pos)' = ElementAt((tail + i - 1) % Wrap)'
    BY <1>2 DEF ElementAt, Cell
  <2>2. CASE i = d + 1
    BY <1>4, <2>1, <2>2, RingPushClaim
  <2>3. CASE i # d + 1
    <3>1. i \in 1 .. Distance(head, tail)
      BY <1>0, <2>3 DEF d
    <3>2. Queue[i] = ElementAt((tail + i - 1) % Wrap)
      BY <3>1 DEF Queue
    <3> QED
      BY <2>1, <2>3, <3>1, <3>2, QueuePositions, RingPushClaim
  <2> QED
    BY <2>2, <2>3
<1>6. Queue' = [i \in 1 .. d + 1 |-> IF i = d + 1 THEN new ELSE Queue[i]]
  BY <1>3, <1>5 DEF Queue
<1>7. Queue \in Seq(Items) /\ Len(Queue) = d
  BY QueueFacts DEF d
<1> QED
  BY <1>0, <1>1, <1>6, <1>7

\* The exchange on tail_ of try_pop is Dequeue.
LEMMA DequeueStep ==
  ASSUME IInv, RingInv, PopClaim
  PROVE  Queue # << >> /\ Head(Queue) \in Items /\ Queue' = Tail(Queue)
<1> DEFINE d == Distance(head, tail)
<1>0. /\ IInv' /\ RingInv' /\ TypeOK
      /\ Size \in Nat /\ Wrap \in Nat /\ Wrap > 2 * Size
      /\ head \in Positions /\ tail \in Positions /\ head # tail
      /\ d \in Nat /\ d <= Size
      /\ d = IF head < tail THEN head - tail + Wrap ELSE head - tail
      /\ cpc = "claim" /\ ctail = tail /\ head' = head
  BY RingAssumption, RingPopAdvance, PopInvariant, DistanceFacts
     DEF IInv, RingInv, Pop, PopClaim, WindowInv
<1>1. tail' = IF tail = Wrap - 1 THEN 0 ELSE tail + 1
  BY <1>0, SuccessorFacts DEF PopClaim
<1>2. d >= 1 /\ Distance(head, tail)' = d - 1
  <2>1. Distance(head, tail)' = IF head' < tail' THEN head' - tail' + Wrap ELSE head' - tail'
    BY <1>0, DistanceLawNext DEF DistanceLaw
  <2> HIDE DEF d
  <2> QED
    BY <1>0, <1>1, <2>1 DEF Positions
<1>3. Queue \in Seq(Items) /\ Len(Queue) = d
  BY QueueFacts
<1> HIDE DEF d
<1>4. ASSUME NEW i \in 1 .. d - 1
      PROVE  ElementAt((tail + i - 1) % Wrap)' = Queue[i + 1]
  <2>1. i + 1 \in 1 .. Distance(head, tail) /\ i \in Nat /\ i >= 1 /\ i < d
    BY <1>0 DEF d
  <2>2. (tail' + i - 1) % Wrap = (tail + (i + 1) - 1) % Wrap
    <3>1. tail' + i - 1 \in (0 - Wrap) .. 2 * Wrap - 1 /\ tail + (i + 1) - 1 \in (0 - Wrap) .. 2 * Wrap - 1
      BY <1>0, <1>1, <2>1 DEF Positions
    <3> QED
      BY <1>0, <1>1, <2>1, <3>1, ModCases DEF Positions
  <2>3. \A pos : pos = (tail' + i - 1) % Wrap => ElementAt(pos)' = ElementAt((tail + i - 1) % Wrap)'
    BY DEF ElementAt, Cell
  <2>4. Queue[i + 1] = ElementAt((tail + (i + 1) - 1) % Wrap)
    BY <2>1 DEF Queue
  <2> QED
    BY <2>2, <2>3, <2>4, RingPopAdvance
<1>5. Queue' = [i \in 1 .. d - 1 |-> Queue[i + 1]]
  BY <1>2, <1>4 DEF Queue
<1>6. Queue # << >> /\ Head(Queue) \in Items
  BY <1>2, <1>3
<1>7. Tail(Queue) = [i \in 1 .. d - 1 |-> Queue[i + 1]]
  <2> DEFINE rest == [i \in 1 .. d - 1 |-> Queue[i + 1]]
  <2>1. d - 1 \in Nat /\ \A i \in 1 .. d - 1 : i + 1 \in 1 .. d /\ Queue[i + 1] \in Items
    BY <1>0, <1>2, <1>3
  <2>2. rest \in Seq(Items) /\ Len(rest) = d - 1
    BY <2>1
  <2>3. /\ Tail(Queue) \in Seq(Items) /\ Len(Tail(Queue)) = d - 1
        /\ \A i \in 1 .. d - 1 : Tail(Queue)[i] = Queue[i + 1]
    BY <1>2, <1>3, <1>6
  <2>4. \A i \in 1 .. d - 1 : rest[i] = Tail(Queue)[i]
    BY <2>3
  <2> HIDE DEF rest
  <2>5. rest = Tail(Queue)
    BY <2>1, <2>2, <2>3, <2>4, SeqEqual
  <2> QED
    BY <2>5 DEF rest
<1> QED
  BY <1>5, <1>6, <1>7

\* While at most Size commands are outstanding, a step of the ring is a step of
\* the queue or none.
LEMMA QueueStep ==
  ASSUME Capacity <= Size, IInv, RingInv, [Next]_vars
  PROVE  [Abstract!Next]_Queue
<1>1. CASE UNCHANGED vars
  <2>1. head' = head /\ tail' = tail /\ \A pos : ElementAt(pos)' = ElementAt(pos)
    BY <1>1 DEF vars, ElementAt, Cell
  <2> QED
    BY <2>1, QueueStutters
<1>2. ASSUME NEW p \in Producers, PushClaim(p)
      PROVE  Abstract!Next
  BY <1>2, EnqueueStep DEF Abstract!Next, Abstract!Enqueue, Queue
<1>3. ASSUME NEW p \in Producers, PushStore(p)
      PROVE  Queue' = Queue
  BY <1>3, RingPushStore, QueueStutters DEF PushStore
<1>4. CASE PopCheck
  BY <1>4, RingPopAdvance, QueueStutters DEF PopCheck
<1>5. CASE PopClaim
  BY <1>5, DequeueStep DEF Abstract!Next, Abstract!Dequeue, Queue
<1>6. CASE PopTake
  BY <1>6, RingPopTake, QueueStutters DEF PopTake
<1> QED
  BY <1>1, <1>2, <1>3, <1>4, <1>5, <1>6 DEF Next, Pop, PopNone

\* RingInv is an invariant of a ring with at most Size commands outstanding.
THEOREM RingIsWindow ==
  ASSUME Capacity <= Size
  PROVE  Spec => [](IInv /\ RingInv)
<1>1. IInv /\ RingInv /\ [Next]_vars => (IInv /\ RingInv)'
  BY NextInvariant, RingStep
<1> QED
  BY <1>1, InitInvariant, RingInit, PTL DEF Spec

\* The ring implements the first-in first-out queue that the engine relies on,
\* also while push and try_pop of several threads overlap and the counters wrap
\* around, as long as the application has at most Size commands outstanding.
THEOREM RingIsQueue ==
  ASSUME Capacity <= Size
  PROVE  Spec => ImplementsCommandQueue
<1>1. Init => Abstract!Init
  <2>1. Init => Distance(head, tail) = 0
    <3>1. 0 \in Positions
      BY RingAssumption DEF Positions
    <3>2. (0 - 0) % Wrap = 0 /\ ~(2 * 0 >= Wrap)
      BY <3>1, DifferenceFacts, RingAssumption
    <3> QED
      BY <3>2 DEF Init, Distance
  <2> QED
    BY <2>1 DEF Abstract!Init
<1>2. IInv /\ RingInv /\ [Next]_vars => [Abstract!Next]_Queue
  BY QueueStep
<1> QED
  BY <1>1, <1>2, RingIsWindow, PTL DEF Spec, ImplementsCommandQueue, Abstract!Spec, Queue

\* The commands of a thread are received in the order of its pushes, none twice
\* and none left out.
THEOREM ProducerOrderHolds ==
  ASSUME Capacity <= Size
  PROVE  Spec => ProducerOrder
<1>1. ASSUME IInv, RingInv, [Next]_vars
      PROVE  [\A p \in Producers : popped'[p] # popped[p] => popped'[p] = popped[p] + 1]_vars
  <2>1. ASSUME UNCHANGED popped
        PROVE  \A p \in Producers : popped'[p] # popped[p] => popped'[p] = popped[p] + 1
    BY <2>1
  <2>2. CASE PopTake
    BY <1>1, <2>2, RingPopTake DEF IInv, TypeOK
  <2> QED
    BY <1>1, <2>1, <2>2 DEF Next, Pop, PopNone, PopCheck, PopClaim, PushClaim, PushStore
<1> QED
  BY <1>1, RingIsWindow, PTL DEF Spec, ProducerOrder
-----------------------------------------------------------------------------
\* A number is found by its quotient and its remainder, and these by it.
LEMMA Division ==
  ASSUME NEW b \in Nat \ {0}
  PROVE  /\ \A n \in Nat : /\ n \div b \in Nat /\ n % b \in 0 .. b - 1
                           /\ n = (n \div b) * b + (n % b)
         /\ \A q \in Nat, r \in 0 .. b - 1 : (q * b + r) \div b = q /\ (q * b + r) % b = r
<1>1. ASSUME NEW n \in Nat
      PROVE  n \div b \in Nat /\ n % b \in 0 .. b - 1 /\ n = (n \div b) * b + (n % b)
  <2>1. n = b * (n \div b) + (n % b) /\ n % b \in 0 .. b - 1 /\ n \div b \in Int
    OBVIOUS
  <2>2. PICK k \in Int, r \in 0 .. b - 1 : k = n \div b /\ r = n % b
    BY <2>1
  <2>3. n = b * k + r
    BY <2>1, <2>2, Zenon
  <2>4. n = k * b + r
    BY <2>3
  <2>5. k * b > 0 - b
    BY <2>4
  <2>6. k > -1
    BY <2>5
  <2>7. k \in Nat
    BY <2>6
  <2> QED
    BY <2>2, <2>4, <2>7, Zenon
<1>2. ASSUME NEW q \in Nat, NEW r \in 0 .. b - 1
      PROVE  (q * b + r) \div b = q /\ (q * b + r) % b = r
  <2> DEFINE n == q * b + r
  <2>1. n \in Nat
    OBVIOUS
  <2>2. PICK k \in Nat, s \in 0 .. b - 1 : k = n \div b /\ s = n % b /\ n = k * b + s
    BY <1>1, <2>1
  <2>3. (q - k) * b = s - r /\ s - r < b /\ r - s < b
    BY <2>2
  <2>4. q - k < 1 /\ k - q < 1
    BY <2>2, <2>3
  <2>5. q = k
    BY <2>2, <2>4
  <2> QED
    BY <2>2, <2>3, <2>5
<1> QED
  BY <1>1, <1>2

\* An index has a middle and a low digit, which change places.
Digits(b, i, high, middle, low) ==
    /\ high \in Nat /\ middle \in 0 .. b - 1 /\ low \in 0 .. b - 1
    /\ i = (high * b + middle) * b + low /\ low = i % b
    /\ SwapDigits(b, i) = (high * b + low) * b + middle

\* Every index has these digits.
LEMMA SwapFacts ==
  ASSUME NEW b \in Nat \ {0}, NEW i \in Nat
  PROVE  \E high, middle, low : Digits(b, i, high, middle, low)
<1>1. PICK line \in Nat, low \in 0 .. b - 1 : line = i \div b /\ low = i % b /\ i = line * b + low
  <2>1. i \div b \in Nat /\ i % b \in 0 .. b - 1 /\ i = (i \div b) * b + (i % b)
    BY Division
  <2> QED
    BY <2>1, Zenon
<1>2. PICK high \in Nat, middle \in 0 .. b - 1 :
         high = line \div b /\ middle = line % b /\ line = high * b + middle
  BY Division
<1>3. SwapDigits(b, i) = (high * b + low) * b + middle
  BY <1>1, <1>2 DEF SwapDigits
<1>4. i = (high * b + middle) * b + low
  BY <1>1, <1>2, Zenon
<1>5. Digits(b, i, high, middle, low)
  BY <1>1, <1>2, <1>3, <1>4 DEF Digits
<1> QED
  BY <1>5

\* remap_index is its own inverse, so different indexes have different cells.
LEMMA SwapTwice ==
  ASSUME NEW b \in Nat \ {0}, NEW i \in Nat
  PROVE  SwapDigits(b, i) \in Nat /\ SwapDigits(b, SwapDigits(b, i)) = i
<1>1. PICK high \in Nat, middle \in 0 .. b - 1, low \in 0 .. b - 1 :
         /\ i = (high * b + middle) * b + low
         /\ SwapDigits(b, i) = (high * b + low) * b + middle
  <2>1. PICK high, middle, low : Digits(b, i, high, middle, low)
    BY SwapFacts, Zenon
  <2> QED
    BY <2>1 DEF Digits
<1>2. high * b + low \in Nat
  OBVIOUS
<1>3. PICK s \in Nat : s = (high * b + low) * b + middle
  BY <1>2
<1>4. s \div b = high * b + low /\ s % b = middle
  BY <1>2, <1>3, Division
<1>5. (high * b + low) \div b = high /\ (high * b + low) % b = low
  BY Division
<1>6. SwapDigits(b, s) = (high * b + middle) * b + low
  BY <1>4, <1>5, Zenon DEF SwapDigits
<1> QED
  BY <1>1, <1>3, <1>6

\* An index of the ring is remapped to one of the ring.
LEMMA SwapInRing ==
  ASSUME NEW b \in Nat \ {0}, NEW m \in Nat, NEW i \in 0 .. m * b * b - 1
  PROVE  SwapDigits(b, i) \in 0 .. m * b * b - 1
<1>1. PICK high \in Nat, middle \in 0 .. b - 1, low \in 0 .. b - 1 :
         /\ i = (high * b + middle) * b + low
         /\ SwapDigits(b, i) = (high * b + low) * b + middle
  <2>1. PICK high, middle, low : Digits(b, i, high, middle, low)
    <3>1. i \in Nat
      OBVIOUS
    <3> QED
      BY <3>1, SwapFacts, Zenon
  <2> QED
    BY <2>1 DEF Digits
<1>2. PICK q \in Nat : q = b * b
  OBVIOUS
<1>3. i = high * q + middle * b + low /\ m * b * b = m * q /\ q > 0
  BY <1>1, <1>2
<1>4. high < m
  <2>1. high * q < m * q
    BY <1>1, <1>3
  <2> QED
    BY <1>2, <1>3, <2>1
<1>5. (high + 1) * q <= m * q
  BY <1>2, <1>4
<1>6. low * b + middle < q
  <2>1. low * b <= (b - 1) * b /\ (b - 1) * b = q - b
    BY <1>2
  <2> QED
    BY <1>2, <2>1
<1>7. (high * b + low) * b + middle = high * q + low * b + middle
  BY <1>2
<1>8. (high + 1) * q = high * q + q /\ high * q \in Nat /\ low * b \in Nat /\ m * q \in Nat
  BY <1>2
<1>9. high * q + low * b + middle < m * q
  BY <1>2, <1>5, <1>6, <1>8
<1> QED
  BY <1>1, <1>3, <1>7, <1>8, <1>9

\* Taking a remainder by d takes away a multiple of b, when d is one.
Lowered(b, n, r) == \E k \in Int : n = k * b + r

LEMMA MultipleGone ==
  ASSUME NEW b \in Nat \ {0}, NEW c \in Nat, NEW d \in Nat \ {0}, d = c * b, NEW n \in Nat
  PROVE  n % d \in 0 .. d - 1 /\ Lowered(b, n, n % d)
<1>1. PICK q \in Nat, r \in 0 .. d - 1 : r = n % d /\ n = q * d + r
  <2>1. n \div d \in Nat /\ n % d \in 0 .. d - 1 /\ n = (n \div d) * d + (n % d)
    BY Division
  <2> QED
    BY <2>1, Zenon
<1>2. q * d = (q * c) * b /\ q * c \in Int
  OBVIOUS
<1>3. n = (q * c) * b + r
  BY <1>1, <1>2, Zenon
<1>4. n % d \in 0 .. d - 1
  BY <1>1, Zenon
<1>5. n = (q * c) * b + (n % d)
  BY <1>1, <1>3, Zenon
<1> QED
  BY <1>2, <1>4, <1>5, Zenon DEF Lowered

\* The line of an index is its low digit, and the high one before it.
LEMMA LineFacts ==
  ASSUME NEW b \in Nat \ {0}, NEW i \in Nat
  PROVE  (SwapDigits(b, i) \div b) % b = i % b
<1>1. PICK high \in Nat, middle \in 0 .. b - 1, low \in 0 .. b - 1 :
         /\ low = i % b
         /\ SwapDigits(b, i) = (high * b + low) * b + middle
  <2>1. PICK high, middle, low : Digits(b, i, high, middle, low)
    BY SwapFacts, Zenon
  <2> QED
    BY <2>1 DEF Digits
<1>2. PICK line \in Nat : line = high * b + low
  OBVIOUS
<1>3. (line * b + middle) \div b = line
  BY Division
<1>4. line % b = low
  BY <1>2, Division
<1> QED
  BY <1>1, <1>2, <1>3, <1>4, Zenon

\* remap_index may be the Remap of a ring whose size is a multiple of the square of
\* the base, as GetIndexShuffleBits asks of a power of two: it returns a cell, and
\* no two indexes have the same one.
THEOREM CellsAreDistinct ==
  ASSUME NEW base \in Nat \ {0}, NEW m \in Nat, Size = m * base * base
  PROVE  /\ [i \in Cells |-> SwapDigits(base, i)] \in [Cells -> Cells]
         /\ \A i, j \in Cells : SwapDigits(base, i) = SwapDigits(base, j) => i = j
<1>1. \A i \in Cells : SwapDigits(base, i) \in Cells
  <2>1. Cells = 0 .. m * base * base - 1
    BY DEF Cells
  <2> QED
    BY <2>1, SwapInRing
<1>2. \A i \in Cells : i \in Nat
  BY RingAssumption DEF Cells
<1>3. \A i \in Cells : SwapDigits(base, SwapDigits(base, i)) = i
  BY <1>2, SwapTwice
<1> QED
  BY <1>1, <1>3, Zenon

\* "each subsequent element resides on another cache line" (atomic_queue.h:53): of
\* as many subsequent commands as fit on a cache line no two are on the same one,
\* also across the wrap of the counters.
THEOREM NeighboursAreSpread ==
  ASSUME NEW base \in Nat \ {0}, NEW m \in Nat, Size = m * base * base,
         NEW pos \in 0 .. Wrap - 1, NEW i \in 0 .. base - 1, NEW j \in 0 .. base - 1,
         LineOf(base, Size, (pos + i) % Wrap) = LineOf(base, Size, (pos + j) % Wrap)
  PROVE  i = j
<1>1. PICK c \in Nat, d \in Nat : Size = c * base /\ Wrap = d * base
  <2>1. PICK n \in Nat : Wrap = n * Size
    BY WrapMultiple
  <2>2. Size = (m * base) * base /\ m * base \in Nat
    OBVIOUS
  <2>3. Wrap = (n * (m * base)) * base /\ n * (m * base) \in Nat
    BY <2>1, <2>2
  <2> QED
    BY <2>2, <2>3
<1>2. Size \in Nat \ {0} /\ Wrap \in Nat \ {0}
  BY RingAssumption
<1>3. ASSUME NEW n \in Nat
      PROVE  /\ n % Wrap \in Nat /\ (n % Wrap) % Size \in Nat
             /\ ((n % Wrap) % Size) % base \in Int
             /\ \E k \in Int : n = k * base + (((n % Wrap) % Size) % base)
  <2>1. n % Wrap \in 0 .. Wrap - 1 /\ Lowered(base, n, n % Wrap)
    BY <1>1, <1>2, MultipleGone, Zenon
  <2>2. PICK w \in Nat, a \in Int : w = n % Wrap /\ n = a * base + w
    <3>1. n % Wrap \in Nat
      BY <1>2, <2>1
    <3> QED
      BY <2>1, <3>1, Zenon DEF Lowered
  <2>3. w % Size \in 0 .. Size - 1 /\ Lowered(base, w, w % Size)
    BY <1>1, <1>2, MultipleGone, Zenon
  <2>4. PICK x \in Nat, e \in Int : x = w % Size /\ w = e * base + x
    <3>1. w % Size \in Nat
      BY <1>2, <2>3
    <3> QED
      BY <2>3, <3>1, Zenon DEF Lowered
  <2>5. PICK f \in Nat, r \in 0 .. base - 1 : r = x % base /\ x = f * base + r
    <3>1. x \div base \in Nat /\ x % base \in 0 .. base - 1 /\ x = (x \div base) * base + (x % base)
      BY Division
    <3> QED
      BY <3>1, Zenon
  <2>6. n = (a + e + f) * base + r /\ a + e + f \in Int /\ r \in Int
    <3>1. n = a * base + (e * base + (f * base + r))
      BY <2>2, <2>4, <2>5, Zenon
    <3>2. r \in Int /\ a + e + f \in Int
      OBVIOUS
    <3>3. a * base + (e * base + (f * base + r)) = (a + e + f) * base + r
      BY <3>2
    <3> QED
      BY <3>1, <3>2, <3>3, Zenon
  <2>7. r = ((n % Wrap) % Size) % base /\ x = (n % Wrap) % Size /\ w = n % Wrap
    BY <2>2, <2>4, <2>5, Zenon
  <2> QED
    BY <2>6, <2>7, Zenon
<1>4. ASSUME NEW n \in Nat
      PROVE  LineOf(base, Size, n % Wrap) % base = ((n % Wrap) % Size) % base
  <2>1. (n % Wrap) % Size \in Nat
    BY <1>3, Zenon
  <2> QED
    BY <2>1, LineFacts, Zenon DEF LineOf, CellOf
<1>5. PICK p \in Nat, s \in Nat : p = pos + i /\ s = pos + j
  BY <1>2
<1>6. PICK r \in Int : r = ((p % Wrap) % Size) % base /\ r = ((s % Wrap) % Size) % base
  <2>1. ((p % Wrap) % Size) % base = ((s % Wrap) % Size) % base
    BY <1>5, <1>4, Zenon
  <2>2. ((p % Wrap) % Size) % base \in Int
    BY <1>3, Zenon
  <2> QED
    BY <2>1, <2>2, Zenon
<1>7. PICK k \in Int, l \in Int : p = k * base + r /\ s = l * base + r
  <2>1. \E k \in Int : p = k * base + r
    BY <1>3, <1>6, Zenon
  <2>2. \E l \in Int : s = l * base + r
    BY <1>3, <1>6, Zenon
  <2> QED
    BY <2>1, <2>2, Zenon
<1>8. i - j = (k - l) * base
  BY <1>2, <1>5, <1>7
<1>9. k = l
  <2>1. PICK z \in Int : z = k - l
    OBVIOUS
  <2>2. z * base < base /\ z * base > 0 - base
    BY <1>8, <2>1
  <2>3. z >= 1 => z * base >= base
    OBVIOUS
  <2>4. z <= -1 => z * base <= 0 - base
    OBVIOUS
  <2> QED
    BY <2>1, <2>2, <2>3, <2>4
<1> QED
  BY <1>8, <1>9
=============================================================================
