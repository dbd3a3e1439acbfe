----------------------------- MODULE RingDigits -----------------------------
(***************************************************************************)
(* What remap_index of RingIndex comes to, without bits: the index of an   *)
(* element is a number in base 2^BITS, whose lowest two digits change      *)
(* places.  MCAtomicQueue compares the two, and AtomicQueueProofs proves   *)
(* what a ring needs of the exchange, in any base.                         *)
(***************************************************************************)
EXTENDS Integers

SwapDigits(base, index) ==
    LET line == index \div base
    IN  ((line \div base) * base + (index % base)) * base + (line % base)

\* The cell of a counter's value, and the cache line of that cell.
CellOf(base, size, counter) == SwapDigits(base, counter % size)

LineOf(base, size, counter) == CellOf(base, size, counter) \div base
=============================================================================
