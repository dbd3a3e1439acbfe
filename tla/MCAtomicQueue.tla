--------------------------- MODULE MCAtomicQueue ----------------------------
(* Instances of AtomicQueue for TLC, with the index arithmetic of its ring. *)
EXTENDS AtomicQueue, RingIndex, RingDigits, TLC

\* remap_index on a ring of four with two elements on a cache line: bits 0 and
\* 1 of the index are swapped.
SwapBits == (0 :> 0) @@ (1 :> 2) @@ (2 :> 1) @@ (3 :> 3)

ASSUME SwapBitsIsTheCode ==
    \A i \in 0 .. 3 : SwapBits[i] = RemapIndex(IndexShuffleBits(4, 2), i)

\* A ring of two is too small to spread.
Same == (0 :> 0) @@ (1 :> 1)

-----------------------------------------------------------------------------
\* The properties of the arithmetic are about every value that a counter can
\* have, so it is enough to look at them before the first command.
NothingPushed == \A p \in Producers : pushed[p] = 0

\* For every template argument SIZE the ring has at least that many cells, and
\* not twice as many, and the commands outstanding, up to the size of the ring,
\* have one cell each: wherever head_ has got to from its start, also when it
\* begins again from zero between them.  A ring that is remapped has a
\* multiple of the square of the elements on a line for its size.
OneCellEach ==
    NothingPushed =>
        \A SIZE \in Sizes, elements_per_line \in ElementsPerLine :
            LET size == RoundUpToPowerOf2(SIZE)
                bits == IndexShuffleBits(size, elements_per_line)
            IN  /\ SIZE <= size /\ size < 2 * SIZE
                /\ size % 4^bits = 0
                /\ \A n \in Unsigned : CellsFrom(head + n, size, size, bits) = 0 .. size - 1

\* "each subsequent element resides on another cache line" (atomic_queue.h:53):
\* so do as many as fit on one, in a ring that is not too small for that.  The bits
\* that are swapped for it are the lowest two digits of the index.
Spread ==
    NothingPushed =>
        \A SIZE \in Sizes, elements_per_line \in ElementsPerLine :
            LET size == RoundUpToPowerOf2(SIZE)
                bits == IndexShuffleBits(size, elements_per_line)
                Line(cell) == CacheLine(cell, elements_per_line)
            IN  /\ \A n \in Unsigned : RemapIndex(bits, n) = SwapDigits(2^bits, n)
                /\ size >= elements_per_line * elements_per_line =>
                       \A n \in Unsigned :
                           LET cells == CellsFrom(head + n, elements_per_line, size, bits)
                           IN  Cardinality({Line(cell) : cell \in cells}) = elements_per_line
=============================================================================
