----------------------------- MODULE RingIndex ------------------------------
(***************************************************************************)
(* Where the ring keeps an element: the compile-time arithmetic of         *)
(* external/atomic_queue/include/atomic_queue/atomic_queue.h.  The size is *)
(* rounded up to a power of two, so that the unsigned counters head_ and   *)
(* tail_ wrap around without a gap, and the index is remapped, so that     *)
(* subsequent elements are on different cache lines.                       *)
(***************************************************************************)
EXTENDS Integers, Bitwise

CONSTANTS
    Width,              \* bits of an unsigned: 32 in the code
    Sizes,              \* template argument SIZE
    ElementsPerLine     \* CACHE_LINE_SIZE / sizeof(std::atomic<T>)

\* A larger size is rounded to zero, and elements_ is then no array.
ASSUME IndexAssumption ==
    /\ Width \in Nat \ {0}
    /\ Sizes \subseteq 1 .. 2^(Width - 1)
    /\ ElementsPerLine \subseteq Nat \ {0}

Unsigned == 0 .. 2^Width - 1

\* The arguments 1, 2, 4, .. of or_equal, for 32 bits up to 16.
Shifts == {2^k : k \in {n \in 0 .. Width : 2^n < Width}}

\* or_equal: a |= a >> 1; a |= a >> 2; a |= a >> 4; ..
RECURSIVE OrEqual(_, _)
OrEqual(a, u) == IF u \in Shifts THEN OrEqual(a | shiftR(a, u), 2 * u) ELSE a

RoundUpToPowerOf2(a) == (OrEqual((a - 1) % 2^Width, 1) + 1) % 2^Width

\* The logarithm of what fits on a cache line, if that is a power of two from
\* 2 to 64, otherwise 0.
CacheLineIndexBits(elements_per_cache_line) ==
    IF \E n \in 1 .. 6 : 2^n = elements_per_cache_line
    THEN CHOOSE n \in 1 .. 6 : 2^n = elements_per_cache_line
    ELSE 0

\* Mutant: a small array is remapped too.
IndexShuffleAlways(array_size, elements_per_cache_line) ==
    CacheLineIndexBits(elements_per_cache_line)

IndexShuffleBits(array_size, elements_per_cache_line) ==
    LET bits == CacheLineIndexBits(elements_per_cache_line)
    IN  IF array_size < 2^(bits * 2) THEN 0 ELSE bits

\* Mutant: one bit is exchanged, whatever BITS is.
RemapOneBit(bits, index) ==
    LET mix == (index ^^ shiftR(index, bits)) & 1
    IN  IF bits = 0 THEN index ELSE (index ^^ mix) ^^ (mix * 2^bits)

\* remap_index: the low bits and the next bits of the index are exchanged.
RemapIndex(bits, index) ==
    LET mix == (index ^^ shiftR(index, bits)) & (2^bits - 1)
    IN  IF bits = 0 THEN index ELSE (index ^^ mix) ^^ (mix * 2^bits)

-----------------------------------------------------------------------------
\* map: the cells of the n positions from head on, the counter wrapping around.
CellsFrom(head, n, size, bits) ==
    {RemapIndex(bits, ((head + i) % 2^Width) % size) : i \in 0 .. n - 1}

CacheLine(cell, elements_per_cache_line) == cell \div elements_per_cache_line
=============================================================================
