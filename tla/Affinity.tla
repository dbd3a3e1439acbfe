------------------------------ MODULE Affinity ------------------------------
(***************************************************************************)
(* set_offload_thread_affinity of src/src/util.cpp: the offload thread     *)
(* reads MMCSO_THREAD_AFFINITY, looks for its rank and is pinned to the    *)
(* cpu listed there.  The value is a sequence of tokens: an entry, that is *)
(* "rank:cpu", a comma, a blank or anything else.  A variable that is not  *)
(* set has the effect of an empty one.                                     *)
(***************************************************************************)
EXTENDS Naturals, Sequences, SequencesExt

CONSTANTS
    Ranks,
    Cpus,               \* the cpus that an entry can name
    Usable,             \* those on which pthread_setaffinity_np succeeds
    Comma, Blank, Other, \* tokens
    MaxTokens           \* bound: tokens of the variable's value

Entries == [rank : Ranks, cpu : Cpus]

ASSUME AffinityAssumption ==
    /\ Usable \subseteq Cpus
    /\ {Comma, Blank, Other} \cap Entries = {}
    /\ MaxTokens \in Nat

\* Two entries with nothing between them read as something else.
Texts ==
    {s \in BoundedSeq(Entries \cup {Comma, Blank, Other}, MaxTokens) :
        \A i \in 1 .. Len(s) - 1 : s[i] \notin Entries \/ s[i + 1] \notin Entries}

\* MMCSO_DISPLAY_AFFINITY: "true" in any case, or what std::stoi reads as 1;
\* the exceptions of std::stoi are caught.
Displays == {"unset", "true", "one", "another number", "no number"}

display_affinity(display) == display \in {"true", "one"}

-----------------------------------------------------------------------------
\* The token where sscanf has skipped the blanks.
NextToken(text, offset) == CHOOSE i \in offset + 1 .. Len(text) + 1 :
    /\ \A j \in offset + 1 .. i - 1 : text[j] = Blank
    /\ i <= Len(text) => text[i] # Blank

\* sscanf returns 2.
AtEntry(text, offset) ==
    LET i == NextToken(text, offset) IN i <= Len(text) /\ text[i] \in Entries

\* offset += nread, and a comma is skipped.
Read(text, offset) ==
    LET i == NextToken(text, offset)
    IN  IF i < Len(text) /\ text[i + 1] = Comma THEN i + 1 ELSE i

\* Mutant: the loop goes on after the entry for this rank.
ScanLast(text, rank) ==
    LET from[offset \in 0 .. Len(text)] ==
            LET entry == text[NextToken(text, offset)]
                rest  == from[Read(text, offset)]
            IN  IF ~AtEntry(text, offset) THEN {}
                ELSE IF entry.rank = rank /\ rest = {} THEN {entry.cpu}
                ELSE rest
    IN  from[0]

\* The loop: the cpu that it passes to pthread_setaffinity_np, if any.
Scan(text, rank) ==
    LET from[offset \in 0 .. Len(text)] ==
            LET entry == text[NextToken(text, offset)]
            IN  IF ~AtEntry(text, offset) THEN {}
                ELSE IF entry.rank = rank THEN {entry.cpu}
                ELSE from[Read(text, offset)]
    IN  from[0]

\* The cpus that the thread may run on afterwards.
Pinned(text, rank) ==
    LET cpu == Scan(text, rank) IN IF cpu # {} /\ cpu \subseteq Usable THEN cpu ELSE Cpus

\* Mutant: the result of pthread_setaffinity_np is not looked at.
ShownAnyway(text, rank, display) ==
    IF display_affinity(display) THEN Scan(text, rank) ELSE {}

\* What is written to std::cerr.
Shown(text, rank, display) ==
    IF display_affinity(display) THEN Scan(text, rank) \cap Usable ELSE {}

-----------------------------------------------------------------------------
\* The grammar of the README (README.md:45): LIST=rank:cpu[,LIST].
List(text) ==
    /\ Len(text) % 2 = 1
    /\ \A i \in 1 .. Len(text) :
           IF i % 2 = 1 THEN text[i] \in Entries ELSE text[i] = Comma

\* The entries of this rank.
Own(text, rank) == {i \in 1 .. Len(text) : text[i] \in Entries /\ text[i].rank = rank}

FirstOwn(text, rank) ==
    text[CHOOSE i \in Own(text, rank) : \A j \in Own(text, rank) : i <= j]
=============================================================================
