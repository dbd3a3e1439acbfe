---------------------------- MODULE MCLifecycle -----------------------------
(***************************************************************************)
(* Lifecycle for TLC, with the affinity that its offload thread asks for:  *)
(* the environment may hold any text when the thread gets there.           *)
(***************************************************************************)
EXTENDS LifecycleInvariant, Affinity

\* A list is honoured: the thread is pinned by the first entry with its rank,
\* wherever that stands in the list, if the system has that cpu.
ListHonoured ==
    opc = "pin" =>
        \A text \in {s \in Texts : List(s)}, rank \in Ranks :
            LET own == Own(text, rank)
            IN  Pinned(text, rank) = IF own # {} /\ FirstOwn(text, rank).cpu \in Usable
                                     THEN {FirstOwn(text, rank).cpu} ELSE Cpus

\* Whatever the text, the thread is pinned to a cpu that the text lists for its
\* rank or not at all, and what is displayed is where it runs.
NothingInvented ==
    opc = "pin" =>
        \A text \in Texts, rank \in Ranks :
            /\ Pinned(text, rank) # Cpus =>
                   \E i \in Own(text, rank) : Pinned(text, rank) = {text[i].cpu}
            /\ \A display \in Displays :
                   LET cpu == Shown(text, rank, display)
                   IN  cpu # {} => cpu = Pinned(text, rank)
=============================================================================
