--------------------------- MODULE MCArchiveStore ---------------------------
(****************************************************************************)
(* Small instances of ArchiveStore for TLC: one collector with one          *)
(* definition beside the poller, two causes so that a cause can change, a   *)
(* log of up to two equal lines, two rows so that four records overflow.    *)
(****************************************************************************)
EXTENDS ArchiveStore, TLC

CONSTANTS soap, query

OneDefinition == [c \in {soap} |-> <<query>>]
Symmetry == Permutations(Causes)
=============================================================================
