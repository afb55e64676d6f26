-------------------------- MODULE MCEventArchive --------------------------
(****************************************************************************)
(* A small instance of EventArchive for TLC: one definition beside the      *)
(* poller, two causes so that a cause can change, a queue of two, and rows  *)
(* enough for a few reports.                                                *)
(****************************************************************************)
EXTENDS EventArchive, TLC

CONSTANTS soap, query

OneDefinition == [c \in {soap} |-> <<query>>]
Symmetry == Permutations(Causes)
=============================================================================
