--------------------------- MODULE MCArchiveQueue ---------------------------
(****************************************************************************)
(* A small instance of ArchiveQueue for TLC: three collectors, so that two  *)
(* readers can hold the lock while close() waits, and with the poller four  *)
(* jobs; two places in the channel, so that jobs that wait have an order,   *)
(* and it is full while a third job is stored and a fourth is offered.      *)
(* Liveness is checked too, so there is no symmetry.                        *)
(****************************************************************************)
EXTENDS ArchiveQueue
=============================================================================
