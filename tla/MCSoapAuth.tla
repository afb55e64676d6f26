----------------------------- MODULE MCSoapAuth -----------------------------
(****************************************************************************)
(* A small instance of SoapAuth for TLC: the collection and the poller of   *)
(* the archive, and a router that changes its nonce three times.            *)
(****************************************************************************)
EXTENDS SoapAuth

CONSTANTS collection, poller

NoDigest == -1
=============================================================================
