---------------------------- MODULE MCApiSession ----------------------------
(****************************************************************************)
(* A small instance of ApiSession for TLC: three definitions, of which the  *)
(* first and the last share an endpoint and differ in their TTL.            *)
(****************************************************************************)
EXTENDS ApiSession

CONSTANTS box, wlan

SharedEndpoint == <<box, wlan, box>>
MixedTTL == <<3, 1, 1>>
=============================================================================
