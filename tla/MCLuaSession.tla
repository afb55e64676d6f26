---------------------------- MODULE MCLuaSession ----------------------------
(****************************************************************************)
(* A small instance of LuaSession for TLC: three definitions, of which the  *)
(* first and the last share a page and differ in their TTL.                 *)
(****************************************************************************)
EXTENDS LuaSession

CONSTANTS overview, energy

SharedPage == <<overview, energy, overview>>
MixedTTL == <<2, 1, 1>>
=============================================================================
