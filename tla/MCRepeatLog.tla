---------------------------- MODULE MCRepeatLog ----------------------------
(****************************************************************************)
(* A small instance of RepeatLog for TLC: one collector with two lines and  *)
(* one with a third, and room for two of the three.                         *)
(****************************************************************************)
EXTENDS RepeatLog

CONSTANTS soap, api, a, b, c

TwoAndOne == [k \in {soap, api} |-> IF k = soap THEN {a, b} ELSE {c}]
=============================================================================
