------------------------- MODULE MCRepinTransaction --------------------------
(* Two invocations; r3 has a gate that did not pass.                         *)
EXTENDS RepinTransaction

CONSTANTS r1, r2, r3, p1, p2
=============================================================================
