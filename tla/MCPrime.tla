------------------------------ MODULE MCPrime ------------------------------
(* Prime on two places.  The timers' periods keep their order; the clock   *)
(* the receiver sets was a step fast, or slow by a whole period.         *)
EXTENDS Prime
MCSkews == {-1, 2}
MCMinAge == -1
=============================================================================
