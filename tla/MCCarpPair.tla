----------------------------- MODULE MCCarpPair -----------------------------
(* Model checking CarpPair: node a is preferred. *)
EXTENDS CarpPair
=============================================================================
