------------------------------ MODULE MCFollow ------------------------------
(* Model checking Follow: two addresses behind one gateway and one behind    *)
(* another.                                                                  *)
EXTENDS Follow

CONSTANTS a, b, c, n1, n2

MCAddr  == {a, b, c}
MCNet   == {n1, n2}
MCNetOf == [x \in MCAddr |-> IF x = c THEN n2 ELSE n1]
=============================================================================
