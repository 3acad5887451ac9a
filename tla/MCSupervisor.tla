---------------------------- MODULE MCSupervisor ----------------------------
(* Model checking Supervisor: two supervisors, and as many keepers as they can *)
(* have at a time, with one for a stale file.                                  *)
EXTENDS Supervisor

CONSTANTS p1, p2, p3, s1, s2

ThreeProcs == {p1, p2, p3}
TwoSups    == {s1, s2}
=============================================================================
