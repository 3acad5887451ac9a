---------------------------- MODULE MCLeaseClock ----------------------------
(* Model checking LeaseClock on leases near and above the floors. *)
EXTENDS LeaseClock
=============================================================================
