------------------------------ MODULE MCKeeper ------------------------------
(* Model checking Keeper on short timers. *)
EXTENDS Keeper
=============================================================================
