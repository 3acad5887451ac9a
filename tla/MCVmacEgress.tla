---------------------------- MODULE MCVmacEgress ----------------------------
(* VmacEgress on a small instance: the sizes come from the cfg. *)
EXTENDS VmacEgress
=============================================================================
