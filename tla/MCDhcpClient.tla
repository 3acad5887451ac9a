---------------------------- MODULE MCDhcpClient ----------------------------
(* DhcpClient on a small instance: the sizes come from the cfg. *)
EXTENDS DhcpClient
=============================================================================
