--------------------------- MODULE MCDefaultRoute ---------------------------
(* Model checking DefaultRoute: two usable gateways, so that one can replace *)
(* the other, and one that _sane_ipv4 rejects.                               *)
EXTENDS DefaultRoute

CONSTANTS g1, g2, zero

MCGateway == {g1, g2, zero}
MCUsable  == {g1, g2}
=============================================================================
