-------------------------- MODULE MCDiscoveryRelay --------------------------
(* DiscoveryRelay on small instances. *)
EXTENDS DiscoveryRelay, TLC

CONSTANTS p1, p2, p3
=============================================================================
