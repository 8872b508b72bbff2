---------------------------- MODULE MCLifecycle ----------------------------
(* Lifecycle on small instances. *)
EXTENDS Lifecycle, TLC

CONSTANTS r1, r2, r3, c1

(* Two uploads on port 80 and, for CC1, one on port 3030. *)
BothPorts == [r \in Request |-> IF r = r3 THEN "sdcp" ELSE "web"]
=============================================================================
