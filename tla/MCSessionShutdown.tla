------------------------- MODULE MCSessionShutdown -------------------------
(* SessionShutdown on small instances. *)
EXTENDS SessionShutdown, TLC

CONSTANTS r1, r2, r3, k1, a

Halves == {[offset |-> 0, length |-> 1], [offset |-> 1, length |-> 1]}

OneUpload == a :> k1

(* Requests are alike: initial states up to their names.                   *)
InitInOrder ==
  /\ InitShutdown
  /\ Offset(r1) <= Offset(r2) /\ Offset(r2) <= Offset(r3)

SpecInOrder == InitInOrder /\ [][NextShutdown]_shutdownVars /\ FairnessShutdown
=============================================================================
