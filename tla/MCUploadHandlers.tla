-------------------------- MODULE MCUploadHandlers --------------------------
(* UploadHandlers on small instances. *)
EXTENDS UploadHandlers, TLC

CONSTANTS r1, r2, r3, r4, r5

Symmetry == Permutations(Request)

AllAnswers == Refusal \cup Acceptance
=============================================================================
