----------------------------- MODULE MCArchive -----------------------------
(* Archive on small instances. *)
EXTENDS Archive, TLC

CONSTANTS u1, u2, u3, f1, f2, f3

(* Two captures of one file and one of another. *)
Reprint == u1 :> f1 @@ u2 :> f1 @@ u3 :> f2
OwnFile == u1 :> f1 @@ u2 :> f2 @@ u3 :> f3

OwnName == f1 :> 1 @@ f2 :> 2 @@ f3 :> 3

Utc == [t \in 0 .. MaxClock |-> t]
=============================================================================
