---------------------------- MODULE UploadCapture ----------------------------
(***************************************************************************)
(* What the session manager promises, without tasks, locks, threads or     *)
(* files: under each key at most one copy of an upload is being assembled, *)
(* chunks only ever add to it, and it is captured once, when nothing of it *)
(* is missing, or given up.                                                *)
(***************************************************************************)
EXTENDS Integers

CONSTANTS Key, Id, Byte, Nothing

VARIABLES
  assembly,  (* under each key, the copy being assembled, or Nothing *)
  used,      (* the names given to copies so far                     *)
  captured   (* the captured copies                                  *)

captureVars == <<assembly, used, captured>>

Copy == [id : Id, got : SUBSET Byte]

CaptureInit ==
  /\ assembly = [k \in Key |-> Nothing]
  /\ used = {}
  /\ captured = {}

(* A first chunk starts a copy, in place of one that was never completed. *)
Begin(k, i) ==
  /\ i \notin used
  /\ used' = used \cup {i}
  /\ assembly' = [assembly EXCEPT ![k] = [id |-> i, got |-> {}]]
  /\ UNCHANGED captured

Add(k, S) ==
  /\ assembly[k] # Nothing
  /\ assembly' = [assembly EXCEPT ![k].got = @ \cup S]
  /\ UNCHANGED <<used, captured>>

Capture(k) ==
  /\ assembly[k] # Nothing
  /\ assembly[k].got = Byte
  /\ captured' = captured \cup {[id |-> assembly[k].id, key |-> k]}
  /\ assembly' = [assembly EXCEPT ![k] = Nothing]
  /\ UNCHANGED used

GiveUp(k) ==
  /\ assembly[k] # Nothing
  /\ assembly' = [assembly EXCEPT ![k] = Nothing]
  /\ UNCHANGED <<used, captured>>

CaptureNext ==
  \E k \in Key :
    \/ \E i \in Id : Begin(k, i)
    \/ \E S \in SUBSET Byte : Add(k, S)
    \/ Capture(k)
    \/ GiveUp(k)

CaptureSpec == CaptureInit /\ [][CaptureNext]_captureVars

=============================================================================
