------------------------------ MODULE Detection ------------------------------
(***************************************************************************)
(* Which type of printer the process serves (src/src/detect.py and         *)
(* main.py:56-75): the configured one or, for "auto", that which answers a *)
(* UDP probe.  An attempt probes for both types at once; an attempt that   *)
(* gets no answer is repeated after a pause.  Lifecycle composes this with *)
(* the rest of the start.                                                  *)
(***************************************************************************)
EXTENDS Naturals

CONSTANT Configured (* the values of PRINTER_TYPE to consider *)

Type == {"CC1", "CC2"}

ASSUME DetectionAssumption == Configured \subseteq Type \cup {"auto"}

VARIABLES
  configured, (* PRINTER_TYPE                                *)
  phase,      (* where the detection is                      *)
  attempt,    (* how many attempts were begun                *)
  probe,      (* what became of each probe of this attempt   *)
  printer     (* the type                                    *)

detectVars == <<configured, phase, attempt, probe, printer>>

InitDetection ==
  /\ configured \in Configured
  /\ phase = "off" /\ attempt = 0 /\ probe = [t \in Type |-> "off"] /\ printer = "none"

StartDetection ==
  /\ IF configured = "auto"
     THEN phase' = "probe" /\ attempt' = 1 /\ probe' = [t \in Type |-> "create"] /\ UNCHANGED printer
     ELSE phase' = "done" /\ printer' = configured /\ UNCHANGED <<attempt, probe>>
  /\ UNCHANGED configured

EndDetection ==
  /\ phase' = "off" /\ attempt' = 0 /\ probe' = [t \in Type |-> "off"] /\ printer' = "none"
  /\ UNCHANGED configured

-----------------------------------------------------------------------------
(* _probe_udp() *)

SocketCreated(t) ==
  /\ phase = "probe" /\ probe[t] = "create"
  /\ probe' = [probe EXCEPT ![t] = "wait"]
  /\ UNCHANGED <<configured, phase, attempt, printer>>

(* An error that gather() passes on, and that nothing retries. *)
SocketFails(t) ==
  /\ phase = "probe" /\ probe[t] = "create"
  /\ phase' = "dead"
  /\ UNCHANGED <<configured, attempt, probe, printer>>

(* The first datagram counts; none comes in time, or the host refuses. *)
ProbeEnds(t) ==
  /\ phase = "probe" /\ probe[t] = "wait"
  /\ \E how \in {"replied", "silent"} : probe' = [probe EXCEPT ![t] = how]
  /\ UNCHANGED <<configured, phase, attempt, printer>>

-----------------------------------------------------------------------------
(* Faulty: CC1's answer is looked at first. *)
PreferCC1 == IF probe["CC1"] = "replied" THEN "CC1" ELSE "CC2"

Preferred == IF probe["CC2"] = "replied" THEN "CC2" ELSE "CC1"

BothOver == phase = "probe" /\ \A t \in Type : probe[t] \in {"replied", "silent"}

Detected ==
  /\ BothOver /\ \E t \in Type : probe[t] = "replied"
  /\ phase' = "done" /\ printer' = Preferred
  /\ UNCHANGED <<configured, attempt, probe>>

(* An attempt is repeated after 5, 10 and 20 seconds. *)
Pauses == 3

NotDetected ==
  /\ BothOver /\ \A t \in Type : probe[t] = "silent"
  /\ phase' = IF attempt <= Pauses THEN "pause" ELSE "dead"
  /\ UNCHANGED <<configured, attempt, probe, printer>>

(* Faulty: attempts are not counted. *)
RetryForEver ==
  /\ phase = "pause"
  /\ phase' = "probe" /\ probe' = [t \in Type |-> "create"]
  /\ UNCHANGED <<configured, attempt, printer>>

Retry ==
  /\ phase = "pause"
  /\ phase' = "probe" /\ probe' = [t \in Type |-> "create"]
  /\ attempt' = attempt + 1
  /\ UNCHANGED <<configured, printer>>

Detect ==
  \/ \E t \in Type : SocketCreated(t) \/ SocketFails(t) \/ ProbeEnds(t)
  \/ Detected \/ NotDetected \/ Retry

=============================================================================
