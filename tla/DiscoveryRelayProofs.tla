------------------------ MODULE DiscoveryRelayProofs ------------------------
(* Theorems about DiscoveryRelay, for any number of probes. *)
EXTENDS DiscoveryRelay, TLAPS

(* A probe has its socket and its future from when it is forwarded. *)
Forwarded(p) == task[p] = "wait" \/ task[p] = "over"

OnceForwarded ==
  \A p \in Probe :
    /\ via[p] # None => Forwarded(p)
    /\ future[p] # "none" => via[p] # None
    /\ task[p] = "wait" => via[p] # None

(* A reply in a future, and one on its way to a client, came through the   *)
(* socket of the probe.                                                    *)
SameSocket(p, q) == via[q] # None /\ via[p] = via[q]

FuturesFromOwnSocket == \A p \in Probe : future[p] \in Probe => SameSocket(p, future[p])

AnswersForwarded == \A a \in answers : SameSocket(a.to, a.reply)

Inv ==
  TypeOK /\ OnceForwarded /\ WaitersWait /\ FuturesFromOwnSocket /\ AnswersForwarded

-----------------------------------------------------------------------------
LEMMA TypeStep == TypeOK /\ OnceForwarded /\ [Next]_vars => TypeOK'
<1> SUFFICES ASSUME TypeOK, OnceForwarded, [Next]_vars PROVE TypeOK'
  OBVIOUS
<1> USE DEF TypeOK, Outcome
<1>1. ASSUME NEW p \in Probe, Receive(p) \/ CreateFails(p) \/ Expire(p) PROVE TypeOK'
  BY <1>1 DEF Receive, CreateFails, Expire
<1>2. ASSUME NEW p \in Probe, Start(p) PROVE TypeOK'
  <2>1. CASE fwd = None
    BY <1>2, <2>1 DEF Start
  <2>2. CASE fwd # None
    BY <1>2, <2>2 DEF Start, Forward
  <2> QED BY <2>1, <2>2
<1>3. ASSUME NEW p \in Probe, Created(p) PROVE TypeOK'
  BY <1>3 DEF Created, Forward
<1>4. ASSUME NEW p \in Probe, Finish(p) PROVE TypeOK'
  <2>1. answers' \subseteq [to : Probe, reply : Probe]
    BY <1>4 DEF Finish
  <2>2. waiters' \in [Probe -> SUBSET Probe]
    BY <1>4 DEF Finish
  <2> QED BY <1>4, <2>1, <2>2 DEF Finish
<1>5. ASSUME NEW p \in Probe, ReplyReceived(p) PROVE TypeOK'
  BY <1>5 DEF ReplyReceived, Resolve, Sent
<1>6. ASSUME NEW s \in Probe, Refused(s) PROVE TypeOK'
  BY <1>6 DEF Refused, Resolve
<1>7. CASE Close \/ ConnectionLost \/ UNCHANGED vars
  BY <1>7 DEF Close, ConnectionLost, relayVars, vars
<1> QED BY <1>1, <1>2, <1>3, <1>4, <1>5, <1>6, <1>7 DEF Next, Relay

(* A forwarding, whether the task found its socket or created it. *)
LEMMA ForwardKeeps ==
  ASSUME Inv, NEW p \in Probe, NEW s \in Probe, ~Forwarded(p), Forward(p, s)
  PROVE  OnceForwarded' /\ WaitersWait' /\ FuturesFromOwnSocket' /\ AnswersForwarded'
<1> USE DiscoveryAssumption DEF Inv, TypeOK, Outcome
<1>0. via[p] = None /\ future[p] = "none" /\ (\A t \in Probe : p \notin waiters[t])
  BY DEF OnceForwarded, WaitersWait, Forwarded
<1>1. \A q \in Probe : q # p => via'[q] = via[q] /\ task'[q] = task[q]
  BY DEF Forward
<1>2. via'[p] = s /\ task'[p] = "wait"
  BY DEF Forward
<1>3. \A q \in Probe : future'[q] \in {future[q], "pending", "unsent", "error"}
  BY DEF Forward
<1>4. OnceForwarded'
  <2>1. \A q \in Probe : q # p /\ future[q] = "none" => future'[q] = "none"
    BY DEF Forward
  <2> QED BY <1>1, <1>2, <2>1 DEF OnceForwarded, Forwarded
<1>5. WaitersWait'
  <2>1. \A t \in Probe : waiters'[t] \subseteq waiters[t] \cup (IF t = s THEN {p} ELSE {})
    BY DEF Forward
  <2> QED BY <1>0, <1>1, <1>2, <2>1 DEF WaitersWait
<1>6. FuturesFromOwnSocket'
  <2> SUFFICES ASSUME NEW q \in Probe, future'[q] \in Probe PROVE SameSocket(q, future[q])'
    BY DEF FuturesFromOwnSocket
  <2>1. future'[q] = future[q] /\ q # p
    BY <1>0, <1>3
  <2> QED BY <1>0, <1>1, <2>1 DEF FuturesFromOwnSocket, SameSocket, OnceForwarded
<1>7. AnswersForwarded'
  BY <1>0, <1>1 DEF Forward, AnswersForwarded, SameSocket
<1> QED BY <1>4, <1>5, <1>6, <1>7

(* An outcome for the waiters of a socket: an error, or a reply that came  *)
(* through that socket.                                                    *)
LEMMA ResolveKeeps ==
  ASSUME Inv, NEW s \in Probe, NEW o, o = "error" \/ (o \in Probe /\ via[o] = s), Resolve(s, o),
         UNCHANGED <<listening, task, expired, via, fwd, open, answers>>
  PROVE  OnceForwarded' /\ WaitersWait' /\ FuturesFromOwnSocket' /\ AnswersForwarded'
<1> USE DiscoveryAssumption DEF Inv, TypeOK, Outcome
<1>1. \A q \in Probe : future'[q] = future[q] \/ (future'[q] = o /\ q \in waiters[s])
  BY DEF Resolve
<1>2. OnceForwarded'
  BY <1>1 DEF OnceForwarded, WaitersWait, Forwarded
<1>3. WaitersWait'
  BY DEF WaitersWait, Resolve
<1>4. FuturesFromOwnSocket'
  BY <1>1 DEF FuturesFromOwnSocket, SameSocket, WaitersWait
<1>5. AnswersForwarded'
  BY DEF AnswersForwarded, SameSocket
<1> QED BY <1>2, <1>3, <1>4, <1>5

LEMMA InvStep == Inv /\ [Next]_vars => Inv'
<1> SUFFICES ASSUME Inv, [Next]_vars
             PROVE  OnceForwarded' /\ WaitersWait' /\ FuturesFromOwnSocket' /\ AnswersForwarded'
  BY TypeStep DEF Inv
<1> DEFINE Goal == OnceForwarded' /\ WaitersWait' /\ FuturesFromOwnSocket' /\ AnswersForwarded'
<1>1. ASSUME NEW p \in Probe, Receive(p) \/ CreateFails(p) PROVE Goal
  BY <1>1
  DEF Receive, CreateFails, Inv, TypeOK, OnceForwarded, Forwarded, WaitersWait,
      FuturesFromOwnSocket, AnswersForwarded, SameSocket
<1>2. ASSUME NEW p \in Probe, Start(p) PROVE Goal
  <2>1. CASE fwd = None
    BY <1>2, <2>1
    DEF Start, Inv, TypeOK, OnceForwarded, Forwarded, WaitersWait,
        FuturesFromOwnSocket, AnswersForwarded, SameSocket
  <2>2. CASE fwd # None
    BY <1>2, <2>2, ForwardKeeps DEF Start, Inv, TypeOK, Forwarded
  <2> QED BY <2>1, <2>2
<1>3. ASSUME NEW p \in Probe, Created(p) PROVE Goal
  BY <1>3, ForwardKeeps DEF Created, Forwarded
<1>4. ASSUME NEW p \in Probe, Expire(p) PROVE Goal
  BY <1>4, DiscoveryAssumption
  DEF Expire, Inv, TypeOK, Outcome, OnceForwarded, Forwarded, WaitersWait,
      FuturesFromOwnSocket, AnswersForwarded, SameSocket
<1>5. ASSUME NEW p \in Probe, Finish(p) PROVE Goal
  <2>1. OnceForwarded' /\ FuturesFromOwnSocket'
    BY <1>5 DEF Finish, Inv, TypeOK, OnceForwarded, Forwarded, FuturesFromOwnSocket, SameSocket
  <2>2. WaitersWait'
    BY <1>5 DEF Finish, Inv, TypeOK, WaitersWait
  <2>3. AnswersForwarded'
    BY <1>5 DEF Finish, Inv, TypeOK, FuturesFromOwnSocket, AnswersForwarded, SameSocket
  <2> QED BY <2>1, <2>2, <2>3
<1>6. ASSUME NEW p \in Probe, ReplyReceived(p) PROVE Goal
  <2>1. via[p] \in Probe
    BY <1>6 DEF ReplyReceived, Sent, Inv, TypeOK
  <2> QED BY <1>6, <2>1, ResolveKeeps DEF ReplyReceived
<1>7. ASSUME NEW s \in Probe, Refused(s) PROVE Goal
  BY <1>7, ResolveKeeps DEF Refused
<1>8. CASE Close \/ ConnectionLost \/ UNCHANGED vars
  BY <1>8
  DEF Close, ConnectionLost, relayVars, vars, Inv, OnceForwarded, Forwarded, WaitersWait,
      FuturesFromOwnSocket, AnswersForwarded, SameSocket
<1> QED BY <1>1, <1>2, <1>3, <1>4, <1>5, <1>6, <1>7, <1>8 DEF Next, Relay

LEMMA Invariant == Spec => []Inv
<1>1. Init => Inv
  BY DiscoveryAssumption
  DEF Init, Inv, TypeOK, Outcome, OnceForwarded, Forwarded, WaitersWait,
      FuturesFromOwnSocket, AnswersForwarded
<1> QED BY <1>1, InvStep, PTL DEF Spec

-----------------------------------------------------------------------------
(* discovery_relay.py:58-69: a socket's waiters are tasks that still wait  *)
(* for it.                                                                 *)
THEOREM DiscoveryWaitersWait == Spec => []WaitersWait
<1>1. Inv => WaitersWait
  BY DEF Inv
<1> QED BY Invariant, <1>1, PTL

(* discovery_relay.py:46-50: an answer came through the probe's own socket. *)
THEOREM DiscoveryOwnSocket == Spec => []AnswerFromOwnSocket
<1>1. Inv => AnswerFromOwnSocket
  BY DEF Inv, AnswersForwarded, AnswerFromOwnSocket, SameSocket
<1> QED BY Invariant, <1>1, PTL

(* discovery_relay.py:47-56: a future that is done is not set again.       *)
THEOREM DiscoveryFutureSetOnce == Spec => FutureSetOnce
<1> DEFINE Step == \A p \in Probe : future[p] \notin {"none", "pending"} => future'[p] = future[p]
<1>1. Inv /\ [Next]_vars => [Step]_vars
  <2> SUFFICES ASSUME Inv, Next, NEW q \in Probe, future[q] \notin {"none", "pending"}
               PROVE  future'[q] = future[q]
    OBVIOUS
  <2> USE DEF Inv, TypeOK
  <2>1. ASSUME NEW p \in Probe, NEW s \in Probe, ~Forwarded(p), Forward(p, s)
        PROVE  future'[q] = future[q]
    BY <2>1 DEF Forward, OnceForwarded
  <2>2. ASSUME NEW p \in Probe, Start(p) PROVE future'[q] = future[q]
    BY <2>1, <2>2 DEF Start, Forwarded
  <2>3. ASSUME NEW p \in Probe, Created(p) PROVE future'[q] = future[q]
    BY <2>1, <2>3 DEF Created, Forwarded
  <2>4. ASSUME NEW p \in Probe, Expire(p) PROVE future'[q] = future[q]
    BY <2>4 DEF Expire
  <2> QED
    BY <2>2, <2>3, <2>4
    DEF Next, Relay, Receive, CreateFails, Finish, ReplyReceived, Refused, Resolve, Close,
        ConnectionLost, relayVars
<1> QED BY Invariant, <1>1, PTL DEF Spec, FutureSetOnce
=============================================================================
