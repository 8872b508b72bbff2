----------------------------- MODULE RelayProofs -----------------------------
(* Theorems about TcpRelay, for any number of bytes and any sizes of the   *)
(* buffers, and about WsRelay, for any number of frames.                   *)
EXTENDS TcpRelay, WsRelay, TLAPS

(* A pipe that reads has seen its writer below the limit. *)
Bounds ==
  \A x \in Peer : /\ writing[x] <= HighWater + ReadLimit
                  /\ pipe[Other(x)] = "read" => writing[x] <= HighWater

SetUp ==
  /\ transport["client"] # "none"
  /\ transport["server"] = "none" =>
       \/ /\ transport["client"] \in {"open", "lost"}
          /\ transport["client"] = "lost" => ended["client"] = "error"
          /\ \A x \in Peer : pipe[x] = "none" /\ writing[x] = 0
       \/ \A x \in Peer : pipe[x] = "done"
  /\ transport["server"] # "none" => \A x \in Peer : pipe[x] # "none"

NoReset == \A x \in Peer : ended[x] # "error"

(* Nothing is lost on the way to x. *)
Conserved(x) == sent[Other(x)] = net[Other(x)] + reader[Other(x)] + writing[x] + got[x]

Open(x) == transport[x] \in {"none", "open"}

Flow ==
  /\ \A x \in Peer : transport[x] = "lost" => writing[x] = 0
  /\ NoReset => \A x \in Peer : Open(x) => Conserved(x)
  /\ NoReset => \A x \in Peer : ended[x] = "eof" => (x \in shut /\ net[x] = 0) \/ transport[x] = "lost"

(* A pipe ends at the end of its stream, and closes no writer before. *)
Ends ==
  Undisturbed => \A x \in Peer :
    /\ pipe[x] \in {"finally", "closing", "done"} => ended[x] = "eof" /\ reader[x] = 0
    /\ ~Open(x) => pipe[Other(x)] \in {"closing", "done"}

(* The peer that goes on learns of the end when it has got everything. *)
Close ==
  Undisturbed => \A x \in Peer :
    x \notin shut /\ ~Open(x) => Other(x) \in shut /\ net[Other(x)] = 0 /\ Conserved(x)

Inv == TypeOK /\ Bounds /\ SetUp /\ Flow /\ Ends /\ Close

-----------------------------------------------------------------------------
LEMMA Others == \A x \in Peer : Other(x) \in Peer /\ Other(x) # x /\ Other(Other(x)) = x
  BY DEF Peer, Other

LEMMA Two == \A x, y \in Peer : y = x \/ y = Other(x)
  BY DEF Peer, Other

LEMMA TypeStep == TypeOK /\ [Next]_vars => TypeOK'
<1> SUFFICES ASSUME TypeOK, [Next]_vars PROVE TypeOK'
  OBVIOUS
<1> USE Others, TcpRelayAssumption DEF TypeOK, inVars, outVars, Connected
<1>1. CASE OpenConnection \/ CannotReach
  <2>1. "client" \in Peer /\ "server" \in Peer
    BY DEF Peer
  <2>2. CASE OpenConnection
    BY <2>1, <2>2 DEF OpenConnection
  <2>3. CASE CannotReach
    BY <2>1, <2>3 DEF CannotReach
  <2> QED BY <1>1, <2>2, <2>3
<1>2. ASSUME NEW x \in Peer, Read(x) PROVE TypeOK'
  <2>1. PICK n \in 1 .. reader[x] :
          /\ reader' = [reader EXCEPT ![x] = @ - n]
          /\ writing' = IF transport[Other(x)] = "open"
                          THEN [writing EXCEPT ![Other(x)] = @ + n] ELSE writing
    BY <1>2 DEF Read
  <2>2. reader' \in [Peer -> 0 .. ReadLimit] /\ writing' \in [Peer -> Nat]
    BY <2>1
  <2> QED BY <1>2, <2>2 DEF Read
<1>3. ASSUME NEW x \in Peer, Drain(x) \/ ReadEnds(x) \/ CloseWriter(x) \/ WaitClosed(x)
      PROVE  TypeOK'
  BY <1>3 DEF Drain, ReadEnds, CloseWriter, WaitClosed
<1>4. ASSUME NEW x \in Peer, DataReceived(x) \/ EofReceived(x) PROVE TypeOK'
  BY <1>4 DEF DataReceived, EofReceived
<1>5. ASSUME NEW x \in Peer, WriteReady(x) \/ ConnectionLost(x) PROVE TypeOK'
  BY <1>5 DEF WriteReady, ConnectionLost
<1>6. ASSUME NEW x \in Peer, PeerSends(x) \/ PeerShuts(x) \/ PeerResets(x) PROVE TypeOK'
  BY <1>6 DEF PeerSends, PeerShuts, PeerResets
<1>7. CASE UNCHANGED vars
  BY <1>7 DEF vars
<1> QED BY <1>1, <1>2, <1>3, <1>4, <1>5, <1>6, <1>7 DEF Next, Handle, Pipe, Transport

LEMMA BoundsStep == TypeOK /\ Bounds /\ SetUp /\ [Next]_vars => Bounds'
<1> SUFFICES ASSUME TypeOK, Bounds, SetUp, [Next]_vars PROVE Bounds'
  OBVIOUS
<1> USE Others, TcpRelayAssumption DEF TypeOK, Bounds, inVars, outVars
<1>1. CASE OpenConnection \/ CannotReach
  BY <1>1 DEF OpenConnection, CannotReach, SetUp, Peer
<1>2. ASSUME NEW x \in Peer, Read(x) PROVE Bounds'
  <2>1. PICK n \in 1 .. reader[x] :
          writing' = IF transport[Other(x)] = "open"
                       THEN [writing EXCEPT ![Other(x)] = @ + n] ELSE writing
    BY <1>2 DEF Read
  <2>2. n <= ReadLimit /\ writing[Other(x)] <= HighWater
    BY <1>2 DEF Read
  <2> QED BY <1>2, <2>1, <2>2 DEF Read
<1>3. ASSUME NEW x \in Peer, Drain(x) PROVE Bounds'
  BY <1>3 DEF Drain
<1>4. ASSUME NEW x \in Peer, ReadEnds(x) \/ CloseWriter(x) \/ WaitClosed(x) PROVE Bounds'
  BY <1>4 DEF ReadEnds, CloseWriter, WaitClosed
<1>5. ASSUME NEW x \in Peer, WriteReady(x) \/ PeerResets(x) PROVE Bounds'
  BY <1>5 DEF WriteReady, PeerResets
<1> QED
  BY <1>1, <1>2, <1>3, <1>4, <1>5
  DEF Next, Handle, Pipe, Transport, DataReceived, EofReceived, ConnectionLost, PeerSends,
      PeerShuts, vars

LEMMA SetUpStep == TypeOK /\ SetUp /\ [Next]_vars => SetUp'
<1> SUFFICES ASSUME TypeOK, SetUp, [Next]_vars PROVE SetUp'
  OBVIOUS
<1>0. "client" \in Peer /\ "server" \in Peer
  BY DEF Peer
<1> USE <1>0, Others DEF TypeOK, SetUp, inVars, outVars, Connected
<1>1. CASE OpenConnection
  BY <1>1 DEF OpenConnection
<1>2. CASE CannotReach
  BY <1>2 DEF CannotReach
<1>3. ASSUME NEW x \in Peer, Read(x) PROVE SetUp'
  BY <1>3 DEF Read
<1>4. ASSUME NEW x \in Peer, Drain(x) PROVE SetUp'
  BY <1>4 DEF Drain
<1>5. ASSUME NEW x \in Peer, ReadEnds(x) \/ WaitClosed(x) PROVE SetUp'
  BY <1>5 DEF ReadEnds, WaitClosed
<1>6. ASSUME NEW x \in Peer, CloseWriter(x) PROVE SetUp'
  BY <1>6 DEF CloseWriter
<1>7. ASSUME NEW x \in Peer, WriteReady(x) PROVE SetUp'
  BY <1>7 DEF WriteReady
<1>8. ASSUME NEW x \in Peer, ConnectionLost(x) \/ PeerResets(x) PROVE SetUp'
  BY <1>8 DEF ConnectionLost, PeerResets
<1> QED
  BY <1>1, <1>2, <1>3, <1>4, <1>5, <1>6, <1>7, <1>8
  DEF Next, Handle, Pipe, Transport, DataReceived, EofReceived, PeerSends, PeerShuts, vars

LEMMA FlowStep == TypeOK /\ SetUp /\ Flow /\ [Next]_vars => Flow'
<1> SUFFICES ASSUME TypeOK, SetUp, Flow, [Next]_vars PROVE Flow'
  OBVIOUS
<1> USE Others DEF TypeOK, Flow, NoReset, Open, Conserved, inVars, outVars, Connected
<1>1. CASE OpenConnection
  BY <1>1 DEF OpenConnection, SetUp, Peer
<1>2. CASE CannotReach
  BY <1>2 DEF CannotReach, SetUp, Peer
<1>3. ASSUME NEW x \in Peer, Read(x) PROVE Flow'
  <2>1. transport[Other(x)] # "none"
    BY <1>3 DEF Read, SetUp, Peer, Other
  <2>2. PICK n \in 1 .. reader[x] :
          /\ reader' = [reader EXCEPT ![x] = @ - n]
          /\ writing' = IF transport[Other(x)] = "open"
                          THEN [writing EXCEPT ![Other(x)] = @ + n] ELSE writing
    BY <1>3 DEF Read
  <2>3. CASE transport[Other(x)] = "open"
    BY <1>3, <2>2, <2>3, Two DEF Read
  <2>4. CASE transport[Other(x)] # "open"
    BY <1>3, <2>1, <2>2, <2>4, Two DEF Read
  <2> QED BY <2>3, <2>4
<1>4. ASSUME NEW x \in Peer, Drain(x) \/ ReadEnds(x) \/ WaitClosed(x) PROVE Flow'
  BY <1>4 DEF Drain, ReadEnds, WaitClosed
<1>5. ASSUME NEW x \in Peer, CloseWriter(x) PROVE Flow'
  BY <1>5 DEF CloseWriter
<1>6. ASSUME NEW x \in Peer, DataReceived(x) PROVE Flow'
  BY <1>6 DEF DataReceived
<1>7. ASSUME NEW x \in Peer, EofReceived(x) PROVE Flow'
  BY <1>7 DEF EofReceived
<1>8. ASSUME NEW x \in Peer, WriteReady(x) PROVE Flow'
  BY <1>8 DEF WriteReady
<1>9. ASSUME NEW x \in Peer, ConnectionLost(x) PROVE Flow'
  BY <1>9 DEF ConnectionLost
<1>10. ASSUME NEW x \in Peer, PeerSends(x) PROVE Flow'
  BY <1>10 DEF PeerSends
<1>11. ASSUME NEW x \in Peer, PeerShuts(x) PROVE Flow'
  BY <1>11 DEF PeerShuts
<1>12. ASSUME NEW x \in Peer, PeerResets(x) PROVE Flow'
  BY <1>12 DEF PeerResets
<1>13. CASE UNCHANGED vars
  BY <1>13 DEF vars
<1> QED
  BY <1>1, <1>2, <1>3, <1>4, <1>5, <1>6, <1>7, <1>8, <1>9, <1>10, <1>11, <1>12, <1>13
  DEF Next, Handle, Pipe, Transport

LEMMA EndsStep == TypeOK /\ SetUp /\ Flow /\ Ends /\ [Next]_vars => Ends'
<1> SUFFICES ASSUME TypeOK, SetUp, Flow, Ends, [Next]_vars PROVE Ends'
  OBVIOUS
<1>0. Flow'
  BY FlowStep
<1> USE Others DEF TypeOK, Ends, Undisturbed, NoReset, Open, inVars, outVars, Connected
<1>1. CASE OpenConnection
  BY <1>1 DEF OpenConnection, SetUp, Peer
<1>2. CASE CannotReach
  BY <1>2 DEF CannotReach
<1>3. ASSUME NEW x \in Peer, Read(x) PROVE Ends'
  BY <1>3 DEF Read
<1>4. ASSUME NEW x \in Peer, Drain(x) PROVE Ends'
  BY <1>4 DEF Drain
<1>5. ASSUME NEW x \in Peer, ReadEnds(x) PROVE Ends'
  BY <1>5 DEF ReadEnds
<1>6. ASSUME NEW x \in Peer, WaitClosed(x) PROVE Ends'
  BY <1>6 DEF WaitClosed
<1>7. ASSUME NEW x \in Peer, CloseWriter(x) PROVE Ends'
  BY <1>7 DEF CloseWriter
<1>8. ASSUME NEW x \in Peer, DataReceived(x) PROVE Ends'
  BY <1>8 DEF DataReceived, Flow
<1>9. ASSUME NEW x \in Peer, EofReceived(x) PROVE Ends'
  BY <1>9 DEF EofReceived
<1>10. ASSUME NEW x \in Peer, ConnectionLost(x) PROVE Ends'
  BY <1>10 DEF ConnectionLost
<1>11. ASSUME NEW x \in Peer, PeerResets(x) PROVE Ends'
  BY <1>11 DEF PeerResets
<1> QED
  BY <1>1, <1>2, <1>3, <1>4, <1>5, <1>6, <1>7, <1>8, <1>9, <1>10, <1>11
  DEF Next, Handle, Pipe, Transport, WriteReady, PeerSends, PeerShuts, vars

LEMMA CloseStep == Inv /\ [Next]_vars => Close'
<1> SUFFICES ASSUME Inv, [Next]_vars PROVE Close'
  OBVIOUS
<1> USE Others DEF Inv, TypeOK, Close, Undisturbed, Open, Conserved, inVars, outVars, Connected
<1>1. CASE OpenConnection
  BY <1>1 DEF OpenConnection, SetUp, Peer
<1>2. CASE CannotReach
  BY <1>2 DEF CannotReach
<1>3. ASSUME NEW x \in Peer, Read(x) PROVE Close'
  BY <1>3 DEF Read, Ends
<1>4. ASSUME NEW x \in Peer, Drain(x) \/ ReadEnds(x) \/ WaitClosed(x) PROVE Close'
  BY <1>4 DEF Drain, ReadEnds, WaitClosed
<1>5. ASSUME NEW x \in Peer, CloseWriter(x) PROVE Close'
  <2> DEFINE y == Other(x)
  <2>1. CASE transport[y] # "open"
    BY <1>5, <2>1 DEF CloseWriter
  <2>2. CASE transport[y] = "open" /\ Undisturbed /\ y \notin shut
    <3>1. ended[x] = "eof" /\ reader[x] = 0
      BY <1>5, <2>2 DEF CloseWriter, Ends
    <3>2. transport[x] # "lost"
      <4> SUFFICES ASSUME transport[x] = "lost" PROVE FALSE
        OBVIOUS
      <4>1. ended[y] = "eof"
        BY <2>2 DEF Ends
      <4> QED BY <4>1, <2>2 DEF Flow, NoReset
    <3>3. x \in shut /\ net[x] = 0 /\ Conserved(y)
      BY <2>2, <3>1, <3>2 DEF Flow, NoReset
    <3> QED BY <1>5, <2>2, <3>1, <3>3, Two DEF CloseWriter
  <2>3. CASE transport[y] = "open" /\ ~(Undisturbed /\ y \notin shut)
    BY <1>5, <2>3 DEF CloseWriter
  <2> QED BY <2>1, <2>2, <2>3
<1>6. ASSUME NEW x \in Peer, DataReceived(x) \/ EofReceived(x) PROVE Close'
  BY <1>6 DEF DataReceived, EofReceived
<1>7. ASSUME NEW x \in Peer, WriteReady(x) PROVE Close'
  BY <1>7 DEF WriteReady
<1>8. ASSUME NEW x \in Peer, ConnectionLost(x) PROVE Close'
  BY <1>8 DEF ConnectionLost
<1>9. ASSUME NEW x \in Peer, PeerSends(x) \/ PeerShuts(x) PROVE Close'
  BY <1>9 DEF PeerSends, PeerShuts
<1>10. ASSUME NEW x \in Peer, PeerResets(x) PROVE Close'
  BY <1>10 DEF PeerResets
<1>11. CASE UNCHANGED vars
  BY <1>11 DEF vars
<1> QED
  BY <1>1, <1>2, <1>3, <1>4, <1>5, <1>6, <1>7, <1>8, <1>9, <1>10, <1>11
  DEF Next, Handle, Pipe, Transport

LEMMA Invariant == Spec => []Inv
<1>1. Init => Inv
  <2> SUFFICES ASSUME Init PROVE Inv
    OBVIOUS
  <2>1. TypeOK
    BY TcpRelayAssumption DEF Init, TypeOK, Peer
  <2>2. Bounds /\ SetUp
    BY TcpRelayAssumption, Others DEF Init, Bounds, SetUp, Peer
  <2>3. Flow
    BY Others DEF Init, Flow, NoReset, Open, Conserved
  <2>4. Ends /\ Close
    BY DEF Init, Ends, Close, Undisturbed, Peer
  <2> QED BY <2>1, <2>2, <2>3, <2>4 DEF Inv
<1>2. Inv /\ [Next]_vars => Inv'
  BY TypeStep, BoundsStep, SetUpStep, FlowStep, EndsStep, CloseStep DEF Inv
<1> QED BY <1>1, <1>2, PTL DEF Spec

-----------------------------------------------------------------------------
(* tcp_proxy.py:98-99: what the relay holds for a slow peer is bounded.    *)
THEOREM TcpBuffersBounded == Spec => []BuffersBounded
<1>1. Inv => BuffersBounded
  <2> SUFFICES ASSUME Inv, NEW x \in Peer
               PROVE  reader[Other(x)] + writing[x] <= HighWater + 2 * ReadLimit
    BY DEF BuffersBounded
  <2>1. reader[Other(x)] \in 0 .. ReadLimit /\ writing[x] \in Nat
    BY Others DEF Inv, TypeOK
  <2>2. writing[x] <= HighWater + ReadLimit
    BY DEF Inv, Bounds
  <2> QED BY <2>1, <2>2, TcpRelayAssumption
<1> QED BY Invariant, <1>1, PTL

(* tcp_proxy.py:93-107: data in any buffer survives the closing.           *)
THEOREM TcpDeliveredBeforeClose == Spec => []DeliveredBeforeClose
<1>1. Inv => DeliveredBeforeClose
  <2> SUFFICES ASSUME Inv, NEW x \in Peer, Undisturbed, transport[x] = "lost", x \notin shut
               PROVE  got[x] = sent[Other(x)]
    BY DEF DeliveredBeforeClose
  <2>1. net[Other(x)] = 0 /\ Conserved(x) /\ writing[x] = 0
    BY DEF Inv, Close, Flow, Open
  <2>2. reader[Other(x)] = 0
    BY Others DEF Inv, Ends, Open
  <2> QED BY <2>1, <2>2, Others DEF Inv, TypeOK, Conserved
<1> QED BY Invariant, <1>1, PTL

-----------------------------------------------------------------------------
(* WsRelay *)

(* Everything that a peer sent before it ended was written to the other. *)
Done(x) == side[x] # "no" /\ taken[x] = frames[x] /\ passed[WsOther(x)] = frames[x]

(* Why a task may end. *)
Cause == (\E x \in WsPeer : side[x] = "error") \/ (\E x \in WsPeer : Done(x))

(* Nothing stays behind in a task at work. *)
InStep == \A x \in WsPeer : relay[x] # "over" => passed[WsOther(x)] = taken[x]

NotConnected ==
  /\ handler = "connect" => ws["printer"] = "none" /\ ws["slicer"] = "open"
  /\ ws["printer"] = "none" =>
       handler \in {"connect", "finally", "over"} /\ \A x \in WsPeer : relay[x] = "none"

WhileRelaying ==
  handler = "relay" =>
    \A x \in WsPeer : /\ ws[x] \in {"open", "closed"} /\ relay[x] # "none"
                      /\ relay[x] = "over" \/ ws[x] = "closed" => Cause

Afterwards ==
  handler \in {"exit", "finally", "over"} /\ ~cancelled /\ ws["printer"] # "none" =>
    Cause /\ \A x \in WsPeer : relay[x] = "over"

WsInv == WsTypeOK /\ InStep /\ NotConnected /\ WhileRelaying /\ Afterwards

-----------------------------------------------------------------------------
LEMMA WsOthers == \A x \in WsPeer : WsOther(x) \in WsPeer /\ WsOther(x) # x /\ WsOther(WsOther(x)) = x
  BY DEF WsPeer, WsOther

LEMMA WsInvInit == InitWs => WsInv
<1> SUFFICES ASSUME InitWs PROVE WsInv
  OBVIOUS
<1>1. WsTypeOK /\ InStep
  BY WsOthers DEF InitWs, WsTypeOK, InStep
<1>2. NotConnected /\ WhileRelaying /\ Afterwards
  BY DEF InitWs, NotConnected, WhileRelaying, Afterwards, WsPeer
<1> QED BY <1>1, <1>2 DEF WsInv

LEMMA WsTypeStep == WsTypeOK /\ [NextWs]_wsVars => WsTypeOK'
<1> SUFFICES ASSUME WsTypeOK, [NextWs]_wsVars PROVE WsTypeOK'
  OBVIOUS
<1> USE DEF WsTypeOK
<1>1. CASE HandleWs
  BY <1>1 DEF HandleWs, Connect, ConnectFails, Wait, ClosePrinter, CloseSlicer, peerVars
<1>2. CASE Cancel
  BY <1>2 DEF Cancel, peerVars
<1>3. ASSUME NEW x \in WsPeer, Relay(x) PROVE WsTypeOK'
  BY <1>3, WsOthers DEF Relay, Receive, Take, FrameDrained, IterationEnds, peerVars
<1>4. ASSUME NEW x \in WsPeer, SendsFrame(x) \/ SideEnds(x) PROVE WsTypeOK'
  BY <1>4 DEF SendsFrame, SideEnds
<1>5. CASE UNCHANGED wsVars
  BY <1>5 DEF wsVars, peerVars
<1> QED BY <1>1, <1>2, <1>3, <1>4, <1>5 DEF NextWs

(* What explains the end of a task does so for good. *)
LEMMA CauseStays == WsInv /\ Cause /\ [NextWs]_wsVars => Cause'
<1> SUFFICES ASSUME WsInv, Cause, [NextWs]_wsVars PROVE Cause'
  OBVIOUS
<1> USE DEF Cause, Done
<1>1. CASE HandleWs
  BY <1>1 DEF HandleWs, Connect, ConnectFails, Wait, ClosePrinter, CloseSlicer, peerVars
<1>2. CASE Cancel
  BY <1>2 DEF Cancel, peerVars
<1>3. ASSUME NEW x \in WsPeer, Receive(x) PROVE Cause'
  BY <1>3, WsOthers DEF WsInv, InStep, WsTypeOK, Receive, Take, peerVars
<1>4. ASSUME NEW x \in WsPeer, FrameDrained(x) \/ IterationEnds(x) PROVE Cause'
  BY <1>4 DEF FrameDrained, IterationEnds, peerVars
<1>5. ASSUME NEW x \in WsPeer, SendsFrame(x) \/ SideEnds(x) PROVE Cause'
  BY <1>5 DEF WsInv, WsTypeOK, SendsFrame, SideEnds
<1>6. CASE UNCHANGED wsVars
  BY <1>6 DEF wsVars, peerVars
<1> QED BY <1>1, <1>2, <1>3, <1>4, <1>5, <1>6 DEF NextWs, Relay

LEMMA WsInvStep == WsInv /\ [NextWs]_wsVars => WsInv'
<1> SUFFICES ASSUME WsInv, [NextWs]_wsVars PROVE WsInv'
  OBVIOUS
<1>1. WsTypeOK'
  BY WsTypeStep DEF WsInv
<1>2. InStep'
  <2> USE DEF WsInv, WsTypeOK, InStep
  <2>1. CASE HandleWs
    BY <2>1 DEF HandleWs, Connect, ConnectFails, Wait, ClosePrinter, CloseSlicer, peerVars, NotConnected
  <2>2. CASE Cancel
    BY <2>2 DEF Cancel, peerVars
  <2>3. ASSUME NEW x \in WsPeer, Relay(x) PROVE InStep'
    BY <2>3, WsOthers DEF Relay, Receive, Take, FrameDrained, IterationEnds, peerVars
  <2>4. ASSUME NEW x \in WsPeer, SendsFrame(x) \/ SideEnds(x) PROVE InStep'
    BY <2>4 DEF SendsFrame, SideEnds
  <2>5. CASE UNCHANGED wsVars
    BY <2>5 DEF wsVars, peerVars
  <2> QED BY <2>1, <2>2, <2>3, <2>4, <2>5 DEF NextWs
<1>3. NotConnected' /\ WhileRelaying' /\ Afterwards'
  <2> USE CauseStays DEF WsInv, WsTypeOK, NotConnected, WhileRelaying, Afterwards
  <2>1. CASE Connect \/ ConnectFails
    BY <2>1 DEF Connect, ConnectFails, WsPeer, peerVars
  <2>8. CASE Wait
    <3>1. Cause
      BY <2>8 DEF Wait, FirstCompleted
    <3> QED BY <2>8, <3>1 DEF Wait, peerVars
  <2>9. CASE ClosePrinter
    BY <2>9 DEF ClosePrinter, peerVars
  <2>10. CASE CloseSlicer
    BY <2>10 DEF CloseSlicer, peerVars, WsPeer
  <2>2. CASE Cancel
    BY <2>2 DEF Cancel, peerVars
  <2>3. ASSUME NEW x \in WsPeer, Receive(x) PROVE NotConnected' /\ WhileRelaying' /\ Afterwards'
    <3>1. handler = "relay" /\ ~Writable(WsOther(x)) => Cause
      BY <2>3, WsOthers DEF Writable, Cause
    <3> QED BY <2>3, <3>1, WsOthers DEF Receive, Take, peerVars, WsPeer
  <2>4. ASSUME NEW x \in WsPeer, FrameDrained(x) PROVE NotConnected' /\ WhileRelaying' /\ Afterwards'
    <3>1. handler = "relay" /\ ~Writable(WsOther(x)) => Cause
      BY <2>4, WsOthers DEF Writable, Cause
    <3> QED BY <2>4, <3>1, WsOthers DEF FrameDrained, peerVars, WsPeer
  <2>5. ASSUME NEW x \in WsPeer, IterationEnds(x) PROVE NotConnected' /\ WhileRelaying' /\ Afterwards'
    <3>1. handler = "relay" => Cause
      BY <2>5, WsOthers DEF IterationEnds, InStep, Cause, Done
    <3>2. NotConnected' /\ WhileRelaying'
      BY <2>5, <3>1, WsOthers DEF IterationEnds, peerVars, WsPeer
    <3>3. Afterwards'
      BY <2>5, WsOthers DEF IterationEnds, peerVars, WsPeer
    <3> QED BY <3>2, <3>3
  <2>6. ASSUME NEW x \in WsPeer, SendsFrame(x) \/ SideEnds(x)
        PROVE NotConnected' /\ WhileRelaying' /\ Afterwards'
    BY <2>6 DEF SendsFrame, SideEnds
  <2>7. CASE UNCHANGED wsVars
    BY <2>7 DEF wsVars, peerVars
  <2> QED BY <2>1, <2>2, <2>3, <2>4, <2>5, <2>6, <2>7, <2>8, <2>9, <2>10 DEF NextWs, HandleWs, Relay
<1> QED BY <1>1, <1>2, <1>3 DEF WsInv

LEMMA WsInvariant == SpecWs => []WsInv
  BY WsInvInit, WsInvStep, PTL DEF SpecWs

(* ws_proxy.py:99-130: frames sent before a close are written before the   *)
(* other socket is closed.                                                 *)
THEOREM WsFramesBeforeClose == SpecWs => []FramesBeforeClose
<1>1. WsInv => FramesBeforeClose
  BY WsOthers DEF WsInv, WsTypeOK, Afterwards, FramesBeforeClose, Cause, Done, WsPeer
<1> QED BY WsInvariant, <1>1, PTL
=============================================================================
