------------------------------- MODULE WsRelay -------------------------------
(***************************************************************************)
(* One WebSocket connection of a slicer to a CC1 printer through the proxy *)
(* (_handle_ws of src/src/ws_proxy.py): two tasks, each of which takes the *)
(* frames of one peer and writes them to the other, and the handler that   *)
(* ends the connection when one of them ends.  Frames are counted: they    *)
(* keep their order.  What the proxy changes in a frame is in              *)
(* MainboardRewrite; the sockets and their closing are aiohttp's.          *)
(***************************************************************************)
EXTENDS Naturals

CONSTANT MaxFrames (* bound: what each peer sends *)

WsPeer == {"slicer", "printer"}
WsOther(x) == IF x = "slicer" THEN "printer" ELSE "slicer"

VARIABLES
  frames,    (* how many frames each peer has sent                          *)
  side,      (* how its side ended: not yet, by a close frame, by an error  *)
  taken,     (* how many of its frames the relay has received               *)
  passed,    (* how many frames were written to the peer                    *)
  ws,        (* the socket to the peer                                      *)
  relay,     (* the task that reads from the peer                           *)
  handler,   (* where _handle_ws is                                         *)
  cancelled  (* whether the shutdown has cancelled it                       *)

peerVars == <<frames, side>>
wsVars == <<peerVars, taken, passed, ws, relay, handler, cancelled>>

InitWs ==
  /\ frames = [x \in WsPeer |-> 0] /\ side = [x \in WsPeer |-> "no"]
  /\ taken = [x \in WsPeer |-> 0] /\ passed = [x \in WsPeer |-> 0]
  /\ ws = [x \in WsPeer |-> IF x = "slicer" THEN "open" ELSE "none"]
  /\ relay = [x \in WsPeer |-> "none"]
  /\ handler = "connect" /\ cancelled = FALSE

-----------------------------------------------------------------------------
(* The peers *)

SendsFrame(x) ==
  /\ ws[x] = "open" /\ side[x] = "no" /\ frames[x] < MaxFrames
  /\ frames' = [frames EXCEPT ![x] = @ + 1]
  /\ UNCHANGED <<side, taken, passed, ws, relay, handler, cancelled>>

SideEnds(x) ==
  /\ ws[x] = "open" /\ side[x] = "no"
  /\ \E how \in {"close", "error"} : side' = [side EXCEPT ![x] = how]
  /\ UNCHANGED <<frames, taken, passed, ws, relay, handler, cancelled>>

-----------------------------------------------------------------------------
(* slicer_to_printer() and printer_to_slicer() *)

Writable(x) == ws[x] = "open" /\ side[x] # "error"

(* Faulty: frames that are not text are dropped. *)
TakeText(x) ==
  /\ taken' = [taken EXCEPT ![x] = @ + 1]
  /\ passed' \in {passed, [passed EXCEPT ![WsOther(x)] = @ + 1]}
  /\ relay' = [relay EXCEPT ![x] = "receive"]

(* A frame is written as soon as it is received; then the task may have to *)
(* wait until the peer reads.  A socket that is closed or lost raises.     *)
Take(x) ==
  /\ taken' = [taken EXCEPT ![x] = @ + 1]
  /\ IF Writable(WsOther(x))
     THEN /\ passed' = [passed EXCEPT ![WsOther(x)] = @ + 1]
          /\ \E then \in {"receive", "drain"} : relay' = [relay EXCEPT ![x] = then]
     ELSE relay' = [relay EXCEPT ![x] = "over"] /\ UNCHANGED passed

Receive(x) ==
  /\ relay[x] = "receive" /\ ws[x] = "open" /\ taken[x] < frames[x]
  /\ Take(x)
  /\ UNCHANGED <<peerVars, ws, handler, cancelled>>

FrameDrained(x) ==
  /\ relay[x] = "drain"
  /\ relay' = [relay EXCEPT ![x] = IF Writable(WsOther(x)) THEN "receive" ELSE "over"]
  /\ UNCHANGED <<peerVars, taken, passed, ws, handler, cancelled>>

(* Behind the last frame a close or an error ends the iteration, and       *)
(* aiohttp closes the socket; a socket that was closed meanwhile ends it   *)
(* as well.                                                                *)
IterationEnds(x) ==
  /\ relay[x] = "receive"
  /\ ws[x] = "closed" \/ (taken[x] = frames[x] /\ side[x] # "no")
  /\ relay' = [relay EXCEPT ![x] = "over"]
  /\ ws' = [ws EXCEPT ![x] = "closed"]
  /\ UNCHANGED <<peerVars, taken, passed, handler, cancelled>>

-----------------------------------------------------------------------------
(* _handle_ws() *)

Connect ==
  /\ handler = "connect"
  /\ ws' = [ws EXCEPT !["printer"] = "open"]
  /\ relay' = [x \in WsPeer |-> "receive"]
  /\ handler' = "relay"
  /\ UNCHANGED <<peerVars, taken, passed, cancelled>>

ConnectFails ==
  /\ handler = "connect"
  /\ handler' = "finally"
  /\ UNCHANGED <<peerVars, taken, passed, ws, relay, cancelled>>

(* Faulty: both tasks are waited for. *)
AllCompleted == \A x \in WsPeer : relay[x] = "over"

FirstCompleted == \E x \in WsPeer : relay[x] = "over"

(* The other task is cancelled, and takes no further frame. *)
Wait ==
  /\ handler = "relay" /\ FirstCompleted
  /\ relay' = [x \in WsPeer |-> "over"]
  /\ handler' = "exit"
  /\ UNCHANGED <<peerVars, taken, passed, ws, cancelled>>

(* A shutdown that cannot wait cancels the handler, but not its tasks. *)
Cancel ==
  /\ handler \in {"connect", "relay"}
  /\ handler' = IF handler = "relay" THEN "exit" ELSE "finally"
  /\ cancelled' = TRUE
  /\ UNCHANGED <<peerVars, taken, passed, ws, relay>>

(* `async with` closes the printer's socket, and waits no longer than its  *)
(* timeout for the printer to agree.                                       *)
ClosePrinter ==
  /\ handler = "exit"
  /\ ws' = [ws EXCEPT !["printer"] = "closed"]
  /\ handler' = "finally"
  /\ UNCHANGED <<peerVars, taken, passed, relay, cancelled>>

CloseSlicer ==
  /\ handler = "finally"
  /\ ws' = [ws EXCEPT !["slicer"] = "closed"]
  /\ handler' = "over"
  /\ UNCHANGED <<peerVars, taken, passed, relay, cancelled>>

-----------------------------------------------------------------------------
HandleWs == Connect \/ ConnectFails \/ Wait \/ ClosePrinter \/ CloseSlicer

Relay(x) == Receive(x) \/ FrameDrained(x) \/ IterationEnds(x)

NextWs == HandleWs \/ Cancel \/ \E x \in WsPeer : Relay(x) \/ SendsFrame(x) \/ SideEnds(x)

(* The handler and its tasks go on, which takes peers that read; that a    *)
(* peer sends or ends is not assumed.                                      *)
FairnessWs == WF_wsVars(HandleWs) /\ \A x \in WsPeer : WF_wsVars(Relay(x))

SpecWs == InitWs /\ [][NextWs]_wsVars /\ FairnessWs

-----------------------------------------------------------------------------
(* The state every other property presumes: each variable has its type. *)
WsTypeOK ==
  /\ frames \in [WsPeer -> Nat] /\ side \in [WsPeer -> {"no", "close", "error"}]
  /\ taken \in [WsPeer -> Nat] /\ passed \in [WsPeer -> Nat]
  /\ ws \in [WsPeer -> {"none", "open", "closed"}]
  /\ relay \in [WsPeer -> {"none", "receive", "drain", "over"}]
  /\ handler \in {"connect", "relay", "exit", "finally", "over"} /\ cancelled \in BOOLEAN

(* ws_proxy.py:99-130: when one peer closes and the other one neither      *)
(* closes nor fails, every frame that was sent before the close is written *)
(* before the other socket is closed: cancelling the other task costs none *)
(* of them.  After an error, frames that the relay had not yet received    *)
(* are lost when the other task is the first to notice.                    *)
FramesBeforeClose ==
  \A x \in WsPeer :
    side[x] = "no" /\ side[WsOther(x)] = "close" /\ ~cancelled
    /\ ws["printer"] # "none" /\ handler \in {"exit", "finally", "over"}
      => passed[x] = frames[WsOther(x)]

(* ws_proxy.py:122-143: once a peer closes or loses its connection, both   *)
(* sockets are closed and both tasks have ended, also when the handler was *)
(* cancelled, which leaves its tasks to the closing of the sockets.        *)
WsEndsTogether ==
  \A x \in WsPeer :
    side[x] # "no" \/ cancelled ~>
      handler = "over" /\ \A y \in WsPeer : ws[y] # "open" /\ relay[y] \in {"none", "over"}

=============================================================================
