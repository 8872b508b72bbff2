------------------------------ MODULE MCRelays ------------------------------
(* One connection through a relay on small instances: in each behaviour    *)
(* either that of TcpRelay or that of WsRelay; the other one is over.      *)
EXTENDS TcpRelay, WsRelay, TLC

(* The printer sends more than the relay's buffers hold. *)
Amounts == [x \in Peer |-> IF x = "server" THEN 4 ELSE 2]

Zero == [x \in Peer |-> 0]

TcpOver ==
  /\ sent = Zero /\ shut = {} /\ net = Zero /\ reader = Zero /\ ended = [x \in Peer |-> "no"]
  /\ pipe = [x \in Peer |-> "done"] /\ transport = [x \in Peer |-> "lost"]
  /\ writing = Zero /\ got = Zero

WsOver ==
  /\ frames = [x \in WsPeer |-> 0] /\ taken = frames /\ passed = frames
  /\ side = [x \in WsPeer |-> "no"] /\ ws = [x \in WsPeer |-> "closed"]
  /\ relay = [x \in WsPeer |-> "over"] /\ handler = "over" /\ cancelled = FALSE

InitRelays == (Init /\ WsOver) \/ (TcpOver /\ InitWs)

NextRelays == (Next /\ UNCHANGED wsVars) \/ (NextWs /\ UNCHANGED vars)

SpecRelays == InitRelays /\ [][NextRelays]_<<vars, wsVars>> /\ Fairness /\ FairnessWs
=============================================================================
