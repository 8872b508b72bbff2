------------------------------ MODULE TcpRelay ------------------------------
(***************************************************************************)
(* One connection through a TCP relay (src/src/tcp_proxy.py): two pipes,   *)
(* each of which reads one stream and writes the other, over asyncio's     *)
(* stream transports and their buffers.  Bytes are counted: they keep      *)
(* their order in every buffer.                                            *)
(*                                                                         *)
(* Everything is indexed by the peer: "client", or "server" for the        *)
(* printer.  The pipe of a peer reads from it and writes to the other one. *)
(***************************************************************************)
EXTENDS Naturals

CONSTANTS
  MaxSent,   (* bound: what each peer sends                                 *)
  ReadLimit, (* what a StreamReader holds before its transport stops        *)
             (* reading                                                     *)
  HighWater, (* what a transport's write buffer holds before drain() waits  *)
  Resets     (* whether connections are reset                               *)

Peer == {"client", "server"}
Other(x) == IF x = "client" THEN "server" ELSE "client"

ASSUME TcpRelayAssumption ==
  MaxSent \in [Peer -> Nat] /\ ReadLimit \in Nat \ {0} /\ HighWater \in Nat /\ Resets \in BOOLEAN

VARIABLES
  sent,      (* what the peer has sent                                      *)
  shut,      (* the peers that have ended their stream                      *)
  net,       (* sent by the peer, not yet read from its socket              *)
  reader,    (* in the peer's StreamReader                                  *)
  ended,     (* how the StreamReader ends: not yet, at EOF, by an exception *)
  pipe,      (* where the pipe is that reads from the peer                  *)
  transport, (* the peer's transport                                        *)
  writing,   (* in its write buffer                                         *)
  got        (* what the peer has received                                  *)

inVars  == <<sent, shut, net, reader, ended>>
outVars == <<transport, writing, got>>
vars == <<inVars, pipe, outVars>>

Init ==
  /\ sent = [x \in Peer |-> 0] /\ shut = {}
  /\ net = [x \in Peer |-> 0] /\ reader = [x \in Peer |-> 0]
  /\ ended = [x \in Peer |-> "no"]
  /\ pipe = [x \in Peer |-> "none"]
  /\ transport = [x \in Peer |-> IF x = "client" THEN "open" ELSE "none"]
  /\ writing = [x \in Peer |-> 0] /\ got = [x \in Peer |-> 0]

-----------------------------------------------------------------------------
(* The peers *)

Connected(x) == transport[x] \in {"open", "closing"}

PeerSends(x) ==
  /\ Connected(x) /\ x \notin shut /\ sent[x] < MaxSent[x]
  /\ sent' = [sent EXCEPT ![x] = @ + 1]
  /\ net' = [net EXCEPT ![x] = @ + 1]
  /\ UNCHANGED <<shut, reader, ended, pipe, outVars>>

PeerShuts(x) ==
  /\ Connected(x) /\ x \notin shut
  /\ shut' = shut \cup {x}
  /\ UNCHANGED <<sent, net, reader, ended, pipe, outVars>>

(* A reset: the transport drops its buffer, the reader its data. *)
PeerResets(x) ==
  /\ Resets /\ Connected(x)
  /\ transport' = [transport EXCEPT ![x] = "lost"]
  /\ ended' = [ended EXCEPT ![x] = "error"]
  /\ writing' = [writing EXCEPT ![x] = 0]
  /\ net' = [net EXCEPT ![x] = 0]
  /\ UNCHANGED <<sent, shut, reader, pipe, got>>

-----------------------------------------------------------------------------
(* _handle() *)

OpenConnection ==
  /\ transport["server"] = "none" /\ pipe["client"] = "none"
  /\ transport' = [transport EXCEPT !["server"] = "open"]
  /\ pipe' = [x \in Peer |-> "read"]
  /\ UNCHANGED <<inVars, writing, got>>

(* The printer cannot be reached: the client is closed. *)
CannotReach ==
  /\ transport["server"] = "none" /\ pipe["client"] = "none"
  /\ transport' = [transport EXCEPT !["client"] = IF @ = "open" THEN "closing" ELSE @]
  /\ pipe' = [x \in Peer |-> "done"]
  /\ UNCHANGED <<inVars, writing, got>>

-----------------------------------------------------------------------------
(* _pipe() *)

(* read() and write(): a transport that is closed drops what is written. *)
Read(x) ==
  /\ pipe[x] = "read" /\ reader[x] > 0 /\ ended[x] # "error"
  /\ \E n \in 1 .. reader[x] :
       /\ reader' = [reader EXCEPT ![x] = @ - n]
       /\ writing' = IF transport[Other(x)] = "open"
                       THEN [writing EXCEPT ![Other(x)] = @ + n] ELSE writing
  /\ pipe' = [pipe EXCEPT ![x] = "drain"]
  /\ UNCHANGED <<sent, shut, net, ended, transport, got>>

(* Faulty: the pipe does not wait for the writer. *)
DrainAtOnce(x) ==
  /\ pipe[x] = "drain"
  /\ pipe' = [pipe EXCEPT ![x] = "read"]
  /\ UNCHANGED <<inVars, outVars>>

(* drain(): waits while the buffer is above its limit, and raises when the *)
(* connection was lost.                                                    *)
Drain(x) ==
  /\ pipe[x] = "drain"
  /\ \/ /\ transport[Other(x)] # "lost" /\ writing[Other(x)] <= HighWater
        /\ pipe' = [pipe EXCEPT ![x] = "read"]
     \/ /\ transport[Other(x)] = "lost"
        /\ pipe' = [pipe EXCEPT ![x] = "finally"]
  /\ UNCHANGED <<inVars, outVars>>

(* The stream has ended: at EOF, or because its connection was lost. *)
ReadEnds(x) ==
  /\ pipe[x] = "read"
  /\ ended[x] = "error" \/ (ended[x] = "eof" /\ reader[x] = 0)
  /\ pipe' = [pipe EXCEPT ![x] = "finally"]
  /\ UNCHANGED <<inVars, outVars>>

(* Faulty: transport.abort() in place of close(). *)
AbortWriter(x) ==
  /\ pipe[x] = "finally"
  /\ transport' = [transport EXCEPT ![Other(x)] = IF @ = "open" THEN "closing" ELSE @]
  /\ writing' = [writing EXCEPT ![Other(x)] = 0]
  /\ pipe' = [pipe EXCEPT ![x] = "closing"]
  /\ UNCHANGED <<inVars, got>>

(* Faulty: the writer is left open. *)
LeaveWriter(x) ==
  /\ pipe[x] = "finally"
  /\ pipe' = [pipe EXCEPT ![x] = "done"]
  /\ UNCHANGED <<inVars, outVars>>

(* The finally clause: close() ends reading from the other peer as well,   *)
(* and lets its transport write what it still holds.                       *)
CloseWriter(x) ==
  /\ pipe[x] = "finally"
  /\ transport' = [transport EXCEPT ![Other(x)] = IF @ = "open" THEN "closing" ELSE @]
  /\ pipe' = [pipe EXCEPT ![x] = "closing"]
  /\ UNCHANGED <<inVars, writing, got>>

WaitClosed(x) ==
  /\ pipe[x] = "closing" /\ transport[Other(x)] = "lost"
  /\ pipe' = [pipe EXCEPT ![x] = "done"]
  /\ UNCHANGED <<inVars, outVars>>

-----------------------------------------------------------------------------
(* asyncio's transports *)

DataReceived(x) ==
  /\ transport[x] = "open" /\ net[x] > 0 /\ reader[x] < ReadLimit
  /\ net' = [net EXCEPT ![x] = @ - 1]
  /\ reader' = [reader EXCEPT ![x] = @ + 1]
  /\ UNCHANGED <<sent, shut, ended, pipe, outVars>>

EofReceived(x) ==
  /\ transport[x] = "open" /\ net[x] = 0 /\ x \in shut /\ ended[x] = "no"
  /\ reader[x] < ReadLimit
  /\ ended' = [ended EXCEPT ![x] = "eof"]
  /\ UNCHANGED <<sent, shut, net, reader, pipe, outVars>>

WriteReady(x) ==
  /\ Connected(x) /\ writing[x] > 0
  /\ writing' = [writing EXCEPT ![x] = @ - 1]
  /\ got' = [got EXCEPT ![x] = @ + 1]
  /\ UNCHANGED <<inVars, pipe, transport>>

(* connection_lost(): the stream that was read from it is at its end. *)
ConnectionLost(x) ==
  /\ transport[x] = "closing" /\ writing[x] = 0
  /\ transport' = [transport EXCEPT ![x] = "lost"]
  /\ ended' = [ended EXCEPT ![x] = IF @ = "no" THEN "eof" ELSE @]
  /\ UNCHANGED <<sent, shut, net, reader, pipe, writing, got>>

-----------------------------------------------------------------------------
Handle == OpenConnection \/ CannotReach

Pipe(x) == Read(x) \/ Drain(x) \/ ReadEnds(x) \/ CloseWriter(x) \/ WaitClosed(x)

Transport(x) == DataReceived(x) \/ EofReceived(x) \/ WriteReady(x) \/ ConnectionLost(x)

Next ==
  \/ Handle
  \/ \E x \in Peer : Pipe(x) \/ Transport(x) \/ PeerSends(x) \/ PeerShuts(x) \/ PeerResets(x)

(* Tasks and transports go on, which takes peers that read; that a peer    *)
(* sends or ends its stream is not assumed.                                *)
Fairness ==
  /\ WF_vars(Handle)
  /\ \A x \in Peer : WF_vars(Pipe(x)) /\ WF_vars(Transport(x))

Spec == Init /\ [][Next]_vars /\ Fairness

-----------------------------------------------------------------------------
(* The state every other property presumes: each variable has its type. *)
TypeOK ==
  /\ sent \in [Peer -> Nat] /\ shut \subseteq Peer
  /\ net \in [Peer -> Nat] /\ reader \in [Peer -> 0 .. ReadLimit]
  /\ ended \in [Peer -> {"no", "eof", "error"}]
  /\ pipe \in [Peer -> {"none", "read", "drain", "finally", "closing", "done"}]
  /\ transport \in [Peer -> {"none", "open", "closing", "lost"}]
  /\ writing \in [Peer -> Nat] /\ got \in [Peer -> Nat]

(* The relay was set up and no connection was reset. *)
Undisturbed == transport["server"] # "none" /\ \A y \in Peer : ended[y] # "error"

(* tcp_proxy.py:93-107: a peer that has not ended its own stream is not    *)
(* closed before it has received everything the other one sent, unless a   *)
(* connection was reset: data in any of the four buffers survives close(). *)
DeliveredBeforeClose ==
  \A x \in Peer :
    Undisturbed /\ transport[x] = "lost" /\ x \notin shut => got[x] = sent[Other(x)]

(* tcp_proxy.py:98-99: however fast a peer sends, what the relay holds for *)
(* a peer that reads slowly is bounded.                                    *)
BuffersBounded ==
  \A x \in Peer : reader[Other(x)] + writing[x] <= HighWater + 2 * ReadLimit

(* tcp_proxy.py:104-109: once a peer ends its stream or resets its         *)
(* connection, both pipes end and both connections are closed.             *)
EndsTogether ==
  \A x \in Peer :
    (x \in shut \/ ended[x] = "error") ~>
      \A y \in Peer : pipe[y] = "done" /\ transport[y] \in {"none", "lost"}

=============================================================================
