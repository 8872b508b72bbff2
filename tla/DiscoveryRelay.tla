--------------------------- MODULE DiscoveryRelay ---------------------------
(***************************************************************************)
(* The UDP discovery relay (src/src/discovery_relay.py): each probe of a   *)
(* client starts a task that forwards it to the printer through a socket   *)
(* shared by the tasks, and waits two seconds for the next datagram that   *)
(* the socket receives.  Datagrams are lost, duplicated and delayed.       *)
(*                                                                         *)
(* A probe stands for its task, for its future, and for the socket that    *)
(* the task created, if it created one.                                    *)
(***************************************************************************)
CONSTANTS
  Probe,   (* bound: the datagrams that clients send to the relay *)
  None     (* no probe *)

Outcome == {"none", "pending", "error", "unsent", "cancelled"}

ASSUME DiscoveryAssumption == None \notin Probe /\ Probe \cap Outcome = {}

VARIABLES
  listening,  (* the relay's own socket                                      *)
  task,       (* where each probe's task is                                  *)
  future,     (* what each probe's future holds: nothing yet, the probe that *)
              (* the printer's reply is for, an OSError (its own datagram    *)
              (* was not sent, or another's error), or its cancellation      *)
  expired,    (* the tasks whose wait_for() has reached its deadline         *)
  via,        (* the socket that each probe was sent through                 *)
  waiters,    (* _waiters of each socket                                     *)
  fwd,        (* _fwd: the socket that the next probe will use               *)
  open,       (* the sockets to the printer that are open                    *)
  answers     (* the answers sent: to a probe's client, the reply to a probe *)

relayVars == <<task, future, expired, via, waiters>>
vars == <<listening, relayVars, fwd, open, answers>>

Init ==
  /\ listening = "open"
  /\ task = [p \in Probe |-> "none"]
  /\ future = [p \in Probe |-> "none"]
  /\ expired = {}
  /\ via = [p \in Probe |-> None]
  /\ waiters = [s \in Probe |-> {}]
  /\ fwd = None /\ open = {} /\ answers = {}

-----------------------------------------------------------------------------
(* The task of a probe *)

(* datagram_received() of the relay *)
Receive(p) ==
  /\ listening = "open" /\ task[p] = "none"
  /\ task' = [task EXCEPT ![p] = "begin"]
  /\ UNCHANGED <<listening, future, expired, via, waiters, fwd, open, answers>>

(* probe(): the future joins the waiters of socket s and the datagram is   *)
(* sent.  When the system refuses it, asyncio calls error_received() then  *)
(* and there; a closed socket drops it.                                    *)
Forward(p, s) ==
  /\ task' = [task EXCEPT ![p] = "wait"]
  /\ via' = [via EXCEPT ![p] = s]
  /\ \/ /\ future' = [future EXCEPT ![p] = "pending"]
        /\ waiters' = [waiters EXCEPT ![s] = @ \cup {p}]
     \/ /\ future' = [q \in Probe |->
                        IF q = p THEN "unsent"
                        ELSE IF q \in waiters[s] /\ future[q] = "pending" THEN "error" ELSE future[q]]
        /\ waiters' = [waiters EXCEPT ![s] = {}]
  /\ UNCHANGED <<listening, expired, answers>>

(* _relay(), up to its first await: it finds a socket or asks for one. *)
Start(p) ==
  /\ task[p] = "begin"
  /\ IF fwd = None
     THEN /\ task' = [task EXCEPT ![p] = "create"]
          /\ UNCHANGED <<listening, future, expired, via, waiters, answers>>
     ELSE Forward(p, fwd)
  /\ UNCHANGED <<fwd, open>>

(* The socket is there, and replaces what _fwd held meanwhile. *)
Created(p) ==
  /\ task[p] = "create"
  /\ fwd' = p /\ open' = open \cup {p}
  /\ Forward(p, p)

CreateFails(p) ==
  /\ task[p] = "create"
  /\ task' = [task EXCEPT ![p] = "over"]
  /\ UNCHANGED <<listening, future, expired, via, waiters, fwd, open, answers>>

(* Faulty: wait_for() without a timeout. *)
ExpireNever(p) == FALSE /\ UNCHANGED vars

(* The deadline of wait_for(): the task and with it the future it waits    *)
(* for are cancelled; a future that is done already stays as it is.        *)
Expire(p) ==
  /\ task[p] = "wait" /\ p \notin expired
  /\ expired' = expired \cup {p}
  /\ future' = [future EXCEPT ![p] = IF @ = "pending" THEN "cancelled" ELSE @]
  /\ UNCHANGED <<listening, task, via, waiters, fwd, open, answers>>

(* Faulty: a probe that times out stays among the waiters. *)
FinishWaiting(p) ==
  /\ task[p] = "wait" /\ future[p] # "pending"
  /\ task' = [task EXCEPT ![p] = "over"]
  /\ answers' = IF future[p] \in Probe /\ p \notin expired /\ listening # "lost"
                  THEN answers \cup {[to |-> p, reply |-> future[p]]} ELSE answers
  /\ UNCHANGED <<listening, future, expired, via, waiters, fwd, open>>

(* The task runs again: the finally clause, then the answer to the client. *)
Finish(p) ==
  /\ task[p] = "wait" /\ future[p] # "pending"
  /\ task' = [task EXCEPT ![p] = "over"]
  /\ waiters' = [waiters EXCEPT ![via[p]] = @ \ {p}]
  /\ answers' = IF future[p] \in Probe /\ p \notin expired /\ listening # "lost"
                  THEN answers \cup {[to |-> p, reply |-> future[p]]} ELSE answers
  /\ UNCHANGED <<listening, future, expired, via, fwd, open>>

-----------------------------------------------------------------------------
(* The sockets to the printer *)

(* The probes that the printer may have got.  It may reply to each of them *)
(* at any time, and the network may lose, delay and repeat the reply.      *)
Sent == {p \in Probe : via[p] # None /\ future[p] # "unsent"}

(* Faulty: waiters that are done are set again. *)
ResolveAll(s, o) ==
  /\ future' = [p \in Probe |-> IF p \in waiters[s] THEN o ELSE future[p]]
  /\ waiters' = [waiters EXCEPT ![s] = {}]

(* Every waiter of the socket that is not done gets outcome o. *)
Resolve(s, o) ==
  /\ future' = [p \in Probe |-> IF p \in waiters[s] /\ future[p] = "pending" THEN o ELSE future[p]]
  /\ waiters' = [waiters EXCEPT ![s] = {}]

(* Faulty: only the waiters of the current socket are resolved. *)
ReplyReceivedByFwd(p) ==
  /\ p \in Sent /\ via[p] \in open /\ fwd # None
  /\ Resolve(fwd, p)
  /\ UNCHANGED <<listening, task, expired, via, fwd, open, answers>>

(* datagram_received() of a socket to the printer: the reply to probe p. *)
ReplyReceived(p) ==
  /\ p \in Sent /\ via[p] \in open
  /\ Resolve(via[p], p)
  /\ UNCHANGED <<listening, task, expired, via, fwd, open, answers>>

(* error_received(): the printer's host refused a datagram sent before. *)
Refused(s) ==
  /\ s \in open /\ \E p \in Probe : via[p] = s
  /\ Resolve(s, "error")
  /\ UNCHANGED <<listening, task, expired, via, fwd, open, answers>>

(* The teardown closes the relay; asyncio calls connection_lost() later. *)
Close ==
  /\ listening = "open"
  /\ listening' = "closing"
  /\ UNCHANGED <<relayVars, fwd, open, answers>>

ConnectionLost ==
  /\ listening = "closing"
  /\ listening' = "lost"
  /\ open' = open \ {fwd}
  /\ UNCHANGED <<relayVars, fwd, answers>>

-----------------------------------------------------------------------------
Relay(p) == Start(p) \/ Created(p) \/ CreateFails(p) \/ Finish(p)

Next ==
  \/ \E p \in Probe : Receive(p) \/ Relay(p) \/ Expire(p) \/ ReplyReceived(p) \/ Refused(p)
  \/ Close \/ ConnectionLost

(* The event loop runs every task and every timer; the network owes        *)
(* nothing.                                                                *)
Fairness == \A p \in Probe : WF_vars(Relay(p)) /\ WF_vars(Expire(p))

Spec == Init /\ [][Next]_vars /\ Fairness

-----------------------------------------------------------------------------
(* The state every other property presumes: each variable has its type. *)
TypeOK ==
  /\ listening \in {"open", "closing", "lost"}
  /\ task \in [Probe -> {"none", "begin", "create", "wait", "over"}]
  /\ future \in [Probe -> Outcome \cup Probe]
  /\ expired \subseteq Probe
  /\ via \in [Probe -> Probe \cup {None}]
  /\ waiters \in [Probe -> SUBSET Probe]
  /\ fwd \in Probe \cup {None} /\ open \subseteq Probe
  /\ answers \subseteq [to : Probe, reply : Probe]

(* discovery_relay.py:58-69: a socket's waiters are tasks that still wait  *)
(* for it, however replies, errors and deadlines race; none is left behind *)
(* by a probe that is over.                                                *)
WaitersWait ==
  \A s \in Probe : \A p \in waiters[s] : task[p] = "wait" /\ via[p] = s

(* discovery_relay.py:47-56: nothing sets a future that is done, which     *)
(* would raise InvalidStateError, although a deadline leaves its future    *)
(* among the waiters until the task runs again.                            *)
FutureSetOnce ==
  [][\A p \in Probe : future[p] \notin {"none", "pending"} => future'[p] = future[p]]_vars

(* discovery_relay.py:46-50: a client is answered with a datagram that its *)
(* probe's own socket received, also when two sockets were created.        *)
AnswerFromOwnSocket == \A a \in answers : via[a.to] = via[a.reply]

(* discovery_relay.py:64-69: every probe's task ends, with or without an   *)
(* answer of the printer.                                                  *)
ProbesEnd == \A p \in Probe : task[p] = "begin" ~> task[p] = "over"

(* discovery_relay.py:37, "one socket reused across all probes": at most   *)
(* one socket to the printer is open.                                      *)
OneSocket == \A s, t \in open : s = t

=============================================================================
