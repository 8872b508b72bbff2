------------------------------ MODULE Lifecycle ------------------------------
(***************************************************************************)
(* The life of the process (src/src/main.py): detection, start, service,   *)
(* the ordered teardown after a signal, crash and start again.  Beside     *)
(* _run there are the upload handlers of the two HTTP listeners, the       *)
(* worker threads that write their temp files, and the connections of the  *)
(* TCP relays.                                                             *)
(*                                                                         *)
(* An upload has one request here and a session of its own: what several   *)
(* requests do to one session is in ChunkSessions.                         *)
(***************************************************************************)
EXTENDS Detection

CONSTANTS
  Request,      (* uploads in progress: slots that each life uses once       *)
  On,           (* the listener each of them arrives at                      *)
  Connection,   (* connections through the TCP relays                        *)
  MaxLives      (* bound: how often the process is started                   *)

ASSUME LifecycleAssumption ==
  /\ MaxLives \in Nat
  /\ On \in [Request -> {"web", "sdcp"}]

VARIABLES
  patient,    (* whether every handler ends within the 60 seconds that     *)
              (* runner.cleanup() waits for it: set once                   *)
  main,       (* where _run is                                             *)
  turn,       (* the listener that the teardown is at                      *)
  lives,
  accepting,  (* the listeners that accept requests                        *)
  relaying,   (* whether the TCP relays accept connections                 *)
  client,     (* the listeners whose HTTP client to the printer is open    *)
  handler,    (* where each request's handler is                           *)
  thread,     (* the worker thread that writes for it                      *)
  session,    (* the requests whose session is in its manager's table      *)
  locked,     (* the sessions whose lock the request's handler holds       *)
  file,       (* the temp files on disk                                    *)
  kept,       (* history: of these, the ones whose archiving raised        *)
  relay       (* the open connections through the TCP relays               *)

settings    == <<detectVars, patient>>
processVars == <<accepting, relaying, client>>
uploadVars  == <<handler, thread, session, locked>>
files       == <<file, kept>>
vars == <<settings, main, turn, lives, processVars, uploadVars, files, relay>>

(* CC1 has a second listener, on port 3030. *)
Listener == IF printer = "CC1" THEN {"web", "sdcp"} ELSE {"web"}

Init ==
  /\ InitDetection /\ patient \in BOOLEAN
  /\ main = "off" /\ turn = "web" /\ lives = 0
  /\ accepting = {} /\ relaying = FALSE /\ client = {}
  /\ handler = [r \in Request |-> "none"]
  /\ thread = [r \in Request |-> "idle"]
  /\ session = {} /\ locked = {} /\ file = {} /\ kept = {} /\ relay = {}

Active(r) == handler[r] \in {"forward", "write"}

-----------------------------------------------------------------------------
(* Start *)

Begin ==
  /\ main = "off" /\ lives < MaxLives
  /\ lives' = lives + 1
  /\ main' = "detect"
  /\ StartDetection
  /\ UNCHANGED <<patient, turn, processVars, uploadVars, files, relay>>

DetectPrinter ==
  /\ main = "detect"
  /\ Detect
  /\ UNCHANGED <<patient, main, turn, lives, processVars, uploadVars, files, relay>>

(* No printer was found, or a probe failed: the exception ends the process. *)
GiveUp ==
  /\ main = "detect" /\ phase = "dead"
  /\ main' = "off"
  /\ EndDetection
  /\ UNCHANGED <<patient, turn, lives, processVars, uploadVars, files, relay>>

(* Faulty: the orphans stay. *)
BootOver ==
  /\ main = "detect" /\ phase = "done"
  /\ client' = {"web"}
  /\ main' = "start"
  /\ UNCHANGED <<settings, turn, lives, accepting, relaying, uploadVars, files, relay>>

(* http_proxy.start(): the orphans of the last life are removed first. *)
Boot ==
  /\ main = "detect" /\ phase = "done"
  /\ file' = {} /\ kept' = {}
  /\ client' = {"web"}
  /\ main' = "start"
  /\ UNCHANGED <<settings, turn, lives, accepting, relaying, uploadVars, relay>>

OpenWeb ==
  /\ main = "start" /\ accepting = {}
  /\ accepting' = {"web"}
  /\ UNCHANGED <<settings, main, turn, lives, relaying, client, uploadVars, files, relay>>

(* The services of the printer's type; port 80 is served meanwhile. *)
OpenServices ==
  /\ main = "start" /\ accepting # {}
  /\ relaying' = TRUE
  /\ client' = Listener /\ accepting' = Listener
  /\ main' = "serve"
  /\ UNCHANGED <<settings, turn, lives, uploadVars, files, relay>>

(* The process dies: also when a service cannot bind its port, or when the *)
(* signal comes before its handler is installed.  The files survive.       *)
Crash ==
  /\ main # "off"
  /\ main' = "off" /\ turn' = "web"
  /\ accepting' = {} /\ relaying' = FALSE /\ client' = {}
  /\ handler' = [r \in Request |-> "none"]
  /\ thread' = [r \in Request |-> "idle"]
  /\ session' = {} /\ locked' = {} /\ relay' = {}
  /\ EndDetection
  /\ UNCHANGED <<patient, lives, files>>

-----------------------------------------------------------------------------
(* Uploads *)

Arrive(r) ==
  /\ On[r] \in accepting /\ handler[r] = "none"
  /\ handler' = [handler EXCEPT ![r] = "forward"]
  /\ UNCHANGED <<settings, main, turn, lives, processVars, thread, session, locked, files, relay>>

(* The printer refused the upload or cannot be reached: nothing is saved. *)
Refused(r) ==
  /\ handler[r] = "forward"
  /\ handler' = [handler EXCEPT ![r] = "done"]
  /\ UNCHANGED <<settings, main, turn, lives, processVars, thread, session, locked, files, relay>>

(* The printer accepted it: a session, its lock, and a thread that writes. *)
Accepted(r) ==
  /\ handler[r] = "forward"
  /\ handler' = [handler EXCEPT ![r] = "write"]
  /\ session' = session \cup {r}
  /\ locked' = locked \cup {r}
  /\ thread' = [thread EXCEPT ![r] = "queued"]
  /\ UNCHANGED <<settings, main, turn, lives, processVars, files, relay>>

(* It opens the temp file, or open() raises. *)
ThreadOpens(r) ==
  /\ thread[r] = "queued"
  /\ thread' = [thread EXCEPT ![r] = "writing"]
  /\ file' \in {file \cup {r}, file}
  /\ UNCHANGED <<settings, main, turn, lives, processVars, handler, session, locked, kept, relay>>

ThreadEnds(r) ==
  /\ thread[r] = "writing"
  /\ thread' = [thread EXCEPT ![r] = "idle"]
  /\ UNCHANGED <<settings, main, turn, lives, processVars, handler, session, locked, files, relay>>

(* Faulty: the handler does not wait for its thread. *)
SavedAtOnce(r) ==
  /\ handler[r] = "write"
  /\ handler' = [handler EXCEPT ![r] = "done"]
  /\ locked' = locked \ {r}
  /\ UNCHANGED <<settings, main, turn, lives, processVars, thread, session, files, relay>>

(* Faulty: the lock is not released. *)
SavedHolding(r) ==
  /\ handler[r] = "write" /\ thread[r] = "idle"
  /\ handler' = [handler EXCEPT ![r] = "done"]
  /\ UNCHANGED <<settings, main, turn, lives, processVars, thread, session, locked, files, relay>>

(* The chunk is on disk, or its write raised, and the session waits for    *)
(* more; or the upload is complete, and is archived and removed from the   *)
(* table; or archiving it raised, which is logged: the session is removed  *)
(* from the table all the same, and its temp file stays.                   *)
Saved(r) ==
  /\ handler[r] = "write" /\ thread[r] = "idle"
  /\ handler' = [handler EXCEPT ![r] = "done"]
  /\ locked' = locked \ {r}
  /\ \/ UNCHANGED <<session, files>>
     \/ /\ r \in file
        /\ session' = session \ {r}
        /\ \/ file' = file \ {r} /\ UNCHANGED kept
           \/ kept' = kept \cup {r} /\ UNCHANGED file
  /\ UNCHANGED <<settings, main, turn, lives, processVars, thread, relay>>

(* TCP relays: connections end when their peers end them. *)
Connect(c) ==
  /\ relaying /\ c \notin relay
  /\ relay' = relay \cup {c}
  /\ UNCHANGED <<settings, main, turn, lives, processVars, uploadVars, files>>

Disconnect(c) ==
  /\ c \in relay
  /\ relay' = relay \ {c}
  /\ UNCHANGED <<settings, main, turn, lives, processVars, uploadVars, files>>

-----------------------------------------------------------------------------
(* Teardown *)

(* Background tasks are cancelled, relay servers and discovery closed. *)
Signal ==
  /\ main = "serve"
  /\ relaying' = FALSE
  /\ IF printer = "CC1" THEN main' = "close" /\ turn' = "sdcp"
                        ELSE main' = "gather" /\ turn' = "web"
  /\ UNCHANGED <<settings, lives, accepting, client, uploadVars, files, relay>>

(* runner.cleanup(), first: the listener stops accepting ... *)
StopAccepting ==
  /\ main = "close"
  /\ accepting' = accepting \ {turn}
  /\ main' = "drain"
  /\ UNCHANGED <<settings, turn, lives, relaying, client, uploadVars, files, relay>>

(* ... and waits for its handlers.  When they take too long it cancels     *)
(* them: their locks are released, their threads go on.                    *)
CancelHandlers ==
  /\ main = "drain" /\ ~patient
  /\ \E r \in Request : Active(r) /\ On[r] = turn
  /\ handler' = [r \in Request |-> IF Active(r) /\ On[r] = turn THEN "done" ELSE handler[r]]
  /\ locked' = {r \in locked : On[r] # turn}
  /\ UNCHANGED <<settings, main, turn, lives, processVars, thread, session, files, relay>>

(* Faulty: the client is closed without waiting for the handlers. *)
DrainedAtOnce ==
  /\ main = "drain"
  /\ client' = client \ {turn}
  /\ main' = "discard"
  /\ UNCHANGED <<settings, turn, lives, accepting, relaying, uploadVars, files, relay>>

Drained ==
  /\ main = "drain"
  /\ \A r \in Request : On[r] = turn => ~Active(r)
  /\ client' = client \ {turn}
  /\ main' = "discard"
  /\ UNCHANGED <<settings, turn, lives, accepting, relaying, uploadVars, files, relay>>

(* Faulty: the sessions are forgotten. *)
NotDiscarded ==
  /\ main = "discard"
  /\ main' = IF turn = "sdcp" THEN "gather" ELSE "exit"
  /\ UNCHANGED <<settings, turn, lives, processVars, uploadVars, files, relay>>

(* discard_all(): each session in turn, under its lock. *)
DiscardSession(r) ==
  /\ main = "discard"
  /\ r \in session \ locked /\ On[r] = turn
  /\ file' = file \ {r}
  /\ session' = session \ {r}
  /\ UNCHANGED <<settings, main, turn, lives, processVars, handler, thread, locked, kept, relay>>

Discarded ==
  /\ main = "discard"
  /\ \A r \in session : On[r] # turn
  /\ main' = IF turn = "sdcp" THEN "gather" ELSE "exit"
  /\ UNCHANGED <<settings, turn, lives, processVars, uploadVars, files, relay>>

(* The relay servers are waited for: asyncio.Server.wait_closed() returns  *)
(* when the server's connections are gone (Python 3.12.1 and later).       *)
Gather ==
  /\ main = "gather" /\ relay = {}
  /\ main' = "close" /\ turn' = "web"
  /\ UNCHANGED <<settings, lives, processVars, uploadVars, files, relay>>

(* "Shutdown complete": asyncio.run() waits for the threads and returns. *)
Exit ==
  /\ main = "exit"
  /\ \A r \in Request : thread[r] = "idle"
  /\ main' = "off"
  /\ handler' = [r \in Request |-> "none"]
  /\ EndDetection
  /\ UNCHANGED <<patient, turn, lives, processVars, thread, session, locked, files, relay>>

-----------------------------------------------------------------------------
Run == Begin \/ DetectPrinter \/ GiveUp \/ Boot \/ OpenWeb \/ OpenServices \/ StopAccepting \/ Drained
       \/ (\E r \in Request : DiscardSession(r)) \/ Discarded \/ Gather \/ Exit

(* What ends a request: the printer's answer or the client's timeout, the  *)
(* thread, the handler.                                                    *)
Proceed(r) == Refused(r) \/ Accepted(r) \/ ThreadOpens(r) \/ ThreadEnds(r) \/ Saved(r)

Next ==
  \/ Run \/ Signal \/ CancelHandlers \/ Crash
  \/ \E r \in Request : Arrive(r) \/ Proceed(r)
  \/ \E c \in Connection : Connect(c) \/ Disconnect(c)

(* _run, handlers and threads keep going; peers owe the proxy nothing. *)
Fairness == WF_vars(Run) /\ \A r \in Request : WF_vars(Proceed(r))

Spec == Init /\ [][Next]_vars /\ Fairness

-----------------------------------------------------------------------------
(* The state every other property presumes: each variable has its type. *)
TypeOK ==
  /\ configured \in Configured /\ phase \in {"off", "probe", "pause", "done", "dead"}
  /\ attempt \in 0 .. Pauses + 1
  /\ probe \in [Type -> {"off", "create", "wait", "replied", "silent"}]
  /\ printer \in Type \cup {"none"} /\ patient \in BOOLEAN
  /\ main \in {"off", "detect", "start", "serve", "close", "drain", "discard", "gather", "exit"}
  /\ turn \in Listener
  /\ lives \in 0 .. MaxLives
  /\ accepting \subseteq Listener /\ client \subseteq Listener
  /\ relaying \in BOOLEAN
  /\ handler \in [Request -> {"none", "forward", "write", "done"}]
  /\ thread \in [Request -> {"idle", "queued", "writing"}]
  /\ session \subseteq Request /\ locked \subseteq Request
  /\ kept \subseteq file /\ file \subseteq Request
  /\ relay \subseteq Connection

(* main.py:179-181, "closes the shared HTTP client and discards upload     *)
(* sessions, which must not happen beneath handlers that are still         *)
(* running": in every phase of start and teardown a handler that forwards  *)
(* to the printer has an open client.                                      *)
ClientOutlivesHandlers ==
  \A r \in Request : handler[r] = "forward" => On[r] \in client

(* upload_session.py:168-170, "files are never removed beneath an active   *)
(* write": no step of start, service or teardown removes the temp file     *)
(* that a worker thread is writing, provided no handler is cancelled.      *)
NotBeneathWriters ==
  [][patient => \A r \in file : r \notin file' => thread[r] # "writing"]_vars

(* storage.py:124-127: while a listener serves, each temp file belongs to  *)
(* a session of this life, which the reaper or discard_all will find, or   *)
(* to a thread at work, whatever an earlier life left behind, provided no  *)
(* handler was cancelled.  Files whose archiving raised in this life are   *)
(* the exception: their session is gone (upload_session.py:142-150).       *)
NoStrayFile ==
  patient /\ accepting # {} => \A r \in file \ kept : r \in session \/ thread[r] # "idle"

(* http_proxy.py:173-177 and ws_proxy.py:57-62: after a teardown that ran  *)
(* to its end no session is left and no temp file, from whichever listener *)
(* it came, but the files whose archiving raised, which wait for the next  *)
(* start, provided no handler was cancelled.                               *)
NothingLeft == patient /\ main = "exit" => file \subseteq kept /\ session = {}

(* detect.py:62-68, "CC2 discovery response [...] CC1 discovery response": *)
(* the services that are started fit an answer of the printer in the last  *)
(* attempt, and CC1's only one that came without CC2's, however replies,   *)
(* losses and retries fell, unless the type was configured.                *)
ServicesFitAnswers ==
  main \notin {"off", "detect"} =>
    IF configured # "auto" THEN printer = configured
    ELSE /\ probe[printer] = "replied"
         /\ printer = "CC1" => probe["CC2"] = "silent"

(* main.py:60-75: a start comes to service or ends, and does not try for   *)
(* ever to find a printer that is switched off.                            *)
ComesUp == main = "detect" ~> main \in {"serve", "off"}

Stopping == main \in {"close", "drain", "discard", "gather", "exit"}

(* main.py:164-184: the teardown comes to its end, once the relayed        *)
(* connections have been ended by their peers.                             *)
StopsOnceRelaysEnd == <>[](relay = {}) => (Stopping ~> main = "off")

(* main.py:157-184: a signal leads to "Shutdown complete". *)
Stops == Stopping ~> main = "off"

=============================================================================
