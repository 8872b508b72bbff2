--------------------------- MODULE LifecycleProofs ---------------------------
(* Theorems about Lifecycle, for any number of uploads, relayed            *)
(* connections and lives of the process.                                   *)
EXTENDS Lifecycle, TLAPS

Ports == {"web", "sdcp"}

Types ==
  /\ configured \in Configured /\ phase \in {"off", "probe", "pause", "done", "dead"}
  /\ probe \in [Type -> {"off", "create", "wait", "replied", "silent"}]
  /\ printer \in Type \cup {"none"} /\ patient \in BOOLEAN
  /\ main \in {"off", "detect", "start", "serve", "close", "drain", "discard", "gather", "exit"}
  /\ turn \in Ports /\ accepting \subseteq Ports /\ client \subseteq Ports
  /\ handler \in [Request -> {"none", "forward", "write", "done"}]
  /\ thread \in [Request -> {"idle", "queued", "writing"}]
  /\ session \subseteq Request /\ locked \subseteq Request
  /\ file \subseteq Request /\ kept \subseteq Request

(* The listeners whose HTTP client may still be open in each phase.        *)
Served ==
  CASE main \in {"off", "detect", "exit"} -> {}
    [] main \in {"start", "gather"}       -> {"web"}
    [] main = "serve"                     -> Listener
    [] main \in {"close", "drain"}        -> IF turn = "sdcp" THEN Ports ELSE {"web"}
    [] main = "discard"                   -> IF turn = "sdcp" THEN {"web"} ELSE {}

(* Listeners stop accepting before their clients are closed. *)
InOrder ==
  /\ client \subseteq Served /\ accepting \subseteq client
  /\ main = "start" => client = {"web"}
  /\ main = "serve" => client = Listener
  /\ main = "drain" => turn \notin accepting
  /\ turn = "sdcp" => main \in {"close", "drain", "discard", "gather"} /\ printer = "CC1"
  /\ main \in {"off", "detect"} => \A r \in Request : handler[r] = "none"

(* Handlers and sessions live as long as the client of their listener,     *)
(* sessions until they are discarded.                                      *)
Upload ==
  /\ \A r \in Request : Active(r) => On[r] \in client
  /\ \A r \in Request : handler[r] = "write" => r \in session
  /\ \A r \in session : On[r] \in client \/ (main = "discard" /\ On[r] = turn)

(* With handlers that end in time each thread at work has a handler that   *)
(* waits for it, and each file a session, but the files whose archiving    *)
(* raised.                                                                 *)
Waited == patient => \A r \in Request : thread[r] # "idle" => handler[r] = "write"

Owned == patient /\ main \notin {"off", "detect"} => file \subseteq session \cup kept

(* The type is what the answers of the last attempt make it. *)
Fit ==
  IF configured # "auto" THEN printer = configured
  ELSE /\ printer \in Type /\ probe[printer] = "replied"
       /\ printer = "CC1" => probe["CC2"] = "silent"

Detecting ==
  /\ main = "detect" /\ configured # "auto" => phase = "done" /\ printer = configured
  /\ main = "detect" /\ phase = "done" => Fit
  /\ main \notin {"off", "detect"} => Fit

Inv == Types /\ InOrder /\ Upload /\ Waited /\ Owned /\ Detecting

-----------------------------------------------------------------------------
LEMMA TypesStep == Types /\ [Next]_vars => Types'
<1> SUFFICES ASSUME Types, [Next]_vars PROVE Types'
  OBVIOUS
<1> USE DEF Types, Ports, settings, detectVars, processVars, uploadVars, files
<1>1. CASE Begin \/ GiveUp
  BY <1>1, DetectionAssumption DEF Begin, GiveUp, StartDetection, EndDetection
<1>2. CASE DetectPrinter
  <2>1. ASSUME NEW t \in Type, SocketCreated(t) \/ SocketFails(t) PROVE Types'
    BY <1>2, <2>1 DEF DetectPrinter, SocketCreated, SocketFails
  <2>2. ASSUME NEW t \in Type, ProbeEnds(t) PROVE Types'
    BY <1>2, <2>2 DEF DetectPrinter, ProbeEnds
  <2>3. CASE Detected \/ NotDetected \/ Retry
    BY <1>2, <2>3 DEF DetectPrinter, Detected, Preferred, NotDetected, Retry, Type
  <2> QED BY <1>2, <2>1, <2>2, <2>3 DEF DetectPrinter, Detect
<1>3. CASE Boot \/ OpenWeb \/ OpenServices
  BY <1>3 DEF Boot, OpenWeb, OpenServices, Listener
<1>4. CASE Crash
  BY <1>4 DEF Crash, EndDetection
<1>5. ASSUME NEW r \in Request, Arrive(r) \/ Refused(r) \/ Accepted(r) PROVE Types'
  <2>1. CASE Arrive(r)
    BY <2>1 DEF Arrive
  <2>2. CASE Refused(r)
    BY <2>2 DEF Refused
  <2>3. CASE Accepted(r)
    BY <2>3 DEF Accepted
  <2> QED BY <1>5, <2>1, <2>2, <2>3
<1>6. ASSUME NEW r \in Request, ThreadOpens(r) \/ ThreadEnds(r) \/ Saved(r) PROVE Types'
  <2>1. CASE ThreadOpens(r)
    BY <2>1 DEF ThreadOpens
  <2>2. CASE ThreadEnds(r)
    BY <2>2 DEF ThreadEnds
  <2>3. CASE Saved(r)
    BY <2>3 DEF Saved
  <2> QED BY <1>6, <2>1, <2>2, <2>3
<1>7. ASSUME NEW c \in Connection, Connect(c) \/ Disconnect(c) PROVE Types'
  BY <1>7 DEF Connect, Disconnect
<1>8. CASE Signal \/ StopAccepting \/ Drained \/ Discarded \/ Gather
  BY <1>8 DEF Signal, StopAccepting, Drained, Discarded, Gather
<1>9. CASE CancelHandlers
  BY <1>9 DEF CancelHandlers
<1>10. ASSUME NEW r \in Request, DiscardSession(r) PROVE Types'
  BY <1>10 DEF DiscardSession
<1>11. CASE Exit
  BY <1>11 DEF Exit, EndDetection
<1>12. CASE UNCHANGED vars
  BY <1>12 DEF vars
<1> QED
  BY <1>1, <1>2, <1>3, <1>4, <1>5, <1>6, <1>7, <1>8, <1>9, <1>10, <1>11, <1>12
  DEF Next, Run, Proceed

LEMMA InOrderStep == Types /\ Upload /\ InOrder /\ [Next]_vars => InOrder'
<1> SUFFICES ASSUME Types, Upload, InOrder, [Next]_vars PROVE InOrder'
  OBVIOUS
<1> USE DEF InOrder, Served, Ports, Listener, settings, detectVars, processVars, uploadVars
<1>1. CASE Begin \/ GiveUp
  BY <1>1 DEF Begin, GiveUp, StartDetection, EndDetection
<1>2. CASE DetectPrinter
  BY <1>2 DEF DetectPrinter
<1>3. CASE Boot \/ OpenWeb
  BY <1>3 DEF Boot, OpenWeb
<1>4. CASE OpenServices
  BY <1>4 DEF OpenServices
<1>5. CASE Crash
  BY <1>5 DEF Crash, EndDetection
<1>6. ASSUME NEW r \in Request, Arrive(r) PROVE InOrder'
  BY <1>6 DEF Arrive
<1>7. ASSUME NEW r \in Request, Refused(r) \/ Accepted(r) \/ Saved(r) PROVE InOrder'
  <2>1. main \notin {"off", "detect"}
    BY <1>7 DEF Refused, Accepted, Saved
  <2> QED BY <1>7, <2>1 DEF Refused, Accepted, Saved
<1>8. ASSUME NEW r \in Request, ThreadOpens(r) \/ ThreadEnds(r) \/ DiscardSession(r) PROVE InOrder'
  BY <1>8 DEF ThreadOpens, ThreadEnds, DiscardSession
<1>9. ASSUME NEW c \in Connection, Connect(c) \/ Disconnect(c) PROVE InOrder'
  BY <1>9 DEF Connect, Disconnect
<1>10. CASE Signal
  BY <1>10 DEF Signal
<1>11. CASE StopAccepting
  BY <1>11 DEF StopAccepting, Types
<1>12. CASE CancelHandlers
  BY <1>12 DEF CancelHandlers
<1>13. CASE Drained
  BY <1>13 DEF Drained, Types
<1>14. CASE Discarded
  BY <1>14 DEF Discarded, Types
<1>15. CASE Gather
  BY <1>15 DEF Gather
<1>16. CASE Exit
  BY <1>16 DEF Exit, EndDetection
<1>17. CASE UNCHANGED vars
  BY <1>17 DEF vars
<1> QED
  BY <1>1, <1>2, <1>3, <1>4, <1>5, <1>6, <1>7, <1>8, <1>9, <1>10, <1>11, <1>12, <1>13, <1>14,
     <1>15, <1>16, <1>17
  DEF Next, Run, Proceed

LEMMA UploadStep == LifecycleAssumption /\ Types /\ InOrder /\ Upload /\ [Next]_vars => Upload'
<1> SUFFICES ASSUME LifecycleAssumption, Types, InOrder, Upload, [Next]_vars PROVE Upload'
  OBVIOUS
<1> USE DEF Types, Upload, Active, settings, detectVars, processVars, uploadVars
<1>1. CASE Begin \/ GiveUp \/ DetectPrinter
  BY <1>1 DEF Begin, GiveUp, DetectPrinter
<1>2. CASE Boot \/ OpenWeb \/ OpenServices
  BY <1>2 DEF Boot, OpenWeb, OpenServices, InOrder, Served, Listener, Ports
<1>3. CASE Crash
  BY <1>3 DEF Crash
<1>4. ASSUME NEW r \in Request, Arrive(r) PROVE Upload'
  BY <1>4 DEF Arrive, InOrder
<1>5. ASSUME NEW r \in Request, Refused(r) PROVE Upload'
  BY <1>5 DEF Refused
<1>6. ASSUME NEW r \in Request, Accepted(r) PROVE Upload'
  BY <1>6 DEF Accepted
<1>7. ASSUME NEW r \in Request, Saved(r) PROVE Upload'
  BY <1>7 DEF Saved
<1>8. ASSUME NEW r \in Request, ThreadOpens(r) \/ ThreadEnds(r) PROVE Upload'
  BY <1>8 DEF ThreadOpens, ThreadEnds
<1>9. ASSUME NEW c \in Connection, Connect(c) \/ Disconnect(c) PROVE Upload'
  BY <1>9 DEF Connect, Disconnect
<1>10. CASE Signal \/ StopAccepting \/ Gather
  BY <1>10 DEF Signal, StopAccepting, Gather
<1>11. CASE CancelHandlers
  BY <1>11 DEF CancelHandlers
<1>12. CASE Drained
  BY <1>12 DEF Drained
<1>13. ASSUME NEW r \in Request, DiscardSession(r) PROVE Upload'
  <2>1. ~Active(r)
    BY <1>13 DEF DiscardSession, InOrder, Served, Ports
  <2> QED BY <1>13, <2>1 DEF DiscardSession
<1>14. CASE Discarded
  BY <1>14 DEF Discarded
<1>15. CASE Exit
  BY <1>15 DEF Exit, InOrder, Served
<1>16. CASE UNCHANGED vars
  BY <1>16 DEF vars
<1> QED
  BY <1>1, <1>2, <1>3, <1>4, <1>5, <1>6, <1>7, <1>8, <1>9, <1>10, <1>11, <1>12, <1>13, <1>14,
     <1>15, <1>16
  DEF Next, Run, Proceed

LEMMA WaitedStep == Types /\ Waited /\ [Next]_vars => Waited'
<1> SUFFICES ASSUME Types, Waited, [Next]_vars, patient PROVE Waited'
  BY DEF Next, Run, Proceed, vars, settings, Begin, DetectPrinter, GiveUp, Boot, OpenWeb,
         OpenServices, Crash, Arrive, Refused, Accepted, ThreadOpens, ThreadEnds, Saved, Connect,
         Disconnect, Signal, StopAccepting, CancelHandlers, Drained, DiscardSession, Discarded,
         Gather, Exit, Waited
<1> USE DEF Types, Waited
<1>1. CASE Crash \/ Exit
  BY <1>1 DEF Crash, Exit
<1>2. ASSUME NEW r \in Request, Arrive(r) \/ Refused(r) \/ Accepted(r) PROVE Waited'
  BY <1>2 DEF Arrive, Refused, Accepted
<1>3. ASSUME NEW r \in Request, ThreadOpens(r) \/ ThreadEnds(r) \/ Saved(r) PROVE Waited'
  BY <1>3 DEF ThreadOpens, ThreadEnds, Saved
<1> QED
  BY <1>1, <1>2, <1>3
  DEF Next, Run, Proceed, vars, uploadVars, Begin, DetectPrinter, GiveUp, Boot, OpenWeb,
      OpenServices, Connect, Disconnect, Signal, StopAccepting, CancelHandlers, Drained,
      DiscardSession, Discarded, Gather

(* A thread at work belongs to no session that is being discarded, and to  *)
(* no process that has just begun.                                         *)
LEMMA WritersSession ==
  ASSUME Types, InOrder, Upload, Waited, patient, NEW r \in Request, thread[r] # "idle"
  PROVE  handler[r] = "write" /\ r \in session /\ main # "detect"
         /\ ~(main = "discard" /\ On[r] = turn)
<1>1. handler[r] = "write" /\ r \in session /\ On[r] \in client
  BY DEF Waited, Upload, Active
<1> QED BY <1>1 DEF InOrder, Served, Ports, Types

LEMMA OwnedStep ==
  Types /\ InOrder /\ Upload /\ Waited /\ Owned /\ [Next]_vars => Owned'
<1> SUFFICES ASSUME Types, InOrder, Upload, Waited, Owned, [Next]_vars, patient, patient'
             PROVE  Owned'
  BY DEF Next, Run, Proceed, vars, settings, Begin, DetectPrinter, GiveUp, Boot, OpenWeb,
         OpenServices, Crash, Arrive, Refused, Accepted, ThreadOpens, ThreadEnds, Saved, Connect,
         Disconnect, Signal, StopAccepting, CancelHandlers, Drained, DiscardSession, Discarded,
         Gather, Exit, Owned
<1> USE DEF Owned, files
<1>1. CASE Begin \/ GiveUp \/ Boot \/ Crash \/ Exit
  BY <1>1 DEF Begin, GiveUp, Boot, Crash, Exit
<1>2. ASSUME NEW r \in Request, Accepted(r) \/ Saved(r) PROVE Owned'
  BY <1>2, WritersSession DEF Accepted, Saved, processVars
<1>3. ASSUME NEW r \in Request, ThreadOpens(r) PROVE Owned'
  BY <1>3, WritersSession DEF ThreadOpens
<1>4. ASSUME NEW r \in Request, DiscardSession(r) PROVE Owned'
  BY <1>4 DEF DiscardSession
<1> QED
  BY <1>1, <1>2, <1>3, <1>4
  DEF Next, Run, Proceed, vars, uploadVars, DetectPrinter, OpenWeb, OpenServices, Arrive,
      Refused, ThreadEnds, Connect, Disconnect, Signal, StopAccepting, CancelHandlers, Drained,
      Discarded, Gather

LEMMA DetectingStep == Types /\ Detecting /\ [Next]_vars => Detecting'
<1> SUFFICES ASSUME Types, Detecting, [Next]_vars PROVE Detecting'
  OBVIOUS
<1> USE DEF Types, Detecting, Fit
<1>1. CASE Begin
  BY <1>1, DetectionAssumption DEF Begin, StartDetection
<1>2. CASE GiveUp \/ Crash \/ Exit
  BY <1>2 DEF GiveUp, Crash, Exit
<1>3. CASE DetectPrinter
  <2>1. ASSUME NEW t \in Type, SocketCreated(t) \/ SocketFails(t) \/ ProbeEnds(t) PROVE Detecting'
    BY <1>3, <2>1 DEF DetectPrinter, SocketCreated, SocketFails, ProbeEnds
  <2>2. CASE Detected
    BY <1>3, <2>2 DEF DetectPrinter, Detected, BothOver, Preferred, Type
  <2>3. CASE NotDetected \/ Retry
    BY <1>3, <2>3 DEF DetectPrinter, NotDetected, BothOver, Retry
  <2> QED BY <1>3, <2>1, <2>2, <2>3 DEF DetectPrinter, Detect
<1>4. CASE Boot
  BY <1>4 DEF Boot, settings, detectVars
<1> QED
  BY <1>1, <1>2, <1>3, <1>4
  DEF Next, Run, Proceed, vars, settings, detectVars, OpenWeb, OpenServices, Arrive, Refused,
      Accepted, ThreadOpens, ThreadEnds, Saved, Connect, Disconnect, Signal, StopAccepting,
      CancelHandlers, Drained, DiscardSession, Discarded, Gather

LEMMA Invariant == Spec => []Inv
<1>1. Init => Inv
  <2> SUFFICES ASSUME Init PROVE Inv
    OBVIOUS
  <2>1. Types
    BY DEF Init, InitDetection, Types, Ports
  <2>2. InOrder /\ Upload /\ Waited /\ Owned /\ Detecting
    BY DEF Init, InOrder, Upload, Active, Waited, Owned, Detecting
  <2> QED BY <2>1, <2>2 DEF Inv
<1>2. Inv /\ [Next]_vars => Inv'
  BY LifecycleAssumption, TypesStep, InOrderStep, UploadStep, WaitedStep, OwnedStep, DetectingStep
  DEF Inv
<1> QED BY <1>1, <1>2, PTL DEF Spec

-----------------------------------------------------------------------------
(* main.py:179-181: no handler forwards through a client that is closed.   *)
THEOREM LifeClientOutlivesHandlers == Spec => []ClientOutlivesHandlers
<1>1. Inv => ClientOutlivesHandlers
  BY DEF Inv, Upload, Active, ClientOutlivesHandlers
<1> QED BY Invariant, <1>1, PTL

(* storage.py:124-127: while a listener serves, each temp file has its     *)
(* session, but the files whose archiving raised in this life.             *)
THEOREM LifeNoStrayFile == Spec => []NoStrayFile
<1>1. Inv => NoStrayFile
  BY DEF Inv, InOrder, Served, Owned, NoStrayFile
<1> QED BY Invariant, <1>1, PTL

(* http_proxy.py:173-177, ws_proxy.py:57-62: a teardown that ran to its    *)
(* end leaves no session and no temp file, but the files whose archiving   *)
(* raised.                                                                 *)
THEOREM LifeNothingLeft == Spec => []NothingLeft
<1>1. Inv => NothingLeft
  BY DEF Inv, InOrder, Served, Upload, Owned, NothingLeft
<1> QED BY Invariant, <1>1, PTL

(* detect.py:62-68: the services fit the answers of the last attempt.      *)
THEOREM LifeServicesFitAnswers == Spec => []ServicesFitAnswers
<1>1. Inv => ServicesFitAnswers
  BY DEF Inv, Detecting, Fit, ServicesFitAnswers
<1> QED BY Invariant, <1>1, PTL

(* upload_session.py:168-170: no step removes a file beneath its writer.   *)
THEOREM LifeNotBeneathWriters == Spec => NotBeneathWriters
<1> DEFINE Step == patient => \A r \in file : r \notin file' => thread[r] # "writing"
<1>1. Inv /\ [Next]_vars => [Step]_vars
  <2> SUFFICES ASSUME Inv, Next, patient, NEW r \in file, r \notin file', thread[r] = "writing"
               PROVE  FALSE
    OBVIOUS
  <2>1. handler[r] = "write" /\ main # "detect" /\ ~(main = "discard" /\ On[r] = turn)
    BY WritersSession DEF Inv, Types
  <2>2. ~Boot
    BY <2>1 DEF Boot
  <2>3. ASSUME NEW q \in Request PROVE ~DiscardSession(q) /\ ~ThreadOpens(q)
    BY <2>1 DEF DiscardSession, ThreadOpens
  <2>4. ASSUME NEW q \in Request, Saved(q) PROVE FALSE
    <3>1. q # r
      BY <2>4 DEF Saved
    <3> QED BY <2>4, <3>1 DEF Saved, files
  <2> QED
    BY <2>2, <2>3, <2>4
    DEF Next, Run, Proceed, files, Begin, DetectPrinter, GiveUp, OpenWeb, OpenServices, Crash,
        Arrive, Refused, Accepted, ThreadEnds, Connect, Disconnect, Signal, StopAccepting,
        CancelHandlers, Drained, Discarded, Gather, Exit
<1> QED BY Invariant, <1>1, PTL DEF Spec, NotBeneathWriters
=============================================================================
