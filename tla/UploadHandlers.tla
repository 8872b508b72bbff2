--------------------------- MODULE UploadHandlers ---------------------------
(***************************************************************************)
(* The requests of one upload, from the slicer to the printer and back:    *)
(* CC2's PUT /upload (src/src/http_proxy.py), whose body passes through a  *)
(* temp file, and CC1's POST /uploadFile/upload (src/src/cc1_upload.py) on *)
(* port 80 or port 3030 (src/src/ws_proxy.py), whose body stays in memory. *)
(* A handler forwards the request, saves what the printer accepted and     *)
(* answers with the printer's answer.                                      *)
(*                                                                         *)
(* Saving is one step here, as in UploadCapture: a first chunk begins a    *)
(* copy, a later one adds to it, and the copy that misses nothing is       *)
(* captured; between the savings the reaper may discard the copy by its    *)
(* age.  What concurrent savings do to one session is in ChunkSessions.    *)
(***************************************************************************)
EXTENDS Naturals

CONSTANTS
  Request,     (* bound: the requests that the slicer sends                 *)
  Chunks,      (* the chunks of the upload, which it sends in turn          *)
  Endpoints,   (* among "cc2", "single" (cc2 without a Content-Range: the   *)
               (* file in one piece), "cc1" (port 80), "sdcp" (port 3030)   *)
  Answers,     (* what the printer may answer                               *)
  None         (* no request, no copy                                       *)

(* The printer's answers: it cannot be reached; it refuses by its status,  *)
(* or (CC1) by the code in its JSON; it accepts, with JSON, with something *)
(* that is no JSON, with bytes that are no text, or with a charset in its  *)
(* Content-Type.                                                           *)
Refusal    == {"unreachable", "status", "code"}
Acceptance == {"ok", "nojson", "notext", "charset"}

ASSUME UploadHandlersAssumption ==
  /\ Chunks \in Nat \ {0}
  /\ Endpoints \subseteq {"cc2", "single", "cc1", "sdcp"}
  /\ Answers \subseteq Refusal \cup Acceptance
  /\ None \notin Request /\ \A S \in SUBSET (1 .. Chunks) : S # None

VARIABLES
  endpoint,  (* where the slicer sends this upload                          *)
  pc,        (* where each request's handler is                             *)
  chunk,     (* the chunk that the request carries                          *)
  body,      (* the temp files with bodies of CC2's requests                *)
  answer,    (* what each request is answered: "ok", "error", or "raised"   *)
             (* when its handler raised after the printer had answered      *)
  awaiting,  (* the request that the slicer waits for                       *)
  next,      (* the chunk that it sends next                                *)
  dropped,   (* the requests that it gave up                                *)
  refused,   (* the requests that the printer refused or never got          *)
  session,   (* the chunks of the copy that is being captured               *)
  captured,  (* whether the upload was captured                             *)
  failed,    (* history: whether saving a chunk failed                      *)
  expired    (* history: whether the reaper discarded the copy              *)

slicerVars  == <<awaiting, next, dropped>>
captureVars == <<session, captured, failed, expired>>

vars == <<endpoint, pc, chunk, body, answer, slicerVars, refused, captureVars>>

(* What is sent in one piece is saved at once, like an upload of one chunk. *)
Chunk == IF endpoint = "single" THEN {1} ELSE 1 .. Chunks

BySdcp == endpoint \in {"cc1", "sdcp"}

Init ==
  /\ endpoint \in Endpoints
  /\ pc = [r \in Request |-> "none"] /\ chunk = [r \in Request |-> 1]
  /\ body = {} /\ answer = [r \in Request |-> "none"]
  /\ awaiting = None /\ next = 1 /\ dropped = {}
  /\ refused = Request
  /\ session = None /\ captured = FALSE /\ failed = FALSE /\ expired = FALSE

-----------------------------------------------------------------------------
(* The slicer *)

Send(r) ==
  /\ pc[r] = "none" /\ awaiting = None /\ next \in Chunk
  /\ chunk' = [chunk EXCEPT ![r] = next]
  /\ awaiting' = r
  /\ body' = IF BySdcp THEN body ELSE body \cup {r}
  /\ pc' = [pc EXCEPT ![r] = "read"]
  /\ UNCHANGED <<endpoint, answer, next, dropped, refused, captureVars>>

(* The slicer closes the connection, and may send the chunk again.  While  *)
(* the body is being read this ends the handler by an exception; later the *)
(* handler does not notice.                                                *)
Drop ==
  /\ awaiting # None
  /\ awaiting' = None
  /\ dropped' = dropped \cup {awaiting}
  /\ pc' = [pc EXCEPT ![awaiting] = IF @ = "read" THEN "lost" ELSE @]
  /\ UNCHANGED <<endpoint, chunk, body, answer, next, refused, captureVars>>

-----------------------------------------------------------------------------
(* The handler *)

Read(r) ==
  /\ pc[r] = "read"
  /\ pc' = [pc EXCEPT ![r] = "forward"]
  /\ UNCHANGED <<endpoint, chunk, body, answer, slicerVars, refused, captureVars>>

(* The body's temp file cannot be created or written, or the one that is   *)
(* too large cannot be removed: the exception makes a 500 before the       *)
(* handler has the path that it would remove.                              *)
ReadFails(r) ==
  /\ pc[r] = "read" /\ ~BySdcp
  /\ body' \in {body, body \ {r}}
  /\ pc' = [pc EXCEPT ![r] = "lost"]
  /\ answer' = [answer EXCEPT ![r] = "error"]
  /\ awaiting' = IF awaiting = r THEN None ELSE awaiting
  /\ UNCHANGED <<endpoint, chunk, next, dropped, refused, captureVars>>

(* The body is larger than MAX_BODY_SIZE: 413. *)
TooLarge(r) ==
  /\ pc[r] = "read"
  /\ body' = body \ {r}
  /\ pc' = [pc EXCEPT ![r] = "answer"]
  /\ answer' = [answer EXCEPT ![r] = "error"]
  /\ UNCHANGED <<endpoint, chunk, slicerVars, refused, captureVars>>

(* On port 3030 a charset in the Content-Type raises in web.Response();    *)
(* CC1's capture raises for an answer that is no text.  aiohttp makes a    *)
(* 500 of either.                                                          *)
Raises(a) == (endpoint = "sdcp" /\ a = "charset") \/ (BySdcp /\ a = "notext")

(* Faulty: what the printer refused by its code is taken as accepted. *)
TakenForAny(a) == a # "unreachable" /\ ~Raises(a)

TakenFor(a) == a \in Acceptance /\ ~Raises(a)

Told(a) == IF Raises(a) THEN "raised" ELSE IF TakenFor(a) THEN "ok" ELSE "error"

(* Faulty: only an answer in JSON leads to saving. *)
ForwardStrict(r, a) ==
  /\ pc[r] = "forward" /\ (a = "code" => BySdcp)
  /\ refused' = IF a \in Acceptance THEN refused \ {r} ELSE refused
  /\ pc' = [pc EXCEPT ![r] = IF a = "ok" THEN "save" ELSE "answer"]
  /\ answer' = [answer EXCEPT ![r] = Told(a)]
  /\ UNCHANGED <<endpoint, chunk, body, slicerVars, captureVars>>

(* forward_to_printer(), and what the handler makes of the answer a. *)
Forward(r, a) ==
  /\ pc[r] = "forward" /\ (a = "code" => BySdcp)
  /\ refused' = IF a \in Acceptance THEN refused \ {r} ELSE refused
  /\ pc' = [pc EXCEPT ![r] = IF TakenFor(a) THEN "save" ELSE "answer"]
  /\ answer' = [answer EXCEPT ![r] = Told(a)]
  /\ UNCHANGED <<endpoint, chunk, body, slicerVars, captureVars>>

(* The copy with the chunk of request r. *)
Copied(r) ==
  IF chunk[r] = 1 THEN {1} ELSE IF session = None THEN None ELSE session \cup {chunk[r]}

(* A file in one piece is archived from its body. *)
Save(r) ==
  /\ pc[r] = "save"
  /\ body' = IF endpoint = "single" THEN body \ {r} ELSE body
  /\ IF Copied(r) = Chunk
     THEN session' = None /\ captured' = TRUE
     ELSE session' = Copied(r) /\ UNCHANGED captured
  /\ UNCHANGED <<failed, expired>>
  /\ pc' = [pc EXCEPT ![r] = "answer"]
  /\ UNCHANGED <<endpoint, chunk, answer, slicerVars, refused>>

(* Faulty: a failure reaches the slicer. *)
SaveRaises(r) ==
  /\ pc[r] = "save"
  /\ pc' = [pc EXCEPT ![r] = "answer"]
  /\ answer' = [answer EXCEPT ![r] = "error"]
  /\ UNCHANGED <<endpoint, chunk, body, slicerVars, refused, captureVars>>

(* Saving fails, which is only logged; the copy stays or is given up. *)
SaveLogged(r) ==
  /\ pc[r] = "save"
  /\ body' \in {body, IF endpoint = "single" THEN body \ {r} ELSE body}
  /\ session' \in {session, None} /\ failed' = TRUE
  /\ pc' = [pc EXCEPT ![r] = "answer"]
  /\ UNCHANGED <<endpoint, chunk, answer, slicerVars, refused, captured, expired>>

(* Faulty: the body is removed only after a success. *)
AnswerKeeping(r) ==
  /\ pc[r] = "answer"
  /\ pc' = [pc EXCEPT ![r] = "over"]
  /\ body' = IF answer[r] = "ok" THEN body \ {r} ELSE body
  /\ \/ /\ awaiting = r /\ awaiting' = None
        /\ next' = IF answer[r] = "ok" THEN next + 1 ELSE next
     \/ awaiting # r /\ UNCHANGED <<awaiting, next>>
  /\ UNCHANGED <<endpoint, chunk, answer, dropped, refused, captureVars>>

(* The body is removed and the answer sent.  A slicer that still waits     *)
(* goes on to the next chunk, or may repeat the one that failed.           *)
Answer(r) ==
  /\ pc[r] = "answer"
  /\ pc' = [pc EXCEPT ![r] = "over"]
  /\ body' = body \ {r}
  /\ \/ /\ awaiting = r /\ awaiting' = None
        /\ next' = IF answer[r] = "ok" THEN next + 1 ELSE next
     \/ awaiting # r /\ UNCHANGED <<awaiting, next>>
  /\ UNCHANGED <<endpoint, chunk, answer, dropped, refused, captureVars>>

(* The body cannot be removed: that exception takes the place of the       *)
(* answer, with a 500.                                                     *)
AnswerFails(r) ==
  /\ pc[r] = "answer" /\ r \in body
  /\ pc' = [pc EXCEPT ![r] = "lost"]
  /\ answer' = [answer EXCEPT ![r] = "raised"]
  /\ awaiting' = IF awaiting = r THEN None ELSE awaiting
  /\ UNCHANGED <<endpoint, chunk, body, next, dropped, refused, captureVars>>

Handle(r) ==
  \/ Read(r) \/ ReadFails(r) \/ TooLarge(r) \/ Save(r) \/ SaveLogged(r)
  \/ Answer(r) \/ AnswerFails(r)
  \/ \E a \in Answers : Forward(r, a)

-----------------------------------------------------------------------------
(* The reaper: the copy was begun UPLOAD_TIMEOUT ago, or before that. *)
Reap ==
  /\ session # None
  /\ session' = None /\ expired' = TRUE
  /\ UNCHANGED <<endpoint, pc, chunk, body, answer, slicerVars, refused, captured, failed>>

Next == Drop \/ Reap \/ \E r \in Request : Send(r) \/ Handle(r)

Spec == Init /\ [][Next]_vars

-----------------------------------------------------------------------------
(* The state every other property presumes: each variable has its type. *)
TypeOK ==
  /\ endpoint \in Endpoints
  /\ pc \in [Request -> {"none", "read", "lost", "forward", "save", "answer", "over"}]
  /\ chunk \in [Request -> Chunk]
  /\ body \subseteq Request /\ dropped \subseteq Request /\ refused \subseteq Request
  /\ answer \in [Request -> {"none", "ok", "error", "raised"}]
  /\ awaiting \in Request \cup {None} /\ next \in 1 .. Chunks + 1
  /\ session \in (SUBSET Chunk) \cup {None} /\ captured \in BOOLEAN
  /\ failed \in BOOLEAN /\ expired \in BOOLEAN

Accepted == {chunk[r] : r \in Request \ refused}

(* http_proxy.py:232 and cc1_upload.py:163-171: what is captured, and what *)
(* the slicer takes for sent, are chunks that the printer accepted, with   *)
(* every failure and repetition of a request.                              *)
OnlyAccepted ==
  /\ session # None => session \subseteq Accepted
  /\ captured => Accepted = Chunk
  /\ 1 .. next - 1 \subseteq Accepted

(* http_proxy.py:302-303, 235 and cc1_upload.py:183-186: the slicer is not *)
(* told that a request failed which the printer accepted, whatever becomes *)
(* of saving it, unless the printer's answer itself, or the removal of the *)
(* body (237), made the handler raise.                                     *)
PrintersAnswer == \A r \in Request \ refused : answer[r] \in {"ok", "raised"}

(* README.md:4, "transparently capturing every G-code file at upload       *)
(* time": when the slicer has sent every chunk, saving never failed and    *)
(* the upload was not so slow that the reaper discarded its copy           *)
(* (upload_session.py:157), it has been captured, whatever was refused and *)
(* repeated, unless the slicer gave up a request with the first chunk,     *)
(* which may arrive late and restart the session (118-121).                *)
EveryUploadCaptured ==
  1 .. next - 1 = Chunk /\ ~failed /\ ~expired /\ (\A r \in dropped : chunk[r] # 1)
    => captured

(* http_proxy.py:236-237: each body on disk is that of a request whose     *)
(* handler is still at work, or has been lost to an exception: while it    *)
(* received the body (its sender gone, or the file not written, 246-252),  *)
(* or in removing it (237).                                                *)
NoBodyLeft == \A r \in body : pc[r] \in {"read", "forward", "save", "answer", "lost"}

=============================================================================
