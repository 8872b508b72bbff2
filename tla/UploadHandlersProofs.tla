------------------------ MODULE UploadHandlersProofs ------------------------
(* Theorems about UploadHandlers, for any number of requests and chunks. *)
EXTENDS UploadHandlers, TLAPS

AtWork == {"read", "forward", "save", "answer"}

(* The slicer waits for a request at work, with its next chunk; the others *)
(* at work are those that it gave up.                                      *)
OneAtATime ==
  /\ awaiting # None => pc[awaiting] \in AtWork /\ chunk[awaiting] = next
  /\ \A r \in Request : pc[r] \in AtWork => r = awaiting \/ r \in dropped
  /\ \A r \in dropped : pc[r] # "none"

(* What a handler has learnt from the printer. *)
Learnt ==
  \A r \in Request :
    /\ pc[r] \in {"none", "read", "forward"} => r \in refused
    /\ pc[r] = "save" => r \notin refused /\ answer[r] = "ok"
    /\ answer[r] = "ok" => r \notin refused

(* A copy that misses nothing is captured in the same step. *)
NeverWhole == session # Chunk

(* When nothing went wrong with a saving, what the slicer has sent so far  *)
(* is in the copy, and so is what it is about to be told was sent.         *)
Fair == ~failed /\ ~expired /\ (\A r \in dropped : chunk[r] # 1) /\ ~captured
Holds(k) == session # None /\ 1 .. k \subseteq session

CopyKeepsUp ==
  Fair =>
    /\ next = 1 \/ Holds(next - 1)
    /\ \A r \in Request : r = awaiting /\ pc[r] = "answer" /\ answer[r] = "ok" => Holds(next)

Inv == TypeOK /\ OneAtATime /\ Learnt /\ NeverWhole /\ OnlyAccepted /\ CopyKeepsUp

-----------------------------------------------------------------------------
LEMMA ChunkFacts ==
  /\ 1 \in Chunk /\ Chunk \subseteq 1 .. Chunks
  /\ \A k \in Chunk : 1 .. k \subseteq Chunk
<1>1. CASE endpoint = "single"
  BY <1>1, UploadHandlersAssumption DEF Chunk
<1>2. CASE endpoint # "single"
  BY <1>2, UploadHandlersAssumption DEF Chunk
<1> QED BY <1>1, <1>2

(* The upload stays where it was sent. *)
LEMMA ChunkStays == [Next]_vars => endpoint' = endpoint /\ Chunk' = Chunk
<1> SUFFICES ASSUME [Next]_vars PROVE endpoint' = endpoint
  BY DEF Chunk
<1> QED
  BY DEF Next, Handle, Drop, Reap, Send, Read, ReadFails, TooLarge, Forward, Save, SaveLogged,
      Answer, AnswerFails, vars

LEMMA TypeStep == TypeOK /\ OneAtATime /\ [Next]_vars => TypeOK'
<1> SUFFICES ASSUME TypeOK, OneAtATime, [Next]_vars PROVE TypeOK'
  OBVIOUS
<1>0. endpoint' = endpoint /\ Chunk' = Chunk
  BY ChunkStays
<1> USE ChunkFacts, UploadHandlersAssumption, <1>0 DEF TypeOK, slicerVars, captureVars
<1>1. CASE Drop \/ Reap
  BY <1>1 DEF Drop, Reap
<1>2. ASSUME NEW r \in Request, Send(r) PROVE TypeOK'
  BY <1>2 DEF Send
<1>3. ASSUME NEW r \in Request, Read(r) \/ ReadFails(r) \/ TooLarge(r) PROVE TypeOK'
  BY <1>3 DEF Read, ReadFails, TooLarge
<1>4. ASSUME NEW r \in Request, Save(r) PROVE TypeOK'
  <2>1. Copied(r) \in (SUBSET Chunk) \cup {None}
    BY DEF Copied
  <2>2. session' \in (SUBSET Chunk') \cup {None} /\ captured' \in BOOLEAN
    BY <1>4, <2>1 DEF Save
  <2> QED BY <1>4, <2>2 DEF Save
<1>5. ASSUME NEW r \in Request, SaveLogged(r) PROVE TypeOK'
  <2>1. session' \in (SUBSET Chunk') \cup {None} /\ failed' \in BOOLEAN
    BY <1>5 DEF SaveLogged
  <2> QED BY <1>5, <2>1 DEF SaveLogged
<1>6. ASSUME NEW r \in Request, Answer(r) PROVE TypeOK'
  <2>1. next' \in 1 .. Chunks + 1
    BY <1>6 DEF Answer, OneAtATime
  <2> QED BY <1>6, <2>1 DEF Answer
<1>7. ASSUME NEW r \in Request, NEW a \in Answers, Forward(r, a) PROVE TypeOK'
  BY <1>7 DEF Forward, Told
<1>8. ASSUME NEW r \in Request, AnswerFails(r) PROVE TypeOK'
  BY <1>8 DEF AnswerFails
<1>9. CASE UNCHANGED vars
  BY <1>9 DEF vars
<1> QED BY <1>1, <1>2, <1>3, <1>4, <1>5, <1>6, <1>7, <1>8, <1>9 DEF Next, Handle

LEMMA OneStep == TypeOK /\ OneAtATime /\ [Next]_vars => OneAtATime'
<1> SUFFICES ASSUME TypeOK, OneAtATime, [Next]_vars PROVE OneAtATime'
  OBVIOUS
<1> USE UploadHandlersAssumption DEF TypeOK, OneAtATime, AtWork, slicerVars
<1>1. CASE Drop \/ Reap
  BY <1>1 DEF Drop, Reap
<1>2. ASSUME NEW r \in Request, Send(r) PROVE OneAtATime'
  BY <1>2 DEF Send
<1>3. ASSUME NEW r \in Request, Read(r) \/ ReadFails(r) \/ TooLarge(r) PROVE OneAtATime'
  <2>1. CASE Read(r) \/ TooLarge(r)
    BY <2>1 DEF Read, TooLarge
  <2>2. CASE ReadFails(r)
    BY <2>2 DEF ReadFails
  <2> QED BY <1>3, <2>1, <2>2
<1>4. ASSUME NEW r \in Request, Save(r) \/ SaveLogged(r) PROVE OneAtATime'
  BY <1>4 DEF Save, SaveLogged
<1>5. ASSUME NEW r \in Request, Answer(r) \/ AnswerFails(r) PROVE OneAtATime'
  <2>1. CASE Answer(r)
    BY <2>1 DEF Answer
  <2>2. CASE AnswerFails(r)
    BY <2>2 DEF AnswerFails
  <2> QED BY <1>5, <2>1, <2>2
<1>6. ASSUME NEW r \in Request, NEW a \in Answers, Forward(r, a) PROVE OneAtATime'
  BY <1>6 DEF Forward
<1>7. CASE UNCHANGED vars
  BY <1>7 DEF vars
<1> QED BY <1>1, <1>2, <1>3, <1>4, <1>5, <1>6, <1>7 DEF Next, Handle

LEMMA LearntStep == TypeOK /\ Learnt /\ [Next]_vars => Learnt'
<1> SUFFICES ASSUME TypeOK, Learnt, [Next]_vars PROVE Learnt'
  OBVIOUS
<1> USE UploadHandlersAssumption DEF TypeOK, Learnt, slicerVars, captureVars
<1>1. CASE Drop \/ Reap
  BY <1>1 DEF Drop, Reap
<1>2. ASSUME NEW r \in Request, Send(r) PROVE Learnt'
  BY <1>2 DEF Send
<1>3. ASSUME NEW r \in Request, Read(r) \/ ReadFails(r) \/ TooLarge(r) PROVE Learnt'
  <2>1. CASE Read(r) \/ TooLarge(r)
    BY <2>1 DEF Read, TooLarge
  <2>2. CASE ReadFails(r)
    BY <2>2 DEF ReadFails
  <2> QED BY <1>3, <2>1, <2>2
<1>4. ASSUME NEW r \in Request, Save(r) \/ SaveLogged(r) PROVE Learnt'
  <2>1. /\ pc[r] = "save" /\ pc' = [pc EXCEPT ![r] = "answer"]
        /\ refused' = refused /\ answer' = answer
    BY <1>4 DEF Save, SaveLogged
  <2> QED BY <2>1
<1>5. ASSUME NEW r \in Request, Answer(r) \/ AnswerFails(r) PROVE Learnt'
  <2>1. CASE Answer(r)
    BY <2>1 DEF Answer
  <2>2. CASE AnswerFails(r)
    BY <2>2 DEF AnswerFails
  <2> QED BY <1>5, <2>1, <2>2
<1>6. ASSUME NEW r \in Request, NEW a \in Answers, Forward(r, a) PROVE Learnt'
  BY <1>6 DEF Forward, Told, TakenFor, Raises
<1>7. CASE UNCHANGED vars
  BY <1>7 DEF vars
<1> QED BY <1>1, <1>2, <1>3, <1>4, <1>5, <1>6, <1>7 DEF Next, Handle

(* What was accepted stays accepted: a request that the printer took is    *)
(* over and done with, and carries its chunk for good.                     *)
LEMMA AcceptedStays == TypeOK /\ Learnt /\ [Next]_vars => Accepted \subseteq Accepted'
<1> SUFFICES ASSUME TypeOK, Learnt, [Next]_vars,
                    NEW r \in Request, r \notin refused
             PROVE  r \notin refused' /\ chunk'[r] = chunk[r]
  BY DEF Accepted
<1> USE DEF TypeOK, Learnt
<1>1. ASSUME NEW q \in Request, Send(q) PROVE r \notin refused' /\ chunk'[r] = chunk[r]
  BY <1>1 DEF Send
<1>2. ASSUME NEW q \in Request, NEW a \in Answers, Forward(q, a)
      PROVE r \notin refused' /\ chunk'[r] = chunk[r]
  BY <1>2 DEF Forward
<1> QED
  BY <1>1, <1>2
  DEF Next, Handle, Drop, Reap, Read, ReadFails, TooLarge, Save, SaveLogged, Answer, AnswerFails,
      vars, slicerVars

LEMMA OnlyAcceptedStep ==
  TypeOK /\ OneAtATime /\ Learnt /\ OnlyAccepted /\ [Next]_vars => OnlyAccepted'
<1> SUFFICES ASSUME TypeOK, OneAtATime, Learnt, OnlyAccepted, [Next]_vars PROVE OnlyAccepted'
  OBVIOUS
<1>0. Accepted \subseteq Accepted' /\ Chunk' = Chunk /\ Accepted' \subseteq Chunk
  <2>1. TypeOK' BY TypeStep
  <2> QED BY <2>1, AcceptedStays, ChunkStays DEF TypeOK, Accepted
<1>1. ASSUME session' = session, captured' = captured, next' = next PROVE OnlyAccepted'
  BY <1>0, <1>1 DEF OnlyAccepted
<1>2. ASSUME NEW r \in Request, Save(r) PROVE OnlyAccepted'
  <2>1. chunk[r] \in Accepted
    BY <1>2 DEF Save, Learnt, Accepted
  <2>2. Copied(r) # None => Copied(r) \subseteq Accepted
    <3>1. CASE chunk[r] = 1
      BY <2>1, <3>1 DEF Copied
    <3>2. CASE chunk[r] # 1
      BY <2>1, <3>2 DEF Copied, OnlyAccepted
    <3> QED BY <3>1, <3>2
  <2>3. Chunk # None
    BY UploadHandlersAssumption, ChunkFacts
  <2>4. next' = next
    BY <1>2 DEF Save, slicerVars
  <2>5. CASE Copied(r) = Chunk
    BY <1>2, <1>0, <2>2, <2>3, <2>4, <2>5 DEF Save, OnlyAccepted
  <2>6. CASE Copied(r) # Chunk
    BY <1>2, <1>0, <2>2, <2>4, <2>6 DEF Save, OnlyAccepted
  <2> QED BY <2>5, <2>6
<1>3. ASSUME NEW r \in Request, SaveLogged(r) PROVE OnlyAccepted'
  BY <1>0, <1>3 DEF SaveLogged, slicerVars, OnlyAccepted
<1>4. ASSUME NEW r \in Request, Answer(r) PROVE OnlyAccepted'
  <2>1. CASE next' = next
    BY <1>4, <1>1, <2>1 DEF Answer, captureVars
  <2>2. CASE next' # next
    <3>1. awaiting = r /\ answer[r] = "ok" /\ next' = next + 1
      BY <1>4, <2>2 DEF Answer
    <3>2. chunk[r] = next /\ next \in Accepted
      BY <3>1, UploadHandlersAssumption DEF OneAtATime, Learnt, Accepted
    <3>3. next \in Nat /\ 1 .. next' - 1 \subseteq (1 .. next - 1) \cup {next}
      BY <3>1 DEF TypeOK
    <3> QED BY <1>4, <1>0, <3>2, <3>3 DEF Answer, captureVars, OnlyAccepted
  <2> QED BY <2>1, <2>2
<1>5. CASE Reap
  BY <1>0, <1>5 DEF Reap, slicerVars, OnlyAccepted
<1> QED
  BY <1>1, <1>2, <1>3, <1>4, <1>5
  DEF Next, Handle, Drop, Send, Read, ReadFails, TooLarge, Forward, AnswerFails, vars, slicerVars,
      captureVars

LEMMA NeverWholeStep == TypeOK /\ NeverWhole /\ [Next]_vars => NeverWhole'
<1> SUFFICES ASSUME TypeOK, NeverWhole, [Next]_vars PROVE NeverWhole'
  OBVIOUS
<1>0. Chunk' = Chunk /\ Chunk # None
  BY ChunkStays, ChunkFacts, UploadHandlersAssumption
<1>1. ASSUME NEW r \in Request, Save(r) \/ SaveLogged(r) PROVE NeverWhole'
  BY <1>0, <1>1 DEF Save, SaveLogged, NeverWhole
<1>2. CASE Reap
  BY <1>0, <1>2 DEF Reap, NeverWhole
<1> QED
  BY <1>0, <1>1, <1>2
  DEF NeverWhole, Next, Handle, Drop, Send, Read, ReadFails, TooLarge, Forward, Answer,
      AnswerFails, vars, captureVars

LEMMA CopyStep == Inv /\ [Next]_vars => CopyKeepsUp'
<1> SUFFICES ASSUME Inv, [Next]_vars, Fair' PROVE CopyKeepsUp'
  BY DEF CopyKeepsUp
<1> USE UploadHandlersAssumption DEF TypeOK
<1>0. TypeOK /\ OneAtATime /\ Learnt /\ NeverWhole /\ CopyKeepsUp /\ Chunk' = Chunk
  BY ChunkStays DEF Inv
<1> USE <1>0
<1>1. CASE Drop
  BY <1>1 DEF Drop, CopyKeepsUp, Fair, Holds, captureVars
<1>2. ASSUME NEW r \in Request, Send(r) PROVE CopyKeepsUp'
  BY <1>2 DEF Send, OneAtATime, CopyKeepsUp, Fair, Holds, captureVars
<1>3. ASSUME NEW r \in Request, Read(r) \/ ReadFails(r) PROVE CopyKeepsUp'
  BY <1>3 DEF Read, ReadFails, CopyKeepsUp, Fair, Holds, captureVars, slicerVars
<1>4. ASSUME NEW r \in Request, TooLarge(r) PROVE CopyKeepsUp'
  BY <1>4 DEF TooLarge, CopyKeepsUp, Fair, Holds, captureVars, slicerVars
<1>5. ASSUME NEW r \in Request, NEW a \in Answers, Forward(r, a) PROVE CopyKeepsUp'
  BY <1>5 DEF Forward, Told, CopyKeepsUp, Fair, Holds, captureVars, slicerVars
<1>6. ASSUME NEW r \in Request, Save(r) PROVE CopyKeepsUp'
  <2>1. Fair /\ Copied(r) # Chunk /\ session' = Copied(r) /\ next' = next /\ awaiting' = awaiting
    BY <1>6 DEF Save, Fair, slicerVars
  <2>2. CASE chunk[r] = 1
    <3>1. r = awaiting /\ next = 1
      BY <1>6, <2>1, <2>2 DEF Save, Fair, OneAtATime, AtWork
    <3>2. session' = {1} /\ {1} # None
      BY <2>1, <2>2, UploadHandlersAssumption DEF Copied
    <3> QED BY <2>1, <3>1, <3>2 DEF CopyKeepsUp, Holds
  <2>3. CASE chunk[r] # 1
    <3>1. ASSUME NEW k \in Nat, Holds(k) PROVE Holds(k)' /\ chunk[r] \in session'
      <4>1. session \in SUBSET Chunk /\ session' = session \cup {chunk[r]}
        BY <2>1, <2>3, <3>1 DEF Holds, Copied
      <4>2. session' # None
        BY <4>1, ChunkFacts, UploadHandlersAssumption
      <4> QED BY <3>1, <4>1, <4>2 DEF Holds
    <3>2. next = 1 \/ Holds(next - 1)'
      BY <2>1, <3>1 DEF CopyKeepsUp
    <3>3. ASSUME NEW q \in Request, q = awaiting, pc'[q] = "answer", answer'[q] = "ok"
          PROVE  Holds(next)'
      <4>1. CASE q # r
        BY <1>6, <2>1, <3>1, <3>3, <4>1 DEF Save, CopyKeepsUp
      <4>2. CASE q = r
        <5>1. chunk[r] = next /\ next # 1
          BY <2>3, <3>3, <4>2, UploadHandlersAssumption DEF OneAtATime
        <5>2. Holds(next - 1)' /\ next \in session'
          BY <2>1, <3>1, <5>1 DEF CopyKeepsUp
        <5> QED BY <5>2, <2>1 DEF Holds
      <4> QED BY <4>1, <4>2
    <3> QED BY <2>1, <3>2, <3>3 DEF CopyKeepsUp
  <2> QED BY <2>2, <2>3
<1>7. ASSUME NEW r \in Request, SaveLogged(r) PROVE CopyKeepsUp'
  BY <1>7 DEF SaveLogged, Fair
<1>8. ASSUME NEW r \in Request, Answer(r) PROVE CopyKeepsUp'
  <2>1. Fair /\ session' = session /\ answer' = answer
    BY <1>8 DEF Answer, Fair, captureVars
  <2>2. CASE next' = next
    BY <1>8, <2>1, <2>2 DEF Answer, CopyKeepsUp, Holds
  <2>3. CASE next' # next
    <3>1. awaiting = r /\ answer[r] = "ok" /\ next' = next + 1 /\ awaiting' = None
      BY <1>8, <2>3 DEF Answer
    <3>2. Holds(next)
      BY <1>8, <2>1, <3>1 DEF Answer, CopyKeepsUp
    <3> QED BY <2>1, <3>1, <3>2, UploadHandlersAssumption DEF CopyKeepsUp, Holds
  <2> QED BY <2>2, <2>3
<1>9. ASSUME NEW r \in Request, AnswerFails(r) PROVE CopyKeepsUp'
  BY <1>9 DEF AnswerFails, CopyKeepsUp, Fair, Holds, captureVars
<1>10. CASE Reap
  BY <1>10 DEF Reap, Fair
<1>11. CASE UNCHANGED vars
  BY <1>11 DEF vars, CopyKeepsUp, Fair, Holds, captureVars, slicerVars
<1> QED BY <1>1, <1>2, <1>3, <1>4, <1>5, <1>6, <1>7, <1>8, <1>9, <1>10, <1>11
  DEF Next, Handle

LEMMA Invariant == Spec => []Inv
<1>1. Init => Inv
  <2> SUFFICES ASSUME Init PROVE Inv
    OBVIOUS
  <2>1. TypeOK
    <3>1. next \in 1 .. Chunks + 1 /\ awaiting \in Request \cup {None}
      BY UploadHandlersAssumption DEF Init
    <3>2. chunk \in [Request -> Chunk] /\ session \in (SUBSET Chunk) \cup {None}
      BY ChunkFacts DEF Init
    <3> QED BY <3>1, <3>2 DEF Init, TypeOK
  <2>2. OneAtATime /\ Learnt /\ CopyKeepsUp
    BY DEF Init, OneAtATime, AtWork, Learnt, CopyKeepsUp
  <2>3. NeverWhole
    BY ChunkFacts, UploadHandlersAssumption DEF Init, NeverWhole
  <2>4. OnlyAccepted
    BY DEF Init, OnlyAccepted
  <2> QED BY <2>1, <2>2, <2>3, <2>4 DEF Inv
<1>2. Inv /\ [Next]_vars => Inv'
  BY TypeStep, OneStep, LearntStep, NeverWholeStep, OnlyAcceptedStep, CopyStep DEF Inv
<1> QED BY <1>1, <1>2, PTL DEF Spec

-----------------------------------------------------------------------------
(* The variables have their types. *)
THEOREM UploadTyped == Spec => []TypeOK
<1>1. Inv => TypeOK
  BY DEF Inv
<1> QED BY Invariant, <1>1, PTL

(* http_proxy.py:232, cc1_upload.py:163-171: what is captured, and what the *)
(* slicer takes for sent, was accepted by the printer.                      *)
THEOREM UploadOnlyAccepted == Spec => []OnlyAccepted
<1>1. Inv => OnlyAccepted
  BY DEF Inv
<1> QED BY Invariant, <1>1, PTL

(* README.md:4: an upload that the slicer has sent whole was captured,      *)
(* unless a saving failed, the reaper discarded the copy by its age, or a   *)
(* first chunk was given up.                                                *)
THEOREM UploadCaptured == Spec => []EveryUploadCaptured
<1>1. Inv => EveryUploadCaptured
  <2> SUFFICES ASSUME Inv, 1 .. next - 1 = Chunk, ~failed, ~expired,
                      \A r \in dropped : chunk[r] # 1, ~captured
               PROVE  FALSE
    BY DEF EveryUploadCaptured, Inv, TypeOK
  <2>1. next # 1
    BY ChunkFacts
  <2>2. session # None /\ Chunk \subseteq session
    BY <2>1 DEF Inv, CopyKeepsUp, Fair, Holds
  <2> QED BY <2>2 DEF Inv, TypeOK, NeverWhole
<1> QED BY Invariant, <1>1, PTL

(* http_proxy.py:302-303: a failed saving does not reach the slicer; what   *)
(* may are an answer that raises and a body that cannot be removed.         *)
THEOREM UploadPrintersAnswer == Spec => []PrintersAnswer
<1>1. Init => PrintersAnswer
  BY DEF Init, PrintersAnswer
<1>2. Inv /\ PrintersAnswer /\ [Next]_vars => PrintersAnswer'
  <2> SUFFICES ASSUME TypeOK, Learnt, PrintersAnswer, [Next]_vars PROVE PrintersAnswer'
    BY DEF Inv
  <2> USE DEF TypeOK, PrintersAnswer, Learnt
  <2>1. ASSUME NEW r \in Request, ReadFails(r) \/ TooLarge(r) \/ AnswerFails(r)
        PROVE  PrintersAnswer'
    BY <2>1 DEF ReadFails, TooLarge, AnswerFails
  <2>2. ASSUME NEW r \in Request, NEW a \in Answers, Forward(r, a) PROVE PrintersAnswer'
    BY <2>2 DEF Forward, Told, TakenFor, Raises
  <2> QED
    BY <2>1, <2>2
    DEF Next, Handle, Drop, Reap, Send, Read, Save, SaveLogged, Answer, vars, slicerVars
<1> QED BY Invariant, <1>1, <1>2, PTL DEF Spec

(* http_proxy.py:236-237: no body outlives its handler, unless the handler  *)
(* was lost while it received the body, or could not remove it.             *)
THEOREM UploadNoBodyLeft == Spec => []NoBodyLeft
<1>1. Init => NoBodyLeft
  BY DEF Init, NoBodyLeft
<1>2. Inv /\ NoBodyLeft /\ [Next]_vars => NoBodyLeft'
  <2> SUFFICES ASSUME TypeOK, NoBodyLeft, [Next]_vars PROVE NoBodyLeft'
    BY DEF Inv
  <2> USE DEF TypeOK, NoBodyLeft
  <2>1. CASE Drop \/ Reap
    BY <2>1, UploadHandlersAssumption DEF Drop, Reap
  <2>2. ASSUME NEW r \in Request, Send(r) \/ Read(r) \/ ReadFails(r) \/ TooLarge(r)
        PROVE  NoBodyLeft'
    BY <2>2 DEF Send, Read, ReadFails, TooLarge
  <2>3. ASSUME NEW r \in Request, Save(r) \/ SaveLogged(r) \/ Answer(r) \/ AnswerFails(r)
        PROVE  NoBodyLeft'
    BY <2>3 DEF Save, SaveLogged, Answer, AnswerFails
  <2>4. ASSUME NEW r \in Request, NEW a \in Answers, Forward(r, a) PROVE NoBodyLeft'
    BY <2>4 DEF Forward
  <2>5. CASE UNCHANGED vars
    BY <2>5 DEF vars
  <2> QED BY <2>1, <2>2, <2>3, <2>4, <2>5 DEF Next, Handle
<1> QED BY Invariant, <1>1, <1>2, PTL DEF Spec
=============================================================================
