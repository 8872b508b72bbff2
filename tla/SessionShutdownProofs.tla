------------------------ MODULE SessionShutdownProofs ------------------------
(* Theorems about SessionShutdown, for any requests, uploads, keys, chunks *)
(* and file sizes, wherever the signal finds the reaper and the requests.  *)
EXTENDS SessionShutdown, ChunkSessionsProofs

-----------------------------------------------------------------------------
(* The inductive invariant *)

(* A session that was discarded, and is not yet out of the table, leaves   *)
(* no file at its path.                                                    *)
Emptied ==
  \A t \in Task : pc[t] = "discard" /\ job[t] = "ok" => temp[PathOf(sess[t])] = NoFile

(* A temp file belongs to a session in the table, or to a finalized one.   *)
InTable(p)     == \E k \in Key : sessions[k] # NoSession /\ PathOf(sessions[k]) = p
OfFinalized(p) == \E s \in Request : finalized[s] /\ PathOf(s) = p
Accounted == \A p \in Path : temp[p] # NoFile => InTable(p) \/ OfFinalized(p)

(* All that holds while the process serves, up to the call of discard_all. *)
Serves == {"serve", "accept", "drain"}

Files == Saved /\ Emptied /\ Accounted /\ Assembled

StillServing ==
  /\ Discipline /\ Files
  /\ closed = {} /\ closing = NoSession
  /\ stop # "serve" => pc[Reaper] = "dead"

(* What discard_all starts from: no task is in the middle of anything, and *)
(* no thread at work.                                                      *)
Quiet ==
  /\ \A r \in Request : pc[r] \in {"idle", "done"}
  /\ pc[Reaper] = "dead"
  /\ \A t \in Task : job[t] = "none"

(* How far discard_all has come. *)
Emptying ==
  /\ temp \in [Path -> Content \cup {NoFile}]
  /\ req \in [Request -> [upload : Upload, chunk : Chunk]]
  /\ sessions \in [Key -> Request \cup {NoSession}]
  /\ closed \subseteq Key
  /\ stop = "discard" => closing \in Request
  /\ stop # "discard" => closing = NoSession
  /\ \A k \in closed : sessions[k] \notin {NoSession, closing} => temp[PathOf(sessions[k])] = NoFile
  /\ Accounted

(* What the archive holds is filled with bytes of its key's uploads. *)
Whole == archive \in SUBSET Archived /\ ArchiveFilled

AllDiscarded ==
  /\ \A k \in Key : sessions[k] = NoSession
  /\ \A p \in Path : temp[p] # NoFile => OfFinalized(p)

Undisturbed ==
  /\ stop \in Serves => StillServing
  /\ stop \notin Serves => Quiet /\ Whole
  /\ stop \in {"manager", "visit", "discard"} => Emptying
  /\ stop = "over" => AllDiscarded
  /\ stop = "failed" => Accounted

ShutdownInv ==
  /\ stop \in Serves \cup {"manager", "visit", "discard", "over", "failed"}
  /\ stop = "serve" => ~disturbed
  /\ ~disturbed => Undisturbed

-----------------------------------------------------------------------------
(* While the process serves *)

(* A coroutine never reports a discard() as done: its thread does. *)
LEMMA CoroutinesDiscarded ==
  Discipline /\ Coroutine =>
    \A t \in Task : pc'[t] = "discard" /\ job'[t] = "ok" =>
      pc[t] = "discard" /\ job[t] = "ok" /\ sess'[t] = sess[t]
<1> DEFINE goal == \A t \in Task : pc'[t] = "discard" /\ job'[t] = "ok" =>
                     pc[t] = "discard" /\ job[t] = "ok" /\ sess'[t] = sess[t]
<1> SUFFICES ASSUME Discipline, Coroutine PROVE goal
    OBVIOUS
<1> USE NameAssumption DEF Discipline, TypeInv, TypeOK, Task, RequestPc, ReaperPc
<1>1. ASSUME NEW r \in Request, Arrive(r) \/ SkipLate(r) \/ StartFails(r) \/ FindSession(r) PROVE goal
    BY <1>1 DEF Arrive, SkipLate, StartFails, FindSession
<1>2. ASSUME NEW r \in Request, StartSession(r) \/ Restart(r) PROVE goal
    BY <1>2 DEF StartSession, Restart, Create
<1>3. ASSUME NEW r \in Request, LockOld(r) \/ RestartFails(r) PROVE goal
    BY <1>3 DEF LockOld, RestartFails
<1>4. ASSUME NEW r \in Request, LockSession(r) \/ DropFinalized(r) PROVE goal
    BY <1>4 DEF LockSession, DropFinalized
<1>5. ASSUME NEW r \in Request, WriteEnds(r) \/ StartFinalize(r) PROVE goal
    BY <1>5 DEF WriteEnds, StartFinalize
<1>6. ASSUME NEW r \in Request, FinalizeEnds(r) \/ Remove(r) PROVE goal
    BY <1>6 DEF FinalizeEnds, Remove
<1>7. ASSUME Wake \/ NothingStale PROVE goal
    BY <1>7 DEF Wake, NothingStale
<1>8. ASSUME Collect PROVE goal
    BY <1>8 DEF Collect, Visit
<1>9. ASSUME LockStale \/ ReaperDies PROVE goal
    BY <1>9 DEF LockStale, ReaperDies
<1>10. ASSUME Reaped PROVE goal
    BY <1>10 DEF Reaped, Visit
<1> HIDE DEF goal
<1> QED
    BY <1>1, <1>2, <1>3, <1>4, <1>5, <1>6, <1>7, <1>8, <1>9, <1>10
    DEF Coroutine, SaveChunk, Cleanup

(* What the worker threads do to the disk: only a writer leaves a file, at *)
(* its own session's path; a discard() that returns leaves none at its own.*)
LEMMA ThreadsOnDisk ==
  ASSUME Discipline, NEW t \in Task, Thread(t)
  PROVE  /\ UNCHANGED <<pc, req, sess, sessions>>
         /\ \A u \in Task : u # t => job'[u] = job[u]
         /\ \/ /\ t \in Request /\ job[t] = "write"
               /\ \A p \in Path : p # PathOf(sess[t]) => temp'[p] = temp[p]
            \/ \A p \in Path : temp'[p] \in {temp[p], NoFile}
         /\ pc[t] = "discard" /\ job'[t] = "ok" => temp'[PathOf(sess[t])] = NoFile
<1> USE DEF Discipline, TypeInv, TypeOK
<1>1. ASSUME t \in Request, ThreadWrite(t) \/ ThreadWriteFails(t)
      PROVE  /\ UNCHANGED <<pc, req, sess, sessions>>
             /\ \A u \in Task : u # t => job'[u] = job[u]
             /\ job[t] = "write" /\ \A p \in Path : p # PathOf(sess[t]) => temp'[p] = temp[p]
    BY <1>1 DEF ThreadWrite, ThreadWriteFails, JobEnds
<1>2. ASSUME t \in Request, ThreadSave(t) \/ ThreadDispose(t)
      PROVE  /\ UNCHANGED <<pc, req, sess, sessions>>
             /\ \A u \in Task : u # t => job'[u] = job[u]
             /\ job[t] \in {"save", "dispose"}
             /\ \A p \in Path : temp'[p] \in {temp[p], NoFile}
    BY <1>2 DEF ThreadSave, ThreadDispose, JobEnds
<1>3. CASE t \in Request /\ ~ThreadDiscard(t)
  <2>1. pc[t] # "discard"
    BY <1>1, <1>2, <1>3 DEF Thread, Phases
  <2> QED
    BY <1>1, <1>2, <1>3, <2>1 DEF Thread
<1>4. CASE ThreadDiscard(t)
  <2>1. /\ UNCHANGED <<pc, req, sess, sessions>>
        /\ \A u \in Task : u # t => job'[u] = job[u]
        /\ \/ temp' = [temp EXCEPT ![PathOf(sess[t])] = NoFile]
           \/ temp' = temp /\ job'[t] = "failed"
    BY <1>4 DEF ThreadDiscard, JobEnds
  <2>2. PathOf(sess[t]) \in Path
    BY <1>4, RunningInSession, HolderFinds, PathType DEF ThreadDiscard, Running
  <2> QED
    BY <2>1, <2>2
<1> QED
    BY <1>3, <1>4 DEF Thread

LEMMA EmptiedStep == Discipline /\ Emptied /\ [Next]_vars => Emptied'
<1> SUFFICES ASSUME Discipline, Emptied, [Next]_vars,
                    NEW t \in Task, pc'[t] = "discard", job'[t] = "ok"
             PROVE  temp'[PathOf(sess[t])'] = NoFile
    BY DEF Emptied
<1>1. ASSUME UNCHANGED <<req, temp>>, pc[t] = "discard", job[t] = "ok", sess'[t] = sess[t]
      PROVE  temp'[PathOf(sess[t])'] = NoFile
    BY <1>1 DEF Emptied, PathOf, KeyOfRequest
<1>2. CASE Coroutine
    BY <1>1, <1>2, CoroutinesRid, CoroutinesDiscarded
<1>3. CASE UNCHANGED vars
    BY <1>1, <1>3 DEF vars, taskVars, diskVars
<1>4. ASSUME NEW u \in Task, Thread(u) PROVE temp'[PathOf(sess[t])'] = NoFile
  <2>1. UNCHANGED <<pc, req, sess>>
    BY <1>4, ThreadsOnDisk
  <2>2. CASE t = u
    BY <1>4, <2>1, <2>2, ThreadsOnDisk DEF PathOf, KeyOfRequest
  <2>3. CASE t # u
    <3>1. pc[t] = "discard" /\ job[t] = "ok" /\ temp[PathOf(sess[t])] = NoFile
      BY <1>4, <2>1, <2>3, ThreadsOnDisk DEF Emptied
    <3>2. sess[t] \in Request /\ PathOf(sess[t]) \in Path
      BY <3>1, HolderFinds, PathType DEF InSession, Discipline, TypeInv, TypeOK
    <3>3. job[u] = "write" /\ u \in Request => PathOf(sess[t]) # PathOf(sess[u])
      BY <2>3, <3>1, <3>2, WriterApart DEF Rid
    <3>4. temp'[PathOf(sess[t])] = NoFile
      BY <1>4, <3>1, <3>2, <3>3, ThreadsOnDisk
    <3> QED
      BY <2>1, <3>4 DEF PathOf, KeyOfRequest
  <2> QED
    BY <2>2, <2>3
<1> QED
    BY <1>2, <1>3, <1>4 DEF Next, Coroutine

(* A file stays accounted for: an entry leaves the table only when its     *)
(* session was finalized, or discarded.                                    *)
LEMMA AccountedStep == Discipline /\ Emptied /\ Accounted /\ [Next]_vars => Accounted'
<1> SUFFICES ASSUME Discipline, Emptied, Accounted, [Next]_vars, NEW p \in Path, temp'[p] # NoFile
             PROVE  InTable(p)' \/ OfFinalized(p)'
    BY DEF Accounted
<1> USE DEF Discipline, TypeInv, TypeOK
<1>1. req' = req
    BY CoroutinesRid, ThreadsOnDisk DEF Next, Coroutine, vars, taskVars
<1>2. OfFinalized(p) => OfFinalized(p)'
    BY <1>1, FinalizedStays DEF OfFinalized, PathOf, KeyOfRequest
<1>3. ASSUME NEW k \in Key, sessions[k] # NoSession, PathOf(sessions[k]) = p,
             sessions'[k] = sessions[k]
      PROVE  InTable(p)'
    BY <1>1, <1>3 DEF InTable, PathOf, KeyOfRequest
<1>4. ASSUME sessions' = sessions, temp[p] # NoFile PROVE InTable(p)' \/ OfFinalized(p)'
    BY <1>2, <1>3, <1>4 DEF Accounted, InTable
<1>5. ASSUME temp' = temp, NEW s \in Request, finalized[s] \/ temp[PathOf(s)] = NoFile,
             \A k \in Key : sessions[k] \notin {NoSession, s} => sessions'[k] = sessions[k]
      PROVE  InTable(p)' \/ OfFinalized(p)'
  <2>1. CASE OfFinalized(p)
    BY <1>2, <2>1
  <2>2. CASE InTable(p)
    <3>1. PICK k \in Key : sessions[k] # NoSession /\ PathOf(sessions[k]) = p
      BY <2>2 DEF InTable
    <3>2. CASE sessions[k] = s
      BY <1>2, <1>5, <3>1, <3>2 DEF OfFinalized
    <3>3. CASE sessions[k] # s
      BY <1>3, <1>5, <3>1, <3>3
    <3> QED
      BY <3>2, <3>3
  <2> QED
    BY <1>5, <2>1, <2>2 DEF Accounted
<1>6. ASSUME Coroutine PROVE InTable(p)' \/ OfFinalized(p)'
  <2>1. temp' = temp
    BY <1>6, CoroutinesRid
  <2>2. CASE sessions' = sessions
    BY <1>4, <2>1, <2>2
  <2>3. ASSUME NEW r \in Request, StartSession(r) PROVE InTable(p)' \/ OfFinalized(p)'
    <3>1. \A k \in Key : sessions[k] # NoSession => sessions'[k] = sessions[k]
      BY <2>3 DEF StartSession, Create
    <3>2. CASE InTable(p)
      BY <1>3, <3>1, <3>2 DEF InTable
    <3> QED
      BY <1>2, <2>1, <3>2 DEF Accounted
  <2>4. ASSUME NEW r \in Request, Restart(r) PROVE InTable(p)' \/ OfFinalized(p)'
    <3>1. /\ sess[r] \in Request /\ Live(sess[r]) /\ KeyOfRequest(sess[r]) = KeyOfRequest(r)
          /\ temp[PathOf(sess[r])] = NoFile
          /\ sessions' = [sessions EXCEPT ![KeyOfRequest(r)] = r]
      BY <2>4 DEF Restart, Create, Phases, Table, RequestsFind, Emptied, Task
    <3>2. \A k \in Key : sessions[k] # sess[r] => sessions'[k] = sessions[k]
      BY <3>1 DEF Live
    <3> QED
      BY <1>5, <2>1, <3>1, <3>2
  <2>5. ASSUME NEW r \in Request, Remove(r) PROVE InTable(p)' \/ OfFinalized(p)'
    <3>1. sess[r] \in Request /\ finalized[sess[r]]
      BY <2>5 DEF Remove, Phases, Finalizers
    <3>2. \A k \in Key : sessions[k] # sess[r] => sessions'[k] = sessions[k]
      BY <2>5 DEF Remove
    <3> QED
      BY <1>5, <2>1, <3>1, <3>2
  <2>6. CASE Reaped
    <3>1. /\ sess[Reaper] \in Request /\ Live(sess[Reaper])
          /\ temp[PathOf(sess[Reaper])] = NoFile
          /\ sessions' = [sessions EXCEPT ![KeyOfRequest(sess[Reaper])] = NoSession]
      BY <2>6 DEF Reaped, Table, ReaperFinds, Emptied, Task
    <3>2. \A k \in Key : sessions[k] # sess[Reaper] => sessions'[k] = sessions[k]
      BY <3>1 DEF Live
    <3> QED
      BY <1>5, <2>1, <3>1, <3>2
  <2> QED
    BY <2>2, <2>3, <2>4, <2>5, <2>6, OnlyThreeChangeTable
<1>7. ASSUME NEW t \in Task, Thread(t) PROVE InTable(p)' \/ OfFinalized(p)'
  <2>1. sessions' = sessions
    BY <1>7, ThreadsOnDisk
  <2>2. CASE temp[p] # NoFile
    BY <1>4, <2>1, <2>2
  <2>3. CASE temp[p] = NoFile
    <3>1. t \in Request /\ job[t] = "write" /\ p = PathOf(sess[t])
      BY <1>7, <2>3, ThreadsOnDisk
    <3>2. /\ sess[t] \in Request /\ sess[t] # NoSession
          /\ KeyOfRequest(sess[t]) \in Key /\ sessions[KeyOfRequest(sess[t])] = sess[t]
      BY <3>1, WriterFinds, KeyType, NameAssumption DEF Live
    <3> QED
      BY <1>3, <2>1, <3>1, <3>2
  <2> QED
    BY <2>2, <2>3
<1>8. CASE UNCHANGED vars
    BY <1>4, <1>8 DEF vars, diskVars
<1> QED
    BY <1>6, <1>7, <1>8 DEF Next, Coroutine

LEMMA ServingStep ==
  Discipline /\ Files /\ [Next]_vars => Discipline' /\ Files'
  BY DisciplineStep, SavedStep, AssembledStep, EmptiedStep, AccountedStep DEF Files

LEMMA DeadStaysOut ==
  ASSUME pc \in [Task -> RequestPc \cup ReaperPc], pc[Reaper] = "dead", Coroutine
  PROVE  pc'[Reaper] = "dead"
<1> USE NameAssumption DEF Task
<1>1. ASSUME NEW r \in Request, Arrive(r) \/ SkipLate(r) \/ StartFails(r) \/ StartSession(r) \/ FindSession(r)
      PROVE  pc'[Reaper] = "dead"
    BY <1>1 DEF Arrive, SkipLate, StartFails, StartSession, Create, FindSession
<1>2. ASSUME NEW r \in Request, LockOld(r) \/ Restart(r) \/ RestartFails(r)
      PROVE  pc'[Reaper] = "dead"
    BY <1>2 DEF LockOld, Restart, Create, RestartFails
<1>3. ASSUME NEW r \in Request, LockSession(r) \/ DropFinalized(r) \/ WriteEnds(r)
      PROVE  pc'[Reaper] = "dead"
    BY <1>3 DEF LockSession, DropFinalized, WriteEnds
<1>4. ASSUME NEW r \in Request, StartFinalize(r) \/ FinalizeEnds(r) \/ Remove(r)
      PROVE  pc'[Reaper] = "dead"
    BY <1>4 DEF StartFinalize, FinalizeEnds, Remove
<1>5. ~Cleanup
    BY DEF Cleanup, Wake, NothingStale, Collect, LockStale, Reaped, ReaperDies
<1> QED
    BY <1>1, <1>2, <1>3, <1>4, <1>5 DEF Coroutine, SaveChunk

LEMMA DeadStaysDead ==
  ASSUME Discipline, pc[Reaper] = "dead", [Next]_vars PROVE pc'[Reaper] = "dead"
<1>1. pc \in [Task -> RequestPc \cup ReaperPc]
    BY DEF Discipline, TypeInv, TypeOK
<1> QED
    BY <1>1, DeadStaysOut, ThreadsOnDisk DEF Next, Coroutine, vars, taskVars

-----------------------------------------------------------------------------
(* Tasks are cancelled *)

(* Tasks T end at once, wherever they are but at work on a session: the    *)
(* locks that they held are released, and nothing else happens.            *)
Ended(T) ==
  /\ \A t \in T : ~InSession(t)
  /\ pc' = [t \in Task |-> IF t \notin T THEN pc[t] ELSE IF t = Reaper THEN "dead" ELSE "done"]
  /\ Release(T)
  /\ todo' \in {todo, {}} /\ cutoff' \in {cutoff, 0}
  /\ UNCHANGED <<req, sess, job, sessions, sessionVars, diskVars>>

LEMMA EndedStep ==
  ASSUME NEW T \in SUBSET Task, Discipline, Files, Ended(T)
  PROVE  Discipline' /\ Files'
<1> USE NameAssumption DEF Task, Ended
<1>1. /\ \A t \in Task : (InSession(t)' <=> InSession(t)) /\ (InSession(t) => pc'[t] = pc[t])
      /\ \A t \in Task : InManager(t)' <=> InManager(t) /\ t \notin T
    BY DEF InSession, InManager
<1>2. TypeInv'
  <2>1. \A t \in T : job[t] = "none"
    BY DEF Discipline, TypeInv, TypeOK, Phases, InSession, RequestPc, ReaperPc
  <2>2. Phases'
    BY <2>1 DEF Discipline, TypeInv, Phases
  <2>3. mlock' \in Task \cup {Nobody} /\ slock' \in [Request -> Task \cup {Nobody}]
    BY DEF Release, Discipline, TypeInv, TypeOK
  <2>4. /\ pc' \in [Task -> RequestPc \cup ReaperPc]
        /\ \A r \in Request : pc'[r] \in RequestPc
        /\ pc'[Reaper] \in ReaperPc
    BY DEF Discipline, TypeInv, TypeOK, RequestPc, ReaperPc
  <2> QED
    BY <2>2, <2>3, <2>4 DEF Discipline, TypeInv, TypeOK, sessionVars, diskVars
<1>3. Locks'
  <2>1. \A t \in Task : (mlock' = t) <=> InManager(t)'
    BY <1>1 DEF Discipline, Locks, Release
  <2>2. ASSUME NEW t \in Task, NEW s \in Request
        PROVE  (slock'[s] = t) <=> InSession(t)' /\ sess'[t] = s
    <3>1. slock[s] = t <=> InSession(t) /\ sess[t] = s
      BY DEF Discipline, Locks
    <3>2. slock'[s] = IF slock[s] \in T THEN Nobody ELSE slock[s]
      BY DEF Release
    <3> QED
      BY <1>1, <3>1, <3>2
  <2> QED
    BY <2>1, <2>2 DEF Locks
<1>4. Table'
  <2>1. KeyedByCreator'
    BY DEF Discipline, Table, KeyedByCreator, KeyOfRequest
  <2>2. RequestsFind'
    BY DEF Discipline, Table, RequestsFind, KeyOfRequest, Live
  <2>3. ReaperFinds'
    BY DEF Discipline, Table, ReaperFinds, KeyOfRequest, Live
  <2> QED
    BY <2>1, <2>2, <2>3 DEF Table
<1>5. Newborn' /\ Finalizers'
    BY DEF Discipline, Newborn, Finalizers, sessionVars
<1>6. Saved'
    BY DEF Files, Saved, sessionVars, diskVars, Complete, Archiving, ArchivedOnce
<1>7. Assembled'
  <2>1. \A s \in Request : Discarded(s) => Discarded(s)'
    BY <1>1 DEF Discarded, InSession
  <2>2. OpenHas'
    BY DEF Files, Assembled, OpenHas, Live, KeyOfRequest, FileOpen, FileHas, PathOf, sessionVars, diskVars
  <2>3. UnopenedEmpty'
    BY <2>1 DEF Files, Assembled, UnopenedEmpty, Live, KeyOfRequest, sessionVars
  <2>4. WrittenOpen' /\ ArchiveFilled'
    BY DEF Files, Assembled, WrittenOpen, FileOpen, ArchiveFilled, sessionVars, diskVars
  <2> QED
    BY <2>2, <2>3, <2>4 DEF Assembled
<1>8. Emptied' /\ Accounted'
    BY DEF Files, Emptied, Accounted, InTable, OfFinalized, PathOf, KeyOfRequest, sessionVars, diskVars
<1> QED
    BY <1>2, <1>3, <1>4, <1>5, <1>6, <1>7, <1>8 DEF Discipline, Files

(* The signal, unless a thread is discarding a session for the reaper. *)
LEMMA SignalStep ==
  ASSUME ShutdownInv, Signal, ~disturbed' PROVE ShutdownInv'
<1>1. /\ stop = "serve" /\ stop' = "accept" /\ ~disturbed /\ StillServing
      /\ UNCHANGED <<closing, closed>>
    BY DEF ShutdownInv, Undisturbed, Serves, Signal
<1>2. pc[Reaper] # "discard" /\ pc[Reaper] \in ReaperPc
    BY <1>1 DEF Signal, StillServing, Discipline, TypeInv, TypeOK
<1>3. Ended({Reaper})
    BY <1>1, <1>2
    DEF Signal, Ended, InSession, ReaperPc, StillServing, Discipline, TypeInv, TypeOK, sessionVars
<1>4. Discipline' /\ Files'
    BY <1>1, <1>3, EndedStep DEF StillServing, Task
<1>5. pc'[Reaper] = "dead"
    BY <1>3 DEF Ended, Task
<1> QED
    BY <1>1, <1>4, <1>5 DEF ShutdownInv, Undisturbed, Serves, StillServing

(* The requests are given up, unless a thread is at work for one of them. *)
LEMMA CancelStep ==
  ASSUME ShutdownInv, CancelRequests, ~disturbed' PROVE ShutdownInv'
<1>1. /\ stop = "drain" /\ stop' = stop /\ ~disturbed /\ StillServing
      /\ UNCHANGED <<closing, closed>>
    BY DEF ShutdownInv, Undisturbed, Serves, CancelRequests
<1>2. \A r \in Active : pc[r] \notin {"discard", "write", "finalize"}
    BY DEF CancelRequests
<1>3. Ended(Active)
  <2>1. {x \in Active : pc[x] = "discard"} = {}
    BY <1>2
  <2>2. leftover' = leftover
    BY <2>1 DEF CancelRequests
  <2> QED
    BY <1>2, <2>2, NameAssumption DEF CancelRequests, Active, Ended, InSession, sessionVars
<1>4. Discipline' /\ Files'
    BY <1>1, <1>3, EndedStep DEF StillServing, Task, Active
<1>5. pc'[Reaper] = "dead"
    BY <1>1, NameAssumption DEF CancelRequests, Active, StillServing, Task
<1> QED
    BY <1>1, <1>4, <1>5 DEF ShutdownInv, Undisturbed, Serves, StillServing

-----------------------------------------------------------------------------
(* discard_all *)

LEMMA DrainedStep ==
  ASSUME ShutdownInv, Drained, ~disturbed' PROVE ShutdownInv'
<1>1. /\ stop = "drain" /\ stop' = "manager" /\ ~disturbed /\ StillServing
      /\ Active = {} /\ UNCHANGED <<vars, closing, closed>>
    BY DEF ShutdownInv, Undisturbed, Serves, Drained
<1>2. Quiet
    BY <1>1 DEF StillServing, Discipline, TypeInv, TypeOK, Phases, Quiet, Active, Task
<1>3. Quiet'
    BY <1>1, <1>2 DEF Quiet, vars, taskVars
<1>4. Emptying'
    BY <1>1
    DEF StillServing, Discipline, TypeInv, TypeOK, Files, Emptying, Accounted, InTable, OfFinalized,
        PathOf, KeyOfRequest, vars, taskVars, sessionVars, diskVars
<1>5. Whole'
    BY <1>1
    DEF StillServing, Files, Assembled, ArchiveFilled, Whole, Discipline, TypeInv, TypeOK, vars,
        sessionVars, diskVars
<1> QED
    BY <1>1, <1>3, <1>4, <1>5 DEF ShutdownInv, Undisturbed, Serves

(* Where no task is at work, no coroutine moves. *)
LEMMA AllStuck ==
  ASSUME \A r \in Request : pc[r] \in {"idle", "done"}, pc[Reaper] = "dead"
  PROVE  (\A r \in Request : ~SaveChunk(r)) /\ ~Cleanup
<1>1. ASSUME NEW r \in Request, SaveChunk(r) PROVE FALSE
    BY <1>1
    DEF SaveChunk, SkipLate, StartFails, StartSession, FindSession, LockOld, Restart, RestartFails,
        LockSession, DropFinalized, WriteEnds, StartFinalize, FinalizeEnds, Remove
<1>2. ~Cleanup
    BY DEF Cleanup, Wake, NothingStale, Collect, LockStale, Reaped, ReaperDies
<1> QED
    BY <1>1, <1>2

(* Nothing but discard_all moves when all is quiet. *)
LEMMA QuietStuck ==
  ASSUME Quiet, stop \notin {"serve", "accept"}, Serving PROVE FALSE
<1>1. ASSUME NEW t \in Task, Thread(t) PROVE FALSE
    BY <1>1
    DEF Quiet, Thread, ThreadWrite, ThreadWriteFails, ThreadSave, ThreadDispose, ThreadDiscard
<1> QED
    BY <1>1, AllStuck DEF Serving, Quiet

LEMMA ServingKeeps ==
  ASSUME ShutdownInv, Serving, ~disturbed' PROVE ShutdownInv'
<1>1. ~disturbed /\ UNCHANGED stopVars /\ Undisturbed
    BY DEF Serving, stopVars, ShutdownInv
<1>2. stop \in Serves /\ StillServing
    BY <1>1, QuietStuck DEF Undisturbed, Serves
<1>3. Next
    BY DEF Serving, Next
<1>4. Discipline' /\ Files'
    BY <1>2, <1>3, ServingStep DEF StillServing
<1>5. stop # "serve" => pc'[Reaper] = "dead"
    BY <1>2, <1>3, DeadStaysDead DEF StillServing
<1> QED
    BY <1>1, <1>2, <1>4, <1>5 DEF ShutdownInv, Undisturbed, StillServing, Serves, stopVars

(* From one session to the next: what was discarded leaves no file. *)
LEMMA ClosingStep ==
  ASSUME ShutdownInv, ~disturbed',
         LockManager \/ LockNext \/ DiscardNext \/ DiscardFails \/ Cleared
  PROVE  ShutdownInv'
<1>1. /\ stop \in {"manager", "visit", "discard"} /\ ~disturbed
      /\ Quiet /\ Whole /\ Emptying
      /\ UNCHANGED <<taskVars, archive, finalized, disturbed>> /\ leftover \subseteq leftover'
    BY DEF LockManager, LockNext, DiscardNext, DiscardFails, Cleared, ShutdownInv, Undisturbed,
           Serves, diskVars, sessionVars
<1>2. Quiet' /\ Whole'
    BY <1>1 DEF Quiet, Whole, ArchiveFilled, taskVars
<1>3. \A s : PathOf(s)' = PathOf(s) /\ req' = req
    BY <1>1 DEF PathOf, KeyOfRequest, taskVars
<1>4. \A p : OfFinalized(p)' = OfFinalized(p)
    BY <1>1, <1>3 DEF OfFinalized
<1>5. ASSUME UNCHANGED <<sessions, temp>> PROVE Accounted'
    BY <1>1, <1>3, <1>4, <1>5 DEF Emptying, Accounted, InTable
<1>6. CASE LockManager
  <2>1. UNCHANGED <<sessions, temp, closing, closed>> /\ stop = "manager" /\ stop' = "visit"
    BY <1>6 DEF LockManager, diskVars
  <2>2. Emptying'
    BY <1>1, <1>3, <1>5, <2>1 DEF Emptying
  <2> QED
    BY <1>2, <2>1, <2>2 DEF ShutdownInv, Undisturbed, Serves
<1>7. CASE LockNext
  <2>1. PICK k \in Left : closing' = sessions[k] /\ closed' = closed \cup {k}
    BY <1>7 DEF LockNext
  <2>2. UNCHANGED <<sessions, temp>> /\ stop = "visit" /\ stop' = "discard"
    BY <1>7 DEF LockNext, diskVars
  <2>3. k \in Key /\ sessions[k] \in Request
    BY <1>1, <2>1 DEF Left, Emptying
  <2>4. \A j \in closed' : sessions'[j] \notin {NoSession, closing'} =>
          (temp[PathOf(sessions[j])] = NoFile)'
    BY <1>1, <1>3, <2>1, <2>2 DEF Emptying
  <2>5. Emptying'
    BY <1>1, <1>3, <1>5, <2>1, <2>2, <2>3, <2>4 DEF Emptying
  <2> QED
    BY <1>2, <2>2, <2>5 DEF ShutdownInv, Undisturbed, Serves
<1>8. CASE DiscardNext
  <2>1. /\ UNCHANGED <<sessions, closed>> /\ closing' = NoSession
        /\ stop = "discard" /\ stop' = "visit"
        /\ temp' = [temp EXCEPT ![PathOf(closing)] = NoFile]
    BY <1>8 DEF DiscardNext
  <2>2. /\ closing \in Request /\ PathOf(closing) \in Path
        /\ temp' \in [Path -> Content \cup {NoFile}]
        /\ temp'[PathOf(closing)] = NoFile
        /\ \A p \in Path : temp'[p] \in {temp[p], NoFile}
    BY <1>1, <2>1, PathType DEF Emptying
  <2>3. ASSUME NEW j \in closed, sessions[j] # NoSession PROVE temp'[PathOf(sessions[j])] = NoFile
    <3>1. PathOf(sessions[j]) \in Path
      BY <1>1, <2>3, PathType DEF Emptying
    <3> QED
      BY <1>1, <2>2, <2>3, <3>1 DEF Emptying
  <2>4. Accounted'
    BY <1>1, <1>3, <1>4, <2>1, <2>2 DEF Emptying, Accounted, InTable
  <2>5. Emptying'
    BY <1>1, <1>3, <2>1, <2>2, <2>3, <2>4 DEF Emptying
  <2> QED
    BY <1>2, <2>1, <2>5 DEF ShutdownInv, Undisturbed, Serves
<1>9. CASE DiscardFails
    BY <1>2, <1>5, <1>9 DEF DiscardFails, diskVars, ShutdownInv, Undisturbed, Serves
<1>10. CASE Cleared
  <2>1. /\ stop = "visit" /\ stop' = "over" /\ Left = {} /\ temp' = temp
        /\ sessions' = [k \in Key |-> NoSession]
    BY <1>10 DEF Cleared, diskVars
  <2>2. ASSUME NEW p \in Path, temp[p] # NoFile PROVE OfFinalized(p)
    <3>1. ~InTable(p)
      BY <1>1, <2>1, <2>2 DEF InTable, Left, Emptying
    <3> QED
      BY <1>1, <2>2, <3>1 DEF Emptying, Accounted
  <2>3. AllDiscarded'
    BY <1>4, <2>1, <2>2 DEF AllDiscarded
  <2> QED
    BY <1>2, <2>1, <2>3 DEF ShutdownInv, Undisturbed, Serves
<1> QED
    BY <1>6, <1>7, <1>8, <1>9, <1>10

-----------------------------------------------------------------------------
LEMMA ShutdownInit == InitShutdown => ShutdownInv
<1> SUFFICES ASSUME InitShutdown PROVE ShutdownInv
    OBVIOUS
<1>1. Discipline
    BY DisciplineInit DEF InitShutdown
<1>2. Saved /\ Assembled
    BY DEF InitShutdown, Init, Saved, ArchivedOnce, Assembled, OpenHas, UnopenedEmpty, WrittenOpen,
           FileOpen, ArchiveFilled, Task
<1>3. Emptied /\ Accounted
    BY NameAssumption DEF InitShutdown, Init, Emptied, Accounted, Task
<1> QED
    BY <1>1, <1>2, <1>3
    DEF InitShutdown, ShutdownInv, Undisturbed, StillServing, Files, Serves

LEMMA StutterKeeps ==
  ASSUME ShutdownInv, UNCHANGED shutdownVars PROVE ShutdownInv'
<1>1. UNCHANGED <<stop, closing, closed, disturbed, pc, req, sess, job, sessions, finalized, leftover,
                  temp, archive>>
    BY DEF shutdownVars, stopVars, vars, taskVars, sessionVars, diskVars
<1>2. Discipline /\ Files => Discipline' /\ Files'
  <2>1. ASSUME Discipline, Files PROVE Ended({})
    BY <2>1
    DEF Ended, Release, shutdownVars, vars, taskVars, lockVars, sessionVars, diskVars,
        Discipline, TypeInv, TypeOK
  <2> QED
    BY <2>1, EndedStep
<1>3. Quiet => Quiet'
    BY <1>1 DEF Quiet
<1>4. Emptying => Emptying'
    BY <1>1 DEF Emptying, Accounted, InTable, OfFinalized, PathOf, KeyOfRequest
<1>5. AllDiscarded => AllDiscarded'
    BY <1>1 DEF AllDiscarded, OfFinalized, PathOf, KeyOfRequest
<1>6. Whole => Whole'
    BY <1>1 DEF Whole, ArchiveFilled
<1>7. Accounted => Accounted'
    BY <1>1 DEF Accounted, InTable, OfFinalized, PathOf, KeyOfRequest
<1> QED
    BY <1>1, <1>2, <1>3, <1>4, <1>5, <1>6, <1>7 DEF ShutdownInv, Undisturbed, StillServing

LEMMA ShutdownStep == ShutdownInv /\ [NextShutdown]_shutdownVars => ShutdownInv'
<1> SUFFICES ASSUME ShutdownInv, [NextShutdown]_shutdownVars PROVE ShutdownInv'
    OBVIOUS
<1>1. CASE UNCHANGED shutdownVars
    BY <1>1, StutterKeeps
<1>2. CASE NextShutdown /\ ~disturbed'
  <2>1. ASSUME StopAccepting PROVE ShutdownInv'
    <3>1. Discipline /\ Files => Discipline' /\ Files'
      BY <2>1, ServingStep DEF StopAccepting
    <3> QED
      BY <1>2, <2>1, <3>1
      DEF StopAccepting, ShutdownInv, Undisturbed, StillServing, Serves, vars, taskVars
  <2> QED
    BY <1>2, <2>1, ServingKeeps, SignalStep, CancelStep, DrainedStep, ClosingStep
    DEF NextShutdown, Stopping
(* Once a task was cancelled whose thread goes on, nothing is claimed. *)
<1>3. CASE NextShutdown /\ disturbed'
    BY <1>3
    DEF NextShutdown, Stopping, Serving, Signal, StopAccepting, CancelRequests, Drained, LockManager,
        LockNext, DiscardNext, DiscardFails, Cleared, stopVars, ShutdownInv, Serves
<1> QED
    BY <1>1, <1>2, <1>3

(* While the process serves, whatever is lost, raised or restarted, a temp *)
(* file is one that the reaper and discard_all will find by its session,   *)
(* or one that a finalize() is at, or raised at: nothing else is left.     *)
THEOREM FilesAccounted == Spec => []Accounted
<1>1. Init => Emptied /\ Accounted
    BY NameAssumption DEF Init, Emptied, Accounted, Task
<1>2. Discipline /\ Emptied /\ Accounted /\ [Next]_vars => Emptied' /\ Accounted'
    BY EmptiedStep, AccountedStep
<1> QED
    BY <1>1, <1>2, Disciplined, PTL DEF Spec

(* What the shutdown leaves: discard_all finds every session, and with it  *)
(* every temp file but those whose finalize() raised, at whatever step the *)
(* signal found requests and reaper, unless a task was cancelled whose     *)
(* thread goes on.  Until then, and where a discard() raises, each file    *)
(* has its session, and what is archived has no hole, but of a session     *)
(* that had been discarded and that an exception left in the table.        *)
THEOREM ShutdownEmpties ==
  SpecShutdown => [](~disturbed => ArchiveFilled /\ Accounted /\ (stop = "over" => AllDiscarded))
<1>1. AllDiscarded => Accounted
    BY DEF AllDiscarded, Accounted
<1>2. ShutdownInv => (~disturbed => ArchiveFilled /\ Accounted /\ (stop = "over" => AllDiscarded))
    BY <1>1 DEF ShutdownInv, Undisturbed, StillServing, Files, Assembled, Whole, Emptying, Serves
<1> QED
    BY <1>2, ShutdownInit, ShutdownStep, PTL DEF SpecShutdown

(* The same, and nothing half gets into the archive while tasks are        *)
(* cancelled, with that exception, as long as no two uploads share a key.  *)
THEOREM ShutdownDiscards == ASSUME DistinctKeys PROVE SpecShutdown => []DiscardsAll
<1>1. ShutdownInv /\ ~disturbed => Whole
    BY DEF ShutdownInv, Undisturbed, StillServing, Files, Assembled, Whole, Serves,
           Discipline, TypeInv, TypeOK
<1>2. Whole => ArchiveIntact
    BY FilledIntact DEF Whole
<1>3. ShutdownInv => DiscardsAll
    BY <1>1, <1>2 DEF ShutdownInv, Undisturbed, AllDiscarded, OfFinalized, Serves, DiscardsAll
<1> QED
    BY <1>3, ShutdownInit, ShutdownStep, PTL DEF SpecShutdown

-----------------------------------------------------------------------------
(* The locks, whatever is cancelled *)

(* Who may own a lock: discard_all only once the process serves no longer. *)
Owner == Task \cup {Nobody} \cup IF stop \in Serves THEN {} ELSE {Closer}

(* What is left of Discipline when tasks are cancelled whose threads go    *)
(* on: nothing that a task which was cancelled left behind is counted.     *)
LockTypes ==
  /\ pc \in [Task -> RequestPc \cup ReaperPc]
  /\ \A r \in Request : pc[r] \in RequestPc
  /\ pc[Reaper] \in ReaperPc
  /\ req \in [Request -> [upload : Upload, chunk : Chunk]]
  /\ sess \in [Task -> Request \cup {NoSession}]
  /\ job \in [Task -> JobState]
  /\ sessions \in [Key -> Request \cup {NoSession}]
  /\ mlock \in Owner
  /\ slock \in [Request -> Owner]
  /\ births \in Nat /\ born \in [Request -> Nat]
  /\ todo \in SUBSET Key

(* What a task that is suspended knows: its job fits the await, and its   *)
(* session is there. The reaper's sessions stay in the table while it      *)
(* holds the manager's lock.                                               *)
Working ==
  /\ \A r \in Request :
       /\ pc[r] = "discard" => job[r] \in {"discard", "ok", "failed"}
       /\ pc[r] = "write" => job[r] \in {"write", "ok", "failed"}
       /\ pc[r] = "finalize" => job[r] \in {"save", "dispose", "ok", "failed"}
       /\ pc[r] \in {"old", "discard", "session", "write", "finalize", "remove"}
            => sess[r] \in Request
  /\ pc[Reaper] = "discard" => job[Reaper] \in {"discard", "ok", "failed"}
  /\ pc[Reaper] \in {"session", "discard"} =>
       /\ sess[Reaper] \in Request /\ KeyOfRequest(sess[Reaper]) \notin todo
       /\ \A k \in todo : sessions[k] # NoSession

(* A request that created no session yet has left no trace of one. *)
Unborn ==
  /\ \A r \in Request :
       pc[r] \in {"idle", "manager", "old", "discard", "session"} => born[r] = 0
  /\ \A s \in Request : born[s] = 0 =>
       /\ \A t \in Task : sess[t] # s
       /\ \A k \in Key : sessions[k] # s

(* The locks that discard_all owns, by its place in the code. *)
Closers ==
  /\ mlock = Closer => stop \in {"visit", "discard"}
  /\ \A s \in Request : slock[s] = Closer => stop = "discard" /\ closing = s

(* Who can be at work in each stage of the shutdown. *)
Stages ==
  /\ stop \in Serves \cup {"manager", "visit", "discard", "over", "failed"}
  /\ stop # "serve" => pc[Reaper] = "dead"
  /\ stop \notin Serves => \A r \in Request : pc[r] \in {"idle", "done"}
  /\ stop = "discard" => closing \in Request

Serviceable == LockTypes /\ Working /\ Unborn /\ KeyedByCreator /\ Locks
LockInv == Serviceable /\ Closers /\ Stages

(* What a request asks for never changes. *)
LEMMA RequestsKept == [Next]_vars => req' = req
<1> SUFFICES ASSUME [Next]_vars PROVE req' = req
    OBVIOUS
<1>1. ASSUME NEW r \in Request, Arrive(r) \/ SaveChunk(r) PROVE req' = req
    BY <1>1
    DEF Arrive, SaveChunk, SkipLate, StartFails, StartSession, Create, FindSession, LockOld, Restart,
        RestartFails, LockSession, DropFinalized, WriteEnds, StartFinalize, FinalizeEnds, Remove
<1>2. ASSUME Cleanup PROVE req' = req
    BY <1>2 DEF Cleanup, Wake, NothingStale, Collect, LockStale, Reaped, ReaperDies
<1>3. ASSUME NEW t \in Task, Thread(t) PROVE req' = req
    BY <1>3 DEF Thread, ThreadWrite, ThreadWriteFails, ThreadSave, ThreadDispose, ThreadDiscard
<1> QED
    BY <1>1, <1>2, <1>3 DEF Next, vars, taskVars

(* An entry of the table stays filed under its creator's key. *)
LEMMA KeyedKept == Serviceable /\ [Next]_vars => KeyedByCreator'
<1> SUFFICES ASSUME Serviceable, [Next]_vars PROVE KeyedByCreator'
    OBVIOUS
<1> USE DEF Serviceable, LockTypes
<1>0. req' = req /\ \A r \in Request : KeyOfRequest(r) \in Key
    BY RequestsKept, KeyType
<1>1. ASSUME sessions' = sessions PROVE KeyedByCreator'
    BY <1>0, <1>1 DEF KeyedByCreator, KeyOfRequest
<1>2. ASSUME NEW k \in Key, NEW s, sessions' = [sessions EXCEPT ![k] = s],
             s = NoSession \/ KeyOfRequest(s) = k
      PROVE  KeyedByCreator'
    BY <1>0, <1>2, EntryReplaced
<1>3. ASSUME NEW r \in Request, StartSession(r) \/ Restart(r) PROVE KeyedByCreator'
  <2>1. sessions' = [sessions EXCEPT ![KeyOfRequest(r)] = r]
    BY <1>3 DEF StartSession, Restart, Create
  <2> QED
    BY <1>0, <1>2, <2>1
<1>4. ASSUME NEW r \in Request, Remove(r) PROVE KeyedByCreator'
  <2>1. sessions' = [sessions EXCEPT ![KeyOfRequest(r)] = NoSession] \/ sessions' = sessions
    BY <1>0, <1>4 DEF Remove
  <2> QED
    BY <1>0, <1>1, <1>2, <2>1
<1>5. ASSUME Reaped PROVE KeyedByCreator'
  <2>1. sessions' = [sessions EXCEPT ![KeyOfRequest(sess[Reaper])] = NoSession]
    BY <1>5 DEF Reaped
  <2>2. sess[Reaper] \in Request
    BY <1>5 DEF Reaped, Working
  <2> QED
    BY <1>0, <1>2, <2>1, <2>2
<1> QED
    BY <1>1, <1>3, <1>4, <1>5, OnlyThreeChangeTable

(* Each step of the coroutines keeps the parts of Serviceable. *)
LEMMA LockTypesKept ==
  ASSUME Serviceable, Coroutine, stop' = stop
  PROVE  LockTypes'
<1> USE NameAssumption, CloserAssumption
    DEF Serviceable, Task, LockTypes, taskVars, lockVars, sessionVars, diskVars,
        RequestPc, ReaperPc, JobState
<1>0. \A r \in Request : KeyOfRequest(r) \in Key
    BY KeyType DEF LockTypes
<1>a. Owner' = Owner /\ Task \subseteq Owner /\ Nobody \in Owner
    BY DEF Owner
<1>1. ASSUME NEW r \in Request, Arrive(r) PROVE LockTypes'
    BY <1>0, <1>a, <1>1 DEF Arrive
<1>2. ASSUME NEW r \in Request, SkipLate(r) \/ StartFails(r) PROVE LockTypes'
    BY <1>0, <1>a, <1>2 DEF SkipLate, StartFails
<1>3. ASSUME NEW r \in Request, StartSession(r) PROVE LockTypes'
    BY <1>0, <1>a, <1>3 DEF StartSession, Create
<1>4. ASSUME NEW r \in Request, FindSession(r) PROVE LockTypes'
    BY <1>0, <1>a, <1>4 DEF FindSession
<1>5. ASSUME NEW r \in Request, LockOld(r) PROVE LockTypes'
    BY <1>0, <1>a, <1>5 DEF LockOld
<1>6. ASSUME NEW r \in Request, Restart(r) PROVE LockTypes'
    BY <1>0, <1>a, <1>6 DEF Restart, Create
<1>7. ASSUME NEW r \in Request, RestartFails(r) PROVE LockTypes'
    BY <1>0, <1>a, <1>7 DEF RestartFails
<1>8. ASSUME NEW r \in Request, LockSession(r) PROVE LockTypes'
    BY <1>0, <1>a, <1>8 DEF LockSession
<1>9. ASSUME NEW r \in Request, DropFinalized(r) PROVE LockTypes'
    BY <1>0, <1>a, <1>9 DEF DropFinalized
<1>10. ASSUME NEW r \in Request, WriteEnds(r) PROVE LockTypes'
    BY <1>0, <1>a, <1>10 DEF WriteEnds
<1>11. ASSUME NEW r \in Request, StartFinalize(r) PROVE LockTypes'
    BY <1>0, <1>a, <1>11 DEF StartFinalize
<1>12. ASSUME NEW r \in Request, FinalizeEnds(r) PROVE LockTypes'
    BY <1>0, <1>a, <1>12 DEF FinalizeEnds
<1>13. ASSUME NEW r \in Request, Remove(r) PROVE LockTypes'
    BY <1>0, <1>a, <1>13 DEF Remove
<1>14. ASSUME Wake PROVE LockTypes'
    BY <1>0, <1>a, <1>14 DEF Wake
<1>15. ASSUME NothingStale PROVE LockTypes'
    BY <1>0, <1>a, <1>15 DEF NothingStale, Stale
<1>16. ASSUME Collect PROVE LockTypes'
    BY <1>0, <1>a, <1>16 DEF Collect, Visit, Stale
<1>17. ASSUME LockStale PROVE LockTypes'
    BY <1>0, <1>a, <1>17 DEF LockStale
<1>18. ASSUME Reaped PROVE LockTypes'
    BY <1>0, <1>a, <1>18 DEF Reaped, Visit
<1>19. ASSUME ReaperDies PROVE LockTypes'
    BY <1>0, <1>a, <1>19 DEF ReaperDies
<1> HIDE DEF LockTypes
<1> QED
    BY <1>1, <1>2, <1>3, <1>4, <1>5, <1>6, <1>7, <1>8, <1>9, <1>10, <1>11, <1>12,
       <1>13, <1>14, <1>15, <1>16, <1>17, <1>18, <1>19
    DEF Coroutine, SaveChunk, Cleanup

LEMMA WorkingKept ==
  ASSUME Serviceable, Coroutine
  PROVE  Working'
<1> USE NameAssumption, CloserAssumption
    DEF Serviceable, Task, Working, taskVars, lockVars, sessionVars, diskVars,
        LockTypes, RequestPc, ReaperPc, Locks, InManager, KeyedByCreator,
       KeyOfRequest
<1>0. \A r \in Request : KeyOfRequest(r) \in Key
    BY KeyType DEF LockTypes
<1>1. ASSUME NEW r \in Request, Arrive(r) PROVE Working'
    BY <1>0, <1>1 DEF Arrive
<1>2. ASSUME NEW r \in Request, SkipLate(r) \/ StartFails(r) PROVE Working'
    BY <1>0, <1>2 DEF SkipLate, StartFails
<1>3. ASSUME NEW r \in Request, StartSession(r) PROVE Working'
    BY <1>0, <1>3 DEF StartSession, Create
<1>4. ASSUME NEW r \in Request, FindSession(r) PROVE Working'
    BY <1>0, <1>4 DEF FindSession
<1>5. ASSUME NEW r \in Request, LockOld(r) PROVE Working'
    BY <1>0, <1>5 DEF LockOld
<1>6. ASSUME NEW r \in Request, Restart(r) PROVE Working'
    BY <1>0, <1>6 DEF Restart, Create
<1>7. ASSUME NEW r \in Request, RestartFails(r) PROVE Working'
    BY <1>0, <1>7 DEF RestartFails
<1>8. ASSUME NEW r \in Request, LockSession(r) PROVE Working'
    BY <1>0, <1>8 DEF LockSession
<1>9. ASSUME NEW r \in Request, DropFinalized(r) PROVE Working'
    BY <1>0, <1>9 DEF DropFinalized
<1>10. ASSUME NEW r \in Request, WriteEnds(r) PROVE Working'
    BY <1>0, <1>10 DEF WriteEnds
<1>11. ASSUME NEW r \in Request, StartFinalize(r) PROVE Working'
    BY <1>0, <1>11 DEF StartFinalize
<1>12. ASSUME NEW r \in Request, FinalizeEnds(r) PROVE Working'
    BY <1>0, <1>12 DEF FinalizeEnds
<1>13. ASSUME NEW r \in Request, Remove(r) PROVE Working'
    BY <1>0, <1>13 DEF Remove
<1>14. ASSUME Wake PROVE Working'
    BY <1>0, <1>14 DEF Wake
<1>15. ASSUME NothingStale PROVE Working'
    BY <1>0, <1>15 DEF NothingStale, Stale
<1>16. ASSUME Collect PROVE Working'
    BY <1>0, <1>16 DEF Collect, Visit, Stale
<1>17. ASSUME LockStale PROVE Working'
    BY <1>0, <1>17 DEF LockStale
<1>18. ASSUME Reaped PROVE Working'
    BY <1>0, <1>18 DEF Reaped, Visit
<1>19. ASSUME ReaperDies PROVE Working'
    BY <1>0, <1>19 DEF ReaperDies
<1> HIDE DEF Working
<1> QED
    BY <1>1, <1>2, <1>3, <1>4, <1>5, <1>6, <1>7, <1>8, <1>9, <1>10, <1>11, <1>12,
       <1>13, <1>14, <1>15, <1>16, <1>17, <1>18, <1>19
    DEF Coroutine, SaveChunk, Cleanup

LEMMA UnbornKept ==
  ASSUME Serviceable, Coroutine
  PROVE  Unborn'
<1> USE NameAssumption, CloserAssumption
    DEF Serviceable, Task, Unborn, taskVars, lockVars, sessionVars, diskVars,
        LockTypes, RequestPc, ReaperPc, Working
<1>0. \A r \in Request : KeyOfRequest(r) \in Key
    BY KeyType DEF LockTypes
<1>1. ASSUME NEW r \in Request, Arrive(r) PROVE Unborn'
    BY <1>0, <1>1 DEF Arrive
<1>2. ASSUME NEW r \in Request, SkipLate(r) \/ StartFails(r) PROVE Unborn'
    BY <1>0, <1>2 DEF SkipLate, StartFails
<1>3. ASSUME NEW r \in Request, StartSession(r) PROVE Unborn'
    BY <1>0, <1>3 DEF StartSession, Create
<1>4. ASSUME NEW r \in Request, FindSession(r) PROVE Unborn'
    BY <1>0, <1>4 DEF FindSession
<1>5. ASSUME NEW r \in Request, LockOld(r) PROVE Unborn'
    BY <1>0, <1>5 DEF LockOld
<1>6. ASSUME NEW r \in Request, Restart(r) PROVE Unborn'
    BY <1>0, <1>6 DEF Restart, Create
<1>7. ASSUME NEW r \in Request, RestartFails(r) PROVE Unborn'
    BY <1>0, <1>7 DEF RestartFails
<1>8. ASSUME NEW r \in Request, LockSession(r) PROVE Unborn'
    BY <1>0, <1>8 DEF LockSession
<1>9. ASSUME NEW r \in Request, DropFinalized(r) PROVE Unborn'
    BY <1>0, <1>9 DEF DropFinalized
<1>10. ASSUME NEW r \in Request, WriteEnds(r) PROVE Unborn'
    BY <1>0, <1>10 DEF WriteEnds
<1>11. ASSUME NEW r \in Request, StartFinalize(r) PROVE Unborn'
    BY <1>0, <1>11 DEF StartFinalize
<1>12. ASSUME NEW r \in Request, FinalizeEnds(r) PROVE Unborn'
    BY <1>0, <1>12 DEF FinalizeEnds
<1>13. ASSUME NEW r \in Request, Remove(r) PROVE Unborn'
    BY <1>0, <1>13 DEF Remove
<1>14. ASSUME Wake PROVE Unborn'
    BY <1>0, <1>14 DEF Wake
<1>15. ASSUME NothingStale PROVE Unborn'
    BY <1>0, <1>15 DEF NothingStale, Stale
<1>16. ASSUME Collect PROVE Unborn'
    BY <1>0, <1>16 DEF Collect, Visit, Stale
<1>17. ASSUME LockStale PROVE Unborn'
    BY <1>0, <1>17 DEF LockStale
<1>18. ASSUME Reaped PROVE Unborn'
    BY <1>0, <1>18 DEF Reaped, Visit
<1>19. ASSUME ReaperDies PROVE Unborn'
    BY <1>0, <1>19 DEF ReaperDies
<1> HIDE DEF Unborn
<1> QED
    BY <1>1, <1>2, <1>3, <1>4, <1>5, <1>6, <1>7, <1>8, <1>9, <1>10, <1>11, <1>12,
       <1>13, <1>14, <1>15, <1>16, <1>17, <1>18, <1>19
    DEF Coroutine, SaveChunk, Cleanup

LEMMA LocksKept ==
  ASSUME Serviceable, Coroutine
  PROVE  Locks'
<1> USE NameAssumption, CloserAssumption
    DEF Serviceable, Task, Locks, taskVars, lockVars, sessionVars, diskVars,
        LockTypes, Working, InManager, InSession, Unborn, RequestPc, ReaperPc
<1>0. \A r \in Request : KeyOfRequest(r) \in Key
    BY KeyType DEF LockTypes
<1>1. ASSUME NEW r \in Request, Arrive(r) PROVE Locks'
    BY <1>0, <1>1 DEF Arrive
<1>2. ASSUME NEW r \in Request, SkipLate(r) \/ StartFails(r) PROVE Locks'
    BY <1>0, <1>2 DEF SkipLate, StartFails
<1>3. ASSUME NEW r \in Request, StartSession(r) PROVE Locks'
    BY <1>0, <1>3 DEF StartSession, Create
<1>4. ASSUME NEW r \in Request, FindSession(r) PROVE Locks'
    BY <1>0, <1>4 DEF FindSession
<1>5. ASSUME NEW r \in Request, LockOld(r) PROVE Locks'
    BY <1>0, <1>5 DEF LockOld
<1>6. ASSUME NEW r \in Request, Restart(r) PROVE Locks'
    BY <1>0, <1>6 DEF Restart, Create
<1>7. ASSUME NEW r \in Request, RestartFails(r) PROVE Locks'
    BY <1>0, <1>7 DEF RestartFails
<1>8. ASSUME NEW r \in Request, LockSession(r) PROVE Locks'
    BY <1>0, <1>8 DEF LockSession
<1>9. ASSUME NEW r \in Request, DropFinalized(r) PROVE Locks'
    BY <1>0, <1>9 DEF DropFinalized
<1>10. ASSUME NEW r \in Request, WriteEnds(r) PROVE Locks'
    BY <1>0, <1>10 DEF WriteEnds
<1>11. ASSUME NEW r \in Request, StartFinalize(r) PROVE Locks'
    BY <1>0, <1>11 DEF StartFinalize
<1>12. ASSUME NEW r \in Request, FinalizeEnds(r) PROVE Locks'
    BY <1>0, <1>12 DEF FinalizeEnds
<1>13. ASSUME NEW r \in Request, Remove(r) PROVE Locks'
    BY <1>0, <1>13 DEF Remove
<1>14. ASSUME Wake PROVE Locks'
    BY <1>0, <1>14 DEF Wake
<1>15. ASSUME NothingStale PROVE Locks'
    BY <1>0, <1>15 DEF NothingStale, Stale
<1>16. ASSUME Collect PROVE Locks'
    BY <1>0, <1>16 DEF Collect, Visit, Stale
<1>17. ASSUME LockStale PROVE Locks'
    BY <1>0, <1>17 DEF LockStale
<1>18. ASSUME Reaped PROVE Locks'
    BY <1>0, <1>18 DEF Reaped, Visit
<1>19. ASSUME ReaperDies PROVE Locks'
    BY <1>0, <1>19 DEF ReaperDies
<1> HIDE DEF Locks
<1> QED
    BY <1>1, <1>2, <1>3, <1>4, <1>5, <1>6, <1>7, <1>8, <1>9, <1>10, <1>11, <1>12,
       <1>13, <1>14, <1>15, <1>16, <1>17, <1>18, <1>19
    DEF Coroutine, SaveChunk, Cleanup

(* A thread changes no lock and no task's place, also after its task was   *)
(* cancelled.                                                              *)
LEMMA ThreadsKeepLocks ==
  ASSUME Serviceable, NEW t \in Task, Thread(t),
         stop' = stop
  PROVE  Serviceable' /\ UNCHANGED <<pc, mlock, slock>>
<1>1. UNCHANGED <<pc, req, sess, todo, sessions, mlock, slock, births, born>>
    BY DEF Thread, ThreadWrite, ThreadWriteFails, ThreadSave, ThreadDispose, ThreadDiscard,
           lockVars, sessionVars
<1>2. /\ job[t] = "write" => job'[t] \in {"ok", "failed"}
      /\ job[t] = "save" => job'[t] \in {"dispose", "failed"}
      /\ job[t] = "dispose" => job'[t] \in {"ok", "failed"}
      /\ job[t] = "discard" => job'[t] \in {"ok", "failed"}
      /\ job[t] \in {"write", "save", "dispose", "discard"}
      /\ \A u \in Task : u # t => job'[u] = job[u]
      /\ job' \in [Task -> JobState]
  <2>1. ASSUME t \in Request, ThreadWrite(t) \/ ThreadWriteFails(t)
        PROVE  job[t] = "write" /\ \E x \in {"ok", "failed"} : job' = [job EXCEPT ![t] = x]
    BY <2>1 DEF ThreadWrite, ThreadWriteFails, JobEnds
  <2>2. ASSUME t \in Request, ThreadSave(t)
        PROVE  job[t] = "save" /\ \E x \in {"dispose", "failed"} : job' = [job EXCEPT ![t] = x]
    BY <2>2 DEF ThreadSave, JobEnds
  <2>3. ASSUME t \in Request, ThreadDispose(t)
        PROVE  job[t] = "dispose" /\ \E x \in {"ok", "failed"} : job' = [job EXCEPT ![t] = x]
    BY <2>3 DEF ThreadDispose, JobEnds
  <2>4. ASSUME ThreadDiscard(t)
        PROVE  job[t] = "discard" /\ \E x \in {"ok", "failed"} : job' = [job EXCEPT ![t] = x]
    BY <2>4 DEF ThreadDiscard, JobEnds
  <2>5. job \in [Task -> JobState]
    BY DEF Serviceable, LockTypes
  <2> QED
    BY <2>1, <2>2, <2>3, <2>4, <2>5 DEF Thread, JobState
<1>3. LockTypes' /\ Unborn' /\ KeyedByCreator' /\ Locks'
    BY <1>1, <1>2
    DEF Serviceable, LockTypes, Owner, Unborn, KeyedByCreator, KeyOfRequest, Locks,
        InManager, InSession
<1>4. Working'
    BY <1>1, <1>2, NameAssumption DEF Serviceable, Working, KeyOfRequest, Task
<1> QED
    BY <1>1, <1>3, <1>4 DEF Serviceable

(* Tasks T are cancelled, wherever they are. *)
Cancelled(T) ==
  /\ pc' = [t \in Task |-> IF t \notin T THEN pc[t] ELSE IF t = Reaper THEN "dead" ELSE "done"]
  /\ Release(T)
  /\ todo' \in {todo, {}}
  /\ UNCHANGED <<req, sess, job, sessions, births, born>>

(* Tasks that are cancelled give up what they own, and nothing else. *)
LEMMA CancelledKeeps ==
  ASSUME NEW T \in SUBSET Task, Serviceable, Cancelled(T), stop \in Serves <=> stop' \in Serves
  PROVE  Serviceable'
<1> USE NameAssumption, CloserAssumption DEF Serviceable, Cancelled, Task
<1>1. /\ \A t \in Task : InSession(t)' <=> InSession(t) /\ t \notin T
      /\ \A t \in Task : InManager(t)' <=> InManager(t) /\ t \notin T
    BY DEF InSession, InManager
<1>2. LockTypes'
  <2>1. mlock' \in Owner' /\ slock' \in [Request -> Owner']
    BY DEF Release, LockTypes, Owner
  <2>2. /\ pc' \in [Task -> RequestPc \cup ReaperPc]
        /\ \A r \in Request : pc'[r] \in RequestPc
        /\ pc'[Reaper] \in ReaperPc
    BY DEF LockTypes, RequestPc, ReaperPc
  <2> QED
    BY <2>1, <2>2 DEF LockTypes
<1>3. Working'
    BY DEF Working, KeyOfRequest
<1>4. Unborn' /\ KeyedByCreator'
    BY DEF Unborn, KeyedByCreator, KeyOfRequest
<1>5. Locks'
  <2>1. \A t \in Task : (mlock' = t) <=> InManager(t)'
    BY <1>1 DEF Locks, Release
  <2>2. ASSUME NEW t \in Task, NEW s \in Request
        PROVE  (slock'[s] = t) <=> InSession(t)' /\ sess'[t] = s
    <3>1. slock[s] = t <=> InSession(t) /\ sess[t] = s
      BY DEF Locks
    <3>2. slock'[s] = IF slock[s] \in T THEN Nobody ELSE slock[s]
      BY DEF Release
    <3> QED
      BY <1>1, <3>1, <3>2
  <2> QED
    BY <2>1, <2>2 DEF Locks
<1> QED
    BY <1>2, <1>3, <1>4, <1>5

(* Where discard_all is at work no other task is, and none owns a lock. *)
LEMMA NoTaskOwns ==
  ASSUME LockInv, stop \notin Serves
  PROVE  /\ \A t \in Task : ~InManager(t) /\ ~InSession(t)
         /\ mlock \in {Nobody, Closer} /\ slock \in [Request -> {Nobody, Closer}]
<1>1. \A t \in Task : ~InManager(t) /\ ~InSession(t)
    BY DEF LockInv, Stages, Serves, InManager, InSession, Task
<1>2. \A t \in Task : mlock # t /\ \A s \in Request : slock[s] # t
    BY <1>1 DEF LockInv, Serviceable, Locks
<1> QED
    BY <1>1, <1>2 DEF LockInv, Serviceable, LockTypes, Owner

(* The steps of discard_all. *)
LEMMA CloserKeeps ==
  ASSUME LockInv, LockManager \/ LockNext \/ DiscardNext \/ DiscardFails \/ Cleared
  PROVE  LockInv'
<1> USE NameAssumption, CloserAssumption
<1>1. /\ stop \notin Serves /\ stop' \notin Serves
      /\ UNCHANGED <<taskVars, births, born>>
      /\ stop' \in {"visit", "discard", "over", "failed"}
    BY DEF LockManager, LockNext, DiscardNext, DiscardFails, Cleared, Serves, sessionVars
<1>2. /\ \A t \in Task : ~InManager(t) /\ ~InSession(t)
      /\ mlock \in {Nobody, Closer} /\ slock \in [Request -> {Nobody, Closer}]
    BY <1>1, NoTaskOwns
<1>3. closing' \in Request \/ stop' # "discard"
    BY DEF LockManager, LockNext, DiscardNext, DiscardFails, Cleared, Left, LockInv,
           Serviceable, LockTypes
<1>4. Stages'
    BY <1>1, <1>3 DEF LockInv, Stages, taskVars
<1>5. /\ mlock' \in {Nobody, Closer} /\ slock' \in [Request -> {Nobody, Closer}]
      /\ sessions' = sessions \/ sessions' = [k \in Key |-> NoSession]
    BY <1>2 DEF LockManager, LockNext, DiscardNext, DiscardFails, Cleared
<1>6. LockTypes' /\ Unborn' /\ KeyedByCreator'
    BY <1>1, <1>5
    DEF LockInv, Serviceable, LockTypes, Owner, Unborn, KeyedByCreator, KeyOfRequest, taskVars
<1>7. Working'
    BY <1>1, <1>4 DEF LockInv, Serviceable, Working, Stages, Serves, KeyOfRequest, taskVars
<1>8. Locks'
  <2>1. \A t \in Task : ~InManager(t)' /\ ~InSession(t)'
    BY <1>1, <1>2 DEF InManager, InSession, taskVars
  <2> QED
    BY <1>5, <2>1 DEF Locks
<1>9. /\ mlock' = Closer => stop' \in {"visit", "discard"}
      /\ \A s \in Request : slock'[s] = Closer => stop' = "discard" /\ closing' = s
  <2> USE <1>2 DEF LockInv, Closers, Stages
  <2>1. CASE LockManager
    BY <2>1 DEF LockManager
  <2>2. CASE LockNext
    BY <2>2 DEF LockNext
  <2>3. CASE DiscardNext
    BY <2>3 DEF DiscardNext
  <2>4. CASE DiscardFails
    BY <2>4 DEF DiscardFails
  <2>5. CASE Cleared
    BY <2>5 DEF Cleared
  <2> QED
    BY <2>1, <2>2, <2>3, <2>4, <2>5
<1> QED
    BY <1>4, <1>6, <1>7, <1>8, <1>9 DEF LockInv, Serviceable, Closers

(* The steps of requests, reaper and threads, then those of the shutdown. *)
LEMMA ServingLocks ==
  ASSUME LockInv, Serving
  PROVE  LockInv'
<1>1. UNCHANGED stopVars /\ stop' = stop /\ closing' = closing
    BY DEF Serving, stopVars
<1>2. CASE \E t \in Task : Thread(t)
  <2>1. Serviceable' /\ UNCHANGED <<pc, mlock, slock>>
    BY <1>1, <1>2, ThreadsKeepLocks DEF LockInv
  <2> QED
    BY <1>1, <2>1 DEF LockInv, Closers, Stages
<1>3. CASE /\ Coroutine
           /\ \/ \E r \in Request : (stop \in {"serve", "accept"} /\ Arrive(r)) \/ SaveChunk(r)
              \/ Cleanup
  <2>1. stop \in Serves
    BY <1>3, AllStuck DEF LockInv, Stages, Serves
  <2>2. Next
    BY <1>3 DEF Coroutine, Next
  <2>3. Serviceable'
    BY <1>1, <1>3, <2>2, LockTypesKept, WorkingKept, UnbornKept, KeyedKept, LocksKept
    DEF LockInv, Serviceable
  <2>4. Closers'
    BY <1>1, <2>1, <2>3, NameAssumption, CloserAssumption
    DEF Serviceable, LockTypes, Owner, Closers
  <2>5. pc[Reaper] = "dead" => pc'[Reaper] = "dead"
    BY <1>3, DeadStaysOut DEF LockInv, Serviceable, LockTypes
  <2> QED
    BY <1>1, <2>1, <2>3, <2>4, <2>5 DEF LockInv, Stages, Serves
<1> QED
    BY <1>2, <1>3 DEF Serving, Coroutine

LEMMA SignalLocks == ASSUME LockInv, Signal PROVE LockInv'
<1> USE NameAssumption, CloserAssumption
<1>1. stop = "serve" /\ stop' = "accept" /\ closing' = closing
    BY DEF Signal
<1>2. Cancelled({Reaper})
    BY DEF Signal, Cancelled, sessionVars, LockInv, Serviceable, LockTypes, Task
<1>3. Serviceable'
    BY <1>1, <1>2, CancelledKeeps DEF LockInv, Serves, Task
<1>4. Closers'
    BY <1>1, <1>3 DEF Serviceable, LockTypes, Owner, Serves, Closers
<1>5. pc'[Reaper] = "dead"
    BY <1>2 DEF Cancelled, Task
<1> QED
    BY <1>1, <1>3, <1>4, <1>5 DEF LockInv, Stages, Serves

LEMMA CancelLocks == ASSUME LockInv, CancelRequests PROVE LockInv'
<1> USE NameAssumption, CloserAssumption
<1>1. stop = "drain" /\ stop' = "drain" /\ closing' = closing
    BY DEF CancelRequests
<1>2. Cancelled(Active) /\ Active \subseteq Request
    BY DEF CancelRequests, Cancelled, sessionVars, Active
<1>3. Serviceable'
    BY <1>1, <1>2, CancelledKeeps DEF LockInv, Serves, Task
<1>4. Closers'
    BY <1>1, <1>3 DEF Serviceable, LockTypes, Owner, Serves, Closers
<1>5. pc'[Reaper] = "dead"
    BY <1>1, <1>2 DEF Cancelled, Task, LockInv, Stages
<1> QED
    BY <1>1, <1>3, <1>4, <1>5 DEF LockInv, Stages, Serves

LEMMA DrainedLocks == ASSUME LockInv, StopAccepting \/ Drained PROVE LockInv'
<1>1. /\ UNCHANGED <<vars, closing>>
      /\ \/ stop = "accept" /\ stop' = "drain"
         \/ stop = "drain" /\ stop' = "manager" /\ Active = {}
    BY DEF StopAccepting, Drained
<1>2. UNCHANGED <<pc, req, sess, job, todo, sessions, mlock, slock, births, born>>
    BY <1>1 DEF vars, taskVars, lockVars, sessionVars
<1>3. Serviceable'
    BY <1>1, <1>2
    DEF LockInv, Serviceable, LockTypes, Owner, Serves, Working, Unborn, KeyedByCreator, KeyOfRequest,
        Locks, InManager, InSession
<1>4. Closers'
    BY <1>1, <1>2 DEF LockInv, Closers
<1>5. Stages'
    BY <1>1, <1>2 DEF LockInv, Stages, Serves, Active
<1> QED
    BY <1>3, <1>4, <1>5 DEF LockInv

LEMMA StutterLocks == ASSUME LockInv, UNCHANGED shutdownVars PROVE LockInv'
  BY DEF LockInv, Serviceable, LockTypes, Owner, Working, Unborn, KeyedByCreator, KeyOfRequest,
         Locks, InManager, InSession, Closers, Stages, shutdownVars, vars, taskVars, lockVars,
         sessionVars, stopVars

LEMMA LockInvStep == LockInv /\ [NextShutdown]_shutdownVars => LockInv'
  BY ServingLocks, SignalLocks, CancelLocks, DrainedLocks, CloserKeeps, StutterLocks
  DEF NextShutdown, Stopping

LEMMA LockInvInit == InitShutdown => LockInv
<1> SUFFICES ASSUME InitShutdown PROVE LockInv
    OBVIOUS
<1> USE NameAssumption, CloserAssumption DEF InitShutdown, Init, Task
<1>1. LockTypes
    BY DEF LockTypes, Owner, RequestPc, ReaperPc, JobState
<1>2. Working /\ Unborn /\ KeyedByCreator
    BY DEF Working, Unborn, KeyedByCreator
<1>3. Locks
    BY DEF Locks, InManager, InSession
<1>4. Closers /\ Stages
    BY DEF Closers, Stages, Serves
<1> QED
    BY <1>1, <1>2, <1>3, <1>4 DEF LockInv, Serviceable

(* Where discard_all asks for a lock, it is free. *)
DiscardAllUnblocked ==
  /\ stop = "manager" => mlock = Nobody
  /\ stop = "visit" => \A s \in Request : slock[s] = Nobody

(* No lock is lost, and no task waits for one in a circle, wherever the    *)
(* signal and the cancellations find requests, reaper and threads; and     *)
(* discard_all never has to wait for a lock.                               *)
THEOREM ShutdownLocksFree == SpecShutdown => [](LocksComeFree /\ DiscardAllUnblocked)
<1>1. LockInv => LocksComeFree
  <2> SUFFICES ASSUME LockInv PROVE LocksComeFree
    OBVIOUS
  <2> USE NameAssumption DEF LockInv, Serviceable
  <2>1. \A t \in Task : InSession(t) => job[t] # "none"
    BY DEF Working, InSession, Task, LockTypes, ReaperPc
  <2>2. ASSUME NEW t \in Task, pc[t] \in {"old", "session"}
        PROVE  sess[t] \in Request /\ slock[sess[t]] \in Task \cup {Nobody}
    <3>1. stop \in Serves
      BY <2>2 DEF Stages, Serves, Task
    <3>2. sess[t] \in Request
      BY <2>2 DEF Working, Task, LockTypes, ReaperPc
    <3> QED
      BY <3>1, <3>2 DEF LockTypes, Owner
  <2> QED
    BY <2>1, <2>2, OrderFrees
<1>2. LockInv => DiscardAllUnblocked
  <2> SUFFICES ASSUME LockInv, stop \in {"manager", "visit"}
               PROVE  (stop = "manager" => mlock = Nobody) /\ \A s \in Request : slock[s] = Nobody
    BY DEF DiscardAllUnblocked
  <2>1. mlock \in {Nobody, Closer} /\ slock \in [Request -> {Nobody, Closer}]
    BY NoTaskOwns DEF Serves
  <2> QED
    BY <2>1 DEF LockInv, Closers
<1> QED
    BY <1>1, <1>2, LockInvInit, LockInvStep, PTL DEF SpecShutdown

=============================================================================
