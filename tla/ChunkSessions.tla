---------------------------- MODULE ChunkSessions ----------------------------
(***************************************************************************)
(* The chunked-upload session manager (src/src/upload_session.py): request *)
(* handlers that call save_chunk, the reaper that calls cleanup, the       *)
(* sessions they share, and the worker threads that run the file           *)
(* operations for them.                                                    *)
(*                                                                         *)
(* A step of a coroutine runs from one await to the next.  Taking an       *)
(* asyncio.Lock is a step of its own: when the lock is free the code does  *)
(* not suspend, which is the case where that step comes next.  Waiters are *)
(* granted a lock in any order here, in FIFO order by asyncio.             *)
(*                                                                         *)
(* A session is named by the request that created it (a save_chunk call    *)
(* creates at most one), so it needs no identifier of its own.             *)
(***************************************************************************)
EXTENDS Integers

CONSTANTS
  Request,     (* calls of save_chunk: chunks that the printer accepted     *)
  Upload,      (* files a client sends; a retry belongs to the same upload  *)
  KeyOf,       (* the session key under which the upload's chunks are filed *)
  TotalSize,   (* bytes of an upload                                        *)
  Chunk,       (* the [offset, length] pairs that clients send              *)
  PerKeyPath,  (* temp path chosen by key (CC1, from the UUID) or afresh    *)
               (* for every session (CC2, uuid4)                            *)
  Faults,      (* the file operations that may raise: "write" (open too),   *)
               (* in finalize() "save" and "dispose", in discard() "close"  *)
               (* and "unlink", and "create", the mkdir of create_session() *)
  Reaper, Nobody, NoSession, NoFile, Hole

Byte == 0 .. TotalSize - 1
Key  == {KeyOf[u] : u \in Upload}
Task == Request \cup {Reaper}

ASSUME ChunkAssumption ==
  /\ TotalSize \in Nat \ {0}
  /\ Chunk \subseteq [offset : Nat, length : Nat]
  /\ KeyOf \in [Upload -> Key]
  /\ PerKeyPath \in BOOLEAN
  /\ Faults \subseteq {"write", "save", "dispose", "close", "unlink", "create"}

ASSUME NameAssumption ==
  /\ Reaper \notin Request
  /\ Nobody \notin Task
  /\ NoSession \notin Request
  /\ Hole \notin Upload
  /\ Key \cap Request = {}

ASSUME NothingAssumption == NoSession \notin [id : Request, got : SUBSET Byte]

VARIABLES
  pc,         (* where each task is suspended                              *)
  req,        (* the upload and the chunk each request carries             *)
  sess,       (* the task's local variable "session"                       *)
  job,        (* the to_thread call that each task awaits, and its result  *)
  sessions,   (* ChunkSessionManager.sessions                              *)
  mlock,      (* owner of ChunkSessionManager._lock                        *)
  slock,      (* owner of each session's lock                              *)
  received,   (* bytes covered by each session's _intervals                *)
  finalized,  (* BaseUploadSession.finalized                               *)
  fh,         (* _fh: None, an open file, a file with bytes still in its    *)
              (* buffer, or a file that close() gave up on                  *)
  births,     (* sessions created so far: the clock, as far as it matters  *)
  born,       (* its value at each creation (BaseUploadSession.created)    *)
  cutoff,     (* sessions born up to here are older than max_age           *)
  todo,       (* the rest of the reaper's list "stale"                     *)
  leftover,   (* a history: sessions that discard() was at and that an     *)
              (* exception, or a cancellation, left in the table           *)
  temp,       (* the files in .tmp, by path                                *)
  archive     (* the archived uploads                                      *)

taskVars    == <<pc, req, sess, job, todo, cutoff>>
lockVars    == <<mlock, slock>>
sessionVars == <<received, finalized, fh, births, born, leftover>>
diskVars    == <<temp, archive>>
vars == <<taskVars, sessions, lockVars, sessionVars, diskVars>>

Content == [Byte -> Upload \cup {Hole}]
Blank   == [b \in Byte |-> Hole]
Path    == Key \cup Request
Archived == [session : Request, by : Request, key : Key, content : Content]

RequestPc == {"idle", "manager", "old", "discard", "session", "write",
              "finalize", "remove", "done"}
ReaperPc  == {"asleep", "manager", "session", "discard", "dead"}
JobState  == {"none", "discard", "write", "save", "dispose", "ok", "failed"}

KeyOfRequest(r) == KeyOf[req[r].upload]
Offset(r)  == req[r].chunk.offset
Span(r)    == {b \in Byte : /\ req[r].chunk.offset <= b
                            /\ b < req[r].chunk.offset + req[r].chunk.length}
PathOf(s)  == IF PerKeyPath THEN KeyOfRequest(s) ELSE s
(* Faulty: the high-water mark that lines 66-68 warn about. *)
HighWater(s) == TotalSize - 1 \in received[s]

Complete(s) == Byte \subseteq received[s]
Live(s)    == sessions[KeyOfRequest(s)] = s

(* The file after bytes S of upload u were written over content f. *)
Overlay(f, S, u) == [b \in Byte |-> IF b \in S THEN u ELSE f[b]]

Init ==
  /\ pc = [t \in Task |-> IF t = Reaper THEN "asleep" ELSE "idle"]
  /\ req \in [Request -> [upload : Upload, chunk : Chunk]]
  /\ sess = [t \in Task |-> NoSession]
  /\ job = [t \in Task |-> "none"]
  /\ sessions = [k \in Key |-> NoSession]
  /\ mlock = Nobody
  /\ slock = [s \in Request |-> Nobody]
  /\ received = [s \in Request |-> {}]
  /\ finalized = [s \in Request |-> FALSE]
  /\ fh = [s \in Request |-> "none"]
  /\ births = 0
  /\ born = [s \in Request |-> 0]
  /\ cutoff = 0
  /\ todo = {}
  /\ leftover = {}
  /\ temp = [p \in Path |-> NoFile]
  /\ archive = {}

-----------------------------------------------------------------------------
(* save_chunk *)

(* The printer has accepted the request's chunk; save_chunk is called. *)
Arrive(r) ==
  /\ pc[r] = "idle"
  /\ pc' = [pc EXCEPT ![r] = "manager"]
  /\ UNCHANGED <<req, sess, job, todo, cutoff, sessions, lockVars, sessionVars, diskVars>>

(* A chunk of an unknown upload that is not its first: dropped. *)
SkipLate(r) ==
  /\ pc[r] = "manager" /\ mlock = Nobody
  /\ sessions[KeyOfRequest(r)] = NoSession /\ Offset(r) # 0
  /\ pc' = [pc EXCEPT ![r] = "done"]
  /\ UNCHANGED <<req, sess, job, todo, cutoff, sessions, lockVars, sessionVars, diskVars>>

(* create_session, the table entry, session.lock, the release of the       *)
(* manager's lock and the call of write_chunk: no await between them.      *)
Create(r, locks) ==
  /\ births' = births + 1
  /\ born' = [born EXCEPT ![r] = births + 1]
  /\ sessions' = [sessions EXCEPT ![KeyOfRequest(r)] = r]
  /\ sess' = [sess EXCEPT ![r] = r]
  /\ slock' = [locks EXCEPT ![r] = r]
  /\ mlock' = Nobody
  /\ job' = [job EXCEPT ![r] = "write"]
  /\ pc' = [pc EXCEPT ![r] = "write"]
  /\ UNCHANGED <<req, todo, cutoff, received, finalized, fh, leftover, diskVars>>

StartSession(r) ==
  /\ pc[r] = "manager" /\ mlock = Nobody
  /\ sessions[KeyOfRequest(r)] = NoSession /\ Offset(r) = 0
  /\ Create(r, slock)

(* create_session() raised, with no session there before. *)
StartFails(r) ==
  /\ pc[r] = "manager" /\ mlock = Nobody
  /\ sessions[KeyOfRequest(r)] = NoSession /\ Offset(r) = 0
  /\ "create" \in Faults
  /\ pc' = [pc EXCEPT ![r] = "done"]
  /\ UNCHANGED <<req, sess, job, todo, cutoff, sessions, lockVars, sessionVars, diskVars>>

(* The upload has a session: keep the manager's lock and ask for its lock, *)
(* to discard it when this is the first chunk again, else to write.        *)
FindSession(r) ==
  /\ pc[r] = "manager" /\ mlock = Nobody
  /\ sessions[KeyOfRequest(r)] # NoSession
  /\ mlock' = r
  /\ sess' = [sess EXCEPT ![r] = sessions[KeyOfRequest(r)]]
  /\ pc' = [pc EXCEPT ![r] = IF Offset(r) = 0 THEN "old" ELSE "session"]
  /\ UNCHANGED <<req, job, todo, cutoff, sessions, slock, sessionVars, diskVars>>

(* Faulty: the old session is discarded without its lock. *)
DiscardOldAtOnce(r) ==
  /\ pc[r] = "old"
  /\ job' = [job EXCEPT ![r] = "discard"]
  /\ pc' = [pc EXCEPT ![r] = "discard"]
  /\ UNCHANGED <<req, sess, todo, cutoff, sessions, lockVars, sessionVars, diskVars>>

LockOld(r) ==
  /\ pc[r] = "old" /\ slock[sess[r]] = Nobody
  /\ slock' = [slock EXCEPT ![sess[r]] = r]
  /\ job' = [job EXCEPT ![r] = "discard"]
  /\ pc' = [pc EXCEPT ![r] = "discard"]
  /\ UNCHANGED <<req, sess, todo, cutoff, sessions, mlock, sessionVars, diskVars>>

Restart(r) ==
  /\ pc[r] = "discard" /\ job[r] = "ok"
  /\ Create(r, [slock EXCEPT ![sess[r]] = Nobody])

(* discard() raised, or create_session() after it: the exception leaves    *)
(* save_chunk through the locks, and the old session stays in the table.   *)
RestartFails(r) ==
  /\ pc[r] = "discard"
  /\ \/ job[r] = "failed" /\ UNCHANGED leftover
     \/ job[r] = "ok" /\ "create" \in Faults /\ leftover' = leftover \cup {sess[r]}
  /\ slock' = [slock EXCEPT ![sess[r]] = Nobody]
  /\ mlock' = Nobody
  /\ job' = [job EXCEPT ![r] = "none"]
  /\ pc' = [pc EXCEPT ![r] = "done"]
  /\ UNCHANGED <<req, sess, todo, cutoff, sessions, received, finalized, fh, births, born, diskVars>>

(* Faulty: "finalized" is not looked at. *)
LockAnySession(r) ==
  /\ pc[r] = "session" /\ slock[sess[r]] = Nobody
  /\ mlock' = Nobody
  /\ slock' = [slock EXCEPT ![sess[r]] = r]
  /\ job' = [job EXCEPT ![r] = "write"]
  /\ pc' = [pc EXCEPT ![r] = "write"]
  /\ UNCHANGED <<req, sess, todo, cutoff, sessions, sessionVars, diskVars>>

(* The lock of the running session: release the manager's, then write ... *)
LockSession(r) ==
  /\ pc[r] = "session" /\ slock[sess[r]] = Nobody
  /\ ~finalized[sess[r]]
  /\ mlock' = Nobody
  /\ slock' = [slock EXCEPT ![sess[r]] = r]
  /\ job' = [job EXCEPT ![r] = "write"]
  /\ pc' = [pc EXCEPT ![r] = "write"]
  /\ UNCHANGED <<req, sess, todo, cutoff, sessions, sessionVars, diskVars>>

(* ... unless finalize() was attempted while this chunk was waiting. *)
DropFinalized(r) ==
  /\ pc[r] = "session" /\ slock[sess[r]] = Nobody
  /\ finalized[sess[r]]
  /\ mlock' = Nobody
  /\ pc' = [pc EXCEPT ![r] = "done"]
  /\ UNCHANGED <<req, sess, job, todo, cutoff, sessions, slock, sessionVars, diskVars>>

(* Faulty: an exception leaves the lock behind. *)
WriteEndsHolding(r) ==
  /\ pc[r] = "write"
  /\ \/ /\ job[r] = "ok" /\ ~Complete(sess[r])
        /\ slock' = [slock EXCEPT ![sess[r]] = Nobody]
     \/ job[r] = "failed" /\ UNCHANGED slock
  /\ job' = [job EXCEPT ![r] = "none"]
  /\ pc' = [pc EXCEPT ![r] = "done"]
  /\ UNCHANGED <<req, sess, todo, cutoff, sessions, mlock, sessionVars, diskVars>>

(* write_chunk returned with bytes still missing, or raised. *)
WriteEnds(r) ==
  /\ pc[r] = "write"
  /\ \/ job[r] = "ok" /\ ~Complete(sess[r])
     \/ job[r] = "failed"
  /\ slock' = [slock EXCEPT ![sess[r]] = Nobody]
  /\ job' = [job EXCEPT ![r] = "none"]
  /\ pc' = [pc EXCEPT ![r] = "done"]
  /\ UNCHANGED <<req, sess, todo, cutoff, sessions, mlock, sessionVars, diskVars>>

StartFinalize(r) ==
  /\ pc[r] = "write" /\ job[r] = "ok" /\ Complete(sess[r])
  /\ finalized' = [finalized EXCEPT ![sess[r]] = TRUE]
  /\ job' = [job EXCEPT ![r] = "save"]
  /\ pc' = [pc EXCEPT ![r] = "finalize"]
  /\ UNCHANGED <<req, sess, todo, cutoff, sessions, lockVars, received, fh, births, born, leftover,
                 diskVars>>

(* Faulty: the session's lock is kept until the session is removed. *)
FinalizeEndsHolding(r) ==
  /\ pc[r] = "finalize" /\ job[r] \in {"ok", "failed"}
  /\ job' = [job EXCEPT ![r] = "none"]
  /\ pc' = [pc EXCEPT ![r] = "remove"]
  /\ UNCHANGED <<req, sess, todo, cutoff, sessions, lockVars, sessionVars, diskVars>>

(* finalize() returned or raised; its exception is only logged. *)
FinalizeEnds(r) ==
  /\ pc[r] = "finalize" /\ job[r] \in {"ok", "failed"}
  /\ slock' = [slock EXCEPT ![sess[r]] = Nobody]
  /\ job' = [job EXCEPT ![r] = "none"]
  /\ pc' = [pc EXCEPT ![r] = "remove"]
  /\ UNCHANGED <<req, sess, todo, cutoff, sessions, mlock, sessionVars, diskVars>>

(* Faulty: whatever session is in the table is taken out. *)
RemoveAny(r) ==
  /\ pc[r] = "remove" /\ mlock = Nobody
  /\ sessions' = [sessions EXCEPT ![KeyOfRequest(r)] = NoSession]
  /\ pc' = [pc EXCEPT ![r] = "done"]
  /\ UNCHANGED <<req, sess, job, todo, cutoff, lockVars, sessionVars, diskVars>>

(* Take the session out of the table, if the entry is still this session. *)
Remove(r) ==
  /\ pc[r] = "remove" /\ mlock = Nobody
  /\ sessions' = [sessions EXCEPT ![KeyOfRequest(r)] =
                    IF @ = sess[r] THEN NoSession ELSE @]
  /\ pc' = [pc EXCEPT ![r] = "done"]
  /\ UNCHANGED <<req, sess, job, todo, cutoff, lockVars, sessionVars, diskVars>>

-----------------------------------------------------------------------------
(* cleanup, called every 60 seconds by cleanup_stale_sessions *)

(* The age limit is computed before the manager's lock is requested. *)
Wake ==
  /\ pc[Reaper] = "asleep"
  /\ cutoff' \in cutoff .. births
  /\ pc' = [pc EXCEPT ![Reaper] = "manager"]
  /\ UNCHANGED <<req, sess, job, todo, sessions, lockVars, sessionVars, diskVars>>

(* Faulty: age is not looked at. *)
StaleAny == {k \in Key : sessions[k] # NoSession}

Stale == {k \in Key : /\ sessions[k] # NoSession
                      /\ born[sessions[k]] <= cutoff}

NothingStale ==
  /\ pc[Reaper] = "manager" /\ mlock = Nobody
  /\ Stale = {}
  /\ pc' = [pc EXCEPT ![Reaper] = "asleep"]
  /\ UNCHANGED <<req, sess, job, todo, cutoff, sessions, lockVars, sessionVars, diskVars>>

(* Ask for the lock of the next stale session. *)
Visit(keys) ==
  \E k \in keys :
    /\ sess' = [sess EXCEPT ![Reaper] = sessions[k]]
    /\ todo' = keys \ {k}
    /\ pc' = [pc EXCEPT ![Reaper] = "session"]

Collect ==
  /\ pc[Reaper] = "manager" /\ mlock = Nobody
  /\ mlock' = Reaper
  /\ Visit(Stale)
  /\ UNCHANGED <<req, job, cutoff, sessions, slock, sessionVars, diskVars>>

LockStale ==
  /\ pc[Reaper] = "session" /\ slock[sess[Reaper]] = Nobody
  /\ slock' = [slock EXCEPT ![sess[Reaper]] = Reaper]
  /\ job' = [job EXCEPT ![Reaper] = "discard"]
  /\ pc' = [pc EXCEPT ![Reaper] = "discard"]
  /\ UNCHANGED <<req, sess, todo, cutoff, sessions, mlock, sessionVars, diskVars>>

(* Faulty: the entry stays. *)
ReapedKept ==
  /\ pc[Reaper] = "discard" /\ job[Reaper] = "ok"
  /\ slock' = [slock EXCEPT ![sess[Reaper]] = Nobody]
  /\ job' = [job EXCEPT ![Reaper] = "none"]
  /\ mlock' = Nobody
  /\ pc' = [pc EXCEPT ![Reaper] = "asleep"]
  /\ UNCHANGED <<req, sess, todo, cutoff, sessions, sessionVars, diskVars>>

(* The stale session is discarded: drop its entry and go on to the next. *)
Reaped ==
  /\ pc[Reaper] = "discard" /\ job[Reaper] = "ok"
  /\ slock' = [slock EXCEPT ![sess[Reaper]] = Nobody]
  /\ job' = [job EXCEPT ![Reaper] = "none"]
  /\ sessions' = [sessions EXCEPT ![KeyOfRequest(sess[Reaper])] = NoSession]
  /\ \/ /\ todo # {}
        /\ Visit(todo)
        /\ UNCHANGED mlock
     \/ /\ todo = {}
        /\ mlock' = Nobody
        /\ pc' = [pc EXCEPT ![Reaper] = "asleep"]
        /\ UNCHANGED <<sess, todo>>
  /\ UNCHANGED <<req, cutoff, sessionVars, diskVars>>

(* discard() raised: nothing catches it in cleanup_stale_sessions either. *)
ReaperDies ==
  /\ pc[Reaper] = "discard" /\ job[Reaper] = "failed"
  /\ slock' = [slock EXCEPT ![sess[Reaper]] = Nobody]
  /\ mlock' = Nobody
  /\ job' = [job EXCEPT ![Reaper] = "none"]
  /\ pc' = [pc EXCEPT ![Reaper] = "dead"]
  /\ UNCHANGED <<req, sess, todo, cutoff, sessions, sessionVars, diskVars>>

-----------------------------------------------------------------------------
(* The file operations, in worker threads *)

JobEnds(t, result) == job' = [job EXCEPT ![t] = result]

(* write_chunk: open the temp file on the first chunk (truncating what the *)
(* path held), write, flush, and only then record the interval.  Writes to *)
(* a file that was unlinked meanwhile go nowhere.                          *)
ThreadWrite(r) ==
  LET s == sess[r]
      p == PathOf(s)
  IN /\ job[r] = "write" /\ fh[s] # "closed"
     /\ temp' = [temp EXCEPT ![p] =
                   IF fh[s] = "none" THEN Overlay(Blank, Span(r), req[r].upload)
                   ELSE IF @ = NoFile THEN NoFile
                   ELSE Overlay(@, Span(r), req[r].upload)]
     /\ fh' = [fh EXCEPT ![s] = "open"]
     /\ received' = [received EXCEPT ![s] = @ \cup Span(r)]
     /\ JobEnds(r, "ok")
     /\ UNCHANGED <<pc, req, sess, todo, cutoff, sessions, lockVars, finalized, births, born, leftover,
                    archive>>

(* Faulty: the interval is recorded before the bytes are written. *)
RecordedThenFails(r) ==
  LET s == sess[r]
      p == PathOf(s)
  IN /\ job[r] = "write" /\ "write" \in Faults /\ fh[s] # "closed"
     /\ temp' = [temp EXCEPT ![p] = IF fh[s] = "none" THEN Blank ELSE @]
     /\ fh' = [fh EXCEPT ![s] = "dirty"]
     /\ received' = [received EXCEPT ![s] = @ \cup Span(r)]
     /\ JobEnds(r, "failed")
     /\ UNCHANGED <<pc, req, sess, todo, cutoff, sessions, lockVars, finalized, births, born, leftover,
                    archive>>

(* The file cannot be opened, the file object is already closed, or the    *)
(* disk refuses some of the bytes, which stay in the buffer: the call      *)
(* raises and the interval is not recorded.                                *)
ThreadWriteFails(r) ==
  LET s == sess[r]
      p == PathOf(s)
  IN /\ job[r] = "write"
     /\ \/ /\ fh[s] = "closed" \/ ("write" \in Faults /\ fh[s] = "none")
           /\ UNCHANGED <<temp, fh>>
        \/ /\ "write" \in Faults /\ fh[s] # "closed"
           /\ \E S \in SUBSET Span(r) :
                temp' = [temp EXCEPT ![p] =
                           IF fh[s] = "none" THEN Overlay(Blank, S, req[r].upload)
                           ELSE IF @ = NoFile THEN NoFile
                           ELSE Overlay(@, S, req[r].upload)]
           /\ fh' = [fh EXCEPT ![s] = "dirty"]
     /\ JobEnds(r, "failed")
     /\ UNCHANGED <<pc, req, sess, todo, cutoff, sessions, lockVars, received, finalized, births, born,
                    leftover, archive>>

(* finalize, first half: close, stat, parse and write the JSON sidecar. *)
ThreadSave(r) ==
  LET s == sess[r]
      p == PathOf(s)
  IN /\ job[r] = "save"
     /\ fh' = [fh EXCEPT ![s] = "none"]
     /\ \/ /\ temp[p] # NoFile
           /\ archive' = archive \cup
                {[session |-> s, by |-> r, key |-> KeyOfRequest(r), content |-> temp[p]]}
           /\ JobEnds(r, "dispose")
        \/ /\ temp[p] = NoFile \/ "save" \in Faults
           /\ JobEnds(r, "failed")
           /\ UNCHANGED archive
     /\ UNCHANGED <<pc, req, sess, todo, cutoff, sessions, lockVars, received, finalized, births, born,
                    leftover, temp>>

(* finalize, second half: move the temp file into the archive or unlink it. *)
ThreadDispose(r) ==
  LET p == PathOf(sess[r])
  IN /\ job[r] = "dispose"
     /\ \/ /\ temp' = [temp EXCEPT ![p] = NoFile]
           /\ JobEnds(r, "ok")
        \/ /\ "dispose" \in Faults
           /\ JobEnds(r, "failed")
           /\ UNCHANGED temp
     /\ UNCHANGED <<pc, req, sess, todo, cutoff, sessions, lockVars, sessionVars, archive>>

(* discard: close, then cleanup_temp.  When close() cannot flush the       *)
(* buffer of a failed write it raises with the file object closed but      *)
(* still referenced, and nothing is unlinked.  When cleanup_temp raises    *)
(* the file is there, but _fh is None: a later write opens it anew.        *)
ThreadDiscard(t) ==
  LET s == sess[t]
      p == PathOf(s)
  IN /\ job[t] = "discard"
     /\ \/ /\ fh' = [fh EXCEPT ![s] = "none"]
           /\ temp' = [temp EXCEPT ![p] = NoFile]
           /\ JobEnds(t, "ok")
           /\ UNCHANGED leftover
        \/ /\ "close" \in Faults /\ fh[s] = "dirty"
           /\ fh' = [fh EXCEPT ![s] = "closed"]
           /\ JobEnds(t, "failed")
           /\ UNCHANGED <<temp, leftover>>
        \/ /\ "unlink" \in Faults
           /\ fh' = [fh EXCEPT ![s] = "none"]
           /\ leftover' = leftover \cup {s}
           /\ JobEnds(t, "failed")
           /\ UNCHANGED temp
     /\ UNCHANGED <<pc, req, sess, todo, cutoff, sessions, lockVars, received, finalized, births, born,
                    archive>>

-----------------------------------------------------------------------------
SaveChunk(r) ==
  \/ SkipLate(r) \/ StartSession(r) \/ StartFails(r) \/ FindSession(r)
  \/ LockOld(r) \/ Restart(r) \/ RestartFails(r)
  \/ LockSession(r) \/ DropFinalized(r)
  \/ WriteEnds(r) \/ StartFinalize(r) \/ FinalizeEnds(r) \/ Remove(r)

Cleanup ==
  \/ Wake \/ NothingStale \/ Collect \/ LockStale \/ Reaped \/ ReaperDies

Thread(t) ==
  \/ /\ t \in Request
     /\ \/ ThreadWrite(t) \/ ThreadWriteFails(t) \/ ThreadSave(t) \/ ThreadDispose(t)
  \/ ThreadDiscard(t)

Next ==
  \/ \E r \in Request : Arrive(r) \/ SaveChunk(r)
  \/ Cleanup
  \/ \E t \in Task : Thread(t)

(* Coroutines and worker threads keep running; clients owe us nothing. *)
Fairness ==
  /\ \A r \in Request : WF_vars(SaveChunk(r))
  /\ WF_vars(Cleanup)
  /\ \A t \in Task : WF_vars(Thread(t))

Spec == Init /\ [][Next]_vars /\ Fairness

-----------------------------------------------------------------------------
(* The state every other property presumes: each variable has its type.    *)
TypeOK ==
  /\ pc \in [Task -> RequestPc \cup ReaperPc]
  /\ \A r \in Request : pc[r] \in RequestPc
  /\ pc[Reaper] \in ReaperPc
  /\ req \in [Request -> [upload : Upload, chunk : Chunk]]
  /\ sess \in [Task -> Request \cup {NoSession}]
  /\ job \in [Task -> JobState]
  /\ sessions \in [Key -> Request \cup {NoSession}]
  /\ mlock \in Task \cup {Nobody}
  /\ slock \in [Request -> Task \cup {Nobody}]
  /\ received \in [Request -> SUBSET Byte]
  /\ finalized \in [Request -> BOOLEAN]
  /\ fh \in [Request -> {"none", "open", "dirty", "closed"}]
  /\ births \in Nat
  /\ born \in [Request -> Nat]
  /\ cutoff \in Nat
  /\ todo \in SUBSET Key
  /\ leftover \in SUBSET (Request \cup {NoSession})
  /\ temp \in [Path -> Content \cup {NoFile}]
  /\ archive \in SUBSET Archived

Running(t) == job[t] \in {"discard", "write", "save", "dispose"}

(* upload_session.py:168-170, "files are never removed beneath an active   *)
(* write": the worker threads of two tasks are never in the same temp file *)
(* at once, whichever sessions they work for.  Holds because every thread  *)
(* is started under its session's lock and a key's next session is created *)
(* only after the previous one was discarded or finalized.                 *)
OneThreadPerFile ==
  \A t, u \in Task :
    Running(t) /\ Running(u) /\ PathOf(sess[t]) = PathOf(sess[u]) => t = u

(* A task waits for a lock that another one owns. *)
WaitsFor(t, u) ==
  \/ pc[t] \in {"manager", "remove"} /\ mlock = u
  \/ pc[t] \in {"old", "session"} /\ slock[sess[t]] = u

(* A task gets on without any other: it awaits its thread, or a free lock. *)
GetsOn(t) == job[t] # "none" \/ (pc[t] \in {"old", "session"} /\ slock[sess[t]] = Nobody)

(* upload_session.py:90, "lock ordering": no order of requests for the two *)
(* locks leaves tasks waiting on each other, or on one that is gone.  Who  *)
(* waits for a lock waits for a task that gets on, or for one that waits   *)
(* for such a task; that a finished upload asks for the manager's lock     *)
(* (147-148) only after it gave up its session's is a part of it.          *)
LocksComeFree ==
  \A t, u \in Task :
    WaitsFor(t, u) => GetsOn(u) \/ \E v \in Task : WaitsFor(u, v) /\ GetsOn(v)

(* upload_session.py:64-69: a file is archived as the whole file of one    *)
(* upload, with no hole that seek() zero-filled and no byte of another     *)
(* upload.                                                                 *)
WholeFile(a) == \E u \in Upload : KeyOf[u] = a.key /\ a.content = [b \in Byte |-> u]

(* What is archived is whole, however chunks are lost, repeated, reordered *)
(* or refused by the disk.  Only a session that discard() emptied and that *)
(* stayed in the table all the same, with its intervals, may end as a file *)
(* with a hole: the unlink in discard() (86), or create_session() after it *)
(* (122), raised, or its task was cancelled while it was at it (162).      *)
ArchiveIntact == \A a \in archive : WholeFile(a) \/ a.session \in leftover

(* Lines 66-68 without that exception. *)
NoHoleArchived == \A a \in archive : WholeFile(a)

(* upload_session.py:27-30: a session is archived once, even when a chunk  *)
(* was waiting for its lock while finalize() ran.                          *)
ArchivedOnce ==
  \A a, b \in archive : a.session = b.session => a = b

(* Every temp file belongs to a session in the table, where the reaper     *)
(* and discard_all will find it: the session that a finished upload        *)
(* removes is never a newer one that took over its key (149-150), and an   *)
(* upload that ends, restarts or expires leaves no file behind.            *)
NoOrphanTemp ==
  \A p \in Path : temp[p] # NoFile =>
    \E k \in Key : sessions[k] # NoSession /\ PathOf(sessions[k]) = p

(* An upload whose bytes are not all there is given up only for its age    *)
(* (cleanup, 152-165) or by its own first chunk coming again (118-123): an *)
(* entry that leaves the table belongs to a finalized session or to one    *)
(* older than the limit, although the age was read before two locks were   *)
(* waited for.                                                             *)
FreshSessionsSurvive ==
  [][\A k \in Key :
       sessions[k] # NoSession /\ sessions'[k] = NoSession /\ ~finalized[sessions[k]]
         => born[sessions[k]] <= cutoff]_vars

(* upload_session.py:110-150: every chunk request is answered in the end;  *)
(* no order of lock requests leaves handlers and reaper waiting on each    *)
(* other.                                                                  *)
RequestsEnd ==
  \A r \in Request : pc[r] = "manager" ~> pc[r] = "done"

(* tests/test_upload_session.py:25-26, "A chunk queued on the session lock *)
(* during finalize must not reopen the deleted temp file and archive a     *)
(* second copy": a request that waits for a finalized session never gets   *)
(* a file of its own into the archive.                                     *)
QueuedChunkNotArchived ==
  \A r \in Request :
    [](pc[r] = "old" /\ finalized[sess[r]] => [](\A x \in archive : x.session # r))

-----------------------------------------------------------------------------
(* The session manager implements UploadCapture: a session is a copy, until *)
(* it is archived.                                                          *)
Archiving(s) == \E x \in archive : x.session = s

assemblyBar ==
  [k \in Key |->
     IF sessions[k] = NoSession \/ Archiving(sessions[k]) THEN NoSession
     ELSE [id |-> sessions[k], got |-> received[sessions[k]]]]

Capture == INSTANCE UploadCapture WITH
  Id <- Request, Nothing <- NoSession,
  assembly <- assemblyBar,
  used     <- {s \in Request : born[s] # 0},
  captured <- {[id |-> x.session, key |-> x.key] : x \in archive}

(* upload_session.py:92-94, the protocol that the class "encapsulates": a  *)
(* file reaches the archive only as the complete copy that is then in the  *)
(* table under its key; its bytes all arrived since its first chunk did,   *)
(* in that session; it is archived once; and a session that was given up   *)
(* never comes back.                                                       *)
ImplementsCapture == Capture!CaptureSpec

=============================================================================
