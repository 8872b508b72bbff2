------------------------- MODULE ChunkSessionsProofs -------------------------
(* Theorems about ChunkSessions, for any requests, uploads, keys, chunks   *)
(* and file sizes.                                                         *)
EXTENDS ChunkSessions, TLAPS

-----------------------------------------------------------------------------
(* The inductive invariant *)

(* What a task awaits, in each place where it may be suspended. *)
Phases ==
  /\ \A r \in Request :
       /\ pc[r] \in {"idle", "manager", "old", "session", "remove", "done"} => job[r] = "none"
       /\ pc[r] = "discard" => job[r] \in {"discard", "ok", "failed"}
       /\ pc[r] = "write" => job[r] \in {"write", "ok", "failed"}
       /\ pc[r] = "finalize" => job[r] \in {"save", "dispose", "ok", "failed"}
       /\ pc[r] \in {"old", "discard", "session", "write", "finalize", "remove"}
            => sess[r] \in Request
  /\ pc[Reaper] \in {"asleep", "manager", "session", "dead"} => job[Reaper] = "none"
  /\ pc[Reaper] = "discard" => job[Reaper] \in {"discard", "ok", "failed"}

(* The manager's lock and a session's lock are held exactly where the code *)
(* is inside the corresponding "async with" or between acquire and release. *)
InManager(t) == IF t = Reaper THEN pc[t] \in {"session", "discard"}
                ELSE pc[t] \in {"old", "discard", "session"}
InSession(t) == pc[t] \in {"discard", "write", "finalize"}

Locks ==
  /\ \A t \in Task : mlock = t <=> InManager(t)
  /\ \A t \in Task, s \in Request : slock[s] = t <=> InSession(t) /\ sess[t] = s

(* A session is in the table under the key of the request that created it; *)
(* whoever is on its way to its lock, or holds it, finds it there.         *)
KeyedByCreator ==
  \A k \in Key : sessions[k] # NoSession => KeyOfRequest(sessions[k]) = k

RequestsFind ==
  \A r \in Request :
    /\ pc[r] \in {"old", "discard", "session", "write", "finalize"} => Live(sess[r])
    /\ pc[r] \in {"old", "discard", "session", "write", "finalize", "remove"}
         => KeyOfRequest(sess[r]) = KeyOfRequest(r)

ReaperFinds ==
  pc[Reaper] \in {"session", "discard"} =>
    /\ sess[Reaper] \in Request /\ Live(sess[Reaper])
    /\ \A k \in todo : sessions[k] # NoSession /\ sessions[k] # sess[Reaper]

Table == KeyedByCreator /\ RequestsFind /\ ReaperFinds

(* A session that was not created yet is not known to anyone. *)
Newborn ==
  /\ \A r \in Request :
       pc[r] \in {"idle", "manager", "old", "discard", "session"} => born[r] = 0
  /\ \A s \in Request : born[s] = 0 =>
       /\ \A t \in Task : sess[t] # s
       /\ \A k \in Key : sessions[k] # s
       /\ ~finalized[s] /\ fh[s] = "none" /\ received[s] = {}

(* One request finalizes a session, and no one writes to it afterwards. *)
Finalizers ==
  /\ \A r \in Request :
       /\ pc[r] = "write" => ~finalized[sess[r]]
       /\ pc[r] \in {"finalize", "remove"} => finalized[sess[r]]
  /\ \A r, q \in Request :
       pc[r] \in {"finalize", "remove"} /\ pc[q] \in {"finalize", "remove"}
       /\ sess[r] = sess[q]
         => r = q

TypeInv    == TypeOK /\ Phases
Discipline == TypeInv /\ Locks /\ Table /\ Newborn /\ Finalizers

(* An archived session was finalized, and what is about to be archived is  *)
(* complete and was not archived before.                                   *)
Saved ==
  /\ \A x \in archive : finalized[x.session]
  /\ \A r \in Request : job[r] = "save" => Complete(sess[r]) /\ ~Archiving(sess[r])
  /\ ArchivedOnce

(* The reaper goes only to sessions that were over age when it saw them.   *)
Expired ==
  pc[Reaper] \in {"session", "discard"} =>
    /\ born[sess[Reaper]] <= cutoff
    /\ \A k \in todo : born[sessions[k]] <= cutoff

(* Different uploads are filed under different keys. *)
DistinctKeys == \A u, v \in Upload : KeyOf[u] = KeyOf[v] => u = v

(* While a session is in the table, its open file holds the bytes that     *)
(* were recorded, unless it was unlinked: each came from an upload of the  *)
(* session's key, be it the one that created the session or another.       *)
UploadsOf(k) == {u \in Upload : KeyOf[u] = k}
Discarded(s) == \E t \in Task : pc[t] = "discard" /\ job[t] = "ok" /\ sess[t] = s
FileOpen(s) == fh[s] \in {"open", "dirty"}
FileHas(s) ==
  \/ temp[PathOf(s)] = NoFile
  \/ \A i \in received[s] : temp[PathOf(s)][i] \in UploadsOf(KeyOfRequest(s))

OpenHas == \A s \in Request : Live(s) /\ FileOpen(s) /\ s \notin leftover => FileHas(s)

UnopenedEmpty ==
  \A s \in Request :
    Live(s) /\ fh[s] = "none" /\ ~finalized[s] /\ ~Discarded(s) /\ s \notin leftover
      => received[s] = {}

WrittenOpen ==
  \A r \in Request :
    (pc[r] = "write" /\ job[r] = "ok") \/ job[r] = "save" => FileOpen(sess[r])

(* No archived file has a hole, or a byte of an upload of another key, but *)
(* for those of sessions that were discarded and stayed in the table.      *)
ArchiveFilled ==
  \A x \in archive : x.session \in leftover \/ \A i \in Byte : x.content[i] \in UploadsOf(x.key)

Assembled == OpenHas /\ UnopenedEmpty /\ WrittenOpen /\ ArchiveFilled

(* A finished file can always be put into the archive, or deleted. *)
DisposalWorks == Faults \cap {"save", "dispose"} = {}

(* What was discarded or archived leaves no file at its session's path.    *)
Rid(t) ==
  \/ pc[t] = "discard" /\ job[t] = "ok"
  \/ pc[t] = "finalize" /\ job[t] \in {"ok", "failed"}
  \/ pc[t] = "remove" /\ Live(sess[t])

Gone == \A t \in Task : Rid(t) => temp[PathOf(sess[t])] = NoFile

-----------------------------------------------------------------------------
(* What the operators of the model return *)

LEMMA KeyType ==
  ASSUME req \in [Request -> [upload : Upload, chunk : Chunk]]
  PROVE  \A r \in Request : KeyOfRequest(r) \in Key
  BY ChunkAssumption DEF KeyOfRequest, Key

LEMMA PathType ==
  ASSUME req \in [Request -> [upload : Upload, chunk : Chunk]]
  PROVE  \A s \in Request : PathOf(s) \in Path
  BY KeyType DEF PathOf, Path

LEMMA OverlayType ==
  /\ Blank \in Content
  /\ \A f \in Content, u \in Upload : \A S : Overlay(f, S, u) \in Content
  BY DEF Overlay, Content, Blank

LEMMA SpanType == \A r : Span(r) \subseteq Byte
  BY DEF Span

-----------------------------------------------------------------------------
(* Every variable has its type, and a task awaits what its place says. *)

LEMMA TypeStep == TypeInv /\ [Next]_vars => TypeInv'
<1> SUFFICES ASSUME TypeInv, [Next]_vars PROVE TypeInv'
    OBVIOUS
<1> USE NameAssumption DEF TypeInv, TypeOK, Phases, Task, vars, taskVars, lockVars, sessionVars,
                           diskVars, RequestPc, ReaperPc, JobState, Archived
<1>1. ASSUME NEW r \in Request, Arrive(r) PROVE TypeInv'
    BY <1>1 DEF Arrive
<1>2. ASSUME NEW r \in Request, SkipLate(r) \/ StartFails(r) PROVE TypeInv'
  <2>1. /\ pc[r] = "manager" /\ pc' = [pc EXCEPT ![r] = "done"]
        /\ UNCHANGED <<req, sess, job, todo, cutoff, sessions, lockVars, sessionVars, diskVars>>
    BY <1>2 DEF SkipLate, StartFails
  <2> QED
    BY <2>1
<1>3. ASSUME NEW r \in Request, StartSession(r) PROVE TypeInv'
  <2>1. TypeOK'
    BY <1>3, KeyType DEF StartSession, Create
  <2>2. Phases'
    BY <1>3 DEF StartSession, Create
  <2> QED
    BY <2>1, <2>2 DEF TypeInv
<1>4. ASSUME NEW r \in Request, FindSession(r) PROVE TypeInv'
  <2>1. sessions[KeyOfRequest(r)] \in Request
    BY <1>4, KeyType DEF FindSession
  <2>2. CASE Offset(r) = 0
    BY <1>4, <2>1, <2>2 DEF FindSession
  <2>3. CASE Offset(r) # 0
    BY <1>4, <2>1, <2>3 DEF FindSession
  <2> QED
    BY <2>2, <2>3
<1>5. ASSUME NEW r \in Request, LockOld(r) PROVE TypeInv'
    BY <1>5 DEF LockOld
<1>6. ASSUME NEW r \in Request, Restart(r) PROVE TypeInv'
  <2>1. TypeOK'
    <3>1. slock' \in [Request -> Task \cup {Nobody}]
      BY <1>6 DEF Restart, Create
    <3>2. sessions' \in [Key -> Request \cup {NoSession}]
      BY <1>6 DEF Restart, Create
    <3> QED
      BY <1>6, <3>1, <3>2 DEF Restart, Create
  <2>2. Phases'
    BY <1>6 DEF Restart, Create
  <2> QED
    BY <2>1, <2>2 DEF TypeInv
<1>7. ASSUME NEW r \in Request, RestartFails(r) PROVE TypeInv'
  <2>1. /\ pc[r] = "discard" /\ sess[r] \in Request
        /\ leftover' = leftover \/ leftover' = leftover \cup {sess[r]}
    BY <1>7 DEF RestartFails
  <2>2. leftover' \in SUBSET (Request \cup {NoSession})
    BY <2>1
  <2> QED
    BY <1>7, <2>1, <2>2 DEF RestartFails
<1>8. ASSUME NEW r \in Request, LockSession(r) PROVE TypeInv'
    BY <1>8 DEF LockSession
<1>9. ASSUME NEW r \in Request, DropFinalized(r) PROVE TypeInv'
  <2>1. pc' = [pc EXCEPT ![r] = "done"] /\ mlock' = Nobody
    BY <1>9 DEF DropFinalized
  <2>2. pc[r] = "session"
    BY <1>9 DEF DropFinalized
  <2>3. UNCHANGED <<req, sess, job, todo, cutoff, sessions, slock, sessionVars, diskVars>>
    BY <1>9 DEF DropFinalized
  <2> QED
    BY <2>1, <2>2, <2>3
<1>10. ASSUME NEW r \in Request, WriteEnds(r) PROVE TypeInv'
    BY <1>10 DEF WriteEnds
<1>11. ASSUME NEW r \in Request, StartFinalize(r) PROVE TypeInv'
    BY <1>11 DEF StartFinalize
<1>12. ASSUME NEW r \in Request, FinalizeEnds(r) PROVE TypeInv'
    BY <1>12 DEF FinalizeEnds
<1>13. ASSUME NEW r \in Request, Remove(r) PROVE TypeInv'
    BY <1>13 DEF Remove
<1>14. ASSUME Wake PROVE TypeInv'
    BY <1>14 DEF Wake
<1>15. ASSUME NothingStale PROVE TypeInv'
    BY <1>15 DEF NothingStale, Stale
<1>16. ASSUME Collect PROVE TypeInv'
    BY <1>16 DEF Collect, Visit, Stale
<1>17. ASSUME LockStale PROVE TypeInv'
    BY <1>17 DEF LockStale
<1>18. ASSUME Reaped PROVE TypeInv'
  <2>1. /\ slock' \in [Request -> Task \cup {Nobody}]
        /\ sessions' \in [Key -> Request \cup {NoSession}]
        /\ job' = [job EXCEPT ![Reaper] = "none"]
        /\ UNCHANGED <<req, cutoff, sessionVars, diskVars>>
    BY <1>18 DEF Reaped
  <2>2. CASE todo # {} /\ Visit(todo) /\ UNCHANGED mlock
    <3>1. PICK k \in todo : /\ sess' = [sess EXCEPT ![Reaper] = sessions[k]]
                            /\ todo' = todo \ {k}
                            /\ pc' = [pc EXCEPT ![Reaper] = "session"]
      BY <2>2 DEF Visit
    <3> QED
      BY <2>1, <2>2, <3>1
  <2>3. CASE /\ todo = {}
             /\ mlock' = Nobody
             /\ pc' = [pc EXCEPT ![Reaper] = "asleep"]
             /\ UNCHANGED <<sess, todo>>
    BY <2>1, <2>3
  <2> QED
    BY <1>18, <2>2, <2>3 DEF Reaped
<1>19. ASSUME ReaperDies PROVE TypeInv'
  <2>1. /\ slock' \in [Request -> Task \cup {Nobody}]
        /\ mlock' = Nobody
        /\ job' = [job EXCEPT ![Reaper] = "none"]
        /\ pc' = [pc EXCEPT ![Reaper] = "dead"]
    BY <1>19 DEF ReaperDies
  <2>2. UNCHANGED <<req, sess, todo, cutoff, sessions, sessionVars, diskVars>>
    BY <1>19 DEF ReaperDies
  <2> QED
    BY <2>1, <2>2
<1>20. ASSUME NEW r \in Request, ThreadWrite(r) PROVE TypeInv'
  <2>1. sess[r] \in Request /\ PathOf(sess[r]) \in Path
    BY <1>20, PathType DEF ThreadWrite
  <2>2. temp' \in [Path -> Content \cup {NoFile}]
    <3> DEFINE old == temp[PathOf(sess[r])]
               new == IF fh[sess[r]] = "none" THEN Overlay(Blank, Span(r), req[r].upload)
                      ELSE IF old = NoFile THEN NoFile
                      ELSE Overlay(old, Span(r), req[r].upload)
    <3>1. old \in Content \cup {NoFile} /\ req[r].upload \in Upload
      BY <2>1
    <3>2. new \in Content \cup {NoFile}
      BY <3>1, OverlayType
    <3>3. temp' = [temp EXCEPT ![PathOf(sess[r])] = new]
      BY <1>20 DEF ThreadWrite
    <3> QED
      BY <3>2, <3>3
  <2>3. received' \in [Request -> SUBSET Byte]
    BY <1>20, <2>1, SpanType DEF ThreadWrite
  <2> QED
    BY <1>20, <2>1, <2>2, <2>3 DEF ThreadWrite, JobEnds
<1>21. ASSUME NEW r \in Request, ThreadWriteFails(r) PROVE TypeInv'
  <2>1. sess[r] \in Request /\ PathOf(sess[r]) \in Path
    BY <1>21, PathType DEF ThreadWriteFails
  <2>2. temp' \in [Path -> Content \cup {NoFile}]
    <3>1. CASE UNCHANGED temp
      BY <3>1
    <3>2. CASE ~UNCHANGED temp
      <4> DEFINE old == temp[PathOf(sess[r])]
                 new(S) == IF fh[sess[r]] = "none" THEN Overlay(Blank, S, req[r].upload)
                           ELSE IF old = NoFile THEN NoFile
                           ELSE Overlay(old, S, req[r].upload)
      <4>1. PICK S : temp' = [temp EXCEPT ![PathOf(sess[r])] = new(S)]
        BY <1>21, <3>2 DEF ThreadWriteFails
      <4>2. old \in Content \cup {NoFile} /\ req[r].upload \in Upload
        BY <2>1
      <4>3. new(S) \in Content \cup {NoFile}
        BY <4>2, OverlayType
      <4> QED
        BY <4>1, <4>3
    <3> QED
      BY <3>1, <3>2
  <2> QED
    BY <1>21, <2>1, <2>2 DEF ThreadWriteFails, JobEnds
<1>22. ASSUME NEW r \in Request, ThreadSave(r) PROVE TypeInv'
  <2>1. sess[r] \in Request /\ PathOf(sess[r]) \in Path /\ KeyOfRequest(r) \in Key
    BY <1>22, PathType, KeyType DEF ThreadSave
  <2>2. archive' \in SUBSET Archived
    BY <1>22, <2>1 DEF ThreadSave
  <2>3. pc[r] = "finalize"
    BY <1>22 DEF ThreadSave
  <2>4. job' = [job EXCEPT ![r] = "dispose"] \/ job' = [job EXCEPT ![r] = "failed"]
    BY <1>22 DEF ThreadSave, JobEnds
  <2>5. fh' = [fh EXCEPT ![sess[r]] = "none"]
    BY <1>22 DEF ThreadSave
  <2>6. UNCHANGED <<pc, req, sess, todo, cutoff, sessions, lockVars, received, finalized, births, born,
                    leftover, temp>>
    BY <1>22 DEF ThreadSave
  <2>7. TypeOK'
    <3>1. job' \in [Task -> JobState]
      <4>1. CASE job' = [job EXCEPT ![r] = "dispose"]
        BY <4>1
      <4>2. CASE job' = [job EXCEPT ![r] = "failed"]
        BY <4>2
      <4> QED
        BY <2>4, <4>1, <4>2
    <3>2. fh' \in [Request -> {"none", "open", "dirty", "closed"}]
      BY <2>5
    <3> QED
      BY <2>2, <2>6, <3>1, <3>2
  <2>8. Phases'
    BY <2>3, <2>4, <2>6
  <2> QED
    BY <2>7, <2>8
<1>23. ASSUME NEW r \in Request, ThreadDispose(r) PROVE TypeInv'
  <2>1. temp' \in [Path -> Content \cup {NoFile}]
    BY <1>23 DEF ThreadDispose
  <2>2. pc[r] = "finalize" /\ (job' = [job EXCEPT ![r] = "ok"] \/ job' = [job EXCEPT ![r] = "failed"])
    BY <1>23 DEF ThreadDispose, JobEnds
  <2>3. UNCHANGED <<pc, req, sess, todo, cutoff, sessions, lockVars, sessionVars, archive>>
    BY <1>23 DEF ThreadDispose
  <2>4. TypeOK'
    <3>1. job' \in [Task -> JobState]
      <4>1. CASE job' = [job EXCEPT ![r] = "ok"]
        BY <4>1
      <4>2. CASE job' = [job EXCEPT ![r] = "failed"]
        BY <4>2
      <4> QED
        BY <2>2, <4>1, <4>2
    <3> QED
      BY <2>1, <2>3, <3>1
  <2>5. Phases'
    <3>1. UNCHANGED <<pc, sess>>
      BY <2>3
    <3> QED
      BY <2>2, <3>1
  <2> QED
    BY <2>4, <2>5
<1>24. ASSUME NEW t \in Task, ThreadDiscard(t) PROVE TypeInv'
  <2>1. temp' \in [Path -> Content \cup {NoFile}]
    BY <1>24 DEF ThreadDiscard
  <2>2. fh' \in [Request -> {"none", "open", "dirty", "closed"}]
    BY <1>24 DEF ThreadDiscard
  <2>3. pc[t] = "discard"
    BY <1>24 DEF ThreadDiscard
  <2>4. job' = [job EXCEPT ![t] = "ok"] \/ job' = [job EXCEPT ![t] = "failed"]
    BY <1>24 DEF ThreadDiscard, JobEnds
  <2>5. UNCHANGED <<pc, req, sess, todo, cutoff, sessions, lockVars, received, finalized, births, born, archive>>
    BY <1>24 DEF ThreadDiscard
  <2>8. leftover' \in SUBSET (Request \cup {NoSession})
    BY <1>24 DEF ThreadDiscard
  <2>6. TypeOK'
    <3>1. job' \in [Task -> JobState]
      <4>1. CASE job' = [job EXCEPT ![t] = "ok"]
        BY <4>1
      <4>2. CASE job' = [job EXCEPT ![t] = "failed"]
        BY <4>2
      <4> QED
        BY <2>4, <4>1, <4>2
    <3> QED
      BY <2>1, <2>2, <2>5, <2>8, <3>1
  <2>7. Phases'
    BY <2>3, <2>4, <2>5
  <2> QED
    BY <2>6, <2>7
<1>25. CASE UNCHANGED vars
    BY <1>25 DEF vars
<1>26. QED
    BY <1>1, <1>2, <1>3, <1>4, <1>5, <1>6, <1>7, <1>8, <1>9, <1>10, <1>11, <1>12, <1>13, <1>14, <1>15, <1>16, <1>17, <1>18, <1>19, <1>20, <1>21, <1>22, <1>23, <1>24, <1>25 DEF Next, SaveChunk, Cleanup, Thread

LEMMA TypeInit == Init => TypeInv
  BY NameAssumption, ChunkAssumption
  DEF Init, TypeInv, TypeOK, Phases, Task, RequestPc, ReaperPc, JobState, Path

(* Every variable keeps its type, in every behaviour. *)
THEOREM Typed == Spec => []TypeOK
<1>1. Init => TypeInv
    BY TypeInit
<1>2. TypeInv /\ [Next]_vars => TypeInv'
    BY TypeStep
<1>3. TypeInv => TypeOK
    BY DEF TypeInv
<1> QED
    BY <1>1, <1>2, <1>3, PTL DEF Spec

-----------------------------------------------------------------------------
(* The lock discipline *)

LEMMA LocksStep == Discipline /\ [Next]_vars => Locks'
<1> SUFFICES ASSUME Discipline, [Next]_vars PROVE Locks'
    OBVIOUS
<1>0. TypeInv'
    BY TypeStep DEF Discipline
<1> USE NameAssumption DEF Discipline, TypeInv, TypeOK, Phases, Locks, InManager, InSession, Task,
                           vars, taskVars, lockVars, sessionVars, diskVars, RequestPc, ReaperPc
<1>1. ASSUME NEW r \in Request, Arrive(r) PROVE Locks'
    BY <1>0, <1>1 DEF Arrive
<1>2. ASSUME NEW r \in Request, SkipLate(r) \/ StartFails(r) PROVE Locks'
    BY <1>0, <1>2 DEF SkipLate, StartFails
<1>3. ASSUME NEW r \in Request, StartSession(r) PROVE Locks'
    BY <1>0, <1>3 DEF StartSession, Create, Newborn
<1>4. ASSUME NEW r \in Request, FindSession(r) PROVE Locks'
    BY <1>0, <1>4 DEF FindSession
<1>5. ASSUME NEW r \in Request, LockOld(r) PROVE Locks'
    BY <1>0, <1>5 DEF LockOld
<1>6. ASSUME NEW r \in Request, Restart(r) PROVE Locks'
    BY <1>0, <1>6 DEF Restart, Create, Newborn
<1>7. ASSUME NEW r \in Request, RestartFails(r) PROVE Locks'
    BY <1>0, <1>7 DEF RestartFails
<1>8. ASSUME NEW r \in Request, LockSession(r) PROVE Locks'
    BY <1>0, <1>8 DEF LockSession
<1>9. ASSUME NEW r \in Request, DropFinalized(r) PROVE Locks'
    BY <1>0, <1>9 DEF DropFinalized
<1>10. ASSUME NEW r \in Request, WriteEnds(r) PROVE Locks'
    BY <1>0, <1>10 DEF WriteEnds
<1>11. ASSUME NEW r \in Request, StartFinalize(r) PROVE Locks'
    BY <1>0, <1>11 DEF StartFinalize
<1>12. ASSUME NEW r \in Request, FinalizeEnds(r) PROVE Locks'
    BY <1>0, <1>12 DEF FinalizeEnds
<1>13. ASSUME NEW r \in Request, Remove(r) PROVE Locks'
    BY <1>0, <1>13 DEF Remove
<1>14. ASSUME Wake PROVE Locks'
    BY <1>0, <1>14 DEF Wake
<1>15. ASSUME NothingStale PROVE Locks'
    BY <1>0, <1>15 DEF NothingStale, Stale
<1>16. ASSUME Collect PROVE Locks'
    BY <1>0, <1>16 DEF Collect, Visit, Stale
<1>17. ASSUME LockStale PROVE Locks'
    BY <1>0, <1>17 DEF LockStale
<1>18. ASSUME Reaped PROVE Locks'
    BY <1>0, <1>18 DEF Reaped, Visit
<1>19. ASSUME ReaperDies PROVE Locks'
    BY <1>0, <1>19 DEF ReaperDies
<1>20. ASSUME NEW r \in Request, ThreadWrite(r) PROVE Locks'
    BY <1>0, <1>20 DEF ThreadWrite, JobEnds
<1>21. ASSUME NEW r \in Request, ThreadWriteFails(r) PROVE Locks'
    BY <1>0, <1>21 DEF ThreadWriteFails, JobEnds
<1>22. ASSUME NEW r \in Request, ThreadSave(r) PROVE Locks'
    BY <1>0, <1>22 DEF ThreadSave, JobEnds
<1>23. ASSUME NEW r \in Request, ThreadDispose(r) PROVE Locks'
    BY <1>0, <1>23 DEF ThreadDispose, JobEnds
<1>24. ASSUME NEW t \in Task, ThreadDiscard(t) PROVE Locks'
    BY <1>0, <1>24 DEF ThreadDiscard, JobEnds
<1>25. CASE UNCHANGED vars
    BY <1>25 DEF vars
<1>26. QED
    BY <1>1, <1>2, <1>3, <1>4, <1>5, <1>6, <1>7, <1>8, <1>9, <1>10, <1>11, <1>12, <1>13, <1>14, <1>15, <1>16, <1>17, <1>18, <1>19, <1>20, <1>21, <1>22, <1>23, <1>24, <1>25 DEF Next, SaveChunk, Cleanup, Thread

(* Replacing one entry keeps every other session under its creator's key. *)
LEMMA EntryReplaced ==
  ASSUME NEW k \in Key, NEW s, sessions \in [Key -> Request \cup {NoSession}], KeyedByCreator,
         sessions' = [sessions EXCEPT ![k] = s], req' = req,
         s = NoSession \/ KeyOfRequest(s) = k
  PROVE  KeyedByCreator'
<1>1. ASSUME NEW j \in Key, sessions'[j] # NoSession PROVE KeyOfRequest(sessions[j])' = j
  <2>1. CASE j = k
    <3>1. sessions'[j] = s
      BY <2>1
    <3> QED
      BY <1>1, <2>1, <3>1 DEF KeyOfRequest
  <2>2. CASE j # k
    <3>1. sessions'[j] = sessions[j]
      BY <2>2
    <3>2. KeyOfRequest(sessions[j]) = j
      BY <1>1, <3>1 DEF KeyedByCreator
    <3> QED
      BY <3>1, <3>2 DEF KeyOfRequest
  <2> QED
    BY <2>1, <2>2
<1> QED
  BY <1>1 DEF KeyedByCreator

(* A task that goes on to another place finds its session as before, since *)
(* whoever has to find one there had to find it here.                      *)
LEMMA TableMoves ==
  ASSUME TypeOK, Table, NEW t \in Task, NEW p, pc' = [pc EXCEPT ![t] = p],
         UNCHANGED <<req, sess, sessions, todo>>,
         \/ p \notin {"old", "discard", "session", "write", "finalize", "remove"}
         \/ pc[t] \in {"old", "discard", "session", "write", "finalize"}
  PROVE  Table'
<1>1. \A u \in Task : u # t => pc'[u] = pc[u]
    BY DEF TypeOK
<1>2. pc'[t] = p
    BY DEF TypeOK
<1>3. KeyedByCreator'
    BY DEF Table, KeyedByCreator, KeyOfRequest
<1>4. RequestsFind'
    BY <1>1, <1>2 DEF Table, RequestsFind, KeyOfRequest, Live, Task
<1>5. ReaperFinds'
  <2>1. pc[Reaper] \in ReaperPc
    BY DEF TypeOK
  <2> QED
    BY <1>1, <1>2, <2>1 DEF Table, ReaperFinds, KeyOfRequest, Live, Task, ReaperPc
<1> QED
    BY <1>3, <1>4, <1>5 DEF Table

LEMMA MovesOnly ==
  ASSUME Discipline,
         \/ \E r \in Request :
              \/ Arrive(r) \/ SkipLate(r) \/ StartFails(r) \/ LockOld(r) \/ RestartFails(r) \/ LockSession(r)
              \/ DropFinalized(r) \/ WriteEnds(r) \/ StartFinalize(r) \/ FinalizeEnds(r)
         \/ Wake \/ NothingStale \/ LockStale \/ ReaperDies
  PROVE  Table'
<1> USE TableMoves DEF Discipline, TypeInv, Task
<1>1. ASSUME NEW r \in Request, Arrive(r) PROVE Table'
    BY <1>1 DEF Arrive
<1>2. ASSUME NEW r \in Request, SkipLate(r) \/ StartFails(r) PROVE Table'
    BY <1>2 DEF SkipLate, StartFails
<1>3. ASSUME NEW r \in Request, LockOld(r) PROVE Table'
    BY <1>3 DEF LockOld
<1>4. ASSUME NEW r \in Request, RestartFails(r) PROVE Table'
    BY <1>4 DEF RestartFails
<1>5. ASSUME NEW r \in Request, LockSession(r) PROVE Table'
    BY <1>5 DEF LockSession
<1>6. ASSUME NEW r \in Request, DropFinalized(r) PROVE Table'
    BY <1>6 DEF DropFinalized
<1>7. ASSUME NEW r \in Request, WriteEnds(r) PROVE Table'
    BY <1>7 DEF WriteEnds
<1>8. ASSUME NEW r \in Request, StartFinalize(r) PROVE Table'
    BY <1>8 DEF StartFinalize
<1>9. ASSUME NEW r \in Request, FinalizeEnds(r) PROVE Table'
    BY <1>9 DEF FinalizeEnds
<1>10. ASSUME Wake PROVE Table'
    BY <1>10 DEF Wake
<1>11. ASSUME NothingStale PROVE Table'
    BY <1>11 DEF NothingStale
<1>12. ASSUME LockStale PROVE Table'
    BY <1>12 DEF LockStale
<1>13. ASSUME ReaperDies PROVE Table'
    BY <1>13 DEF ReaperDies
<1> QED
    BY <1>1, <1>2, <1>3, <1>4, <1>5, <1>6, <1>7,
       <1>8, <1>9, <1>10, <1>11, <1>12, <1>13

LEMMA ThreadsKeepTable == ASSUME Table, NEW t \in Task, Thread(t) PROVE Table'
<1>1. UNCHANGED <<pc, req, sess, sessions, todo>>
    BY DEF Thread, ThreadWrite, ThreadWriteFails, ThreadSave, ThreadDispose, ThreadDiscard
<1> QED
    BY <1>1 DEF Table, KeyedByCreator, RequestsFind, ReaperFinds, KeyOfRequest, Live

LEMMA TableStep == Discipline /\ [Next]_vars => Table'
<1> SUFFICES ASSUME Discipline, [Next]_vars PROVE Table'
    OBVIOUS
<1> USE NameAssumption DEF Discipline, TypeInv, TypeOK, Phases, Locks, InManager, InSession, Table, KeyedByCreator,
                           RequestsFind, ReaperFinds, KeyOfRequest, Live, Task,
                           vars, taskVars, lockVars, sessionVars, diskVars, RequestPc, ReaperPc
<1>1. ASSUME NEW r \in Request, StartSession(r) PROVE Table'
  <2>1. /\ KeyOfRequest(r) \in Key /\ sessions[KeyOfRequest(r)] = NoSession
        /\ sessions' = [sessions EXCEPT ![KeyOfRequest(r)] = r]
        /\ sess' = [sess EXCEPT ![r] = r] /\ pc' = [pc EXCEPT ![r] = "write"]
        /\ UNCHANGED <<req, todo>>
    BY <1>1, KeyType DEF StartSession, Create
  <2>2. KeyedByCreator'
    <3> HIDE DEF KeyedByCreator, KeyOfRequest
    <3> QED
      BY <2>1, EntryReplaced DEF TypeOK
  <2>3. \A s \in Request : Live(s) => Live(s)'
    BY <2>1
  <2>4. RequestsFind'
    <3> HIDE DEF Discipline, KeyedByCreator, ReaperFinds, Locks
    <3> QED
      BY <2>1, <2>3 DEF Discipline, Table
  <2>5. ReaperFinds'
    <3> HIDE DEF Discipline, KeyedByCreator, RequestsFind, Locks
    <3>1. sess'[Reaper] = sess[Reaper] /\ pc'[Reaper] = pc[Reaper] /\ todo' = todo
      BY <2>1
    <3>2. \A k \in todo : sessions[k] # NoSession => k # KeyOfRequest(r)
      BY <2>1
    <3> QED
      BY <2>1, <2>3, <3>1, <3>2 DEF Discipline, Table
  <2> QED
    BY <2>2, <2>4, <2>5
<1>2. ASSUME NEW r \in Request, FindSession(r) PROVE Table'
  <2>1. PICK s \in Request :
          /\ sessions[KeyOfRequest(r)] = s /\ KeyOfRequest(r) \in Key
          /\ sess' = [sess EXCEPT ![r] = s]
    <3>1. KeyOfRequest(r) \in Key
      BY KeyType
    <3>2. sessions[KeyOfRequest(r)] \in Request
      BY <1>2, <3>1 DEF FindSession
    <3>3. sess' = [sess EXCEPT ![r] = sessions[KeyOfRequest(r)]]
      BY <1>2 DEF FindSession
    <3> QED
      BY <3>1, <3>2, <3>3
  <2>2. PICK p \in {"old", "session"} : pc' = [pc EXCEPT ![r] = p]
    BY <1>2 DEF FindSession
  <2>3. /\ pc[r] = "manager"
        /\ UNCHANGED <<req, job, todo, cutoff, sessions, slock, sessionVars, diskVars>>
    BY <1>2 DEF FindSession
  <2>4. KeyOfRequest(s) = KeyOfRequest(r) /\ Live(s)
    <3>1. s # NoSession
      OBVIOUS
    <3> QED
      BY <2>1, <3>1
  <2>5. KeyedByCreator' /\ ReaperFinds'
    BY <2>1, <2>2, <2>3
  <2>6. ASSUME NEW q \in Request, q # r PROVE sess'[q] = sess[q] /\ pc'[q] = pc[q]
    BY <2>1, <2>2, <2>6
  <2>7. sess'[r] = s
    BY <2>1
  <2>8. RequestsFind'
    BY <2>3, <2>4, <2>6, <2>7
  <2> QED
    BY <2>5, <2>8
<1>3. ASSUME NEW r \in Request, Restart(r) PROVE Table'
  <2>1. /\ KeyOfRequest(r) \in Key /\ mlock = r /\ slock[sess[r]] = r
        /\ sessions[KeyOfRequest(r)] = sess[r] /\ pc[Reaper] \notin {"session", "discard"}
        /\ sessions' = [sessions EXCEPT ![KeyOfRequest(r)] = r]
        /\ sess' = [sess EXCEPT ![r] = r] /\ pc' = [pc EXCEPT ![r] = "write"]
        /\ UNCHANGED <<req, todo>>
    BY <1>3, KeyType DEF Restart, Create
  <2>2. KeyedByCreator'
    <3> HIDE DEF KeyedByCreator, KeyOfRequest
    <3> QED
      BY <2>1, EntryReplaced DEF TypeOK
  <2>3. \A q \in Request \ {r} : pc[q] \in {"old", "discard", "session", "write", "finalize"}
          => pc[q] \in {"write", "finalize"} /\ sess[q] # sess[r]
    BY <1>3, <2>1 DEF Restart
  <2>4. \A s \in Request \ {sess[r]} : Live(s) => Live(s)'
    BY <2>1
  <2>5. RequestsFind'
    BY <2>1, <2>3, <2>4
  <2>6. ReaperFinds'
    BY <2>1
  <2> QED
    BY <2>2, <2>5, <2>6
<1>4. ASSUME NEW r \in Request, Remove(r) PROVE Table'
  <2>1. KeyOfRequest(r) \in Key /\ sess[r] \in Request
    BY <1>4, KeyType DEF Remove
  <2>2. /\ \A q \in Request : pc[q] \notin {"old", "discard", "session"}
        /\ pc[Reaper] \notin {"session", "discard"}
    BY <1>4 DEF Remove
  <2>3. \A q \in Request : pc[q] \in {"write", "finalize"} => sess[q] # sess[r]
    BY <1>4 DEF Remove, Finalizers
  <2>4. KeyedByCreator'
    <3> DEFINE left == IF sessions[KeyOfRequest(r)] = sess[r] THEN NoSession
                       ELSE sessions[KeyOfRequest(r)]
    <3>1. sessions' = [sessions EXCEPT ![KeyOfRequest(r)] = left] /\ req' = req
      BY <1>4 DEF Remove
    <3>2. left = NoSession \/ KeyOfRequest(left) = KeyOfRequest(r)
      BY <2>1
    <3> HIDE DEF KeyedByCreator, KeyOfRequest, left
    <3> QED
      BY <2>1, <3>1, <3>2, EntryReplaced DEF TypeOK
  <2>5. RequestsFind'
    BY <1>4, <2>1, <2>2, <2>3 DEF Remove
  <2>6. ReaperFinds'
    BY <1>4, <2>2 DEF Remove
  <2> QED
    BY <2>4, <2>5, <2>6
<1>5. ASSUME Collect PROVE Table'
  <2>1. PICK k \in Stale : /\ sess' = [sess EXCEPT ![Reaper] = sessions[k]]
                           /\ todo' = Stale \ {k}
                           /\ pc' = [pc EXCEPT ![Reaper] = "session"]
    BY <1>5 DEF Collect, Visit
  <2>2. sessions[k] \in Request /\ KeyOfRequest(sessions[k]) = k
    BY <2>1 DEF Stale
  <2>3. \A j \in Stale \ {k} : sessions[j] # NoSession /\ sessions[j] # sessions[k]
    BY <2>2 DEF Stale
  <2>4. UNCHANGED <<req, sessions>>
    BY <1>5 DEF Collect
  <2>5. KeyedByCreator'
    BY <2>4
  <2>6. RequestsFind'
    <3>1. \A r \in Request : sess'[r] = sess[r] /\ pc'[r] = pc[r]
      BY <2>1
    <3> QED
      BY <2>4, <3>1
  <2>7. ReaperFinds'
    <3>1. /\ sess'[Reaper] = sessions[k] /\ todo' = Stale \ {k}
          /\ Live(sessions[k])
      BY <2>1, <2>2
    <3> HIDE DEF Discipline, KeyedByCreator, RequestsFind, Locks
    <3> QED
      BY <2>2, <2>3, <2>4, <3>1
  <2> QED
    BY <2>5, <2>6, <2>7
<1>6. ASSUME Reaped PROVE Table'
  <2>1. /\ sess[Reaper] \in Request /\ Live(sess[Reaper]) /\ mlock = Reaper
        /\ slock[sess[Reaper]] = Reaper
        /\ sessions' = [sessions EXCEPT ![KeyOfRequest(sess[Reaper])] = NoSession]
        /\ UNCHANGED req
    <3>1. pc[Reaper] = "discard" /\ sess[Reaper] \in Request /\ Live(sess[Reaper])
      BY <1>6 DEF Reaped
    <3>2. mlock = Reaper /\ slock[sess[Reaper]] = Reaper
      BY <3>1
    <3> QED
      BY <1>6, <3>1, <3>2 DEF Reaped
  <2>2. \A r \in Request : pc[r] \in {"write", "finalize"} => sess[r] # sess[Reaper]
    BY <2>1
  <2>3. \A r \in Request : pc[r] \notin {"old", "discard", "session"}
    <3>1. \A r \in Request : ~InManager(r)
      BY <2>1
    <3> HIDE DEF Discipline, KeyedByCreator, RequestsFind, ReaperFinds, Locks
    <3> QED
      BY <3>1
  <2>6. KeyedByCreator'
    <3>1. KeyOfRequest(sess[Reaper]) \in Key
      BY <2>1, KeyType
    <3> HIDE DEF KeyedByCreator, KeyOfRequest
    <3> QED
      BY <2>1, <3>1, EntryReplaced DEF TypeOK
  <2>7. \A s \in Request \ {sess[Reaper]} : Live(s) => Live(s)'
    BY <2>1
  <2>8. ASSUME \A r \in Request : sess'[r] = sess[r] /\ pc'[r] = pc[r] PROVE RequestsFind'
    <3>1. \A r \in Request :
            pc[r] \in {"write", "finalize"} => sess[r] \in Request \ {sess[Reaper]} /\ Live(sess[r])
      BY <2>2
    <3>2. \A r \in Request :
            pc[r] \in {"write", "finalize", "remove"} => KeyOfRequest(sess[r]) = KeyOfRequest(r)
      <4> HIDE DEF Discipline, KeyedByCreator, ReaperFinds, Locks, KeyOfRequest, Live
      <4> QED
        BY DEF Discipline, Table
    <3>3. \A s : KeyOfRequest(s)' = KeyOfRequest(s)
      BY <2>1
    <3>4. ASSUME NEW r \in Request
          PROVE  /\ pc'[r] \in {"old", "discard", "session", "write", "finalize"} => Live(sess[r])'
                 /\ pc'[r] \in {"old", "discard", "session", "write", "finalize", "remove"}
                      => KeyOfRequest(sess[r])' = KeyOfRequest(r)'
      <4> HIDE DEF Discipline, KeyedByCreator, RequestsFind, ReaperFinds, Locks, KeyOfRequest, Live
      <4> QED
        BY <2>3, <2>7, <2>8, <3>1, <3>2, <3>3
    <3> QED
      BY <2>8, <3>4
  <2>4. CASE todo # {} /\ Visit(todo) /\ UNCHANGED mlock
    <3>1. PICK k \in todo : /\ sess' = [sess EXCEPT ![Reaper] = sessions[k]]
                            /\ todo' = todo \ {k}
                            /\ pc' = [pc EXCEPT ![Reaper] = "session"]
      BY <2>4 DEF Visit
    <3>2. /\ sessions[k] \in Request /\ KeyOfRequest(sessions[k]) = k
          /\ sessions[k] # sess[Reaper]
      BY <1>6, <3>1 DEF Reaped
    <3>3. \A j \in todo \ {k} : sessions[j] # sessions[k]
      BY <1>6, <3>2 DEF Reaped
    <3>4. \A r \in Request : sess'[r] = sess[r] /\ pc'[r] = pc[r]
      BY <3>1
    <3>5. RequestsFind'
      BY <2>8, <3>4
    <3>6. sess'[Reaper] = sessions[k] /\ todo' = todo \ {k}
      BY <3>1
    <3>7. \A j \in Key : j # KeyOfRequest(sess[Reaper]) => sessions'[j] = sessions[j]
      BY <2>1
    <3>8. \A j \in todo : j # KeyOfRequest(sess[Reaper]) /\ sessions[j] # NoSession
      BY <1>6 DEF Reaped
    <3>9. Live(sess[Reaper])'
      <4>1. k # KeyOfRequest(sess[Reaper]) /\ k \in Key
        BY <3>8, <3>1
      <4> QED
        BY <2>1, <3>2, <3>6, <3>7, <4>1
    <3>10. \A j \in todo' : sessions'[j] # NoSession /\ sessions'[j] # sess'[Reaper]
      BY <3>3, <3>6, <3>7, <3>8
    <3>11. ReaperFinds'
      <4> HIDE DEF Discipline, KeyedByCreator, RequestsFind, Locks, Live
      <4> QED
        BY <2>1, <3>2, <3>6, <3>9, <3>10
    <3> QED
      BY <2>6, <3>5, <3>11
  <2>5. CASE /\ todo = {}
             /\ mlock' = Nobody
             /\ pc' = [pc EXCEPT ![Reaper] = "asleep"]
             /\ UNCHANGED <<sess, todo>>
    <3>1. \A r \in Request : sess'[r] = sess[r] /\ pc'[r] = pc[r]
      BY <2>5
    <3>2. RequestsFind'
      BY <2>8, <3>1
    <3>3. ReaperFinds'
      BY <2>5
    <3> QED
      BY <2>6, <3>2, <3>3
  <2> QED
    BY <1>6, <2>4, <2>5 DEF Reaped
<1>7. CASE UNCHANGED vars
    BY <1>7 DEF vars
<1>8. CASE \E t \in Task : Thread(t)
    BY <1>8, ThreadsKeepTable
<1> HIDE DEF Discipline, Table
<1> QED
    BY <1>1, <1>2, <1>3, <1>4, <1>5, <1>6, <1>7, <1>8, MovesOnly
    DEF Next, SaveChunk, Cleanup

LEMMA NewbornStep == Discipline /\ [Next]_vars => Newborn'
<1> SUFFICES ASSUME Discipline, [Next]_vars PROVE Newborn'
    OBVIOUS
<1>0. TypeInv'
    BY TypeStep DEF Discipline
<1> USE NameAssumption DEF Discipline, TypeInv, TypeOK, Phases, Table, Newborn, Task,
                           vars, taskVars, lockVars, sessionVars, diskVars, RequestPc, ReaperPc,
                           KeyedByCreator, RequestsFind, ReaperFinds
<1>1. ASSUME NEW r \in Request, Arrive(r) PROVE Newborn'
    BY <1>0, <1>1 DEF Arrive
<1>2. ASSUME NEW r \in Request, SkipLate(r) \/ StartFails(r) PROVE Newborn'
    BY <1>0, <1>2 DEF SkipLate, StartFails
<1>3. ASSUME NEW r \in Request, StartSession(r) PROVE Newborn'
    BY <1>0, <1>3 DEF StartSession, Create
<1>4. ASSUME NEW r \in Request, FindSession(r) PROVE Newborn'
  <2>1. PICK s \in Request :
          /\ sessions[KeyOfRequest(r)] = s /\ KeyOfRequest(r) \in Key
          /\ sess' = [sess EXCEPT ![r] = s]
    <3>1. KeyOfRequest(r) \in Key
      BY KeyType
    <3>2. sessions[KeyOfRequest(r)] \in Request
      BY <1>4, <3>1 DEF FindSession
    <3>3. sess' = [sess EXCEPT ![r] = sessions[KeyOfRequest(r)]]
      BY <1>4 DEF FindSession
    <3> QED
      BY <3>1, <3>2, <3>3
  <2>2. PICK p \in {"old", "session"} : pc' = [pc EXCEPT ![r] = p]
    BY <1>4 DEF FindSession
  <2>3. /\ pc[r] = "manager"
        /\ UNCHANGED <<req, job, todo, cutoff, sessions, slock, sessionVars, diskVars>>
    BY <1>4 DEF FindSession
  <2>4. born[s] # 0
    BY <2>1
  <2>5. ASSUME NEW q \in Request, pc'[q] \in {"idle", "manager", "old", "discard", "session"}
        PROVE  pc[q] \in {"idle", "manager", "old", "discard", "session"}
    BY <2>2, <2>3, <2>5
  <2>6. ASSUME NEW q \in Request, born[q] = 0, NEW t \in Task PROVE sess'[t] # q
    BY <2>1, <2>4, <2>6
  <2> QED
    BY <2>3, <2>5, <2>6
<1>5. ASSUME NEW r \in Request, LockOld(r) PROVE Newborn'
    BY <1>0, <1>5 DEF LockOld
<1>6. ASSUME NEW r \in Request, Restart(r) PROVE Newborn'
    BY <1>0, <1>6 DEF Restart, Create
<1>7. ASSUME NEW r \in Request, RestartFails(r) PROVE Newborn'
    BY <1>0, <1>7 DEF RestartFails
<1>8. ASSUME NEW r \in Request, LockSession(r) PROVE Newborn'
    BY <1>0, <1>8 DEF LockSession
<1>9. ASSUME NEW r \in Request, DropFinalized(r) PROVE Newborn'
    BY <1>0, <1>9 DEF DropFinalized
<1>10. ASSUME NEW r \in Request, WriteEnds(r) PROVE Newborn'
    BY <1>0, <1>10 DEF WriteEnds
<1>11. ASSUME NEW r \in Request, StartFinalize(r) PROVE Newborn'
    BY <1>0, <1>11 DEF StartFinalize
<1>12. ASSUME NEW r \in Request, FinalizeEnds(r) PROVE Newborn'
    BY <1>0, <1>12 DEF FinalizeEnds
<1>13. ASSUME NEW r \in Request, Remove(r) PROVE Newborn'
    BY <1>0, <1>13 DEF Remove
<1>14. ASSUME Wake PROVE Newborn'
    BY <1>0, <1>14 DEF Wake
<1>15. ASSUME NothingStale PROVE Newborn'
    BY <1>0, <1>15 DEF NothingStale, Stale
<1>16. ASSUME Collect PROVE Newborn'
    BY <1>0, <1>16 DEF Collect, Visit, Stale
<1>17. ASSUME LockStale PROVE Newborn'
    BY <1>0, <1>17 DEF LockStale
<1>18. ASSUME Reaped PROVE Newborn'
    BY <1>0, <1>18 DEF Reaped, Visit
<1>19. ASSUME ReaperDies PROVE Newborn'
    BY <1>0, <1>19 DEF ReaperDies
<1>20. ASSUME NEW r \in Request, ThreadWrite(r) PROVE Newborn'
    BY <1>0, <1>20 DEF ThreadWrite, JobEnds
<1>21. ASSUME NEW r \in Request, ThreadWriteFails(r) PROVE Newborn'
    BY <1>0, <1>21 DEF ThreadWriteFails, JobEnds
<1>22. ASSUME NEW r \in Request, ThreadSave(r) PROVE Newborn'
    BY <1>0, <1>22 DEF ThreadSave, JobEnds
<1>23. ASSUME NEW r \in Request, ThreadDispose(r) PROVE Newborn'
    BY <1>0, <1>23 DEF ThreadDispose, JobEnds
<1>24. ASSUME NEW t \in Task, ThreadDiscard(t) PROVE Newborn'
    BY <1>0, <1>24 DEF ThreadDiscard, JobEnds
<1>25. CASE UNCHANGED vars
    BY <1>25 DEF vars
<1>26. QED
    BY <1>1, <1>2, <1>3, <1>4, <1>5, <1>6, <1>7, <1>8, <1>9, <1>10, <1>11, <1>12, <1>13, <1>14, <1>15, <1>16, <1>17, <1>18, <1>19, <1>20, <1>21, <1>22, <1>23, <1>24, <1>25 DEF Next, SaveChunk, Cleanup, Thread

LEMMA FinalizersStep == Discipline /\ [Next]_vars => Finalizers'
<1> SUFFICES ASSUME Discipline, [Next]_vars PROVE Finalizers'
    OBVIOUS
<1>0. TypeInv'
    BY TypeStep DEF Discipline
<1> USE NameAssumption DEF Discipline, TypeInv, TypeOK, Phases, Locks, InSession, Newborn, Finalizers, Task,
                           vars, taskVars, lockVars, sessionVars, diskVars, RequestPc, ReaperPc
<1>1. ASSUME NEW r \in Request, Arrive(r) PROVE Finalizers'
    BY <1>0, <1>1 DEF Arrive
<1>2. ASSUME NEW r \in Request, SkipLate(r) \/ StartFails(r) PROVE Finalizers'
  <2>1. pc' = [pc EXCEPT ![r] = "done"] /\ UNCHANGED <<finalized, sess>>
    BY <1>2 DEF SkipLate, StartFails
  <2> QED
    BY <2>1
<1>3. ASSUME NEW r \in Request, StartSession(r) PROVE Finalizers'
    BY <1>0, <1>3 DEF StartSession, Create
<1>4. ASSUME NEW r \in Request, FindSession(r) PROVE Finalizers'
    BY <1>0, <1>4 DEF FindSession
<1>5. ASSUME NEW r \in Request, LockOld(r) PROVE Finalizers'
    BY <1>0, <1>5 DEF LockOld
<1>6. ASSUME NEW r \in Request, Restart(r) PROVE Finalizers'
    BY <1>0, <1>6 DEF Restart, Create
<1>7. ASSUME NEW r \in Request, RestartFails(r) PROVE Finalizers'
    BY <1>0, <1>7 DEF RestartFails
<1>8. ASSUME NEW r \in Request, LockSession(r) PROVE Finalizers'
    BY <1>0, <1>8 DEF LockSession
<1>9. ASSUME NEW r \in Request, DropFinalized(r) PROVE Finalizers'
    BY <1>0, <1>9 DEF DropFinalized
<1>10. ASSUME NEW r \in Request, WriteEnds(r) PROVE Finalizers'
    BY <1>0, <1>10 DEF WriteEnds
<1>11. ASSUME NEW r \in Request, StartFinalize(r) PROVE Finalizers'
    BY <1>0, <1>11 DEF StartFinalize
<1>12. ASSUME NEW r \in Request, FinalizeEnds(r) PROVE Finalizers'
    BY <1>0, <1>12 DEF FinalizeEnds
<1>13. ASSUME NEW r \in Request, Remove(r) PROVE Finalizers'
    BY <1>0, <1>13 DEF Remove
<1>14. ASSUME Wake PROVE Finalizers'
    BY <1>0, <1>14 DEF Wake
<1>15. ASSUME NothingStale PROVE Finalizers'
    BY <1>0, <1>15 DEF NothingStale, Stale
<1>16. ASSUME Collect PROVE Finalizers'
    BY <1>0, <1>16 DEF Collect, Visit, Stale
<1>17. ASSUME LockStale PROVE Finalizers'
    BY <1>0, <1>17 DEF LockStale
<1>18. ASSUME Reaped PROVE Finalizers'
  <2>1. finalized' = finalized /\ \A r \in Request : pc'[r] = pc[r] /\ sess'[r] = sess[r]
    BY <1>18 DEF Reaped, Visit
  <2> QED
    BY <2>1 DEF Finalizers
<1>19. ASSUME ReaperDies PROVE Finalizers'
    BY <1>0, <1>19 DEF ReaperDies
<1>20. ASSUME NEW r \in Request, ThreadWrite(r) PROVE Finalizers'
    BY <1>0, <1>20 DEF ThreadWrite, JobEnds
<1>21. ASSUME NEW r \in Request, ThreadWriteFails(r) PROVE Finalizers'
    BY <1>0, <1>21 DEF ThreadWriteFails, JobEnds
<1>22. ASSUME NEW r \in Request, ThreadSave(r) PROVE Finalizers'
    BY <1>0, <1>22 DEF ThreadSave, JobEnds
<1>23. ASSUME NEW r \in Request, ThreadDispose(r) PROVE Finalizers'
    BY <1>0, <1>23 DEF ThreadDispose, JobEnds
<1>24. ASSUME NEW t \in Task, ThreadDiscard(t) PROVE Finalizers'
    BY <1>0, <1>24 DEF ThreadDiscard, JobEnds
<1>25. CASE UNCHANGED vars
    BY <1>25 DEF vars
<1>26. QED
    BY <1>1, <1>2, <1>3, <1>4, <1>5, <1>6, <1>7, <1>8, <1>9, <1>10, <1>11, <1>12, <1>13, <1>14, <1>15, <1>16, <1>17, <1>18, <1>19, <1>20, <1>21, <1>22, <1>23, <1>24, <1>25 DEF Next, SaveChunk, Cleanup, Thread

(* The five parts together are inductive. *)
LEMMA DisciplineInit == Init => Discipline
<1> SUFFICES ASSUME Init PROVE Discipline
    OBVIOUS
<1> USE NameAssumption DEF Init, Task
<1>1. TypeInv
    BY TypeInit
<1>2. Locks
    BY DEF Locks, InManager, InSession
<1>3. Table
    BY DEF Table, KeyedByCreator, RequestsFind, ReaperFinds
<1>4. Newborn /\ Finalizers
    BY DEF Newborn, Finalizers
<1> QED
    BY <1>1, <1>2, <1>3, <1>4 DEF Discipline

LEMMA DisciplineStep == Discipline /\ [Next]_vars => Discipline'
  BY TypeStep, LocksStep, TableStep, NewbornStep, FinalizersStep DEF Discipline

LEMMA Disciplined == Spec => []Discipline
<1>1. Init => Discipline
    BY DisciplineInit
<1>2. Discipline /\ [Next]_vars => Discipline'
    BY DisciplineStep
<1> QED
    BY <1>1, <1>2, PTL DEF Spec

LEMMA DisciplineSeparates == Discipline => OneThreadPerFile
<1> SUFFICES ASSUME Discipline,
                    NEW t \in Task, NEW u \in Task,
                    Running(t), Running(u), PathOf(sess[t]) = PathOf(sess[u])
             PROVE  t = u
    BY DEF OneThreadPerFile
<1> USE NameAssumption DEF Discipline, TypeInv, TypeOK, Task, RequestPc, ReaperPc
<1>1. InSession(t) /\ InSession(u)
    BY DEF Running, InSession, Phases
<1>2. /\ sess[t] \in Request /\ Live(sess[t])
      /\ sess[u] \in Request /\ Live(sess[u])
    BY <1>1 DEF InSession, Phases, Table, RequestsFind, ReaperFinds
<1>3. sess[t] = sess[u]
    BY <1>2 DEF PathOf, Live
<1>4. slock[sess[t]] = t /\ slock[sess[u]] = u
    BY <1>1, <1>2 DEF Locks
<1> QED
    BY <1>3, <1>4

(* No two worker threads are in the same temp file, whatever the requests, *)
(* the reaper and the disk do.                                             *)
THEOREM FilesSeparated == Spec => []OneThreadPerFile
<1>1. Discipline => OneThreadPerFile
    BY DisciplineSeparates
<1> QED
    BY <1>1, Disciplined, PTL

(* The owner of the manager's lock may wait for a session's; the owner of  *)
(* that one awaits its thread, and no lock.                                *)
LEMMA OrderFrees ==
  ASSUME Locks,
         \A t \in Task : InSession(t) => job[t] # "none",
         \A t \in Task : pc[t] \in {"old", "session"} =>
           sess[t] \in Request /\ slock[sess[t]] \in Task \cup {Nobody}
  PROVE  LocksComeFree
<1> SUFFICES ASSUME NEW t \in Task, NEW u \in Task, WaitsFor(t, u)
             PROVE  GetsOn(u) \/ \E v \in Task : WaitsFor(u, v) /\ GetsOn(v)
    BY DEF LocksComeFree
<1>1. ASSUME NEW v \in Task, NEW w \in Task,
             pc[v] \in {"old", "session"}, slock[sess[v]] = w
      PROVE  GetsOn(w)
    BY <1>1 DEF Locks, GetsOn
<1>2. CASE pc[t] \in {"old", "session"} /\ slock[sess[t]] = u
    BY <1>1, <1>2
<1>3. CASE mlock = u
  <2>1. pc[u] = "discard" \/ pc[u] \in {"old", "session"}
      BY <1>3 DEF Locks, InManager
  <2>2. CASE pc[u] = "discard"
      BY <2>2 DEF InSession, GetsOn
  <2>3. CASE pc[u] \in {"old", "session"}
    <3>1. CASE slock[sess[u]] = Nobody
        BY <2>3, <3>1 DEF GetsOn
    <3>2. CASE slock[sess[u]] \in Task
        BY <1>1, <2>3, <3>2 DEF WaitsFor
    <3> QED
        BY <2>3, <3>1, <3>2
  <2> QED
      BY <2>1, <2>2, <2>3
<1> QED
    BY <1>2, <1>3 DEF WaitsFor

LEMMA DisciplineFrees == Discipline => LocksComeFree
<1> SUFFICES ASSUME Discipline PROVE LocksComeFree
    OBVIOUS
<1> USE NameAssumption DEF Discipline, TypeInv, TypeOK, Phases, Task, RequestPc, ReaperPc
<1>1. \A t \in Task : InSession(t) => job[t] # "none"
    BY DEF InSession
<1>2. \A t \in Task : pc[t] \in {"old", "session"} =>
        sess[t] \in Request /\ slock[sess[t]] \in Task \cup {Nobody}
    BY DEF Table, ReaperFinds
<1> QED
    BY <1>1, <1>2, OrderFrees

(* No task waits forever for a lock because of the order in which locks    *)
(* are asked for: somebody that it waits for always gets on.               *)
THEOREM LocksOrdered == Spec => []LocksComeFree
<1>1. Discipline => LocksComeFree
    BY DisciplineFrees
<1> QED
    BY <1>1, Disciplined, PTL

-----------------------------------------------------------------------------
(* What is archived, and when sessions are given up *)

(* The steps that change the table, what was received or the archive. *)
LEMMA MovingSteps ==
  [Next]_vars =>
    \/ UNCHANGED <<sessions, received, born, archive>>
    \/ \E r \in Request : StartSession(r) \/ Restart(r) \/ Remove(r)
    \/ \E r \in Request : ThreadWrite(r) \/ ThreadSave(r)
    \/ Reaped
<1> DEFINE moving == <<sessions, received, born, archive>>
<1> USE DEF taskVars, lockVars, sessionVars, diskVars
<1>1. ASSUME NEW r \in Request, Arrive(r) \/ SkipLate(r) \/ StartFails(r) \/ FindSession(r) \/ LockOld(r) \/ RestartFails(r)
      PROVE  UNCHANGED moving
    BY <1>1 DEF Arrive, SkipLate, StartFails, FindSession, LockOld, RestartFails
<1>2. ASSUME NEW r \in Request, LockSession(r) \/ DropFinalized(r) \/ WriteEnds(r) \/ StartFinalize(r) \/ FinalizeEnds(r)
      PROVE  UNCHANGED moving
    BY <1>2 DEF LockSession, DropFinalized, WriteEnds, StartFinalize, FinalizeEnds
<1>3. ASSUME NEW r \in Request, ThreadWriteFails(r) \/ ThreadDispose(r)
      PROVE  UNCHANGED moving
    BY <1>3 DEF ThreadWriteFails, ThreadDispose
<1>4. ASSUME Wake \/ NothingStale \/ Collect \/ LockStale \/ ReaperDies PROVE UNCHANGED moving
    BY <1>4 DEF Wake, NothingStale, Collect, LockStale, ReaperDies
<1>5. ASSUME NEW t \in Task, ThreadDiscard(t) PROVE UNCHANGED moving
    BY <1>5 DEF ThreadDiscard
<1>6. ASSUME UNCHANGED vars PROVE UNCHANGED moving
    BY <1>6 DEF vars
<1> QED
    BY <1>1, <1>2, <1>3, <1>4, <1>5, <1>6 DEF Next, SaveChunk, Cleanup, Thread

LEMMA OnlySaveArchives ==
  [Next]_vars => archive' = archive \/ \E r \in Request : ThreadSave(r)
<1> SUFFICES ASSUME [Next]_vars, archive' # archive
             PROVE  \E r \in Request : ThreadSave(r)
    OBVIOUS
<1>1. ASSUME NEW r \in Request, StartSession(r) \/ Restart(r) \/ Remove(r) \/ ThreadWrite(r)
      PROVE  FALSE
    BY <1>1 DEF StartSession, Restart, Create, Remove, ThreadWrite, diskVars
<1>2. ASSUME Reaped PROVE FALSE
    BY <1>2 DEF Reaped, diskVars
<1> QED
    BY <1>1, <1>2, MovingSteps

LEMMA OnlyThreeChangeTable ==
  [Next]_vars =>
    \/ sessions' = sessions
    \/ \E r \in Request : StartSession(r) \/ Restart(r)
    \/ \E r \in Request : Remove(r)
    \/ Reaped
<1>1. ASSUME NEW r \in Request, ThreadWrite(r) \/ ThreadSave(r) PROVE sessions' = sessions
    BY <1>1 DEF ThreadWrite, ThreadSave
<1> QED
    BY <1>1, MovingSteps

LEMMA FinalizedStays == Discipline /\ [Next]_vars => \A s \in Request : finalized[s] => finalized'[s]
<1> SUFFICES ASSUME Discipline /\ [Next]_vars PROVE \A s \in Request : finalized[s] => finalized'[s]
    OBVIOUS
<1> USE NameAssumption DEF Discipline, TypeInv, TypeOK, Phases, Task, taskVars, lockVars, sessionVars,
                           diskVars, RequestPc, ReaperPc
<1>1. ASSUME NEW r \in Request, Arrive(r) PROVE \A s \in Request : finalized[s] => finalized'[s]
    BY <1>1 DEF Arrive
<1>2. ASSUME NEW r \in Request, SkipLate(r) \/ StartFails(r) PROVE \A s \in Request : finalized[s] => finalized'[s]
    BY <1>2 DEF SkipLate, StartFails
<1>3. ASSUME NEW r \in Request, StartSession(r) PROVE \A s \in Request : finalized[s] => finalized'[s]
    BY <1>3 DEF StartSession, Create
<1>4. ASSUME NEW r \in Request, FindSession(r) PROVE \A s \in Request : finalized[s] => finalized'[s]
    BY <1>4 DEF FindSession
<1>5. ASSUME NEW r \in Request, LockOld(r) PROVE \A s \in Request : finalized[s] => finalized'[s]
    BY <1>5 DEF LockOld
<1>6. ASSUME NEW r \in Request, Restart(r) PROVE \A s \in Request : finalized[s] => finalized'[s]
    BY <1>6 DEF Restart, Create
<1>7. ASSUME NEW r \in Request, RestartFails(r) PROVE \A s \in Request : finalized[s] => finalized'[s]
    BY <1>7 DEF RestartFails
<1>8. ASSUME NEW r \in Request, LockSession(r) PROVE \A s \in Request : finalized[s] => finalized'[s]
    BY <1>8 DEF LockSession
<1>9. ASSUME NEW r \in Request, DropFinalized(r) PROVE \A s \in Request : finalized[s] => finalized'[s]
    BY <1>9 DEF DropFinalized
<1>10. ASSUME NEW r \in Request, WriteEnds(r) PROVE \A s \in Request : finalized[s] => finalized'[s]
    BY <1>10 DEF WriteEnds
<1>11. ASSUME NEW r \in Request, StartFinalize(r) PROVE \A s \in Request : finalized[s] => finalized'[s]
    BY <1>11 DEF StartFinalize
<1>12. ASSUME NEW r \in Request, FinalizeEnds(r) PROVE \A s \in Request : finalized[s] => finalized'[s]
    BY <1>12 DEF FinalizeEnds
<1>13. ASSUME NEW r \in Request, Remove(r) PROVE \A s \in Request : finalized[s] => finalized'[s]
    BY <1>13 DEF Remove
<1>14. ASSUME Wake PROVE \A s \in Request : finalized[s] => finalized'[s]
    BY <1>14 DEF Wake
<1>15. ASSUME NothingStale PROVE \A s \in Request : finalized[s] => finalized'[s]
    BY <1>15 DEF NothingStale, Stale
<1>16. ASSUME Collect PROVE \A s \in Request : finalized[s] => finalized'[s]
    BY <1>16 DEF Collect, Visit, Stale
<1>17. ASSUME LockStale PROVE \A s \in Request : finalized[s] => finalized'[s]
    BY <1>17 DEF LockStale
<1>18. ASSUME Reaped PROVE \A s \in Request : finalized[s] => finalized'[s]
    BY <1>18 DEF Reaped, Visit
<1>19. ASSUME ReaperDies PROVE \A s \in Request : finalized[s] => finalized'[s]
    BY <1>19 DEF ReaperDies
<1>20. ASSUME NEW r \in Request, ThreadWrite(r) PROVE \A s \in Request : finalized[s] => finalized'[s]
    BY <1>20 DEF ThreadWrite, JobEnds
<1>21. ASSUME NEW r \in Request, ThreadWriteFails(r) PROVE \A s \in Request : finalized[s] => finalized'[s]
    BY <1>21 DEF ThreadWriteFails, JobEnds
<1>22. ASSUME NEW r \in Request, ThreadSave(r) PROVE \A s \in Request : finalized[s] => finalized'[s]
    BY <1>22 DEF ThreadSave, JobEnds
<1>23. ASSUME NEW r \in Request, ThreadDispose(r) PROVE \A s \in Request : finalized[s] => finalized'[s]
    BY <1>23 DEF ThreadDispose, JobEnds
<1>24. ASSUME NEW t \in Task, ThreadDiscard(t) PROVE \A s \in Request : finalized[s] => finalized'[s]
    BY <1>24 DEF ThreadDiscard, JobEnds
<1>25. CASE UNCHANGED vars
    BY <1>25 DEF vars
<1>26. QED
    BY <1>1, <1>2, <1>3, <1>4, <1>5, <1>6, <1>7, <1>8, <1>9, <1>10, <1>11, <1>12, <1>13, <1>14, <1>15, <1>16, <1>17, <1>18, <1>19, <1>20, <1>21, <1>22, <1>23, <1>24, <1>25 DEF Next, SaveChunk, Cleanup, Thread

LEMMA OnlyCompleteSaves == Discipline /\ [Next]_vars => \A r \in Request : job'[r] = "save" =>
    /\ sess'[r] = sess[r] /\ received[sess[r]] \subseteq received'[sess[r]]
    /\ job[r] = "save" \/ (Complete(sess[r]) /\ ~finalized[sess[r]])
<1> DEFINE OnlyComplete == \A q \in Request : job'[q] = "save" =>
                /\ sess'[q] = sess[q] /\ received[sess[q]] \subseteq received'[sess[q]]
                /\ job[q] = "save" \/ (Complete(sess[q]) /\ ~finalized[sess[q]])
<1> SUFFICES ASSUME Discipline /\ [Next]_vars PROVE OnlyComplete
    OBVIOUS
<1> USE NameAssumption DEF Discipline, TypeInv, TypeOK, Phases, Task, taskVars, lockVars, sessionVars,
                           diskVars, RequestPc, ReaperPc
<1>1. ASSUME NEW r \in Request, Arrive(r) PROVE OnlyComplete
    BY <1>1 DEF Arrive
<1>2. ASSUME NEW r \in Request, SkipLate(r) \/ StartFails(r) PROVE OnlyComplete
    BY <1>2 DEF SkipLate, StartFails
<1>3. ASSUME NEW r \in Request, StartSession(r) PROVE OnlyComplete
    BY <1>3 DEF StartSession, Create
<1>4. ASSUME NEW r \in Request, FindSession(r) PROVE OnlyComplete
    BY <1>4 DEF FindSession
<1>5. ASSUME NEW r \in Request, LockOld(r) PROVE OnlyComplete
    BY <1>5 DEF LockOld
<1>6. ASSUME NEW r \in Request, Restart(r) PROVE OnlyComplete
    BY <1>6 DEF Restart, Create
<1>7. ASSUME NEW r \in Request, RestartFails(r) PROVE OnlyComplete
    BY <1>7 DEF RestartFails
<1>8. ASSUME NEW r \in Request, LockSession(r) PROVE OnlyComplete
    BY <1>8 DEF LockSession
<1>9. ASSUME NEW r \in Request, DropFinalized(r) PROVE OnlyComplete
    BY <1>9 DEF DropFinalized
<1>10. ASSUME NEW r \in Request, WriteEnds(r) PROVE OnlyComplete
    BY <1>10 DEF WriteEnds
<1>11. ASSUME NEW r \in Request, StartFinalize(r) PROVE OnlyComplete
    <2>1. /\ job' = [job EXCEPT ![r] = "save"] /\ Complete(sess[r])
          /\ UNCHANGED <<sess, received>>
      BY <1>11 DEF StartFinalize
    <2>2. ~finalized[sess[r]]
      BY <1>11 DEF StartFinalize, Finalizers
    <2> QED
      BY <2>1, <2>2
<1>12. ASSUME NEW r \in Request, FinalizeEnds(r) PROVE OnlyComplete
    BY <1>12 DEF FinalizeEnds
<1>13. ASSUME NEW r \in Request, Remove(r) PROVE OnlyComplete
    BY <1>13 DEF Remove
<1>14. ASSUME Wake PROVE OnlyComplete
    BY <1>14 DEF Wake
<1>15. ASSUME NothingStale PROVE OnlyComplete
    BY <1>15 DEF NothingStale, Stale
<1>16. ASSUME Collect PROVE OnlyComplete
    BY <1>16 DEF Collect, Visit, Stale
<1>17. ASSUME LockStale PROVE OnlyComplete
    BY <1>17 DEF LockStale
<1>18. ASSUME Reaped PROVE OnlyComplete
    BY <1>18 DEF Reaped, Visit
<1>19. ASSUME ReaperDies PROVE OnlyComplete
    BY <1>19 DEF ReaperDies
<1>20. ASSUME NEW r \in Request, ThreadWrite(r) PROVE OnlyComplete
    BY <1>20 DEF ThreadWrite, JobEnds
<1>21. ASSUME NEW r \in Request, ThreadWriteFails(r) PROVE OnlyComplete
    BY <1>21 DEF ThreadWriteFails, JobEnds
<1>22. ASSUME NEW r \in Request, ThreadSave(r) PROVE OnlyComplete
    BY <1>22 DEF ThreadSave, JobEnds
<1>23. ASSUME NEW r \in Request, ThreadDispose(r) PROVE OnlyComplete
    BY <1>23 DEF ThreadDispose, JobEnds
<1>24. ASSUME NEW t \in Task, ThreadDiscard(t) PROVE OnlyComplete
    BY <1>24 DEF ThreadDiscard, JobEnds
<1>25. CASE UNCHANGED vars
    BY <1>25 DEF vars
<1>26. QED
    BY <1>1, <1>2, <1>3, <1>4, <1>5, <1>6, <1>7, <1>8, <1>9, <1>10, <1>11, <1>12, <1>13, <1>14, <1>15, <1>16, <1>17, <1>18, <1>19, <1>20, <1>21, <1>22, <1>23, <1>24, <1>25 DEF Next, SaveChunk, Cleanup, Thread

LEMMA SavedStep == Discipline /\ Saved /\ [Next]_vars => Saved'
<1> SUFFICES ASSUME Discipline, Saved, [Next]_vars PROVE Saved'
    OBVIOUS
<1> USE NameAssumption DEF Discipline, TypeInv, TypeOK, Phases, Task, RequestPc, ReaperPc
<1>1. ASSUME NEW r \in Request, ThreadSave(r)
      PROVE  /\ pc[r] = "finalize" /\ finalized[sess[r]] /\ ~Archiving(sess[r])
             /\ job'[r] # "save"
             /\ \/ archive' = archive
                \/ \E x : x.session = sess[r] /\ archive' = archive \cup {x}
  <2>1. pc[r] = "finalize" /\ finalized[sess[r]] /\ ~Archiving(sess[r])
    BY <1>1 DEF ThreadSave, Finalizers, Saved
  <2>2. job'[r] # "save"
    BY <1>1 DEF ThreadSave, JobEnds
  <2>3. CASE archive' = archive
    BY <2>1, <2>2, <2>3
  <2>4. CASE archive' # archive
    <3> DEFINE x == [session |-> sess[r], by |-> r, key |-> KeyOfRequest(r),
                     content |-> temp[PathOf(sess[r])]]
    <3>1. archive' = archive \cup {x} /\ x.session = sess[r]
      BY <1>1, <2>4 DEF ThreadSave
    <3> QED
      BY <2>1, <2>2, <3>1
  <2> QED
    BY <2>3, <2>4
<1>2. \A x \in archive' : finalized'[x.session]
  <2>1. \A x \in archive : x.session \in Request
    BY DEF Archived
  <2>2. \A x \in archive : finalized'[x.session]
    BY <2>1, FinalizedStays DEF Saved
  <2>3. \A r \in Request : ThreadSave(r) => finalized'[sess[r]]
    BY <1>1, FinalizedStays
  <2> QED
    BY <1>1, <2>2, <2>3, OnlySaveArchives
<1>3. ASSUME NEW r \in Request, job'[r] = "save"
      PROVE  Complete(sess[r])' /\ ~Archiving(sess[r])'
  <2>1. /\ sess'[r] = sess[r] /\ received[sess[r]] \subseteq received'[sess[r]]
        /\ job[r] = "save" \/ (Complete(sess[r]) /\ ~finalized[sess[r]])
    BY <1>3, OnlyCompleteSaves
  <2>2. Complete(sess[r])'
    BY <2>1 DEF Complete, Saved
  <2>3. ~Archiving(sess[r])
    BY <2>1 DEF Saved, Archiving
  <2>4. ASSUME NEW q \in Request, ThreadSave(q) PROVE sess[q] # sess[r]
    <3>1. q # r /\ pc[q] = "finalize" /\ finalized[sess[q]]
      BY <1>1, <1>3, <2>4
    <3>2. CASE job[r] = "save"
      BY <3>1, <3>2 DEF Finalizers
    <3>3. CASE ~finalized[sess[r]]
      BY <3>1, <3>3
    <3> QED
      BY <2>1, <3>2, <3>3
  <2> QED
    BY <1>1, <2>1, <2>2, <2>3, <2>4, OnlySaveArchives DEF Archiving
<1>4. ArchivedOnce'
    BY <1>1, OnlySaveArchives DEF Saved, ArchivedOnce, Archiving
<1> QED
    BY <1>2, <1>3, <1>4 DEF Saved

(* No session is archived twice: a chunk that waited for a session's lock  *)
(* while finalize() ran never archives the session again.                  *)
THEOREM ArchivesOnce == Spec => []ArchivedOnce
<1>1. Init => Saved
    BY DEF Init, Saved, ArchivedOnce, Task
<1>2. Discipline /\ Saved /\ [Next]_vars => Saved'
    BY SavedStep
<1>3. Saved => ArchivedOnce
    BY DEF Saved
<1> QED
    BY <1>1, <1>2, <1>3, Disciplined, PTL DEF Spec

LEMMA ExpiredStep == Discipline /\ Expired /\ [Next]_vars => Expired'
<1> SUFFICES ASSUME Discipline /\ Expired /\ [Next]_vars PROVE Expired'
    OBVIOUS
<1> USE NameAssumption DEF Discipline, TypeInv, TypeOK, Phases, Task, taskVars, lockVars, sessionVars,
                           diskVars, RequestPc, ReaperPc, Expired
<1>1. ASSUME NEW r \in Request, Arrive(r) PROVE Expired'
    BY <1>1 DEF Arrive
<1>2. ASSUME NEW r \in Request, SkipLate(r) \/ StartFails(r) PROVE Expired'
    BY <1>2 DEF SkipLate, StartFails
<1>3. ASSUME NEW r \in Request, StartSession(r) PROVE Expired'
    BY <1>3 DEF StartSession, Create, Newborn, Locks, InManager
<1>4. ASSUME NEW r \in Request, FindSession(r) PROVE Expired'
    BY <1>4 DEF FindSession
<1>5. ASSUME NEW r \in Request, LockOld(r) PROVE Expired'
    BY <1>5 DEF LockOld
<1>6. ASSUME NEW r \in Request, Restart(r) PROVE Expired'
    BY <1>6 DEF Restart, Create, Newborn, Locks, InManager
<1>7. ASSUME NEW r \in Request, RestartFails(r) PROVE Expired'
    BY <1>7 DEF RestartFails
<1>8. ASSUME NEW r \in Request, LockSession(r) PROVE Expired'
    BY <1>8 DEF LockSession
<1>9. ASSUME NEW r \in Request, DropFinalized(r) PROVE Expired'
    BY <1>9 DEF DropFinalized
<1>10. ASSUME NEW r \in Request, WriteEnds(r) PROVE Expired'
    BY <1>10 DEF WriteEnds
<1>11. ASSUME NEW r \in Request, StartFinalize(r) PROVE Expired'
    BY <1>11 DEF StartFinalize
<1>12. ASSUME NEW r \in Request, FinalizeEnds(r) PROVE Expired'
    BY <1>12 DEF FinalizeEnds
<1>13. ASSUME NEW r \in Request, Remove(r) PROVE Expired'
    BY <1>13 DEF Remove, Locks, InManager
<1>14. ASSUME Wake PROVE Expired'
    BY <1>14 DEF Wake
<1>15. ASSUME NothingStale PROVE Expired'
    BY <1>15 DEF NothingStale, Stale
<1>16. ASSUME Collect PROVE Expired'
    BY <1>16 DEF Collect, Visit, Stale
<1>17. ASSUME LockStale PROVE Expired'
    BY <1>17 DEF LockStale
<1>18. ASSUME Reaped PROVE Expired'
  <2>1. CASE todo # {} /\ Visit(todo)
    <3>1. PICK k \in todo : /\ sess' = [sess EXCEPT ![Reaper] = sessions[k]]
                            /\ todo' = todo \ {k}
                            /\ pc' = [pc EXCEPT ![Reaper] = "session"]
      BY <2>1 DEF Visit
    <3>2. /\ sess'[Reaper] = sessions[k] /\ todo' \subseteq todo
          /\ \A j \in todo : born[sessions[j]] <= cutoff
      BY <1>18, <3>1 DEF Reaped
    <3>3. \A j \in todo : sessions'[j] = sessions[j]
      BY <1>18 DEF Reaped, Table, ReaperFinds, Live
    <3>4. born' = born /\ cutoff' = cutoff
      BY <1>18 DEF Reaped
    <3> QED
      BY <3>1, <3>2, <3>3, <3>4
  <2>2. CASE pc' = [pc EXCEPT ![Reaper] = "asleep"]
    BY <2>2
  <2> QED
    BY <1>18, <2>1, <2>2 DEF Reaped
<1>19. ASSUME ReaperDies PROVE Expired'
    BY <1>19 DEF ReaperDies
<1>20. ASSUME NEW r \in Request, ThreadWrite(r) PROVE Expired'
    BY <1>20 DEF ThreadWrite, JobEnds
<1>21. ASSUME NEW r \in Request, ThreadWriteFails(r) PROVE Expired'
    BY <1>21 DEF ThreadWriteFails, JobEnds
<1>22. ASSUME NEW r \in Request, ThreadSave(r) PROVE Expired'
    BY <1>22 DEF ThreadSave, JobEnds
<1>23. ASSUME NEW r \in Request, ThreadDispose(r) PROVE Expired'
    BY <1>23 DEF ThreadDispose, JobEnds
<1>24. ASSUME NEW t \in Task, ThreadDiscard(t) PROVE Expired'
    BY <1>24 DEF ThreadDiscard, JobEnds
<1>25. CASE UNCHANGED vars
    BY <1>25 DEF vars
<1>26. QED
    BY <1>1, <1>2, <1>3, <1>4, <1>5, <1>6, <1>7, <1>8, <1>9, <1>10, <1>11, <1>12, <1>13, <1>14, <1>15, <1>16, <1>17, <1>18, <1>19, <1>20, <1>21, <1>22, <1>23, <1>24, <1>25 DEF Next, SaveChunk, Cleanup, Thread

(* An unfinished upload leaves the table only when it is over age. *)
LEMMA FreshStep ==
  ASSUME Discipline, Expired, [Next]_vars,
         NEW k \in Key,
         sessions[k] # NoSession, sessions'[k] = NoSession, ~finalized[sessions[k]]
  PROVE  born[sessions[k]] <= cutoff
<1> USE DEF Discipline, TypeInv, TypeOK
<1>1. CASE \E r \in Request : StartSession(r) \/ Restart(r)
  <2>1. PICK r \in Request : sessions' = [sessions EXCEPT ![KeyOfRequest(r)] = r]
    BY <1>1 DEF StartSession, Restart, Create
  <2>2. r # NoSession
    BY NameAssumption
  <2> QED
    BY <2>1, <2>2
<1>2. CASE \E r \in Request : Remove(r)
  <2>1. PICK r \in Request :
          /\ pc[r] = "remove"
          /\ sessions' = [sessions EXCEPT ![KeyOfRequest(r)] =
                            IF @ = sess[r] THEN NoSession ELSE @]
    BY <1>2 DEF Remove
  <2>2. sessions[k] = sess[r]
    BY <2>1
  <2> QED
    BY <2>1, <2>2 DEF Finalizers
<1>3. CASE Reaped
  <2>1. /\ sessions' = [sessions EXCEPT ![KeyOfRequest(sess[Reaper])] = NoSession]
        /\ Live(sess[Reaper]) /\ born[sess[Reaper]] <= cutoff
    BY <1>3 DEF Reaped, Table, ReaperFinds, Expired
  <2> QED
    BY <2>1 DEF Live
<1> QED
  BY <1>1, <1>2, <1>3, OnlyThreeChangeTable

THEOREM FreshSurvive == Spec => FreshSessionsSurvive
<1> DEFINE A == \A k \in Key :
                  sessions[k] # NoSession /\ sessions'[k] = NoSession /\ ~finalized[sessions[k]]
                    => born[sessions[k]] <= cutoff
<1>1. Init => Expired
    BY DEF Init, Expired, Task
<1>2. Discipline /\ Expired /\ [Next]_vars => Expired'
    BY ExpiredStep
<1>3. Discipline /\ Expired /\ [Next]_vars => A
    BY FreshStep
<1> HIDE DEF A
<1>4. Spec => [][A]_vars
    BY <1>1, <1>2, <1>3, Disciplined, PTL DEF Spec
<1> QED
    BY <1>4 DEF A, FreshSessionsSurvive

-----------------------------------------------------------------------------
(* ChunkSessions implements UploadCapture *)

LEMMA CaptureInits == Init => Capture!CaptureInit
<1> SUFFICES ASSUME Init PROVE Capture!CaptureInit
    OBVIOUS
<1>1. assemblyBar = [k \in Key |-> NoSession]
    BY DEF Init, assemblyBar
<1> QED
    BY <1>1 DEF Init, Capture!CaptureInit

(* A new session: Begin. *)
LEMMA CreateBegins ==
  ASSUME Discipline, Saved, NEW r \in Request, StartSession(r) \/ Restart(r)
  PROVE  \E k \in Key, i \in Request : Capture!Begin(k, i)
<1> USE DEF Discipline, TypeInv, TypeOK
<1> DEFINE k == KeyOfRequest(r)
<1>1. k \in Key
    BY KeyType
<1>2. /\ sessions' = [sessions EXCEPT ![k] = r]
      /\ born' = [born EXCEPT ![r] = births + 1]
      /\ UNCHANGED <<received, archive>>
      /\ born[r] = 0
    BY DEF StartSession, Restart, Create, Newborn, diskVars
<1>3. ~Archiving(r) /\ received[r] = {} /\ r # NoSession
    BY <1>2, NameAssumption DEF Archiving, Saved, Newborn
<1>4. assemblyBar' = [assemblyBar EXCEPT ![k] = [id |-> r, got |-> {}]]
    BY <1>1, <1>2, <1>3 DEF assemblyBar, Archiving
<1>5. {s \in Request : born'[s] # 0} = {s \in Request : born[s] # 0} \cup {r}
    BY <1>2
<1>6. r \notin {s \in Request : born[s] # 0}
    BY <1>2
<1> QED
    BY <1>1, <1>2, <1>4, <1>5, <1>6 DEF Capture!Begin

(* A session leaves the table: GiveUp, or nothing if it was archived. *)
LEMMA LeavingGivesUp ==
  ASSUME Discipline, NEW k \in Key, sessions[k] # NoSession,
         sessions' = [sessions EXCEPT ![k] = NoSession],
         UNCHANGED <<received, born, archive>>
  PROVE  Capture!GiveUp(k) \/ UNCHANGED Capture!captureVars
<1> USE DEF Discipline, TypeInv, TypeOK
<1>1. CASE Archiving(sessions[k])
  <2>1. assemblyBar' = assemblyBar
    BY <1>1 DEF assemblyBar, Archiving
  <2> QED
    BY <2>1 DEF Capture!captureVars
<1>2. CASE ~Archiving(sessions[k])
  <2>1. assemblyBar' = [assemblyBar EXCEPT ![k] = NoSession]
    BY DEF assemblyBar, Archiving
  <2>2. /\ assemblyBar[k] = [id |-> sessions[k], got |-> received[sessions[k]]]
        /\ assemblyBar[k] \in [id : Request, got : SUBSET Byte]
    BY <1>2 DEF assemblyBar
  <2>3. assemblyBar[k] # NoSession
    BY <2>2, NothingAssumption
  <2> QED
    BY <2>1, <2>3 DEF Capture!GiveUp
<1> QED
    BY <1>1, <1>2

(* The copy that a request writes to, or archives, is in the table. *)
LEMMA CopyInTable ==
  ASSUME Discipline, NEW r \in Request, pc[r] \in {"write", "finalize"}, ~Archiving(sess[r])
  PROVE  /\ KeyOfRequest(r) \in Key
         /\ sess[r] \in Request
         /\ sessions[KeyOfRequest(r)] = sess[r]
         /\ \A j \in Key \ {KeyOfRequest(r)} : sessions[j] # sess[r]
         /\ assemblyBar[KeyOfRequest(r)] = [id |-> sess[r], got |-> received[sess[r]]]
         /\ assemblyBar[KeyOfRequest(r)] # NoSession
<1> USE NameAssumption DEF Discipline, TypeInv, TypeOK
<1>1. KeyOfRequest(r) \in Key /\ sess[r] \in Request
    BY KeyType DEF Phases
<1>2. sessions[KeyOfRequest(r)] = sess[r]
    BY DEF Table, RequestsFind, Live
<1>3. \A j \in Key \ {KeyOfRequest(r)} : sessions[j] # sess[r]
    BY <1>1, <1>2 DEF Table, KeyedByCreator
<1>4. assemblyBar[KeyOfRequest(r)] = [id |-> sess[r], got |-> received[sess[r]]]
    BY <1>1, <1>2 DEF assemblyBar
<1>5. assemblyBar[KeyOfRequest(r)] \in [id : Request, got : SUBSET Byte]
    BY <1>1, <1>4
<1> QED
    BY <1>1, <1>2, <1>3, <1>4, <1>5, NothingAssumption

LEMMA CopyGrows ==
  ASSUME NEW i, NEW g, NEW S
  PROVE  [[id |-> i, got |-> g] EXCEPT !.got = @ \cup S] = [id |-> i, got |-> g \cup S]
  OBVIOUS

LEMMA WriteAdds ==
  ASSUME Discipline, Saved, NEW r \in Request, ThreadWrite(r)
  PROVE  \E k \in Key, S \in SUBSET Byte : Capture!Add(k, S)
<1> USE DEF Discipline, TypeInv, TypeOK
<1> DEFINE k == KeyOfRequest(r)
<1>1. pc[r] = "write" /\ ~finalized[sess[r]]
    BY DEF ThreadWrite, Phases, Finalizers, Task, RequestPc
<1>2. ~Archiving(sess[r])
    BY <1>1 DEF Saved, Archiving
<1>3. /\ received' = [received EXCEPT ![sess[r]] = @ \cup Span(r)]
      /\ UNCHANGED <<sessions, born, archive>>
    BY DEF ThreadWrite
<1>4. assemblyBar' = [assemblyBar EXCEPT ![k].got = @ \cup Span(r)]
  <2>1. assemblyBar'[k] = [id |-> sess[r], got |-> received[sess[r]] \cup Span(r)]
    BY <1>1, <1>2, <1>3, CopyInTable, NameAssumption DEF assemblyBar, Archiving
  <2>2. ASSUME NEW j \in Key, j # k PROVE assemblyBar'[j] = assemblyBar[j]
    <3>1. sessions[j] # sess[r]
      BY <1>1, <1>2, <2>2, CopyInTable
    <3>2. sessions[j] # NoSession => received'[sessions[j]] = received[sessions[j]]
      BY <1>3, <3>1
    <3> QED
      BY <1>3, <3>2 DEF assemblyBar, Archiving
  <2>3. /\ k \in Key
        /\ assemblyBar[k] = [id |-> sess[r], got |-> received[sess[r]]]
    BY <1>1, <1>2, CopyInTable
  <2> HIDE DEF k
  <2>4. [assemblyBar[k] EXCEPT !.got = @ \cup Span(r)]
          = [id |-> sess[r], got |-> received[sess[r]] \cup Span(r)]
    <3>1. [[id |-> sess[r], got |-> received[sess[r]]] EXCEPT !.got = @ \cup Span(r)]
            = [id |-> sess[r], got |-> received[sess[r]] \cup Span(r)]
      BY CopyGrows
    <3> QED
      BY <2>3, <3>1, Zenon
  <2>5. /\ assemblyBar = [j \in Key |-> assemblyBar[j]]
        /\ assemblyBar' = [j \in Key |-> assemblyBar'[j]]
    <3> HIDE DEF Discipline, TypeInv, TypeOK
    <3> QED
      BY DEF assemblyBar
  <2> HIDE DEF Discipline, TypeInv, TypeOK, assemblyBar
  <2> QED
    BY <2>1, <2>2, <2>3, <2>4, <2>5
<1>5. /\ k \in Key /\ assemblyBar[k] # NoSession
      /\ Span(r) \in SUBSET Byte
    BY <1>1, <1>2, CopyInTable, SpanType
<1> HIDE DEF Discipline, TypeInv, TypeOK, k, assemblyBar
<1> QED
    BY <1>3, <1>4, <1>5 DEF Capture!Add

LEMMA SaveCaptures ==
  ASSUME Discipline, Saved, NEW r \in Request, ThreadSave(r)
  PROVE  (\E k \in Key : Capture!Capture(k)) \/ UNCHANGED Capture!captureVars
<1> USE DEF Discipline, TypeInv, TypeOK
<1> DEFINE k == KeyOfRequest(r)
           x == [session |-> sess[r], by |-> r, key |-> k, content |-> temp[PathOf(sess[r])]]
<1>1. /\ pc[r] = "finalize" /\ ~Archiving(sess[r]) /\ Complete(sess[r])
      /\ UNCHANGED <<sessions, received, born>>
      /\ archive' = archive \/ archive' = archive \cup {x}
    BY DEF ThreadSave, Phases, Saved, Task, RequestPc
<1>2. CASE archive' = archive
  <2>1. assemblyBar' = assemblyBar
    BY <1>1, <1>2 DEF assemblyBar, Archiving
  <2> QED
    BY <1>1, <1>2, <2>1 DEF Capture!captureVars
<1>3. CASE archive' = archive \cup {x}
  <2>1. received[sess[r]] = Byte
    BY <1>1, CopyInTable DEF Complete
  <2>2. x.session = sess[r] /\ x.key = k
    OBVIOUS
  <2> HIDE DEF x
  <2>3. assemblyBar' = [assemblyBar EXCEPT ![k] = NoSession]
    <3>1. sessions'[k] = sess[r] /\ Archiving(sess[r])'
      <4>1. x \in archive'
        BY <1>3
      <4>2. Archiving(sess[r])'
        BY <2>2, <4>1 DEF Archiving, ThreadSave
      <4> QED
        BY <1>1, <4>2, CopyInTable
    <3>2. assemblyBar'[k] = NoSession
      <4>1. k \in Key
        BY <1>1, CopyInTable
      <4> HIDE DEF k
      <4> QED
        BY <3>1, <4>1 DEF assemblyBar, Archiving, ThreadSave
    <3>3. ASSUME NEW j \in Key, j # k PROVE assemblyBar'[j] = assemblyBar[j]
      <4>1. sessions[j] # sess[r]
        BY <1>1, <3>3, CopyInTable
      <4>2. Archiving(sessions[j])' <=> Archiving(sessions[j])
        BY <1>1, <1>3, <2>2, <4>1 DEF Archiving
      <4> QED
        BY <1>1, <4>2 DEF assemblyBar
    <3> HIDE DEF k
    <3> QED
      BY <3>2, <3>3 DEF assemblyBar
  <2>4. {[id |-> y.session, key |-> y.key] : y \in archive'}
          = {[id |-> y.session, key |-> y.key] : y \in archive} \cup {[id |-> sess[r], key |-> k]}
    BY <1>3, <2>2
  <2>5. /\ k \in Key /\ assemblyBar[k] # NoSession
        /\ assemblyBar[k] = [id |-> sess[r], got |-> Byte]
    BY <1>1, <2>1, CopyInTable
  <2>6. {s \in Request : born'[s] # 0} = {s \in Request : born[s] # 0}
    BY <1>1
  <2> HIDE DEF k
  <2>7. assemblyBar[k].id = sess[r] /\ assemblyBar[k].got = Byte
    BY <2>5
  <2>8. Capture!Capture(k)
    BY <2>3, <2>4, <2>5, <2>6, <2>7 DEF Capture!Capture
  <2>9. \E j \in Key : Capture!Capture(j)
    BY <2>5, <2>8 DEF Capture!Capture
  <2> QED
    BY <2>9
<1> QED
    BY <1>1, <1>2, <1>3

LEMMA CaptureSteps ==
  Discipline /\ Saved /\ [Next]_vars => [Capture!CaptureNext]_(Capture!captureVars)
<1> SUFFICES ASSUME Discipline, Saved, [Next]_vars
             PROVE  Capture!CaptureNext \/ UNCHANGED Capture!captureVars
    OBVIOUS
<1> USE DEF Discipline, TypeInv, TypeOK
<1>1. CASE UNCHANGED <<sessions, received, born, archive>>
  <2>1. assemblyBar' = assemblyBar
    BY <1>1 DEF assemblyBar, Archiving
  <2> QED
    BY <1>1, <2>1 DEF Capture!captureVars
<1>2. ASSUME NEW r \in Request, StartSession(r) \/ Restart(r) PROVE Capture!CaptureNext
    BY <1>2, CreateBegins DEF Capture!CaptureNext
<1>3. ASSUME NEW r \in Request, Remove(r)
      PROVE  Capture!CaptureNext \/ UNCHANGED Capture!captureVars
  <2>1. /\ KeyOfRequest(r) \in Key /\ sess[r] \in Request /\ sess[r] # NoSession
        /\ UNCHANGED <<received, born, archive>>
        /\ sessions' = [sessions EXCEPT ![KeyOfRequest(r)] =
                          IF @ = sess[r] THEN NoSession ELSE @]
    BY <1>3, KeyType, NameAssumption DEF Remove, Phases, sessionVars, diskVars
  <2>2. CASE sessions[KeyOfRequest(r)] = sess[r]
    BY <2>1, <2>2, LeavingGivesUp DEF Capture!CaptureNext
  <2>3. CASE sessions[KeyOfRequest(r)] # sess[r]
    BY <1>1, <2>1, <2>3
  <2> QED
    BY <2>2, <2>3
<1>4. CASE Reaped
  <2>1. /\ sess[Reaper] \in Request /\ sess[Reaper] # NoSession /\ Live(sess[Reaper])
        /\ UNCHANGED <<received, born, archive>>
        /\ sessions' = [sessions EXCEPT ![KeyOfRequest(sess[Reaper])] = NoSession]
    BY <1>4, NameAssumption DEF Reaped, Table, ReaperFinds, sessionVars, diskVars
  <2>2. KeyOfRequest(sess[Reaper]) \in Key
    BY <2>1, KeyType
  <2> QED
    BY <2>1, <2>2, LeavingGivesUp DEF Live, Capture!CaptureNext
<1>5. ASSUME NEW r \in Request, ThreadWrite(r) PROVE Capture!CaptureNext
    BY <1>5, WriteAdds DEF Capture!CaptureNext
<1>6. ASSUME NEW r \in Request, ThreadSave(r)
      PROVE  Capture!CaptureNext \/ UNCHANGED Capture!captureVars
    BY <1>6, SaveCaptures DEF Capture!CaptureNext
<1> QED
    BY <1>1, <1>2, <1>3, <1>4, <1>5, <1>6, MovingSteps

(* The session manager keeps the promise of UploadCapture. *)
THEOREM CaptureImplemented == Spec => ImplementsCapture
<1>1. Init => Capture!CaptureInit
    BY CaptureInits
<1>2. Discipline /\ Saved /\ [Next]_vars => [Capture!CaptureNext]_(Capture!captureVars)
    BY CaptureSteps
<1>3. Init => Saved
    BY DEF Init, Saved, ArchivedOnce, Task
<1>4. Discipline /\ Saved /\ [Next]_vars => Saved'
    BY SavedStep
<1> QED
    BY <1>1, <1>2, <1>3, <1>4, Disciplined, PTL DEF Spec, ImplementsCapture, Capture!CaptureSpec

-----------------------------------------------------------------------------
(* What the archive holds *)

LEMMA HolderAlone ==
  ASSUME Discipline, NEW t \in Task, NEW u \in Task,
         InSession(t), InSession(u), sess[t] = sess[u], sess[t] \in Request
  PROVE  t = u
  BY DEF Discipline, Locks

LEMMA HolderFinds ==
  ASSUME Discipline, NEW t \in Task, InSession(t)
  PROVE  sess[t] \in Request /\ Live(sess[t])
  BY NameAssumption
  DEF Discipline, TypeInv, TypeOK, Phases, InSession, Table, RequestsFind, ReaperFinds,
      Task, RequestPc, ReaperPc

LEMMA LivePathsDiffer ==
  ASSUME Discipline, NEW s \in Request, NEW q \in Request,
         Live(s), Live(q), PathOf(s) = PathOf(q)
  PROVE  s = q
  BY DEF Live, PathOf

LEMMA RunningInSession ==
  ASSUME Discipline, NEW t \in Task, Running(t)
  PROVE  InSession(t)
  BY NameAssumption
  DEF Discipline, TypeInv, TypeOK, Phases, Running, InSession, Task, RequestPc, ReaperPc

LEMMA WrittenOpenStep == Discipline /\ WrittenOpen /\ [Next]_vars => WrittenOpen'
<1> SUFFICES ASSUME Discipline /\ WrittenOpen /\ [Next]_vars PROVE WrittenOpen'
    OBVIOUS
<1> USE NameAssumption DEF Discipline, TypeInv, TypeOK, Phases, Task, taskVars, lockVars, sessionVars,
                           diskVars, RequestPc, ReaperPc, WrittenOpen, FileOpen
<1>1. ASSUME NEW r \in Request, Arrive(r) PROVE WrittenOpen'
    BY <1>1 DEF Arrive
<1>2. ASSUME NEW r \in Request, SkipLate(r) \/ StartFails(r) PROVE WrittenOpen'
    BY <1>2 DEF SkipLate, StartFails
<1>3. ASSUME NEW r \in Request, StartSession(r) PROVE WrittenOpen'
    BY <1>3 DEF StartSession, Create
<1>4. ASSUME NEW r \in Request, FindSession(r) PROVE WrittenOpen'
    BY <1>4 DEF FindSession
<1>5. ASSUME NEW r \in Request, LockOld(r) PROVE WrittenOpen'
    BY <1>5 DEF LockOld
<1>6. ASSUME NEW r \in Request, Restart(r) PROVE WrittenOpen'
    BY <1>6 DEF Restart, Create
<1>7. ASSUME NEW r \in Request, RestartFails(r) PROVE WrittenOpen'
    BY <1>7 DEF RestartFails
<1>8. ASSUME NEW r \in Request, LockSession(r) PROVE WrittenOpen'
    BY <1>8 DEF LockSession
<1>9. ASSUME NEW r \in Request, DropFinalized(r) PROVE WrittenOpen'
    BY <1>9 DEF DropFinalized
<1>10. ASSUME NEW r \in Request, WriteEnds(r) PROVE WrittenOpen'
    BY <1>10 DEF WriteEnds
<1>11. ASSUME NEW r \in Request, StartFinalize(r) PROVE WrittenOpen'
    BY <1>11 DEF StartFinalize
<1>12. ASSUME NEW r \in Request, FinalizeEnds(r) PROVE WrittenOpen'
    BY <1>12 DEF FinalizeEnds
<1>13. ASSUME NEW r \in Request, Remove(r) PROVE WrittenOpen'
    BY <1>13 DEF Remove
<1>14. ASSUME Wake PROVE WrittenOpen'
    BY <1>14 DEF Wake
<1>15. ASSUME NothingStale PROVE WrittenOpen'
    BY <1>15 DEF NothingStale, Stale
<1>16. ASSUME Collect PROVE WrittenOpen'
    BY <1>16 DEF Collect, Visit, Stale
<1>17. ASSUME LockStale PROVE WrittenOpen'
    BY <1>17 DEF LockStale
<1>18. ASSUME Reaped PROVE WrittenOpen'
    BY <1>18 DEF Reaped, Visit
<1>19. ASSUME ReaperDies PROVE WrittenOpen'
    BY <1>19 DEF ReaperDies
<1>20. ASSUME NEW r \in Request, ThreadWrite(r) PROVE WrittenOpen'
    BY <1>20 DEF ThreadWrite, JobEnds
<1>21. ASSUME NEW r \in Request, ThreadWriteFails(r) PROVE WrittenOpen'
    BY <1>21 DEF ThreadWriteFails, JobEnds
<1>22. ASSUME NEW r \in Request, ThreadSave(r) PROVE WrittenOpen'
  <2>1. pc[r] = "finalize" /\ sess[r] \in Request
    BY <1>22 DEF ThreadSave
  <2>2. ASSUME NEW q \in Request, (pc'[q] = "write" /\ job'[q] = "ok") \/ job'[q] = "save"
        PROVE  q # r /\ pc[q] \in {"write", "finalize"} /\ job'[q] = job[q] /\ sess[q] \in Request
    <3>1. job' = [job EXCEPT ![r] = "dispose"] \/ job' = [job EXCEPT ![r] = "failed"]
      BY <1>22 DEF ThreadSave, JobEnds
    <3>2. pc' = pc
      BY <1>22 DEF ThreadSave
    <3>3. q # r
      BY <2>1, <2>2, <3>1, <3>2
    <3>4. job'[q] = job[q]
      BY <3>1, <3>3
    <3> QED
      BY <2>2, <3>2, <3>3, <3>4
  <2>3. ASSUME NEW q \in Request, q # r, pc[q] \in {"write", "finalize"}
        PROVE  fh'[sess[q]] = fh[sess[q]]
    <3>1. sess[q] # sess[r]
      BY <2>1, <2>3, HolderAlone DEF InSession
    <3> QED
      BY <1>22, <2>3, <3>1 DEF ThreadSave
  <2> QED
    BY <1>22, <2>2, <2>3 DEF ThreadSave
<1>23. ASSUME NEW r \in Request, ThreadDispose(r) PROVE WrittenOpen'
    BY <1>23 DEF ThreadDispose, JobEnds
<1>24. ASSUME NEW t \in Task, ThreadDiscard(t) PROVE WrittenOpen'
  <2>1. pc[t] = "discard" /\ sess[t] \in Request
    BY <1>24, RunningInSession, HolderFinds DEF ThreadDiscard, Running
  <2>2. ASSUME NEW q \in Request, pc[q] \in {"write", "finalize"} PROVE sess[q] # sess[t]
    BY <2>1, <2>2, HolderAlone DEF InSession
  <2>3. ASSUME NEW q \in Request, (pc'[q] = "write" /\ job'[q] = "ok") \/ job'[q] = "save"
        PROVE  pc[q] \in {"write", "finalize"} /\ job'[q] = job[q] /\ sess[q] \in Request
    BY <1>24, <2>1, <2>3 DEF ThreadDiscard, JobEnds
  <2>4. \A s \in Request : s # sess[t] => fh'[s] = fh[s]
    BY <1>24 DEF ThreadDiscard
  <2> QED
    BY <1>24, <2>2, <2>3, <2>4 DEF ThreadDiscard
<1>25. CASE UNCHANGED vars
    BY <1>25 DEF vars
<1>26. QED
    BY <1>1, <1>2, <1>3, <1>4, <1>5, <1>6, <1>7, <1>8, <1>9, <1>10, <1>11, <1>12, <1>13, <1>14, <1>15, <1>16, <1>17, <1>18, <1>19, <1>20, <1>21, <1>22, <1>23, <1>24, <1>25 DEF Next, SaveChunk, Cleanup, Thread

(* The content of s's file after bytes S of upload u were written to it.   *)
WriteOver(s, S, u) ==
  IF fh[s] = "none" THEN Overlay(Blank, S, u)
  ELSE IF temp[PathOf(s)] = NoFile THEN NoFile
  ELSE Overlay(temp[PathOf(s)], S, u)

LEMMA WriterFinds ==
  ASSUME Discipline, NEW r \in Request, job[r] = "write"
  PROVE  /\ pc[r] = "write" /\ sess[r] \in Request /\ Live(sess[r]) /\ ~finalized[sess[r]]
         /\ KeyOfRequest(sess[r]) = KeyOfRequest(r)
         /\ ~Discarded(sess[r])
<1>1. pc[r] = "write"
    BY NameAssumption DEF Discipline, TypeInv, TypeOK, Phases, RequestPc
<1>2. sess[r] \in Request /\ Live(sess[r])
    BY <1>1, HolderFinds DEF InSession, Task
<1>3. ~finalized[sess[r]] /\ KeyOfRequest(sess[r]) = KeyOfRequest(r)
    BY <1>1 DEF Discipline, Finalizers, Table, RequestsFind
<1>4. ASSUME NEW t \in Task, pc[t] = "discard", sess[t] = sess[r] PROVE FALSE
    BY <1>1, <1>2, <1>4, HolderAlone DEF InSession, Task
<1> QED
    BY <1>1, <1>2, <1>3, <1>4 DEF Discarded

LEMMA WritingKeeps ==
  ASSUME Discipline, OpenHas, UnopenedEmpty,
         NEW r \in Request, job[r] = "write", UNCHANGED <<req, sessions, leftover>>,
         NEW S \in SUBSET Byte,
         temp' = [temp EXCEPT ![PathOf(sess[r])] = WriteOver(sess[r], S, req[r].upload)],
         received' = received \/ received' = [received EXCEPT ![sess[r]] = @ \cup S],
         fh[sess[r]] # "closed",
         \A s \in Request : s # sess[r] => fh'[s] = fh[s]
  PROVE  OpenHas'
<1> USE DEF Discipline, TypeInv, TypeOK
<1>1. /\ sess[r] \in Request /\ Live(sess[r]) /\ ~finalized[sess[r]] /\ ~Discarded(sess[r])
      /\ req[r].upload \in UploadsOf(KeyOfRequest(sess[r]))
    BY WriterFinds DEF KeyOfRequest, UploadsOf
<1>2. \A s \in Request : Live(s)' <=> Live(s)
    BY DEF Live, KeyOfRequest
<1>3. \A s \in Request : PathOf(s)' = PathOf(s) /\ KeyOfRequest(s)' = KeyOfRequest(s)
    BY DEF PathOf, KeyOfRequest
<1>4. ASSUME NEW s \in Request, s # sess[r], Live(s), FileOpen(s)', s \notin leftover
      PROVE  FileHas(s)'
  <2>1. PathOf(s) # PathOf(sess[r])
    BY <1>1, <1>4, LivePathsDiffer
  <2>2. temp'[PathOf(s)] = temp[PathOf(s)] /\ received'[s] = received[s]
    BY <1>4, <2>1, PathType
  <2>3. FileHas(s)
    BY <1>4 DEF OpenHas, FileOpen
  <2> HIDE DEF Discipline
  <2> QED
    BY <1>3, <2>2, <2>3 DEF FileHas
<1>5. ASSUME NEW s \in Request, s = sess[r], s \notin leftover PROVE FileHas(s)'
  <2> DEFINE new == WriteOver(s, S, req[r].upload)
  <2>1. temp'[PathOf(s)] = new
    BY <1>5, PathType
  <2>2. received[s] \subseteq Byte /\ received'[s] \subseteq received[s] \cup S
    BY <1>5
  <2>3. new = NoFile \/ \A i \in received'[s] : new[i] \in UploadsOf(KeyOfRequest(s))
    <3>1. CASE fh[s] = "none"
      <4>1. received[s] = {}
        BY <1>1, <1>5, <3>1 DEF UnopenedEmpty
      <4> QED
        BY <1>1, <1>5, <2>2, <3>1, <4>1 DEF WriteOver, Overlay
    <3>2. CASE fh[s] # "none"
      <4>1. FileHas(s)
        BY <1>1, <1>5, <3>2 DEF OpenHas, FileOpen
      <4> QED
        BY <1>1, <1>5, <2>2, <3>2, <4>1 DEF WriteOver, Overlay, FileHas
    <3> QED
      BY <3>1, <3>2
  <2> HIDE DEF new
  <2> QED
    BY <1>3, <2>1, <2>3 DEF FileHas
<1> QED
  <2> SUFFICES ASSUME NEW s \in Request, Live(s)', FileOpen(s)', s \notin leftover PROVE FileHas(s)'
    BY DEF OpenHas
  <2>1. Live(s)
    BY <1>2
  <2> QED
    BY <1>4, <1>5, <2>1

LEMMA OpenHasStep ==
  Discipline /\ UnopenedEmpty /\ OpenHas /\ [Next]_vars => OpenHas'
<1> SUFFICES ASSUME Discipline, UnopenedEmpty, OpenHas, [Next]_vars PROVE OpenHas'
    OBVIOUS
<1> USE NameAssumption DEF Discipline, TypeInv, TypeOK, Phases, Task, taskVars, lockVars, sessionVars,
                           diskVars, RequestPc, ReaperPc, OpenHas, FileOpen,
                           FileHas, Live, PathOf, KeyOfRequest, Newborn
<1>1. ASSUME NEW r \in Request, Arrive(r) PROVE OpenHas'
    BY <1>1 DEF Arrive
<1>2. ASSUME NEW r \in Request, SkipLate(r) \/ StartFails(r) PROVE OpenHas'
    BY <1>2 DEF SkipLate, StartFails
<1>3. ASSUME NEW r \in Request, StartSession(r) PROVE OpenHas'
    BY <1>3 DEF StartSession, Create
<1>4. ASSUME NEW r \in Request, FindSession(r) PROVE OpenHas'
    BY <1>4 DEF FindSession
<1>5. ASSUME NEW r \in Request, LockOld(r) PROVE OpenHas'
    BY <1>5 DEF LockOld
<1>6. ASSUME NEW r \in Request, Restart(r) PROVE OpenHas'
  <2>1. fh[r] = "none"
    BY <1>6 DEF Restart
  <2>2. UNCHANGED <<req, received, fh, leftover, temp>>
    BY <1>6 DEF Restart, Create
  <2>3. ASSUME NEW s \in Request, s # r, Live(s)' PROVE Live(s)
    BY <1>6, <2>3, KeyType DEF Restart, Create
  <2> QED
    BY <2>1, <2>2, <2>3
<1>7. ASSUME NEW r \in Request, RestartFails(r) PROVE OpenHas'
  <2>1. UNCHANGED <<req, sessions, received, fh, temp>> /\ leftover \subseteq leftover'
    BY <1>7 DEF RestartFails
  <2> QED
    BY <2>1
<1>8. ASSUME NEW r \in Request, LockSession(r) PROVE OpenHas'
    BY <1>8 DEF LockSession
<1>9. ASSUME NEW r \in Request, DropFinalized(r) PROVE OpenHas'
    BY <1>9 DEF DropFinalized
<1>10. ASSUME NEW r \in Request, WriteEnds(r) PROVE OpenHas'
    BY <1>10 DEF WriteEnds
<1>11. ASSUME NEW r \in Request, StartFinalize(r) PROVE OpenHas'
    BY <1>11 DEF StartFinalize
<1>12. ASSUME NEW r \in Request, FinalizeEnds(r) PROVE OpenHas'
    BY <1>12 DEF FinalizeEnds
<1>13. ASSUME NEW r \in Request, Remove(r) PROVE OpenHas'
    BY <1>13 DEF Remove
<1>14. ASSUME Wake PROVE OpenHas'
    BY <1>14 DEF Wake
<1>15. ASSUME NothingStale PROVE OpenHas'
    BY <1>15 DEF NothingStale, Stale
<1>16. ASSUME Collect PROVE OpenHas'
    BY <1>16 DEF Collect, Visit, Stale
<1>17. ASSUME LockStale PROVE OpenHas'
    BY <1>17 DEF LockStale
<1>18. ASSUME Reaped PROVE OpenHas'
    BY <1>18 DEF Reaped, Visit
<1>19. ASSUME ReaperDies PROVE OpenHas'
    BY <1>19 DEF ReaperDies
<1>20. ASSUME NEW r \in Request, ThreadWrite(r) PROVE OpenHas'
  <2>1. received' = [received EXCEPT ![sess[r]] = @ \cup Span(r)]
    BY <1>20 DEF ThreadWrite
  <2>2. temp' = [temp EXCEPT ![PathOf(sess[r])] = WriteOver(sess[r], Span(r), req[r].upload)]
    BY <1>20 DEF ThreadWrite, WriteOver
  <2>3. \A s \in Request : s # sess[r] => fh'[s] = fh[s]
    BY <1>20 DEF ThreadWrite
  <2>4. /\ job[r] = "write" /\ fh[sess[r]] # "closed" /\ UNCHANGED <<req, sessions, leftover>>
        /\ Span(r) \in SUBSET Byte
    BY <1>20, SpanType DEF ThreadWrite
  <2> HIDE DEF Discipline, TypeInv, TypeOK, Phases, OpenHas, FileOpen, FileHas, Live, PathOf,
               KeyOfRequest, Newborn
  <2> QED
    BY <2>1, <2>2, <2>3, <2>4, WritingKeeps
<1>21. ASSUME NEW r \in Request, ThreadWriteFails(r) PROVE OpenHas'
  <2>1. CASE UNCHANGED <<temp, fh>>
    BY <1>21, <2>1 DEF ThreadWriteFails, OpenHas, FileOpen, FileHas, Live, PathOf, KeyOfRequest
  <2>2. CASE fh[sess[r]] # "closed" /\ ~UNCHANGED <<temp, fh>>
    <3>1. PICK S \in SUBSET Span(r) :
            temp' = [temp EXCEPT ![PathOf(sess[r])] = WriteOver(sess[r], S, req[r].upload)]
      BY <1>21, <2>2 DEF ThreadWriteFails, WriteOver
    <3>2. /\ job[r] = "write" /\ UNCHANGED <<req, sessions, received, leftover>>
          /\ \A s \in Request : s # sess[r] => fh'[s] = fh[s]
      <4> HIDE DEF Discipline, OpenHas
      <4>1. /\ job[r] = "write" /\ UNCHANGED <<req, sessions, received, leftover>>
            /\ fh' = fh \/ fh' = [fh EXCEPT ![sess[r]] = "dirty"]
        BY <1>21 DEF ThreadWriteFails
      <4>2. fh \in [Request -> {"none", "open", "dirty", "closed"}]
        BY DEF Discipline
      <4> QED
        BY <4>1, <4>2
    <3>3. S \in SUBSET Byte
      BY SpanType
    <3> HIDE DEF Discipline, TypeInv, TypeOK, Phases, OpenHas, FileOpen, FileHas, Live, PathOf,
                 KeyOfRequest, Newborn
    <3> QED
      BY <2>2, <3>1, <3>2, <3>3, WritingKeeps
  <2> QED
    BY <1>21, <2>1, <2>2 DEF ThreadWriteFails
<1>22. ASSUME NEW r \in Request, ThreadSave(r) PROVE OpenHas'
  <2>1. UNCHANGED <<req, sessions, received, leftover, temp>>
    BY <1>22 DEF ThreadSave
  <2>2. \A s \in Request : fh'[s] = fh[s] \/ fh'[s] = "none"
    BY <1>22 DEF ThreadSave
  <2> QED
    BY <2>1, <2>2
<1>23. ASSUME NEW r \in Request, ThreadDispose(r) PROVE OpenHas'
  <2>1. UNCHANGED <<req, sessions, received>>
    BY <1>23 DEF ThreadDispose
  <2>2. ASSUME NEW s \in Request, FileOpen(s)', Live(s)', s \notin leftover' PROVE FileHas(s)'
    <3>1. FileOpen(s) /\ Live(s) /\ FileHas(s)
      BY <1>23, <2>1, <2>2 DEF ThreadDispose, FileOpen, Live, OpenHas, KeyOfRequest
    <3>2. temp'[PathOf(s)] = NoFile \/ temp'[PathOf(s)] = temp[PathOf(s)]
      BY <1>23, PathType DEF ThreadDispose
    <3> QED
      BY <2>1, <3>1, <3>2 DEF FileHas, PathOf, KeyOfRequest
  <2> QED
    BY <2>2 DEF OpenHas
<1>24. ASSUME NEW t \in Task, ThreadDiscard(t) PROVE OpenHas'
  <2>1. UNCHANGED <<req, sessions, received>>
    BY <1>24 DEF ThreadDiscard
  <2>2. ASSUME NEW s \in Request, FileOpen(s)', Live(s)', s \notin leftover' PROVE FileHas(s)'
    <3>1. FileOpen(s) /\ Live(s) /\ FileHas(s)
      BY <1>24, <2>1, <2>2 DEF ThreadDiscard, FileOpen, Live, OpenHas, KeyOfRequest
    <3>2. temp'[PathOf(s)] = NoFile \/ temp'[PathOf(s)] = temp[PathOf(s)]
      BY <1>24, PathType DEF ThreadDiscard
    <3> QED
      BY <2>1, <3>1, <3>2 DEF FileHas, PathOf, KeyOfRequest
  <2> QED
    BY <2>2 DEF OpenHas
<1>25. CASE UNCHANGED vars
    BY <1>25 DEF vars
<1>26. QED
    BY <1>1, <1>2, <1>3, <1>4, <1>5, <1>6, <1>7, <1>8, <1>9, <1>10, <1>11, <1>12, <1>13, <1>14, <1>15, <1>16, <1>17, <1>18, <1>19, <1>20, <1>21, <1>22, <1>23, <1>24, <1>25 DEF Next, SaveChunk, Cleanup, Thread

(* A task that goes on to another place leaves the files alone, and, when  *)
(* it has just discarded its session's, leaves the session in the table.   *)
LEMMA UnopenedMoves ==
  ASSUME UnopenedEmpty, NEW t \in Task,
         pc[t] = "discard" /\ job[t] = "ok" => sess[t] \in leftover',
         leftover \subseteq leftover',
         \A u \in Task : u # t => pc'[u] = pc[u] /\ job'[u] = job[u],
         UNCHANGED <<req, sess, sessions, received, fh, finalized>>
  PROVE  UnopenedEmpty'
<1>1. \A s \in Request : Discarded(s) => Discarded(s)' \/ s \in leftover'
    BY DEF Discarded
<1> QED
    BY <1>1 DEF UnopenedEmpty, Live, KeyOfRequest

LEMMA MovesLeaveUnopened ==
  ASSUME Discipline, UnopenedEmpty,
         \/ \E r \in Request :
              \/ Arrive(r) \/ SkipLate(r) \/ StartFails(r) \/ LockOld(r) \/ RestartFails(r) \/ LockSession(r)
              \/ DropFinalized(r) \/ WriteEnds(r) \/ FinalizeEnds(r)
         \/ Wake \/ NothingStale \/ LockStale \/ ReaperDies
  PROVE  UnopenedEmpty'
<1> USE UnopenedMoves DEF Discipline, TypeInv, TypeOK, Task, sessionVars
<1>1. ASSUME NEW r \in Request, Arrive(r) PROVE UnopenedEmpty'
    BY <1>1 DEF Arrive
<1>2. ASSUME NEW r \in Request, SkipLate(r) \/ StartFails(r) PROVE UnopenedEmpty'
    BY <1>2 DEF SkipLate, StartFails
<1>3. ASSUME NEW r \in Request, LockOld(r) PROVE UnopenedEmpty'
    BY <1>3 DEF LockOld
<1>4. ASSUME NEW r \in Request, RestartFails(r) PROVE UnopenedEmpty'
    BY <1>4 DEF RestartFails
<1>5. ASSUME NEW r \in Request, LockSession(r) PROVE UnopenedEmpty'
    BY <1>5 DEF LockSession
<1>6. ASSUME NEW r \in Request, DropFinalized(r) PROVE UnopenedEmpty'
    BY <1>6 DEF DropFinalized
<1>7. ASSUME NEW r \in Request, WriteEnds(r) PROVE UnopenedEmpty'
    BY <1>7 DEF WriteEnds
<1>8. ASSUME NEW r \in Request, FinalizeEnds(r) PROVE UnopenedEmpty'
    BY <1>8 DEF FinalizeEnds
<1>9. ASSUME Wake PROVE UnopenedEmpty'
    BY <1>9 DEF Wake
<1>10. ASSUME NothingStale PROVE UnopenedEmpty'
    BY <1>10 DEF NothingStale
<1>11. ASSUME LockStale PROVE UnopenedEmpty'
    BY <1>11 DEF LockStale
<1>12. ASSUME ReaperDies PROVE UnopenedEmpty'
    BY <1>12 DEF ReaperDies
<1> QED
    BY <1>1, <1>2, <1>3, <1>4, <1>5, <1>6, <1>7,
       <1>8, <1>9, <1>10, <1>11, <1>12

LEMMA UnopenedEmptyStep == Discipline /\ UnopenedEmpty /\ [Next]_vars => UnopenedEmpty'
<1> SUFFICES ASSUME Discipline /\ UnopenedEmpty /\ [Next]_vars PROVE UnopenedEmpty'
    OBVIOUS
<1> USE NameAssumption DEF Discipline, TypeInv, TypeOK, Phases, Task, taskVars, lockVars, sessionVars,
                           diskVars, RequestPc, ReaperPc, UnopenedEmpty,
                           Discarded, Live, KeyOfRequest, Newborn, Table, RequestsFind, ReaperFinds
<1>1. ASSUME NEW r \in Request, StartSession(r) PROVE UnopenedEmpty'
  <2>1. ASSUME NEW s \in Request, s # r, Live(s)' PROVE Live(s)
    BY <1>1, <2>1, KeyType DEF StartSession, Create
  <2>2. ASSUME NEW s \in Request, Discarded(s) PROVE Discarded(s)'
    BY <1>1, <2>2 DEF StartSession, Create
  <2>3. received[r] = {}
    BY <1>1 DEF StartSession
  <2>4. UNCHANGED <<req, received, fh, finalized, leftover>>
    BY <1>1 DEF StartSession, Create
  <2> HIDE DEF Discipline, Discarded
  <2> QED
    BY <2>1, <2>2, <2>3, <2>4
<1>2. ASSUME NEW r \in Request, FindSession(r) PROVE UnopenedEmpty'
    BY <1>2 DEF FindSession
<1>3. ASSUME NEW r \in Request, Restart(r) PROVE UnopenedEmpty'
  <2>1. ASSUME NEW s \in Request, s # r, Live(s)' PROVE Live(s) /\ s # sess[r]
    BY <1>3, <2>1, KeyType DEF Restart, Create
  <2>2. ASSUME NEW s \in Request, s # sess[r], Discarded(s) PROVE Discarded(s)'
    BY <1>3, <2>2 DEF Restart, Create
  <2>3. received[r] = {}
    BY <1>3 DEF Restart
  <2>4. UNCHANGED <<req, received, fh, finalized, leftover>>
    BY <1>3 DEF Restart, Create
  <2> HIDE DEF Discipline, Discarded
  <2> QED
    BY <2>1, <2>2, <2>3, <2>4
<1>4. ASSUME NEW r \in Request, StartFinalize(r) PROVE UnopenedEmpty'
    BY <1>4 DEF StartFinalize
<1>5. ASSUME NEW r \in Request, Remove(r) PROVE UnopenedEmpty'
    BY <1>5 DEF Remove
<1>6. ASSUME Collect PROVE UnopenedEmpty'
  <2>1. ASSUME NEW s \in Request, Discarded(s) PROVE Discarded(s)'
    BY <1>6, <2>1 DEF Collect, Visit
  <2>2. UNCHANGED <<req, received, fh, finalized, leftover, sessions>>
    BY <1>6 DEF Collect
  <2> HIDE DEF Discipline, Discarded
  <2> QED
    BY <2>1, <2>2
<1>7. ASSUME Reaped PROVE UnopenedEmpty'
  <2>1. sess[Reaper] \in Request /\ KeyOfRequest(sess[Reaper]) \in Key
    BY <1>7, KeyType DEF Reaped
  <2>2. ASSUME NEW s \in Request, Live(s)' PROVE Live(s) /\ s # sess[Reaper]
    BY <1>7, <2>1, <2>2 DEF Reaped
  <2>3. \A t \in Request : pc'[t] = pc[t] /\ job'[t] = job[t] /\ sess'[t] = sess[t]
    BY <1>7 DEF Reaped, Visit
  <2>4. ASSUME NEW s \in Request, s # sess[Reaper], Discarded(s) PROVE Discarded(s)'
    <3> HIDE DEF Discipline, UnopenedEmpty
    <3> QED
      BY <2>3, <2>4
  <2>5. UNCHANGED <<req, received, fh, finalized, leftover>>
    BY <1>7 DEF Reaped
  <2> QED
    BY <2>2, <2>4, <2>5
<1>8. ASSUME NEW r \in Request, ThreadWrite(r) PROVE UnopenedEmpty'
    BY <1>8 DEF ThreadWrite, JobEnds
<1>9. ASSUME NEW r \in Request, ThreadWriteFails(r) PROVE UnopenedEmpty'
    BY <1>9 DEF ThreadWriteFails, JobEnds
<1>10. ASSUME NEW r \in Request, ThreadSave(r) PROVE UnopenedEmpty'
  <2>1. pc[r] = "finalize" /\ sess[r] \in Request /\ finalized[sess[r]]
    BY <1>10 DEF ThreadSave, Finalizers
  <2>2. \A s \in Request : Discarded(s) => Discarded(s)'
    BY <1>10, <2>1 DEF ThreadSave, JobEnds
  <2>3. \A s \in Request : s # sess[r] => fh'[s] = fh[s]
    BY <1>10 DEF ThreadSave
  <2>4. UNCHANGED <<req, sessions, received, finalized, leftover>>
    BY <1>10 DEF ThreadSave
  <2> QED
    BY <2>1, <2>2, <2>3, <2>4
<1>11. ASSUME NEW r \in Request, ThreadDispose(r) PROVE UnopenedEmpty'
    BY <1>11 DEF ThreadDispose, JobEnds
<1>12. ASSUME NEW t \in Task, ThreadDiscard(t) PROVE UnopenedEmpty'
  <2>1. pc[t] = "discard" /\ sess[t] \in Request
    BY <1>12, RunningInSession, HolderFinds DEF ThreadDiscard, Running
  <2>2. ASSUME NEW s \in Request, s = sess[t] PROVE fh'[s] = "closed" \/ Discarded(s)' \/ s \in leftover'
    BY <1>12, <2>1, <2>2 DEF ThreadDiscard, JobEnds
  <2>3. ASSUME NEW s \in Request, s # sess[t], Discarded(s) PROVE Discarded(s)'
    BY <1>12, <2>3 DEF ThreadDiscard, JobEnds
  <2>4. \A s \in Request : s # sess[t] => fh'[s] = fh[s]
    BY <1>12 DEF ThreadDiscard
  <2>5. UNCHANGED <<req, sessions, received, finalized>> /\ leftover \subseteq leftover'
    BY <1>12 DEF ThreadDiscard
  <2> SUFFICES ASSUME NEW s \in Request,
                      Live(s)', fh'[s] = "none", ~finalized'[s], ~Discarded(s)', s \notin leftover'
               PROVE  received'[s] = {}
    OBVIOUS
  <2>6. s # sess[t]
    BY <2>2
  <2> QED
    BY <2>3, <2>4, <2>5, <2>6
<1>13. CASE UNCHANGED vars
    BY <1>13 DEF vars
<1> HIDE DEF Discipline, UnopenedEmpty
<1> QED
    BY <1>1, <1>2, <1>3, <1>4, <1>5, <1>6, <1>7, <1>8, <1>9, <1>10, <1>11, <1>12, <1>13, MovesLeaveUnopened
    DEF Next, SaveChunk, Cleanup, Thread

(* A session that is excepted from being whole stays excepted. *)
LEMMA LeftoverGrows == [Next]_vars => leftover \subseteq leftover'
<1> SUFFICES ASSUME [Next]_vars PROVE leftover \subseteq leftover'
    OBVIOUS
<1>1. ASSUME NEW r \in Request, Arrive(r) \/ SaveChunk(r) PROVE leftover \subseteq leftover'
    BY <1>1 DEF Arrive, SaveChunk, SkipLate, StartSession, StartFails, FindSession, LockOld, Restart,
                RestartFails, Create, LockSession, DropFinalized, WriteEnds, StartFinalize,
                FinalizeEnds, Remove, sessionVars
<1>2. CASE Cleanup
    BY <1>2 DEF Cleanup, Wake, NothingStale, Collect, LockStale, Reaped, ReaperDies, sessionVars
<1>3. ASSUME NEW t \in Task, Thread(t) PROVE leftover \subseteq leftover'
    BY <1>3 DEF Thread, ThreadWrite, ThreadWriteFails, ThreadSave, ThreadDispose, ThreadDiscard,
                sessionVars
<1> QED
    BY <1>1, <1>2, <1>3 DEF Next, vars, sessionVars

LEMMA AssembledStep ==
  Discipline /\ Saved /\ Assembled /\ [Next]_vars => Assembled'
<1> SUFFICES ASSUME Discipline, Saved, Assembled, [Next]_vars PROVE Assembled'
    OBVIOUS
<1>1. OpenHas' /\ UnopenedEmpty' /\ WrittenOpen'
    BY OpenHasStep, UnopenedEmptyStep, WrittenOpenStep DEF Assembled
<1>2. ArchiveFilled'
  <2>1. ASSUME NEW r \in Request, ThreadSave(r), archive' # archive, sess[r] \notin leftover,
               NEW i \in Byte
        PROVE  temp[PathOf(sess[r])][i] \in UploadsOf(KeyOfRequest(r))
    <3> USE DEF Discipline, TypeInv, TypeOK
    <3>1. /\ pc[r] = "finalize" /\ sess[r] \in Request /\ Live(sess[r])
          /\ KeyOfRequest(sess[r]) = KeyOfRequest(r)
      BY <2>1 DEF ThreadSave, Phases, Task, RequestPc, Table, RequestsFind
    <3>2. FileHas(sess[r])
      BY <2>1, <3>1 DEF ThreadSave, Assembled, OpenHas, WrittenOpen
    <3>3. i \in received[sess[r]]
      <4> HIDE DEF Discipline
      <4> QED
        BY <2>1 DEF ThreadSave, Saved, Complete
    <3>4. temp[PathOf(sess[r])] # NoFile
      BY <2>1 DEF ThreadSave
    <3> QED
      BY <3>1, <3>2, <3>3, <3>4 DEF FileHas
  <2>2. ASSUME NEW x \in archive', x \notin archive, x.session \notin leftover, NEW i \in Byte
        PROVE  x.content[i] \in UploadsOf(x.key)
    <3>1. PICK r \in Request : ThreadSave(r)
      BY <2>2, OnlySaveArchives
    <3>2. /\ x.key = KeyOfRequest(r) /\ x.content = temp[PathOf(sess[r])]
          /\ x.session = sess[r]
      BY <2>2, <3>1 DEF ThreadSave
    <3> QED
      BY <2>1, <2>2, <3>1, <3>2
  <2> QED
    BY <2>2, LeftoverGrows DEF Assembled, ArchiveFilled
<1> QED
    BY <1>1, <1>2 DEF Assembled

(* Every byte of an archived file was sent, for an upload that is filed    *)
(* under that file's key: no chunk that is lost, repeated, reordered or    *)
(* refused by the disk leaves a hole, and no other key's upload gets in,   *)
(* whatever raises, unless the session had been discarded and an exception *)
(* left it in the table.                                                   *)
THEOREM ArchivesFilled == Spec => []ArchiveFilled
<1>1. Init => Assembled
    BY DEF Init, Assembled, OpenHas, UnopenedEmpty, WrittenOpen, FileOpen, ArchiveFilled, Task
<1>2. Discipline /\ Saved /\ Assembled /\ [Next]_vars => Assembled'
    BY AssembledStep
<1>3. Init => Saved
    BY DEF Init, Saved, ArchivedOnce, Task
<1>4. Discipline /\ Saved /\ [Next]_vars => Saved'
    BY SavedStep
<1>5. Assembled => ArchiveFilled
    BY DEF Assembled
<1> QED
    BY <1>1, <1>2, <1>3, <1>4, <1>5, Disciplined, PTL DEF Spec

LEMMA FilledIntact ==
  ASSUME DistinctKeys, archive \in SUBSET Archived, ArchiveFilled
  PROVE  ArchiveIntact
<1> SUFFICES ASSUME NEW x \in archive, x.session \notin leftover PROVE WholeFile(x)
    BY DEF ArchiveIntact
<1>1. 0 \in Byte
    BY ChunkAssumption DEF Byte
<1>2. x.content[0] \in UploadsOf(x.key) /\ x.content \in Content
    BY <1>1 DEF ArchiveFilled, Archived
<1>3. \A i \in Byte : x.content[i] = x.content[0]
    BY <1>2 DEF ArchiveFilled, UploadsOf, DistinctKeys
<1>4. x.content = [i \in Byte |-> x.content[0]]
    BY <1>2, <1>3 DEF Content
<1> QED
    BY <1>2, <1>4 DEF UploadsOf, WholeFile

(* When different uploads have different keys, everything in the archive   *)
(* is the whole file of one upload, whatever is lost, repeated, reordered  *)
(* or refused by the disk, unless its session had been discarded and an    *)
(* exception left it in the table.                                         *)
THEOREM ArchivesIntact == ASSUME DistinctKeys PROVE Spec => []ArchiveIntact
<1>1. TypeOK /\ ArchiveFilled => ArchiveIntact
    BY FilledIntact DEF TypeOK
<1> QED
    BY <1>1, Typed, ArchivesFilled, PTL

-----------------------------------------------------------------------------
(* No temp file outlives its session *)

(* The steps of the coroutines. *)
Coroutine == (\E r \in Request : Arrive(r) \/ SaveChunk(r)) \/ Cleanup

LEMMA CoroutinesRid ==
  Discipline /\ Coroutine =>
    /\ UNCHANGED <<req, temp>>
    /\ \A t \in Task : Rid(t)' => Rid(t) /\ sess'[t] = sess[t]
<1> DEFINE goal == /\ UNCHANGED <<req, temp>>
                   /\ \A t \in Task : Rid(t)' => Rid(t) /\ sess'[t] = sess[t]
<1> SUFFICES ASSUME Discipline, Coroutine PROVE goal
    OBVIOUS
<1> USE NameAssumption DEF Discipline, TypeInv, TypeOK, Phases, Task, taskVars, lockVars, sessionVars,
                           diskVars, RequestPc, ReaperPc,
                           Rid, Live, KeyOfRequest, Newborn
<1>1. ASSUME NEW r \in Request, Arrive(r) PROVE goal
    BY <1>1 DEF Arrive
<1>2. ASSUME NEW r \in Request, SkipLate(r) \/ StartFails(r) PROVE goal
    BY <1>2 DEF SkipLate, StartFails
<1>3. ASSUME NEW r \in Request, StartSession(r) \/ Restart(r) PROVE goal
  <2>1. /\ pc' = [pc EXCEPT ![r] = "write"] /\ job' = [job EXCEPT ![r] = "write"]
        /\ sess' = [sess EXCEPT ![r] = r] /\ UNCHANGED <<req, temp>>
        /\ sessions' = [sessions EXCEPT ![KeyOfRequest(r)] = r]
        /\ \A t \in Task : sess[t] # r
    BY <1>3 DEF StartSession, Restart, Create
  <2>2. ~Rid(r)'
    BY <2>1
  <2>3. \A t \in Task \ {r} : pc'[t] = pc[t] /\ job'[t] = job[t] /\ sess'[t] = sess[t]
    BY <2>1
  <2>4. ASSUME NEW t \in Task, pc[t] = "remove", t # r, Live(sess[t])' PROVE Live(sess[t])
    BY <2>1, <2>3, <2>4, KeyType
  <2>5. ASSUME NEW t \in Task, Rid(t)' PROVE Rid(t) /\ sess'[t] = sess[t]
    <3>1. t # r
      BY <2>2, <2>5
    <3>2. pc'[t] = pc[t] /\ job'[t] = job[t] /\ sess'[t] = sess[t]
      BY <2>3, <3>1
    <3>3. CASE pc[t] = "remove"
      <4>1. Live(sess[t])'
        <5> HIDE DEF Live
        <5> QED
          BY <2>5, <3>2, <3>3
      <4> QED
        BY <2>4, <3>1, <3>2, <3>3, <4>1
    <3>4. CASE pc[t] # "remove"
      BY <2>5, <3>2, <3>4
    <3> QED
      BY <3>3, <3>4
  <2> QED
    BY <2>1, <2>5
<1>4. ASSUME NEW r \in Request, FindSession(r) PROVE goal
    BY <1>4 DEF FindSession
<1>5. ASSUME NEW r \in Request, LockOld(r) PROVE goal
    BY <1>5 DEF LockOld
<1>6. ASSUME NEW r \in Request, Restart(r) PROVE goal
    BY <1>3, <1>6
<1>7. ASSUME NEW r \in Request, RestartFails(r) PROVE goal
    BY <1>7 DEF RestartFails
<1>8. ASSUME NEW r \in Request, LockSession(r) PROVE goal
    BY <1>8 DEF LockSession
<1>9. ASSUME NEW r \in Request, DropFinalized(r) PROVE goal
    BY <1>9 DEF DropFinalized
<1>10. ASSUME NEW r \in Request, WriteEnds(r) PROVE goal
    BY <1>10 DEF WriteEnds
<1>11. ASSUME NEW r \in Request, StartFinalize(r) PROVE goal
    BY <1>11 DEF StartFinalize
<1>12. ASSUME NEW r \in Request, FinalizeEnds(r) PROVE goal
    BY <1>12 DEF FinalizeEnds
<1>13. ASSUME NEW r \in Request, Remove(r) PROVE goal
    BY <1>13 DEF Remove
<1>14. ASSUME Wake PROVE goal
    BY <1>14 DEF Wake
<1>15. ASSUME NothingStale PROVE goal
    BY <1>15 DEF NothingStale, Stale
<1>16. ASSUME Collect PROVE goal
  <2>1. UNCHANGED <<req, temp, job, sessions>> /\ pc'[Reaper] = "session"
    BY <1>16 DEF Collect, Visit
  <2>2. \A r \in Request : pc'[r] = pc[r] /\ sess'[r] = sess[r]
    BY <1>16 DEF Collect, Visit
  <2> QED
    BY <2>1, <2>2
<1>17. ASSUME LockStale PROVE goal
    BY <1>17 DEF LockStale
<1>18. ASSUME Reaped PROVE goal
    BY <1>18 DEF Reaped, Visit
<1>19. ASSUME ReaperDies PROVE goal
    BY <1>19 DEF ReaperDies
<1> HIDE DEF goal
<1>20. QED
    BY <1>1, <1>2, <1>3, <1>4, <1>5, <1>6, <1>7, <1>8, <1>9, <1>10, <1>11, <1>12, <1>13, <1>14, <1>15, <1>16, <1>17, <1>18, <1>19 DEF Coroutine, SaveChunk, Cleanup

(* A thread that may write is in a file that no one got rid of. *)
LEMMA WriterApart ==
  ASSUME Discipline, NEW r \in Request, job[r] = "write",
         NEW t \in Task, Rid(t), t # r, sess[t] \in Request
  PROVE  PathOf(sess[t]) # PathOf(sess[r])
<1>1. sess[r] \in Request /\ Live(sess[r]) /\ InSession(r) /\ ~finalized[sess[r]]
    BY WriterFinds DEF InSession
<1>2. CASE InSession(t)
    BY <1>1, <1>2, HolderFinds, HolderAlone, LivePathsDiffer DEF Task
<1>3. CASE pc[t] = "remove" /\ Live(sess[t])
  <2>1. t \in Request /\ finalized[sess[t]]
    BY <1>3, NameAssumption
    DEF Discipline, TypeInv, TypeOK, ReaperPc, Task, Finalizers
  <2> QED
    BY <1>1, <1>3, <2>1, LivePathsDiffer
<1> QED
    BY <1>2, <1>3 DEF Rid, InSession

LEMMA RidHasSession ==
  ASSUME Discipline, NEW t \in Task, Rid(t) PROVE sess[t] \in Request
<1>1. CASE InSession(t)
    BY <1>1, HolderFinds
<1>2. CASE pc[t] = "remove"
    BY <1>2, NameAssumption DEF Discipline, TypeInv, TypeOK, Phases, Task, ReaperPc
<1> QED
    BY <1>1, <1>2 DEF Rid, InSession

LEMMA GoneStep == DisposalWorks /\ Discipline /\ Gone /\ [Next]_vars => Gone'
<1> SUFFICES ASSUME DisposalWorks, Discipline, Gone, [Next]_vars,
                    NEW t \in Task, Rid(t)'
             PROVE  temp'[PathOf(sess[t])'] = NoFile
    BY DEF Gone
<1>1. ASSUME UNCHANGED <<req, temp>>, Rid(t), sess'[t] = sess[t]
      PROVE  temp'[PathOf(sess[t])'] = NoFile
    BY <1>1 DEF Gone, PathOf, KeyOfRequest
<1>2. CASE Coroutine
    BY <1>1, <1>2, CoroutinesRid
<1>3. CASE UNCHANGED vars
    BY <1>1, <1>3 DEF vars, taskVars, diskVars, Rid, Live, KeyOfRequest
<1>4. ASSUME NEW r \in Request, ThreadWrite(r) \/ ThreadWriteFails(r)
      PROVE  temp'[PathOf(sess[t])'] = NoFile
  <2>1. /\ job[r] = "write" /\ UNCHANGED <<pc, req, sess, sessions>>
        /\ \A u \in Task : u # r => job'[u] = job[u]
        /\ job'[r] \in {"ok", "failed"}
    BY <1>4 DEF ThreadWrite, ThreadWriteFails, JobEnds, Discipline, TypeInv, TypeOK, Task
  <2>2. t # r /\ Rid(t)
    BY <2>1, WriterFinds DEF Rid, Live, KeyOfRequest
  <2>3. sess[t] \in Request
    BY <2>2, RidHasSession
  <2>4. PathOf(sess[t]) # PathOf(sess[r]) /\ PathOf(sess[t]) \in Path
    BY <2>1, <2>2, <2>3, WriterApart, PathType DEF Discipline, TypeInv, TypeOK
  <2>5. temp'[PathOf(sess[t])] = temp[PathOf(sess[t])]
    BY <1>4, <2>4 DEF ThreadWrite, ThreadWriteFails, Discipline, TypeInv, TypeOK
  <2> QED
    BY <2>1, <2>2, <2>5 DEF Gone, PathOf, KeyOfRequest
<1>5. ASSUME NEW u \in Task,
             UNCHANGED <<pc, req, sess, sessions>>,
             \A q \in Task : q # u => job'[q] = job[q],
             \A p \in Path : temp'[p] \in {temp[p], NoFile},
             t = u => temp'[PathOf(sess[u])] = NoFile
      PROVE  temp'[PathOf(sess[t])'] = NoFile
  <2>1. CASE t = u
    BY <1>5, <2>1 DEF PathOf, KeyOfRequest
  <2>2. CASE t # u
    <3>1. Rid(t)
      BY <1>5, <2>2 DEF Rid, Live, KeyOfRequest
    <3>2. temp[PathOf(sess[t])] = NoFile /\ PathOf(sess[t]) \in Path
      BY <3>1, RidHasSession, PathType DEF Gone, Discipline, TypeInv, TypeOK
    <3> QED
      BY <1>5, <3>2 DEF PathOf, KeyOfRequest
  <2> QED
    BY <2>1, <2>2
<1> USE DEF Discipline, TypeInv, TypeOK
<1>6. ASSUME NEW r \in Request, ThreadSave(r) PROVE temp'[PathOf(sess[t])'] = NoFile
  <2>1. /\ r \in Task /\ UNCHANGED <<pc, req, sess, sessions, temp>>
        /\ \A q \in Task : q # r => job'[q] = job[q]
        /\ job'[r] = "dispose" \/ (job'[r] = "failed" /\ temp[PathOf(sess[r])] = NoFile)
    BY <1>6 DEF ThreadSave, JobEnds, DisposalWorks, Task
  <2>2. pc[r] = "finalize"
    BY <1>6 DEF ThreadSave, Phases, RequestPc
  <2>3. t = r => temp'[PathOf(sess[r])] = NoFile
    BY <2>1, <2>2 DEF Rid
  <2> QED
    BY <1>5, <2>1, <2>3
<1>7. ASSUME NEW r \in Request, ThreadDispose(r) PROVE temp'[PathOf(sess[t])'] = NoFile
  <2>1. /\ r \in Task /\ UNCHANGED <<pc, req, sess, sessions>>
        /\ \A q \in Task : q # r => job'[q] = job[q]
        /\ temp' = [temp EXCEPT ![PathOf(sess[r])] = NoFile]
    BY <1>7 DEF ThreadDispose, JobEnds, DisposalWorks, Task
  <2>2. sess[r] \in Request
    BY <1>7 DEF ThreadDispose, Phases, RequestPc
  <2>3. temp'[PathOf(sess[r])] = NoFile
    BY <2>1, <2>2, PathType
  <2> QED
    BY <1>5, <2>1, <2>3
<1>8. ASSUME NEW u \in Task, ThreadDiscard(u) PROVE temp'[PathOf(sess[t])'] = NoFile
  <2>1. /\ UNCHANGED <<pc, req, sess, sessions>>
        /\ \A q \in Task : q # u => job'[q] = job[q]
        /\ \/ temp' = [temp EXCEPT ![PathOf(sess[u])] = NoFile]
           \/ temp' = temp /\ job'[u] = "failed"
    BY <1>8 DEF ThreadDiscard, JobEnds
  <2>2. pc[u] = "discard" /\ sess[u] \in Request
    BY <1>8, RunningInSession, HolderFinds, NameAssumption
    DEF ThreadDiscard, Running, Phases, Task, RequestPc, ReaperPc
  <2>3. t = u => temp'[PathOf(sess[u])] = NoFile
    BY <2>1, <2>2, PathType DEF Rid
  <2> QED
    BY <1>5, <2>1, <2>3
<1> QED
    BY <1>2, <1>3, <1>4, <1>6, <1>7, <1>8 DEF Next, Thread, Coroutine

LEMMA OwnedStep ==
  DisposalWorks /\ Discipline /\ Gone /\ NoOrphanTemp /\ [Next]_vars => NoOrphanTemp'
<1> SUFFICES ASSUME DisposalWorks, Discipline, Gone, NoOrphanTemp, [Next]_vars,
                    NEW p \in Path, temp'[p] # NoFile
             PROVE  \E k \in Key : sessions'[k] # NoSession /\ (PathOf(sessions[k]) = p)'
    BY DEF NoOrphanTemp
<1> USE DEF Discipline, TypeInv, TypeOK
<1>1. ASSUME NEW k \in Key, sessions[k] # NoSession, PathOf(sessions[k]) = p,
             sessions'[k] = sessions[k], req' = req
      PROVE  \E j \in Key : sessions'[j] # NoSession /\ (PathOf(sessions[j]) = p)'
    BY <1>1 DEF PathOf, KeyOfRequest
<1>2. ASSUME UNCHANGED <<sessions, req>>, temp[p] # NoFile
      PROVE  \E k \in Key : sessions'[k] # NoSession /\ (PathOf(sessions[k]) = p)'
    BY <1>1, <1>2 DEF NoOrphanTemp
(* An entry that changes belongs to a session whose file is gone. *)
<1>3. ASSUME UNCHANGED <<temp, req>>, NEW t \in Task, sess[t] \in Request, Live(sess[t]), Rid(t),
             \A k \in Key : sessions[k] # sess[t] => sessions'[k] = sessions[k]
      PROVE  \E k \in Key : sessions'[k] # NoSession /\ (PathOf(sessions[k]) = p)'
  <2>1. PICK k \in Key : sessions[k] # NoSession /\ PathOf(sessions[k]) = p
    BY <1>3 DEF NoOrphanTemp
  <2>2. temp[PathOf(sess[t])] = NoFile
    BY <1>3 DEF Gone
  <2>3. sessions[k] # sess[t]
    BY <1>3, <2>1, <2>2
  <2> QED
    BY <1>1, <1>3, <2>1, <2>3
<1>4. ASSUME NEW r \in Request, StartSession(r)
      PROVE  \E k \in Key : sessions'[k] # NoSession /\ (PathOf(sessions[k]) = p)'
  <2>1. /\ UNCHANGED <<temp, req>>
        /\ sessions[KeyOfRequest(r)] = NoSession
        /\ sessions' = [sessions EXCEPT ![KeyOfRequest(r)] = r]
    BY <1>4 DEF StartSession, Create, diskVars
  <2>2. PICK k \in Key : sessions[k] # NoSession /\ PathOf(sessions[k]) = p
    BY <2>1 DEF NoOrphanTemp
  <2> QED
    BY <1>1, <2>1, <2>2
<1>5. ASSUME NEW r \in Request, Restart(r) \/ Remove(r)
      PROVE  \E k \in Key : sessions'[k] # NoSession /\ (PathOf(sessions[k]) = p)'
  <2>1. /\ UNCHANGED <<temp, req>> /\ sess[r] \in Request /\ r \in Task
        /\ KeyOfRequest(sess[r]) = KeyOfRequest(r)
    BY <1>5 DEF Restart, Create, Remove, diskVars, Phases, Table, RequestsFind, Task
  <2>2. \A k \in Key : sessions[k] # sess[r] => sessions'[k] = sessions[k]
    BY <1>5, <2>1 DEF Restart, Create, Remove, Table, RequestsFind, Live
  <2>3. CASE Live(sess[r])
    BY <1>3, <1>5, <2>1, <2>2, <2>3 DEF Rid, Restart, Remove
  <2>4. CASE ~Live(sess[r])
    <3>1. sessions' = sessions
      BY <1>5, <2>1, <2>4 DEF Restart, Create, Remove, Table, RequestsFind, Live
    <3> QED
      BY <1>2, <2>1, <3>1
  <2> QED
    BY <2>3, <2>4
<1>6. CASE Reaped
  <2>1. /\ UNCHANGED <<temp, req>> /\ sess[Reaper] \in Request /\ Live(sess[Reaper])
        /\ Reaper \in Task /\ Rid(Reaper)
        /\ sessions' = [sessions EXCEPT ![KeyOfRequest(sess[Reaper])] = NoSession]
    BY <1>6 DEF Reaped, diskVars, Table, ReaperFinds, Task, Rid
  <2>2. \A k \in Key : sessions[k] # sess[Reaper] => sessions'[k] = sessions[k]
    BY <2>1 DEF Live
  <2> QED
    BY <1>3, <2>1, <2>2
<1>7. ASSUME NEW r \in Request, ThreadWrite(r) \/ ThreadWriteFails(r)
      PROVE  \E k \in Key : sessions'[k] # NoSession /\ (PathOf(sessions[k]) = p)'
  <2>1. job[r] = "write" /\ UNCHANGED <<sessions, req>>
    BY <1>7 DEF ThreadWrite, ThreadWriteFails
  <2>2. p = PathOf(sess[r]) \/ temp'[p] = temp[p]
    BY <1>7 DEF ThreadWrite, ThreadWriteFails
  <2>3. /\ sess[r] \in Request /\ sess[r] # NoSession /\ Live(sess[r])
        /\ KeyOfRequest(sess[r]) \in Key
    BY <2>1, WriterFinds, KeyType, NameAssumption
  <2>4. CASE p = PathOf(sess[r])
    BY <1>1, <2>1, <2>3, <2>4 DEF Live
  <2> QED
    BY <1>2, <2>1, <2>2, <2>4
<1>8. ASSUME UNCHANGED <<sessions, req>>, \A q \in Path : temp'[q] \in {temp[q], NoFile}
      PROVE  \E k \in Key : sessions'[k] # NoSession /\ (PathOf(sessions[k]) = p)'
    BY <1>2, <1>8
<1>9. ASSUME NEW r \in Request, ThreadSave(r) \/ ThreadDispose(r)
      PROVE  UNCHANGED <<sessions, req>> /\ \A q \in Path : temp'[q] \in {temp[q], NoFile}
    BY <1>9 DEF ThreadSave, ThreadDispose
<1>10. ASSUME NEW t \in Task, ThreadDiscard(t)
       PROVE  UNCHANGED <<sessions, req>> /\ \A q \in Path : temp'[q] \in {temp[q], NoFile}
    BY <1>10 DEF ThreadDiscard
<1>11. CASE UNCHANGED vars
    BY <1>2, <1>11 DEF vars, taskVars, diskVars
<1>12. CASE Coroutine
  <2>1. UNCHANGED <<req, temp>>
    BY <1>12, CoroutinesRid
  <2>2. ASSUME NEW r \in Request, ThreadWrite(r) \/ ThreadSave(r) PROVE UNCHANGED sessions
    BY <2>2 DEF ThreadWrite, ThreadSave
  <2> QED
    BY <1>2, <1>4, <1>5, <1>6, <2>1, <2>2, OnlyThreeChangeTable
<1> QED
    BY <1>7, <1>8, <1>9, <1>10, <1>11, <1>12 DEF Next, Thread, Coroutine

(* As long as finished files can be archived, every temp file belongs to a *)
(* session in the table, where the reaper and discard_all find it.         *)
THEOREM NoOrphans == ASSUME DisposalWorks PROVE Spec => []NoOrphanTemp
<1>1. Init => Gone /\ NoOrphanTemp
    BY NameAssumption DEF Init, Gone, Rid, NoOrphanTemp, Task
<1>2. Discipline /\ Gone /\ [Next]_vars => Gone'
    BY GoneStep
<1>3. Discipline /\ Gone /\ NoOrphanTemp /\ [Next]_vars => NoOrphanTemp'
    BY OwnedStep
<1> QED
    BY <1>1, <1>2, <1>3, Disciplined, PTL DEF Spec

=============================================================================
