--------------------------- MODULE SessionShutdown ---------------------------
(***************************************************************************)
(* A session manager while the process shuts down (main.py:164-184 and     *)
(* upload_session.py:167-175 of src/src): the reaper is cancelled wherever *)
(* it is, requests are accepted a while longer, then waited for and, if    *)
(* they take too long, cancelled; at last discard_all discards what is     *)
(* left.  Cancelling a task releases the locks that it holds; the worker   *)
(* thread that it waits for goes on.                                       *)
(***************************************************************************)
EXTENDS ChunkSessions

CONSTANT Closer (* the task of discard_all *)

ASSUME CloserAssumption == Closer \notin Task \cup {Nobody}

VARIABLES
  stop,      (* how far the shutdown is: "serve", "accept" after the signal,*)
             (* "drain", then discard_all: "manager" while it waits for its *)
             (* lock, "visit", "discard", "over", "failed"                  *)
  closing,   (* the session that discard_all is at                          *)
  closed,    (* the keys of those that it has discarded                     *)
  disturbed  (* whether a task was cancelled whose thread goes on           *)

stopVars == <<stop, closing, closed, disturbed>>
shutdownVars == <<vars, stopVars>>

InitShutdown ==
  /\ Init
  /\ stop = "serve" /\ closing = NoSession /\ closed = {} /\ disturbed = FALSE

(* The locks after tasks T were cancelled. *)
Release(T) ==
  /\ mlock' = IF mlock \in T THEN Nobody ELSE mlock
  /\ slock' = [s \in Request |-> IF slock[s] \in T THEN Nobody ELSE slock[s]]

(* task.cancel() for the reaper; its local variables go with it. *)
Signal ==
  /\ stop = "serve"
  /\ stop' = "accept" /\ disturbed' = (pc[Reaper] = "discard")
  /\ pc' = [pc EXCEPT ![Reaper] = "dead"] /\ todo' = {} /\ cutoff' = 0
  /\ leftover' = IF pc[Reaper] = "discard" THEN leftover \cup {sess[Reaper]} ELSE leftover
  /\ Release({Reaper})
  /\ UNCHANGED <<req, sess, job, sessions, received, finalized, fh, births, born, diskVars,
                 closing, closed>>

StopAccepting ==
  /\ stop = "accept"
  /\ stop' = "drain"
  /\ UNCHANGED <<vars, closing, closed, disturbed>>

Active == {r \in Request : pc[r] \notin {"idle", "done"}}

(* runner.cleanup() has waited long enough. *)
CancelRequests ==
  /\ stop = "drain" /\ Active # {}
  /\ disturbed' = (disturbed \/ \E r \in Active : pc[r] \in {"discard", "write", "finalize"})
  /\ pc' = [t \in Task |-> IF t \in Active THEN "done" ELSE pc[t]]
  /\ leftover' = leftover \cup {sess[r] : r \in {x \in Active : pc[x] = "discard"}}
  /\ Release(Active)
  /\ UNCHANGED <<req, sess, job, todo, cutoff, sessions, received, finalized, fh, births, born, diskVars,
                 stop, closing, closed>>

(* Faulty: sessions are discarded beneath requests that still run. *)
NotDrained ==
  /\ stop = "drain"
  /\ stop' = "manager"
  /\ UNCHANGED <<vars, closing, closed, disturbed>>

Drained ==
  /\ stop = "drain" /\ Active = {}
  /\ stop' = "manager"
  /\ UNCHANGED <<vars, closing, closed, disturbed>>

-----------------------------------------------------------------------------
(* discard_all *)

LockManager ==
  /\ stop = "manager" /\ mlock = Nobody
  /\ mlock' = Closer
  /\ stop' = "visit"
  /\ UNCHANGED <<taskVars, sessions, slock, sessionVars, diskVars, closing, closed, disturbed>>

Left == {k \in Key \ closed : sessions[k] # NoSession}

LockNext ==
  /\ stop = "visit"
  /\ \E k \in Left :
       /\ slock[sessions[k]] = Nobody
       /\ slock' = [slock EXCEPT ![sessions[k]] = Closer]
       /\ closing' = sessions[k] /\ closed' = closed \cup {k}
  /\ stop' = "discard"
  /\ UNCHANGED <<taskVars, sessions, mlock, sessionVars, diskVars, disturbed>>

(* The thread's discard() and the release of the session's lock. *)
DiscardNext ==
  /\ stop = "discard"
  /\ fh' = [fh EXCEPT ![closing] = "none"]
  /\ temp' = [temp EXCEPT ![PathOf(closing)] = NoFile]
  /\ slock' = [slock EXCEPT ![closing] = Nobody]
  /\ closing' = NoSession
  /\ stop' = "visit"
  /\ UNCHANGED <<taskVars, sessions, mlock, received, finalized, births, born, leftover,
                 archive, closed, disturbed>>

(* discard() raised (see ThreadDiscard): the exception leaves discard_all, *)
(* and with it the shutdown.                                               *)
DiscardFails ==
  /\ stop = "discard"
  /\ \/ /\ "close" \in Faults /\ fh[closing] = "dirty"
        /\ fh' = [fh EXCEPT ![closing] = "closed"]
        /\ UNCHANGED leftover
     \/ /\ "unlink" \in Faults
        /\ fh' = [fh EXCEPT ![closing] = "none"]
        /\ leftover' = leftover \cup {closing}
  /\ slock' = [slock EXCEPT ![closing] = Nobody] /\ mlock' = Nobody
  /\ stop' = "failed"
  /\ UNCHANGED <<taskVars, sessions, received, finalized, births, born, diskVars,
                 closing, closed, disturbed>>

Cleared ==
  /\ stop = "visit" /\ Left = {}
  /\ sessions' = [k \in Key |-> NoSession]
  /\ mlock' = Nobody
  /\ stop' = "over"
  /\ UNCHANGED <<taskVars, slock, sessionVars, diskVars, closing, closed, disturbed>>

-----------------------------------------------------------------------------
Stopping == StopAccepting \/ Drained \/ LockManager \/ LockNext \/ DiscardNext \/ DiscardFails \/ Cleared

Serving ==
  /\ \/ \E r \in Request : (stop \in {"serve", "accept"} /\ Arrive(r)) \/ SaveChunk(r)
     \/ Cleanup
     \/ \E t \in Task : Thread(t)
  /\ UNCHANGED stopVars

NextShutdown == Serving \/ Signal \/ CancelRequests \/ Stopping

FairnessShutdown ==
  /\ \A r \in Request : WF_shutdownVars(SaveChunk(r) /\ UNCHANGED stopVars)
  /\ WF_shutdownVars(Cleanup /\ UNCHANGED stopVars)
  /\ \A t \in Task : WF_shutdownVars(Thread(t) /\ UNCHANGED stopVars)
  /\ WF_shutdownVars(Stopping)

SpecShutdown == InitShutdown /\ [][NextShutdown]_shutdownVars /\ FairnessShutdown

-----------------------------------------------------------------------------
(* upload_session.py:168-175: what requests, reaper and discard_all leave  *)
(* in the end is no session, and no temp file but that of a session whose  *)
(* finalize() raised, and nothing half is in the archive but what          *)
(* ArchiveIntact excepts, at whatever step the signal found them, unless a *)
(* task was cancelled whose thread goes on.                                *)
DiscardsAll ==
  ~disturbed => /\ ArchiveIntact
                /\ stop = "over" =>
                     /\ \A k \in Key : sessions[k] = NoSession
                     /\ \A p \in Path : temp[p] # NoFile =>
                          \E s \in Request : finalized[s] /\ PathOf(s) = p

(* upload_session.py:167-175: the shutdown gets through discard_all, with  *)
(* requests and the reaper stopped between any two of their locks.         *)
DiscardAllEnds == stop # "serve" ~> stop \in {"over", "failed"}

(* http_proxy.py:359-364: a session that outlives the limit is taken out   *)
(* of the table in the end, as long as there is a reaper: it is cancelled  *)
(* at the shutdown, and a discard() that raises ends it for good.          *)
StaleReapedWhileAlive ==
  \A r \in Request : Live(r) /\ born[r] \in 1 .. cutoff ~> ~Live(r) \/ pc[Reaper] = "dead"

=============================================================================
