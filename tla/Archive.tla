------------------------------- MODULE Archive -------------------------------
(***************************************************************************)
(* The archive (src/src/storage.py): worker threads that each turn one     *)
(* complete temp file into a JSON sidecar and, when G-code is kept, a      *)
(* .gcode file beside it; the retention sweep; and the two look-ups of the *)
(* REST API, which read while threads write.                               *)
(*                                                                         *)
(* A file's place is the local time in its name, to the second, and the    *)
(* rest of the name; its directory is the day of that time.  Names are     *)
(* numbers in the order in which they sort.                                *)
(***************************************************************************)
EXTENDS Integers, FiniteSetsExt

CONSTANTS
  Upload,      (* the complete temp files                                   *)
  FileName,
  FileOf,      (* the filename in each upload's metadata                    *)
  Sanitized,   (* what each filename becomes in the archive                 *)
  Local,       (* the local time at each second of the clock                *)
  MaxClock,    (* bound on the clock                                        *)
  PerDay,      (* bound: the seconds of a day                               *)
  Retention,   (* RETENTION_DAYS, 0 for ever                                *)
  StoreGcode,
  Faults,      (* the steps that may fail: "parse", "write", "dispose"      *)
  Absent,      (* no file                                                   *)
  Torn         (* a sidecar whose text is not complete                      *)

ASSUME ArchiveAssumption ==
  /\ FileOf \in [Upload -> FileName] /\ Sanitized \in [FileName -> Nat]
  /\ MaxClock \in Nat /\ PerDay \in Nat \ {0} /\ Retention \in Nat
  /\ Local \in [0 .. MaxClock -> Nat]
  /\ StoreGcode \in BOOLEAN /\ Faults \subseteq {"parse", "write", "dispose"}
  /\ Absent \notin Upload /\ Torn \notin Upload /\ Absent # Torn

Place == [time : Range(Local), name : Range(Sanitized)]

VARIABLES
  clock,
  job,       (* where save_gcode_file() is for each upload                  *)
  now,       (* when it started: the time of its capture                    *)
  temp,      (* the temp files on disk                                      *)
  sidecar,   (* the upload that the sidecar of a place describes            *)
  gcode      (* the upload that the .gcode file of a place holds            *)

vars == <<clock, job, now, temp, sidecar, gcode>>

Day(time) == time \div PerDay

PlaceOf(u) == [time |-> Local[now[u]], name |-> Sanitized[FileOf[u]]]

Init ==
  /\ clock = 0
  /\ job = [u \in Upload |-> "none"] /\ now = [u \in Upload |-> 0]
  /\ temp = Upload
  /\ sidecar = [p \in Place |-> Absent] /\ gcode = [p \in Place |-> Absent]

Running == {u \in Upload : job[u] \in {"parsed", "opened", "described"}}

(* A thread is done by the end of the next day, so that the sweep never    *)
(* removes the directory it writes to.                                     *)
Tick ==
  /\ clock < MaxClock
  /\ \A u \in Running : Day(Local[clock + 1]) <= Day(Local[now[u]]) + 1
  /\ clock' = clock + 1
  /\ UNCHANGED <<job, now, temp, sidecar, gcode>>

-----------------------------------------------------------------------------
(* save_gcode_file() *)

Begin(u) ==
  /\ job[u] = "none"
  /\ now' = [now EXCEPT ![u] = clock]
  /\ job' = [job EXCEPT ![u] = "parsed"]
  /\ UNCHANGED <<clock, temp, sidecar, gcode>>

Fail(u) ==
  /\ \/ job[u] = "parsed" /\ "parse" \in Faults
     \/ job[u] = "opened" /\ "write" \in Faults
     \/ job[u] = "described" /\ "dispose" \in Faults
  /\ job' = [job EXCEPT ![u] = "failed"]
  /\ UNCHANGED <<clock, now, temp, sidecar, gcode>>

(* write_text() empties the file first ... *)
Open(u) ==
  /\ job[u] = "parsed"
  /\ sidecar' = [sidecar EXCEPT ![PlaceOf(u)] = Torn]
  /\ job' = [job EXCEPT ![u] = "opened"]
  /\ UNCHANGED <<clock, now, temp, gcode>>

(* ... and then writes it. *)
Describe(u) ==
  /\ job[u] = "opened"
  /\ sidecar' = [sidecar EXCEPT ![PlaceOf(u)] = u]
  /\ job' = [job EXCEPT ![u] = "described"]
  /\ UNCHANGED <<clock, now, temp, gcode>>

(* Faulty: the temp file is disposed of before the sidecar is written. *)
DisposeFirst(u) ==
  /\ job[u] \in {"opened", "described"} /\ u \in temp
  /\ temp' = temp \ {u}
  /\ gcode' = IF StoreGcode THEN [gcode EXCEPT ![PlaceOf(u)] = u] ELSE gcode
  /\ job' = [job EXCEPT ![u] = IF @ = "described" THEN "done" ELSE @]
  /\ UNCHANGED <<clock, now, sidecar>>

(* move() renames: .tmp is in the archive's own directory. *)
Dispose(u) ==
  /\ job[u] = "described"
  /\ temp' = temp \ {u}
  /\ gcode' = IF StoreGcode THEN [gcode EXCEPT ![PlaceOf(u)] = u] ELSE gcode
  /\ job' = [job EXCEPT ![u] = "done"]
  /\ UNCHANGED <<clock, now, sidecar>>

-----------------------------------------------------------------------------
(* Retention: directories of days before the cutoff are removed. *)

(* Faulty: the day at the boundary is removed too. *)
ExpiredAtBoundary(p) == Retention > 0 /\ Day(p.time) <= Day(Local[clock]) - Retention

Expired(p) == Retention > 0 /\ Day(p.time) < Day(Local[clock]) - Retention

CleanupOldFiles ==
  /\ sidecar' = [p \in Place |-> IF Expired(p) THEN Absent ELSE sidecar[p]]
  /\ gcode' = [p \in Place |-> IF Expired(p) THEN Absent ELSE gcode[p]]
  /\ UNCHANGED <<clock, job, now, temp>>

Next ==
  \/ Tick \/ CleanupOldFiles
  \/ \E u \in Upload : Begin(u) \/ Fail(u) \/ Open(u) \/ Describe(u) \/ Dispose(u)

Spec == Init /\ [][Next]_vars

-----------------------------------------------------------------------------
(* Look-ups.  Sidecars sort by day, then by name, which begins with the    *)
(* time.                                                                   *)

After(p, q) == p.time > q.time \/ (p.time = q.time /\ p.name > q.name)

LastOf(S) == CHOOSE p \in S : \A q \in S \ {p} : After(p, q)

Sidecars == {p \in Place : sidecar[p] # Absent}

Complete == {p \in Sidecars : sidecar[p] # Torn}

(* Faulty: the first one that sorts. *)
FindFirst(f) ==
  LET matching == {p \in Complete : FileOf[sidecar[p]] = f}
  IN IF matching = {} THEN Absent
     ELSE sidecar[CHOOSE p \in matching : \A q \in matching \ {p} : After(q, p)]

(* find_metadata(): a sidecar that cannot be read is skipped. *)
FindMetadata(f) ==
  LET matching == {p \in Complete : FileOf[sidecar[p]] = f}
  IN IF matching = {} THEN Absent ELSE sidecar[LastOf(matching)]

(* Faulty: each day offers its first sidecar. *)
LatestFirstOfDay ==
  LET firstOfDay == {p \in Sidecars : \A q \in Sidecars \ {p} : Day(q.time) = Day(p.time) => After(q, p)}
      readable   == firstOfDay \cap Complete
  IN IF readable = {} THEN Absent ELSE sidecar[LastOf(readable)]

(* get_latest_metadata(): each day offers its last sidecar; one that       *)
(* cannot be read sends the search to the day before.                      *)
LatestMetadata ==
  LET lastOfDay == {p \in Sidecars : \A q \in Sidecars \ {p} : Day(q.time) = Day(p.time) => After(p, q)}
      readable  == lastOfDay \cap Complete
  IN IF readable = {} THEN Absent ELSE sidecar[LastOf(readable)]

-----------------------------------------------------------------------------
(* The state every other property presumes: each variable has its type. *)
TypeOK ==
  /\ clock \in 0 .. MaxClock
  /\ job \in [Upload -> {"none", "parsed", "opened", "described", "done", "failed"}]
  /\ now \in [Upload -> 0 .. MaxClock]
  /\ temp \subseteq Upload
  /\ sidecar \in [Place -> Upload \cup {Absent, Torn}]
  /\ gcode \in [Place -> Upload \cup {Absent}]

Newest(u, S) == u \in S /\ \A v \in S : now[v] <= now[u]

Captured == {sidecar[p] : p \in Complete}

(* storage.py:146-150, "the newest match wins": of the captures of a       *)
(* filename the look-up returns one than which none is newer, and none     *)
(* only when there is none, whatever is being written beside them.         *)
FindNewest ==
  \A f \in FileName :
    LET matching == {u \in Captured : FileOf[u] = f}
    IN IF matching = {} THEN FindMetadata(f) = Absent ELSE Newest(FindMetadata(f), matching)

(* storage.py:163, "Return the most recently captured JSON sidecar, or     *)
(* None".                                                                  *)
LatestNewest ==
  IF Captured = {} THEN LatestMetadata = Absent ELSE Newest(LatestMetadata, Captured)

(* The same, whenever no sidecar is torn. *)
LatestNewestIntact == Sidecars = Complete => LatestNewest

Kept(u) == Retention = 0 \/ Day(Local[clock]) - Day(Local[now[u]]) <= Retention

(* No other capture has the same place: the same second and the same       *)
(* sanitized name.                                                         *)
Alone(u) == \A v \in Upload \ {u} : job[v] # "none" => PlaceOf(v) # PlaceOf(u)

(* README.md:271 and 349: from the moment its sidecar is written until its *)
(* retention has passed, a capture of the filename is found, provided no   *)
(* other capture takes its place.                                          *)
CapturedFindable ==
  \A u \in Upload :
    job[u] \in {"described", "done"} /\ Kept(u) /\ Alone(u)
      => FindMetadata(FileOf[u]) # Absent

(* storage.py:93-100: a temp file is given up only for what the archive    *)
(* keeps of it: its sidecar and, when G-code is kept, the .gcode file;     *)
(* no failure of a step costs an upload both.                              *)
DisposedOnlyWhenArchived ==
  \A u \in Upload :
    u \notin temp /\ Kept(u) /\ Alone(u) =>
      sidecar[PlaceOf(u)] = u /\ (StoreGcode => gcode[PlaceOf(u)] = u)

=============================================================================
