---------------------------- MODULE ArchiveProofs ----------------------------
(* Theorems about Archive, for any uploads, names and times.               *)
EXTENDS Archive, FiniteSetTheorems, TLAPS

(* Local time may be set back, but not to an earlier day. *)
DaysGoOn == \A s, t \in 0 .. MaxClock : s <= t => Day(Local[s]) <= Day(Local[t])

(* Local time is not set back. *)
TimeGoesOn == \A s, t \in 0 .. MaxClock : s < t => Local[s] < Local[t]

(* A sidecar describes an upload whose place it has. *)
InPlace ==
  /\ IsFiniteSet(Sidecars)
  /\ \A p \in Place : sidecar[p] \in Upload =>
       PlaceOf(sidecar[p]) = p /\ job[sidecar[p]] # "none"

(* What a thread has written stays for as long as it is kept. *)
Archived ==
  \A u \in Upload :
    /\ u \notin temp => job[u] = "done"
    /\ job[u] \in {"described", "done"} /\ Kept(u) /\ Alone(u) => sidecar[PlaceOf(u)] = u
    /\ job[u] = "done" /\ StoreGcode /\ Kept(u) /\ Alone(u) => gcode[PlaceOf(u)] = u

-----------------------------------------------------------------------------
LEMMA Places == TypeOK => \A u \in Upload : PlaceOf(u) \in Place
  BY ArchiveAssumption DEF TypeOK, PlaceOf, Place, Range

LEMMA PlaceType == Place \subseteq [time : Nat, name : Nat]
  BY ArchiveAssumption DEF Place, Range

LEMMA Days == \A t \in Nat : Day(t) \in Int
  BY ArchiveAssumption DEF Day

(* Of finitely many places one comes after every other. *)
LEMMA LastIsLast ==
  ASSUME NEW S \in SUBSET [time : Nat, name : Nat], IsFiniteSet(S), S # {}
  PROVE  LastOf(S) \in S /\ \A q \in S \ {LastOf(S)} : After(LastOf(S), q)
<1> DEFINE Up(x) == {y \in S : After(y, x)}
           T == {Up(x) : x \in S}
<1>1. T \subseteq FiniteSubsetsOf(S) /\ T # {}
  <2>1. \A x \in S : Up(x) \in SUBSET S /\ IsFiniteSet(Up(x))
    BY FS_Subset
  <2>2. \A m \in T : m \in FiniteSubsetsOf(S)
    BY <2>1 DEF FiniteSubsetsOf
  <2> QED BY <2>2
<1>2. PICK m \in T : \A n \in T : <<n, m>> \notin StrictSubsetOrdering(S)
  BY <1>1, WFMin, FS_StrictSubsetOrderingWellFounded
<1>3. PICK x \in S : m = Up(x)
  OBVIOUS
<1>4. \A y \in S : ~After(y, x)
  <2> SUFFICES ASSUME NEW y \in S, After(y, x) PROVE FALSE
    OBVIOUS
  <2>1. Up(y) \subseteq Up(x)
    BY DEF After
  <2>2. y \in Up(x) /\ y \notin Up(y)
    BY DEF After
  <2>3. <<Up(y), Up(x)>> \in StrictSubsetOrdering(S)
    BY <2>1, <2>2 DEF StrictSubsetOrdering
  <2> QED BY <1>2, <1>3, <2>3
<1>5. \A q \in S \ {x} : After(x, q)
  BY <1>4 DEF After
<1> HIDE DEF Up, T
<1> QED BY <1>5 DEF LastOf

LEMMA TypeStep == TypeOK /\ [Next]_vars => TypeOK'
<1> SUFFICES ASSUME TypeOK, [Next]_vars PROVE TypeOK'
  OBVIOUS
<1> USE ArchiveAssumption DEF TypeOK
<1>1. CASE Tick \/ CleanupOldFiles \/ UNCHANGED vars
  BY <1>1 DEF Tick, CleanupOldFiles, vars
<1>2. ASSUME NEW u \in Upload, Begin(u) PROVE TypeOK'
  BY <1>2 DEF Begin
<1>5. ASSUME NEW u \in Upload, Fail(u) PROVE TypeOK'
  <2>1. job' = [job EXCEPT ![u] = "failed"]
    BY <1>5 DEF Fail
  <2> QED BY <1>5, <2>1 DEF Fail
<1>3. ASSUME NEW u \in Upload, Open(u) \/ Describe(u) PROVE TypeOK'
  <2>1. PICK x \in Upload \cup {Torn} : sidecar' = [sidecar EXCEPT ![PlaceOf(u)] = x]
    BY <1>3 DEF Open, Describe
  <2>2. sidecar' \in [Place -> Upload \cup {Absent, Torn}]
    BY <2>1
  <2>3. PICK j \in {"opened", "described"} : job' = [job EXCEPT ![u] = j]
    BY <1>3 DEF Open, Describe
  <2>4. UNCHANGED <<clock, now, temp, gcode>>
    BY <1>3 DEF Open, Describe
  <2> QED BY <2>2, <2>3, <2>4
<1>4. ASSUME NEW u \in Upload, Dispose(u) PROVE TypeOK'
  BY <1>4 DEF Dispose
<1> QED BY <1>1, <1>2, <1>3, <1>4, <1>5 DEF Next

LEMMA InPlaceStep == TypeOK /\ InPlace /\ [Next]_vars => InPlace'
<1> SUFFICES ASSUME TypeOK, InPlace, [Next]_vars PROVE InPlace'
  OBVIOUS
<1> USE ArchiveAssumption DEF TypeOK, InPlace
<1>1. CASE Tick \/ UNCHANGED vars
  BY <1>1 DEF Tick, vars, Sidecars, PlaceOf
<1>2. ASSUME NEW u \in Upload, Begin(u) \/ Fail(u) \/ Dispose(u) PROVE InPlace'
  <2>1. sidecar' = sidecar
    BY <1>2 DEF Begin, Fail, Dispose
  <2>2. \A v \in Upload : job[v] # "none" => job'[v] # "none" /\ now'[v] = now[v]
    BY <1>2 DEF Begin, Fail, Dispose
  <2> QED BY <2>1, <2>2 DEF Sidecars, PlaceOf
<1>3. ASSUME NEW u \in Upload, Open(u) \/ Describe(u) PROVE InPlace'
  <2>1. Sidecars' \subseteq Sidecars \cup {PlaceOf(u)}
    BY <1>3 DEF Open, Describe, Sidecars
  <2>2. IsFiniteSet(Sidecars')
    BY <2>1, FS_AddElement, FS_Subset
  <2>3. \A v \in Upload : job[v] # "none" => job'[v] # "none" /\ now'[v] = now[v]
    BY <1>3 DEF Open, Describe
  <2>4. \A p \in Place : sidecar'[p] \in Upload =>
          sidecar'[p] = sidecar[p] \/ (sidecar'[p] = u /\ p = PlaceOf(u) /\ job[u] # "none")
    BY <1>3 DEF Open, Describe
  <2> QED BY <2>2, <2>3, <2>4 DEF PlaceOf
<1>4. CASE CleanupOldFiles
  <2>1. Sidecars' \subseteq Sidecars
    BY <1>4 DEF CleanupOldFiles, Sidecars
  <2>2. IsFiniteSet(Sidecars')
    BY <2>1, FS_Subset
  <2> QED BY <1>4, <2>2 DEF CleanupOldFiles, PlaceOf
<1> QED BY <1>1, <1>2, <1>3, <1>4 DEF Next

(* A capture that no other one displaces, and whose retention has not      *)
(* passed, was one before the step as well.                                *)
LEMMA KeptBefore ==
  ASSUME TypeOK, DaysGoOn, [Next]_vars, NEW u \in Upload, job[u] # "none", Kept(u)', Alone(u)'
  PROVE  Kept(u) /\ Alone(u) /\ PlaceOf(u)' = PlaceOf(u)
<1> USE ArchiveAssumption DEF TypeOK
<1>1. \A v \in Upload : job[v] # "none" => job'[v] # "none" /\ now'[v] = now[v]
  BY DEF Next, Tick, CleanupOldFiles, Begin, Fail, Open, Describe, Dispose, vars
<1>2. \A v \in Upload : job[v] # "none" => PlaceOf(v)' = PlaceOf(v)
  BY <1>1 DEF PlaceOf
<1>3. Alone(u)
  BY <1>1, <1>2 DEF Alone
<1>4. clock' \in 0 .. MaxClock /\ clock <= clock'
  BY DEF Next, Tick, CleanupOldFiles, Begin, Fail, Open, Describe, Dispose, vars
<1>5. Day(Local[clock]) <= Day(Local[clock'])
  BY <1>4 DEF DaysGoOn
<1>6. Kept(u)
  <2>1. Day(Local[clock]) \in Int /\ Day(Local[clock']) \in Int /\ Day(Local[now[u]]) \in Int
    BY <1>4, Days
  <2>2. Retention = 0 \/ Day(Local[clock']) - Day(Local[now[u]]) <= Retention
    BY <1>1 DEF Kept, Day
  <2> QED BY <1>5, <2>1, <2>2 DEF Kept
<1> QED BY <1>2, <1>3, <1>6

LEMMA ArchivedStep == DaysGoOn /\ TypeOK /\ Archived /\ [Next]_vars => Archived'
<1> SUFFICES ASSUME DaysGoOn, TypeOK, Archived, [Next]_vars, NEW u \in Upload
             PROVE  /\ u \notin temp' => job'[u] = "done"
                    /\ job'[u] \in {"described", "done"} /\ Kept(u)' /\ Alone(u)' =>
                         sidecar'[PlaceOf(u)'] = u
                    /\ job'[u] = "done" /\ StoreGcode /\ Kept(u)' /\ Alone(u)' =>
                         gcode'[PlaceOf(u)'] = u
  BY DEF Archived
<1> USE ArchiveAssumption DEF TypeOK
<1>1. u \notin temp' => job'[u] = "done"
  BY DEF Archived, Next, Tick, CleanupOldFiles, Begin, Fail, Open, Describe, Dispose, vars
<1>2. ASSUME job'[u] \in {"described", "done"}, Kept(u)', Alone(u)'
      PROVE  /\ sidecar'[PlaceOf(u)'] = u
             /\ job'[u] = "done" /\ StoreGcode => gcode'[PlaceOf(u)'] = u
  <2> DEFINE Goal == /\ sidecar'[PlaceOf(u)'] = u
                     /\ job'[u] = "done" /\ StoreGcode => gcode'[PlaceOf(u)'] = u
  <2>1. job[u] \in {"opened", "described", "done"}
    BY <1>2 DEF Next, Tick, CleanupOldFiles, Begin, Fail, Open, Describe, Dispose, vars
  <2>2. Kept(u) /\ Alone(u) /\ PlaceOf(u)' = PlaceOf(u) /\ PlaceOf(u) \in Place
    BY <1>2, <2>1, KeptBefore, Places
  <2>3. \A v \in Upload \ {u} : job[v] # "none" => PlaceOf(v) # PlaceOf(u)
    BY <2>2 DEF Alone
  <2> USE <2>1, <2>2 DEF Archived
  <2>4. ASSUME NEW v \in Upload, Begin(v) \/ Fail(v) PROVE Goal
    BY <1>2, <2>4 DEF Begin, Fail
  <2>5. ASSUME NEW v \in Upload, Open(v) PROVE Goal
    BY <1>2, <2>3, <2>5 DEF Open
  <2>6. ASSUME NEW v \in Upload, Describe(v) PROVE Goal
    BY <1>2, <2>3, <2>6 DEF Describe
  <2>7. ASSUME NEW v \in Upload, Dispose(v) PROVE Goal
    BY <1>2, <2>3, <2>7 DEF Dispose
  <2>8. CASE CleanupOldFiles
    <3>1. ~Expired(PlaceOf(u))
      <4>1. Day(Local[clock]) \in Int /\ Day(Local[now[u]]) \in Int
        BY Days
      <4>2. PlaceOf(u).time = Local[now[u]]
        BY DEF PlaceOf
      <4> QED BY <4>1, <4>2 DEF Kept, Expired
    <3> QED BY <1>2, <2>8, <3>1 DEF CleanupOldFiles
  <2>9. CASE Tick \/ UNCHANGED vars
    BY <1>2, <2>9 DEF Tick, vars
  <2> QED BY <2>4, <2>5, <2>6, <2>7, <2>8, <2>9 DEF Next
<1> QED BY <1>1, <1>2

LEMMA Invariant == Spec => [](TypeOK /\ InPlace)
<1>1. Init => TypeOK /\ InPlace
  <2> SUFFICES ASSUME Init PROVE TypeOK /\ InPlace
    OBVIOUS
  <2>1. Sidecars = {}
    BY DEF Init, Sidecars
  <2> QED BY <2>1, FS_EmptySet, ArchiveAssumption DEF Init, TypeOK, InPlace
<1>2. TypeOK /\ InPlace /\ [Next]_vars => TypeOK' /\ InPlace'
  BY TypeStep, InPlaceStep
<1> QED BY <1>1, <1>2, PTL DEF Spec

LEMMA ArchivedInvariant == ASSUME DaysGoOn PROVE Spec => []Archived
<1>1. Init => Archived
  BY DEF Init, Archived
<1>2. TypeOK /\ Archived /\ [Next]_vars => Archived'
  BY ArchivedStep
<1> QED BY Invariant, <1>1, <1>2, PTL DEF Spec

-----------------------------------------------------------------------------
(* storage.py:93-100: while local time does not go back to an earlier day, *)
(* a temp file is given up only for what the archive keeps of it.          *)
THEOREM ArchiveDisposed == ASSUME DaysGoOn PROVE Spec => []DisposedOnlyWhenArchived
<1>1. Archived => DisposedOnlyWhenArchived
  BY DEF Archived, DisposedOnlyWhenArchived
<1> QED BY ArchivedInvariant, <1>1, PTL

(* The places of the sidecars that a look-up finds for a filename. *)
Matching(f) == {p \in Complete : FileOf[sidecar[p]] = f}

LEMMA MatchingLast ==
  ASSUME TypeOK, InPlace, NEW S \in SUBSET Sidecars, S # {}
  PROVE  LastOf(S) \in S /\ \A q \in S \ {LastOf(S)} : After(LastOf(S), q)
<1>1. IsFiniteSet(S) /\ S \subseteq Place
  BY FS_Subset DEF InPlace, Sidecars
<1> QED BY <1>1, PlaceType, LastIsLast

(* README.md:271, 349: the capture of a filename is found while it is kept. *)
THEOREM ArchiveFindable == ASSUME DaysGoOn PROVE Spec => []CapturedFindable
<1>1. TypeOK /\ InPlace /\ Archived => CapturedFindable
  <2> SUFFICES ASSUME TypeOK, InPlace, Archived, NEW u \in Upload,
                      job[u] \in {"described", "done"}, Kept(u), Alone(u)
               PROVE  FindMetadata(FileOf[u]) # Absent
    BY DEF CapturedFindable
  <2>1. PlaceOf(u) \in Place /\ sidecar[PlaceOf(u)] = u
    BY Places DEF Archived
  <2>2. PlaceOf(u) \in Matching(FileOf[u])
    BY <2>1, ArchiveAssumption DEF Matching, Complete, Sidecars
  <2>3. LastOf(Matching(FileOf[u])) \in Sidecars
    BY <2>2, MatchingLast DEF Matching, Complete
  <2> QED BY <2>2, <2>3 DEF FindMetadata, Matching, Sidecars
<1> QED BY ArchivedInvariant, Invariant, <1>1, PTL

(* Where local time goes on, the place that comes last is the newest.      *)
LEMMA LastIsNewest ==
  ASSUME TimeGoesOn, TypeOK, InPlace, NEW p \in Complete, NEW q \in Complete,
         p = q \/ After(p, q)
  PROVE  now[sidecar[q]] <= now[sidecar[p]]
<1>1. sidecar[p] \in Upload /\ sidecar[q] \in Upload
  BY DEF TypeOK, Complete, Sidecars
<1>2. p.time = Local[now[sidecar[p]]] /\ q.time = Local[now[sidecar[q]]]
  BY <1>1 DEF InPlace, PlaceOf, Complete, Sidecars
<1>3. q.time <= p.time /\ p.time \in Nat /\ q.time \in Nat
  BY PlaceType DEF After, Complete, Sidecars
<1> QED BY <1>1, <1>2, <1>3, ArchiveAssumption DEF TypeOK, TimeGoesOn

(* storage.py:146-150: the newest match wins, where local time is not set  *)
(* back.                                                                   *)
THEOREM ArchiveFindNewest == ASSUME TimeGoesOn PROVE Spec => []FindNewest
<1>1. TypeOK /\ InPlace => FindNewest
  <2> SUFFICES ASSUME TypeOK, InPlace, NEW f \in FileName
               PROVE  LET matching == {u \in Captured : FileOf[u] = f}
                      IN IF matching = {} THEN FindMetadata(f) = Absent
                         ELSE Newest(FindMetadata(f), matching)
    BY DEF FindNewest
  <2>1. {u \in Captured : FileOf[u] = f} = {sidecar[p] : p \in Matching(f)}
    BY DEF Captured, Matching
  <2>2. CASE Matching(f) = {}
    BY <2>1, <2>2 DEF FindMetadata, Matching
  <2>3. CASE Matching(f) # {}
    <3>1. Matching(f) \in SUBSET Sidecars /\ Matching(f) \subseteq Complete
      BY DEF Matching, Complete
    <3>2. /\ LastOf(Matching(f)) \in Matching(f)
          /\ \A q \in Matching(f) : q = LastOf(Matching(f)) \/ After(LastOf(Matching(f)), q)
      BY <2>3, <3>1, MatchingLast
    <3>3. FindMetadata(f) = sidecar[LastOf(Matching(f))]
      BY <2>3 DEF FindMetadata, Matching
    <3>4. \A q \in Matching(f) : now[sidecar[q]] <= now[FindMetadata(f)]
      BY <3>1, <3>2, <3>3, LastIsNewest
    <3> QED BY <2>1, <2>3, <3>2, <3>3, <3>4 DEF Newest
  <2> QED BY <2>2, <2>3
<1> QED BY Invariant, <1>1, PTL

(* storage.py:163: the latest capture is the most recent one, where no     *)
(* sidecar is torn and local time is not set back.                         *)
THEOREM ArchiveLatestNewest == ASSUME TimeGoesOn PROVE Spec => []LatestNewestIntact
<1>1. TypeOK /\ InPlace => LatestNewestIntact
  <2> SUFFICES ASSUME TypeOK, InPlace, Sidecars = Complete PROVE LatestNewest
    BY DEF LatestNewestIntact
  <2> DEFINE LastOfDay ==
        {p \in Sidecars : \A q \in Sidecars \ {p} : Day(q.time) = Day(p.time) => After(p, q)}
  <2>1. LatestMetadata = IF LastOfDay = {} THEN Absent ELSE sidecar[LastOf(LastOfDay)]
    BY DEF LatestMetadata
  <2>2. CASE Sidecars = {}
    BY <2>1, <2>2 DEF LatestNewest, Captured
  <2>3. CASE Sidecars # {}
    <3> DEFINE l == LastOf(Sidecars)
    <3>1. l \in Sidecars /\ \A q \in Sidecars \ {l} : After(l, q)
      BY <2>3, MatchingLast
    <3>2. l \in LastOfDay
      BY <3>1
    <3>3. /\ LastOf(LastOfDay) \in LastOfDay
          /\ \A q \in LastOfDay \ {LastOf(LastOfDay)} : After(LastOf(LastOfDay), q)
      BY <3>2, MatchingLast
    <3>4. \A p, q \in Sidecars : After(p, q) => ~After(q, p)
      BY PlaceType DEF After, Sidecars
    <3>5. LastOf(LastOfDay) = l
      BY <3>1, <3>2, <3>3, <3>4
    <3>6. \A q \in Complete : now[sidecar[q]] <= now[sidecar[l]]
      BY <3>1, LastIsNewest
    <3> HIDE DEF LastOfDay, l
    <3>7. LatestMetadata = sidecar[l]
      BY <2>1, <3>2, <3>5
    <3>8. sidecar[l] \in Captured
      BY <3>1 DEF Captured
    <3>9. \A v \in Captured : now[v] <= now[sidecar[l]]
      BY <3>6 DEF Captured
    <3> QED BY <3>7, <3>8, <3>9 DEF LatestNewest, Newest
  <2> QED BY <2>2, <2>3
<1> QED BY Invariant, <1>1, PTL
=============================================================================
