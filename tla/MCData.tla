------------------------------- MODULE MCData -------------------------------
(* The archive, and the pure algorithms on every input within bounds: in   *)
(* each behaviour the archive's uploads, the chunks that Intervals records,*)
(* or an input for one of the algorithms.                                  *)
EXTENDS MCArchive, Intervals, MainboardRewrite, GcodeParser, UploadForm

(* Payloads nested three deep, with two entries each but one at the top. *)
Nesting == <<2, 2, 1>>

inputs == <<payload, file, hint, data>>

NoPayload == payload = EmptyPayload
NoFile == file = <<>> /\ hint = <<>>
NoData == data = <<>>
NoInput == NoPayload /\ NoFile /\ NoData

(* No upload left to begin. *)
ArchiveIdle ==
  /\ clock = MaxClock /\ job = [u \in Upload |-> "failed"] /\ now = [u \in Upload |-> 0]
  /\ temp = Upload /\ sidecar = [p \in Place |-> Absent] /\ gcode = sidecar

InitData ==
  /\ InitChunks
  /\ \/ Init /\ NoInput
     \/ /\ ArchiveIdle
        /\ \/ NoInput
           \/ payload \in Payload /\ NoFile /\ NoData
           \/ file \in NamedFiles /\ hint \in {<<>>, <<"hint">>} /\ NoPayload /\ NoData
           \/ file \in UsageFiles /\ hint = <<>> /\ NoPayload /\ NoData
           \/ data \in Chunks /\ NoPayload /\ NoFile

NextData ==
  /\ NoInput /\ UNCHANGED inputs
  /\ \/ Next /\ ~ArchiveIdle /\ UNCHANGED chunkVars
     \/ NextChunk /\ ArchiveIdle /\ UNCHANGED vars

SpecData == InitData /\ [][NextData]_<<vars, chunkVars, inputs>>
=============================================================================
