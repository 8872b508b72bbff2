------------------------------ MODULE Intervals ------------------------------
(***************************************************************************)
(* The intervals by which a session knows which bytes of an upload have    *)
(* arrived (src/src/upload_session.py:46-73).  ChunkSessions keeps the set *)
(* of bytes instead; this module is why it may.                            *)
(***************************************************************************)
EXTENDS Integers, Sequences, Functions

CONSTANTS
  TotalSize, (* bytes of the upload                                         *)
  MaxEnd     (* bound: no chunk, which may claim bytes behind the end of    *)
             (* its upload, ends behind this byte                           *)

(* Uploads without a size are not saved (cc1_upload.py:146). *)
ASSUME SizeAssumption == TotalSize \in Nat \ {0} /\ MaxEnd \in Nat

VARIABLES
  intervals,      (* the merged intervals <<start, end>>, the end excluded *)
  bytes_written,  (* the high-water mark                                   *)
  got             (* history: the bytes that have arrived                  *)

chunkVars == <<intervals, bytes_written, got>>

InitChunks == intervals = <<>> /\ bytes_written = 0 /\ got = {}

Before(i, j) == i[1] < j[1] \/ (i[1] = j[1] /\ i[2] <= j[2])

Larger(m, n) == IF m >= n THEN m ELSE n

Sorted(s) ==
  LET order == CHOOSE p \in Bijection(DOMAIN s, DOMAIN s) :
                 \A j, k \in DOMAIN s : j < k => Before(s[p[j]], s[p[k]])
  IN [k \in DOMAIN s |-> s[order[k]]]

(* Adds an interval that does not start before the last one. *)
Join(merged, i) ==
  LET n == Len(merged) IN
  IF i[1] <= merged[n][2] THEN [merged EXCEPT ![n] = <<@[1], Larger(@[2], i[2])>>]
  ELSE Append(merged, i)

(* What is merged after each of the intervals s. *)
Joined(s) ==
  LET merged[n \in 1 .. Len(s)] == IF n = 1 THEN <<s[1]>> ELSE Join(merged[n - 1], s[n])
  IN merged

(* Faulty: the merging takes the intervals in their order of arrival. *)
MergeUnsorted(i) == Joined(Append(intervals, i))[Len(intervals) + 1]

(* The intervals with one more, sorted and joined. *)
Merge(i) == Joined(Sorted(Append(intervals, i)))[Len(intervals) + 1]

RecordBytes(offset, length) ==
  /\ bytes_written' = Larger(bytes_written, offset + length)
  /\ intervals' = IF length <= 0 THEN intervals ELSE Merge(<<offset, offset + length>>)
  /\ got' = got \cup (offset .. offset + length - 1)

complete ==
  /\ intervals # <<>>
  /\ Head(intervals)[1] = 0
  /\ Head(intervals)[2] >= TotalSize

NextChunk == \E end \in 0 .. MaxEnd : \E offset \in 0 .. end : RecordBytes(offset, end - offset)

SpecChunks == InitChunks /\ [][NextChunk]_chunkVars

-----------------------------------------------------------------------------
(* upload_session.py:64, "True when every byte of [0, total_size) has      *)
(* arrived": the intervals know exactly the bytes that have arrived, in    *)
(* whatever order, overlapping and repeated, and whether one is missing.   *)
KnowsBytes ==
  /\ got = UNION {i[1] .. i[2] - 1 : i \in Range(intervals)}
  /\ complete <=> 0 .. TotalSize - 1 \subseteq got

=============================================================================
