----------------------------- MODULE UploadForm -----------------------------
(***************************************************************************)
(* The multipart form of a CC1 upload and how the capture takes it apart   *)
(* (src/src/cc1_upload.py:56-104).  A body is a sequence of words:         *)
(* "--b" is the boundary with its two dashes, "CRLF" a line's end, and     *)
(* every other word some bytes without either.                             *)
(***************************************************************************)
EXTENDS Naturals, Sequences, SequencesExt

VARIABLE data (* the chunk that a form carries *)

(* A boundary begins another part; every other word is the last one's. *)
WithWord(parts, word) ==
  IF word = "--b" THEN Append(parts, <<>>)
  ELSE Append(Front(parts), Append(Last(parts), word))

(* The parts between the boundaries, after each word. *)
Parts(body) ==
  LET parts[n \in 0 .. Len(body)] ==
        IF n = 0 THEN << <<>> >> ELSE WithWord(parts[n - 1], body[n])
  IN parts

(* bytes.split() *)
Split(body) == Parts(body)[Len(body)]

(* The positions of the empty line that ends a part's header. *)
Blank(part) == {i \in 1 .. Len(part) - 1 : part[i] = "CRLF" /\ part[i + 1] = "CRLF"}

HeaderEnd(part) == CHOOSE i \in Blank(part) : \A j \in Blank(part) : i <= j

(* Faulty: every line's end behind the data is taken for the form's. *)
WithoutLineEnds(s) ==
  SubSeq(s, 1, CHOOSE n \in 0 .. Len(s) :
                 (n = 0 \/ s[n] # "CRLF") /\ \A i \in n + 1 .. Len(s) : s[i] = "CRLF")

(* The line's end before the next boundary is the form's, not the data's. *)
WithoutLineEnd(s) == IF s # <<>> /\ Last(s) = "CRLF" THEN Front(s) ELSE s

Skipped(part) == part \in {<<>>, <<"--">>, <<"--", "CRLF">>} \/ Blank(part) = {}

(* A part's name is a word of its header. *)
NameOf(part) == {part[i] : i \in 1 .. HeaderEnd(part)} \ {"CRLF"}

Content(part) == WithoutLineEnd(SubSeq(part, HeaderEnd(part) + 2, Len(part)))

(* parse_multipart_bytes(): the content of each field. *)
ParseMultipart(body) ==
  LET parts == Split(body)
      named == {i \in DOMAIN parts : ~Skipped(parts[i]) /\ NameOf(parts[i]) # {}}
      LastOf(name) == CHOOSE i \in named : /\ name \in NameOf(parts[i])
                                           /\ \A j \in named : name \in NameOf(parts[j]) => j <= i
  IN [name \in UNION {NameOf(parts[i]) : i \in named} |-> Content(parts[LastOf(name)])]

-----------------------------------------------------------------------------
(* The form as the slicer writes it. *)
Field(name, content) == <<"--b", "CRLF", name, "CRLF", "CRLF">> \o content \o <<"CRLF">>

Form == Field("Uuid", <<"u">>) \o Field("Offset", <<"0">>) \o Field("File", data) \o <<"--b", "--", "CRLF">>

(* bound: chunks of up to five words. *)
Chunks == BoundedSeq({"x", "CRLF", "--"}, 5)

(* cc1_upload.py:77-85: the chunk that is saved is the chunk that was sent *)
(* to its last byte, also when it is empty, begins or ends with lines'     *)
(* ends, has empty lines in it, or looks like the form's end.              *)
DataSurvivesForm ==
  LET fields == ParseMultipart(Form)
  IN /\ DOMAIN fields = {"Uuid", "Offset", "File"}
     /\ fields["Uuid"] = <<"u">> /\ fields["Offset"] = <<"0">> /\ fields["File"] = data

=============================================================================
