----------------------------- MODULE GcodeParser -----------------------------
(***************************************************************************)
(* What the archive learns from an uploaded file: its name and the         *)
(* filament that it uses (src/src/gcode_parser.py), read from the file's   *)
(* last 64 KB, and the name that the upload's header gave (storage.py:86). *)
(*                                                                         *)
(* A file is a sequence of lines; a line has a key and a value.  The value *)
(* of a name is a sequence of words, of which "{base}" stands for          *)
(* {input_filename_base} and "{var}" for every other template variable.    *)
(***************************************************************************)
EXTENDS Integers, Sequences, FiniteSets, SequencesExt

VARIABLES
  file,  (* the lines of an uploaded file                            *)
  hint   (* the name in the upload's header, <<>> if there is none   *)

(* bound: what the parser reads of a file's end, in lines.  A line that    *)
(* the limit cuts matches nothing.                                         *)
TailSize == 3

MinOf(m, n) == IF m <= n THEN m ELSE n

(* The end of a file, from its bytes or by seeking. *)
Tail64 == SubSeq(file, Len(file) - MinOf(TailSize, Len(file)) + 1, Len(file))

-----------------------------------------------------------------------------
(* The name *)

NameKeys == {"input_filename_base", "filename_format", "output_filename_format"}

(* What a regular expression takes for the value of a key: that of the     *)
(* first line with it; behind an empty value the next line, since \s*      *)
(* matches a line's end.  The end of the configuration is always next.     *)
Value(key, tail) ==
  LET at == {i \in DOMAIN tail : tail[i].key = key}
      first == CHOOSE i \in at : \A j \in at : i <= j
  IN IF at = {} THEN <<>>
     ELSE IF tail[first].value # <<>> \/ first = Len(tail) THEN tail[first].value
     ELSE <<tail[first + 1].key>> \o tail[first + 1].value

WithSuffix(name) == IF Last(name) = ".gcode" THEN name ELSE Append(name, ".gcode")

Substituted(format, base) ==
  FlattenSeq([i \in DOMAIN format |-> IF format[i] = "{base}" THEN base ELSE <<format[i]>>])

HasVariable(name) == \E i \in DOMAIN name : name[i] \in {"{base}", "{var}"}

Closed(name) == IF HasVariable(name) THEN <<>> ELSE name

(* Faulty: the format of the output file comes before that of the name. *)
CandidatesOutput(base, format, output) ==
  <<IF base = <<>> \/ format = <<>> THEN base ELSE Substituted(format, base),
    Closed(output), Closed(format)>>

(* The names to choose from, the best one first; <<>> stands for None. *)
Candidates(base, format, output) ==
  <<IF base = <<>> \/ format = <<>> THEN base ELSE Substituted(format, base),
    Closed(format), Closed(output)>>

(* _extract_filename() *)
ExtractFilename(tail) ==
  LET names == Candidates(Value("input_filename_base", tail), Value("filename_format", tail),
                          Value("output_filename_format", tail))
      known == {i \in DOMAIN names : names[i] # <<>>}
  IN IF known = {} THEN <<>>
     ELSE WithSuffix(names[CHOOSE i \in known : \A j \in known : i <= j])

(* The name in the archive: X-File-Name helps out. *)
ArchivedName ==
  LET name == ExtractFilename(Tail64)
  IN IF name = <<>> /\ hint # <<>> THEN WithSuffix(hint) ELSE name

-----------------------------------------------------------------------------
(* The filament.  Three fields stand for the three ways of parsing: a list *)
(* of numbers, of which one that is no number (-1) spoils all; a number;   *)
(* and a text, which a line without a value does not reset.                *)
NoUsage == [grams |-> <<>>, changes |-> 0, time |-> <<>>]

Csv(value) == IF \E i \in DOMAIN value : value[i] = -1 THEN <<>> ELSE value
Single(value) == IF value = <<>> \/ value[1] = -1 THEN 0 ELSE value[1]

ParseLine(usage, line) ==
  [grams   |-> IF line.key = "filament used [g]" THEN Csv(line.value) ELSE usage.grams,
   changes |-> IF line.key = "total filament change" THEN Single(line.value) ELSE usage.changes,
   time    |-> IF line.key = "estimated printing time" /\ line.value # <<>> THEN line.value
               ELSE usage.time]

UsedSlots(grams) == Cardinality({i \in DOMAIN grams : grams[i] > 0})

(* Faulty: every slot counts, used or not. *)
InferredFromAll(usage) == IF usage.grams = <<>> THEN 0 ELSE Len(usage.grams) - 1

(* The changes of filament when the slicer does not say, or says 0. *)
Inferred(usage) == IF UsedSlots(usage.grams) = 0 THEN 0 ELSE UsedSlots(usage.grams) - 1

(* What is known after each of the lines. *)
Parsed(tail) ==
  LET usage[n \in 0 .. Len(tail)] == IF n = 0 THEN NoUsage ELSE ParseLine(usage[n - 1], tail[n])
  IN usage

(* _parse_filament_data() *)
ParseFilamentData(tail) ==
  LET usage == Parsed(tail)[Len(tail)]
  IN IF usage.changes = 0 THEN [usage EXCEPT !.changes = Inferred(usage)] ELSE usage

-----------------------------------------------------------------------------
(* bound: files of up to four lines, the last of them "CONFIG_BLOCK_END". *)
Files(Keys, Values) ==
  {Append(f, [key |-> "end", value |-> <<>>]) :
     f \in BoundedSeq([key : Keys, value : Values], 3)}

NamedFiles ==
  Files(NameKeys, {<<"text">>, <<"title", ".gcode">>, <<"{base}", ".gcode">>, <<"{base}", "{var}">>})

UsageKeys == {"filament used [g]", "total filament change", "estimated printing time"}

UsageFiles == Files(UsageKeys, {<<>>, <<-1>>, <<0>>, <<2>>, <<0, 2>>, <<2, 3>>})

InReach(key) == {i \in DOMAIN file : i > Len(file) - TailSize /\ file[i].key = key}

(* The value of the first and of the last line with a key, if there is one. *)
FirstValues(key) ==
  {file[i].value : i \in {j \in InReach(key) : \A k \in InReach(key) : j <= k}}

LastValues(key) ==
  {file[i].value : i \in {j \in InReach(key) : \A k \in InReach(key) : k <= j}}

(* The names that the settings give, base before format before output      *)
(* format, each the first of its kind and no format with a variable left.  *)
BestNames ==
  LET bases == FirstValues("input_filename_base")
      formats == FirstValues("filename_format")
      closed == {f \in formats : ~HasVariable(f)}
      outputs == {f \in FirstValues("output_filename_format") : ~HasVariable(f)}
  IN IF bases # {} /\ formats # {} THEN {Substituted(f, b) : f \in formats, b \in bases}
     ELSE IF bases # {} THEN bases
     ELSE IF closed # {} THEN closed
     ELSE IF outputs # {} THEN outputs ELSE {hint} \ {<<>>}

(* README.md:321, "The filename should match what the slicer embedded in   *)
(* the G-code, or the X-File-Name HTTP header [...] if the G-code content  *)
(* did not contain a filename": it is the best name that the settings in   *)
(* the last lines give, whichever they hold, provided none is empty.       *)
NameAsEmbedded ==
  ArchivedName \in IF BestNames = {} THEN {<<>>} ELSE {WithSuffix(n) : n \in BestNames}

(* gcode_parser.py:191-194: of several lines the last one in reach counts; *)
(* the changes are those that the slicer counted or, if it counted none    *)
(* though the slots are in use, one less than the slots in use, never less *)
(* than none.                                                              *)
UsageFromLastLines ==
  LET usage == ParseFilamentData(Tail64)
      counted == {Single(v) : v \in LastValues("total filament change")} \ {0}
  IN /\ \A v \in LastValues("filament used [g]") : usage.grams = Csv(v)
     /\ IF counted # {} THEN usage.changes \in counted
        ELSE usage.changes = Cardinality({i \in DOMAIN usage.grams :
               usage.grams[i] > 0 /\ \E j \in 1 .. i - 1 : usage.grams[j] > 0})

=============================================================================
