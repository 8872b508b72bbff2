--------------------------- MODULE MainboardRewrite ---------------------------
(***************************************************************************)
(* What the proxy changes in the printer's words (discovery_relay.py:76,   *)
(* ws_proxy.py:64, http_proxy.py:49 of src/src): MainboardIP fields that   *)
(* hold the printer's address get the proxy's, so that the slicer uploads  *)
(* through it.  A payload is bytes with or without JSON in them.           *)
(*                                                                         *)
(* A JSON value is a node: a leaf with a value, or a "dict" or "list" with *)
(* entries; the entries of a list have the key "".                         *)
(***************************************************************************)
EXTENDS Naturals, Sequences, SequencesExt

CONSTANTS
  JsonKeys,   (* the keys of dictionaries                                   *)
  JsonValues, (* what a leaf can be: the printer's address, the proxy's, or *)
              (* a string such as the video URL that has the former in it   *)
  Widths      (* bound: how many entries a value has, from the innermost    *)
              (* nesting to the outermost                                   *)

ASSUME JsonAssumption == {"printer", "proxy"} \subseteq JsonValues /\ Widths \in Seq(Nat)

VARIABLE payload (* what the printer sends *)

Leaf(v)    == [kind |-> "leaf", value |-> v, entries |-> <<>>]
Tree(k, s) == [kind |-> k, value |-> "", entries |-> s]

Entries(Keys, Nodes, width) ==
  {s \in BoundedSeq([key : Keys, node : Nodes], width) :
     \A i, j \in DOMAIN s : i # j => s[i].key # s[j].key \/ s[i].key = ""}

(* The values of each depth. *)
Nested[depth \in 0 .. Len(Widths)] ==
  IF depth = 0 THEN {Leaf(v) : v \in JsonValues}
  ELSE LET inner == Nested[depth - 1]
       IN inner \cup {Tree("dict", s) : s \in Entries(JsonKeys, inner, Widths[depth])}
                \cup {Tree("list", s) : s \in Entries({""}, inner, Widths[depth])}

Json == Nested[Len(Widths)]

-----------------------------------------------------------------------------
Matches(e) == e.key = "MainboardIP" /\ e.node = Leaf("printer")

(* Faulty: what lists hold is not looked at. *)
OnlyDicts == {"dict"}

Containers == {"dict", "list"}

(* _rewrite_in_place(): the value with its entries replaced, and whether   *)
(* any was.                                                                *)
Rewrite[t \in Json] ==
  IF t.kind \notin Containers THEN [tree |-> t, changed |-> FALSE]
  ELSE [tree |-> Tree(t.kind, [i \in DOMAIN t.entries |->
          [key  |-> t.entries[i].key,
           node |-> IF Matches(t.entries[i]) THEN Leaf("proxy")
                    ELSE Rewrite[t.entries[i].node].tree]]),
        changed |-> \E i \in DOMAIN t.entries :
                      Matches(t.entries[i]) \/ Rewrite[t.entries[i].node].changed]

(* A payload is text, as bytes often are not, and JSON, or neither; its    *)
(* spelling is the printer's or that of json.dumps().                      *)
Payload == [syntax : {"json", "text", "bytes"}, tree : Json, spelling : {"printer"}]

EmptyPayload == [syntax |-> "bytes", tree |-> Leaf("proxy"), spelling |-> "printer"]

(* rewrite_mainboard_ip_str() and rewrite_mainboard_ip() *)
RewritePayload(p) ==
  IF p.syntax = "json" /\ Rewrite[p.tree].changed
  THEN [syntax |-> "json", tree |-> Rewrite[p.tree].tree, spelling |-> "dumps"] ELSE p

Mentions[t \in Json] ==
  \E i \in DOMAIN t.entries : t.entries[i].key = "MainboardIP" \/ Mentions[t.entries[i].node]

(* _rewrite_outbound(), and its like in forward_to_printer(): only where   *)
(* ADVERTISE_IP is set and the payload has the name in it.                 *)
Outbound(p, advertise) == IF advertise /\ Mentions[p.tree] THEN RewritePayload(p) ELSE p

-----------------------------------------------------------------------------
(* The headers that are not passed on between hops; the message that the   *)
(* slicer gets is framed by aiohttp.                                       *)
HopByHop == {"connection", "transfer-encoding"}

Passed(headers) == headers \ (HopByHop \cup {"content-length"})

(* forward_to_printer(): the response of the printer as the slicer gets it. *)
Response(p, headers, advertise) ==
  [body |-> Outbound(p, advertise), headers |-> Passed(headers)]

-----------------------------------------------------------------------------
(* The leaves of a value, each with the keys that lead to it. *)
Paths[t \in Json] ==
  IF t.entries = <<>> THEN {<<<<>>, t>>}
  ELSE UNION {{<< <<<<i, t.entries[i].key>>>> \o q[1], q[2]>> : q \in Paths[t.entries[i].node]} :
              i \in DOMAIN t.entries}

AtMainboard(q) == q[1] # <<>> /\ Last(q[1])[2] = "MainboardIP" /\ q[2] = Leaf("printer")

(* discovery_relay.py:78-83, "Only exact MainboardIP fields are touched":  *)
(* at whatever depth, each of them that holds the printer's address gets   *)
(* the proxy's, nothing else changes, and a payload without any, or        *)
(* without ADVERTISE_IP, keeps its every byte.  And http_proxy.py:56: no   *)
(* header tells the slicer the length that the body had before.            *)
RewriteExact ==
  \A advertise \in BOOLEAN :
    LET mine == {q \in Paths[payload.tree] : AtMainboard(q)}
        response == Response(payload, {"content-length"}, advertise)
    IN IF advertise /\ payload.syntax = "json" /\ mine # {}
       THEN /\ Paths[response.body.tree] =
                 (Paths[payload.tree] \ mine) \cup {<<q[1], Leaf("proxy")>> : q \in mine}
            /\ "content-length" \notin response.headers
       ELSE response.body = payload

=============================================================================
