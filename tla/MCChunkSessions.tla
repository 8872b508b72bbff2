-------------------------- MODULE MCChunkSessions --------------------------
(* ChunkSessions on small instances. *)
EXTENDS ChunkSessions, TLC

CONSTANTS r1, r2, r3, r4, k1, k2, a, b

(* Two bytes in two chunks; the whole file in one chunk; an empty chunk.   *)
Halves == {[offset |-> 0, length |-> 1], [offset |-> 1, length |-> 1]}
Whole  == {[offset |-> 0, length |-> 2]}
Empty  == {[offset |-> 0, length |-> 0]}
AnyChunk == Halves \cup Whole \cup Empty

OneUpload == a :> k1
TwoUploads == a :> k1 @@ b :> k2

Symmetry == Permutations(Request)
=============================================================================
