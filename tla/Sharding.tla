------------------------------ MODULE Sharding ------------------------------
(***************************************************************************)
(* Sharded arrays as the crosscheck harness of TypeScript reads them.  The *)
(* layout is found by walking the codecs of the metadata from the outside  *)
(* in; a shard inside a shard is decoded by way of its index, an entry of  *)
(* an offset and a length for every chunk in C order.                      *)
(*                                                                         *)
(* Bytes are counted in chunks: the data section of a shard is a sequence  *)
(* of blobs of length 1, each the json text of a chunk or a shard again,   *)
(* and an index counts as one blob of the section it comes to lie in.      *)
(***************************************************************************)
EXTENDS ChunkIndex

CONSTANTS
  Shard,      (* the shards decoded *)
  MaxUint64,  (* marks, as offset and as length, a chunk that is not there *)
  MaxSafe     (* the largest integer a number holds *)

VARIABLES
  shard,
  level, outer,   (* the walk: shapes passed, from the outside in *)
  entry,          (* the index entry read next *)
  output          (* the elements, or what is to be seen of a throw *)

vars == <<shard, level, outer, entry, output>>

Broken == <<-1>>      (* elements are not negative here *)
RECURSIVE Shapes(_), DecodeNested(_, _), Logical(_, _), Sound(_, _)

(* The shapes of the chunks of a shard, itself first, the leaves last. *)
Shapes(s) == IF s.codec = "json" THEN <<s.shape>> ELSE <<s.shape>> \o Shapes(s.sample)

(* The configuration is one the decoder takes: chunks that divide the      *)
(* shard, the index at the end and of the codecs it knows.                 *)
Configured(s) ==
  /\ Len(s.inner) = Len(s.shape)
  /\ \A d \in DOMAIN s.shape : s.inner[d] >= 1 /\ s.shape[d] % s.inner[d] = 0
  /\ s.index_location = "end" /\ s.index_codec = "bytes"

Grid(s) == [d \in DOMAIN s.shape |-> s.shape[d] \div s.inner[d]]

IsMissing(e) == e.offset = MaxUint64 /\ e.length = MaxUint64

(* The entry is in the data section, and in what a number can hold. *)
PointsInside(s, e) ==
  e.offset <= MaxSafe /\ e.length <= MaxSafe /\ e.offset + e.length <= Len(s.data)

(* Bytes that are no chunk. *)
Scrap == [codec |-> "scrap", shape |-> <<>>]

(* A blob as bytes of a longer data section. *)
Parts(blob) ==
  IF blob.codec = "sharding_indexed" THEN Append(blob.data, Scrap) ELSE <<blob>>

(* The bytes an entry points to, as one chunk.  The index of a shard is    *)
(* looked for at their end, and its data is all that lies before it; more  *)
(* than one text, and none, is no text.                                    *)
ChunkAt(s, e) ==
  LET blobs == SubSeq(s.data, e.offset + 1, e.offset + e.length)
      final == blobs[e.length]
      before == FlattenSeq([n \in 1 .. e.length - 1 |-> Parts(blobs[n])])
  IN  CASE e.length = 0 -> Scrap
        [] e.length > 0 /\ final.codec = "sharding_indexed" ->
             [final EXCEPT !.data = before \o final.data]
        [] OTHER -> IF e.length = 1 THEN final ELSE Scrap

Blob(s, e) == DecodeNested(ChunkAt(s, e), s.inner)

(* Mutant: the chunks are laid side by side in the output. *)
ScatterInARow(s, n, elements, out) ==
  LET at(i) == (n - 1) * Product(s.inner) + i
  IN  [i \in DOMAIN out |->
        IF \E k \in DOMAIN elements : at(k) = i
        THEN elements[CHOOSE k \in DOMAIN elements : at(k) = i] ELSE out[i]]

(* The elements of the chunk of an entry, each to its place in the output. *)
Scatter(s, n, elements, out) ==
  LET corner == Unravel(n - 1, Grid(s))
      at(k) ==
        LET local == Unravel(k - 1, s.inner)
        IN  Place([d \in DOMAIN local |-> corner[d] * s.inner[d] + local[d]], s.shape)
  IN  [i \in DOMAIN out |->
        IF \E k \in DOMAIN elements : at(k) = i
        THEN elements[CHOOSE k \in DOMAIN elements : at(k) = i] ELSE out[i]]

(* One turn of the loop over the index. *)
ReadEntry(s, n, out) ==
  LET e == s.index[n]
  IN  IF out = Broken THEN Broken
      ELSE IF IsMissing(e) THEN out
      ELSE IF ~PointsInside(s, e) \/ Blob(s, e) = Broken THEN Broken
      ELSE Scatter(s, n, Blob(s, e), out)

Filled(s) == [i \in 1 .. Product(s.shape) |-> 0]

(* A truncated shard has fewer entries than chunks. *)
Begins(s) == Configured(s) /\ Len(s.index) = Product(Grid(s))

(* decodeNestedCodec: a json text by the codec, which refuses one that     *)
(* does not nest by the shape; a shard by this decoder.                    *)
DecodeNested(blob, shape) ==
  CASE blob.codec = "json" -> IF Len(blob.data) = Product(shape) THEN blob.data ELSE Broken
    [] blob.codec = "sharding_indexed" ->
         IF blob.shape # shape \/ ~Begins(blob) THEN Broken
         ELSE FoldLeft(LAMBDA out, n : ReadEntry(blob, n, out), Filled(blob),
                       [n \in DOMAIN blob.index |-> n])
    [] OTHER -> Broken

-----------------------------------------------------------------------------
Init ==
  /\ shard \in Shard
  /\ level = 1 /\ outer = <<>>
  /\ entry = 1 /\ output = IF Begins(shard) THEN Filled(shard) ELSE Broken

(* arrayLayout: one more sharding codec inside. *)
Walk ==
  /\ level < Len(Shapes(shard))
  /\ outer' = Append(outer, Shapes(shard)[level]) /\ level' = level + 1
  /\ UNCHANGED <<shard, entry, output>>

Walked == level = Len(Shapes(shard))

Layout == [chunks |-> Shapes(shard)[level], shards |-> Reverse(outer)]

Decode ==
  /\ Walked /\ output # Broken /\ entry <= Len(shard.index)
  /\ output' = ReadEntry(shard, entry, output)
  /\ entry' = entry + 1
  /\ UNCHANGED <<shard, level, outer>>

Next == Walk \/ Decode

Spec == Init /\ [][Next]_vars

-----------------------------------------------------------------------------
(* Properties. *)

(* The layout a reader reports is one a writer is asked for: the shapes of *)
(* the shards from the inside out, each divided by the one before it.      *)
LayoutIsLegal ==
  \A n \in DOMAIN Layout.shards :
    LET inner == IF n = 1 THEN Layout.chunks ELSE Layout.shards[n - 1]
    IN  \A d \in DOMAIN inner : Layout.shards[n][d] % inner[d] = 0

(* The element of a shard at an index, by what the format means: zero in a *)
(* chunk that is not there, else what its blob has at the index within.    *)
Logical(s, idx) ==
  IF s.codec = "json" THEN s.data[Place(idx, s.shape)]
  ELSE LET corner == [d \in DOMAIN idx |-> idx[d] \div s.inner[d]]
           within == [d \in DOMAIN idx |-> idx[d] % s.inner[d]]
           e == s.index[Place(corner, Grid(s))]
       IN  IF IsMissing(e) THEN 0 ELSE Logical(ChunkAt(s, e), within)

(* A shard whose every chunk, however deep, is missing on purpose or is    *)
(* where the index says, of the shape it should have.                      *)
Sound(s, shape) ==
  /\ s.shape = shape
  /\ s.codec = "json" => Len(s.data) = Product(shape)
  /\ s.codec # "json" =>
       /\ Begins(s)
       /\ \A n \in DOMAIN s.index :
            LET e == s.index[n]
            IN  \/ e.offset = MaxUint64 /\ e.length = MaxUint64
                \/ /\ e.offset + e.length <= Len(s.data)
                   /\ Sound(ChunkAt(s, e), s.inner)

Done == Walked /\ (output = Broken \/ entry > Len(shard.index))

(* A sound shard decodes, every element at its place, and its layout is a  *)
(* legal one; a shard that is not, however deep in another, is refused and *)
(* nothing is filled in for it.                                            *)
ReadsSoundOnly ==
  Done =>
    \/ ~Sound(shard, shard.shape) /\ output = Broken
    \/ /\ Sound(shard, shard.shape) /\ LayoutIsLegal
       /\ \A idx \in Indices(shard.shape) : output[Place(idx, shard.shape)] = Logical(shard, idx)

=============================================================================
