----------------------------- MODULE ChunkWalk -----------------------------
(***************************************************************************)
(* How the json codec of TypeScript takes the elements of a chunk out of   *)
(* memory, where strides say how far apart they lie: chunkElements counts  *)
(* through the indices of the shape, one counter for each dimension.       *)
(***************************************************************************)
EXTENDS ChunkIndex

CONSTANT Chunk   (* dtype, shape, stride and memory of the chunks written *)

(* Strides are offsets forward, one for each dimension. *)
ASSUME ChunkAssumption ==
  \A c \in Chunk : c.shape \in Seq(Nat) /\ c.stride \in Seq(Nat) /\ Len(c.stride) = Len(c.shape)

VARIABLES
  chunk,
  index, out   (* the counters, and the elements gathered *)

walk == <<chunk, index, out>>

Size == Product(chunk.shape)

(* The inner loop: the last counter that has room moves on, and those      *)
(* after it start again.                                                   *)
Advance(idx, shape) ==
  LET open == {d \in DOMAIN shape : idx[d] + 1 < shape[d]}
      at   == IF open = {} THEN 0 ELSE Max(open)
  IN  [d \in DOMAIN shape |->
        IF d < at THEN idx[d] ELSE IF d = at THEN idx[d] + 1 ELSE 0]

WalkInit ==
  /\ chunk \in Chunk
  /\ index = [d \in DOMAIN chunk.shape |-> 0] /\ out = <<>>

(* Mutant: memory is read straight through. *)
GatherStraight ==
  /\ Len(out) < Size
  /\ out' = Append(out, chunk.data[Len(out) + 1])
  /\ index' = Advance(index, chunk.shape)
  /\ UNCHANGED chunk

(* One turn of the loop of chunkElements. *)
Gather ==
  /\ Len(out) < Size
  /\ out' = Append(out, chunk.data[Offset(index, chunk.stride) + 1])
  /\ index' = Advance(index, chunk.shape)
  /\ UNCHANGED chunk

WalkSpec == WalkInit /\ [][Gather]_walk

-----------------------------------------------------------------------------
(* chunkElements gives the elements in C order of the shape, whatever the  *)
(* strides of the memory (a transpose codec hands over such chunks).       *)
GatheredInOrder ==
  \A n \in DOMAIN out :
    out[n] = chunk.data[Offset(Unravel(n - 1, chunk.shape), chunk.stride) + 1]

=============================================================================
