------------------------------ MODULE MCArrays ------------------------------
(***************************************************************************)
(* Three steps of the way of an array's elements into a document and back, *)
(* which share no state, side by side: Init chooses the one a behaviour is *)
(* about.                                                                  *)
(*   "trace"  the crosscheck harness, which makes and fills arrays         *)
(*   "codec"  the json codec, for one chunk                                *)
(*   "shard"  the decoder of sharded arrays, for one shard                 *)
(***************************************************************************)
EXTENDS MCCrosscheck, MCCodec, MCSharding, Crosscheck, ChunkWalk

VARIABLES
  part,
  text, edited, result,
  shard, level, outer, entry, output

codec    == <<walk, text, edited, result>>
sharding == <<shard, level, outer, entry, output>>
all      == <<part, vars, codec, sharding>>

EveryChunk == Small \cup Strided
Codecs == INSTANCE Codec WITH
  Safe <- 6, IntRange <- Limits, BigTypes <- Big, FloatMax <- Floats,
  Token <- Tokens

Sharded == INSTANCE Sharding WITH
  Shard <- Shards, MaxUint64 <- 9, MaxSafe <- 8

-----------------------------------------------------------------------------
(* A part that is not the chosen one stays as it begins, in one state. *)
MCInit ==
  /\ part \in {"trace", "codec", "shard"}
  /\ (part = "trace" \/ nodes = <<>>) /\ Init
  /\ (part = "codec" \/ chunk = OneChunk) /\ Codecs!Init
  /\ \/ part = "shard" /\ Sharded!Init
     \/ part # "shard" /\ shard = OneShard /\ level = 1 /\ outer = <<>>
                       /\ entry = 1 /\ output = <<>>

MCNext ==
  /\ UNCHANGED part
  /\ \/ part = "trace" /\ Next /\ UNCHANGED <<codec, sharding>>
     \/ part = "codec" /\ Codecs!Next /\ UNCHANGED <<vars, sharding>>
     \/ part = "shard" /\ Sharded!Next /\ UNCHANGED <<vars, codec>>

MCSpec == MCInit /\ [][MCNext]_all

-----------------------------------------------------------------------------
(* Codec: what nobody edited decodes to what was encoded. *)
RoundTrip == Codecs!RoundTrip

(* Codec: nothing is coerced. *)
DecodesWhatIsWritten == Codecs!DecodesWhatIsWritten

(* Sharding: sound shards are read whole, all others refused. *)
ReadsSoundOnly == Sharded!ReadsSoundOnly

=============================================================================
