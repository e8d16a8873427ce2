----------------------------- MODULE MCSharding -----------------------------
(* What Sharding is instantiated with: shards of rank 1 and 2 with every   *)
(* index over two blobs, damaged ones among them, and shards of shards,    *)
(* with ranges over both among their entries.                              *)
EXTENDS ChunkIndex

Json(shape, b) == [codec |-> "json", shape |-> shape, data |-> [i \in 1 .. Product(shape) |-> b + i]]
Short(shape)   == [codec |-> "json", shape |-> shape, data |-> <<1, 2, 3>>]

Entries == {[offset |-> o, length |-> 1] : o \in 0 .. 2}
             \cup {[offset |-> 9, length |-> 9], [offset |-> 9, length |-> 1],
                   [offset |-> 0, length |-> 2], [offset |-> 1, length |-> 0]}

Over(shape, inner, data, index) ==
  [codec |-> "sharding_indexed", shape |-> shape, inner |-> inner, sample |-> data[1],
   index_location |-> "end", index_codec |-> "bytes", data |-> data, index |-> index]

Flat(shape, inner, entries) ==
  {Over(shape, inner, d, i) :
     d \in {<<Json(inner, 0), Json(inner, 4)>>, <<Json(inner, 0), Short(inner)>>},
     i \in [1 .. Product(shape) \div Product(inner) -> entries]}

Good == {e \in Entries : e.length = 1 /\ e.offset < 2} \cup {[offset |-> 9, length |-> 9]}

Few == Good \cup {[offset |-> 9, length |-> 1], [offset |-> 2, length |-> 1]}

(* Of the second: read alone, the last two are past its data; in a range   *)
(* from the first on they are the index of that and its own first chunk.   *)
Second == {[offset |-> o, length |-> 1] : o \in {0, 2, 3}}

Nested == {Over(<<4>>, <<2>>, <<a, b>>, i) :
             a \in Flat(<<2>>, <<1>>, Good), b \in Flat(<<2>>, <<1>>, Second),
             i \in [1 .. 2 -> Good \cup {[offset |-> 0, length |-> 2]}]}

Odd(s) == {[s EXCEPT !.index_location = "start"], [s EXCEPT !.inner = <<3>>], [s EXCEPT !.index = <<>>]}

Shards ==
  Flat(<<4>>, <<2>>, Entries) \cup Flat(<<2, 4>>, <<1, 2>>, Few) \cup Flat(<<2, 2>>, <<2, 1>>, Entries)
    \cup Nested \cup Odd(Over(<<4>>, <<2>>, <<Json(<<2>>, 0)>>, [n \in 1 .. 2 |-> [offset |-> 0, length |-> 1]]))

OneShard == Over(<<4>>, <<2>>, <<Json(<<2>>, 0), Json(<<2>>, 4)>>, [n \in 1 .. 2 |-> [offset |-> 0, length |-> 1]])
=============================================================================
