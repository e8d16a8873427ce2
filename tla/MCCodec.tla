------------------------------ MODULE MCCodec ------------------------------
(* What Codec is instantiated with: small chunks of every type, with the   *)
(* values at the limits of the types, and chunks of one type in every      *)
(* order of axes, where each element of memory is different.               *)
EXTENDS ChunkIndex, Scalars

Limits ==
  [d \in {"int8", "uint8", "int64", "uint64"} |->
    CASE d = "int8" -> <<-2, 1>> [] d = "uint8" -> <<0, 3>>
      [] d = "int64" -> <<-8, 7>> [] d = "uint64" -> <<0, 15>>]
Big == {"int64", "uint64"}
Floats == [d \in {"float32", "float64"} |-> IF d = "float32" THEN 24 ELSE 40]

Elements(d) ==
  CASE d \in Big -> {BigInt(Limits[d][1]), BigInt(3), BigInt(Limits[d][2])}
    [] d \in DOMAIN Limits -> {Number(2 * Limits[d][1]), Number(2 * Limits[d][2])}
    [] d \in DOMAIN Floats -> {NegativeZero, Number(1), Number(2), Number(Floats[d]), Unusual("NaN")}
    [] OTHER -> {[sort |-> "boolean", b |-> TRUE]}

CodecTypes == DOMAIN Limits \cup DOMAIN Floats \cup {"bool"}

Small == UNION
  {[dtype : {d}, shape : {s}, stride : {CStrides(s)}, data : [1 .. Product(s) -> Elements(d)]] :
     d \in CodecTypes, s \in {<<>>, <<0>>, <<2>>, <<1, 2>>, <<2, 0>>, <<0, 2>>}}

Tokens ==
  {IntToken(n) : n \in {-9, -3, 0, 2, 4, 9, 13, 16, 21}} \cup {FloatToken(h) : h \in {1, 2, 25, 50}}
    \cup {Word("NaN"), Word("text"), [token |-> "boolean", b |-> FALSE], [token |-> "null"],
          Items(<<>>), Items(<<IntToken(1)>>)}

(* The strides a transpose codec makes: the axes laid out in another order. *)
Permuted(shape, order) ==
  [d \in DOMAIN shape |->
    CStrides([i \in DOMAIN shape |-> shape[order[i]]])[CHOOSE i \in DOMAIN order : order[i] = d]]

Orders(n) == {o \in [1 .. n -> 1 .. n] : \A i, j \in 1 .. n : o[i] = o[j] => i = j}

Strided == UNION
  {[dtype : {"uint64"}, shape : {s}, stride : {Permuted(s, o) : o \in Orders(Len(s))},
    data : {[i \in 1 .. Product(s) |-> BigInt(i)]}] :
     s \in {<<>>, <<3>>, <<2, 3>>, <<3, 1>>, <<0, 3>>, <<2, 1, 3>>, <<3, 2, 2>>}}

OneChunk == [dtype |-> "bool", shape |-> <<>>, stride |-> <<>>, data |-> <<[sort |-> "boolean", b |-> TRUE]>>]
=============================================================================
