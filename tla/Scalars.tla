------------------------------ MODULE Scalars ------------------------------
(***************************************************************************)
(* The elements of a chunk, as JavaScript has them, and the JSON scalars   *)
(* and arrays of a text.                                                   *)
(*                                                                         *)
(* A finite number is counted in halves, so that an odd count has a        *)
(* fraction: [sort |-> "number", v |-> 2] is 1.0.  A bigint counts ones.   *)
(***************************************************************************)

Number(h)    == [sort |-> "number", v |-> h]
BigInt(n)    == [sort |-> "bigint", v |-> n]
NegativeZero == [sort |-> "negative zero", v |-> 0]
Special      == {"NaN", "Infinity", "-Infinity"}   (* numbers JSON has no token for *)
Unusual(s)   == [sort |-> s, v |-> 0]

IntToken(n)   == [token |-> "integer", v |-> n]
FloatToken(h) == [token |-> "float", v |-> h]
Word(s)       == [token |-> "string", is |-> s]
Items(s)      == [token |-> "array", items |-> s]

=============================================================================
