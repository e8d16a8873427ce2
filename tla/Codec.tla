------------------------------- MODULE Codec -------------------------------
(***************************************************************************)
(* The json array-to-bytes codec of TypeScript: the elements of a chunk,   *)
(* gathered from strided memory, become nested JSON arrays in the document *)
(* and, perhaps edited there by hand, become a chunk again.                *)
(*                                                                         *)
(* Widths are scaled down: Safe stands for 2^53 - 1, IntRange for the      *)
(* ranges of the integer types, FloatMax for the largest finite numbers.   *)
(***************************************************************************)
EXTENDS ChunkWalk, Scalars

CONSTANTS
  Safe,        (* the largest integer below which every one is a number *)
  IntRange,    (* the least and the greatest value of each integer type *)
  BigTypes,    (* the integer types whose elements are bigints *)
  FloatMax,    (* of each float type, in halves *)
  Token        (* JSON scalars an editor may put in a text *)

VARIABLES
  text,        (* the JSON text in the document *)
  edited,      (* history: whether it was edited *)
  result       (* what decoding it gave *)

vars == <<walk, text, edited, result>>

IsInt(dtype)   == dtype \in DOMAIN IntRange
IsFloat(dtype) == dtype \in DOMAIN FloatMax

NoText   == [token |-> "none"]
NoResult == [is |-> "nothing"]
Failed   == [is |-> "error"]

Abs(n) == IF n < 0 THEN -n ELSE n

-----------------------------------------------------------------------------
(* Scalars. *)

(* Mutant: every bigint goes by a number. *)
ToTokenRounded(e) ==
  CASE e.sort = "bigint"        -> IntToken(IF Abs(e.v) <= Safe THEN e.v ELSE 2 * (e.v \div 2))
    [] e.sort = "negative zero" -> IntToken(0)
    [] e.sort \in Special       -> Word(e.sort)
    [] e.sort = "number"        -> IF e.v % 2 = 0 THEN IntToken(e.v \div 2) ELSE FloatToken(e.v)
    [] e.sort = "boolean"       -> [token |-> "boolean", b |-> e.b]

(* toJsonScalar, and the token canonicalStringify writes for it: a bigint  *)
(* within the safe range goes by a number, with the same digits.           *)
ToToken(e) ==
  CASE e.sort = "bigint"        -> IntToken(e.v)
    [] e.sort = "negative zero" -> IntToken(0)
    [] e.sort \in Special       -> Word(e.sort)
    [] e.sort = "number"        -> IF e.v % 2 = 0 THEN IntToken(e.v \div 2) ELSE FloatToken(e.v)
    [] e.sort = "boolean"       -> [token |-> "boolean", b |-> e.b]

Widest == CHOOSE m \in {FloatMax[d] : d \in DOMAIN FloatMax} :
            \A d \in DOMAIN FloatMax : FloatMax[d] <= m

(* A literal such as 1e400 is refused by the parser. *)
Overflows(token) == token.token = "float" /\ Abs(token.v) > Widest

(* A number nearest to an integer: past Safe only every second one is. *)
Nearest(n) == Number(IF Abs(n) <= Safe THEN 2 * n ELSE 4 * (n \div 2))

Invalid == [sort |-> "invalid"]

(* Mutant: the range of a float type is not checked. *)
FromTokenAnySize(t, dtype) ==
  CASE IsFloat(dtype) /\ t.token = "integer" -> Nearest(t.v)
    [] IsFloat(dtype) /\ t.token = "float"   -> Number(t.v)
    [] IsInt(dtype) /\ t.token = "integer"   ->
         IF dtype \in BigTypes THEN BigInt(t.v) ELSE Number(2 * t.v)
    [] IsFloat(dtype) /\ t.token = "string" /\ t.is \in Special -> Unusual(t.is)
    [] dtype = "bool" /\ t.token = "boolean" -> [sort |-> "boolean", b |-> t.b]
    [] OTHER -> Invalid

(* fromJsonScalar, of a token parsed with every integer as a bigint: an    *)
(* integer type takes nothing but an integer token in its range.           *)
FromToken(t, dtype) ==
  CASE IsFloat(dtype) /\ t.token \in {"integer", "float"} ->
         LET x == IF t.token = "integer" THEN Nearest(t.v) ELSE Number(t.v)
         IN  IF Abs(x.v) > FloatMax[dtype] THEN Invalid ELSE x
    [] IsFloat(dtype) /\ t.token = "string" ->
         IF t.is \in Special THEN Unusual(t.is) ELSE Invalid
    [] IsInt(dtype) /\ t.token = "integer" ->
         IF t.v \notin IntRange[dtype][1] .. IntRange[dtype][2] THEN Invalid
         ELSE IF dtype \in BigTypes THEN BigInt(t.v) ELSE Number(2 * t.v)
    [] dtype = "bool" /\ t.token = "boolean" -> [sort |-> "boolean", b |-> t.b]
    [] OTHER -> Invalid

(* makeTypedArray: an element as the typed array keeps it, an integer      *)
(* reduced to the width of the type, a float too large made infinite.      *)
Stored(e, dtype) ==
  LET low == IntRange[dtype][1]  width == IntRange[dtype][2] - low + 1
  IN  CASE IsInt(dtype) /\ e.sort = "bigint" -> BigInt(low + ((e.v - low) % width))
        [] IsInt(dtype) /\ e.sort = "number" -> Number(2 * (low + (((e.v \div 2) - low) % width)))
        [] IsFloat(dtype) /\ e.sort = "number" ->
             IF Abs(e.v) <= FloatMax[dtype] THEN e
             ELSE Unusual(IF e.v > 0 THEN "Infinity" ELSE "-Infinity")
        [] OTHER -> e

-----------------------------------------------------------------------------
(* Nesting. *)

RECURSIVE Nest(_, _), Flatten(_, _)

(* nest *)
Nest(flat, shape) ==
  CASE shape = <<>> -> flat[1]
    [] Len(shape) = 1 -> Items(flat)
    [] OTHER ->
         LET step == Len(flat) \div shape[1]
         IN  Items([i \in 1 .. shape[1] |->
                     Nest(SubSeq(flat, (i - 1) * step + 1, i * step), Tail(shape))])

Ragged == <<[token |-> "ragged"]>>

(* flatten, by the shape and not by what looks like an array; Ragged ends  *)
(* up among the scalars, where nothing can take it.                        *)
Flatten(nested, shape) ==
  CASE shape = <<>> -> <<nested>>
    [] nested.token # "array" -> Ragged
    [] Len(nested.items) # shape[1] -> Ragged
    [] Len(shape) = 1 -> nested.items
    [] OTHER -> FlattenSeq([i \in DOMAIN nested.items |-> Flatten(nested.items[i], Tail(shape))])

-----------------------------------------------------------------------------
(* The codec at work. *)

Init ==
  /\ WalkInit
  /\ text = NoText /\ edited = FALSE /\ result = NoResult

(* chunkElements is taken through all of its turns before nest. *)
GatherMore == text = NoText /\ Gather /\ UNCHANGED <<text, edited, result>>

Encode ==
  /\ text = NoText /\ Len(out) = Size
  /\ text' = Nest([n \in DOMAIN out |-> ToToken(out[n])], chunk.shape)
  /\ UNCHANGED <<walk, edited, result>>

(* Somebody edits the array in the document: a scalar is replaced, or an   *)
(* item added to or taken from an array.                                   *)
Replace(json, t) ==
  IF json.token # "array" THEN {t}
  ELSE {Items([json.items EXCEPT ![i] = t]) : i \in DOMAIN json.items}
         \cup {Items(Append(json.items, t))}
         \cup {Items(RemoveAt(json.items, i)) : i \in DOMAIN json.items}

Edit ==
  /\ text # NoText /\ ~edited /\ result = NoResult
  /\ \E t \in Token :
       \/ text' \in Replace(text, t)
       \/ /\ text.token = "array"
          /\ \E i \in DOMAIN text.items : \E part \in Replace(text.items[i], t) :
               text' = Items([text.items EXCEPT ![i] = part])
  /\ edited' = TRUE
  /\ UNCHANGED <<walk, result>>

Decoded(json, dtype, shape) ==
  LET tokens  == Flatten(json, shape)
      scalars == [n \in DOMAIN tokens |-> FromToken(tokens[n], dtype)]
  IN  IF \E n \in DOMAIN tokens : Overflows(tokens[n]) \/ scalars[n] = Invalid
      THEN Failed
      ELSE [is |-> "chunk", data |-> [n \in DOMAIN scalars |-> Stored(scalars[n], dtype)]]

Decode ==
  /\ text # NoText /\ result = NoResult
  /\ result' = Decoded(text, chunk.dtype, chunk.shape)
  /\ UNCHANGED <<walk, text, edited>>

Next == GatherMore \/ Encode \/ Edit \/ Decode

Spec == Init /\ [][Next]_vars

-----------------------------------------------------------------------------
(* Properties. *)

(* A text nobody edited decodes to the elements that were encoded; only    *)
(* the sign of a zero is lost.                                             *)
RoundTrip ==
  ~edited /\ result # NoResult =>
    result = [is |-> "chunk",
              data |-> [n \in DOMAIN out |-> IF out[n] = NegativeZero THEN Number(0) ELSE out[n]]]

(* The part of a nested text at an index, and whether there is one. *)
Within(json, idx) ==
  FoldLeft(LAMBDA j, i : IF j.token = "array" /\ i < Len(j.items) THEN j.items[i + 1]
                         ELSE NoText, json, idx)

(* A token that names one element of the type exactly, or, for a float,    *)
(* nearly: what the fill_value convention allows in its place.             *)
Names(t, dtype, e) ==
  CASE t.token = "integer" -> IF IsFloat(dtype) THEN e = Nearest(t.v)
                              ELSE e.v = (IF dtype \in BigTypes THEN 1 ELSE 2) * t.v
    [] t.token = "float"   -> IsFloat(dtype) /\ e = Number(t.v)
    [] t.token = "string"  -> IsFloat(dtype) /\ e = Unusual(t.is)
    [] t.token = "boolean" -> dtype = "bool" /\ e.b = t.b
    [] OTHER -> FALSE

(* Nothing is coerced: when a text decodes, at every index of the shape it *)
(* has a token that names the element found there, and no array in it has  *)
(* an item beyond the shape.                                               *)
DecodesWhatIsWritten ==
  result.is = "chunk" =>
    /\ \A n \in 0 .. Size - 1 :
         Names(Within(text, Unravel(n, chunk.shape)), chunk.dtype, result.data[n + 1])
    /\ \A n \in 0 .. Size - 1 : \A d \in DOMAIN chunk.shape :
         Len(Within(text, SubSeq(Unravel(n, chunk.shape), 1, d - 1)).items) = chunk.shape[d]

=============================================================================
