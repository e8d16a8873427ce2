----------------------------- MODULE TsDocument -----------------------------
(***************************************************************************)
(* document.ts at the level of JSON tokens: how a text becomes a value of  *)
(* JavaScript and a value the canonical text, with what each conversion    *)
(* does to numbers, strings and the order of members.                      *)
(*                                                                         *)
(* A text is a tree of tokens: "int" (digits only), "-0", "float" (with a  *)
(* point), "exp" (with an exponent), "str" (spelled the canonical way or   *)
(* not), "word" (true, false, null), "arr" and "obj" (with spaces or not), *)
(* and "b64", a string that passes for base64.  Sizes are scaled down:     *)
(* Safe stands for 2^53 - 1, Huge for 10^21, from where numbers print with *)
(* an exponent, and Largest for the largest float64.  A number is counted  *)
(* in halves, so that an odd count has a fraction.                         *)
(***************************************************************************)
EXTENDS StoreKeys, Integers, SequencesExt

CONSTANTS Safe, Huge, Largest,
          IndexNames    (* member names that look like an array index *)

Abs(n) == IF n < 0 THEN -n ELSE n

Error    == [j |-> "error"]
Opaque   == [k |-> "opaque"]    (* bytes that are not JSON in UTF-8 *)
Broken   == [k |-> "broken"]    (* no text: a conversion threw *)
IsObject(value)    == value.j = "object"      (* isPlainObject, of what a parser made *)
IsContainer(value) == value.j \in {"array", "object"}

-----------------------------------------------------------------------------
(* Parsing. *)

Names(members) == [i \in DOMAIN members |-> members[i].name]

(* An object of JavaScript: a name once, where it first came, with its     *)
(* last value; names that look like an index go before the others.         *)
ObjectOf(members) ==
  LET n == Len(members)
      firsts == SelectSeq([i \in 1 .. n |-> i],
                  LAMBDA i : \A h \in 1 .. i - 1 : members[h].name # members[i].name)
      last(i) == CHOOSE h \in i .. n :
                   /\ members[h].name = members[i].name
                   /\ \A g \in h + 1 .. n : members[g].name # members[i].name
      kept == [f \in DOMAIN firsts |-> members[last(firsts[f])]]
  IN  SelectSeq(kept, LAMBDA m : m.name \in IndexNames)
        \o SelectSeq(kept, LAMBDA m : m.name \notin IndexNames)

RECURSIVE Revive(_, _), HasInfinity(_), Write(_)

(* A literal of digits: exactly, where a float64 would round. *)
NumberOf(token, integersAsBigInt) ==
  IF integersAsBigInt \/ Abs(token.v) > Safe
  THEN [j |-> "bigint", v |-> token.v]
  ELSE [j |-> "number", h |-> 2 * token.v]

Revive(token, integersAsBigInt) ==
  CASE token.k = "int"  -> NumberOf(token, integersAsBigInt)
    [] token.k = "-0"   -> IF integersAsBigInt THEN [j |-> "bigint", v |-> 0]
                                               ELSE [j |-> "negative zero"]
    [] token.k \in {"float", "exp"} -> [j |-> "number", h |-> token.h]
    [] token.k = "str"  -> [j |-> "string", s |-> token.s]
    [] token.k = "b64"  -> [j |-> "base64", of |-> token.of, exact |-> token.exact]
    [] token.k = "word" -> [j |-> "word"]
    [] token.k = "arr"  -> [j |-> "array",
                            of |-> [i \in DOMAIN token.of |-> Revive(token.of[i], integersAsBigInt)]]
    [] token.k = "obj"  -> [j |-> "object",
                            of |-> ObjectOf([i \in DOMAIN token.of |->
                                     [name |-> token.of[i].name,
                                      is |-> Revive(token.of[i].is, integersAsBigInt)]])]
    [] OTHER -> Error

(* A number literal past the largest float64 is infinite. *)
HasInfinity(value) ==
  CASE value.j = "number" -> Abs(value.h) > 2 * Largest
    [] value.j = "array"  -> \E i \in DOMAIN value.of : HasInfinity(value.of[i])
    [] value.j = "object" -> \E i \in DOMAIN value.of : HasInfinity(value.of[i].is)
    [] OTHER -> FALSE

(* strictParse *)
StrictParse(text, integersAsBigInt) ==
  LET value == Revive(text, integersAsBigInt)
  IN  IF HasInfinity(value) THEN Error ELSE value

-----------------------------------------------------------------------------
(* Writing. *)

(* writeCanonicalNumber: ECMAScript's Number::toString. *)
WriteNumber(h) ==
  IF h % 2 = 1 THEN [k |-> "float", h |-> h]
  ELSE IF Abs(h) < 2 * Huge THEN [k |-> "int", v |-> h \div 2]
  ELSE [k |-> "exp", h |-> h]

(* canonicalStringify, Broken where it throws: an infinite number, or a    *)
(* string or a name with a lone surrogate.                                 *)
Write(value) ==
  CASE value.j = "number" -> IF HasInfinity(value) THEN Broken ELSE WriteNumber(value.h)
    [] value.j = "negative zero" -> [k |-> "int", v |-> 0]
    [] value.j = "bigint" -> [k |-> "int", v |-> value.v]
    [] value.j = "string" -> IF value.s = "lone" THEN Broken
                             ELSE [k |-> "str", s |-> value.s, plain |-> TRUE]
    [] value.j = "base64" -> [k |-> "b64", of |-> value.of, exact |-> value.exact]
    [] value.j = "word"   -> [k |-> "word"]
    [] value.j = "array"  ->
         LET items == [i \in DOMAIN value.of |-> Write(value.of[i])]
         IN  IF \E i \in DOMAIN items : items[i] = Broken THEN Broken
             ELSE [k |-> "arr", of |-> items, tight |-> TRUE]
    [] value.j = "object" ->
         LET members == [i \in DOMAIN value.of |->
                          [name |-> value.of[i].name, is |-> Write(value.of[i].is)]]
         IN  IF \E i \in DOMAIN members : members[i].is = Broken \/ members[i].name = "lone"
             THEN Broken
             ELSE [k |-> "obj", of |-> members, tight |-> TRUE]
    [] OTHER -> Broken

-----------------------------------------------------------------------------
(* The entry transform. *)

(* Mutant: whatever parses to a container is inlined. *)
TryInlineUncompared(bytes) ==
  LET value == StrictParse(bytes, FALSE)
  IN  IF IsContainer(value) /\ Write(value) # Broken THEN value ELSE Error

(* tryInlineJson: a container, if writing it gives the same bytes. *)
TryInlineJson(bytes) ==
  LET value == StrictParse(bytes, FALSE)
  IN  IF IsContainer(value) /\ Write(value) = bytes THEN value ELSE Error

(* encodeValue *)
EncodeValue(key, bytes) ==
  LET parsed == StrictParse(bytes, FALSE)
  IN  IF IsMetadataKey(key) THEN (IF IsObject(parsed) THEN parsed ELSE Error)
      ELSE IF TryInlineJson(bytes) # Error THEN TryInlineJson(bytes)
      ELSE [j |-> "base64", of |-> bytes, exact |-> TRUE]

(* decodeValue, Broken where it throws. *)
DecodeValue(key, value) ==
  IF IsMetadataKey(key) THEN (IF IsObject(value) THEN Write(value) ELSE Broken)
  ELSE IF IsContainer(value) THEN Write(value)
  ELSE IF value.j = "base64" THEN value.of
  ELSE Broken

(* checkValueType, and validate's one issue of a key at most. *)
HasValidType(key, value) ==
  IF IsMetadataKey(key) THEN IsObject(value)
  ELSE value.j \in {"string", "base64", "array", "object"}

HasIssue(key, value) == ~IsWellFormed(key) \/ ~HasValidType(key, value)

=============================================================================
