--------------------------- MODULE InlineDocument ---------------------------
(***************************************************************************)
(* The entry transform: how a store entry (key, bytes) becomes a member of *)
(* the JSON document and back, and the rules R1 and R2 a member must obey. *)
(*                                                                         *)
(* JSON contents are abstracted to payloads.  What the transform tells     *)
(* apart is kept:                                                          *)
(*   - of a JSON value: object, array, a string that is the base64 of some *)
(*     bytes, any other string ("text"), or a number, boolean or null      *)
(*     ("scalar");                                                         *)
(*   - of a byte string: the canonical serialization of an object or array *)
(*     ("canonical"), another JSON text that parses to one, with spaces,   *)
(*     escapes or 1.0 in it ("loose"), or bytes that do not parse to an    *)
(*     object or array ("opaque").                                         *)
(* A payload in Surrogate holds a string with a lone surrogate: it parses  *)
(* from the escape \ud800 but has no UTF-8 form.                           *)
(***************************************************************************)
EXTENDS StoreKeys

CONSTANTS
  Payload,      (* identities of JSON contents *)
  Surrogate     (* the payloads without a canonical serialization *)

ASSUME SurrogateAssumption == Surrogate \subseteq Payload

-----------------------------------------------------------------------------
(* Values and bytes. *)

Container == [kind : {"object", "array"}, of : Payload]

ByteString ==
  [form : {"canonical"}, of : [kind : {"object", "array"}, of : Payload \ Surrogate]]
    \cup [form : {"loose"}, of : Container]
    \cup [form : {"opaque"}, of : Payload]

Member ==
  Container
    \cup [kind : {"base64"}, of : ByteString]
    \cup [kind : {"text", "scalar"}, of : Payload]

Missing    == [kind |-> "missing"]      (* no such member *)
CodecError == [kind |-> "codec error"]  (* encode_value raised *)
NotInlined == [kind |-> "not inlined"]  (* _try_inline_json returned None *)
Unreadable == [form |-> "unreadable"]   (* decode_value raised *)
NotFound   == [form |-> "not found"]    (* the key is absent *)
Lost       == [form |-> "lost"]         (* the document was destroyed *)

IsContainer(value) == value.kind \in {"object", "array"}

-----------------------------------------------------------------------------
(* Canonical serialization, parsing, and the transform itself. *)

HasCanonicalForm(value) == IsContainer(value) /\ value.of \notin Surrogate

Canonical(value) == [form |-> "canonical", of |-> value]

ParsesToContainer(bytes) == bytes.form # "opaque"

(* decode_value(key, value): the bytes a member stands for. *)
DecodeValue(key, value) ==
  IF IsMetadataKey(key)
  THEN IF value.kind = "object" /\ HasCanonicalForm(value)
       THEN Canonical(value)
       ELSE Unreadable
  ELSE IF HasCanonicalForm(value) THEN Canonical(value)
       ELSE IF value.kind = "base64" THEN value.of
       ELSE Unreadable

(* Mutant: inlines whatever parses, without comparing the bytes. *)
TryInlineParsed(bytes) ==
  IF ParsesToContainer(bytes) /\ HasCanonicalForm(bytes.of) THEN bytes.of ELSE NotInlined

(* Inline only what serializes back to exactly the same bytes. *)
TryInlineJson(bytes) ==
  IF /\ ParsesToContainer(bytes)
     /\ HasCanonicalForm(bytes.of)
     /\ Canonical(bytes.of) = bytes
  THEN bytes.of
  ELSE NotInlined

(* encode_value(key, data): the member that stands for the bytes. *)
EncodeValue(key, bytes) ==
  IF IsMetadataKey(key)
  THEN IF ParsesToContainer(bytes) /\ bytes.of.kind = "object"
       THEN bytes.of
       ELSE CodecError
  ELSE IF TryInlineJson(bytes) # NotInlined
       THEN TryInlineJson(bytes)
       ELSE [kind |-> "base64", of |-> bytes]

(* The shapes R2 permits at the key, with a canonical serialization. *)
FitsKey(key, json) ==
  /\ json.kind = "object" \/ (json.kind = "array" /\ ~IsMetadataKey(key))
  /\ HasCanonicalForm(json)

(* What a reader gets back for bytes written at a key. *)
Normal(key, bytes) ==
  IF ~IsMetadataKey(key) THEN bytes
  ELSE IF ParsesToContainer(bytes) /\ HasCanonicalForm(bytes.of)
       THEN Canonical(bytes.of)
       ELSE Unreadable

-----------------------------------------------------------------------------
(* Validity. *)

(* Rule R2 of the validator: the JSON type a key's class admits. *)
HasValidType(key, value) ==
  IF IsMetadataKey(key) THEN value.kind = "object"
                        ELSE value.kind # "scalar"

(* One issue per member at most: R1 first, R2 for keys that pass R1. *)
HasIssue(key, value) == ~IsWellFormed(key) \/ ~HasValidType(key, value)

=============================================================================
