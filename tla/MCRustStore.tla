---------------------------- MODULE MCRustStore ----------------------------
(***************************************************************************)
(* A small instance of RustStore: a chunk key beside a metadata key in a   *)
(* directory, and a malformed key.  One patch writes the head of the text  *)
(* of a JSON object, the other its tail and a space after it: over an      *)
(* empty value each alone gives no JSON, and both give JSON that is not in *)
(* canonical form.                                                         *)
(***************************************************************************)
EXTENDS RustStore, TLC

CONSTANTS json, none, head, tail, p1, p2

meta  == <<"a", "zarr.json">>
chunk == <<"a", "c">>
dots  == <<"..", "b">>

MCKey == {meta, chunk, dots}

MCPatch == {p1, p2}

MCPayload == {json, none, head, tail}

value == [kind |-> "object", of |-> json]
loose == [form |-> "loose", of |-> value]

opaque(payload) == [form |-> "opaque", of |-> payload]

MCOverlay ==
  [b \in ByteString |-> [p \in MCPatch |->
    CASE b = loose -> loose
      [] b = Canonical(value) -> IF p = p1 THEN b ELSE loose
      [] p = p2 /\ b = opaque(head) -> loose
      [] p = p1 /\ b = opaque(tail) -> loose
      [] OTHER -> opaque(IF p = p1 THEN head ELSE tail)]]

MCEmpty == opaque(none)

MCBytes == {Canonical(value), opaque(head)}

MCJson == {value, [kind |-> "scalar", of |-> json]}

Doc(m, c, d, order) ==
  [at |-> [k \in MCKey |-> CASE k = meta -> m [] k = chunk -> c [] k = dots -> d],
   order |-> order]

(* A document with three issues; and one whose chunk does not decode. *)
MCInitialDocument ==
  {Doc([kind |-> "array", of |-> json], [kind |-> "scalar", of |-> json], value,
       <<dots, chunk, meta>>),
   Doc(value, [kind |-> "text", of |-> json], Missing, <<chunk, meta>>)}

MCDirectory == {<<"a">>}

(* The threads are interchangeable. *)
Threads == Permutations(Thread)

=============================================================================
