----------------------------- MODULE MCPyStore -----------------------------
(***************************************************************************)
(* A small instance of PyStore: a metadata key, a chunk key and a key that *)
(* R1 rejects; one payload that has a canonical form and one with a lone   *)
(* surrogate; byte strings of every form, the canonical one by set_json.   *)
(***************************************************************************)
EXTENDS PyStore, TLC

CONSTANTS good, bad

meta  == <<"zarr.json">>
chunk == <<"c", "0">>
dots  == <<"a", "..", "b">>

MCKey == {meta, chunk, dots}

obj(p) == [kind |-> "object", of |-> p]
arr(p) == [kind |-> "array", of |-> p]

MCBytes == {[form |-> "loose", of |-> obj(good)], [form |-> "opaque", of |-> good]}

MCJson == {obj(good), arr(bad)}

scalar == [kind |-> "scalar", of |-> good]

Doc(m, c, d, order) ==
  [at |-> [k \in MCKey |-> CASE k = meta -> m [] k = chunk -> c [] k = dots -> d],
   order |-> order]

(* A chunk whose base64 is canonical JSON, and a malformed key; metadata   *)
(* that cannot be persisted, and a chunk that does not decode although it  *)
(* has no issue; a document whose every member has an issue.               *)
MCInitialDocument ==
  {Doc(Missing, [kind |-> "base64", of |-> Canonical(obj(good))], obj(good), <<chunk, dots>>),
   Doc(obj(bad), [kind |-> "text", of |-> good], Missing, <<meta, chunk>>),
   Doc(arr(good), scalar, Missing, <<meta, chunk>>)}

(* The views are interchangeable. *)
Views == Permutations(View)

=============================================================================
