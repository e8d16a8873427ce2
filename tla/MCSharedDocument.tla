-------------------------- MODULE MCSharedDocument --------------------------
(* Three stores over a document with an invalid member at every key. *)
EXTENDS SharedDocument

CONSTANTS good, bad, s1, s2, s3

meta  == <<"zarr.json">>
chunk == <<"c", "0">>
dots  == <<"a", "..", "b">>

Keys == {meta, chunk, dots}
obj(p) == [kind |-> "object", of |-> p]
scalar == [kind |-> "scalar", of |-> good]
ByteStrings == {Canonical(obj(good)), [form |-> "loose", of |-> obj(bad)], [form |-> "opaque", of |-> good]}

Doc(m, c, d) ==
  [at |-> [k \in Keys |-> CASE k = meta -> m [] k = chunk -> c [] k = dots -> d],
   order |-> <<meta, chunk, dots>>]

Documents == {Doc(scalar, scalar, scalar)}

=============================================================================
