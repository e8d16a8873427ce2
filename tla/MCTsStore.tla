----------------------------- MODULE MCTsStore -----------------------------
(***************************************************************************)
(* A small instance of TsStore: a metadata key, a chunk key and a key that *)
(* R1 rejects; one payload that has a canonical form and one with a lone   *)
(* surrogate, which StringBacking cannot persist.                          *)
(***************************************************************************)
EXTENDS TsStore

CONSTANTS good, bad

meta  == <<"zarr.json">>
chunk == <<"c", "0">>
dots  == <<"a", "..", "b">>

MCKey == {meta, chunk, dots}

obj(p) == [kind |-> "object", of |-> p]

MCBytes == {Canonical(obj(good)), [form |-> "loose", of |-> obj(bad)],
            [form |-> "opaque", of |-> good]}

MCJson == {obj(good), obj(bad)}

Doc(m, c, d, order) ==
  [at |-> [k \in MCKey |-> CASE k = meta -> m [] k = chunk -> c [] k = dots -> d],
   order |-> order]

(* A valid document; one whose chunk and malformed key have issues and     *)
(* whose metadata has no canonical form.                                   *)
MCInitialDocument ==
  {Doc(obj(good), [kind |-> "base64", of |-> [form |-> "opaque", of |-> good]], Missing,
       <<chunk, meta>>),
   Doc(obj(bad), [kind |-> "scalar", of |-> good], obj(good), <<meta, chunk, dots>>)}

(* A file cut short, or one that has another document in it.               *)
MCDebris == {Torn, Doc(Missing, Missing, obj(good), <<dots>>)}

-----------------------------------------------------------------------------
(* For more calls in flight: one chunk key, not readable at first. *)
QueueKey == {chunk}

QueueBytes == {Canonical(obj(good)), [form |-> "opaque", of |-> good]}

QueueJson == {obj(good)}

QueueInitialDocument ==
  {[at |-> [k \in {chunk} |-> [kind |-> "scalar", of |-> good]], order |-> <<chunk>>]}

QueueDebris == {Torn}

=============================================================================
