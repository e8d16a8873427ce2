----------------------------- MODULE StoreKeys -----------------------------
(***************************************************************************)
(* Zarr v3 store keys.  A key is a string; here it is the non-empty        *)
(* sequence of the segments that splitting it on "/" gives, so that        *)
(* "a/c/0" is <<"a", "c", "0">>, the root key "" is <<"">> and the         *)
(* malformed "/a" is <<"", "a">>.  Splitting loses nothing.                *)
(***************************************************************************)
EXTENDS Sequences, Naturals

(***************************************************************************)
(* Rule R1 of the validator: the root key, or no empty segment (so no      *)
(* leading, trailing or doubled "/") and no "." or ".." segment.           *)
(***************************************************************************)
IsWellFormed(key) ==
  \/ key = <<"">>
  \/ \A i \in 1 .. Len(key) : key[i] \notin {"", ".", ".."}

(***************************************************************************)
(* "zarr.json" itself, or a key that ends in "/zarr.json".                 *)
(***************************************************************************)
IsMetadataKey(key) == key[Len(key)] = "zarr.json"

(***************************************************************************)
(* A directory is the sequence of its segments, <<>> for the root.  A key  *)
(* is in the directory when the directory's name and a "/" start it.       *)
(***************************************************************************)
InDirectory(dir, key) ==
  /\ Len(dir) < Len(key)
  /\ \A i \in 1 .. Len(dir) : key[i] = dir[i]

=============================================================================
