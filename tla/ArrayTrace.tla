----------------------------- MODULE ArrayTrace -----------------------------
(***************************************************************************)
(* What a trace of array operations promises, whichever implementation     *)
(* runs it: a tree of groups with arrays at its leaves, arrays that begin  *)
(* as zeros, writes that change a region of one array and nothing else,    *)
(* reads that give what is there.  An operation outside the contract ends  *)
(* the trace and changes nothing.                                          *)
(***************************************************************************)
EXTENDS ChunkIndex

CONSTANTS
  Request,    (* the operations that may be asked for *)
  Legal       (* those whose arguments are in their domains, by themselves *)

VARIABLES
  groups,     (* the paths of groups, the root among them once it is made *)
  arrays,     (* by path: the dtype, the shape and the value at each index *)
  answer,     (* what the last operation returned *)
  status,     (* "running" or "failed" *)
  request     (* the last operation *)

contract == <<groups, arrays, answer, status, request>>

Nothing == <<>>
AncestorsOf(path) == {SubSeq(path, 1, n) : n \in 0 .. Len(path) - 1}

(* The node may be made: it is not there, and no array is above it. *)
Free(path) ==
  path \notin groups \cup DOMAIN arrays /\ AncestorsOf(path) \cap DOMAIN arrays = {}

Region(origin, shape) ==
  {[d \in DOMAIN shape |-> origin[d] + idx[d]] : idx \in Indices(shape)}

Within(array, origin, shape) ==
  /\ Len(origin) = Len(array.shape) /\ Len(shape) = Len(array.shape)
  /\ \A d \in DOMAIN shape : origin[d] >= 0 /\ shape[d] >= 1 /\ origin[d] + shape[d] <= array.shape[d]

(* Integers take integer tokens; floats any number. *)
Takes(dtype, form) == form = "integer" \/ (form = "point" /\ dtype = "float64")

(* A trace may start from a document an earlier one ended with. *)
Init ==
  /\ \A p \in groups \cup DOMAIN arrays : AncestorsOf(p) \subseteq groups
  /\ groups \cap DOMAIN arrays = {}
  /\ answer = Nothing /\ status = "running" /\ request = Nothing

CanCreate(r) == r.op = "create_array" /\ Free(r.path)

Create(r) ==
  /\ CanCreate(r)
  /\ groups' = groups \cup AncestorsOf(r.path)
  /\ arrays' = [p \in DOMAIN arrays \cup {r.path} |->
                 IF p = r.path
                 THEN [dtype |-> r.dtype, shape |-> r.shape, at |-> [i \in Indices(r.shape) |-> 0]]
                 ELSE arrays[p]]
  /\ answer' = Nothing /\ UNCHANGED status

CanWrite(r) ==
  /\ r.op = "write_region" /\ r.path \in DOMAIN arrays
  /\ Within(arrays[r.path], r.origin, r.shape)
  /\ Takes(arrays[r.path].dtype, r.form)

Write(r) ==
  /\ CanWrite(r)
  /\ arrays' = [arrays EXCEPT ![r.path].at =
                 [idx \in DOMAIN @ |->
                   IF idx \in Region(r.origin, r.shape)
                   THEN r.cells[Place([d \in DOMAIN idx |-> idx[d] - r.origin[d]], r.shape)]
                   ELSE @[idx]]]
  /\ answer' = Nothing /\ UNCHANGED <<groups, status>>

CanRead(r) ==
  /\ r.op = "read_region" /\ r.path \in DOMAIN arrays
  /\ Within(arrays[r.path], r.origin, r.shape)

Read(r) ==
  /\ CanRead(r)
  /\ answer' = [n \in 1 .. Product(r.shape) |->
                 LET local == Unravel(n - 1, r.shape)
                 IN  arrays[r.path].at[[d \in DOMAIN local |-> r.origin[d] + local[d]]]]
  /\ UNCHANGED <<groups, arrays, status>>

Fail(r) ==
  /\ r \notin Legal \/ ~(CanCreate(r) \/ CanWrite(r) \/ CanRead(r))
  /\ status' = "failed"
  /\ UNCHANGED <<groups, arrays, answer>>

Next ==
  \E r \in Request :
    /\ status = "running" /\ request' = r
    /\ Fail(r) \/ (r \in Legal /\ (Create(r) \/ Write(r) \/ Read(r)))

Spec == Init /\ [][Next]_contract

=============================================================================
