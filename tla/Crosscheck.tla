----------------------------- MODULE Crosscheck -----------------------------
(***************************************************************************)
(* The crosscheck harness of TypeScript runs a trace over a document: it   *)
(* makes groups and arrays, and writes and reads regions through zarrita   *)
(* and the json codec.  The document has the metadata of nodes and the     *)
(* chunks of arrays; a chunk nobody wrote is not there.  zarrita is        *)
(* external: create writes a metadata member; set reads the chunks a       *)
(* region meets, replaces the part inside and writes them back whole; get  *)
(* fills in for chunks that are not there.                                 *)
(***************************************************************************)
EXTENDS ChunkIndex

CONSTANTS
  Request,        (* the operations asked for *)
  Initial,        (* the documents a trace starts from: sets of nodes *)
  MaxDimension,   (* 2^53 - 1 *)
  ZeroFill,       (* the portable dtypes *)
  Legal,          (* the operations inside the input contract (ArrayTrace) *)
  MaxOps          (* bound: operations of a trace *)

VARIABLES
  nodes,      (* metadata by path: node type, dtype, shape, chunk shape *)
  chunks,     (* elements by path and place in the grid *)
  answer, status,
  request,    (* history: the operation last run *)
  count       (* how many were run *)

vars == <<nodes, chunks, answer, status, request, count>>

Nothing == <<>>

-----------------------------------------------------------------------------
(* The input contract. *)

(* portablePath: no empty, reserved or all-period segment. *)
PortablePath(path) ==
  path # <<"">> /\ \A i \in DOMAIN path : path[i] \notin {"", "__x", ".", "..", "..."}

IntList(list, least) == \A i \in DOMAIN list : list[i] \in least .. MaxDimension

(* shardShapes: each divides into the one before it. *)
ShardShapes(shards, leaf) ==
  \A level \in DOMAIN shards :
    LET inner == IF level = 1 THEN leaf ELSE shards[level - 1]
    IN  /\ IntList(shards[level], 1)
        /\ Len(shards[level]) = Len(inner)
        /\ \A d \in DOMAIN inner : shards[level][d] % inner[d] = 0

(* region *)
InRegion(array, r) ==
  /\ IntList(r.origin, 0) /\ IntList(r.shape, 1)
  /\ Len(r.origin) = Len(array.shape) /\ Len(r.shape) = Len(array.shape)
  /\ \A d \in DOMAIN r.shape :
       r.origin[d] <= array.shape[d] /\ r.shape[d] <= array.shape[d] - r.origin[d]

(* What the contract asks of the arguments of an operation by themselves:  *)
(* a shard is refused because zarrita cannot write one.                    *)
Lawful(r) ==
  /\ PortablePath(r.path)
  /\ IF r.op = "create_array"
     THEN /\ r.dtype \in ZeroFill
          /\ IntList(r.shape, 0) /\ IntList(r.chunks, 1)
          /\ ShardShapes(r.shards, r.chunks) /\ r.shards = <<>>
     ELSE IntList(r.origin, 0) /\ IntList(r.shape, 1)

(* Operations are as JSON gives them.  The contract does not speak of      *)
(* chunks of another rank than the array: none are asked for.              *)
ASSUME RequestAssumption ==
  /\ MaxDimension \in Nat
  /\ \A r \in Request :
       /\ r.path \in Seq(STRING) /\ r.shape \in Seq(Int)
       /\ IF r.op = "create_array"
          THEN r.chunks \in Seq(Int) /\ Len(r.chunks) = Len(r.shape)
          ELSE r.op \in {"write_region", "read_region"} /\ r.origin \in Seq(Int)

ASSUME LegalAssumption == \A r \in Request : r \in Legal <=> Lawful(r)

(* How the elements of a payload arrive: an integer token as a bigint, 1.0 *)
(* as a number.                                                            *)
Parsed(form) == CASE form = "integer" -> "bigint" [] form = "point" -> "number" [] OTHER -> "other"

(* payloadStringify: a number becomes a float token again, 1 as 1.0. *)
PayloadStringify(value) ==
  CASE value = "bigint" -> "integer" [] value = "number" -> "point" [] OTHER -> "ragged"

(* toNative: what the codec's decoder takes (Codec). *)
Decodes(form, dtype) ==
  CASE form = "integer" -> TRUE [] form = "point" -> dtype = "float64" [] OTHER -> FALSE

-----------------------------------------------------------------------------
(* Nodes. *)

Group == [type |-> "group", dtype |-> "none", shape |-> <<>>, chunk |-> <<>>]
Has(path) == path \in DOMAIN nodes

(* The root and the ancestors of a path. *)
Above(path) == {SubSeq(path, 1, n) : n \in 0 .. Len(path) - 1}

(* The metadata of a node; other groups and arrays there are not. *)
IsNode(node) ==
  \/ node.type = "group"
  \/ /\ node.type = "array"
     /\ node.shape \in Seq(0 .. MaxDimension) /\ node.chunk \in Seq(1 .. MaxDimension)
     /\ Len(node.chunk) = Len(node.shape)

(* A trace starts from a document of nodes below groups. *)
ASSUME InitialAssumption ==
  \A doc \in Initial : \A p \in DOMAIN doc :
    IsNode(doc[p]) /\ \A a \in Above(p) : a \in DOMAIN doc /\ doc[a].type = "group"

(* Mutant: only the parent is looked at. *)
RefusesNear(path) == Has(path) \/ (Has(Front(path)) /\ nodes[Front(path)].type # "group")

(* ensureParents refuses an ancestor that is not a group, and a node that  *)
(* exists; a trace it refuses ends, so what it made before does not count. *)
Refuses(path) == Has(path) \/ \E p \in Above(path) : Has(p) /\ nodes[p].type # "group"

(* It makes the ancestors that are missing. *)
EnsureParents(path) ==
  [p \in DOMAIN nodes \cup Above(path) |-> IF Has(p) THEN nodes[p] ELSE Group]

(* createArray: the document's nodes afterwards. *)
CreateArray(r) ==
  [p \in DOMAIN EnsureParents(r.path) \cup {r.path} |->
    IF p = r.path
    THEN [type |-> "array", dtype |-> r.dtype, shape |-> r.shape, chunk |-> r.chunks]
    ELSE EnsureParents(r.path)[p]]

-----------------------------------------------------------------------------
(* zarrita's regions (external). *)

ChunkAt(array, idx) == [d \in DOMAIN idx |-> idx[d] \div array.chunk[d]]
Local(array, idx)  == [d \in DOMAIN idx |-> idx[d] % array.chunk[d]]

(* The element at an index, zero where there is no chunk. *)
Element(path, idx) ==
  LET array == nodes[path]  at == <<path, ChunkAt(array, idx)>>
  IN  IF at \in DOMAIN chunks THEN chunks[at][Place(Local(array, idx), array.chunk)] ELSE 0

Covered(r) == {[d \in DOMAIN r.shape |-> r.origin[d] + i[d]] : i \in Indices(r.shape)}

(* setRegion: the chunks afterwards. *)
SetRegion(path, r) ==
  LET array == nodes[path]
      met   == {<<path, ChunkAt(array, idx)>> : idx \in Covered(r)}
      written(at, n) ==
        LET local == Unravel(n - 1, array.chunk)
            idx   == [d \in DOMAIN local |-> at[2][d] * array.chunk[d] + local[d]]
        IN  IF idx \in Covered(r)
            THEN r.cells[Place([d \in DOMAIN idx |-> idx[d] - r.origin[d]], r.shape)]
            ELSE Element(path, idx)
  IN  [at \in met \cup DOMAIN chunks |->
        IF at \in met THEN [n \in 1 .. Product(array.chunk) |-> written(at, n)] ELSE chunks[at]]

(* getRegion *)
GetRegion(path, r) ==
  [n \in 1 .. Product(r.shape) |->
    LET local == Unravel(n - 1, r.shape)
    IN  Element(path, [d \in DOMAIN local |-> r.origin[d] + local[d]])]

-----------------------------------------------------------------------------
(* trace. *)

Init ==
  /\ nodes \in Initial /\ chunks = <<>>
  /\ answer = Nothing /\ status = "running" /\ request = Nothing /\ count = 0

Ask(r) ==
  /\ status = "running" /\ count < MaxOps
  /\ count' = count + 1 /\ request' = r

CanCreate(r) ==
  /\ r.op = "create_array"
  /\ PortablePath(r.path) /\ r.dtype \in ZeroFill
  /\ IntList(r.shape, 0) /\ IntList(r.chunks, 1)
  /\ ShardShapes(r.shards, r.chunks) /\ r.shards = <<>>
  /\ ~Refuses(r.path)

Create(r) ==
  /\ Ask(r) /\ CanCreate(r)
  /\ nodes' = CreateArray(r) /\ answer' = Nothing
  /\ UNCHANGED <<chunks, status>>

(* zarr.open of an array, and the region of it. *)
Opens(r) ==
  /\ PortablePath(r.path) /\ Has(r.path) /\ nodes[r.path].type = "array"
  /\ InRegion(nodes[r.path], r)

CanWrite(r) ==
  /\ r.op = "write_region" /\ Opens(r)
  /\ Decodes(PayloadStringify(Parsed(r.form)), nodes[r.path].dtype)

Write(r) ==
  /\ Ask(r) /\ CanWrite(r)
  /\ chunks' = SetRegion(r.path, r) /\ answer' = Nothing
  /\ UNCHANGED <<nodes, status>>

CanRead(r) == r.op = "read_region" /\ Opens(r)

Read(r) ==
  /\ Ask(r) /\ CanRead(r)
  /\ answer' = GetRegion(r.path, r)
  /\ UNCHANGED <<nodes, chunks, status>>

(* Anything else throws; main reports it and prints no document. *)
Fail(r) ==
  /\ Ask(r) /\ ~CanCreate(r) /\ ~CanWrite(r) /\ ~CanRead(r)
  /\ status' = "failed"
  /\ UNCHANGED <<nodes, chunks, answer>>

Next == \E r \in Request : Create(r) \/ Write(r) \/ Read(r) \/ Fail(r)

Spec == Init /\ [][Next]_vars

-----------------------------------------------------------------------------
(* Properties. *)

Paths(type) == {p \in DOMAIN nodes : nodes[p].type = type}

Arrays ==
  [p \in Paths("array") |->
    [dtype |-> nodes[p].dtype, shape |-> nodes[p].shape,
     at |-> [idx \in Indices(nodes[p].shape) |-> Element(p, idx)]]]

(* The trace keeps the contract of ArrayTrace: its arrays are what the     *)
(* chunks make up, and it fails when the contract says so and only then.   *)
Contract == INSTANCE ArrayTrace WITH groups <- Paths("group"), arrays <- Arrays

KeepsContract == Contract!Spec

=============================================================================
