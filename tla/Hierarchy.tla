----------------------------- MODULE Hierarchy -----------------------------
(***************************************************************************)
(* The tree of groups and arrays the document browser draws of a document: *)
(* one pass over the metadata keys makes the nodes, a second hands every   *)
(* other key to a node.  The order in which a pass meets the keys is the   *)
(* order of the document's members, which is arbitrary.                    *)
(*                                                                         *)
(* The path of a node is a sequence of segments, as a key is; the empty    *)
(* path string is <<>>.                                                    *)
(***************************************************************************)
EXTENDS StoreKeys, SequencesExt, FiniteSetsExt

CONSTANT Key

ASSUME TreeKeyAssumption == \A key \in Key : key \in Seq(STRING) /\ key # <<>>

NoKey == <<>>
Meaning == {"array", "group", "neither"}  (* what a metadata object says it is *)

VARIABLES
  document,  (* what each metadata key says; any other key says "data" *)
  nodes,     (* byPath *)
  todo       (* the keys still to be visited *)

treeVars == <<document, nodes, todo>>

MetaKeys == {k \in DOMAIN document : IsMetadataKey(k)}
DataKeys == DOMAIN document \ MetaKeys

(* The empty string is one path, however it came about. *)
AsPath(segments) == IF segments = <<"">> THEN <<>> ELSE segments

Metadata(key) == AsPath(Front(key))      (* the path a metadata key describes *)
Parent(path)  == AsPath(Front(path))
Ancestors(path) == {AsPath(SubSeq(path, 1, n)) : n \in 0 .. Len(path)}

NewNode == [kind |-> "implicit", metaKey |-> NoKey, children |-> <<>>, dataKeys |-> {}]

(* ensure: the node and the ancestors it lacks, each a child of the next. *)
Ensure(map, path) ==
  LET added == Ancestors(path) \ DOMAIN map
      below(p) == {q \in added : q # <<>> /\ Parent(q) = p}
      withChildren(node, p) == [node EXCEPT !.children = @ \o SetToSeq(below(p))]
  IN  [p \in DOMAIN map \cup added |->
        withChildren(IF p \in DOMAIN map THEN map[p] ELSE NewNode, p)]

TreeInit ==
  /\ \E present \in SUBSET Key :
       /\ document \in [present -> Meaning \cup {"data"}]
       /\ \A k \in present : document[k] = "data" <=> ~IsMetadataKey(k)
  /\ nodes = Ensure(<<>>, <<>>)
  /\ todo = DOMAIN document

(* First pass: one metadata key. *)
AddNode(key) ==
  /\ key \in todo /\ IsMetadataKey(key)
  /\ nodes' = [Ensure(nodes, Metadata(key)) EXCEPT
                 ![Metadata(key)].metaKey = key,
                 ![Metadata(key)].kind = IF document[key] = "neither" THEN "implicit" ELSE document[key]]
  /\ todo' = todo \ {key}
  /\ UNCHANGED document

(* The path string made of the first segments of a key. *)
Prefix(key, n) ==
  LET start == SelectInSubSeq(key, 1, n, LAMBDA s : s # "")
  IN  IF start = 0 THEN <<>> ELSE SubSeq(key, start, n)

(* Mutant: the nearest node, with metadata or not. *)
OwnerNearest(key) ==
  LET known == {n \in 0 .. Len(key) - 1 : Prefix(key, n) \in DOMAIN nodes}
  IN  Prefix(key, Max(known))

Owner(key) ==
  LET described == {n \in 1 .. Len(key) - 1 :
                      /\ Prefix(key, n) \in DOMAIN nodes
                      /\ nodes[Prefix(key, n)].metaKey # NoKey}
  IN  IF described = {} THEN <<>> ELSE Prefix(key, Max(described))

(* Second pass, over every key that is not metadata. *)
AddData(key) ==
  /\ todo \cap MetaKeys = {}
  /\ key \in todo
  /\ nodes' = [nodes EXCEPT ![Owner(key)].dataKeys = @ \cup {key}]
  /\ todo' = todo \ {key}
  /\ UNCHANGED document

TreeNext == \E key \in Key : AddNode(key) \/ AddData(key)

TreeSpec == TreeInit /\ [][TreeNext]_treeVars

-----------------------------------------------------------------------------
(* What the tree shows of the document. *)

Built == todo = {}

(* Every node made is one of the nodes it may be, with known children. *)
TreeTypeOK ==
  /\ todo \subseteq DOMAIN document
  /\ \A p \in DOMAIN nodes :
       /\ nodes[p].kind \in {"array", "group", "implicit"}
       /\ nodes[p].dataKeys \subseteq DataKeys
       /\ ToSet(nodes[p].children) \subseteq DOMAIN nodes \ {<<>>}

(* The tree reaches every node from the root, by one way: every node but   *)
(* the root is a child of its parent and of no other, and only once.       *)
OneTree ==
  \A q \in DOMAIN nodes \ {<<>>} : \A p \in DOMAIN nodes :
    Cardinality({i \in DOMAIN nodes[p].children : nodes[p].children[i] = q})
      = IF p = Parent(q) THEN 1 ELSE 0

(* Every key of the document is shown in one place of the tree: a metadata *)
(* key as what describes a node, another among the data of one node.       *)
ShownOnce(k) ==
  Quantify(DOMAIN nodes, LAMBDA p : nodes[p].metaKey = k \/ k \in nodes[p].dataKeys) = 1

(* The directory a metadata key of the document describes. *)
Described == {Front(k) : k \in MetaKeys}

(* What model.ts says above the second pass: a key belongs to the deepest  *)
(* of its ancestors that has a metadata key, and to the root if none has.  *)
Deepest(k) ==
  LET above == {n \in 1 .. Len(k) - 1 : SubSeq(k, 1, n) \in Described}
  IN  IF above = {} THEN <<>> ELSE AsPath(SubSeq(k, 1, Max(above)))

(* A document whose keys R1 accepts. *)
KeysWellFormed == \A k \in DOMAIN document : IsWellFormed(k)

(* The user who walks the tree from its root meets every key once, and the *)
(* data keys where they belong, whichever order the two passes took.       *)
EveryKeyInPlace ==
  Built /\ KeysWellFormed =>
    /\ OneTree
    /\ \A k \in DOMAIN document : ShownOnce(k)
    /\ \A k \in DataKeys : k \in nodes[Deepest(k)].dataKeys

=============================================================================
