----------------------------- MODULE RustStore -----------------------------
(***************************************************************************)
(* The Rust store: ZarrInlineStore shared by threads, a document and a     *)
(* skip set each behind an RwLock of its own.  Every operation takes the   *)
(* lock of the document first and that of the skip set while it holds it.  *)
(*                                                                         *)
(* A thread is at one of these points of an operation, named for what it   *)
(* does once it has the lock it waits for:                                 *)
(*   "idle"                  between operations                            *)
(*   "insert", "remove",     waits to write the document                   *)
(*   "retain", "modify"                                                    *)
(*   "read"                  waits to read the document                    *)
(*   "answer", "patch"       holds the document, waits to read the skips   *)
(*   "store"                 holds the document, has encoded a member      *)
(*   "unskip"                has written the document and holds it, waits  *)
(*                           to write the skips                            *)
(***************************************************************************)
EXTENDS JsonDocument

CONSTANTS
  Bytes,            (* byte strings callers set *)
  Json,             (* JSON values callers set_json *)
  Patch,            (* partial writes: offsets with their values *)
  Overlay,          (* Overlay[b][p]: the bytes b with the patch p written over *)
  Empty,            (* the byte string of length zero *)
  Directory,        (* prefixes callers erase, as sequences of segments *)
  Thread,
  InitialDocument,
  MaxCalls          (* bound: the operations of a behaviour *)

ASSUME ConstantsAssumption ==
  /\ Empty \in ByteString
  /\ Bytes \subseteq ByteString
  /\ Json \subseteq Container \cup [kind : {"text", "scalar"}, of : Payload]
  /\ Overlay \in [ByteString -> [Patch -> ByteString]]
  /\ Directory \subseteq Seq(STRING)
  /\ InitialDocument \subseteq JsonObject
  /\ MaxCalls \in Nat

VARIABLES
  document,   (* what the RwLock<Document> guards *)
  skipped,    (* what the RwLock<HashSet<String>> guards *)
  threads,    (* thread -> where it is, with which arguments, holding what *)
  reply,      (* history: the operation that took effect last *)
  expected,   (* history: key -> its bytes, by the writes that took effect *)
  made        (* the operations begun *)

vars == <<document, skipped, threads, reply, expected, made>>

-----------------------------------------------------------------------------
(* Locks: many readers or one writer. *)

Holders(lock, modes) ==
  {t \in Thread : \E m \in modes : <<lock, m>> \in threads[t].holds}

DocumentRead  == <<"document", "read">>
DocumentWrite == <<"document", "write">>
SkippedRead   == <<"skipped", "read">>

CanRead(t, lock)  == Holders(lock, {"write"}) \subseteq {t}
CanWrite(t, lock) == Holders(lock, {"read", "write"}) \subseteq {t}

(* key is a directory for erase_prefix, data a patch for set_partial_many. *)
Idle == [at |-> "idle", key |-> <<"">>, data |-> Empty, clears |-> {}, holds |-> {}]

At(t, place) == threads[t].at = place

Goes(t, place, held) ==
  threads' = [threads EXCEPT ![t].at = place, ![t].holds = held]

(* On to clearing the skips of some keys, with the document written. *)
GoesToUnskip(t, keys) ==
  threads' = [threads EXCEPT ![t].at = "unskip", ![t].clears = keys,
                             ![t].holds = {DocumentWrite}]

Returns(t) == threads' = [threads EXCEPT ![t] = Idle]

Replies(op, key, ok, value) ==
  reply' = [op |-> op, key |-> key, ok |-> ok, value |-> value]

-----------------------------------------------------------------------------
(* The document.  With preserve_order, Map::remove moves the last member   *)
(* to the place of the removed one.                                        *)
SwapRemove(doc, key) ==
  LET last  == Len(doc.order)
      place == CHOOSE i \in 1 .. last : doc.order[i] = key
  IN  [at    |-> [doc.at EXCEPT ![key] = Missing],
       order |-> IF ~Has(doc, key) THEN doc.order
                 ELSE [i \in 1 .. last - 1 |->
                         doc.order[IF i = place THEN last ELSE i]]]

(* Map::retain of the keys outside a directory. *)
Retain(doc, dir) ==
  [at    |-> [k \in Key |-> IF InDirectory(dir, k) THEN Missing ELSE doc.at[k]],
   order |-> Only(doc.order, {k \in Key : ~InDirectory(dir, k)})]

-----------------------------------------------------------------------------
(* Calls: the checks before any lock. *)

Calls(t) == At(t, "idle") /\ made < MaxCalls /\ made' = made + 1

Begin(t, place, key, data) ==
  /\ threads' = [threads EXCEPT ![t].at = place, ![t].key = key, ![t].data = data]
  /\ UNCHANGED <<document, skipped, reply, expected>>

Refuse(op, key) ==
  /\ Replies(op, key, FALSE, NotFound)
  /\ UNCHANGED <<document, skipped, threads, expected>>

SetBytes(t, key, bytes) ==
  LET rejected == ~IsWellFormed(key) \/ EncodeValue(key, bytes) = CodecError
  IN  \/ rejected /\ Refuse("set", key)
      \/ ~rejected /\ Begin(t, "insert", key, bytes)

Set(t, key, bytes) == Calls(t) /\ SetBytes(t, key, bytes)

SetJson(t, key, json) ==
  /\ Calls(t)
  /\ \/ ~FitsKey(key, json) /\ Refuse("set", key)
     \/ FitsKey(key, json) /\ SetBytes(t, key, Canonical(json))

(* Mutant: the key of a partial write is not checked. *)
SetPartialManyAnyKey(t, key, patch) == Calls(t) /\ Begin(t, "modify", key, patch)

SetPartialMany(t, key, patch) ==
  /\ Calls(t)
  /\ \/ ~IsWellFormed(key) /\ Refuse("set", key)
     \/ IsWellFormed(key) /\ Begin(t, "modify", key, patch)

Erase(t, key) == Calls(t) /\ Begin(t, "remove", key, Empty)

ErasePrefix(t, dir) == Calls(t) /\ Begin(t, "retain", dir, Empty)

Get(t, key) == Calls(t) /\ Begin(t, "read", key, Empty)

-----------------------------------------------------------------------------
(* Steps under the locks: writes. *)

Insert(t) ==
  LET key == threads[t].key
  IN  /\ At(t, "insert") /\ CanWrite(t, "document")
      /\ document' = Put(document, key, EncodeValue(key, threads[t].data))
      /\ Replies("set", key, TRUE, threads[t].data)
      /\ expected' = [expected EXCEPT ![key] = Normal(key, threads[t].data)]
      /\ GoesToUnskip(t, {key})
      /\ UNCHANGED <<skipped, made>>

RemoveMember(t) ==
  LET key == threads[t].key
  IN  /\ At(t, "remove") /\ CanWrite(t, "document")
      /\ document' = SwapRemove(document, key)
      /\ Replies("delete", key, TRUE, NotFound)
      /\ expected' = [expected EXCEPT ![key] = NotFound]
      /\ GoesToUnskip(t, {key})
      /\ UNCHANGED <<skipped, made>>

RetainMembers(t) ==
  LET inside == {k \in Key : InDirectory(threads[t].key, k)}
  IN  /\ At(t, "retain") /\ CanWrite(t, "document")
      /\ document' = Retain(document, threads[t].key)
      /\ Replies("erase_prefix", threads[t].key, TRUE, NotFound)
      /\ expected' = [k \in Key |-> IF k \in inside THEN NotFound ELSE expected[k]]
      /\ GoesToUnskip(t, inside)
      /\ UNCHANGED <<skipped, made>>

(* Mutant: the skips of the erased keys are left. *)
UnskipNothing(t) ==
  /\ At(t, "unskip") /\ CanWrite(t, "skipped")
  /\ Returns(t)
  /\ UNCHANGED <<document, skipped, reply, expected, made>>

Unskip(t) ==
  /\ At(t, "unskip") /\ CanWrite(t, "skipped")
  /\ skipped' = skipped \ threads[t].clears
  /\ Returns(t)
  /\ UNCHANGED <<document, reply, expected, made>>

-----------------------------------------------------------------------------
(* Partial writes: read, modify and write under one lock of the document.  *)

Present(key) == Has(document, key) /\ key \notin skipped

(* What is there, of which a patch overwrites a part. *)
Base(key) == IF Present(key) THEN DecodeValue(key, document.at[key]) ELSE Empty

(* Mutant: the lock is released before the value is modified. *)
LockToModifyReleasing(t) ==
  /\ At(t, "modify") /\ CanWrite(t, "document")
  /\ Goes(t, "patch", {})
  /\ UNCHANGED <<document, skipped, reply, expected, made>>

LockToModify(t) ==
  /\ At(t, "modify") /\ CanWrite(t, "document")
  /\ Goes(t, "patch", {DocumentWrite})
  /\ UNCHANGED <<document, skipped, reply, expected, made>>

PatchBytes(t) ==
  LET key    == threads[t].key
      bytes  == Overlay[Base(key)][threads[t].data]
      member == IF Base(key) = Unreadable THEN CodecError ELSE EncodeValue(key, bytes)
  IN  /\ At(t, "patch") /\ CanRead(t, "skipped")
      /\ \/ /\ member = CodecError
            /\ Replies("set", key, FALSE, NotFound)
            /\ Returns(t)
            /\ UNCHANGED expected
         \/ /\ member # CodecError
            /\ threads' = [threads EXCEPT ![t].at = "store", ![t].data = bytes]
            /\ expected' = [expected EXCEPT ![key] =
                 Normal(key, Overlay[IF @ = NotFound THEN Empty ELSE @][threads[t].data])]
            /\ UNCHANGED reply
      /\ UNCHANGED <<document, skipped, made>>

Store(t) ==
  LET key == threads[t].key
  IN  /\ At(t, "store") /\ CanWrite(t, "document")
      /\ document' = Put(document, key, EncodeValue(key, threads[t].data))
      /\ Replies("set", key, TRUE, threads[t].data)
      /\ GoesToUnskip(t, {key})
      /\ UNCHANGED <<skipped, expected, made>>

-----------------------------------------------------------------------------
(* Reads. *)

(* Mutant: the skip set is locked before the document. *)
LockForReadSkippedFirst(t) ==
  /\ At(t, "read") /\ CanRead(t, "skipped")
  /\ Goes(t, "answer", {SkippedRead})
  /\ UNCHANGED <<document, skipped, reply, expected, made>>

LockForRead(t) ==
  /\ At(t, "read") /\ CanRead(t, "document")
  /\ Goes(t, "answer", {DocumentRead})
  /\ UNCHANGED <<document, skipped, reply, expected, made>>

Answer(t) ==
  LET key   == threads[t].key
      found == IF Present(key) THEN DecodeValue(key, document.at[key]) ELSE NotFound
  IN  /\ At(t, "answer") /\ CanRead(t, "document") /\ CanRead(t, "skipped")
      /\ Replies("get", key, found # Unreadable, found)
      /\ Returns(t)
      /\ UNCHANGED <<document, skipped, expected, made>>

-----------------------------------------------------------------------------
(* from_document_lenient; from_document is the case of no issues. *)
Init ==
  /\ document \in InitialDocument
  /\ skipped = IssueKeys(document)
  /\ threads = [t \in Thread |-> Idle]
  /\ reply = [op |-> "none"]
  /\ expected = ContentOf(document, skipped)
  /\ made = 0

Step(t) ==
  \/ Insert(t) \/ RemoveMember(t) \/ RetainMembers(t) \/ Unskip(t)
  \/ LockToModify(t) \/ PatchBytes(t) \/ Store(t)
  \/ LockForRead(t) \/ Answer(t)

Next ==
  \E t \in Thread :
    \/ \E k \in Key, b \in Bytes : Set(t, k, b)
    \/ \E k \in Key, j \in Json : SetJson(t, k, j)
    \/ \E k \in Key, p \in Patch : SetPartialMany(t, k, p)
    \/ \E k \in Key : Erase(t, k)
    \/ \E d \in Directory : ErasePrefix(t, d)
    \/ \E k \in Key : Get(t, k)
    \/ Step(t)

Spec == Init /\ [][Next]_vars

-----------------------------------------------------------------------------
(* Every variable has its type. *)
TypeOK ==
  /\ document \in JsonObject
  /\ skipped \subseteq Key
  /\ made \in 0 .. MaxCalls
  /\ expected \in [Key -> ByteString \cup {NotFound, Unreadable}]
  /\ \A t \in Thread :
       /\ threads[t].at \in {"idle", "insert", "remove", "retain", "modify", "patch", "store",
                             "read", "answer", "unskip"}
       /\ threads[t].key \in Key \cup Directory \cup {<<"">>}
       /\ threads[t].data \in ByteString \cup Patch
       /\ threads[t].clears \subseteq Key
       /\ threads[t].holds \subseteq {"document", "skipped"} \X {"read", "write"}

(***************************************************************************)
(* Whatever threads do, the skip set holds exactly the keys that           *)
(* validating the document would report, apart from those a writer, which  *)
(* still holds the document, is about to clear.                            *)
(***************************************************************************)
BeingCleared == UNION {threads[t].clears : t \in Thread}

SkipExact == skipped \ BeingCleared = IssueKeys(document)

(***************************************************************************)
(* No write is lost: what the store holds is what the writes that took     *)
(* effect give when applied one after the other, partial writes of two     *)
(* threads to one key included.                                            *)
(***************************************************************************)
Contents == ContentOf(document, skipped \ BeingCleared)

NoLostUpdate ==
  \A k \in Key : (\A t \in Thread : ~(At(t, "store") /\ threads[t].key = k))
                => Contents[k] = expected[k]

(***************************************************************************)
(* The threads never all wait for one another: with an operation under     *)
(* way, some thread has the lock it needs.                                 *)
(***************************************************************************)
NoDeadlock == (\A t \in Thread : At(t, "idle")) \/ ENABLED \E t \in Thread : Step(t)

(***************************************************************************)
(* The store is a byte store, whichever way its threads interleave.        *)
(***************************************************************************)
Abstract == INSTANCE ByteStore WITH
  Bytes <- ByteString, contents <- Contents, kept <- Contents, Fragile <- FALSE

ImplementsByteStore == Abstract!Spec

-----------------------------------------------------------------------------
(***************************************************************************)
(* What the documentation says and the code does not do: "serde_json::Map  *)
(* preserves member order", so that no operation reorders the members it   *)
(* leaves in the document.                                                 *)
(***************************************************************************)
Before(doc, j, k) ==
  \E i, l \in DOMAIN doc.order : i < l /\ doc.order[i] = j /\ doc.order[l] = k

MemberOrderPreserved ==
  [][\A j, k \in Key :
       Before(document, j, k) /\ Has(document', j) /\ Has(document', k)
       => Before(document', j, k)]_vars

=============================================================================
