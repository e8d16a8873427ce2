------------------------------ MODULE PyStore ------------------------------
(***************************************************************************)
(* The Python store: ZarrInlineStore over a Backing.                       *)
(*                                                                         *)
(* One store is constructed over the backing, and with_read_only makes     *)
(* further store objects ("views") that share its dict and its skip set.   *)
(* No critical section of the store awaits anything, so on its event loop  *)
(* every method runs from call to return without interruption: one action  *)
(* per method, whose disjuncts are the method's outcomes.  What may come   *)
(* between two methods is an error of the backing, the end of the process, *)
(* and a process that dies while persist writes the file.                  *)
(***************************************************************************)
EXTENDS JsonDocument

CONSTANTS
  Bytes,            (* byte strings callers set *)
  Json,             (* JSON values callers set_json *)
  View,             (* store objects *)
  Kind,             (* the kinds of backing: subset of BackingKind *)
  InitialDocument   (* documents the backing may hold at first *)

BackingKind == {"memory", "string", "file"}

ASSUME ConstantsAssumption ==
  /\ Bytes \subseteq ByteString
  /\ Json \subseteq Container \cup [kind : {"text", "scalar"}, of : Payload]
  /\ Kind \subseteq BackingKind
  /\ InitialDocument \subseteq JsonObject

VARIABLES
  backing,    (* its kind, and the document its load would return, or Torn; *)
              (* history: whether the last persist of an open store raised  *)
  document,   (* ZarrInlineStore._document *)
  skipped,    (* ZarrInlineStore._skipped *)
  views,      (* view -> "closed", "writable" or "read only" *)
  reply       (* the last call and its outcome, as its caller sees it *)

vars == <<backing, document, skipped, views, reply>>

-----------------------------------------------------------------------------
(* The store. *)

Live == \E v \in View : views[v] # "closed"

Present(key) == Has(document, key) /\ key \notin skipped

Return(op, key, value) ==
  reply' = [op |-> op, key |-> key, ok |-> TRUE, value |-> value]

Raise(op, key) ==
  reply' = [op |-> op, key |-> key, ok |-> FALSE, value |-> NotFound]

Fail(op, key) == Raise(op, key) /\ UNCHANGED <<backing, document, skipped, views>>

NoKey == <<"">>   (* the key of a reply that concerns no key *)

(* Mutant: persists what readers see, so skipped members are dropped. *)
PersistShown(doc) ==
  {[ok |-> TRUE,
    holds |-> [at    |-> [k \in Key |-> IF k \in skipped THEN Missing ELSE doc.at[k]],
               order |-> Only(doc.order, Key \ skipped)]]}

(***************************************************************************)
(* persist(doc): whether it returns, and what load would return after it.  *)
(* Memory and string backings replace what they hold.  The file backing    *)
(* may fail before it opens the file, which leaves it as it was; opening   *)
(* truncates it, and a write that fails after that, because the disk is    *)
(* full or because the text has a lone surrogate and no UTF-8 form, leaves *)
(* no document at all; and closing it may fail, with the whole text in it. *)
(***************************************************************************)
Replace(doc) == {[ok |-> TRUE, holds |-> doc]}

WriteFile(doc) ==
  {[ok |-> FALSE, holds |-> backing.holds], [ok |-> FALSE, holds |-> Torn]}
    \cup (IF HasSurrogate(doc) THEN {} ELSE [ok : BOOLEAN, holds : {doc}])

Persist(doc) == IF backing.kind = "file" THEN WriteFile(doc) ELSE Replace(doc)

(* Mutant: the skip is discarded before persist has succeeded. *)
MutateDiscardingFirst(op, key, given, mutated, undone) ==
  \E result \in Persist(mutated) :
    /\ backing' = [backing EXCEPT !.holds = result.holds, !.failed = ~result.ok]
    /\ document' = IF result.ok THEN mutated ELSE undone
    /\ skipped' = skipped \ {key}
    /\ IF result.ok THEN Return(op, key, given) ELSE Raise(op, key)
    /\ UNCHANGED views

(* The locked part of set and delete: mutate, persist, undo if it raises. *)
Mutate(op, key, given, mutated, undone) ==
  \E result \in Persist(mutated) :
    /\ backing' = [backing EXCEPT !.holds = result.holds, !.failed = ~result.ok]
    /\ \/ /\ result.ok
          /\ document' = mutated
          /\ skipped' = skipped \ {key}
          /\ Return(op, key, given)
       \/ /\ ~result.ok
          /\ document' = undone
          /\ UNCHANGED skipped
          /\ Raise(op, key)
    /\ UNCHANGED views

(* load() parses what the backing holds. *)
Parses == backing.holds # Torn

(* load and validation, which strict mode raises the issues of. *)
Loads(strict) == Parses /\ (strict => IssueKeys(backing.holds) = {})

Open(view, mode, strict) ==
  /\ ~Live
  /\ \/ ~Loads(strict) /\ Fail("open", NoKey)
     \/ /\ Loads(strict)
        /\ document' = backing.holds
        /\ skipped' = IssueKeys(backing.holds)
        /\ views' = [views EXCEPT ![view] = mode]
        /\ Return("open", NoKey, NotFound)
        /\ UNCHANGED backing

(* with_read_only constructs a store, so it loads and validates once more, *)
(* then discards what it loaded for the dict and skip set of the first.    *)
WithReadOnly(view, new, mode) ==
  /\ views[view] # "closed"
  /\ views[new] = "closed"
  /\ \/ ~Loads(FALSE) /\ Fail("with_read_only", NoKey)
     \/ /\ Loads(FALSE)
        /\ views' = [views EXCEPT ![new] = mode]
        /\ Return("with_read_only", NoKey, NotFound)
        /\ UNCHANGED <<backing, document, skipped>>

(* Mutants: the check of the key, or of what encode_value says, is lost. *)
RejectsAnyEncodable(view, key, bytes) ==
  views[view] = "read only" \/ EncodeValue(key, bytes) = CodecError

RejectsOnlyKeys(view, key, bytes) ==
  views[view] = "read only" \/ ~IsWellFormed(key)

(* _check_writable, the R1 check and encode_value, all before any change. *)
Rejects(view, key, bytes) ==
  \/ views[view] = "read only"
  \/ ~IsWellFormed(key)
  \/ EncodeValue(key, bytes) = CodecError

SetBytes(view, key, bytes) ==
  \/ Rejects(view, key, bytes) /\ Fail("set", key)
  \/ /\ ~Rejects(view, key, bytes)
     /\ LET written == Put(document, key, EncodeValue(key, bytes))
        IN  Mutate("set", key, bytes, written, Restore(written, key, document.at[key]))

Set(view, key, bytes) ==
  /\ views[view] # "closed"
  /\ SetBytes(view, key, bytes)

SetJson(view, key, json) ==
  /\ views[view] # "closed"
  /\ \/ ~FitsKey(key, json) /\ Fail("set", key)
     \/ FitsKey(key, json) /\ SetBytes(view, key, Canonical(json))

Delete(view, key) ==
  \/ views[view] = "read only" /\ Fail("delete", key)
  \/ /\ views[view] = "writable"
     /\ LET popped == Pop(document, key)
        IN  Mutate("delete", key, NotFound, popped, Restore(popped, key, document.at[key]))

Get(view, key) ==
  LET found == IF Present(key) THEN DecodeValue(key, document.at[key]) ELSE NotFound
  IN  /\ views[view] # "closed"
      /\ reply' = [op |-> "get", key |-> key, ok |-> found # Unreadable, value |-> found]
      /\ UNCHANGED <<backing, document, skipped, views>>

Exists(view, key) ==
  /\ views[view] # "closed"
  /\ reply' = [op |-> "exists", key |-> key, ok |-> Present(key), value |-> NotFound]
  /\ UNCHANGED <<backing, document, skipped, views>>

(* The process drops the store; what the backing holds is all that stays. *)
Close ==
  /\ Live
  /\ backing' = [backing EXCEPT !.failed = FALSE]
  /\ views' = [v \in View |-> "closed"]
  /\ Return("close", NoKey, NotFound)
  /\ UNCHANGED <<document, skipped>>

(* The process dies inside persist, after the file was truncated. *)
CrashWhileWriting ==
  /\ \E v \in View : views[v] = "writable"
  /\ backing.kind = "file"
  /\ backing' = [backing EXCEPT !.holds = Torn, !.failed = FALSE]
  /\ views' = [v \in View |-> "closed"]
  /\ Return("close", NoKey, NotFound)
  /\ UNCHANGED <<document, skipped>>

-----------------------------------------------------------------------------
Init ==
  /\ backing \in [kind : Kind, holds : InitialDocument, failed : {FALSE}]
  /\ document = backing.holds
  /\ skipped = {}
  /\ views = [v \in View |-> "closed"]
  /\ reply = [op |-> "close", key |-> NoKey, ok |-> TRUE, value |-> NotFound]

Modes == {"writable", "read only"}

Next ==
  \/ \E v \in View, mode \in Modes, strict \in BOOLEAN : Open(v, mode, strict)
  \/ \E v, w \in View, mode \in Modes : WithReadOnly(v, w, mode)
  \/ \E v \in View, k \in Key, b \in Bytes : Set(v, k, b)
  \/ \E v \in View, k \in Key, j \in Json : SetJson(v, k, j)
  \/ \E v \in View, k \in Key : Delete(v, k)
  \/ \E v \in View, k \in Key : Get(v, k)
  \/ \E v \in View, k \in Key : Exists(v, k)
  \/ Close
  \/ CrashWhileWriting

Spec == Init /\ [][Next]_vars

-----------------------------------------------------------------------------
(* Every variable has its type. *)
TypeOK ==
  /\ backing \in [kind : Kind, holds : JsonObject \cup {Torn}, failed : BOOLEAN]
  /\ document \in JsonObject
  /\ skipped \subseteq Key
  /\ views \in [View -> {"closed", "writable", "read only"}]
  /\ reply \in [op : {"open", "close", "with_read_only", "set", "delete", "get", "exists"},
                key : Key \cup {NoKey}, ok : BOOLEAN,
                value : ByteString \cup {NotFound, Unreadable}]

(***************************************************************************)
(* The skip set is computed once, at construction, and then maintained by  *)
(* set and delete.  At every moment it is exactly what validating the      *)
(* current document would give: no valid member is ever hidden from        *)
(* readers and no invalid one is ever shown, so reopening changes nothing. *)
(***************************************************************************)
SkipExact == Live => skipped = IssueKeys(document)

(***************************************************************************)
(* Whatever failed in between, while a store is open the backing holds the *)
(* members the store shows.  Only a file whose last persist raised may be  *)
(* behind or ahead, by the one member of that call, or hold nothing that   *)
(* parses; the next persist that succeeds repairs it.                      *)
(***************************************************************************)
ButForOneMember(f, g) == \E k \in Key : \A j \in Key \ {k} : f[j] = g[j]

DurableInSync ==
  Live => \/ backing.kind = "file" /\ backing.failed
             /\ (Parses => ButForOneMember(backing.holds.at, document.at))
          \/ Parses /\ backing.holds.at = document.at

(***************************************************************************)
(* SPEC 8.2: a set that raises leaves the document as it was, the order of *)
(* its members and the skip set included; a delete that raises, at least   *)
(* its members.                                                            *)
(***************************************************************************)
FailureChangesNothing ==
  [][/\ reply'.op \in {"set", "delete"}
     /\ ~reply'.ok
     => /\ document'.at = document.at
        /\ skipped' = skipped
        /\ reply'.op = "set" => document' = document]_vars

(***************************************************************************)
(* A member the validator does not accept, which a lenient store hides, is *)
(* never destroyed by a re-persist, in memory or in the backing: it        *)
(* changes only in a set or delete of its own key, which has succeeded     *)
(* unless it is a file that changed.                                       *)
(***************************************************************************)
Mutated == IF reply'.op \in {"set", "delete"} THEN {reply'.key} ELSE {}

UnknownPreserved ==
  [][/\ Live => HiddenChanges(document, document') \subseteq
                  (IF reply'.ok THEN Mutated ELSE {})
     /\ Torn \notin {backing.holds, backing'.holds}
          => HiddenChanges(backing.holds, backing'.holds) \subseteq
               (IF reply'.ok \/ backing.kind = "file" THEN Mutated ELSE {})]_vars

(***************************************************************************)
(* The store is a byte store: through encoding, inlining, skipping,        *)
(* failed persists, rollbacks and reopening, every read returns what the   *)
(* last acknowledged write of the key stored.  Only a file can keep of a   *)
(* failed write more than nothing, and only after the process that made it *)
(* has ended does a read show it.                                          *)
(***************************************************************************)
Kept ==
  IF Parses THEN ContentOf(backing.holds, IssueKeys(backing.holds))
            ELSE [k \in Key |-> Lost]

Contents == IF Live THEN ContentOf(document, skipped) ELSE Kept

Abstract == INSTANCE ByteStore WITH
  Bytes <- ByteString, contents <- Contents, kept <- Kept, Fragile <- "file" \in Kind

ImplementsByteStore == Abstract!Spec

-----------------------------------------------------------------------------
(* What the documentation says and the code does not do. *)

(***************************************************************************)
(* SPEC 8.2, "A failed set of any kind MUST leave the document unchanged", *)
(* read of the document that outlives the process: the file.               *)
(***************************************************************************)
FailedSetKeepsFile ==
  [][reply'.op = "set" /\ ~reply'.ok => backing'.holds = backing.holds]_vars

=============================================================================
