------------------------------ MODULE TsStore ------------------------------
(***************************************************************************)
(* The TypeScript store: ZarrInlineStore over a Backing, with its mutex of *)
(* chained promises.                                                       *)
(*                                                                         *)
(* A call checks its arguments and then takes its turn: it chains the rest *)
(* of its work, fn, to the promise #lock and makes the promise of its own  *)
(* completion the new #lock.  fn runs in one piece when the promise it was *)
(* chained to is fulfilled; what its caller awaits settles some microtasks *)
(* later.  Calls do not wait for one another: a program makes as many as   *)
(* it likes before the first runs, and may meanwhile refill the Uint8Array *)
(* it passed to set, which is held by reference until fn encodes it.       *)
(***************************************************************************)
EXTENDS JsonDocument

CONSTANTS
  Bytes,            (* byte strings callers set *)
  Json,             (* JSON values callers setJson *)
  Kind,             (* the kinds of backing: subset of BackingKind *)
  InitialDocument,  (* documents the backing may load at first *)
  Debris,           (* what a caller's backing may be left with, besides the *)
                    (* old document and the new, when its persist throws     *)
  MaxCalls          (* bound: how many calls a behaviour makes *)

(* "custom" is a caller's own Backing, whose persist may throw, whatever   *)
(* it has written by then.                                                 *)
BackingKind == {"memory", "string", "custom"}

ASSUME ConstantsAssumption ==
  /\ Bytes \subseteq ByteString
  /\ Json \subseteq Container \cup [kind : {"text", "scalar"}, of : Payload]
  /\ Kind \subseteq BackingKind
  /\ InitialDocument \subseteq JsonObject
  /\ Debris \subseteq JsonObject \cup {Torn}
  /\ MaxCalls \in Nat

VARIABLES
  backing,    (* its kind, and the document its load would return, or Torn; *)
              (* history: whether its last persist threw                    *)
  document,   (* #document *)
  skipped,    (* #skipped *)
  readOnly,   (* #readOnly *)
  lock,       (* #lock: the call whose completion it is, 0 if already resolved *)
  calls,      (* the calls made, in order *)
  buffer,     (* what the caller's Uint8Array holds *)
  latest      (* history: the call that took effect last, 0 before the first *)

vars == <<backing, document, skipped, readOnly, lock, calls, buffer, latest>>

-----------------------------------------------------------------------------
(* Promises. *)

(* Mutant: #lock = run, so that a rejection of run reaches who is chained. *)
FulfilledIfRunIs(promise) ==
  promise # 0 => calls[promise].state # "queued" /\ calls[promise].ok

(* #lock is run.catch(() => undefined): fulfilled once run has settled. *)
Fulfilled(promise) == promise # 0 => calls[promise].state # "queued"

NewCall(op, key, given) ==
  [op |-> op, key |-> key, given |-> given, refilled |-> FALSE, after |-> lock,
   state |-> "queued", refused |-> FALSE, ok |-> TRUE, value |-> NotFound]

(* Mutant: the new promise is not stored in #lock. *)
WithLockUnchained(op, key, given) ==
  /\ calls' = Append(calls, NewCall(op, key, given))
  /\ UNCHANGED <<backing, document, skipped, readOnly, lock, buffer, latest>>

(* #withLock(fn) *)
WithLock(op, key, given) ==
  /\ calls' = Append(calls, NewCall(op, key, given))
  /\ lock' = Len(calls) + 1
  /\ UNCHANGED <<backing, document, skipped, readOnly, buffer, latest>>

(* An async function that throws before it reaches #withLock. *)
Refuse(op, key, given) ==
  /\ calls' = Append(calls, [NewCall(op, key, given) EXCEPT
                               !.state = "ran", !.refused = TRUE, !.ok = FALSE])
  /\ latest' = Len(calls) + 1
  /\ UNCHANGED <<backing, document, skipped, readOnly, lock, buffer>>

-----------------------------------------------------------------------------
(* Calls, as far as the first await. *)

More == Len(calls) < MaxCalls

SetBytes(op, key, given) ==
  \/ (readOnly \/ ~IsWellFormed(key)) /\ Refuse(op, key, given)
  \/ ~readOnly /\ IsWellFormed(key) /\ WithLock(op, key, given)

Set(key) ==
  /\ More
  /\ SetBytes("set", key, buffer)

(* The value is serialized at once, so later changes to it do not matter. *)
SetJson(key, json) ==
  /\ More
  /\ \/ ~FitsKey(key, json) /\ Refuse("setJson", key, buffer)
     \/ FitsKey(key, json) /\ SetBytes("setJson", key, Canonical(json))

Delete(key) ==
  /\ More
  /\ \/ readOnly /\ Refuse("delete", key, buffer)
     \/ ~readOnly /\ WithLock("delete", key, buffer)

Get(key) == More /\ WithLock("get", key, buffer)

HasKey(key) == More /\ WithLock("has", key, buffer)

(* The caller reuses its Uint8Array, whoever holds on to it. *)
Refill(bytes) ==
  /\ buffer' = bytes
  /\ bytes # buffer
  /\ calls' = [c \in DOMAIN calls |->
                 IF calls[c].op = "set" /\ calls[c].state = "queued"
                 THEN [calls[c] EXCEPT !.refilled = TRUE] ELSE calls[c]]
  /\ UNCHANGED <<backing, document, skipped, readOnly, lock, latest>>

-----------------------------------------------------------------------------
(* fn, once its turn has come. *)

Runs(c, ops) ==
  /\ calls[c].state = "queued"
  /\ Fulfilled(calls[c].after)
  /\ calls[c].op \in ops
  /\ latest' = c
  /\ UNCHANGED <<readOnly, lock, buffer>>

Settle(c, ok, value) ==
  calls' = [calls EXCEPT ![c].state = "ran", ![c].ok = ok, ![c].value = value]

(* persist(doc): StringBacking serializes before it assigns its text.  The *)
(* Backing interface says nothing of one that throws: a caller's may then  *)
(* hold anything, such as a file cut short.                                *)
Persist(doc) ==
  CASE backing.kind = "memory" -> {[ok |-> TRUE, holds |-> doc]}
    [] backing.kind = "string" ->
         {IF HasSurrogate(doc) THEN [ok |-> FALSE, holds |-> backing.holds]
                               ELSE [ok |-> TRUE, holds |-> doc]}
    [] backing.kind = "custom" ->
         [ok : {FALSE}, holds : {backing.holds, doc} \cup Debris]
           \cup [ok : {TRUE}, holds : {doc}]

(* Mutants: a failed delete stays deleted; skipped is left alone. *)
MutateWithoutUndo(c, given, mutated, undone) ==
  \E result \in Persist(mutated) :
    /\ backing' = [backing EXCEPT !.holds = result.holds, !.failed = ~result.ok]
    /\ document' = mutated
    /\ skipped' = IF result.ok THEN skipped \ {calls[c].key} ELSE skipped
    /\ Settle(c, result.ok, IF result.ok THEN given ELSE NotFound)

MutateKeepingSkip(c, given, mutated, undone) ==
  \E result \in Persist(mutated) :
    /\ backing' = [backing EXCEPT !.holds = result.holds, !.failed = ~result.ok]
    /\ document' = IF result.ok THEN mutated ELSE undone
    /\ UNCHANGED skipped
    /\ Settle(c, result.ok, IF result.ok THEN given ELSE NotFound)

(* Mutate, persist, undo if it throws. *)
Mutate(c, given, mutated, undone) ==
  \E result \in Persist(mutated) :
    /\ backing' = [backing EXCEPT !.holds = result.holds, !.failed = ~result.ok]
    /\ \/ /\ result.ok
          /\ document' = mutated
          /\ skipped' = skipped \ {calls[c].key}
       \/ /\ ~result.ok
          /\ document' = undone
          /\ UNCHANGED skipped
    /\ Settle(c, result.ok, IF result.ok THEN given ELSE NotFound)

(* The bytes fn sees: the caller's array as it is now, or setJson's own. *)
Argument(c) == IF calls[c].op = "set" THEN buffer ELSE calls[c].given

RunSet(c) ==
  LET key     == calls[c].key
      encoded == EncodeValue(key, Argument(c))
      written == Put(document, key, encoded)
  IN  /\ Runs(c, {"set", "setJson"})
      /\ \/ /\ encoded = CodecError
            /\ Settle(c, FALSE, NotFound)
            /\ UNCHANGED <<backing, document, skipped>>
         \/ /\ encoded # CodecError
            /\ Mutate(c, Argument(c), written, Restore(written, key, document.at[key]))

RunDelete(c) ==
  LET key     == calls[c].key
      deleted == Pop(document, key)
  IN  /\ Runs(c, {"delete"})
      /\ Mutate(c, NotFound, deleted, Restore(deleted, key, document.at[key]))

(* Mutant: a member is shown even if its key is in skipped. *)
PresentAnyway(key) == Has(document, key)

Present(key) == Has(document, key) /\ key \notin skipped

RunGet(c) ==
  LET key   == calls[c].key
      found == IF Present(key) THEN DecodeValue(key, document.at[key]) ELSE NotFound
  IN  /\ Runs(c, {"get"})
      /\ Settle(c, found # Unreadable, found)
      /\ UNCHANGED <<backing, document, skipped>>

RunHas(c) ==
  /\ Runs(c, {"has"})
  /\ Settle(c, Present(calls[c].key), NotFound)
  /\ UNCHANGED <<backing, document, skipped>>

(* The caller's promise settles. *)
Tell(c) ==
  /\ calls[c].state = "ran"
  /\ calls' = [calls EXCEPT ![c].state = "told"]
  /\ UNCHANGED <<backing, document, skipped, readOnly, lock, buffer, latest>>

-----------------------------------------------------------------------------
(* The constructor, in lenient mode; strict mode is the case of a document *)
(* without issues.                                                         *)
Init ==
  /\ backing \in [kind : Kind, holds : InitialDocument, failed : {FALSE}]
  /\ document = backing.holds
  /\ skipped = IssueKeys(document)
  /\ readOnly \in BOOLEAN
  /\ lock = 0
  /\ calls = <<>>
  /\ buffer \in Bytes
  /\ latest = 0

Run(c) == RunSet(c) \/ RunDelete(c) \/ RunGet(c) \/ RunHas(c)

Next ==
  \/ \E k \in Key : Set(k)
  \/ \E k \in Key, j \in Json : SetJson(k, j)
  \/ \E k \in Key : Delete(k)
  \/ \E k \in Key : Get(k)
  \/ \E k \in Key : HasKey(k)
  \/ \E b \in Bytes : Refill(b)
  \/ \E c \in DOMAIN calls : RunSet(c)
  \/ \E c \in DOMAIN calls : RunDelete(c)
  \/ \E c \in DOMAIN calls : RunGet(c)
  \/ \E c \in DOMAIN calls : RunHas(c)
  \/ \E c \in DOMAIN calls : Tell(c)

(* The event loop runs every microtask that is due. *)
Fairness ==
  \A c \in 1 .. MaxCalls :
    WF_vars(c \in DOMAIN calls /\ Run(c)) /\ WF_vars(c \in DOMAIN calls /\ Tell(c))

Spec == Init /\ [][Next]_vars /\ Fairness

-----------------------------------------------------------------------------
(* Every variable has its type. *)
TypeOK ==
  /\ backing \in [kind : Kind, holds : JsonObject \cup {Torn}, failed : BOOLEAN]
  /\ document \in JsonObject
  /\ skipped \subseteq Key
  /\ readOnly \in BOOLEAN
  /\ buffer \in Bytes
  /\ Len(calls) <= MaxCalls
  /\ {lock, latest} \subseteq 0 .. Len(calls)
  /\ \A c \in DOMAIN calls : calls[c] \in
       [op : {"set", "setJson", "delete", "get", "has"}, key : Key, given : ByteString,
        refilled : BOOLEAN, after : 0 .. c - 1, state : {"queued", "ran", "told"},
        refused : BOOLEAN, ok : BOOLEAN, value : ByteString \cup {NotFound, Unreadable}]

(***************************************************************************)
(* The skip set, computed once by the constructor, is at every moment what *)
(* validating the current document would give.                             *)
(***************************************************************************)
SkipExact == skipped = IssueKeys(document)

(***************************************************************************)
(* What the backing would load has the members the store shows, through    *)
(* any sequence of successful and failed persists: also a StringBacking    *)
(* over a document it cannot serialize stays at the text before.  Of a     *)
(* caller's own backing this holds unless its last persist threw: the next *)
(* one that succeeds repairs whatever those before it left.                *)
(***************************************************************************)
Persisted == backing.kind = "custom" => ~backing.failed

DurableInSync == Persisted => backing.holds.at = document.at

(***************************************************************************)
(* A program that does not await its calls still sees them in the order it *)
(* made them: a get returns what the last earlier set or delete of the key *)
(* that succeeded stored, whichever calls failed in between and however    *)
(* much later their promises settle.  (A set stores what its array holds   *)
(* when its turn comes, so arrays refilled before that do not count.)      *)
(***************************************************************************)
Wrote(c, key) ==
  /\ calls[c].op \in {"set", "setJson", "delete"}
  /\ calls[c].key = key
  /\ calls[c].state # "queued" /\ calls[c].ok

ReadsFollowCalls ==
  \A r \in DOMAIN calls : calls[r].op = "get" /\ calls[r].state # "queued" =>
    \A w \in 1 .. r - 1 :
      LET key == calls[r].key
      IN  /\ Wrote(w, key)
          /\ ~calls[w].refilled
          /\ \A c \in w + 1 .. r - 1 : ~Wrote(c, key)
          => calls[r].value = IF calls[w].op = "delete" THEN NotFound
                                                       ELSE Normal(key, calls[w].given)

(***************************************************************************)
(* SPEC 8.2: a set that fails changes neither the document, the order of   *)
(* its members included, nor the skip set; a delete that fails, at least   *)
(* no member.  Nor do they change what a shipped backing holds, and what a *)
(* caller's own holds only if it was its persist that threw.               *)
(***************************************************************************)
Failed(c) == latest' = c /\ ~calls'[c].ok

FailureChangesNothing ==
  [][\A c \in DOMAIN calls' :
       Failed(c) /\ calls'[c].op \in {"set", "setJson", "delete"}
       => /\ UNCHANGED skipped
          /\ document'.at = document.at
          /\ calls'[c].op # "delete" => document' = document
          /\ backing.kind # "custom" \/ calls'[c].refused
               => backing'.holds = backing.holds]_vars

(***************************************************************************)
(* A member the validator does not accept is hidden, but never destroyed:  *)
(* it changes only in a set or delete of its own key that succeeds.  So    *)
(* it is in the backing, from one persist to the next, unless a caller's   *)
(* own has thrown.                                                         *)
(***************************************************************************)
MutatedBy(c) ==
  IF calls'[c].ok /\ calls'[c].op \in {"set", "setJson", "delete"} THEN {calls'[c].key} ELSE {}

UnknownPreserved ==
  [][\A c \in DOMAIN calls' : latest' = c =>
       /\ HiddenChanges(document, document') \subseteq MutatedBy(c)
       /\ Persisted /\ Persisted'
            => HiddenChanges(backing.holds, backing'.holds) \subseteq MutatedBy(c)]_vars

(***************************************************************************)
(* The store is a byte store, in which a call takes effect when its fn     *)
(* runs, or when it is refused.  No process ends here, so what is kept is  *)
(* what is read; DurableInSync says when the backing has it too.           *)
(***************************************************************************)
Reply ==
  IF latest = 0 THEN [op |-> "none"]
  ELSE LET c == calls[latest]
       IN  [op    |-> CASE c.op = "setJson" -> "set" [] c.op = "has" -> "exists" [] OTHER -> c.op,
            key   |-> c.key,
            ok    |-> c.ok,
            value |-> c.value]

Contents == ContentOf(document, skipped)

Abstract == INSTANCE ByteStore WITH
  Bytes <- ByteString, contents <- Contents, kept <- Contents, reply <- Reply,
  Fragile <- FALSE

ImplementsByteStore == Abstract!Spec

(***************************************************************************)
(* Every call settles, whatever happened to the calls before it: a call    *)
(* that fails does not hold up those chained to it.                        *)
(***************************************************************************)
Told(c) == c \in DOMAIN calls /\ calls[c].state = "told"

EveryCallSettles == \A c \in 1 .. MaxCalls : c \in DOMAIN calls ~> Told(c)

=============================================================================
