--------------------------- MODULE PyStoreProofs ---------------------------
(***************************************************************************)
(* Proofs about the Python store and its listings, for every set of keys,  *)
(* bytes, views and initial documents.                                     *)
(***************************************************************************)
EXTENDS PyListing, JsonDocumentProofs, TLAPS

(***************************************************************************)
(* The inductive invariant: with the types, the skip set is exact and the  *)
(* backing is in sync.  Each needs the others: a set keeps the skip set    *)
(* exact only because R1 and R2 hold of what it writes, reopening keeps it *)
(* exact because it validates, and a failed mutation keeps the backing in  *)
(* sync only because the undo restores exactly the members it found.  That *)
(* hidden members are kept needs that a member in which a file is ahead of *)
(* the document is one the validator accepts; the refinement, that only a  *)
(* file can be left unreadable.                                            *)
(***************************************************************************)
OnlyFilesTear == backing.holds = Torn => backing.kind = "file"

HiddenInSync == Live /\ Parses => HiddenChanges(backing.holds, document) = {}

Inv == TypeOK /\ SkipExact /\ DurableInSync /\ OnlyFilesTear /\ HiddenInSync

(* What a persist may come to: only that of a file raises, and then the    *)
(* file has what it had, nothing that parses, or the new document.         *)
LEMMA PersistOutcomes ==
  ASSUME NEW doc, NEW result \in Persist(doc)
  PROVE  /\ result.ok \in BOOLEAN
         /\ result.ok => result.holds = doc
         /\ ~result.ok => /\ backing.kind = "file"
                          /\ result.holds \in {backing.holds, Torn, doc}
<1>1. CASE backing.kind = "file"
  <2>1. \/ result \in {[ok |-> FALSE, holds |-> backing.holds], [ok |-> FALSE, holds |-> Torn]}
        \/ result \in [ok : BOOLEAN, holds : {doc}]
    BY <1>1, Zenon DEF Persist, WriteFile
  <2>2. CASE result \in {[ok |-> FALSE, holds |-> backing.holds], [ok |-> FALSE, holds |-> Torn]}
    <3>1. result.ok = FALSE /\ result.holds \in {backing.holds, Torn}
      BY <2>2
    <3>2. QED
      BY <1>1, <3>1
  <2>3. CASE result \in [ok : BOOLEAN, holds : {doc}]
    <3>1. result.ok \in BOOLEAN /\ result.holds = doc
      BY <2>3
    <3>2. QED
      BY <1>1, <3>1
  <2>4. QED
    BY <2>1, <2>2, <2>3
<1>2. CASE backing.kind # "file"
  <2>1. result \in {[ok |-> TRUE, holds |-> doc]}
    BY <1>2, Zenon DEF Persist, Replace
  <2>2. result.ok = TRUE /\ result.holds = doc
    BY <2>1
  <2>3. QED
    BY <2>2
<1>3. QED
  BY <1>1, <1>2

(* No store is open, and the backing holds one of the initial documents. *)
LEMMA InitInv == Init => Inv
<1> SUFFICES ASSUME Init PROVE Inv
  OBVIOUS
<1>1. TypeOK
  BY ConstantsAssumption DEF Init, TypeOK, NoKey
<1>2. ~Live
  BY DEF Init, Live
<1>3. OnlyFilesTear
  <2>1. backing.holds \in JsonObject
    BY ConstantsAssumption DEF Init
  <2>2. QED
    BY <2>1, TornIsNoObject DEF OnlyFilesTear
<1>4. QED
  BY <1>1, <1>2, <1>3 DEF Inv, SkipExact, DurableInSync, HiddenInSync

(* The locked part of set and delete, for any sound mutation and undo. *)
LEMMA MutateInv ==
  ASSUME Inv, Live, NEW op \in {"set", "delete"}, NEW key \in Key,
         NEW given \in ByteString \cup {NotFound},
         NEW mutated \in JsonObject, NEW undone \in JsonObject,
         undone.at = document.at,
         \A k \in Key \ {key} : mutated.at[k] = document.at[k],
         IssueKeys(mutated) = IssueKeys(document) \ {key},
         Mutate(op, key, given, mutated, undone)
  PROVE  Inv'
<1>1. PICK result \in Persist(mutated) :
        /\ backing' = [backing EXCEPT !.holds = result.holds, !.failed = ~result.ok]
        /\ \/ /\ result.ok
              /\ document' = mutated /\ skipped' = skipped \ {key}
              /\ reply' = [op |-> op, key |-> key, ok |-> TRUE, value |-> given]
           \/ /\ ~result.ok
              /\ document' = undone /\ skipped' = skipped
              /\ reply' = [op |-> op, key |-> key, ok |-> FALSE, value |-> NotFound]
        /\ views' = views
  BY Zenon DEF Mutate, Return, Raise
<1>2. /\ result.ok \in BOOLEAN
      /\ result.ok => result.holds = mutated
      /\ ~result.ok => /\ backing.kind = "file"
                       /\ result.holds \in {backing.holds, Torn, mutated}
  BY PersistOutcomes
<1>3. TypeOK /\ SkipExact /\ DurableInSync /\ OnlyFilesTear /\ HiddenInSync
  BY DEF Inv
<1>4. /\ backing'.holds = result.holds /\ backing'.kind = backing.kind
      /\ backing'.failed = ~result.ok
      /\ backing' \in [kind : Kind, holds : JsonObject \cup {Torn}, failed : BOOLEAN]
  BY <1>1, <1>2, <1>3 DEF TypeOK
<1>5. TypeOK'
  <2>1. document' \in JsonObject /\ skipped' \subseteq Key
    BY <1>1, <1>3 DEF TypeOK
  <2>2. reply' \in [op : {"open", "close", "with_read_only", "set", "delete", "get", "exists"},
                    key : Key \cup {NoKey}, ok : BOOLEAN,
                    value : ByteString \cup {NotFound, Unreadable}]
    <3>1. PICK ok \in BOOLEAN, value \in {given, NotFound} :
            reply' = [op |-> op, key |-> key, ok |-> ok, value |-> value]
      BY <1>1, Zenon
    <3>2. QED
      BY <3>1
  <2>3. QED
    BY <1>1, <1>3, <1>4, <2>1, <2>2 DEF TypeOK
<1>6. SkipExact'
  <2>1. skipped = IssueKeys(document)
    BY <1>3 DEF SkipExact
  <2>2. CASE result.ok
    BY <1>1, <2>1, <2>2 DEF SkipExact
  <2>3. CASE ~result.ok
    <3>1. IssueKeys(undone) = IssueKeys(document)
      BY IssuesDependOnMembers
    <3>2. QED
      BY <1>1, <2>1, <2>3, <3>1 DEF SkipExact
  <2>4. QED
    BY <2>2, <2>3
<1>7. mutated # Torn
  BY TornIsNoObject
<1>8. CASE result.ok
  <2>1. backing'.holds = document' /\ Parses'
    BY <1>1, <1>2, <1>4, <1>7, <1>8 DEF Parses
  <2>2. HiddenChanges(document', document') = {}
    BY DEF HiddenChanges
  <2>3. QED
    BY <1>5, <1>6, <2>1, <2>2 DEF Inv, DurableInSync, OnlyFilesTear, HiddenInSync, Parses
<1>9. CASE ~result.ok
  <2>1. document'.at = document.at /\ backing'.kind = "file" /\ backing'.failed = TRUE
    BY <1>1, <1>2, <1>4, <1>9
  <2>2. CASE result.holds = Torn
    <3>1. ~Parses'
      BY <1>4, <2>2 DEF Parses
    <3>2. QED
      BY <1>5, <1>6, <2>1, <3>1 DEF Inv, DurableInSync, OnlyFilesTear, HiddenInSync
  <2>3. CASE result.holds = mutated
    <3>1. \A j \in Key \ {key} : backing'.holds.at[j] = document'.at[j]
      BY <1>4, <2>1, <2>3
    <3>2. ButForOneMember(backing'.holds.at, document'.at)
      BY <3>1 DEF ButForOneMember
    <3>3. \A k \in IssueKeys(backing'.holds) : document'.at[k] = backing'.holds.at[k]
      BY <1>4, <2>1, <2>3, <3>1 DEF IssueKeys
    <3>4. HiddenChanges(backing'.holds, document') = {}
      BY <3>3 DEF HiddenChanges
    <3>5. QED
      BY <1>5, <1>6, <2>1, <3>2, <3>4 DEF Inv, DurableInSync, OnlyFilesTear, HiddenInSync
  <2>4. CASE result.holds = backing.holds
    <3>1. backing'.holds = backing.holds /\ (Parses' <=> Parses)
      BY <1>4, <2>4 DEF Parses
    <3>2. Parses => ButForOneMember(backing.holds.at, document.at)
      BY <1>3 DEF DurableInSync, ButForOneMember
    <3>3. Parses => HiddenChanges(backing.holds, document) = {}
      BY <1>3 DEF HiddenInSync
    <3>4. HiddenChanges(backing.holds, document') = HiddenChanges(backing.holds, document)
      BY <2>1 DEF HiddenChanges
    <3>5. Parses' => /\ ButForOneMember(backing'.holds.at, document'.at)
                     /\ HiddenChanges(backing'.holds, document') = {}
      BY <2>1, <3>1, <3>2, <3>3, <3>4
    <3>6. QED
      BY <1>5, <1>6, <2>1, <3>5 DEF Inv, DurableInSync, OnlyFilesTear, HiddenInSync
  <2>5. QED
    BY <1>2, <1>9, <2>2, <2>3, <2>4
<1>10. QED
  BY <1>2, <1>8, <1>9

(* A call that raises before it changes anything, or only answers. *)
LEMMA AnswerInv ==
  ASSUME Inv, UNCHANGED <<backing, document, skipped, views>>,
         reply' \in [op : {"open", "close", "with_read_only", "set", "delete", "get", "exists"},
                     key : Key \cup {NoKey}, ok : BOOLEAN,
                     value : ByteString \cup {NotFound, Unreadable}]
  PROVE  Inv'
  BY DEF Inv, TypeOK, SkipExact, DurableInSync, OnlyFilesTear, HiddenInSync, Parses, Live

(* A call that raises before it has changed anything. *)
LEMMA FailInv ==
  ASSUME Inv, NEW op \in {"open", "with_read_only", "set", "delete"},
         NEW key \in Key \cup {NoKey}, Fail(op, key)
  PROVE  Inv'
  BY AnswerInv DEF Fail, Raise

(* set and set_json: the member put obeys both rules, and the undo restores. *)
LEMMA SetBytesInv ==
  ASSUME Inv, NEW view \in View, NEW key \in Key, NEW bytes \in ByteString,
         views[view] # "closed", SetBytes(view, key, bytes)
  PROVE  Inv'
<1>1. CASE Rejects(view, key, bytes) /\ Fail("set", key)
  BY <1>1, FailInv
<1>2. CASE ~Rejects(view, key, bytes)
  <2> DEFINE value   == EncodeValue(key, bytes)
             written == Put(document, key, value)
             undone  == Restore(written, key, document.at[key])
  <2>1. /\ IsWellFormed(key)
        /\ value \in Member
        /\ HasValidType(key, value)
    BY <1>2, EncodeIsMember DEF Rejects
  <2>2. document \in JsonObject /\ document.at[key] \in Member \cup {Missing}
    BY DEF Inv, TypeOK, JsonObject
  <2>3. written \in JsonObject
    BY <2>1, <2>2, PutIsObject
  <2>4. undone \in JsonObject
    BY <2>2, <2>3, RestoreIsObject
  <2>5. undone.at = document.at
    BY <2>1, <2>2, UndoneMembers
  <2>6. IssueKeys(written) = IssueKeys(document) \ {key}
    BY <2>1, <2>2, IssuesAfterPut
  <2>7. Mutate("set", key, bytes, written, undone)
    BY <1>2 DEF SetBytes
  <2>8. Live
    BY DEF Live
  <2>9. \A k \in Key \ {key} : written.at[k] = document.at[k]
    BY <2>2 DEF Put, JsonObject
  <2> HIDE DEF written, undone
  <2>10. QED
    BY <2>3, <2>4, <2>5, <2>6, <2>7, <2>8, <2>9, MutateInv
<1>3. QED
  BY <1>1, <1>2 DEF SetBytes

(* delete: the undo puts back the member that was popped. *)
LEMMA DeleteInv ==
  ASSUME Inv, NEW view \in View, NEW key \in Key, Delete(view, key)
  PROVE  Inv'
<1>1. CASE views[view] = "read only" /\ Fail("delete", key)
  BY <1>1, FailInv
<1>2. CASE views[view] = "writable"
  <2> DEFINE popped == Pop(document, key)
             undone == Restore(popped, key, document.at[key])
  <2>1. document \in JsonObject /\ document.at[key] \in Member \cup {Missing}
    BY DEF Inv, TypeOK, JsonObject
  <2>2. popped \in JsonObject
    BY <2>1, RemoveIsObject
  <2>3. undone \in JsonObject
    BY <2>1, <2>2, RestoreIsObject
  <2>4. undone.at = document.at
    BY <2>1, UndoneMembers
  <2>5. IssueKeys(popped) = IssueKeys(document) \ {key}
    BY <2>1, IssuesAfterRemove
  <2>6. Mutate("delete", key, NotFound, popped, undone)
    BY <1>2 DEF Delete
  <2>7. Live
    BY <1>2 DEF Live
  <2>8. \A k \in Key \ {key} : popped.at[k] = document.at[k]
    BY <2>1 DEF Pop, JsonObject
  <2> HIDE DEF popped, undone
  <2>9. QED
    BY <2>2, <2>3, <2>4, <2>5, <2>6, <2>7, <2>8, MutateInv
<1>3. QED
  BY <1>1, <1>2 DEF Delete

(* The constructor computes the skip set from what it loads. *)
LEMMA OpenInv ==
  ASSUME Inv, NEW view \in View, NEW mode \in Modes, NEW strict \in BOOLEAN,
         Open(view, mode, strict)
  PROVE  Inv'
<1>1. CASE ~Loads(strict) /\ Fail("open", NoKey)
  BY <1>1, FailInv
<1>2. CASE /\ Loads(strict)
           /\ document' = backing.holds
           /\ skipped' = IssueKeys(backing.holds)
           /\ views' = [views EXCEPT ![view] = mode]
           /\ Return("open", NoKey, NotFound)
           /\ UNCHANGED backing
  <2>1. /\ backing.holds # Torn
        /\ document' = backing.holds
        /\ skipped' = IssueKeys(backing.holds)
        /\ views' = [views EXCEPT ![view] = mode]
        /\ reply' = [op |-> "open", key |-> NoKey, ok |-> TRUE, value |-> NotFound]
        /\ backing' = backing
    BY <1>2 DEF Loads, Parses, Return
  <2>2. skipped' \subseteq Key
    BY <2>1 DEF IssueKeys
  <2>3. TypeOK'
    BY <2>1, <2>2 DEF Inv, TypeOK, Modes
  <2>4. SkipExact' /\ DurableInSync' /\ OnlyFilesTear' /\ HiddenInSync'
    BY <2>1 DEF SkipExact, DurableInSync, OnlyFilesTear, HiddenInSync, HiddenChanges, Parses
  <2>5. QED
    BY <2>3, <2>4 DEF Inv
<1>3. QED
  BY <1>1, <1>2, Zenon DEF Open

(* with_read_only shares the dict and the skip set of the view it is made of. *)
LEMMA WithReadOnlyInv ==
  ASSUME Inv, NEW view \in View, NEW new \in View, NEW mode \in Modes,
         WithReadOnly(view, new, mode)
  PROVE  Inv'
<1>1. CASE ~Loads(FALSE) /\ Fail("with_read_only", NoKey)
  BY <1>1, FailInv
<1>2. CASE Loads(FALSE)
  <2>1. /\ views' = [views EXCEPT ![new] = mode]
        /\ reply' = [op |-> "with_read_only", key |-> NoKey, ok |-> TRUE, value |-> NotFound]
        /\ backing' = backing /\ document' = document /\ skipped' = skipped
    BY <1>2 DEF WithReadOnly, Return
  <2>2. Live
    BY DEF WithReadOnly, Live
  <2>3. TypeOK'
    BY <2>1 DEF Inv, TypeOK, Modes
  <2>4. SkipExact' /\ DurableInSync' /\ OnlyFilesTear' /\ HiddenInSync'
    BY <2>1, <2>2 DEF Inv, SkipExact, DurableInSync, OnlyFilesTear, HiddenInSync, Parses
  <2>5. QED
    BY <2>3, <2>4 DEF Inv
<1>3. QED
  BY <1>1, <1>2 DEF WithReadOnly

(* get and exists change nothing but the answer. *)
LEMMA ReadInv ==
  ASSUME Inv, NEW view \in View, NEW key \in Key, Get(view, key) \/ Exists(view, key)
  PROVE  Inv'
<1>1. CASE Get(view, key)
  <2> DEFINE found == IF Present(key) THEN DecodeValue(key, document.at[key]) ELSE NotFound
  <2>1. found \in ByteString \cup {NotFound, Unreadable}
    BY DecodeIsBytes DEF Present, Has, Inv, TypeOK, JsonObject
  <2>2. reply' = [op |-> "get", key |-> key, ok |-> found # Unreadable, value |-> found]
    BY <1>1 DEF Get
  <2> HIDE DEF found
  <2>3. QED
    BY <1>1, <2>1, <2>2, AnswerInv DEF Get
<1>2. CASE Exists(view, key)
  <2>1. Present(key) \in BOOLEAN
    BY DEF Present, Has
  <2>2. QED
    BY <1>2, <2>1, AnswerInv DEF Exists
<1>3. QED
  BY <1>1, <1>2

(* The process ends, in the middle of a write of the file or elsewhere. *)
LEMMA EndInv ==
  ASSUME Inv, Close \/ CrashWhileWriting
  PROVE  Inv'
<1>1. /\ views' = [v \in View |-> "closed"]
      /\ reply' = [op |-> "close", key |-> NoKey, ok |-> TRUE, value |-> NotFound]
      /\ document' = document /\ skipped' = skipped
      /\ backing' \in {[backing EXCEPT !.failed = FALSE],
                       [backing EXCEPT !.holds = Torn, !.failed = FALSE]}
  BY DEF Close, CrashWhileWriting, Return
<1>2. ~Live'
  BY <1>1 DEF Live
<1>3. TypeOK'
  BY <1>1 DEF Inv, TypeOK
<1>4. OnlyFilesTear'
  BY DEF Inv, OnlyFilesTear, TypeOK, Close, CrashWhileWriting
<1>5. QED
  BY <1>2, <1>3, <1>4 DEF Inv, SkipExact, DurableInSync, HiddenInSync

(* Every method, and the end of the process, keeps the invariant. *)
LEMMA NextInv == Inv /\ [Next]_vars => Inv'
<1> SUFFICES ASSUME Inv, [Next]_vars PROVE Inv'
  OBVIOUS
<1>1. ASSUME NEW v \in View, NEW mode \in Modes, NEW strict \in BOOLEAN, Open(v, mode, strict)
      PROVE  Inv'
  BY <1>1, OpenInv
<1>2. ASSUME NEW v \in View, NEW w \in View, NEW mode \in Modes, WithReadOnly(v, w, mode)
      PROVE  Inv'
  BY <1>2, WithReadOnlyInv
<1>3. ASSUME NEW v \in View, NEW k \in Key, NEW b \in Bytes, Set(v, k, b)
      PROVE  Inv'
  BY <1>3, SetBytesInv, ConstantsAssumption DEF Set
<1>4. ASSUME NEW v \in View, NEW k \in Key, NEW j \in Json, SetJson(v, k, j)
      PROVE  Inv'
  <2>1. CASE ~FitsKey(k, j) /\ Fail("set", k)
    BY <2>1, FailInv
  <2>2. CASE FitsKey(k, j) /\ SetBytes(v, k, Canonical(j))
    BY <1>4, <2>2, SetBytesInv, CanonicalIsBytes, ConstantsAssumption DEF SetJson
  <2>3. QED
    BY <1>4, <2>1, <2>2 DEF SetJson
<1>5. ASSUME NEW v \in View, NEW k \in Key, Delete(v, k)
      PROVE  Inv'
  BY <1>5, DeleteInv
<1>6. ASSUME NEW v \in View, NEW k \in Key, Get(v, k) \/ Exists(v, k)
      PROVE  Inv'
  BY <1>6, ReadInv
<1>7. CASE Close \/ CrashWhileWriting
  BY <1>7, EndInv
<1>8. CASE UNCHANGED vars
  BY <1>8
    DEF vars, Inv, TypeOK, SkipExact, DurableInSync, OnlyFilesTear, HiddenInSync, Parses, Live
<1>9. QED
  BY <1>1, <1>2, <1>3, <1>4, <1>5, <1>6, <1>7, <1>8 DEF Next

(***************************************************************************)
(* The inductive invariant holds of every behaviour of the store.          *)
(***************************************************************************)
THEOREM Invariance == Spec => []Inv
<1>1. QED
  BY InitInv, NextInv, PTL DEF Spec

(* Types: in particular, what is stored is always a JSON member. *)
THEOREM TypeCorrectness == Spec => []TypeOK
<1>1. Inv => TypeOK
  BY DEF Inv
<1>2. QED
  BY <1>1, Invariance, PTL

(* The skip set never hides a valid member nor shows an invalid one. *)
THEOREM SkipSetIsExact == Spec => []SkipExact
<1>1. Inv => SkipExact
  BY DEF Inv
<1>2. QED
  BY <1>1, Invariance, PTL

(* What the backing holds has the open store's members, but for a file     *)
(* whose last persist raised: that is unreadable, or differs in one.       *)
THEOREM BackingIsInSync == Spec => []DurableInSync
<1>1. Inv => DurableInSync
  BY DEF Inv
<1>2. QED
  BY <1>1, Invariance, PTL

-----------------------------------------------------------------------------
(* What a step may do: the bodies of the two action properties, and a step *)
(* of the abstract store.                                                  *)

FailureStep ==
  reply'.op \in {"set", "delete"} /\ ~reply'.ok
  => /\ document'.at = document.at
     /\ skipped' = skipped
     /\ reply'.op = "set" => document' = document

UnknownStep ==
  /\ Live => HiddenChanges(document, document') \subseteq
               (IF reply'.ok THEN Mutated ELSE {})
  /\ Torn \notin {backing.holds, backing'.holds}
       => HiddenChanges(backing.holds, backing'.holds) \subseteq
            (IF reply'.ok \/ backing.kind = "file" THEN Mutated ELSE {})

AbstractStep == Abstract!Next \/ UNCHANGED <<reply, Contents, Kept>>

Sound == FailureStep /\ UnknownStep /\ AbstractStep

(* An open store shows its document. *)
LEMMA ContentsWhenLive == Live => Contents = ContentOf(document, skipped)
  BY DEF Contents

(* What is kept depends on what the backing holds alone. *)
LEMMA SameKept == ASSUME backing'.holds = backing.holds PROVE Kept' = Kept
  BY DEF Kept, Parses

(* A document that is persisted, with its exact skip set, is what is kept. *)
LEMMA KeptIsHeld ==
  ASSUME NEW doc \in JsonObject, backing'.holds = doc
  PROVE  Kept' = ContentOf(doc, IssueKeys(doc))
<1>1. doc # Torn
  BY TornIsNoObject
<1>2. QED
  BY <1>1 DEF Kept, Parses

(* A step that leaves documents alone hides and destroys nothing. *)
LEMMA NothingChangedIsKept ==
  ASSUME backing'.holds = backing.holds, Live => document'.at = document.at
  PROVE  UnknownStep
  BY DEF UnknownStep, HiddenChanges

(* The locked part of set and delete, for any sound mutation and undo. *)
LEMMA MutateSound ==
  ASSUME Inv, Inv', Live, NEW op \in {"set", "delete"}, NEW key \in Key,
         NEW given \in ByteString \cup {NotFound},
         NEW mutated \in JsonObject, NEW undone \in JsonObject, NEW after,
         undone.at = document.at,
         op = "set" => undone = document,
         \A k \in Key \ {key} : mutated.at[k] = document.at[k],
         IssueKeys(mutated) = IssueKeys(document) \ {key},
         ContentOf(mutated, skipped \ {key}) = [ContentOf(document, skipped) EXCEPT ![key] = after],
         \/ op = "set" /\ given \in ByteString /\ after = Normal(key, given)
         \/ op = "delete" /\ given = NotFound /\ after = NotFound,
         Mutate(op, key, given, mutated, undone)
  PROVE  Sound
<1>1. PICK result \in Persist(mutated) :
        /\ backing' = [backing EXCEPT !.holds = result.holds, !.failed = ~result.ok]
        /\ \/ /\ result.ok
              /\ document' = mutated /\ skipped' = skipped \ {key}
              /\ reply' = [op |-> op, key |-> key, ok |-> TRUE, value |-> given]
           \/ /\ ~result.ok
              /\ document' = undone /\ skipped' = skipped
              /\ reply' = [op |-> op, key |-> key, ok |-> FALSE, value |-> NotFound]
        /\ views' = views
  BY Zenon DEF Mutate, Return, Raise
<1>2. /\ result.ok \in BOOLEAN
      /\ result.ok => result.holds = mutated
      /\ ~result.ok => /\ backing.kind = "file"
                       /\ result.holds \in {backing.holds, Torn, mutated}
  BY PersistOutcomes
<1>3. backing'.holds = result.holds /\ Live' /\ skipped = IssueKeys(document)
  BY <1>1 DEF Inv, TypeOK, SkipExact, Live
<1>4. FailureStep
  BY <1>1 DEF FailureStep
<1>5. reply'.key = key /\ reply'.op = op /\ (reply'.ok <=> result.ok)
  <2>1. CASE result.ok
    BY <1>1, <2>1
  <2>2. CASE ~result.ok
    BY <1>1, <2>2
  <2>3. QED
    BY <2>1, <2>2
<1>6. key \in Mutated
  BY <1>5 DEF Mutated
<1>7. UnknownStep
  <2>1. HiddenChanges(document, document') \subseteq (IF reply'.ok THEN Mutated ELSE {})
    BY <1>1, <1>5, <1>6 DEF HiddenChanges, IssueKeys
  <2>2. ASSUME Torn \notin {backing.holds, backing'.holds},
               NEW k \in HiddenChanges(backing.holds, backing'.holds)
        PROVE  k = key /\ (result.ok \/ backing.kind = "file")
    <3>1. /\ k \in Key /\ k \in IssueKeys(backing.holds)
          /\ backing'.holds.at[k] # backing.holds.at[k]
      BY <2>2 DEF HiddenChanges, IssueKeys
    <3>2. backing.holds.at[k] = document.at[k]
      BY <2>2, <3>1 DEF Inv, HiddenInSync, HiddenChanges, Parses
    <3>3. result.holds = mutated
      BY <1>2, <1>3, <2>2, <3>1
    <3>4. QED
      BY <1>2, <1>3, <3>1, <3>2, <3>3
  <2>3. QED
    BY <1>5, <1>6, <2>1, <2>2 DEF UnknownStep
<1>8. /\ Contents = ContentOf(document, skipped)
      /\ Contents' = ContentOf(document', skipped')
  BY <1>3, ContentsWhenLive DEF Contents
<1>9. result.holds = mutated => Kept' = [Contents EXCEPT ![key] = after]
  <2>1. result.holds = mutated => Kept' = ContentOf(mutated, IssueKeys(mutated))
    BY <1>3, KeptIsHeld
  <2>2. QED
    BY <1>3, <1>8, <2>1
<1>10. Stored[key][given] = Normal(key, given) \/ given \notin ByteString
  BY DEF Stored
<1>11. CASE result.ok
  <2>1. Contents' = [Contents EXCEPT ![key] = after] /\ Kept' = [Contents EXCEPT ![key] = after]
    BY <1>1, <1>2, <1>8, <1>9, <1>11
  <2>2. reply' = [op |-> op, key |-> key, ok |-> TRUE, value |-> given]
    BY <1>1, <1>11
  <2>3. CASE op = "set" /\ given \in ByteString /\ after = Normal(key, given)
    <3>1. Abstract!Write(key)
      BY <1>10, <2>1, <2>2, <2>3
        DEF Abstract!Write, Abstract!Written, Abstract!Become, Abstract!Replies
    <3>2. QED
      BY <1>4, <1>7, <3>1 DEF Sound, AbstractStep, Abstract!Next
  <2>4. CASE op = "delete" /\ given = NotFound /\ after = NotFound
    <3>1. Abstract!Erase(key)
      BY <2>1, <2>2, <2>4 DEF Abstract!Erase, Abstract!Erased, Abstract!Become, Abstract!Replies
    <3>2. QED
      BY <1>4, <1>7, <3>1 DEF Sound, AbstractStep, Abstract!Next
  <2>5. QED
    BY <2>3, <2>4
<1>12. CASE ~result.ok
  <2>1. reply' = [op |-> op, key |-> key, ok |-> FALSE, value |-> NotFound]
    BY <1>1, <1>12
  <2>2. Contents' = Contents
    BY <1>1, <1>8, <1>12, ContentDependsOnMembers
  <2>3. CASE result.holds = backing.holds
    <3>1. Abstract!Refuse
      BY <1>3, <2>1, <2>2, <2>3, SameKept DEF Abstract!Refuse
    <3>2. QED
      BY <1>4, <1>7, <3>1 DEF Sound, AbstractStep, Abstract!Next
  <2>4. CASE result.holds \in {Torn, mutated}
    <3>1. "file" \in Kind
      BY <1>2, <1>12 DEF Inv, TypeOK
    <3>2. result.holds = Torn => Kept' = [k \in Key |-> Lost]
      BY <1>3 DEF Kept, Parses
    <3>3. CASE op = "set" /\ given \in ByteString /\ after = Normal(key, given)
      <4>1. \/ Kept' = [k \in Key |-> Lost]
            \/ \E b \in ByteString : Kept' = [Contents EXCEPT ![key] = Stored[key][b]]
        BY <1>9, <1>10, <2>4, <3>2, <3>3
      <4>2. Abstract!Fail(key)
        BY <2>1, <2>2, <3>1, <3>3, <4>1
          DEF Abstract!Fail, Abstract!LostAll, Abstract!Written, Abstract!Replies
      <4>3. QED
        BY <1>4, <1>7, <4>2 DEF Sound, AbstractStep, Abstract!Next
    <3>4. CASE op = "delete" /\ given = NotFound /\ after = NotFound
      <4>1. Abstract!Fail(key)
        BY <1>9, <2>1, <2>2, <2>4, <3>1, <3>2, <3>4
          DEF Abstract!Fail, Abstract!LostAll, Abstract!Erased, Abstract!Replies
      <4>2. QED
        BY <1>4, <1>7, <4>1 DEF Sound, AbstractStep, Abstract!Next
    <3>5. QED
      BY <3>3, <3>4
  <2>5. QED
    BY <1>2, <1>12, <2>3, <2>4
<1>13. QED
  BY <1>2, <1>11, <1>12

(* A call that changes neither the backing nor the store. *)
LEMMA QuietContents ==
  ASSUME UNCHANGED <<backing, document, skipped, views>>
  PROVE  Contents' = Contents /\ Kept' = Kept
<1>1. Live' = Live /\ Kept' = Kept
  BY SameKept DEF Live
<1>2. QED
  BY <1>1 DEF Contents

(* A call that raises leaves the byte store alone. *)
LEMMA FailSound ==
  ASSUME NEW op \in {"open", "with_read_only", "set", "delete"}, NEW key, Fail(op, key)
  PROVE  Sound
<1>1. /\ reply' = [op |-> op, key |-> key, ok |-> FALSE, value |-> NotFound]
      /\ UNCHANGED <<backing, document, skipped, views>>
  BY DEF Fail, Raise
<1>2. Contents' = Contents /\ Kept' = Kept
  BY <1>1, QuietContents
<1>3. FailureStep /\ UnknownStep
  BY <1>1, NothingChangedIsKept DEF FailureStep
<1>4. Abstract!Refuse \/ Abstract!Administer
  BY <1>1, <1>2 DEF Abstract!Refuse, Abstract!Administer
<1>5. QED
  BY <1>3, <1>4 DEF Sound, AbstractStep, Abstract!Next

(* set and set_json write one key of the byte store, or fail. *)
LEMMA SetBytesSound ==
  ASSUME Inv, Inv', NEW view \in View, NEW key \in Key, NEW bytes \in ByteString,
         views[view] # "closed", SetBytes(view, key, bytes)
  PROVE  Sound
<1>1. CASE Rejects(view, key, bytes) /\ Fail("set", key)
  BY <1>1, FailSound
<1>2. CASE ~Rejects(view, key, bytes)
  <2> DEFINE value   == EncodeValue(key, bytes)
             written == Put(document, key, value)
             undone  == Restore(written, key, document.at[key])
             after   == DecodeValue(key, value)
  <2>1. value # CodecError /\ value \in Member
    BY <1>2, EncodeIsMember DEF Rejects
  <2>2. document \in JsonObject
    BY DEF Inv, TypeOK
  <2>3. written \in JsonObject
    BY <2>1, <2>2, PutIsObject
  <2>4. undone = document
    BY <2>1, <2>2, UndonePut
  <2>5. \A k \in Key \ {key} : written.at[k] = document.at[k]
    BY <2>2 DEF Put, JsonObject
  <2>6. ContentOf(written, skipped \ {key}) = [ContentOf(document, skipped) EXCEPT ![key] = after]
    BY <2>1, <2>2, ContentAfterPut
  <2>7. after = Normal(key, bytes)
    BY <2>1, DecodeEncoded
  <2>8. Mutate("set", key, bytes, written, undone)
    BY <1>2 DEF SetBytes
  <2>9. Live
    BY DEF Live
  <2>10. IssueKeys(written) = IssueKeys(document) \ {key}
    BY <1>2, <2>2, EncodeIsMember, IssuesAfterPut DEF Rejects
  <2> HIDE DEF written, undone, after
  <2>11. QED
    BY <2>2, <2>3, <2>4, <2>5, <2>6, <2>7, <2>8, <2>9, <2>10, MutateSound
<1>3. QED
  BY <1>1, <1>2 DEF SetBytes

(* delete removes one key of the byte store, or fails. *)
LEMMA DeleteSound ==
  ASSUME Inv, Inv', NEW view \in View, NEW key \in Key, Delete(view, key)
  PROVE  Sound
<1>1. CASE views[view] = "read only" /\ Fail("delete", key)
  BY <1>1, FailSound
<1>2. CASE views[view] = "writable"
  <2> DEFINE popped == Pop(document, key)
             undone == Restore(popped, key, document.at[key])
  <2>1. document \in JsonObject /\ document.at[key] \in Member \cup {Missing}
    BY DEF Inv, TypeOK, JsonObject
  <2>2. popped \in JsonObject /\ undone \in JsonObject
    BY <2>1, RemoveIsObject, RestoreIsObject
  <2>3. undone.at = document.at
    BY <2>1, UndoneMembers
  <2>4. \A k \in Key \ {key} : popped.at[k] = document.at[k]
    BY <2>1 DEF Pop, JsonObject
  <2>5. ContentOf(popped, skipped \ {key})
          = [ContentOf(document, skipped) EXCEPT ![key] = NotFound]
    BY <2>1, ContentAfterRemove
  <2>6. Mutate("delete", key, NotFound, popped, undone)
    BY <1>2 DEF Delete
  <2>7. Live
    BY <1>2 DEF Live
  <2>8. IssueKeys(popped) = IssueKeys(document) \ {key}
    BY <2>1, IssuesAfterRemove
  <2> HIDE DEF popped, undone
  <2>9. QED
    BY <2>1, <2>2, <2>3, <2>4, <2>5, <2>6, <2>7, <2>8, MutateSound
<1>3. QED
  BY <1>1, <1>2 DEF Delete

(* Opening shows what the backing held; it hides what validation refuses. *)
LEMMA OpenSound ==
  ASSUME Inv, NEW view \in View, NEW mode \in Modes, NEW strict \in BOOLEAN,
         Open(view, mode, strict)
  PROVE  Sound
<1>1. CASE ~Loads(strict) /\ Fail("open", NoKey)
  BY <1>1, FailSound
<1>2. CASE /\ Loads(strict)
           /\ document' = backing.holds
           /\ skipped' = IssueKeys(backing.holds)
           /\ views' = [views EXCEPT ![view] = mode]
           /\ Return("open", NoKey, NotFound)
           /\ UNCHANGED backing
  <2>1. /\ backing.holds # Torn
        /\ document' = backing.holds
        /\ skipped' = IssueKeys(backing.holds)
        /\ views' = [views EXCEPT ![view] = mode]
        /\ reply' = [op |-> "open", key |-> NoKey, ok |-> TRUE, value |-> NotFound]
        /\ backing' = backing
    BY <1>2 DEF Loads, Parses, Return
  <2>2. ~Live /\ Live'
    BY <2>1 DEF Open, Live, Inv, TypeOK, Modes
  <2>3. Contents' = Contents /\ Kept' = Kept
    BY <2>1, <2>2, SameKept DEF Contents, Kept, Parses
  <2>4. FailureStep /\ UnknownStep
    BY <2>1, <2>2, NothingChangedIsKept DEF FailureStep
  <2>5. Abstract!Administer
    BY <2>1, <2>3 DEF Abstract!Administer
  <2>6. QED
    BY <2>4, <2>5 DEF Sound, AbstractStep, Abstract!Next
<1>3. QED
  BY <1>1, <1>2, Zenon DEF Open

(* Another view shows what is shown already. *)
LEMMA WithReadOnlySound ==
  ASSUME Inv, NEW view \in View, NEW new \in View, NEW mode \in Modes,
         WithReadOnly(view, new, mode)
  PROVE  Sound
<1>1. CASE ~Loads(FALSE) /\ Fail("with_read_only", NoKey)
  BY <1>1, FailSound
<1>2. CASE Loads(FALSE)
  <2>1. /\ views' = [views EXCEPT ![new] = mode]
        /\ reply' = [op |-> "with_read_only", key |-> NoKey, ok |-> TRUE, value |-> NotFound]
        /\ backing' = backing /\ document' = document /\ skipped' = skipped
    BY <1>2 DEF WithReadOnly, Return
  <2>2. Live /\ Live'
    BY <2>1 DEF WithReadOnly, Live, Inv, TypeOK, Modes
  <2>3. Contents' = Contents /\ Kept' = Kept
    BY <2>1, <2>2, SameKept DEF Contents
  <2>4. FailureStep /\ UnknownStep
    BY <2>1, NothingChangedIsKept DEF FailureStep
  <2>5. Abstract!Administer
    BY <2>1, <2>3 DEF Abstract!Administer
  <2>6. QED
    BY <2>4, <2>5 DEF Sound, AbstractStep, Abstract!Next
<1>3. QED
  BY <1>1, <1>2 DEF WithReadOnly

(* get and exists answer what the byte store holds of the key. *)
LEMMA ReadSound ==
  ASSUME Inv, NEW view \in View, NEW key \in Key, Get(view, key) \/ Exists(view, key)
  PROVE  Sound
<1> DEFINE found == IF Present(key) THEN DecodeValue(key, document.at[key]) ELSE NotFound
<1>1. Live /\ UNCHANGED <<backing, document, skipped, views>>
  BY DEF Get, Exists, Live
<1>2. Contents' = Contents /\ Kept' = Kept /\ Contents = ContentOf(document, skipped)
  BY <1>1, QuietContents, ContentsWhenLive
<1>3. Contents[key] = found
  BY <1>2 DEF ContentOf, Present
<1>4. found = NotFound <=> ~Present(key)
  <2>1. Present(key) => found \in ByteString \cup {Unreadable}
    BY DecodeIsBytes DEF Present, Has, Inv, TypeOK, JsonObject
  <2>2. NotFound \notin ByteString \cup {Unreadable}
    BY DEF NotFound, Unreadable, ByteString
  <2>3. QED
    BY <2>1, <2>2
<1> HIDE DEF found
<1>5. CASE Get(view, key)
  <2>1. reply' = [op |-> "get", key |-> key, ok |-> found # Unreadable, value |-> found]
    BY <1>5 DEF Get, found
  <2>2. Abstract!Read(key)
    BY <1>2, <1>3, <2>1 DEF Abstract!Read, Abstract!Replies
  <2>3. FailureStep /\ UnknownStep
    BY <1>1, <2>1, NothingChangedIsKept DEF FailureStep
  <2>4. QED
    BY <2>2, <2>3 DEF Sound, AbstractStep, Abstract!Next
<1>6. CASE Exists(view, key)
  <2>1. reply' = [op |-> "exists", key |-> key, ok |-> Present(key), value |-> NotFound]
    BY <1>6 DEF Exists
  <2>2. Present(key) = (Contents[key] # NotFound)
    BY <1>3, <1>4 DEF Present, Has
  <2>3. Abstract!Has(key)
    BY <1>2, <2>1, <2>2 DEF Abstract!Has, Abstract!Replies
  <2>4. FailureStep /\ UnknownStep
    BY <1>1, <2>1, NothingChangedIsKept DEF FailureStep
  <2>5. QED
    BY <2>3, <2>4 DEF Sound, AbstractStep, Abstract!Next
<1>7. QED
  BY <1>5, <1>6

(* The end of the process: what was kept shows, or the file is lost. *)
LEMMA EndSound ==
  ASSUME Inv, Inv', Close \/ CrashWhileWriting
  PROVE  Sound
<1>1. /\ views' = [v \in View |-> "closed"]
      /\ reply' = [op |-> "close", key |-> NoKey, ok |-> TRUE, value |-> NotFound]
      /\ document' = document
  BY DEF Close, CrashWhileWriting, Return
<1>2. /\ ~Live'
      /\ backing'.holds \in {backing.holds, Torn}
      /\ backing'.kind = backing.kind
  BY <1>1 DEF Live, Close, CrashWhileWriting, Inv, TypeOK
<1>3. Contents' = Kept'
  BY <1>2 DEF Contents
<1>4. FailureStep
  BY <1>1 DEF FailureStep
<1>5. UnknownStep
  BY <1>1, <1>2 DEF UnknownStep, HiddenChanges
<1>6. CASE backing'.holds = Torn
  <2>1. Kept' = [k \in Key |-> Lost]
    BY <1>6 DEF Kept, Parses
  <2>2. "file" \in Kind
    BY <1>2, <1>6 DEF Inv, TypeOK, OnlyFilesTear
  <2>3. Abstract!Lose
    BY <1>1, <1>3, <2>1, <2>2 DEF Abstract!Lose, Abstract!Become, Abstract!LostAll
  <2>4. QED
    BY <1>4, <1>5, <2>3 DEF Sound, AbstractStep, Abstract!Next
<1>7. CASE backing'.holds = backing.holds
  <2>1. Kept' = Kept
    BY <1>7, SameKept
  <2>2. Abstract!Close
    BY <1>1, <1>3, <2>1 DEF Abstract!Close
  <2>3. QED
    BY <1>4, <1>5, <2>2 DEF Sound, AbstractStep, Abstract!Next
<1>8. QED
  BY <1>2, <1>6, <1>7

(* Every step is sound. *)
LEMMA NextSound == Inv /\ Inv' /\ Next => Sound
<1> SUFFICES ASSUME Inv, Inv', Next PROVE Sound
  OBVIOUS
<1>1. ASSUME NEW v \in View, NEW mode \in Modes, NEW strict \in BOOLEAN, Open(v, mode, strict)
      PROVE  Sound
  BY <1>1, OpenSound
<1>2. ASSUME NEW v \in View, NEW w \in View, NEW mode \in Modes, WithReadOnly(v, w, mode)
      PROVE  Sound
  BY <1>2, WithReadOnlySound
<1>3. ASSUME NEW v \in View, NEW k \in Key, NEW b \in Bytes, Set(v, k, b)
      PROVE  Sound
  BY <1>3, SetBytesSound, ConstantsAssumption DEF Set
<1>4. ASSUME NEW v \in View, NEW k \in Key, NEW j \in Json, SetJson(v, k, j)
      PROVE  Sound
  <2>1. CASE ~FitsKey(k, j) /\ Fail("set", k)
    BY <2>1, FailSound
  <2>2. CASE FitsKey(k, j) /\ SetBytes(v, k, Canonical(j))
    BY <1>4, <2>2, SetBytesSound, CanonicalIsBytes, ConstantsAssumption DEF SetJson
  <2>3. QED
    BY <1>4, <2>1, <2>2 DEF SetJson
<1>5. ASSUME NEW v \in View, NEW k \in Key, Delete(v, k)
      PROVE  Sound
  BY <1>5, DeleteSound
<1>6. ASSUME NEW v \in View, NEW k \in Key, Get(v, k) \/ Exists(v, k)
      PROVE  Sound
  BY <1>6, ReadSound
<1>7. CASE Close \/ CrashWhileWriting
  BY <1>7, EndSound
<1>8. QED
  BY <1>1, <1>2, <1>3, <1>4, <1>5, <1>6, <1>7 DEF Next

(***************************************************************************)
(* SPEC 8.2: a set that raises leaves the document exactly as it was, its  *)
(* order and the skip set included; a delete that raises, its members.     *)
(***************************************************************************)
THEOREM FailedCallsChangeNothing == Spec => FailureChangesNothing
<1>1. Inv /\ Inv' /\ [Next]_vars => [FailureStep]_vars
  BY NextSound DEF Sound
<1>2. QED
  BY <1>1, Invariance, PTL DEF Spec, FailureChangesNothing, FailureStep

(***************************************************************************)
(* A member the validator does not accept is destroyed by no re-persist:   *)
(* in the document only by a set or delete of its own key that succeeds,   *)
(* and in a file by one that tried to.                                     *)
(***************************************************************************)
THEOREM UnknownIsPreserved == Spec => UnknownPreserved
<1>1. Inv /\ Inv' /\ [Next]_vars => [UnknownStep]_vars
  BY NextSound DEF Sound
<1>2. QED
  BY <1>1, Invariance, PTL DEF Spec, UnknownPreserved, UnknownStep

(* The store starts as a byte store does, with whatever its backing held. *)
LEMMA InitIsAbstract == Init => Abstract!Init
<1> SUFFICES ASSUME Init PROVE Abstract!Init
  OBVIOUS
<1>1. Inv /\ ~Live
  BY InitInv DEF Init, Live
<1>2. backing.holds # Torn => backing.holds \in JsonObject
  BY <1>1 DEF Inv, TypeOK
<1>3. Contents = Kept
  BY <1>1 DEF Contents
<1>4. Kept \in [Key -> ByteString \cup {NotFound, Unreadable, Lost}]
  BY <1>2, ContentIsTyped DEF Kept, Parses
<1>5. QED
  BY <1>3, <1>4 DEF Abstract!Init, Abstract!Contents

(***************************************************************************)
(* The Python store implements the byte store: every read returns what the *)
(* last acknowledged write of its key stored, and calls that raise have no *)
(* effect on what later reads return.                                      *)
(***************************************************************************)
THEOREM PyStoreIsByteStore == Spec => ImplementsByteStore
<1>1. Init => Abstract!Init
  BY InitIsAbstract
<1>2. Inv /\ Inv' /\ [Next]_vars => [Abstract!Next]_(Abstract!vars)
  <2>1. ASSUME Inv, Inv', Next PROVE [Abstract!Next]_(Abstract!vars)
    BY <2>1, NextSound DEF Sound, AbstractStep, Abstract!vars
  <2>2. ASSUME UNCHANGED vars PROVE UNCHANGED <<reply, Contents, Kept>>
    BY <2>2, QuietContents DEF vars
  <2>3. QED
    BY <2>1, <2>2 DEF Abstract!vars
<1>3. QED
  BY <1>1, <1>2, Invariance, PTL DEF Spec, ImplementsByteStore, Abstract!Spec

-----------------------------------------------------------------------------
(***************************************************************************)
(* The listings, whatever is set, deleted or opened while one is           *)
(* suspended, for every set of keys and directories and any number of      *)
(* listings.                                                               *)
(***************************************************************************)

(* The types of a listing. *)
Listing ==
  [op : {"none", "list_prefix", "list_dir"}, dir : Seq(STRING), keys : Seq(Key),
   next : Nat \ {0}, yielded : Seq(Seq(STRING)), count : Nat]

(* Item and Yields, of any listing. *)
ItemOf(l, key) == IF l.op = "list_dir" THEN Child(l.dir, key) ELSE key

YieldsOf(l, key) ==
  l.op = "list_dir" =>
    /\ InDirectory(l.dir, key)
    /\ Child(l.dir, key) # <<"">>
    /\ \A i \in 1 .. Len(l.yielded) : l.yielded[i] # Child(l.dir, key)

(* The key is in the directory, and list_dir reports a child for it. *)
Reported(l, key) ==
  InDirectory(l.dir, key) /\ (l.op = "list_dir" => ItemOf(l, key) # <<"">>)

(* The keys taken are those shown at the beginning, each once; list_prefix *)
(* has taken none but its own.                                             *)
Takes(l, shown) ==
  /\ Once(l.keys)
  /\ \A p \in 1 .. Len(l.keys) :
       /\ l.keys[p] \in shown
       /\ l.op = "list_prefix" => InDirectory(l.dir, l.keys[p])
  /\ \A k \in shown : InDirectory(l.dir, k) => \E p \in 1 .. Len(l.keys) : l.keys[p] = k

(* What is yielded is the items of the places passed, each once. *)
Passes(l) ==
  /\ \A i \in 1 .. Len(l.yielded) : \E p \in 1 .. Len(l.keys) :
       p < l.next /\ InDirectory(l.dir, l.keys[p]) /\ l.yielded[i] = ItemOf(l, l.keys[p])
  /\ \A p \in 1 .. Len(l.keys) : p < l.next /\ Reported(l, l.keys[p]) =>
       \E i \in 1 .. Len(l.yielded) : l.yielded[i] = ItemOf(l, l.keys[p])
  /\ Once(l.yielded)

ListingInv ==
  /\ Inv
  /\ listing \in Listing
  /\ listing.op = "none" => listing.yielded = <<>>
  /\ listing.op # "none" => Takes(listing, began) /\ Passes(listing) /\ steady \subseteq began

-----------------------------------------------------------------------------
(* What a generator that begins takes. *)

(* _keys() gives what the store shows, each key once. *)
LEMMA KeysAreShown ==
  ASSUME Inv
  PROVE  /\ Keys \in Seq(Key) /\ Once(Keys)
         /\ \A p \in 1 .. Len(Keys) : Keys[p] \in Shown
         /\ \A k \in Shown : \E p \in 1 .. Len(Keys) : Keys[p] = k
<1>1. /\ document.order \in Seq(Key) /\ Once(document.order)
      /\ \A k \in Key : Has(document, k) <=>
           \E i \in 1 .. Len(document.order) : document.order[i] = k
  BY DEF Inv, TypeOK, JsonObject, OrderMatches, Once
<1> DEFINE kept == Key \ skipped
<1>2. Keys \in Seq(Key) /\ Leaves(Keys, document.order, kept, Len(document.order))
  BY <1>1, OnlyLeaves DEF Keys
<1> HIDE DEF kept
<1>3. \A k \in Key : k \in Shown <=> Has(document, k) /\ k \in kept
  BY DEF Shown, Present, kept
<1>4. ASSUME NEW p \in 1 .. Len(Keys) PROVE Keys[p] \in Shown
  <2>1. PICK q \in 1 .. Len(document.order) :
          Keys[p] = document.order[q] /\ document.order[q] \in kept
    BY <1>2 DEF Leaves
  <2>2. Keys[p] \in Key
    BY <1>2
  <2>3. QED
    BY <1>1, <1>3, <2>1, <2>2
<1>5. ASSUME NEW k \in Shown PROVE \E p \in 1 .. Len(Keys) : Keys[p] = k
  <2>1. k \in Key /\ Has(document, k) /\ k \in kept
    BY <1>3 DEF Shown
  <2>2. PICK q \in 1 .. Len(document.order) : document.order[q] = k
    BY <1>1, <2>1
  <2>3. QED
    BY <1>2, <2>1, <2>2 DEF Leaves
<1>6. QED
  BY <1>1, <1>2, <1>4, <1>5 DEF Leaves

(* A generator that begins has taken those keys and passed none of them. *)
LEMMA BeginTakes ==
  ASSUME Inv, NEW op \in {"list_prefix", "list_dir"}, NEW dir \in Directory,
         listing \in Listing, Begin(op, dir)
  PROVE  /\ listing' \in Listing /\ listing'.op # "none"
         /\ Takes(listing', Shown) /\ Passes(listing')
<1> DEFINE inside == {k \in Key : InDirectory(dir, k)}
           taken  == IF op = "list_dir" THEN Keys ELSE Only(Keys, inside)
           l      == [op |-> op, dir |-> dir, keys |-> taken, next |-> 1, yielded |-> <<>>,
                      count |-> listing.count + 1]
<1>1. listing' = l
  BY DEF Begin, NoListing
<1>2. /\ Keys \in Seq(Key) /\ Once(Keys)
      /\ \A p \in 1 .. Len(Keys) : Keys[p] \in Shown
      /\ \A k \in Shown : \E p \in 1 .. Len(Keys) : Keys[p] = k
  BY KeysAreShown
<1>3. Only(Keys, inside) \in Seq(Key) /\ Leaves(Only(Keys, inside), Keys, inside, Len(Keys))
  BY <1>2, OnlyLeaves
<1>4. \A k \in Key : k \in inside <=> InDirectory(dir, k)
  OBVIOUS
<1>5. Shown \subseteq Key
  BY DEF Shown
<1> HIDE DEF inside
<1>6. /\ taken \in Seq(Key) /\ Once(taken)
      /\ \A p \in 1 .. Len(taken) :
           taken[p] \in Shown /\ (op = "list_prefix" => InDirectory(dir, taken[p]))
      /\ \A k \in Shown : InDirectory(dir, k) => \E p \in 1 .. Len(taken) : taken[p] = k
  <2>1. CASE op = "list_dir"
    BY <1>2, <2>1
  <2>2. CASE op = "list_prefix"
    <3> DEFINE rest == Only(Keys, inside)
    <3>1. taken = rest
      BY <2>2
    <3>2. rest \in Seq(Key) /\ Leaves(rest, Keys, inside, Len(Keys))
      BY <1>3
    <3> HIDE DEF rest, taken
    <3>3. ASSUME NEW p \in 1 .. Len(rest) PROVE rest[p] \in Shown /\ InDirectory(dir, rest[p])
      <4>1. PICK q \in 1 .. Len(Keys) : rest[p] = Keys[q] /\ Keys[q] \in inside
        BY <3>2 DEF Leaves
      <4>2. QED
        BY <1>2, <1>4, <1>5, <4>1
    <3>4. ASSUME NEW k \in Shown, InDirectory(dir, k) PROVE \E p \in 1 .. Len(rest) : rest[p] = k
      <4>1. PICK q \in 1 .. Len(Keys) : Keys[q] = k
        BY <1>2
      <4>2. k \in inside
        BY <1>4, <1>5, <3>4
      <4>3. QED
        BY <3>2, <4>1, <4>2 DEF Leaves
    <3>5. Once(rest)
      BY <1>2, <3>2 DEF Leaves
    <3>6. QED
      BY <3>1, <3>2, <3>3, <3>4, <3>5
  <2>3. QED
    BY <2>1, <2>2
<1> HIDE DEF taken
<1>7. l \in Listing
  BY <1>6, DirectoryAssumption DEF Listing
<1>8. Takes(l, Shown)
  BY <1>6 DEF Takes
<1>9. Passes(l)
  BY DEF Passes, Once
<1>10. QED
  BY <1>1, <1>7, <1>8, <1>9

-----------------------------------------------------------------------------
(* A place is passed, the first from which the generator yields. *)

(* The item of a key in the directory is a path. *)
LEMMA ItemIsTyped ==
  ASSUME NEW l \in Listing, NEW key \in Key, InDirectory(l.dir, key)
  PROVE  ItemOf(l, key) \in Seq(STRING)
<1>1. key \in Seq(STRING) /\ l.dir \in Seq(STRING)
  BY KeyAssumption DEF Listing
<1>2. key[Len(l.dir) + 1] \in STRING
  BY <1>1 DEF InDirectory
<1>3. Child(l.dir, key) \in Seq(STRING)
  BY <1>2 DEF Child
<1>4. QED
  BY <1>1, <1>3 DEF ItemOf

(* To yield at the next place there is passes it and those before it. *)
LEMMA YieldPasses ==
  ASSUME NEW l \in Listing, l.op # "none", NEW shown, Takes(l, shown), Passes(l),
         NEW p \in 1 .. Len(l.keys), p >= l.next, YieldsOf(l, l.keys[p]),
         \A q \in 1 .. Len(l.keys) : l.next <= q /\ q < p => ~YieldsOf(l, l.keys[q])
  PROVE  LET m == [l EXCEPT !.next = p + 1, !.yielded = Append(@, ItemOf(l, l.keys[p]))]
         IN  m \in Listing /\ m.op = l.op /\ Takes(m, shown) /\ Passes(m)
<1> DEFINE item == ItemOf(l, l.keys[p])
           more == Append(l.yielded, item)
           m    == [l EXCEPT !.next = p + 1, !.yielded = Append(@, ItemOf(l, l.keys[p]))]
<1>1. /\ l.op \in {"list_prefix", "list_dir"} /\ l.keys \in Seq(Key) /\ l.next \in Nat \ {0}
      /\ l.yielded \in Seq(Seq(STRING)) /\ Len(l.keys) \in Nat /\ Len(l.yielded) \in Nat
      /\ l.keys[p] \in Key
  BY DEF Listing
<1>2. InDirectory(l.dir, l.keys[p])
  BY <1>1 DEF Takes, YieldsOf
<1>3. item \in Seq(STRING)
  BY <1>1, <1>2, ItemIsTyped
<1>4. /\ m.op = l.op /\ m.dir = l.dir /\ m.keys = l.keys /\ m.next = p + 1 /\ m.yielded = more
      /\ m \in Listing
  <2>1. more \in Seq(Seq(STRING))
    BY <1>1, <1>3
  <2>2. m = [l EXCEPT !.next = p + 1, !.yielded = more]
    BY DEF Listing
  <2> HIDE DEF more, m, item
  <2>3. m = [op |-> l.op, dir |-> l.dir, keys |-> l.keys, next |-> p + 1, yielded |-> more,
             count |-> l.count]
    BY <2>2 DEF Listing
  <2>4. p + 1 \in Nat \ {0}
    BY <1>1
  <2>5. QED
    BY <2>1, <2>3, <2>4 DEF Listing
<1>5. \A k : ItemOf(m, k) = ItemOf(l, k) /\ (Reported(m, k) <=> Reported(l, k))
  BY <1>4 DEF ItemOf, Reported
<1>6. /\ Len(more) = Len(l.yielded) + 1 /\ more[Len(l.yielded) + 1] = item
      /\ \A i \in 1 .. Len(l.yielded) : more[i] = l.yielded[i]
  BY <1>1, <1>3
<1> HIDE DEF m, more
<1>7. Takes(m, shown)
  BY <1>4 DEF Takes
<1>8. ASSUME NEW i \in 1 .. Len(more)
      PROVE  \E q \in 1 .. Len(l.keys) :
               q < p + 1 /\ InDirectory(l.dir, l.keys[q]) /\ more[i] = ItemOf(l, l.keys[q])
  <2>1. CASE i = Len(l.yielded) + 1
    BY <1>2, <1>6, <2>1
  <2>2. CASE i \in 1 .. Len(l.yielded)
    <3>1. PICK q \in 1 .. Len(l.keys) :
            q < l.next /\ InDirectory(l.dir, l.keys[q]) /\ l.yielded[i] = ItemOf(l, l.keys[q])
      BY <2>2 DEF Passes
    <3>2. q < p + 1
      BY <1>1, <3>1
    <3>3. QED
      BY <1>6, <2>2, <3>1, <3>2
  <2>3. QED
    BY <1>1, <1>6, <2>1, <2>2
<1>9. ASSUME NEW q \in 1 .. Len(l.keys), q < p + 1, Reported(l, l.keys[q])
      PROVE  \E i \in 1 .. Len(more) : more[i] = ItemOf(l, l.keys[q])
  <2>1. CASE q = p
    BY <1>1, <1>6, <2>1
  <2>2. ASSUME \E i \in 1 .. Len(l.yielded) : l.yielded[i] = ItemOf(l, l.keys[q])
        PROVE  \E i \in 1 .. Len(more) : more[i] = ItemOf(l, l.keys[q])
    BY <1>1, <1>6, <2>2
  <2>3. CASE q < l.next
    BY <1>9, <2>2, <2>3 DEF Passes
  <2>4. CASE l.next <= q /\ q < p
    <3>1. ~YieldsOf(l, l.keys[q])
      BY <2>4
    <3>2. \E i \in 1 .. Len(l.yielded) : l.yielded[i] = ItemOf(l, l.keys[q])
      BY <1>9, <3>1 DEF YieldsOf, Reported, ItemOf
    <3>3. QED
      BY <2>2, <3>2
  <2>5. QED
    BY <1>1, <1>9, <2>1, <2>3, <2>4
<1>10. ASSUME NEW i \in 1 .. Len(l.yielded) PROVE l.yielded[i] # item
  <2>1. CASE l.op = "list_dir"
    BY <2>1 DEF YieldsOf, ItemOf
  <2>2. CASE l.op = "list_prefix"
    <3>1. PICK q \in 1 .. Len(l.keys) : q < l.next /\ l.yielded[i] = l.keys[q]
      BY <2>2 DEF Passes, ItemOf
    <3>2. q # p
      BY <1>1, <3>1
    <3>3. l.keys[q] # l.keys[p]
      BY <3>2 DEF Takes, Once
    <3>4. QED
      BY <2>2, <3>1, <3>3 DEF ItemOf
  <2>3. QED
    BY <1>1, <2>1, <2>2
<1>11. Once(more)
  <2>1. Once(l.yielded)
    BY DEF Passes
  <2> DEFINE last == Len(l.yielded) + 1
  <2>2. \A i \in 1 .. Len(l.yielded) : more[i] # more[last]
    BY <1>6, <1>10
  <2> HIDE DEF item
  <2>3. \A i \in 1 .. Len(more) : i = last \/ i \in 1 .. Len(l.yielded)
    BY <1>1, <1>6
  <2>4. \A i, j \in 1 .. Len(l.yielded) : more[i] = more[j] => i = j
    BY <1>6, <2>1 DEF Once
  <2> HIDE DEF last
  <2>5. QED
    BY <2>2, <2>3, <2>4 DEF Once
<1>12. Passes(m)
  BY <1>4, <1>5, <1>8, <1>9, <1>11 DEF Passes
<1>13. QED
  BY <1>4, <1>7, <1>12 DEF m
(* Another method: the place the generator is at and the keys it took stay. *)
LEMMA OtherMethodInv ==
  ASSUME ListingInv, OtherMethod
  PROVE  ListingInv'
<1>1. Inv'
  BY NextInv DEF ListingInv, OtherMethod
<1>2. CASE steady' = steady \cap Shown' /\ UNCHANGED <<listing, began>>
  <2>1. listing' = listing /\ began' = began /\ steady' \subseteq steady
    BY <1>2
  <2>2. QED
    BY <1>1, <2>1 DEF ListingInv
<1>3. CASE listing' = NoListing(listing.count)
  BY <1>1, <1>3 DEF ListingInv, Listing, NoListing
<1>4. QED
  BY <1>2, <1>3 DEF OtherMethod

(* Yield, by the place it stops at. *)
LEMMA YieldInv ==
  ASSUME ListingInv, Yield
  PROVE  ListingInv'
<1>1. /\ Inv /\ listing \in Listing /\ listing.op # "none"
      /\ Takes(listing, began) /\ Passes(listing) /\ steady \subseteq began
  BY DEF ListingInv, Yield
<1>2. DOMAIN listing.keys = 1 .. Len(listing.keys) /\ listing.next \in Nat /\ Len(listing.keys) \in Nat
  BY <1>1 DEF Listing
<1>3. \A key : Yields(key) <=> YieldsOf(listing, key)
  <2>1. DOMAIN listing.yielded = 1 .. Len(listing.yielded)
    BY <1>1 DEF Listing
  <2>2. QED
    BY <2>1, Zenon DEF Yields, YieldsOf
<1>4. PICK p \in Places :
        /\ \A q \in Places : p <= q
        /\ listing' = [listing EXCEPT !.next = p + 1, !.yielded = Append(@, Item(Source[p]))]
  BY DEF Yield
<1>5. p \in 1 .. Len(listing.keys) /\ p >= listing.next /\ YieldsOf(listing, listing.keys[p])
  BY <1>2, <1>3, <1>4 DEF Places, Source
<1>6. ASSUME NEW q \in 1 .. Len(listing.keys), listing.next <= q, q < p,
             YieldsOf(listing, listing.keys[q])
      PROVE  FALSE
  <2>1. q \in Places
    BY <1>2, <1>3, <1>6 DEF Places, Source
  <2>2. p <= q
    BY <1>4, <2>1
  <2>3. QED
    BY <1>2, <1>5, <1>6, <2>2
<1>7. Item(Source[p]) = ItemOf(listing, listing.keys[p])
  BY DEF Item, ItemOf, Source
<1> DEFINE m == [listing EXCEPT !.next = p + 1,
                                !.yielded = Append(@, ItemOf(listing, listing.keys[p]))]
<1>8. listing' = m
  BY <1>4, <1>7
<1>9. m \in Listing /\ m.op = listing.op /\ Takes(m, began) /\ Passes(m)
  BY <1>1, <1>5, <1>6, YieldPasses
<1> HIDE DEF m
<1>10. Inv'
  BY <1>1, NextInv DEF Yield
<1>11. began' = began /\ steady' = steady
  BY DEF Yield, historyVars
<1>12. listing' \in Listing /\ listing'.op # "none" /\ Takes(listing', began') /\ Passes(listing')
  BY <1>1, <1>8, <1>9, <1>11
<1>13. QED
  BY <1>1, <1>10, <1>11, <1>12 DEF ListingInv

(* Every request of the consumer, and every other method, keeps the invariant. *)
LEMMA ListingNextInv == ListingInv /\ [ListingNext]_allVars => ListingInv'
<1> SUFFICES ASSUME ListingInv, [ListingNext]_allVars PROVE ListingInv'
  OBVIOUS
<1>1. Inv /\ listing \in Listing
  BY DEF ListingInv
<1>2. ASSUME NEW op \in {"list_prefix", "list_dir"}, NEW dir \in Directory, Begin(op, dir)
      PROVE  ListingInv'
  <2>1. Inv' /\ began' = Shown /\ steady' = Shown
    BY <1>1, <1>2, NextInv DEF Begin
  <2>2. /\ listing' \in Listing /\ listing'.op # "none"
        /\ Takes(listing', Shown) /\ Passes(listing')
    BY <1>1, <1>2, BeginTakes
  <2>3. QED
    BY <2>1, <2>2 DEF ListingInv
<1>3. CASE End
  <2>1. Inv' /\ listing' = NoListing(listing.count)
    BY <1>1, <1>3, NextInv DEF End
  <2>2. QED
    BY <1>1, <2>1 DEF ListingInv, Listing, NoListing
<1>4. CASE UNCHANGED allVars
  <2>1. Inv' /\ UNCHANGED <<listing, began, steady>>
    BY <1>1, <1>4, NextInv DEF allVars, historyVars
  <2>2. QED
    BY <2>1 DEF ListingInv
<1>5. QED
  BY <1>2, <1>3, <1>4, YieldInv, OtherMethodInv DEF ListingNext

(* No listing has begun. *)
LEMMA ListingInitInv == ListingInit => ListingInv
<1> SUFFICES ASSUME ListingInit PROVE ListingInv
  OBVIOUS
<1>1. Inv /\ listing = NoListing(0)
  BY InitInv DEF ListingInit
<1>2. QED
  BY <1>1 DEF ListingInv, Listing, NoListing

-----------------------------------------------------------------------------
(***************************************************************************)
(* The inductive invariant, under any interleaving of a listing with the   *)
(* other methods.                                                          *)
(***************************************************************************)
THEOREM ListingInvariance == ListingSpec => []ListingInv
<1>1. QED
  BY ListingInitInv, ListingNextInv, PTL DEF ListingSpec

(* A listing with no place left has passed every key that stayed. *)
LEMMA InvListsSteadyKeys == ListingInv => ListsSteadyKeys
<1> SUFFICES ASSUME ListingInv, Exhausted, NEW k \in steady, Reported(listing, k)
             PROVE  \E i \in DOMAIN listing.yielded : listing.yielded[i] = ItemOf(listing, k)
  BY Zenon DEF ListsSteadyKeys, Item, ItemOf, Reported
<1>1. /\ listing \in Listing /\ listing.op # "none" /\ Places = {}
      /\ Takes(listing, began) /\ Passes(listing) /\ k \in began
  BY DEF ListingInv, Exhausted
<1>2. /\ DOMAIN listing.keys = 1 .. Len(listing.keys) /\ listing.next \in Nat
      /\ DOMAIN listing.yielded = 1 .. Len(listing.yielded) /\ Len(listing.keys) \in Nat
  BY <1>1 DEF Listing
<1>3. PICK p \in 1 .. Len(listing.keys) : listing.keys[p] = k
  BY <1>1 DEF Takes, Reported
<1>4. CASE p < listing.next
  BY <1>1, <1>2, <1>3, <1>4 DEF Passes
<1>5. CASE p >= listing.next
  <2>1. ~Yields(k)
    BY <1>1, <1>2, <1>3, <1>5 DEF Places, Source
  <2>2. QED
    BY <2>1 DEF Yields, Reported, ItemOf
<1>6. QED
  BY <1>2, <1>4, <1>5

(***************************************************************************)
(* list, list_prefix and list_dir give the consumer every key that stayed  *)
(* in the store while they ran.                                            *)
(***************************************************************************)
THEOREM SteadyKeysAreListed == ListingSpec => []ListsSteadyKeys
<1>1. QED
  BY ListingInvariance, InvListsSteadyKeys, PTL

(* What is yielded are the items of different places of the keys taken. *)
LEMMA InvYieldsOnce == ListingInv => YieldsOnce
<1> SUFFICES ASSUME ListingInv, NEW i \in DOMAIN listing.yielded
             PROVE  /\ \E k \in began : InDirectory(listing.dir, k)
                                        /\ listing.yielded[i] = Item(k)
                    /\ \A j \in DOMAIN listing.yielded :
                         listing.yielded[i] = listing.yielded[j] => i = j
  BY DEF YieldsOnce
<1>1. listing \in Listing /\ DOMAIN listing.yielded = 1 .. Len(listing.yielded)
  BY DEF ListingInv, Listing
<1>2. listing.op # "none"
  BY <1>1 DEF ListingInv
<1>3. Takes(listing, began) /\ Passes(listing)
  BY <1>2 DEF ListingInv
<1>4. PICK p \in 1 .. Len(listing.keys) :
        InDirectory(listing.dir, listing.keys[p])
        /\ listing.yielded[i] = ItemOf(listing, listing.keys[p])
  BY <1>1, <1>3 DEF Passes
<1>5. listing.keys[p] \in began /\ Item(listing.keys[p]) = ItemOf(listing, listing.keys[p])
  BY <1>3 DEF Takes, Item, ItemOf
<1>6. QED
  BY <1>1, <1>3, <1>4, <1>5 DEF Passes, Once

(***************************************************************************)
(* Nothing is yielded twice, and nothing the store did not show when the   *)
(* listing began.                                                          *)
(***************************************************************************)
THEOREM NothingIsYieldedTwice == ListingSpec => []YieldsOnce
<1>1. QED
  BY ListingInvariance, InvYieldsOnce, PTL

=============================================================================
