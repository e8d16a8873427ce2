---------------------------- MODULE JsonDocument ----------------------------
(***************************************************************************)
(* A document: one JSON object whose members are the entries of a store.   *)
(* It has the member at each key and the order of its members, which the   *)
(* text of the document shows.  The Python dict and the null-prototype     *)
(* object of TypeScript keep the order in which keys were first assigned.  *)
(***************************************************************************)
EXTENDS InlineDocument

CONSTANT Key    (* keys callers name, malformed ones included *)

ASSUME KeyAssumption == Key \subseteq Seq(STRING) \ {<<>>}

Has(doc, key) == doc.at[key] # Missing

(* The order lists the keys the document has, each once. *)
OrderMatches(doc) ==
  /\ \A k \in Key : Has(doc, k) <=> \E i \in 1 .. Len(doc.order) : doc.order[i] = k
  /\ \A i, j \in 1 .. Len(doc.order) : doc.order[i] = doc.order[j] => i = j

JsonObject ==
  {doc \in [at : [Key -> Member \cup {Missing}], order : Seq(Key)] : OrderMatches(doc)}

-----------------------------------------------------------------------------
(* Assignment and removal of a member. *)

(* doc[key] = value: in place if the key is there, at the end if not. *)
Put(doc, key, value) ==
  [at    |-> [doc.at EXCEPT ![key] = value],
   order |-> IF Has(doc, key) THEN doc.order ELSE Append(doc.order, key)]

(* The order without the place of a key. *)
Without(order, key) ==
  LET place == CHOOSE i \in 1 .. Len(order) : order[i] = key
  IN  SubSeq(order, 1, place - 1) \o SubSeq(order, place + 1, Len(order))

(* The keys of an order that are kept, in that order. *)
Only(order, kept) ==
  LET upTo[n \in 0 .. Len(order)] ==
        IF n = 0 THEN <<>>
        ELSE IF order[n] \in kept THEN Append(upTo[n - 1], order[n]) ELSE upTo[n - 1]
  IN  upTo[Len(order)]

(* doc.pop(key, missing), del doc[key], delete doc[key]. *)
Pop(doc, key) ==
  [at    |-> [doc.at EXCEPT ![key] = Missing],
   order |-> IF Has(doc, key) THEN Without(doc.order, key) ELSE doc.order]

(* Mutant: the undo is forgotten. *)
RestoreNothing(doc, key, previous) == doc

(* Mutant: the undo takes the key out even if it was there before. *)
RestoreRemoving(doc, key, previous) == Pop(doc, key)

(* Put back what was there, or take out what was not. *)
Restore(doc, key, previous) ==
  IF previous = Missing THEN Pop(doc, key) ELSE Put(doc, key, previous)

-----------------------------------------------------------------------------
(* What a document holds. *)

(* The keys validate reports an issue for. *)
IssueKeys(doc) == {k \in Key : Has(doc, k) /\ HasIssue(k, doc.at[k])}

(* The members with an issue that another document does not have alike. *)
HiddenChanges(doc, next) == {k \in IssueKeys(doc) : next.at[k] # doc.at[k]}

(* What a backing holds when that is no document that load could return. *)
Torn == [at |-> "torn"]

(* Some member, shown or not, holds a string without a UTF-8 form. *)
HasSurrogate(doc) ==
  \E k \in Key : doc.at[k].kind \in {"object", "array", "text"} /\ doc.at[k].of \in Surrogate

(* What reads return, of a store that hides some keys. *)
ContentOf(doc, hidden) ==
  [k \in Key |-> IF Has(doc, k) /\ k \notin hidden THEN DecodeValue(k, doc.at[k])
                                                  ELSE NotFound]

Stored == [k \in Key |-> [b \in ByteString |-> Normal(k, b)]]

=============================================================================
