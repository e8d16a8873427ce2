------------------------ MODULE SharedDocumentProofs ------------------------
(***************************************************************************)
(* What several stores over one object show, proved for any number of      *)
(* stores, any keys, bytes and initial documents.                          *)
(***************************************************************************)
EXTENDS SharedDocument, JsonDocumentProofs

Inv == TypeOK /\ NothingInvalidShown

(* Whatever changes the issues of the document by its own key only, and    *)
(* that key's skip only in the store that does it, keeps the invariant.    *)
LEMMA OneKeyInv ==
  ASSUME Inv, NEW s \in Store, NEW key \in Key, s \in open,
         document' \in JsonObject,
         IssueKeys(document') = IssueKeys(document) \ {key},
         \A k \in Key : k # key => (Has(document', k) <=> Has(document, k)),
         skipped' = [skipped EXCEPT ![s] = @ \ {key}],
         UNCHANGED open
  PROVE  Inv'
<1>1. TypeOK'
  BY DEF Inv, TypeOK
<1>2. ASSUME NEW t \in open, NEW k \in IssueKeys(document')
      PROVE  ~(Has(document', k) /\ k \notin skipped'[t])
  <2>1. k \in IssueKeys(document) /\ k # key /\ k \in Key
    BY <1>2 DEF IssueKeys
  <2>2. k \in skipped[t]
    BY <1>2, <2>1 DEF Inv, NothingInvalidShown, Present, IssueKeys
  <2>3. k \in skipped'[t]
    BY <1>2, <2>1, <2>2 DEF Inv, TypeOK
  <2>4. QED
    BY <2>3
<1>3. QED
  BY <1>1, <1>2 DEF Inv, NothingInvalidShown, Present

(* No store is open. *)
LEMMA InitInv == Init => Inv
  BY ConstantsAssumption DEF Init, Inv, TypeOK, NothingInvalidShown

(* A store computes its skip set from the document the others are changing. *)
LEMMA OpenInv ==
  ASSUME Inv, NEW s \in Store, Open(s)
  PROVE  Inv'
<1>1. TypeOK'
  BY DEF Inv, TypeOK, Open, IssueKeys
<1>2. ASSUME NEW t \in open', NEW k \in IssueKeys(document')
      PROVE  ~(Has(document', k) /\ k \notin skipped'[t])
  <2>1. CASE t = s
    BY <1>2, <2>1 DEF Inv, TypeOK, Open
  <2>2. CASE t # s
    BY <1>2, <2>2 DEF Inv, TypeOK, NothingInvalidShown, Present, Open
  <2>3. QED
    BY <2>1, <2>2
<1>3. QED
  BY <1>1, <1>2 DEF Inv, NothingInvalidShown, Present

(* What a set writes is valid, whatever was at its key. *)
LEMMA Written ==
  ASSUME Inv, NEW s \in Store, NEW key \in Key, NEW bytes \in Bytes, Set(s, key, bytes)
  PROVE  /\ document' \in JsonObject
         /\ IssueKeys(document') = IssueKeys(document) \ {key}
         /\ \A k \in Key : k # key => (Has(document', k) <=> Has(document, k))
         /\ Has(document', key)
<1> DEFINE value == EncodeValue(key, bytes)
<1>1. /\ document \in JsonObject
      /\ document.at \in [Key -> Member \cup {Missing}]
  BY DEF Inv, TypeOK, JsonObject
<1>2. bytes \in ByteString /\ IsWellFormed(key) /\ value # CodecError
  BY ConstantsAssumption DEF Set
<1>3. value \in Member /\ HasValidType(key, value)
  BY <1>2, EncodeIsMember
<1>4. document' = Put(document, key, value)
  BY DEF Set
<1> HIDE DEF value
<1>5. document'.at = [document.at EXCEPT ![key] = value]
  BY <1>4 DEF Put
<1>6. document' \in JsonObject
  BY <1>1, <1>3, <1>4, PutIsObject
<1>7. IssueKeys(document') = IssueKeys(document) \ {key}
  BY <1>1, <1>2, <1>3, <1>4, IssuesAfterPut
<1>8. QED
  BY <1>1, <1>3, <1>5, <1>6, <1>7, MemberIsNotMissing DEF Has

(* delete takes one member out of the document. *)
LEMMA Removed ==
  ASSUME Inv, NEW s \in Store, NEW key \in Key, Delete(s, key)
  PROVE  /\ document' \in JsonObject
         /\ IssueKeys(document') = IssueKeys(document) \ {key}
         /\ \A k \in Key : k # key => (Has(document', k) <=> Has(document, k))
         /\ ~Has(document', key)
<1>1. /\ document \in JsonObject
      /\ document.at \in [Key -> Member \cup {Missing}]
  BY DEF Inv, TypeOK, JsonObject
<1>2. document' = Pop(document, key)
  BY DEF Delete
<1>3. document'.at = [document.at EXCEPT ![key] = Missing]
  BY <1>2 DEF Pop
<1>4. document' \in JsonObject
  BY <1>1, <1>2, RemoveIsObject
<1>5. IssueKeys(document') = IssueKeys(document) \ {key}
  BY <1>1, <1>2, IssuesAfterRemove
<1>6. QED
  BY <1>1, <1>3, <1>4, <1>5 DEF Has

(* Every call of every store keeps the invariant. *)
LEMMA NextInv == Inv /\ [Next]_vars => Inv'
<1> SUFFICES ASSUME Inv, [Next]_vars
             PROVE  Inv'
  OBVIOUS
<1>1. ASSUME NEW s \in Store, Open(s)
      PROVE  Inv'
  BY <1>1, OpenInv
<1>2. ASSUME NEW s \in Store, NEW k \in Key, Delete(s, k)
      PROVE  Inv'
  <2>1. /\ s \in open /\ UNCHANGED open
        /\ skipped' = [skipped EXCEPT ![s] = @ \ {k}]
    BY <1>2 DEF Delete
  <2>2. QED
    BY <1>2, <2>1, Removed, OneKeyInv
<1>3. ASSUME NEW s \in Store, NEW k \in Key, NEW b \in Bytes, Set(s, k, b)
      PROVE  Inv'
  <2>1. /\ s \in open /\ UNCHANGED open
        /\ skipped' = [skipped EXCEPT ![s] = @ \ {k}]
    BY <1>3 DEF Set
  <2>2. QED
    BY <1>3, <2>1, Written, OneKeyInv
<1>4. CASE UNCHANGED vars
  BY <1>4 DEF vars, Inv, TypeOK, NothingInvalidShown, Present
<1>5. QED
  BY <1>1, <1>2, <1>3, <1>4 DEF Next

(* The inductive invariant, for any number of stores opened at any time. *)
THEOREM Invariance == Spec => []Inv
<1>1. QED
  BY InitInv, NextInv, PTL DEF Spec

(* No store shows what the validator refuses, though others write the same *)
(* object and this one's skips were computed long ago.                     *)
THEOREM ShowsNothingInvalid == Spec => []NothingInvalidShown
<1>1. Inv => NothingInvalidShown
  BY DEF Inv
<1>2. QED
  BY <1>1, Invariance, PTL

(* What a store shows it loses by a deletion of that key and nothing else. *)
THEOREM GoesOnShowing == Spec => StaysShown
<1>1. Inv /\ [Next]_vars =>
        [\A s \in open : \A k \in Key :
           Present(s, k) /\ ~(Has(document', k) /\ k \notin skipped'[s])
             => ~Has(document', k)]_vars
  <2> SUFFICES ASSUME Inv, Next,
                      NEW t \in open, NEW k \in Key, Present(t, k), Has(document', k)
               PROVE  k \notin skipped'[t]
    OBVIOUS
  <2>1. ASSUME NEW s \in Store, Open(s)
        PROVE  k \notin skipped'[t]
    <3>1. k \notin IssueKeys(document)
      BY DEF Inv, NothingInvalidShown, Present
    <3>2. QED
      BY <2>1, <3>1 DEF Open, Inv, TypeOK, Present
  <2>2. ASSUME NEW s \in Store, NEW j \in Key, skipped' = [skipped EXCEPT ![s] = @ \ {j}]
        PROVE  k \notin skipped'[t]
    BY <2>2 DEF Inv, TypeOK, Present
  <2>3. QED
    BY <2>1, <2>2 DEF Next, Delete, Set
<1>2. QED
  BY <1>1, Invariance, PTL DEF Spec, StaysShown

=============================================================================
