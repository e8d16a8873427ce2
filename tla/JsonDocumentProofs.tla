------------------------- MODULE JsonDocumentProofs -------------------------
(***************************************************************************)
(* Lemmas about the entry transform and about documents, for every set of  *)
(* keys and payloads: what the stores' proofs rest on.                     *)
(***************************************************************************)
EXTENDS JsonDocument, SequenceTheorems, FiniteSetTheorems, TLAPS

(* Bytes that are accepted become a member, and one that obeys R2. *)
LEMMA EncodeIsMember ==
  ASSUME NEW key, NEW bytes \in ByteString, EncodeValue(key, bytes) # CodecError
  PROVE  /\ EncodeValue(key, bytes) \in Member
         /\ HasValidType(key, EncodeValue(key, bytes))
<1>1. ParsesToContainer(bytes) => bytes.of \in Container
  BY DEF ParsesToContainer, ByteString, Container
<1>2. CASE IsMetadataKey(key)
  <2>1. /\ EncodeValue(key, bytes) = bytes.of
        /\ bytes.of \in Container
        /\ bytes.of.kind = "object"
    BY <1>1, <1>2 DEF EncodeValue
  <2>2. QED
    BY <1>2, <2>1 DEF HasValidType, Member
<1>3. CASE ~IsMetadataKey(key) /\ TryInlineJson(bytes) # NotInlined
  <2>1. EncodeValue(key, bytes) \in Container
    BY <1>1, <1>3 DEF EncodeValue, TryInlineJson
  <2>2. QED
    BY <1>3, <2>1 DEF HasValidType, Member, Container
<1>4. CASE ~IsMetadataKey(key) /\ TryInlineJson(bytes) = NotInlined
  <2>1. EncodeValue(key, bytes) = [kind |-> "base64", of |-> bytes]
    BY <1>4 DEF EncodeValue
  <2>2. QED
    BY <1>4, <2>1 DEF HasValidType, Member
<1>5. QED
  BY <1>2, <1>3, <1>4

(* A member decodes to bytes, or not at all. *)
LEMMA DecodeIsBytes ==
  ASSUME NEW key, NEW value \in Member
  PROVE  DecodeValue(key, value) \in ByteString \cup {Unreadable}
<1>1. ASSUME HasCanonicalForm(value)
      PROVE  Canonical(value) \in ByteString
  BY <1>1 DEF HasCanonicalForm, IsContainer, Canonical, ByteString, Member, Container
<1>2. value.kind = "base64" => value.of \in ByteString
  BY DEF Member, Container
<1>3. QED
  BY <1>1, <1>2 DEF DecodeValue

(* What set_json writes is a byte string, which every check accepts. *)
LEMMA CanonicalIsBytes ==
  ASSUME NEW key, NEW json \in Container \cup [kind : {"text", "scalar"}, of : Payload],
         FitsKey(key, json)
  PROVE  Canonical(json) \in ByteString
  BY DEF FitsKey, HasCanonicalForm, IsContainer, Canonical, ByteString, Container

(* No member is the mark of a missing one. *)
LEMMA MemberIsNotMissing == Missing \notin Member
  BY DEF Missing, Member, Container

(* A document with a member put is a document: its order lists it once. *)
LEMMA PutIsObject ==
  ASSUME NEW doc \in JsonObject, NEW key \in Key, NEW value \in Member
  PROVE  Put(doc, key, value) \in JsonObject
<1>1. value # Missing
  BY MemberIsNotMissing
<1>2. CASE Has(doc, key)
  BY <1>1, <1>2 DEF Put, JsonObject, OrderMatches, Has
<1>3. CASE ~Has(doc, key)
  <2>1. Put(doc, key, value) = [at    |-> [doc.at EXCEPT ![key] = value],
                               order |-> Append(doc.order, key)]
    BY <1>3 DEF Put
  <2>2. /\ Append(doc.order, key) \in Seq(Key)
        /\ Len(Append(doc.order, key)) = Len(doc.order) + 1
        /\ Append(doc.order, key)[Len(doc.order) + 1] = key
        /\ \A i \in 1 .. Len(doc.order) : Append(doc.order, key)[i] = doc.order[i]
        /\ Len(doc.order) \in Nat
    BY DEF JsonObject
  <2>3. OrderMatches(Put(doc, key, value))
    BY <1>1, <1>3, <2>1, <2>2 DEF JsonObject, OrderMatches, Has
  <2>4. QED
    BY <2>1, <2>2, <2>3 DEF JsonObject
<1>4. QED
  BY <1>2, <1>3

(* A sequence without its p-th element. *)
LEMMA CloseGap ==
  ASSUME NEW S, NEW s \in Seq(S), NEW p \in 1 .. Len(s), NEW r,
         r = SubSeq(s, 1, p - 1) \o SubSeq(s, p + 1, Len(s))
  PROVE  /\ r \in Seq(S)
         /\ Len(r) = Len(s) - 1
         /\ \A i \in 1 .. Len(r) : r[i] = IF i < p THEN s[i] ELSE s[i + 1]
<1> DEFINE front == SubSeq(s, 1, p - 1)
           back  == SubSeq(s, p + 1, Len(s))
<1>1. /\ front \in Seq(S)
      /\ Len(front) = p - 1
      /\ \A i \in 1 .. p - 1 : front[i] = s[i]
  OBVIOUS
<1>2. /\ back \in Seq(S)
      /\ Len(back) = Len(s) - p
      /\ \A i \in 1 .. Len(s) - p : back[i] = s[p + i]
  OBVIOUS
<1>3. r = front \o back
  OBVIOUS
<1> HIDE DEF front, back
<1> DEFINE both == front \o back
<1>4. /\ both \in Seq(S)
      /\ Len(both) = Len(front) + Len(back)
      /\ \A i \in 1 .. Len(front) + Len(back) :
           both[i] = IF i <= Len(front) THEN front[i] ELSE back[i - Len(front)]
  BY <1>1, <1>2, ConcatProperties
<1> HIDE DEF both
<1>5. /\ both \in Seq(S)
      /\ Len(both) = Len(s) - 1
  BY <1>1, <1>2, <1>4
<1>6. ASSUME NEW i \in 1 .. Len(both)
      PROVE  both[i] = IF i < p THEN s[i] ELSE s[i + 1]
  <2>1. CASE i < p
    <3>1. i \in 1 .. p - 1 /\ i \in 1 .. Len(front) + Len(back)
      BY <2>1, <1>1, <1>2, <1>4
    <3>2. QED
      BY <2>1, <3>1, <1>1, <1>4
  <2>2. CASE ~(i < p)
    <3>1. both[i] = back[i - (p - 1)] /\ i - (p - 1) \in 1 .. Len(s) - p
      BY <2>2, <1>1, <1>2, <1>4, <1>5
    <3>2. back[i - (p - 1)] = s[p + (i - (p - 1))]
      BY <3>1, <1>2
    <3>3. p + (i - (p - 1)) = i + 1
      BY <1>5
    <3>4. QED
      BY <2>2, <3>1, <3>2, <3>3
  <2>3. QED
    BY <2>1, <2>2
<1>7. r = both
  BY <1>3 DEF both
<1>8. QED
  BY <1>5, <1>6, <1>7

(* A document without one of its members is a document. *)
LEMMA RemoveIsObject ==
  ASSUME NEW doc \in JsonObject, NEW key \in Key
  PROVE  Pop(doc, key) \in JsonObject
<1>1. CASE ~Has(doc, key)
  BY <1>1 DEF Pop, JsonObject, OrderMatches, Has
<1>2. CASE Has(doc, key)
  <2> DEFINE order == doc.order
             place == CHOOSE i \in 1 .. Len(order) : order[i] = key
             rest  == Without(order, key)
  <2>1. /\ order \in Seq(Key)
        /\ Len(order) \in Nat
        /\ place \in 1 .. Len(order)
        /\ order[place] = key
    BY <1>2 DEF JsonObject, OrderMatches, order
  <2>2. rest = SubSeq(order, 1, place - 1) \o SubSeq(order, place + 1, Len(order))
    BY DEF Without
  <2> HIDE DEF order, place, rest
  <2>3. /\ rest \in Seq(Key)
        /\ Len(rest) = Len(order) - 1
        /\ \A i \in 1 .. Len(rest) : rest[i] = IF i < place THEN order[i] ELSE order[i + 1]
    <3>1. \A s \in Seq(Key) : \A p \in 1 .. Len(s) : \A r :
            r = SubSeq(s, 1, p - 1) \o SubSeq(s, p + 1, Len(s))
            => /\ r \in Seq(Key)
               /\ Len(r) = Len(s) - 1
               /\ \A i \in 1 .. Len(r) : r[i] = IF i < p THEN s[i] ELSE s[i + 1]
      BY CloseGap, Zenon
    <3>2. QED
      BY <3>1, <2>1, <2>2, Zenon
  <2>4. Pop(doc, key) = [at |-> [doc.at EXCEPT ![key] = Missing], order |-> rest]
    BY <1>2 DEF Pop, rest, order
  <2>5. ASSUME NEW k \in Key
        PROVE  Has(Pop(doc, key), k) <=> \E i \in 1 .. Len(rest) : rest[i] = k
    <3>1. CASE k = key
      <4>1. ~Has(Pop(doc, key), k)
        BY <3>1, <2>4 DEF JsonObject, Has
      <4>2. ASSUME NEW i \in 1 .. Len(rest), rest[i] = key
            PROVE  FALSE
        <5>1. PICK j \in 1 .. Len(order) : j # place /\ order[j] = key
          BY <4>2, <2>1, <2>3
        <5>2. QED
          BY <5>1, <2>1 DEF JsonObject, OrderMatches, order
      <4>3. QED
        BY <3>1, <4>1, <4>2
    <3>2. CASE k # key
      <4>1. Has(Pop(doc, key), k) <=> Has(doc, k)
        BY <3>2, <2>4 DEF JsonObject, Has
      <4>2. ASSUME NEW i \in 1 .. Len(order), order[i] = k
            PROVE  \E j \in 1 .. Len(rest) : rest[j] = k
        <5>1. CASE i < place
          BY <5>1, <4>2, <2>1, <2>3
        <5>2. CASE i > place
          <6>1. i - 1 \in 1 .. Len(rest) /\ rest[i - 1] = order[i]
            BY <5>2, <2>1, <2>3
          <6>2. QED
            BY <6>1, <4>2
        <5>3. QED
          BY <5>1, <5>2, <4>2, <3>2, <2>1
      <4>3. ASSUME NEW j \in 1 .. Len(rest), rest[j] = k
            PROVE  \E i \in 1 .. Len(order) : order[i] = k
        BY <4>3, <2>1, <2>3
      <4>4. QED
        BY <4>1, <4>2, <4>3 DEF JsonObject, OrderMatches, order
    <3>3. QED
      BY <3>1, <3>2
  <2>6. ASSUME NEW i \in 1 .. Len(rest), NEW j \in 1 .. Len(rest), rest[i] = rest[j]
        PROVE  i = j
    <3>1. \A m, n \in 1 .. Len(order) : order[m] = order[n] => m = n
      BY DEF JsonObject, OrderMatches, order
    <3>2. QED
      BY <2>1, <2>3, <2>6, <3>1, SMTT(20)
  <2>7. [doc.at EXCEPT ![key] = Missing] \in [Key -> Member \cup {Missing}]
    BY DEF JsonObject
  <2>8. OrderMatches(Pop(doc, key))
    <3>1. Pop(doc, key).order = rest
      BY <2>4
    <3>2. \A k \in Key : Has(Pop(doc, key), k) <=> \E i \in 1 .. Len(rest) : rest[i] = k
      BY <2>5
    <3>3. \A i, j \in 1 .. Len(rest) : rest[i] = rest[j] => i = j
      BY <2>6
    <3>4. QED
      BY <3>1, <3>2, <3>3, Zenon DEF OrderMatches
  <2>9. QED
    BY <2>3, <2>4, <2>7, <2>8 DEF JsonObject
<1>3. QED
  BY <1>1, <1>2

-----------------------------------------------------------------------------
(* Undoing a mutation, and what a mutation does to the issues. *)

(* So is one that an undo has put back together. *)
LEMMA RestoreIsObject ==
  ASSUME NEW doc \in JsonObject, NEW key \in Key, NEW previous \in Member \cup {Missing}
  PROVE  Restore(doc, key, previous) \in JsonObject
  BY PutIsObject, RemoveIsObject DEF Restore

(* The undo of a put or a remove gives back every member, if not its place. *)
LEMMA UndoneMembers ==
  ASSUME NEW doc \in JsonObject, NEW key \in Key, NEW value \in Member \cup {Missing}
  PROVE  /\ Restore(Put(doc, key, value), key, doc.at[key]).at = doc.at
         /\ Restore(Pop(doc, key), key, doc.at[key]).at = doc.at
  BY DEF Restore, Put, Pop, JsonObject

(* A torn medium holds no document. *)
LEMMA TornIsNoObject == Torn \notin JsonObject
<1>1. DOMAIN Torn = {"at"}
  BY DEF Torn
<1>2. \A doc \in JsonObject : DOMAIN doc = {"at", "order"}
  BY DEF JsonObject
<1>3. QED
  BY <1>1, <1>2

(* What validate reports does not depend on the order of the members. *)
LEMMA IssuesDependOnMembers ==
  ASSUME NEW doc, NEW other, doc.at = other.at
  PROVE  IssueKeys(doc) = IssueKeys(other)
  BY DEF IssueKeys, Has

(* Putting a member that obeys both rules takes its key off the report. *)
LEMMA IssuesAfterPut ==
  ASSUME NEW doc \in JsonObject, NEW key \in Key, NEW value,
         IsWellFormed(key), HasValidType(key, value)
  PROVE  IssueKeys(Put(doc, key, value)) = IssueKeys(doc) \ {key}
<1>1. Put(doc, key, value).at = [doc.at EXCEPT ![key] = value]
  BY DEF Put
<1>2. doc.at \in [Key -> Member \cup {Missing}]
  BY DEF JsonObject
<1>3. QED
  BY <1>1, <1>2 DEF IssueKeys, HasIssue, Has

(* Removing a member takes its key off the report, and only its key. *)
LEMMA IssuesAfterRemove ==
  ASSUME NEW doc \in JsonObject, NEW key \in Key
  PROVE  IssueKeys(Pop(doc, key)) = IssueKeys(doc) \ {key}
<1>1. Pop(doc, key).at = [doc.at EXCEPT ![key] = Missing]
  BY DEF Pop
<1>2. doc.at \in [Key -> Member \cup {Missing}]
  BY DEF JsonObject
<1>3. QED
  BY <1>1, <1>2 DEF IssueKeys, Has

-----------------------------------------------------------------------------
(* What reads return after a mutation, and after its undo. *)

(* Bytes that are accepted read back as they are, or in canonical form. *)
LEMMA DecodeEncoded ==
  ASSUME NEW key, NEW bytes \in ByteString, EncodeValue(key, bytes) # CodecError
  PROVE  DecodeValue(key, EncodeValue(key, bytes)) = Normal(key, bytes)
<1>1. CASE IsMetadataKey(key)
  BY <1>1 DEF EncodeValue, DecodeValue, Normal
<1>2. CASE ~IsMetadataKey(key) /\ TryInlineJson(bytes) # NotInlined
  BY <1>2 DEF EncodeValue, DecodeValue, Normal, TryInlineJson
<1>3. CASE ~IsMetadataKey(key) /\ TryInlineJson(bytes) = NotInlined
  <2>1. EncodeValue(key, bytes) = [kind |-> "base64", of |-> bytes]
    BY <1>3 DEF EncodeValue
  <2>2. QED
    BY <1>3, <2>1 DEF DecodeValue, Normal, HasCanonicalForm, IsContainer
<1>4. QED
  BY <1>1, <1>2, <1>3

(* What a read of a document returns is bytes, nothing or an error. *)
LEMMA ContentIsTyped ==
  ASSUME NEW doc \in JsonObject, NEW hidden
  PROVE  ContentOf(doc, hidden) \in [Key -> ByteString \cup {NotFound, Unreadable}]
<1>1. ASSUME NEW k \in Key, Has(doc, k)
      PROVE  DecodeValue(k, doc.at[k]) \in ByteString \cup {Unreadable}
  BY <1>1, DecodeIsBytes DEF Has, JsonObject
<1>2. QED
  BY <1>1 DEF ContentOf

(* What readers find does not depend on the order of the members. *)
LEMMA ContentDependsOnMembers ==
  ASSUME NEW doc, NEW other, doc.at = other.at, NEW hidden
  PROVE  ContentOf(doc, hidden) = ContentOf(other, hidden)
  BY DEF ContentOf, Has

(* A put changes what readers find at its key, to what the member decodes to. *)
LEMMA ContentAfterPut ==
  ASSUME NEW doc \in JsonObject, NEW key \in Key, NEW value \in Member, NEW hidden
  PROVE  ContentOf(Put(doc, key, value), hidden \ {key})
           = [ContentOf(doc, hidden) EXCEPT ![key] = DecodeValue(key, value)]
<1>1. /\ Put(doc, key, value).at = [doc.at EXCEPT ![key] = value]
      /\ value # Missing
  BY MemberIsNotMissing DEF Put
<1>2. doc.at \in [Key -> Member \cup {Missing}]
  BY DEF JsonObject
<1>3. QED
  BY <1>1, <1>2 DEF ContentOf, Has

(* After a remove readers find nothing at its key, elsewhere what they did. *)
LEMMA ContentAfterRemove ==
  ASSUME NEW doc \in JsonObject, NEW key \in Key, NEW hidden
  PROVE  ContentOf(Pop(doc, key), hidden \ {key})
           = [ContentOf(doc, hidden) EXCEPT ![key] = NotFound]
<1>1. Pop(doc, key).at = [doc.at EXCEPT ![key] = Missing]
  BY DEF Pop
<1>2. doc.at \in [Key -> Member \cup {Missing}]
  BY DEF JsonObject
<1>3. QED
  BY <1>1, <1>2 DEF ContentOf, Has

(* A key that has just been appended is taken out of the end again. *)
LEMMA WithoutAppended ==
  ASSUME NEW S, NEW order \in Seq(S), NEW key \in S,
         \A i \in 1 .. Len(order) : order[i] # key
  PROVE  Without(Append(order, key), key) = order
<1> DEFINE longer == Append(order, key)
           place  == CHOOSE i \in 1 .. Len(longer) : longer[i] = key
           rest   == Without(longer, key)
<1>1. /\ longer \in Seq(S)
      /\ Len(longer) = Len(order) + 1
      /\ longer[Len(order) + 1] = key
      /\ \A i \in 1 .. Len(order) : longer[i] = order[i]
      /\ Len(order) \in Nat
  OBVIOUS
<1> HIDE DEF longer
<1>2. place = Len(order) + 1
  BY <1>1
<1>3. rest = SubSeq(longer, 1, place - 1) \o SubSeq(longer, place + 1, Len(longer))
  BY DEF Without
<1> HIDE DEF place, rest
<1>4. place \in 1 .. Len(longer)
  BY <1>1, <1>2
<1>5. /\ rest \in Seq(S)
      /\ Len(rest) = Len(longer) - 1
      /\ \A i \in 1 .. Len(rest) : rest[i] = IF i < place THEN longer[i] ELSE longer[i + 1]
  <2>1. \A s \in Seq(S) : \A p \in 1 .. Len(s) : \A r :
          r = SubSeq(s, 1, p - 1) \o SubSeq(s, p + 1, Len(s))
          => /\ r \in Seq(S)
             /\ Len(r) = Len(s) - 1
             /\ \A i \in 1 .. Len(r) : r[i] = IF i < p THEN s[i] ELSE s[i + 1]
    BY CloseGap, ZenonT(30)
  <2>2. longer \in Seq(S)
    BY <1>1
  <2>3. QED
    BY <2>1, <2>2, <1>3, <1>4, ZenonT(30)
<1>6. Len(rest) = Len(order) /\ \A i \in 1 .. Len(rest) : rest[i] = order[i]
  BY <1>1, <1>2, <1>5
<1>7. rest = order
  BY <1>5, <1>6, SeqEqual
<1>8. QED
  BY <1>7 DEF rest, longer

(* Undoing an assignment gives the document back, its order included. *)
LEMMA UndonePut ==
  ASSUME NEW doc \in JsonObject, NEW key \in Key, NEW value \in Member
  PROVE  Restore(Put(doc, key, value), key, doc.at[key]) = doc
<1>1. value # Missing
  BY MemberIsNotMissing
<1>2. doc = [at |-> doc.at, order |-> doc.order] /\ doc.at \in [Key -> Member \cup {Missing}]
  BY DEF JsonObject
<1>3. CASE Has(doc, key)
  <2>1. Put(doc, key, value) = [at |-> [doc.at EXCEPT ![key] = value], order |-> doc.order]
    BY <1>3 DEF Put
  <2>2. Restore(Put(doc, key, value), key, doc.at[key])
          = Put(Put(doc, key, value), key, doc.at[key])
    BY <1>3 DEF Restore, Has
  <2>3. Put(Put(doc, key, value), key, doc.at[key])
          = [at    |-> [[doc.at EXCEPT ![key] = value] EXCEPT ![key] = doc.at[key]],
             order |-> doc.order]
    BY <1>1, <1>2, <2>1 DEF Put, Has
  <2>4. [[doc.at EXCEPT ![key] = value] EXCEPT ![key] = doc.at[key]] = doc.at
    BY <1>2
  <2>5. QED
    BY <1>2, <2>2, <2>3, <2>4
<1>4. CASE ~Has(doc, key)
  <2> DEFINE written == Put(doc, key, value)
  <2>1. written = [at    |-> [doc.at EXCEPT ![key] = value],
                   order |-> Append(doc.order, key)]
    BY <1>4 DEF Put
  <2>2. Has(written, key)
    BY <1>1, <1>2, <2>1 DEF Has
  <2>3. Restore(written, key, doc.at[key]) = Pop(written, key)
    BY <1>4 DEF Restore, Has
  <2>4. Pop(written, key)
          = [at    |-> [[doc.at EXCEPT ![key] = value] EXCEPT ![key] = Missing],
             order |-> Without(Append(doc.order, key), key)]
    BY <2>1, <2>2 DEF Pop
  <2>5. [[doc.at EXCEPT ![key] = value] EXCEPT ![key] = Missing] = doc.at
    BY <1>2, <1>4 DEF Has
  <2>6. Without(Append(doc.order, key), key) = doc.order
    BY <1>4, WithoutAppended DEF JsonObject, OrderMatches
  <2>7. QED
    BY <1>2, <2>3, <2>4, <2>5, <2>6
<1>5. QED
  BY <1>3, <1>4

-----------------------------------------------------------------------------
(***************************************************************************)
(* What keeping some keys of an order leaves: those keys, each as often as *)
(* before.  The operator is recursive; the induction over the length of    *)
(* the order rests on the least-number principle, proved here from the     *)
(* finite sets 1 .. n being well founded under inclusion.                  *)
(***************************************************************************)

(* A set of natural numbers that is not empty has a least element. *)
LEMMA LeastNumber ==
  ASSUME NEW T \in SUBSET Nat, T # {}
  PROVE  \E x \in T : \A y \in T : x <= y
<1> DEFINE U == {1 .. n : n \in T}
           R == StrictSubsetOrdering(Nat)
<1>1. IsWellFoundedOn(R, FiniteSubsetsOf(Nat))
  BY FS_StrictSubsetOrderingWellFounded
<1>2. U \subseteq FiniteSubsetsOf(Nat) /\ U # {}
  <2>1. ASSUME NEW n \in T PROVE 1 .. n \in FiniteSubsetsOf(Nat)
    <3>1. IsFiniteSet(1 .. n)
      BY FS_Interval
    <3>2. QED
      BY <3>1 DEF FiniteSubsetsOf
  <2>2. QED
    BY <2>1
<1>3. \E X \in U : \A Y \in U : <<Y, X>> \notin R
  <2> HIDE DEF U, R
  <2>1. QED
    BY <1>1, <1>2, WFMin, Zenon
<1>4. PICK x \in T : \A Y \in U : <<Y, 1 .. x>> \notin R
  BY <1>3
<1>5. ASSUME NEW y \in T, y < x PROVE FALSE
  <2>1. <<1 .. y, 1 .. x>> \notin R
    BY <1>4
  <2>2. 1 .. y \subseteq Nat /\ 1 .. x \subseteq Nat /\ 1 .. y \subseteq 1 .. x /\ 1 .. y # 1 .. x
    BY <1>5
  <2>3. QED
    BY <2>1, <2>2 DEF StrictSubsetOrdering
<1>6. QED
  BY <1>5

(* Induction over the natural numbers, for a set in place of a predicate. *)
LEMMA AllNumbers ==
  ASSUME NEW S \in SUBSET Nat, 0 \in S, \A n \in S : n + 1 \in S
  PROVE  S = Nat
<1> SUFFICES ASSUME Nat \ S # {} PROVE FALSE
  OBVIOUS
<1>1. PICK x \in Nat \ S : \A y \in Nat \ S : x <= y
  BY LeastNumber
<1>2. x - 1 \in Nat /\ x - 1 \in S
  BY <1>1
<1>3. QED
  BY <1>1, <1>2

-----------------------------------------------------------------------------
(* The recursive function of Only exists. *)

(* Its value at n, given those below n. *)
Nth(f, order, kept, n) ==
  IF n = 0 THEN <<>>
  ELSE IF order[n] \in kept THEN Append(f[n - 1], order[n]) ELSE f[n - 1]

Filtered(f, order, kept, m) == [n \in 0 .. m |-> Nth(f, order, kept, n)]

(* The recursive function, as the equation it satisfies at each length. *)
LEMMA FilterEquations ==
  ASSUME NEW f, NEW order, NEW kept, NEW m \in Nat
  PROVE  f = Filtered(f, order, kept, m)
           <=> /\ f = [n \in 0 .. m |-> f[n]]
               /\ \A n \in 0 .. m : f[n] = Nth(f, order, kept, n)
<1> DEFINE h == Filtered(f, order, kept, m)
<1>1. /\ h = [n \in 0 .. m |-> h[n]]
      /\ \A n \in 0 .. m : h[n] = Nth(f, order, kept, n)
  BY DEF Filtered
<1> HIDE DEF h
<1>2. f = h => /\ f = [n \in 0 .. m |-> f[n]]
               /\ \A n \in 0 .. m : f[n] = Nth(f, order, kept, n)
  BY <1>1, Zenon
<1>3. ASSUME f = [n \in 0 .. m |-> f[n]],
             \A n \in 0 .. m : f[n] = Nth(f, order, kept, n)
      PROVE  f = h
  <2>1. \A n \in 0 .. m : f[n] = h[n]
    BY <1>1, <1>3, Zenon
  <2>2. QED
    BY <1>1, <1>3, <2>1
<1>4. QED
  BY <1>2, <1>3 DEF h

(* There is such a function up to every length, by induction on the length. *)
LEMMA FilterExists ==
  ASSUME NEW order, NEW kept, NEW m \in Nat
  PROVE  \E f : f = Filtered(f, order, kept, m)
<1> DEFINE S == {n \in Nat : \E f : f = Filtered(f, order, kept, n)}
<1>1. 0 \in S
  <2> DEFINE f == [n \in 0 .. 0 |-> <<>>]
  <2>1. f = Filtered(f, order, kept, 0)
    BY DEF Filtered, Nth
  <2>2. QED
    BY <2>1
<1>2. ASSUME NEW k \in S PROVE k + 1 \in S
  <2>1. PICK f : f = Filtered(f, order, kept, k)
    OBVIOUS
  <2> DEFINE g == [n \in 0 .. k + 1 |-> IF n <= k THEN f[n] ELSE Nth(f, order, kept, n)]
  <2>2. \A n \in 0 .. k : g[n] = f[n] /\ f[n] = Nth(f, order, kept, n)
    BY <2>1, FilterEquations
  <2>3. \A n \in 0 .. k + 1 : Nth(g, order, kept, n) = Nth(f, order, kept, n)
    BY <2>2 DEF Nth
  <2>4. \A n \in 0 .. k + 1 : g[n] = Nth(g, order, kept, n)
    BY <2>2, <2>3
  <2>5. g = [n \in 0 .. k + 1 |-> g[n]]
    OBVIOUS
  <2> HIDE DEF g
  <2>6. g = Filtered(g, order, kept, k + 1)
    BY <2>4, <2>5, FilterEquations
  <2>7. QED
    BY <2>6
<1>3. S = Nat
  <2>1. S \in SUBSET Nat
    OBVIOUS
  <2> HIDE DEF S
  <2>2. QED
    BY <1>1, <1>2, <2>1, AllNumbers
<1>4. QED
  BY <1>3

(* Only is the last value of a function that satisfies the equations. *)
LEMMA OnlyIsFiltered ==
  ASSUME NEW S, NEW order \in Seq(S), NEW kept
  PROVE  \E f : /\ \A n \in 0 .. Len(order) : f[n] = Nth(f, order, kept, n)
                /\ Only(order, kept) = f[Len(order)]
<1>1. Len(order) \in Nat
  OBVIOUS
<1> DEFINE f == CHOOSE f : f = Filtered(f, order, kept, Len(order))
<1>2. f = Filtered(f, order, kept, Len(order))
  BY <1>1, FilterExists
<1>3. Only(order, kept) = f[Len(order)]
  BY DEF Only, Filtered, Nth
<1> HIDE DEF f
<1>4. \A n \in 0 .. Len(order) : f[n] = Nth(f, order, kept, n)
  BY <1>1, <1>2, FilterEquations
<1>5. QED
  BY <1>3, <1>4

(* The rest has the kept keys of the first n places, each once if it was. *)
Once(order) == \A p, q \in 1 .. Len(order) : order[p] = order[q] => p = q

Leaves(rest, order, kept, n) ==
  /\ \A i \in 1 .. Len(rest) :
       \E p \in 1 .. n : rest[i] = order[p] /\ order[p] \in kept
  /\ \A p \in 1 .. n : order[p] \in kept => \E i \in 1 .. Len(rest) : rest[i] = order[p]
  /\ Once(order) => Once(rest)

(* One more place of the order: its key is appended when it is kept. *)
LEMMA LeavesOneMore ==
  ASSUME NEW S, NEW order \in Seq(S), NEW kept, NEW n \in Nat, n + 1 \in 1 .. Len(order),
         NEW rest \in Seq(S), Leaves(rest, order, kept, n)
  PROVE  /\ order[n + 1] \in kept =>
              /\ Append(rest, order[n + 1]) \in Seq(S)
              /\ Leaves(Append(rest, order[n + 1]), order, kept, n + 1)
         /\ order[n + 1] \notin kept => Leaves(rest, order, kept, n + 1)
<1>1. order[n + 1] \in S /\ Len(rest) \in Nat
  OBVIOUS
<1>2. ASSUME order[n + 1] \notin kept PROVE Leaves(rest, order, kept, n + 1)
  BY <1>2 DEF Leaves
<1>3. ASSUME order[n + 1] \in kept
      PROVE  /\ Append(rest, order[n + 1]) \in Seq(S)
             /\ Leaves(Append(rest, order[n + 1]), order, kept, n + 1)
  <2> DEFINE more == Append(rest, order[n + 1])
  <2>1. /\ more \in Seq(S) /\ Len(more) = Len(rest) + 1
        /\ \A i \in 1 .. Len(rest) : more[i] = rest[i]
        /\ more[Len(rest) + 1] = order[n + 1]
    BY <1>1
  <2> HIDE DEF more
  <2>2. ASSUME NEW i \in 1 .. Len(more)
        PROVE  \E p \in 1 .. n + 1 : more[i] = order[p] /\ order[p] \in kept
    <3>1. CASE i = Len(rest) + 1
      BY <1>3, <2>1, <3>1
    <3>2. CASE i \in 1 .. Len(rest)
      <4>1. PICK p \in 1 .. n : rest[i] = order[p] /\ order[p] \in kept
        BY <3>2 DEF Leaves
      <4>2. QED
        BY <2>1, <3>2, <4>1
    <3>3. QED
      BY <1>1, <2>1, <3>1, <3>2
  <2>3. ASSUME NEW p \in 1 .. n + 1, order[p] \in kept
        PROVE  \E i \in 1 .. Len(more) : more[i] = order[p]
    <3>1. CASE p = n + 1
      BY <1>1, <2>1, <3>1
    <3>2. CASE p \in 1 .. n
      <4>1. PICK i \in 1 .. Len(rest) : rest[i] = order[p]
        BY <2>3, <3>2 DEF Leaves
      <4>2. QED
        BY <1>1, <2>1, <4>1
    <3>3. QED
      BY <3>1, <3>2
  <2>4. ASSUME Once(order) PROVE Once(more)
    <3>1. ASSUME NEW i \in 1 .. Len(rest) PROVE rest[i] # order[n + 1]
      <4>1. PICK p \in 1 .. n : rest[i] = order[p]
        BY DEF Leaves
      <4>2. p \in 1 .. Len(order) /\ p # n + 1
        OBVIOUS
      <4>3. QED
        BY <2>4, <4>1, <4>2 DEF Once
    <3>2. \A i, j \in 1 .. Len(rest) : rest[i] = rest[j] => i = j
      BY <2>4 DEF Leaves, Once
    <3>3. QED
      BY <1>1, <2>1, <3>1, <3>2 DEF Once
  <2>5. QED
    BY <2>1, <2>2, <2>3, <2>4 DEF Leaves, more
<1>4. QED
  BY <1>2, <1>3

(* Keeping some keys leaves those, and those only, each in one place if it *)
(* was in one place.                                                       *)
LEMMA OnlyLeaves ==
  ASSUME NEW S, NEW order \in Seq(S), NEW kept
  PROVE  /\ Only(order, kept) \in Seq(S)
         /\ Leaves(Only(order, kept), order, kept, Len(order))
<1>1. Len(order) \in Nat
  OBVIOUS
<1>2. PICK f : /\ \A n \in 0 .. Len(order) : f[n] = Nth(f, order, kept, n)
               /\ Only(order, kept) = f[Len(order)]
  BY OnlyIsFiltered
<1> DEFINE T == {n \in Nat : n <= Len(order) => f[n] \in Seq(S) /\ Leaves(f[n], order, kept, n)}
<1>3. 0 \in T
  <2>1. f[0] = <<>>
    BY <1>1, <1>2 DEF Nth
  <2>2. <<>> \in Seq(S) /\ Leaves(<<>>, order, kept, 0)
    BY DEF Leaves, Once
  <2>3. QED
    BY <2>1, <2>2
<1>4. ASSUME NEW n \in T PROVE n + 1 \in T
  <2> SUFFICES ASSUME n + 1 <= Len(order)
               PROVE  f[n + 1] \in Seq(S) /\ Leaves(f[n + 1], order, kept, n + 1)
    OBVIOUS
  <2>1. n \in Nat /\ n + 1 \in 1 .. Len(order) /\ n + 1 \in 0 .. Len(order)
    BY <1>1
  <2>2. f[n] \in Seq(S) /\ Leaves(f[n], order, kept, n)
    BY <1>1, <2>1
  <2>3. f[n + 1] = Nth(f, order, kept, n + 1)
    BY <1>2, <2>1
  <2>4. f[n + 1] = IF order[n + 1] \in kept THEN Append(f[n], order[n + 1]) ELSE f[n]
    BY <2>1, <2>3 DEF Nth
  <2>5. QED
    BY <2>1, <2>2, <2>4, LeavesOneMore
<1>5. T = Nat
  <2>1. T \in SUBSET Nat
    OBVIOUS
  <2> HIDE DEF T
  <2>2. QED
    BY <1>3, <1>4, <2>1, AllNumbers
<1>6. QED
  BY <1>1, <1>2, <1>5

=============================================================================
