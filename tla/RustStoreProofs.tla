-------------------------- MODULE RustStoreProofs --------------------------
(***************************************************************************)
(* Proofs about the Rust store and its two locks, for every set of         *)
(* threads, keys and documents and any number of operations.               *)
(***************************************************************************)
EXTENDS RustStore, JsonDocumentProofs

(* What a thread may be doing, and with what. *)
Task ==
  [at : {"idle", "insert", "remove", "retain", "modify", "patch", "store",
         "read", "answer", "unskip"},
   key : Key \cup Directory \cup {<<"">>}, data : ByteString \cup Patch,
   clears : SUBSET Key, holds : SUBSET ({"document", "skipped"} \X {"read", "write"})]

(* It writes the document or holds it for writing; it reads it. *)
Writing(task) == task.at \in {"patch", "store", "unskip"}
Reading(task) == task.at = "answer"

(* Arguments passed the checks before any lock, and what is held is        *)
(* determined by the place: of the skip set, nothing from step to step.    *)
Fits(task) ==
  /\ task.at \in {"insert", "store"} =>
       /\ task.key \in Key /\ IsWellFormed(task.key)
       /\ task.data \in ByteString /\ EncodeValue(task.key, task.data) # CodecError
  /\ task.at \in {"modify", "patch"} =>
       task.key \in Key /\ IsWellFormed(task.key) /\ task.data \in Patch
  /\ task.at \in {"remove", "read", "answer"} => task.key \in Key
  /\ task.at = "retain" => task.key \in Directory
  /\ task.at # "unskip" => task.clears = {}
  /\ Writing(task) => task.holds = {DocumentWrite}
  /\ Reading(task) => task.holds = {DocumentRead}
  /\ ~Writing(task) /\ ~Reading(task) => task.holds = {}

Apart(t) == \A u \in Thread \ {t} : ~Writing(threads[u])
Alone(t) == \A u \in Thread \ {t} : ~Writing(threads[u]) /\ ~Reading(threads[u])

(* Readers share the document; who writes it has it alone. *)
Exclusive ==
  \A t \in Thread : /\ Writing(threads[t]) => Alone(t)
                    /\ Reading(threads[t]) => Apart(t)

Locks ==
  /\ threads \in [Thread -> Task]
  /\ \A t \in Thread : Fits(threads[t])
  /\ Exclusive

Data ==
  /\ document \in JsonObject
  /\ skipped \subseteq Key
  /\ made \in 0 .. MaxCalls
  /\ expected \in [Key -> ByteString \cup {NotFound, Unreadable}]

(* What a partial write is about to store is what is expected of its key. *)
StoresExpected ==
  \A t \in Thread :
    At(t, "store") => expected[threads[t].key] = Normal(threads[t].key, threads[t].data)

Inv == Data /\ Locks /\ SkipExact /\ NoLostUpdate /\ StoresExpected

-----------------------------------------------------------------------------
(* What removals leave is a document. *)

(* Removing a member moves the last one to its place, and loses no other. *)
LEMMA SwapRemoveIsObject ==
  ASSUME NEW doc \in JsonObject, NEW key \in Key
  PROVE  /\ SwapRemove(doc, key) \in JsonObject
         /\ SwapRemove(doc, key).at = Pop(doc, key).at
<1> DEFINE next  == SwapRemove(doc, key)
           order == doc.order
           last  == Len(order)
           place == CHOOSE i \in 1 .. last : order[i] = key
<1>1. /\ doc.at \in [Key -> Member \cup {Missing}] /\ order \in Seq(Key)
      /\ last \in Nat /\ OrderMatches(doc)
      /\ \A k \in Key : Has(doc, k) <=> \E i \in 1 .. last : order[i] = k
      /\ \A i, j \in 1 .. last : order[i] = order[j] => i = j
  BY DEF JsonObject, OrderMatches
<1>2. next.at = [doc.at EXCEPT ![key] = Missing] /\ next.at = Pop(doc, key).at
  BY DEF SwapRemove, Pop
<1>3. next.at \in [Key -> Member \cup {Missing}]
  BY <1>1, <1>2
<1>4. CASE ~Has(doc, key)
  <2>1. next.order = order
    BY <1>4 DEF SwapRemove
  <2>2. next.at = doc.at
    BY <1>1, <1>2, <1>4 DEF Has
  <2>3. next = doc
    <3>1. next = [at |-> next.at, order |-> next.order]
      BY DEF SwapRemove
    <3>2. doc = [at |-> doc.at, order |-> doc.order]
      BY DEF JsonObject
    <3>3. QED
      BY <2>1, <2>2, <3>1, <3>2, Zenon
  <2>4. QED
    BY <1>2, <2>3
<1>5. CASE Has(doc, key)
  <2> DEFINE rest == [i \in 1 .. last - 1 |-> order[IF i = place THEN last ELSE i]]
  <2>1. next = [at |-> next.at, order |-> rest]
    BY <1>5 DEF SwapRemove
  <2>2. place \in 1 .. last /\ order[place] = key
    BY <1>1, <1>5
  <2> HIDE DEF place
  <2>3. /\ rest \in Seq(Key) /\ Len(rest) = last - 1
        /\ \A i \in 1 .. last - 1 : rest[i] = order[IF i = place THEN last ELSE i]
    BY <1>1, <2>2
  <2> HIDE DEF rest
  <2>4. ASSUME NEW k \in Key
        PROVE  Has(next, k) <=> \E i \in 1 .. Len(rest) : rest[i] = k
    <3>1. CASE k = key
      <4>1. ~Has(next, k)
        BY <1>1, <1>2, <3>1 DEF Has
      <4>2. ASSUME NEW i \in 1 .. last - 1 PROVE rest[i] # key
        BY <1>1, <2>2, <2>3
      <4>3. QED
        BY <2>3, <3>1, <4>1, <4>2
    <3>2. CASE k # key
      <4>1. Has(next, k) <=> Has(doc, k)
        BY <1>1, <1>2, <3>2 DEF Has
      <4>2. ASSUME NEW i \in 1 .. last, order[i] = k
            PROVE  \E j \in 1 .. last - 1 : rest[j] = k
        <5>1. i # place
          BY <2>2, <3>2, <4>2
        <5>2. CASE i = last
          BY <1>1, <2>2, <2>3, <4>2, <5>1, <5>2, SMTT(20)
        <5>3. CASE i # last
          BY <1>1, <2>3, <4>2, <5>1, <5>3
        <5>4. QED
          BY <5>2, <5>3
      <4>3. ASSUME NEW j \in 1 .. last - 1, rest[j] = k
            PROVE  \E i \in 1 .. last : order[i] = k
        <5>1. (IF j = place THEN last ELSE j) \in 1 .. last
          BY <1>1
        <5>2. QED
          BY <2>3, <4>3, <5>1
      <4>4. QED
        BY <1>1, <2>3, <4>1, <4>2, <4>3
    <3>3. QED
      BY <3>1, <3>2
  <2>5. ASSUME NEW i \in 1 .. Len(rest), NEW j \in 1 .. Len(rest), rest[i] = rest[j]
        PROVE  i = j
    <3> DEFINE i0 == IF i = place THEN last ELSE i
               j0 == IF j = place THEN last ELSE j
    <3>1. i0 \in 1 .. last /\ j0 \in 1 .. last
      BY <1>1, <2>3
    <3>2. rest[i] = order[i0] /\ rest[j] = order[j0]
      BY <2>3
    <3>3. i0 = j0
      <4> HIDE DEF i0, j0
      <4>1. QED
        BY <1>1, <2>5, <3>1, <3>2
    <3>4. QED
      BY <1>1, <2>3, <3>3
  <2>6. next \in JsonObject
    <3>1. next.order = rest
      BY <2>1
    <3>2. OrderMatches(next)
      BY <2>4, <2>5, <3>1 DEF OrderMatches
    <3> HIDE DEF next
    <3>3. next \in [at : [Key -> Member \cup {Missing}], order : Seq(Key)]
      BY <1>3, <2>1, <2>3
    <3>4. QED
      BY <3>2, <3>3 DEF JsonObject
  <2>7. QED
    BY <1>2, <2>6
<1>6. QED
  BY <1>4, <1>5

(* The keys of a directory. *)
Inside(dir) == {k \in Key : InDirectory(dir, k)}

(* retain leaves a document, of the members outside the directory. *)
LEMMA RetainIsObject ==
  ASSUME NEW doc \in JsonObject, NEW dir
  PROVE  /\ Retain(doc, dir) \in JsonObject
         /\ \A k \in Key : Retain(doc, dir).at[k] = IF k \in Inside(dir) THEN Missing ELSE doc.at[k]
<1> DEFINE kept == {k \in Key : ~InDirectory(dir, k)}
           rest == Only(doc.order, kept)
           at   == [k \in Key |-> IF InDirectory(dir, k) THEN Missing ELSE doc.at[k]]
<1>1. Retain(doc, dir) = [at |-> at, order |-> rest]
  BY DEF Retain
<1>2. /\ doc.at \in [Key -> Member \cup {Missing}] /\ doc.order \in Seq(Key)
      /\ \A k \in Key : doc.at[k] # Missing <=> \E i \in 1 .. Len(doc.order) : doc.order[i] = k
      /\ Once(doc.order)
  BY DEF JsonObject, OrderMatches, Once, Has
<1>3. rest \in Seq(Key) /\ Leaves(rest, doc.order, kept, Len(doc.order))
  BY <1>2, OnlyLeaves
<1>4. at \in [Key -> Member \cup {Missing}]
  BY <1>2
<1>5. \A k \in Key : at[k] # Missing <=> k \in kept /\ doc.at[k] # Missing
  OBVIOUS
<1>6. \A k \in Key : at[k] = IF k \in Inside(dir) THEN Missing ELSE doc.at[k]
  BY DEF Inside
<1> HIDE DEF kept, rest, at
<1>7. ASSUME NEW k \in Key
      PROVE  at[k] # Missing <=> \E i \in 1 .. Len(rest) : rest[i] = k
  <2>1. ASSUME at[k] # Missing
        PROVE  \E i \in 1 .. Len(rest) : rest[i] = k
    <3>1. PICK p \in 1 .. Len(doc.order) : doc.order[p] = k
      BY <1>2, <1>5, <2>1
    <3>2. QED
      BY <1>3, <1>5, <2>1, <3>1 DEF Leaves
  <2>2. ASSUME NEW i \in 1 .. Len(rest), rest[i] = k
        PROVE  at[k] # Missing
    <3>1. PICK p \in 1 .. Len(doc.order) : rest[i] = doc.order[p] /\ doc.order[p] \in kept
      BY <1>3 DEF Leaves
    <3>2. QED
      BY <1>2, <1>5, <2>2, <3>1
  <2>3. QED
    BY <2>1, <2>2
<1>8. \A i, j \in 1 .. Len(rest) : rest[i] = rest[j] => i = j
  BY <1>2, <1>3 DEF Leaves, Once
<1>9. [at |-> at, order |-> rest] \in JsonObject
  BY <1>3, <1>4, <1>7, <1>8 DEF JsonObject, OrderMatches, Has
<1>10. QED
  BY <1>1, <1>6, <1>9

(* It takes the keys of the directory off the report. *)
LEMMA IssuesAfterRetain ==
  ASSUME NEW doc \in JsonObject, NEW dir
  PROVE  IssueKeys(Retain(doc, dir)) = IssueKeys(doc) \ Inside(dir)
  BY RetainIsObject DEF IssueKeys, Has

(* Readers find nothing in the directory, elsewhere what they did. *)
LEMMA ContentAfterRetain ==
  ASSUME NEW doc \in JsonObject, NEW dir, NEW hidden
  PROVE  ContentOf(Retain(doc, dir), hidden \ Inside(dir))
           = [k \in Key |-> IF k \in Inside(dir) THEN NotFound ELSE ContentOf(doc, hidden)[k]]
<1> DEFINE next == Retain(doc, dir)
<1>1. \A k \in Key : next.at[k] = IF k \in Inside(dir) THEN Missing ELSE doc.at[k]
  BY RetainIsObject
<1> HIDE DEF next
<1>2. ASSUME NEW k \in Key
      PROVE  ContentOf(next, hidden \ Inside(dir))[k]
               = IF k \in Inside(dir) THEN NotFound ELSE ContentOf(doc, hidden)[k]
  BY <1>1 DEF ContentOf, Has
<1>3. ContentOf(next, hidden \ Inside(dir))
        = [k \in Key |-> ContentOf(next, hidden \ Inside(dir))[k]]
  BY DEF ContentOf
<1>4. QED
  BY <1>2, <1>3 DEF next

-----------------------------------------------------------------------------
(* The locks. *)

(* What a thread is doing fits where it is. *)
LEMMA TaskIsTyped ==
  ASSUME Locks, NEW t \in Thread
  PROVE  threads[t] \in Task /\ Fits(threads[t])
  BY DEF Locks

(* Who gets the lock of the document has no writer beside it, and who gets *)
(* it for writing no reader either.                                        *)
LEMMA Access ==
  ASSUME Locks, NEW t \in Thread
  PROVE  /\ CanWrite(t, "document") => Alone(t)
         /\ CanRead(t, "document") => Apart(t)
<1>1. ASSUME NEW u \in Thread, Writing(threads[u])
      PROVE  u \in Holders("document", {"write"}) /\ u \in Holders("document", {"read", "write"})
  <2>1. threads[u].holds = {DocumentWrite}
    BY <1>1, TaskIsTyped DEF Fits
  <2>2. QED
    BY <2>1 DEF Holders, DocumentWrite
<1>2. ASSUME NEW u \in Thread, Reading(threads[u])
      PROVE  u \in Holders("document", {"read", "write"})
  <2>1. threads[u].holds = {DocumentRead}
    BY <1>2, TaskIsTyped DEF Fits
  <2>2. QED
    BY <2>1 DEF Holders, DocumentRead
<1>3. QED
  BY <1>1, <1>2 DEF CanWrite, CanRead, Alone, Apart

(* A thread moves, to a place that leaves the document to one writer. *)
Moves(t, task) ==
  /\ task \in Task /\ Fits(task)
  /\ Writing(task) => Alone(t)
  /\ Reading(task) => Apart(t)
  /\ threads' = [threads EXCEPT ![t] = task]

(* A step of one thread that acquires what it may leaves the locks in order. *)
LEMMA Moved ==
  ASSUME Locks, NEW t \in Thread, NEW task, Moves(t, task)
  PROVE  /\ Locks'
         /\ threads'[t] = task
         /\ \A u \in Thread \ {t} : threads'[u] = threads[u]
<1>1. threads \in [Thread -> Task] /\ task \in Task /\ threads' = [threads EXCEPT ![t] = task]
  BY DEF Locks, Moves
<1>2. /\ threads' \in [Thread -> Task] /\ threads'[t] = task
      /\ \A u \in Thread \ {t} : threads'[u] = threads[u]
  BY <1>1
<1>3. \A u \in Thread : Fits(threads'[u])
  BY <1>2, TaskIsTyped DEF Moves
<1>4. ASSUME NEW u \in Thread, NEW v \in Thread \ {u}
      PROVE  /\ Writing(threads'[u]) => ~Writing(threads'[v]) /\ ~Reading(threads'[v])
             /\ Reading(threads'[u]) => ~Writing(threads'[v])
  <2>1. CASE u = t
    BY <1>2, <2>1 DEF Moves, Alone, Apart
  <2>2. CASE v = t
    BY <1>2, <2>2 DEF Moves, Alone, Apart
  <2>3. CASE u # t /\ v # t
    BY <1>2, <2>3 DEF Locks, Exclusive, Alone, Apart
  <2>4. QED
    BY <2>1, <2>2, <2>3
<1>5. Exclusive'
  BY <1>4 DEF Exclusive, Alone, Apart
<1>6. QED
  BY <1>2, <1>3, <1>5 DEF Locks

(* Only a thread that has written the document is clearing skips. *)
LEMMA OneClears ==
  ASSUME NEW tasks, NEW t \in Thread, \A u \in Thread \ {t} : tasks[u].clears = {}
  PROVE  UNION {tasks[u].clears : u \in Thread} = tasks[t].clears
  OBVIOUS

(* The thread that is between the two locks is alone there. *)
LEMMA ApartClears ==
  ASSUME Locks, NEW t \in Thread, Apart(t)
  PROVE  BeingCleared = threads[t].clears
<1>1. \A u \in Thread \ {t} : threads[u].clears = {}
  BY TaskIsTyped DEF Apart, Fits, Writing
<1>2. QED
  BY <1>1, OneClears DEF BeingCleared

-----------------------------------------------------------------------------
(* The kinds of steps. *)

AbstractStep == Abstract!Next \/ (reply' = reply /\ Contents' = Contents)

(* Nothing is written, and no thread is on its way to write what it read. *)
LEMMA QuietInv ==
  ASSUME Inv, Locks', UNCHANGED <<document, skipped, expected>>, made' \in 0 .. MaxCalls,
         \A u \in Thread : /\ threads'[u].clears = threads[u].clears
                           /\ threads'[u] = threads[u] \/ ~(At(u, "store") \/ At(u, "store")')
  PROVE  Inv' /\ Contents' = Contents
<1>1. BeingCleared' = BeingCleared
  BY DEF BeingCleared
<1>2. Contents' = Contents
  BY <1>1 DEF Contents
<1>3. Data' /\ SkipExact'
  BY <1>1 DEF Inv, Data, SkipExact
<1>4. \A u \in Thread, k \in Key :
        (At(u, "store") /\ threads[u].key = k)' <=> At(u, "store") /\ threads[u].key = k
  BY DEF At
<1>5. NoLostUpdate'
  BY <1>2, <1>4 DEF Inv, NoLostUpdate
<1>6. StoresExpected'
  BY DEF Inv, StoresExpected, At
<1>7. QED
  BY <1>2, <1>3, <1>5, <1>6 DEF Inv

(* A step that changes neither the document nor the skip set. *)
LEMMA QuietMove ==
  ASSUME Inv, NEW t \in Thread, NEW task, Moves(t, task),
         task.clears = threads[t].clears, task.at # "store", ~At(t, "store"),
         UNCHANGED <<document, skipped, expected>>, made' \in 0 .. MaxCalls
  PROVE  Inv' /\ Contents' = Contents
<1>1. /\ Locks' /\ threads'[t] = task
      /\ \A u \in Thread \ {t} : threads'[u] = threads[u]
  BY Moved DEF Inv
<1>2. \A u \in Thread : /\ threads'[u].clears = threads[u].clears
                        /\ threads'[u] = threads[u] \/ ~(At(u, "store") \/ At(u, "store")')
  BY <1>1 DEF At
<1>3. QED
  BY <1>1, <1>2, QuietInv

(* The document is written by a thread that has it alone. *)
LEMMA WriteInv ==
  ASSUME Inv, NEW t \in Thread, At(t, "insert") \/ At(t, "remove") \/ At(t, "retain") \/ At(t, "store"),
         CanWrite(t, "document"), NEW keys \in SUBSET Key,
         document' \in JsonObject, GoesToUnskip(t, keys), UNCHANGED <<skipped, made>>,
         IssueKeys(document') = IssueKeys(document) \ keys,
         expected' \in [Key -> ByteString \cup {NotFound, Unreadable}],
         \A k \in Key : \/ expected'[k] = ContentOf(document', skipped \ keys)[k]
                        \/ /\ ~At(t, "store") /\ expected'[k] = expected[k]
                           /\ ContentOf(document', skipped \ keys)[k] = ContentOf(document, skipped)[k]
  PROVE  /\ Inv'
         /\ Contents = ContentOf(document, skipped)
         /\ Contents' = ContentOf(document', skipped \ keys)
<1> DEFINE task == [threads[t] EXCEPT !.at = "unskip", !.clears = keys, !.holds = {DocumentWrite}]
<1>1. threads[t] \in Task /\ Fits(threads[t]) /\ Locks /\ threads \in [Thread -> Task]
  BY TaskIsTyped DEF Inv, Locks
<1>2. Alone(t) /\ Apart(t)
  BY <1>1, Access DEF Alone, Apart
<1>3. /\ task.at = "unskip" /\ task.clears = keys /\ task.holds = {DocumentWrite}
      /\ task \in Task
  <2>1. {DocumentWrite} \in SUBSET ({"document", "skipped"} \X {"read", "write"})
    BY DEF DocumentWrite
  <2>2. QED
    BY <1>1, <2>1 DEF Task
<1>4. threads' = [threads EXCEPT ![t] = task]
  BY <1>1 DEF GoesToUnskip
<1> HIDE DEF task
<1>5. Moves(t, task)
  BY <1>2, <1>3, <1>4 DEF Moves, Fits, Writing, Reading
<1>6. /\ Locks' /\ threads'[t] = task
      /\ \A u \in Thread \ {t} : threads'[u] = threads[u]
  BY <1>1, <1>5, Moved
<1>7. BeingCleared = {}
  BY <1>1, <1>2, ApartClears DEF Fits, At
<1>8. BeingCleared' = keys
  <2>1. \A u \in Thread \ {t} : threads'[u].clears = {}
    BY <1>1, <1>2, <1>6, TaskIsTyped DEF Apart, Fits, Writing
  <2>2. QED
    BY <1>3, <1>6, <2>1, OneClears DEF BeingCleared
<1>9. Contents = ContentOf(document, skipped) /\ Contents' = ContentOf(document', skipped \ keys)
  BY <1>7, <1>8 DEF Contents
<1>10. Data'
  BY DEF Inv, Data
<1>11. SkipExact'
  BY <1>7, <1>8 DEF Inv, SkipExact
<1>12. ASSUME NEW u \in Thread PROVE ~At(u, "store")' /\ (u # t => ~At(u, "store"))
  BY <1>2, <1>3, <1>6 DEF At, Alone, Writing
<1>13. ASSUME NEW k \in Key PROVE Contents'[k] = expected'[k]
  BY <1>9, <1>12 DEF Inv, NoLostUpdate
<1>14. NoLostUpdate' /\ StoresExpected'
  BY <1>12, <1>13 DEF NoLostUpdate, StoresExpected
<1>15. QED
  BY <1>6, <1>9, <1>10, <1>11, <1>14 DEF Inv

-----------------------------------------------------------------------------
(* The operations, as far as their first lock. *)

(* A thread with nothing to do holds nothing. *)
LEMMA IdleFits == Idle \in Task /\ Fits(Idle)
  BY ConstantsAssumption DEF Idle, Task, Fits, Writing, Reading

(* An operation that begins waits for its first lock with its arguments. *)
LEMMA BeginSound ==
  ASSUME Inv, NEW t \in Thread, Calls(t), NEW place, NEW key, NEW data, Begin(t, place, key, data),
         place \in {"insert", "remove", "retain", "modify", "read"},
         key \in Key \cup Directory, data \in ByteString \cup Patch,
         place = "insert" => /\ key \in Key /\ IsWellFormed(key)
                             /\ data \in ByteString /\ EncodeValue(key, data) # CodecError,
         place = "modify" => key \in Key /\ IsWellFormed(key) /\ data \in Patch,
         place \in {"remove", "read"} => key \in Key,
         place = "retain" => key \in Directory
  PROVE  Inv' /\ AbstractStep
<1> DEFINE task == [threads[t] EXCEPT !.at = place, !.key = key, !.data = data]
<1>1. /\ threads[t] \in Task /\ Fits(threads[t]) /\ threads \in [Thread -> Task]
      /\ threads[t].at = "idle"
  BY TaskIsTyped DEF Inv, Locks, Calls, At
<1>2. threads[t].clears = {} /\ threads[t].holds = {}
  BY <1>1 DEF Fits, Writing, Reading
<1>3. /\ task.at = place /\ task.key = key /\ task.data = data
      /\ task.clears = {} /\ task.holds = {}
  BY <1>1, <1>2 DEF Task
<1>4. task \in Task
  BY <1>1 DEF Task
<1>5. threads' = [threads EXCEPT ![t] = task]
  BY <1>1 DEF Begin
<1> HIDE DEF task
<1>6. Moves(t, task)
  BY <1>3, <1>4, <1>5 DEF Moves, Fits, Writing, Reading
<1>7. made' \in 0 .. MaxCalls
  BY ConstantsAssumption DEF Calls, Inv, Data
<1>8. UNCHANGED <<document, skipped, expected, reply>>
  BY DEF Begin
<1>9. task.at # "store" /\ ~At(t, "store") /\ task.clears = threads[t].clears
  BY <1>1, <1>2, <1>3 DEF At
<1>10. QED
  BY <1>6, <1>7, <1>8, <1>9, QuietMove DEF AbstractStep

(* An operation that is refused changes nothing. *)
LEMMA RefuseSound ==
  ASSUME Inv, NEW t \in Thread, Calls(t), NEW key, Refuse("set", key)
  PROVE  Inv' /\ AbstractStep
<1>1. UNCHANGED <<document, skipped, expected, threads>> /\ made' \in 0 .. MaxCalls
  BY ConstantsAssumption DEF Refuse, Calls, Inv, Data
<1>2. Locks'
  BY <1>1 DEF Inv, Locks, Exclusive, Alone, Apart
<1>3. Inv' /\ Contents' = Contents
  BY <1>1, <1>2, QuietInv
<1>4. Abstract!Refuse
  BY <1>3 DEF Refuse, Replies, Abstract!Refuse
<1>5. QED
  BY <1>3, <1>4 DEF AbstractStep, Abstract!Next

(* set and set_json check and encode before the first lock. *)
LEMMA SetBytesSound ==
  ASSUME Inv, NEW t \in Thread, Calls(t), NEW key \in Key, NEW bytes \in ByteString,
         SetBytes(t, key, bytes)
  PROVE  Inv' /\ AbstractStep
<1>1. CASE Refuse("set", key)
  BY <1>1, RefuseSound
<1>2. CASE /\ IsWellFormed(key) /\ EncodeValue(key, bytes) # CodecError
           /\ Begin(t, "insert", key, bytes)
  BY <1>2, BeginSound
<1>3. QED
  BY <1>1, <1>2 DEF SetBytes

(* An operation begins: it is refused at once, or a thread has a task. *)
LEMMA CallSound ==
  ASSUME Inv, NEW t \in Thread,
         \/ \E k \in Key, b \in Bytes : Set(t, k, b)
         \/ \E k \in Key, j \in Json : SetJson(t, k, j)
         \/ \E k \in Key, p \in Patch : SetPartialMany(t, k, p)
         \/ \E k \in Key : Erase(t, k)
         \/ \E d \in Directory : ErasePrefix(t, d)
         \/ \E k \in Key : Get(t, k)
  PROVE  Inv' /\ AbstractStep
<1>1. ASSUME NEW k \in Key, NEW b \in Bytes, Set(t, k, b)
      PROVE  Inv' /\ AbstractStep
  BY <1>1, SetBytesSound, ConstantsAssumption DEF Set
<1>2. ASSUME NEW k \in Key, NEW j \in Json, SetJson(t, k, j)
      PROVE  Inv' /\ AbstractStep
  <2>1. CASE Refuse("set", k)
    BY <1>2, <2>1, RefuseSound DEF SetJson
  <2>2. CASE FitsKey(k, j) /\ SetBytes(t, k, Canonical(j))
    <3>1. Canonical(j) \in ByteString
      BY <2>2, CanonicalIsBytes, ConstantsAssumption
    <3>2. QED
      BY <1>2, <2>2, <3>1, SetBytesSound DEF SetJson
  <2>3. QED
    BY <1>2, <2>1, <2>2 DEF SetJson
<1>3. ASSUME NEW k \in Key, NEW p \in Patch, SetPartialMany(t, k, p)
      PROVE  Inv' /\ AbstractStep
  <2>1. CASE Refuse("set", k)
    BY <1>3, <2>1, RefuseSound DEF SetPartialMany
  <2>2. CASE IsWellFormed(k) /\ Begin(t, "modify", k, p)
    BY <1>3, <2>2, BeginSound DEF SetPartialMany
  <2>3. QED
    BY <1>3, <2>1, <2>2 DEF SetPartialMany
<1>4. ASSUME NEW k \in Key, NEW place \in {"remove", "read"}, Calls(t), Begin(t, place, k, Empty)
      PROVE  Inv' /\ AbstractStep
  BY <1>4, BeginSound, ConstantsAssumption
<1>5. ASSUME NEW d \in Directory, ErasePrefix(t, d)
      PROVE  Inv' /\ AbstractStep
  BY <1>5, BeginSound, ConstantsAssumption DEF ErasePrefix
<1>6. QED
  BY <1>1, <1>2, <1>3, <1>4, <1>5 DEF Erase, Get

-----------------------------------------------------------------------------
(* The steps under the locks. *)

(* What is encoded decodes to bytes, or is a member no read can decode. *)
LEMMA NormalIsReply ==
  ASSUME NEW key, NEW bytes \in ByteString, EncodeValue(key, bytes) # CodecError
  PROVE  Normal(key, bytes) \in ByteString \cup {NotFound, Unreadable}
  BY EncodeIsMember, DecodeEncoded, DecodeIsBytes

(* A member is written, by a set or as the last step of a partial write. *)
LEMMA PutSound ==
  ASSUME Inv, NEW t \in Thread, NEW key, NEW data, key = threads[t].key, data = threads[t].data,
         At(t, "insert") \/ At(t, "store"), CanWrite(t, "document"),
         document' = Put(document, key, EncodeValue(key, data)),
         Replies("set", key, TRUE, data), GoesToUnskip(t, {key}), UNCHANGED <<skipped, made>>,
         expected' = IF At(t, "store") THEN expected
                                       ELSE [expected EXCEPT ![key] = Normal(key, data)]
  PROVE  Inv' /\ AbstractStep
<1> DEFINE value == EncodeValue(key, data)
<1>1. /\ key \in Key /\ IsWellFormed(key) /\ data \in ByteString /\ value # CodecError
      /\ document \in JsonObject /\ expected \in [Key -> ByteString \cup {NotFound, Unreadable}]
  BY TaskIsTyped DEF Inv, Data, Fits, At
<1>2. value \in Member /\ HasValidType(key, value) /\ DecodeValue(key, value) = Normal(key, data)
  BY <1>1, EncodeIsMember, DecodeEncoded
<1> HIDE DEF value
<1>3. document' \in JsonObject /\ IssueKeys(document') = IssueKeys(document) \ {key}
  BY <1>1, <1>2, PutIsObject, IssuesAfterPut DEF value
<1>4. ContentOf(document', skipped \ {key}) = [ContentOf(document, skipped) EXCEPT ![key] = Normal(key, data)]
  BY <1>1, <1>2, ContentAfterPut DEF value
<1>5. expected'[key] = Normal(key, data)
  BY <1>1 DEF Inv, StoresExpected
<1>6. \A k \in Key \ {key} : expected'[k] = expected[k]
  BY <1>1
<1>7. expected' \in [Key -> ByteString \cup {NotFound, Unreadable}]
  BY <1>1, NormalIsReply DEF value
<1> DEFINE before == ContentOf(document, skipped)
           after  == ContentOf(document', skipped \ {key})
<1>8. before \in [Key -> ByteString \cup {NotFound, Unreadable}]
  BY <1>1, ContentIsTyped
<1> HIDE DEF before, after
<1>9. after = [before EXCEPT ![key] = Normal(key, data)]
  BY <1>4 DEF before, after
<1>10. ASSUME At(t, "store"), NEW k \in Key \ {key}
       PROVE  before[k] = expected[k]
  <2>1. Alone(t) /\ Apart(t) /\ Locks
    BY Access DEF Inv, Alone, Apart
  <2>2. BeingCleared = {}
    BY <1>10, <2>1, ApartClears, TaskIsTyped DEF Fits, At
  <2>3. \A u \in Thread : ~(At(u, "store") /\ threads[u].key = k)
    BY <1>10, <2>1 DEF Alone, Writing, At
  <2>4. QED
    BY <2>2, <2>3 DEF Inv, NoLostUpdate, Contents, before
<1>11. \A k \in Key : \/ expected'[k] = after[k]
                      \/ /\ ~At(t, "store") /\ expected'[k] = expected[k]
                         /\ after[k] = before[k]
  BY <1>5, <1>6, <1>8, <1>9, <1>10
<1>12. Inv' /\ Contents = before /\ Contents' = after
  BY <1>1, <1>3, <1>7, <1>11, WriteInv DEF before, after
<1>13. Abstract!Write(key)
  BY <1>1, <1>9, <1>12
    DEF Abstract!Write, Abstract!Become, Abstract!Written, Abstract!Replies, Replies, Stored
<1>14. QED
  BY <1>1, <1>12, <1>13 DEF AbstractStep, Abstract!Next

(* erase removes the member under the lock of the document. *)
LEMMA RemoveSound ==
  ASSUME Inv, NEW t \in Thread, RemoveMember(t)
  PROVE  Inv' /\ AbstractStep
<1> DEFINE key    == threads[t].key
           before == ContentOf(document, skipped)
           after  == ContentOf(document', skipped \ {key})
<1>1. /\ key \in Key /\ document \in JsonObject
      /\ expected \in [Key -> ByteString \cup {NotFound, Unreadable}]
      /\ At(t, "remove") /\ CanWrite(t, "document")
  BY TaskIsTyped DEF Inv, Data, Fits, At, RemoveMember
<1>2. /\ document' = SwapRemove(document, key)
      /\ expected' = [expected EXCEPT ![key] = NotFound]
      /\ GoesToUnskip(t, {key}) /\ UNCHANGED <<skipped, made>>
      /\ reply' = [op |-> "delete", key |-> key, ok |-> TRUE, value |-> NotFound]
  BY DEF RemoveMember, Replies
<1>3. document' \in JsonObject /\ document'.at = Pop(document, key).at
  BY <1>1, <1>2, SwapRemoveIsObject
<1>4. IssueKeys(document') = IssueKeys(document) \ {key}
  BY <1>1, <1>3, IssuesAfterRemove, IssuesDependOnMembers
<1>5. after = [before EXCEPT ![key] = NotFound]
  BY <1>1, <1>3, ContentAfterRemove, ContentDependsOnMembers
<1>6. before \in [Key -> ByteString \cup {NotFound, Unreadable}]
  BY <1>1, ContentIsTyped
<1> HIDE DEF key, before, after
<1>7. \A k \in Key : \/ expected'[k] = after[k]
                     \/ /\ ~At(t, "store") /\ expected'[k] = expected[k]
                        /\ after[k] = before[k]
  BY <1>1, <1>2, <1>5, <1>6 DEF At
<1>8. expected' \in [Key -> ByteString \cup {NotFound, Unreadable}]
  BY <1>1, <1>2
<1>9. Inv' /\ Contents = before /\ Contents' = after
  BY <1>1, <1>2, <1>3, <1>4, <1>7, <1>8, WriteInv DEF before, after
<1>10. Abstract!Erase(key)
  BY <1>2, <1>5, <1>9 DEF Abstract!Erase, Abstract!Become, Abstract!Erased, Abstract!Replies
<1>11. QED
  BY <1>1, <1>9, <1>10 DEF AbstractStep, Abstract!Next

(* erase_prefix removes every member of the directory at once. *)
LEMMA RetainSound ==
  ASSUME Inv, NEW t \in Thread, RetainMembers(t)
  PROVE  Inv' /\ AbstractStep
<1> DEFINE dir    == threads[t].key
           inside == Inside(dir)
           before == ContentOf(document, skipped)
           after  == ContentOf(document', skipped \ inside)
<1>1. /\ document \in JsonObject /\ inside \in SUBSET Key
      /\ expected \in [Key -> ByteString \cup {NotFound, Unreadable}]
      /\ At(t, "retain") /\ CanWrite(t, "document")
  BY DEF Inv, Data, At, RetainMembers, Inside
<1>2. /\ document' = Retain(document, dir)
      /\ expected' = [k \in Key |-> IF k \in inside THEN NotFound ELSE expected[k]]
      /\ GoesToUnskip(t, inside) /\ UNCHANGED <<skipped, made>>
      /\ reply' = [op |-> "erase_prefix", key |-> dir, ok |-> TRUE, value |-> NotFound]
  BY DEF RetainMembers, Replies, Inside
<1>3. document' \in JsonObject
  BY <1>1, <1>2, RetainIsObject
<1>4. IssueKeys(document') = IssueKeys(document) \ inside
  BY <1>1, <1>2, IssuesAfterRetain
<1>5. after = [k \in Key |-> IF k \in inside THEN NotFound ELSE before[k]]
  BY <1>1, <1>2, ContentAfterRetain
<1> HIDE DEF dir, inside, before, after
<1>6. \A k \in Key : \/ expected'[k] = after[k]
                     \/ /\ ~At(t, "store") /\ expected'[k] = expected[k]
                        /\ after[k] = before[k]
  BY <1>1, <1>2, <1>5 DEF At
<1>7. expected' \in [Key -> ByteString \cup {NotFound, Unreadable}]
  BY <1>1, <1>2
<1>8. Inv' /\ Contents = before /\ Contents' = after
  BY <1>1, <1>2, <1>3, <1>4, <1>6, <1>7, WriteInv DEF before, after
<1>9. Abstract!EraseAll
  <2>1. reply'.op = "erase_prefix" /\ reply'.ok
    BY <1>2
  <2>2. Contents' = [k \in Key |-> IF k \in inside THEN NotFound ELSE Contents[k]]
    BY <1>5, <1>8
  <2>3. QED
    BY <1>1, <2>1, <2>2 DEF Abstract!EraseAll, Abstract!Become
<1>10. QED
  BY <1>1, <1>8, <1>9 DEF AbstractStep, Abstract!Next

(* The skips are cleared, and the document let go. *)
LEMMA UnskipSound ==
  ASSUME Inv, NEW t \in Thread, Unskip(t)
  PROVE  Inv' /\ AbstractStep
<1>1. /\ threads[t].at = "unskip" /\ threads \in [Thread -> Task] /\ Locks
      /\ threads' = [threads EXCEPT ![t] = Idle] /\ skipped' = skipped \ threads[t].clears
      /\ UNCHANGED <<document, reply, expected, made>>
  BY DEF Unskip, At, Returns, Inv, Locks
<1>2. Alone(t) /\ Apart(t)
  BY <1>1 DEF Locks, Exclusive, Alone, Apart, Writing
<1>3. Moves(t, Idle)
  BY <1>1, IdleFits DEF Moves, Writing, Reading, Idle
<1>4. /\ Locks' /\ threads'[t] = Idle
      /\ \A u \in Thread \ {t} : threads'[u] = threads[u]
  BY <1>1, <1>3, Moved
<1>5. BeingCleared = threads[t].clears
  BY <1>1, <1>2, ApartClears
<1>6. BeingCleared' = {}
  <2>1. \A u \in Thread \ {t} : threads'[u].clears = {}
    <3>1. \A u \in Thread \ {t} : threads[u].clears = {}
      BY <1>1, <1>2, TaskIsTyped DEF Apart, Fits, Writing
    <3>2. QED
      BY <1>4, <3>1
  <2>2. threads'[t].clears = {}
    <3>1. Idle.clears = {}
      BY DEF Idle
    <3>2. QED
      BY <1>4, <3>1, Zenon
  <2>3. QED
    BY <2>1, <2>2, OneClears DEF BeingCleared
<1>7. skipped' \ BeingCleared' = skipped \ BeingCleared
  BY <1>1, <1>5, <1>6
<1>8. Contents' = Contents
  BY <1>1, <1>7 DEF Contents
<1>9. Data' /\ SkipExact'
  BY <1>1, <1>7 DEF Inv, Data, SkipExact
<1>10. ASSUME NEW u \in Thread
       PROVE  threads'[u].at # "store" /\ threads[u].at # "store"
  BY <1>1, <1>2, <1>4 DEF Alone, Writing, Idle
<1>11. NoLostUpdate' /\ StoresExpected'
  BY <1>1, <1>8, <1>10 DEF Inv, NoLostUpdate, StoresExpected, At
<1>12. QED
  BY <1>1, <1>4, <1>8, <1>9, <1>11 DEF Inv, AbstractStep

(* A thread takes the lock of the document, and keeps it. *)
LEMMA LockSound ==
  ASSUME Inv, NEW t \in Thread, LockToModify(t) \/ LockForRead(t)
  PROVE  Inv' /\ AbstractStep
<1>1. /\ threads[t] \in Task /\ Fits(threads[t]) /\ threads \in [Thread -> Task] /\ Locks
      /\ UNCHANGED <<document, skipped, reply, expected, made>>
  BY TaskIsTyped DEF Inv, Locks, LockToModify, LockForRead
<1>2. made' \in 0 .. MaxCalls
  BY <1>1 DEF Inv, Data
<1>3. ASSUME NEW place \in {"patch", "answer"}, NEW held, Goes(t, place, held),
             place = "patch" => At(t, "modify") /\ Alone(t) /\ held = {DocumentWrite},
             place = "answer" => At(t, "read") /\ Apart(t) /\ held = {DocumentRead}
      PROVE  Inv' /\ AbstractStep
  <2> DEFINE task == [threads[t] EXCEPT !.at = place, !.holds = held]
  <2>1. held \in SUBSET ({"document", "skipped"} \X {"read", "write"})
    BY <1>3 DEF DocumentWrite, DocumentRead
  <2>2. /\ task.at = place /\ task.holds = held /\ task.clears = threads[t].clears
        /\ task.key = threads[t].key /\ task.data = threads[t].data
    BY <1>1 DEF Task
  <2>3. task \in Task
    BY <1>1, <2>1 DEF Task
  <2>4. threads' = [threads EXCEPT ![t] = task]
    BY <1>1, <1>3 DEF Goes
  <2> HIDE DEF task
  <2>5. Fits(task)
    BY <1>1, <1>3, <2>2 DEF Fits, Writing, Reading, At
  <2>6. Moves(t, task)
    BY <1>3, <2>2, <2>3, <2>4, <2>5 DEF Moves, Writing, Reading
  <2>7. task.at # "store" /\ ~At(t, "store")
    BY <1>3, <2>2 DEF At
  <2>8. QED
    BY <1>1, <1>2, <2>2, <2>6, <2>7, QuietMove DEF AbstractStep
<1>4. CASE LockToModify(t)
  BY <1>1, <1>3, <1>4, Access DEF LockToModify
<1>5. CASE LockForRead(t)
  BY <1>1, <1>3, <1>5, Access DEF LockForRead
<1>6. QED
  BY <1>4, <1>5

(* The bytes of a partial write are made of what is there: the value the   *)
(* writes before it give, as no thread can be between reading the document *)
(* and writing it.                                                         *)
LEMMA PatchSound ==
  ASSUME Inv, NEW t \in Thread, PatchBytes(t)
  PROVE  Inv' /\ AbstractStep
<1> DEFINE key    == threads[t].key
           base   == Base(key)
           bytes  == Overlay[base][threads[t].data]
           member == IF base = Unreadable THEN CodecError ELSE EncodeValue(key, bytes)
<1>1. /\ threads[t] \in Task /\ Fits(threads[t]) /\ threads \in [Thread -> Task] /\ Locks
      /\ threads[t].at = "patch" /\ key \in Key /\ IsWellFormed(key) /\ threads[t].data \in Patch
      /\ threads[t].clears = {} /\ threads[t].holds = {DocumentWrite}
      /\ document \in JsonObject /\ expected \in [Key -> ByteString \cup {NotFound, Unreadable}]
      /\ UNCHANGED <<document, skipped, made>>
  BY TaskIsTyped DEF PatchBytes, Inv, Locks, Data, At, Fits, Writing
<1>2. Alone(t) /\ Apart(t)
  BY <1>1 DEF Locks, Exclusive, Alone, Apart, Writing
<1>3. \A u \in Thread : threads[u].at # "store"
  BY <1>1, <1>2 DEF Alone, Writing
<1>4. made' \in 0 .. MaxCalls
  BY <1>1 DEF Inv, Data
<1>5. CASE /\ member = CodecError
           /\ Replies("set", key, FALSE, NotFound) /\ Returns(t) /\ UNCHANGED expected
  <2>1. Moves(t, Idle)
    BY <1>5, IdleFits DEF Moves, Returns, Writing, Reading, Idle
  <2>2. Inv' /\ Contents' = Contents
    <3>1. Idle.clears = {} /\ Idle.at = "idle"
      BY DEF Idle
    <3>2. QED
      BY <1>1, <1>3, <1>4, <1>5, <2>1, <3>1, QuietMove DEF At
  <2>3. Abstract!Refuse
    BY <1>5, <2>2 DEF Replies, Abstract!Refuse
  <2>4. QED
    BY <2>2, <2>3 DEF AbstractStep, Abstract!Next
<1>6. CASE /\ member # CodecError
           /\ threads' = [threads EXCEPT ![t].at = "store", ![t].data = bytes]
           /\ expected' = [expected EXCEPT ![key] =
                Normal(key, Overlay[IF expected[key] = NotFound THEN Empty ELSE expected[key]]
                                   [threads[t].data])]
           /\ UNCHANGED reply
  <2>1. BeingCleared = {}
    BY <1>1, <1>2, ApartClears
  <2>2. expected[key] = ContentOf(document, skipped)[key]
    BY <1>1, <1>3, <2>1 DEF Inv, NoLostUpdate, Contents, At
  <2>3. base = IF expected[key] = NotFound THEN Empty ELSE expected[key]
    <3>1. expected[key] = IF Present(key) THEN DecodeValue(key, document.at[key]) ELSE NotFound
      BY <1>1, <2>2 DEF ContentOf, Present
    <3>2. Present(key) => DecodeValue(key, document.at[key]) # NotFound
      <4>1. Present(key) => DecodeValue(key, document.at[key]) \in ByteString \cup {Unreadable}
        BY <1>1, DecodeIsBytes DEF Present, Has, JsonObject
      <4>2. NotFound \notin ByteString \cup {Unreadable}
        BY DEF NotFound, Unreadable, ByteString
      <4>3. QED
        BY <4>1, <4>2
    <3>3. QED
      BY <3>1, <3>2 DEF Base
  <2>4. base \in ByteString /\ base # Unreadable
    BY <1>1, <1>6, <2>3, ConstantsAssumption
  <2>5. bytes \in ByteString /\ EncodeValue(key, bytes) # CodecError
    BY <1>1, <1>6, <2>4, ConstantsAssumption
  <2>6. expected' = [expected EXCEPT ![key] = Normal(key, bytes)]
    BY <1>6, <2>3
  <2> DEFINE task == [threads[t] EXCEPT !.at = "store", !.data = bytes]
  <2>7. threads' = [threads EXCEPT ![t] = task]
    BY <1>1, <1>6
  <2> HIDE DEF base, bytes, member
  <2>8. /\ task.at = "store" /\ task.data = bytes /\ task.key = key
        /\ task.clears = {} /\ task.holds = {DocumentWrite}
        /\ task \in Task
    BY <1>1, <2>5 DEF Task
  <2> HIDE DEF task
  <2>9. Moves(t, task)
    BY <1>1, <1>2, <2>5, <2>7, <2>8 DEF Moves, Fits, Writing, Reading
  <2>10. /\ Locks' /\ threads'[t] = task
         /\ \A u \in Thread \ {t} : threads'[u] = threads[u]
    BY <1>1, <2>9, Moved
  <2>11. BeingCleared' = {}
    <3>1. \A u \in Thread \ {t} : threads[u].clears = {}
      BY <1>1, <1>2, TaskIsTyped DEF Apart, Fits, Writing
    <3>2. \A u \in Thread \ {t} : threads'[u].clears = {}
      BY <2>10, <3>1
    <3>3. QED
      BY <2>8, <2>10, <3>2, OneClears DEF BeingCleared
  <2>12. Contents' = Contents
    BY <1>1, <2>1, <2>11 DEF Contents
  <2>13. Data' /\ SkipExact'
    <3>1. expected' \in [Key -> ByteString \cup {NotFound, Unreadable}]
      BY <1>1, <2>5, <2>6, NormalIsReply
    <3>2. QED
      BY <1>1, <2>1, <2>11, <3>1 DEF Inv, Data, SkipExact
  <2>14. ASSUME NEW k \in Key, ~(At(t, "store")' /\ threads'[t].key = k)
         PROVE  Contents'[k] = expected'[k]
    <3>1. k # key
      BY <2>8, <2>10, <2>14 DEF At
    <3>2. expected'[k] = expected[k]
      BY <1>1, <2>6, <3>1
    <3>3. Contents[k] = expected[k]
      BY <1>3 DEF Inv, NoLostUpdate, At
    <3>4. QED
      BY <2>12, <3>2, <3>3
  <2>15. NoLostUpdate'
    BY <2>14 DEF NoLostUpdate
  <2>16. StoresExpected'
    <3>1. ASSUME NEW u \in Thread, threads'[u].at = "store" PROVE u = t
      BY <1>3, <2>10, <3>1
    <3>2. expected'[key] = Normal(key, bytes)
      BY <1>1, <2>6
    <3>3. QED
      BY <2>8, <2>10, <3>1, <3>2 DEF StoresExpected, At
  <2>17. QED
    BY <1>6, <2>10, <2>12, <2>13, <2>15, <2>16 DEF Inv, AbstractStep
<1>7. QED
  BY <1>5, <1>6 DEF PatchBytes

(* get reads the document and the skip set under both locks. *)
LEMMA AnswerSound ==
  ASSUME Inv, NEW t \in Thread, Answer(t)
  PROVE  Inv' /\ AbstractStep
<1> DEFINE key   == threads[t].key
           found == IF Present(key) THEN DecodeValue(key, document.at[key]) ELSE NotFound
<1>1. /\ threads[t] \in Task /\ Fits(threads[t]) /\ Locks
      /\ threads[t].at = "answer" /\ key \in Key /\ threads[t].clears = {}
      /\ Returns(t) /\ UNCHANGED <<document, skipped, expected, made>>
      /\ reply' = [op |-> "get", key |-> key, ok |-> found # Unreadable, value |-> found]
  BY TaskIsTyped DEF Answer, Replies, Inv, At, Fits
<1>2. Apart(t)
  BY <1>1 DEF Locks, Exclusive, Apart, Reading
<1>3. Contents[key] = found
  <2>1. BeingCleared = {}
    BY <1>1, <1>2, ApartClears
  <2>2. QED
    BY <1>1, <2>1 DEF Contents, ContentOf, Present
<1>4. Idle.clears = {} /\ Idle.at = "idle" /\ made' \in 0 .. MaxCalls
  BY <1>1 DEF Idle, Inv, Data
<1>5. Moves(t, Idle)
  BY <1>1, IdleFits DEF Moves, Returns, Writing, Reading, Idle
<1>6. Inv' /\ Contents' = Contents
  BY <1>1, <1>4, <1>5, QuietMove DEF At
<1>7. Abstract!Read(key)
  BY <1>1, <1>3, <1>6 DEF Abstract!Read, Abstract!Replies
<1>8. QED
  BY <1>1, <1>6, <1>7 DEF AbstractStep, Abstract!Next

-----------------------------------------------------------------------------
(* Every step of every thread keeps the invariant and is one of the byte store. *)
LEMMA NextSound == Inv /\ Next => Inv' /\ AbstractStep
<1> SUFFICES ASSUME Inv, NEW t \in Thread,
                    \/ \E k \in Key, b \in Bytes : Set(t, k, b)
                    \/ \E k \in Key, j \in Json : SetJson(t, k, j)
                    \/ \E k \in Key, p \in Patch : SetPartialMany(t, k, p)
                    \/ \E k \in Key : Erase(t, k)
                    \/ \E d \in Directory : ErasePrefix(t, d)
                    \/ \E k \in Key : Get(t, k)
                    \/ Step(t)
             PROVE  Inv' /\ AbstractStep
  BY DEF Next
<1>1. CASE Insert(t)
  BY <1>1, PutSound DEF Insert, At
<1>2. CASE Store(t)
  BY <1>2, PutSound DEF Store, At
<1>3. CASE LockToModify(t) \/ LockForRead(t)
  BY <1>3, LockSound
<1>4. QED
  BY <1>1, <1>2, <1>3, CallSound, RemoveSound, RetainSound, UnskipSound, PatchSound, AnswerSound
  DEF Step

(* All threads are idle and the skip set was computed from the document. *)
LEMMA InitInv == Init => Inv
<1> SUFFICES ASSUME Init PROVE Inv
  OBVIOUS
<1>1. /\ document \in JsonObject /\ skipped = IssueKeys(document)
      /\ threads = [t \in Thread |-> Idle]
      /\ expected = ContentOf(document, skipped) /\ made \in 0 .. MaxCalls
  BY ConstantsAssumption DEF Init
<1>2. Data
  BY <1>1, ContentIsTyped DEF Data, IssueKeys
<1>3. \A t \in Thread : threads[t] = Idle /\ threads[t].at = "idle" /\ threads[t].clears = {}
  BY <1>1 DEF Idle
<1>4. Locks
  BY <1>1, <1>3, IdleFits DEF Locks, Exclusive, Writing, Reading
<1>5. BeingCleared = {}
  BY <1>3 DEF BeingCleared
<1>6. SkipExact /\ NoLostUpdate /\ StoresExpected
  BY <1>1, <1>3, <1>5 DEF SkipExact, NoLostUpdate, Contents, StoresExpected, At
<1>7. QED
  BY <1>2, <1>4, <1>6 DEF Inv

(* Nothing happens. *)
LEMMA UnchangedInv == Inv /\ UNCHANGED vars => Inv' /\ reply' = reply /\ Contents' = Contents
<1> SUFFICES ASSUME Inv, UNCHANGED vars PROVE Inv' /\ reply' = reply /\ Contents' = Contents
  OBVIOUS
<1>1. UNCHANGED <<document, skipped, expected, threads, made, reply>>
  BY DEF vars
<1>2. Locks' /\ made' \in 0 .. MaxCalls
  BY <1>1 DEF Inv, Data, Locks, Exclusive, Alone, Apart
<1>3. QED
  BY <1>1, <1>2, QuietInv

(***************************************************************************)
(* However many threads share the Rust store, a writer of the document has *)
(* it alone, the skip set and the document agree, and no write is lost.    *)
(***************************************************************************)
THEOREM Invariance == Spec => []Inv
<1>1. QED
  BY InitInv, NextSound, UnchangedInv, PTL DEF Spec

(* Every variable of the Rust store keeps its type. *)
THEOREM TypeCorrectness == Spec => []TypeOK
<1>1. Inv => TypeOK
  BY DEF Inv, Data, Locks, Task, TypeOK
<1>2. QED
  BY <1>1, Invariance, PTL

(***************************************************************************)
(* The skip set, behind a lock of its own, is what validating the document *)
(* would give, but for keys a writer that holds the document will clear.   *)
(***************************************************************************)
THEOREM SkipSetIsExact == Spec => []SkipExact
<1>1. QED
  BY Invariance, PTL DEF Inv

(***************************************************************************)
(* No write is lost, partial writes of several threads to one key          *)
(* included: each is applied to what the writes before it left.            *)
(***************************************************************************)
THEOREM NoWriteIsLost == Spec => []NoLostUpdate
<1>1. QED
  BY Invariance, PTL DEF Inv

(***************************************************************************)
(* The Rust store implements the byte store, whichever way its threads     *)
(* interleave: each operation takes effect at one instant.                 *)
(***************************************************************************)
THEOREM RustStoreIsByteStore == Spec => ImplementsByteStore
<1>1. Init => Abstract!Init
  <2> SUFFICES ASSUME Init PROVE Abstract!Init
    OBVIOUS
  <2>1. document \in JsonObject
    BY InitInv DEF Inv, Data
  <2>2. QED
    BY <2>1, ContentIsTyped DEF Abstract!Init, Abstract!Contents, Contents
<1>2. Inv /\ [Next]_vars => [Abstract!Next]_(Abstract!vars)
  BY NextSound, UnchangedInv DEF AbstractStep, Abstract!vars
<1>3. QED
  BY <1>1, <1>2, Invariance, PTL DEF Spec, ImplementsByteStore, Abstract!Spec

-----------------------------------------------------------------------------
(* Deadlock, without ENABLED: what a step waits for is its locks alone.    *)

HasItsLocks(t) ==
  \/ threads[t].at \in {"insert", "remove", "retain", "modify", "store"} /\ CanWrite(t, "document")
  \/ At(t, "read") /\ CanRead(t, "document")
  \/ At(t, "patch") /\ CanRead(t, "skipped")
  \/ At(t, "answer") /\ CanRead(t, "document") /\ CanRead(t, "skipped")
  \/ At(t, "unskip") /\ CanWrite(t, "skipped")

(***************************************************************************)
(* Threads never all wait for one another: as long as an operation is      *)
(* under way, some thread has every lock its next step takes.              *)
(***************************************************************************)
THEOREM SomeThreadProceeds ==
  Spec => []((\A t \in Thread : At(t, "idle")) \/ \E t \in Thread : HasItsLocks(t))
<1>1. ASSUME Inv, NEW s \in Thread, ~At(s, "idle")
      PROVE  \E t \in Thread : HasItsLocks(t)
  <2>1. Locks
    BY <1>1 DEF Inv
  <2>2. ASSUME NEW u \in Thread PROVE threads[u].holds \subseteq {DocumentRead, DocumentWrite}
    BY <2>1, TaskIsTyped DEF Fits
  <2>3. \A t \in Thread : CanWrite(t, "skipped") /\ CanRead(t, "skipped")
    BY <2>2 DEF CanWrite, CanRead, Holders, DocumentRead, DocumentWrite
  <2>4. ASSUME NEW t \in Thread, Writing(threads[t])
        PROVE  HasItsLocks(t)
    <3>1. \A u \in Thread \ {t} : threads[u].holds = {}
      BY <2>1, <2>4, TaskIsTyped DEF Locks, Exclusive, Alone, Fits
    <3>2. CanWrite(t, "document")
      BY <3>1 DEF CanWrite, Holders
    <3>3. QED
      BY <2>3, <2>4, <3>2 DEF HasItsLocks, Writing, At
  <2>5. ASSUME \A u \in Thread : ~Writing(threads[u]), NEW t \in Thread
        PROVE  CanRead(t, "document")
    <3>1. \A u \in Thread : threads[u].holds \subseteq {DocumentRead}
      BY <2>1, <2>5, TaskIsTyped DEF Fits
    <3>2. QED
      BY <3>1 DEF CanRead, Holders, DocumentRead
  <2>6. ASSUME \A u \in Thread : ~Writing(threads[u]), NEW t \in Thread, Reading(threads[t])
        PROVE  HasItsLocks(t)
    BY <2>3, <2>5, <2>6 DEF HasItsLocks, Reading, At
  <2>7. ASSUME \A u \in Thread : ~Writing(threads[u]) /\ ~Reading(threads[u])
        PROVE  HasItsLocks(s)
    <3>1. \A u \in Thread : threads[u].holds = {}
      BY <2>1, <2>7, TaskIsTyped DEF Fits
    <3>2. CanWrite(s, "document") /\ CanRead(s, "document")
      BY <3>1 DEF CanWrite, CanRead, Holders
    <3>3. threads[s] \in Task
      BY <2>1, TaskIsTyped
    <3>4. threads[s].at \in {"insert", "remove", "retain", "modify", "read"}
      BY <1>1, <2>7, <3>3 DEF Task, Writing, Reading, At
    <3>5. QED
      BY <3>2, <3>4 DEF HasItsLocks, At
  <2>8. QED
    BY <2>4, <2>6, <2>7
<1>2. Inv => (\A t \in Thread : At(t, "idle")) \/ \E t \in Thread : HasItsLocks(t)
  BY <1>1
<1>3. QED
  BY <1>2, Invariance, PTL

=============================================================================
