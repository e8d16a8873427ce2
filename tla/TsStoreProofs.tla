--------------------------- MODULE TsStoreProofs ---------------------------
(***************************************************************************)
(* Proofs about the TypeScript store and its queue of calls, for every set *)
(* of keys, bytes and initial documents and any number of calls.           *)
(***************************************************************************)
EXTENDS TsStore, JsonDocumentProofs

Replies == ByteString \cup {NotFound, Unreadable}

Call ==
  [op : {"set", "setJson", "delete", "get", "has"}, key : Key, given : ByteString,
   refilled : BOOLEAN, after : Nat, state : {"queued", "ran", "told"},
   refused : BOOLEAN, ok : BOOLEAN, value : Replies]

Types ==
  /\ backing \in [kind : Kind, holds : JsonObject \cup {Torn}, failed : BOOLEAN]
  /\ document \in JsonObject
  /\ skipped \subseteq Key
  /\ readOnly \in BOOLEAN
  /\ buffer \in Bytes
  /\ calls \in Seq(Call)
  /\ Len(calls) <= MaxCalls
  /\ latest \in 0 .. Len(calls)

(***************************************************************************)
(* The queue.  A call is chained to the last one before it that was not    *)
(* refused, and so runs only when every call before it has settled: this   *)
(* is what the one variable #lock amounts to.                              *)
(***************************************************************************)
LastBefore(p, c) ==
  /\ p \in 0 .. c - 1
  /\ p # 0 => ~calls[p].refused
  /\ \A d \in 1 .. c - 1 : d > p => calls[d].refused

Waits(c) == calls[c].state = "queued"

Chained ==
  /\ LastBefore(lock, Len(calls) + 1)
  /\ \A c \in 1 .. Len(calls) : LastBefore(calls[c].after, c)
  /\ \A c \in 1 .. Len(calls) : calls[c].refused => ~Waits(c) /\ ~calls[c].ok

InOrder ==
  \A c, d \in 1 .. Len(calls) : d < c /\ ~Waits(c) /\ ~calls[c].refused => ~Waits(d)

(* A call that waits passed the checks before its first await; the array   *)
(* of a set is what it was given, unless the caller refilled it.           *)
Arguments ==
  \A c \in 1 .. Len(calls) : Waits(c) =>
    /\ calls[c].op \in {"set", "setJson"} => IsWellFormed(calls[c].key)
    /\ calls[c].op = "set" /\ ~calls[c].refilled => calls[c].given = buffer

NoReadRefused == \A c \in 1 .. Len(calls) : calls[c].refused => calls[c].op # "get"

Queue == Types /\ Chained /\ InOrder /\ Arguments /\ NoReadRefused

-----------------------------------------------------------------------------
(* The steps, as what they do to the sequence of calls. *)

Joins(new) ==
  /\ calls' \in Seq(Call)
  /\ Len(calls') = Len(calls) + 1
  /\ \A i \in 1 .. Len(calls) : calls'[i] = calls[i]
  /\ calls'[Len(calls) + 1] = new

Enqueues(op, key, given) ==
  /\ Joins(NewCall(op, key, given))
  /\ lock' = Len(calls) + 1
  /\ UNCHANGED <<backing, document, skipped, readOnly, buffer, latest>>

Refusal(op, key, given) ==
  [NewCall(op, key, given) EXCEPT !.state = "ran", !.refused = TRUE, !.ok = FALSE]

Refuses(op, key, given) ==
  /\ Joins(Refusal(op, key, given))
  /\ latest' = Len(calls) + 1
  /\ UNCHANGED <<backing, document, skipped, readOnly, lock, buffer>>

(* A call is appended to the calls before it. *)
LEMMA Appended ==
  ASSUME Types, NEW new \in Call, calls' = Append(calls, new)
  PROVE  Joins(new)
<1>1. calls \in Seq(Call)
  BY DEF Types
<1>2. QED
  BY <1>1 DEF Joins

(* What a method makes of its arguments is a call. *)
LEMMA NewCallIsTyped ==
  ASSUME Types, Chained, NEW op \in {"set", "setJson", "delete", "get", "has"},
         NEW key \in Key, NEW given \in ByteString
  PROVE  /\ NewCall(op, key, given) \in Call
         /\ Refusal(op, key, given) \in Call
<1>1. lock \in Nat
  BY DEF Chained, LastBefore, Types
<1>2. NewCall(op, key, given) \in Call
  BY <1>1 DEF NewCall, Call, Replies
<1>3. Refusal(op, key, given) \in Call
  BY <1>2 DEF Refusal, Call
<1>4. QED
  BY <1>2, <1>3

(* #withLock chains the call to the last one not refused. *)
LEMMA WithLockEnqueues ==
  ASSUME Types, Chained, NEW op \in {"set", "setJson", "delete", "get", "has"},
         NEW key \in Key, NEW given \in ByteString, WithLock(op, key, given)
  PROVE  Enqueues(op, key, given)
  BY NewCallIsTyped, Appended DEF WithLock, Enqueues

(* A call refused before its first await is chained to nothing. *)
LEMMA RefuseRefuses ==
  ASSUME Types, Chained, NEW op \in {"set", "setJson", "delete"},
         NEW key \in Key, NEW given \in ByteString, Refuse(op, key, given)
  PROVE  Refuses(op, key, given)
<1>1. calls' = Append(calls, Refusal(op, key, given))
  BY DEF Refuse, Refusal
<1>2. Joins(Refusal(op, key, given))
  BY <1>1, NewCallIsTyped, Appended
<1>3. QED
  BY <1>2 DEF Refuse, Refuses

(* The fields of a call. *)
LEMMA CallIsTyped ==
  ASSUME Types, NEW c \in 1 .. Len(calls)
  PROVE  /\ calls[c] \in Call
         /\ calls[c].op \in {"set", "setJson", "delete", "get", "has"}
         /\ calls[c].key \in Key /\ calls[c].given \in ByteString
         /\ calls[c].state \in {"queued", "ran", "told"}
         /\ calls[c].refused \in BOOLEAN /\ calls[c].ok \in BOOLEAN
         /\ calls[c].refilled \in BOOLEAN /\ calls[c].value \in Replies
<1>1. calls[c] \in Call
  BY DEF Types
<1>2. QED
  BY <1>1 DEF Call

(* One call of the sequence changes, to what it is next. *)
Becomes(c, next) ==
  /\ calls' \in Seq(Call)
  /\ Len(calls') = Len(calls)
  /\ \A i \in 1 .. Len(calls) : i # c => calls'[i] = calls[i]
  /\ calls'[c] = next

Settled(c, ok, value) ==
  [calls[c] EXCEPT !.state = "ran", !.ok = ok, !.value = value]

(* One call of the sequence becomes another, the rest stay. *)
LEMMA Changed ==
  ASSUME Types, NEW c \in 1 .. Len(calls), NEW next \in Call,
         calls' = [calls EXCEPT ![c] = next]
  PROVE  Becomes(c, next)
<1>1. calls \in Seq(Call)
  BY DEF Types
<1>2. calls' \in Seq(Call)
  BY <1>1, ExceptSeq
<1>3. QED
  BY <1>1, <1>2 DEF Becomes

(* A call that runs has its result, and waits to be told. *)
LEMMA SettleSettles ==
  ASSUME Types, NEW c \in 1 .. Len(calls), NEW ok \in BOOLEAN, NEW value \in Replies,
         Settle(c, ok, value)
  PROVE  Becomes(c, Settled(c, ok, value))
<1>1. calls \in Seq(Call) /\ calls[c] \in Call
  BY DEF Types
<1>2. calls' = [calls EXCEPT ![c] = Settled(c, ok, value)]
  BY <1>1 DEF Settle, Settled, Call
<1>3. Settled(c, ok, value) \in Call
  BY <1>1 DEF Settled, Call
<1>4. QED
  BY <1>2, <1>3, Changed

(* A promise that settles tells its caller. *)
LEMMA TellTells ==
  ASSUME Types, NEW c \in 1 .. Len(calls), Tell(c)
  PROVE  Becomes(c, [calls[c] EXCEPT !.state = "told"])
<1>1. calls \in Seq(Call) /\ calls[c] \in Call
  BY DEF Types
<1>2. calls' = [calls EXCEPT ![c] = [calls[c] EXCEPT !.state = "told"]]
  BY <1>1 DEF Tell, Call
<1>3. [calls[c] EXCEPT !.state = "told"] \in Call
  BY <1>1 DEF Call
<1>4. QED
  BY <1>2, <1>3, Changed

(* Refilling the array marks the sets that wait with it. *)
Refilled(i) ==
  IF calls[i].op = "set" /\ Waits(i) THEN [calls[i] EXCEPT !.refilled = TRUE] ELSE calls[i]

(* The caller refills the array it has passed to sets that still wait. *)
LEMMA RefillMarks ==
  ASSUME Types, NEW bytes \in Bytes, Refill(bytes)
  PROVE  /\ calls' \in Seq(Call)
         /\ Len(calls') = Len(calls)
         /\ \A i \in 1 .. Len(calls) : calls'[i] = Refilled(i)
<1>1. calls \in Seq(Call) /\ DOMAIN calls = 1 .. Len(calls) /\ Len(calls) \in Nat
  BY DEF Types
<1>2. ASSUME NEW i \in 1 .. Len(calls)
      PROVE  Refilled(i) \in Call
  <2>1. calls[i] \in Call
    BY <1>1
  <2>2. [calls[i] EXCEPT !.refilled = TRUE] \in Call
    BY <2>1 DEF Call
  <2>3. QED
    BY <2>1, <2>2 DEF Refilled
<1>3. calls' = [i \in 1 .. Len(calls) |-> Refilled(i)]
  BY <1>1 DEF Refill, Refilled, Waits
<1>4. calls' \in [1 .. Len(calls) -> Call]
  BY <1>2, <1>3
<1>5. calls' \in Seq(Call) /\ Len(calls') = Len(calls)
  BY <1>1, <1>4, IsASeq
<1>6. QED
  BY <1>3, <1>5

-----------------------------------------------------------------------------
(* What fn does, in one piece. *)

RunsTo(c, ok, value) ==
  /\ Waits(c) /\ Fulfilled(calls[c].after)
  /\ Becomes(c, Settled(c, ok, value))
  /\ latest' = c
  /\ UNCHANGED <<readOnly, lock, buffer>>

Written(c) ==
  LET key   == calls[c].key
      value == EncodeValue(key, Argument(c))
  IN  /\ calls[c].op \in {"set", "setJson"}
      /\ Argument(c) \in ByteString /\ value # CodecError
      /\ document' = Put(document, key, value)
      /\ skipped' = skipped \ {key}
      /\ backing' = [backing EXCEPT !.holds = document', !.failed = FALSE]
      /\ RunsTo(c, TRUE, Argument(c))

Erased(c) ==
  LET key == calls[c].key
  IN  /\ calls[c].op = "delete"
      /\ document' = Pop(document, key)
      /\ skipped' = skipped \ {key}
      /\ backing' = [backing EXCEPT !.holds = document', !.failed = FALSE]
      /\ RunsTo(c, TRUE, NotFound)

(* The document a set or delete persists, of a value that has an encoding. *)
Encodable(c) ==
  calls[c].op # "delete" =>
    Argument(c) \in ByteString /\ EncodeValue(calls[c].key, Argument(c)) # CodecError

Mutated(c) ==
  IF calls[c].op = "delete"
  THEN Pop(document, calls[c].key)
  ELSE Put(document, calls[c].key, EncodeValue(calls[c].key, Argument(c)))

(* What a call that fails may leave: a caller's own backing can hold       *)
(* anything when it has thrown.                                            *)
NotWritten == backing' = backing \/ backing' = [backing EXCEPT !.failed = TRUE]

Spoiled ==
  /\ backing.kind = "custom"
  /\ \E left \in JsonObject \cup {Torn} :
       backing' = [backing EXCEPT !.holds = left, !.failed = TRUE]

Undone(c) ==
  /\ calls[c].op \in {"set", "setJson", "delete"}
  /\ document' \in JsonObject /\ document'.at = document.at
  /\ calls[c].op # "delete" => document' = document
  /\ UNCHANGED skipped
  /\ NotWritten \/ Spoiled
  /\ RunsTo(c, FALSE, NotFound)

Answered(c) ==
  LET key      == calls[c].key
      contents == ContentOf(document, skipped)
  IN  /\ UNCHANGED <<backing, document, skipped>>
      /\ \/ /\ calls[c].op = "get"
            /\ RunsTo(c, contents[key] # Unreadable, contents[key])
         \/ /\ calls[c].op = "has"
            /\ RunsTo(c, contents[key] # NotFound, NotFound)

(* The outcomes of a persist: only a caller's own, if it throws, may have  *)
(* changed what the backing holds.                                         *)
LEMMA PersistOutcomes ==
  ASSUME Types, NEW doc \in JsonObject, NEW result \in Persist(doc)
  PROVE  /\ result.ok \in BOOLEAN
         /\ result.ok => result.holds = doc
         /\ ~result.ok => \/ result.holds = backing.holds
                          \/ backing.kind = "custom" /\ result.holds \in JsonObject \cup {Torn}
<1>1. backing.kind \in BackingKind
  BY ConstantsAssumption DEF Types
<1>2. CASE backing.kind = "memory"
  <2>1. result = [ok |-> TRUE, holds |-> doc]
    BY <1>2 DEF Persist
  <2>2. QED
    BY <2>1
<1>3. CASE backing.kind = "string"
  <2>1. \/ result = [ok |-> TRUE, holds |-> doc]
        \/ result = [ok |-> FALSE, holds |-> backing.holds]
    BY <1>3 DEF Persist
  <2>2. CASE result = [ok |-> TRUE, holds |-> doc]
    BY <2>2
  <2>3. CASE result = [ok |-> FALSE, holds |-> backing.holds]
    BY <2>3
  <2>4. QED
    BY <2>1, <2>2, <2>3
<1>4. CASE backing.kind = "custom"
  <2>1. \/ result \in [ok : {FALSE}, holds : {backing.holds, doc} \cup Debris]
        \/ result \in [ok : {TRUE}, holds : {doc}]
    BY <1>4, Zenon DEF Persist
  <2>2. CASE result \in [ok : {FALSE}, holds : {backing.holds, doc} \cup Debris]
    <3>1. result.ok = FALSE /\ result.holds \in {backing.holds, doc} \cup Debris
      BY <2>2
    <3>2. QED
      BY <1>4, <3>1, ConstantsAssumption
  <2>3. CASE result \in [ok : {TRUE}, holds : {doc}]
    <3>1. result.ok = TRUE /\ result.holds = doc
      BY <2>3
    <3>2. QED
      BY <3>1
  <2>4. QED
    BY <2>1, <2>2, <2>3
<1>5. QED
  BY <1>1, <1>2, <1>3, <1>4 DEF BackingKind

(* set and delete either persist and are answered, or undo and fail. *)
Persists(c, given, doc) ==
  /\ document' = doc
  /\ skipped' = skipped \ {calls[c].key}
  /\ backing' = [backing EXCEPT !.holds = doc, !.failed = FALSE]
  /\ Becomes(c, Settled(c, TRUE, given))

Fails(c, undone) ==
  /\ document' = undone
  /\ UNCHANGED skipped
  /\ NotWritten \/ Spoiled
  /\ Becomes(c, Settled(c, FALSE, NotFound))

LEMMA MutateEffect ==
  ASSUME Types, NEW c \in 1 .. Len(calls), NEW given \in Replies,
         NEW mutated \in JsonObject, NEW undone, Mutate(c, given, mutated, undone)
  PROVE  Persists(c, given, mutated) \/ Fails(c, undone)
<1>1. PICK result \in Persist(mutated) :
        /\ backing' = [backing EXCEPT !.holds = result.holds, !.failed = ~result.ok]
        /\ \/ result.ok /\ document' = mutated /\ skipped' = skipped \ {calls[c].key}
           \/ ~result.ok /\ document' = undone /\ skipped' = skipped
        /\ Settle(c, result.ok, IF result.ok THEN given ELSE NotFound)
  BY Zenon DEF Mutate
<1>2. /\ result.ok \in BOOLEAN
      /\ result.ok => result.holds = mutated
      /\ ~result.ok => \/ result.holds = backing.holds
                       \/ backing.kind = "custom" /\ result.holds \in JsonObject \cup {Torn}
  BY PersistOutcomes
<1>3. backing \in [kind : Kind, holds : JsonObject \cup {Torn}, failed : BOOLEAN]
  BY DEF Types
<1>4. NotFound \in Replies
  BY DEF Replies
<1>5. CASE result.ok = TRUE
  <2>1. Becomes(c, Settled(c, TRUE, given))
    BY <1>1, <1>5, SettleSettles
  <2>2. backing' = [backing EXCEPT !.holds = mutated, !.failed = FALSE]
    BY <1>1, <1>2, <1>5
  <2>3. QED
    BY <1>1, <1>5, <2>1, <2>2 DEF Persists
<1>6. CASE result.ok = FALSE
  <2>1. Becomes(c, Settled(c, FALSE, NotFound))
    BY <1>1, <1>4, <1>6, SettleSettles
  <2>2. backing' = [backing EXCEPT !.holds = result.holds, !.failed = TRUE]
    BY <1>1, <1>6
  <2>3. [backing EXCEPT !.holds = backing.holds, !.failed = TRUE]
          = [backing EXCEPT !.failed = TRUE]
    BY <1>3
  <2>4. QED
    BY <1>1, <1>2, <1>6, <2>1, <2>2, <2>3 DEF Fails, NotWritten, Spoiled
<1>7. QED
  BY <1>2, <1>5, <1>6

(* A call whose turn comes runs to its result. *)
LEMMA RunsToSettled ==
  ASSUME NEW c, NEW ops, Runs(c, ops), NEW ok, NEW value, Becomes(c, Settled(c, ok, value))
  PROVE  RunsTo(c, ok, value)
  BY DEF Runs, RunsTo, Waits

(* set and setJson write the member, or undo. *)
LEMMA SetEffect ==
  ASSUME Queue, NEW c \in 1 .. Len(calls), RunSet(c)
  PROVE  Written(c) \/ Undone(c)
<1> DEFINE key     == calls[c].key
           encoded == EncodeValue(key, Argument(c))
           written == Put(document, key, encoded)
           undone  == Restore(written, key, document.at[key])
<1>1. /\ calls[c] \in Call /\ key \in Key
      /\ document \in JsonObject
  BY CallIsTyped DEF Queue, Types
<1>2. Argument(c) \in ByteString
  BY CallIsTyped, ConstantsAssumption DEF Argument, Queue, Types
<1>3. Runs(c, {"set", "setJson"}) /\ calls[c].op \in {"set", "setJson"}
  BY Zenon DEF RunSet, Runs
<1>4. CASE encoded = CodecError /\ Settle(c, FALSE, NotFound) /\ UNCHANGED <<backing, document, skipped>>
  <2>1. Becomes(c, Settled(c, FALSE, NotFound))
    BY <1>4, SettleSettles DEF Queue, Replies
  <2>2. RunsTo(c, FALSE, NotFound)
    BY <1>3, <2>1, RunsToSettled
  <2>3. QED
    BY <1>1, <1>3, <1>4, <2>2 DEF Undone, NotWritten
<1>5. CASE encoded # CodecError /\ Mutate(c, Argument(c), written, undone)
  <2>1. encoded \in Member
    BY <1>2, <1>5, EncodeIsMember
  <2>2. undone = document /\ written \in JsonObject
    BY <1>1, <2>1, UndonePut, PutIsObject
  <2> HIDE DEF written, undone
  <2>3. Persists(c, Argument(c), written) \/ Fails(c, undone)
    BY <1>2, <1>5, <2>2, MutateEffect DEF Queue, Replies
  <2>4. CASE Persists(c, Argument(c), written)
    <3>1. RunsTo(c, TRUE, Argument(c))
      BY <1>3, <2>4, RunsToSettled DEF Persists
    <3>2. Written(c)
      BY <1>2, <1>3, <1>5, <2>4, <3>1 DEF Written, Persists, written
    <3>3. QED
      BY <3>2
  <2>5. CASE Fails(c, undone)
    <3>1. RunsTo(c, FALSE, NotFound)
      BY <1>3, <2>5, RunsToSettled DEF Fails
    <3>2. QED
      BY <1>1, <1>3, <2>2, <2>5, <3>1 DEF Undone, Fails
  <2>6. QED
    BY <2>3, <2>4, <2>5
<1>6. QED
  BY <1>4, <1>5, Zenon DEF RunSet

(* delete removes the member, or undoes. *)
LEMMA DeleteEffect ==
  ASSUME Queue, NEW c \in 1 .. Len(calls), RunDelete(c)
  PROVE  Erased(c) \/ Undone(c)
<1> DEFINE key     == calls[c].key
           deleted == Pop(document, key)
           undone  == Restore(deleted, key, document.at[key])
<1>1. /\ calls[c] \in Call /\ key \in Key
      /\ document \in JsonObject /\ document.at[key] \in Member \cup {Missing}
  BY CallIsTyped DEF Queue, Types, JsonObject
<1>2. Runs(c, {"delete"}) /\ calls[c].op = "delete"
  BY Zenon DEF RunDelete, Runs
<1>3. deleted \in JsonObject /\ undone \in JsonObject /\ undone.at = document.at
  BY <1>1, RemoveIsObject, RestoreIsObject, UndoneMembers
<1>4. Mutate(c, NotFound, deleted, undone)
  BY Zenon DEF RunDelete
<1> HIDE DEF deleted, undone
<1>5. Persists(c, NotFound, deleted) \/ Fails(c, undone)
  BY <1>3, <1>4, MutateEffect DEF Queue, Replies
<1>6. CASE Persists(c, NotFound, deleted)
  <2>1. RunsTo(c, TRUE, NotFound)
    BY <1>2, <1>6, RunsToSettled DEF Persists
  <2>2. Erased(c)
    BY <1>2, <1>6, <2>1 DEF Erased, Persists, deleted
  <2>3. QED
    BY <2>2
<1>7. CASE Fails(c, undone)
  <2>1. RunsTo(c, FALSE, NotFound)
    BY <1>2, <1>7, RunsToSettled DEF Fails
  <2>2. QED
    BY <1>2, <1>3, <1>7, <2>1 DEF Undone, Fails
<1>8. QED
  BY <1>5, <1>6, <1>7

(* get and has answer from the document and the skip set. *)
LEMMA ReadEffect ==
  ASSUME Queue, NEW c \in 1 .. Len(calls), RunGet(c) \/ RunHas(c)
  PROVE  Answered(c)
<1> DEFINE key      == calls[c].key
           contents == ContentOf(document, skipped)
           found    == IF Present(key) THEN DecodeValue(key, document.at[key]) ELSE NotFound
<1>1. /\ calls[c] \in Call /\ key \in Key
      /\ document \in JsonObject
  BY CallIsTyped DEF Queue, Types
<1>2. contents[key] = found
  BY <1>1 DEF ContentOf, Present
<1>3. contents[key] \in Replies
  BY <1>1, ContentIsTyped DEF Replies
<1>4. Present(key) = (found # NotFound)
  <2>1. Present(key) => found \in ByteString \cup {Unreadable}
    BY <1>1, DecodeIsBytes DEF Present, Has, JsonObject
  <2>2. NotFound \notin ByteString \cup {Unreadable}
    BY DEF NotFound, Unreadable, ByteString
  <2>3. QED
    BY <2>1, <2>2 DEF Present, Has
<1>5. CASE RunGet(c)
  <2>1. /\ Runs(c, {"get"}) /\ calls[c].op = "get"
        /\ Settle(c, found # Unreadable, found)
        /\ UNCHANGED <<backing, document, skipped>>
    BY <1>5, Zenon DEF RunGet, Runs
  <2> HIDE DEF found, contents
  <2>2. Becomes(c, Settled(c, found # Unreadable, found))
    BY <1>2, <1>3, <2>1, SettleSettles DEF Queue
  <2>3. RunsTo(c, contents[key] # Unreadable, contents[key])
    BY <1>2, <2>1, <2>2, RunsToSettled
  <2>4. QED
    BY <2>1, <2>3 DEF Answered, contents
<1>6. CASE RunHas(c)
  <2>1. /\ Runs(c, {"has"}) /\ calls[c].op = "has"
        /\ Settle(c, Present(key), NotFound)
        /\ UNCHANGED <<backing, document, skipped>>
    BY <1>6, Zenon DEF RunHas, Runs
  <2> HIDE DEF found, contents
  <2>2. Settle(c, contents[key] # NotFound, NotFound)
    BY <1>2, <1>4, <2>1
  <2>3. Becomes(c, Settled(c, contents[key] # NotFound, NotFound))
    BY <2>2, SettleSettles DEF Queue, Replies
  <2>4. RunsTo(c, contents[key] # NotFound, NotFound)
    BY <2>1, <2>3, RunsToSettled
  <2>5. QED
    BY <2>1, <2>4 DEF Answered, contents
<1>7. QED
  BY <1>5, <1>6

-----------------------------------------------------------------------------
(* Every step is a call that joins the queue or is refused, a refilled     *)
(* array, what a call does when its turn comes, or a promise that settles. *)
Ops == {"set", "setJson", "delete", "get", "has"}

Passes(op, key, given) ==
  /\ op \in {"set", "setJson"} => IsWellFormed(key)
  /\ op = "set" => given = buffer

CallJoins ==
  More /\ \E op \in Ops, key \in Key, given \in ByteString :
    Passes(op, key, given) /\ Enqueues(op, key, given)

CallIsRefused ==
  More /\ \E op \in {"set", "setJson", "delete"}, key \in Key, given \in ByteString :
    Refuses(op, key, given)

ArrayIsRefilled == \E bytes \in Bytes : Refill(bytes)

CallRuns ==
  \E c \in 1 .. Len(calls) : Written(c) \/ Erased(c) \/ Undone(c) \/ Answered(c)

CallIsTold == \E c \in 1 .. Len(calls) : Tell(c)

(* set and setJson join the queue, or are refused. *)
LEMMA SetBytesKind ==
  ASSUME Queue, More,
         NEW op \in {"set", "setJson"}, NEW key \in Key, NEW given \in ByteString,
         op = "set" => given = buffer, SetBytes(op, key, given)
  PROVE  CallJoins \/ CallIsRefused
<1>1. CASE Refuse(op, key, given)
  BY <1>1, RefuseRefuses DEF Queue, CallIsRefused
<1>2. CASE IsWellFormed(key) /\ WithLock(op, key, given)
  <2>1. Enqueues(op, key, given)
    BY <1>2, WithLockEnqueues DEF Queue
  <2>2. QED
    BY <1>2, <2>1 DEF CallJoins, Passes, Ops
<1>3. QED
  BY <1>1, <1>2 DEF SetBytes

(* Every step is one of five kinds. *)
LEMMA StepKinds ==
  ASSUME Queue, Next
  PROVE  CallJoins \/ CallIsRefused \/ ArrayIsRefilled \/ CallRuns \/ CallIsTold
<1>1. buffer \in ByteString /\ DOMAIN calls = 1 .. Len(calls)
  BY ConstantsAssumption DEF Queue, Types
<1>2. ASSUME NEW k \in Key, Set(k)
      PROVE  CallJoins \/ CallIsRefused
  BY <1>1, <1>2, SetBytesKind DEF Set
<1>3. ASSUME NEW k \in Key, NEW j \in Json, SetJson(k, j)
      PROVE  CallJoins \/ CallIsRefused
  <2>1. CASE More /\ Refuse("setJson", k, buffer)
    BY <1>1, <2>1, RefuseRefuses DEF Queue, CallIsRefused
  <2>2. CASE More /\ FitsKey(k, j) /\ SetBytes("setJson", k, Canonical(j))
    <3>1. Canonical(j) \in ByteString
      BY <2>2, CanonicalIsBytes, ConstantsAssumption
    <3>2. QED
      BY <2>2, <3>1, SetBytesKind
  <2>3. QED
    BY <1>3, <2>1, <2>2 DEF SetJson
<1>4. ASSUME NEW k \in Key, Delete(k)
      PROVE  CallJoins \/ CallIsRefused
  <2>1. CASE More /\ Refuse("delete", k, buffer)
    BY <1>1, <2>1, RefuseRefuses DEF Queue, CallIsRefused
  <2>2. CASE More /\ WithLock("delete", k, buffer)
    <3>1. Enqueues("delete", k, buffer)
      BY <1>1, <2>2, WithLockEnqueues DEF Queue
    <3>2. QED
      BY <1>1, <2>2, <3>1 DEF CallJoins, Passes, Ops
  <2>3. QED
    BY <1>4, <2>1, <2>2 DEF Delete
<1>5. ASSUME NEW k \in Key, NEW op \in {"get", "has"}, More, WithLock(op, k, buffer)
      PROVE  CallJoins
  <2>1. Enqueues(op, k, buffer)
    BY <1>1, <1>5, WithLockEnqueues DEF Queue
  <2>2. QED
    BY <1>1, <1>5, <2>1 DEF CallJoins, Passes, Ops
<1>6. ASSUME NEW c \in 1 .. Len(calls), Run(c)
      PROVE  CallRuns
  BY <1>6, SetEffect, DeleteEffect, ReadEffect DEF Run, CallRuns
<1>7. QED
  BY <1>1, <1>2, <1>3, <1>4, <1>5, <1>6 DEF Next, Get, HasKey, Run, ArrayIsRefilled, CallIsTold

-----------------------------------------------------------------------------
(* The queue is kept. *)

(* What a promise is chained to does not change with the calls after it. *)
LEMMA LastBeforeKept ==
  ASSUME Queue, NEW p, NEW c \in 1 .. Len(calls) + 1, LastBefore(p, c),
         \A i \in 1 .. Len(calls) : calls'[i].refused = calls[i].refused
  PROVE  /\ p \in 0 .. c - 1
         /\ p # 0 => ~calls'[p].refused
         /\ \A d \in 1 .. c - 1 : d > p => calls'[d].refused
<1>1. Len(calls) \in Nat
  BY DEF Queue, Types
<1>2. QED
  BY <1>1 DEF LastBefore

(* A call that joins is chained behind those before it. *)
LEMMA JoinsQueue ==
  ASSUME Queue, CallJoins
  PROVE  Queue'
<1>1. PICK op \in Ops, key \in Key, given \in ByteString :
        Passes(op, key, given) /\ Enqueues(op, key, given)
  BY DEF CallJoins
<1> DEFINE new == NewCall(op, key, given)
<1>2. /\ calls' \in Seq(Call) /\ Len(calls') = Len(calls) + 1
      /\ \A i \in 1 .. Len(calls) : calls'[i] = calls[i]
      /\ calls'[Len(calls) + 1] = new
      /\ lock' = Len(calls) + 1
      /\ UNCHANGED <<backing, document, skipped, readOnly, buffer, latest>>
  BY <1>1 DEF Enqueues, Joins
<1>3. /\ new.op = op /\ new.key = key /\ new.given = given /\ new.after = lock
      /\ new.state = "queued" /\ new.refused = FALSE /\ new.refilled = FALSE
  BY DEF NewCall
<1> HIDE DEF new
<1>4. Len(calls) \in Nat /\ Len(calls) < MaxCalls
  BY DEF CallJoins, More, Queue, Types
<1>5. Types'
  BY <1>2, <1>4, ConstantsAssumption DEF Queue, Types
<1>6. LastBefore(lock, Len(calls) + 1)'
  BY <1>2, <1>3, <1>4 DEF LastBefore
<1>7. ASSUME NEW c \in 1 .. Len(calls')
      PROVE  LastBefore(calls[c].after, c)'
  <2>1. c \in 1 .. Len(calls) + 1
    BY <1>2, <1>4
  <2>2. LastBefore(calls'[c].after, c)
    BY <1>2, <1>3, <1>4 DEF Queue, Chained
  <2>3. QED
    BY <1>2, <2>1, <2>2, LastBeforeKept DEF LastBefore
<1>8. Chained'
  <2>1. ASSUME NEW c \in 1 .. Len(calls')
        PROVE  (calls[c].refused => ~Waits(c) /\ ~calls[c].ok)'
    BY <1>2, <1>3, <1>4 DEF Queue, Chained, Waits
  <2>2. QED
    BY <1>6, <1>7, <2>1 DEF Chained
<1>9. InOrder'
  BY <1>2, <1>3, <1>4 DEF Queue, InOrder, Waits
<1>10. Arguments' /\ NoReadRefused'
  BY <1>1, <1>2, <1>3, <1>4 DEF Queue, Arguments, NoReadRefused, Waits, Passes
<1>11. QED
  BY <1>5, <1>8, <1>9, <1>10 DEF Queue

(* A call that is refused leaves the chain as it is. *)
LEMMA RefusedQueue ==
  ASSUME Queue, CallIsRefused
  PROVE  Queue'
<1>1. PICK op \in {"set", "setJson", "delete"}, key \in Key, given \in ByteString :
        Refuses(op, key, given)
  BY DEF CallIsRefused
<1> DEFINE new == Refusal(op, key, given)
<1>2. /\ calls' \in Seq(Call) /\ Len(calls') = Len(calls) + 1
      /\ \A i \in 1 .. Len(calls) : calls'[i] = calls[i]
      /\ calls'[Len(calls) + 1] = new
      /\ latest' = Len(calls) + 1
      /\ UNCHANGED <<backing, document, skipped, readOnly, lock, buffer>>
  BY <1>1 DEF Refuses, Joins
<1>3. /\ new.after = lock /\ new.state = "ran" /\ new.refused = TRUE /\ new.ok = FALSE
      /\ new.op = op
  BY DEF Refusal, NewCall
<1> HIDE DEF new
<1>4. Len(calls) \in Nat /\ Len(calls) < MaxCalls
  BY DEF CallIsRefused, More, Queue, Types
<1>5. Types'
  BY <1>2, <1>4, ConstantsAssumption DEF Queue, Types
<1>6. LastBefore(lock, Len(calls) + 1)'
  BY <1>2, <1>3, <1>4 DEF Queue, Chained, LastBefore
<1>7. ASSUME NEW c \in 1 .. Len(calls')
      PROVE  LastBefore(calls[c].after, c)'
  <2>1. c \in 1 .. Len(calls) + 1
    BY <1>2, <1>4
  <2>2. LastBefore(calls'[c].after, c)
    BY <1>2, <1>3, <1>4 DEF Queue, Chained
  <2>3. QED
    BY <1>2, <2>1, <2>2, LastBeforeKept DEF LastBefore
<1>8. Chained'
  <2>1. ASSUME NEW c \in 1 .. Len(calls')
        PROVE  (calls[c].refused => ~Waits(c) /\ ~calls[c].ok)'
    BY <1>2, <1>3, <1>4 DEF Queue, Chained, Waits
  <2>2. QED
    BY <1>6, <1>7, <2>1 DEF Chained
<1>9. InOrder'
  BY <1>2, <1>3, <1>4 DEF Queue, InOrder, Waits
<1>10. Arguments' /\ NoReadRefused'
  BY <1>1, <1>2, <1>3, <1>4 DEF Queue, Arguments, NoReadRefused, Waits
<1>11. QED
  BY <1>5, <1>8, <1>9, <1>10 DEF Queue

(* A step that adds no call and leaves each where it was chained. *)
LEMMA SameChain ==
  ASSUME Queue, Len(calls') = Len(calls), lock' = lock,
         \A i \in 1 .. Len(calls) : calls'[i].after = calls[i].after
                                    /\ calls'[i].refused = calls[i].refused,
         \A i \in 1 .. Len(calls) : calls[i].refused => ~Waits(i)' /\ ~calls'[i].ok
  PROVE  Chained'
<1>1. Len(calls) \in Nat
  BY DEF Queue, Types
<1>2. LastBefore(lock, Len(calls) + 1)'
  <2>1. /\ Len(calls) + 1 \in 1 .. Len(calls) + 1
        /\ LastBefore(lock, Len(calls) + 1)
    BY <1>1 DEF Queue, Chained
  <2>2. QED
    BY <1>1, <2>1, LastBeforeKept DEF LastBefore
<1>3. ASSUME NEW c \in 1 .. Len(calls')
      PROVE  LastBefore(calls[c].after, c)'
  <2>1. c \in 1 .. Len(calls) /\ c \in 1 .. Len(calls) + 1
    BY <1>1
  <2>2. LastBefore(calls'[c].after, c)
    BY <2>1 DEF Queue, Chained
  <2>3. QED
    BY <2>1, <2>2, LastBeforeKept DEF LastBefore
<1>4. ASSUME NEW c \in 1 .. Len(calls')
      PROVE  (calls[c].refused => ~Waits(c) /\ ~calls[c].ok)'
  OBVIOUS
<1>5. QED
  BY <1>2, <1>3, <1>4 DEF Chained

(* Refilling moves no call. *)
LEMMA RefilledQueue ==
  ASSUME Queue, ArrayIsRefilled
  PROVE  Queue'
<1>1. PICK bytes \in Bytes : Refill(bytes)
  BY DEF ArrayIsRefilled
<1>2. /\ calls' \in Seq(Call) /\ Len(calls') = Len(calls)
      /\ \A i \in 1 .. Len(calls) : calls'[i] = Refilled(i)
  BY <1>1, RefillMarks DEF Queue
<1>3. /\ buffer' = bytes
      /\ UNCHANGED <<backing, document, skipped, readOnly, lock, latest>>
  BY <1>1 DEF Refill
<1>4. ASSUME NEW i \in 1 .. Len(calls)
      PROVE  /\ calls'[i].op = calls[i].op /\ calls'[i].key = calls[i].key
             /\ calls'[i].given = calls[i].given /\ calls'[i].after = calls[i].after
             /\ calls'[i].state = calls[i].state /\ calls'[i].refused = calls[i].refused
             /\ calls'[i].ok = calls[i].ok
             /\ calls[i].op = "set" /\ calls[i].state = "queued" => calls'[i].refilled
  <2>1. calls[i] \in Call
    BY CallIsTyped DEF Queue
  <2>2. QED
    BY <1>2, <2>1 DEF Refilled, Call, Waits
<1>5. Types'
  BY <1>2, <1>3 DEF Queue, Types
<1>6. Chained'
  BY <1>2, <1>3, <1>4, SameChain DEF Queue, Chained, Waits
<1>7. InOrder'
  BY <1>2, <1>4 DEF Queue, InOrder, Waits
<1>8. Arguments' /\ NoReadRefused'
  BY <1>2, <1>4 DEF Queue, Arguments, NoReadRefused, Waits
<1>9. QED
  BY <1>5, <1>6, <1>7, <1>8 DEF Queue

(* Whoever runs is the first that waits. *)
LEMMA FirstInLine ==
  ASSUME Queue, NEW c \in 1 .. Len(calls), Waits(c), Fulfilled(calls[c].after),
         NEW d \in 1 .. Len(calls), d < c
  PROVE  ~Waits(d)
<1> DEFINE p == calls[c].after
<1>1. LastBefore(p, c) /\ Len(calls) \in Nat
  BY DEF Queue, Chained, Types
<1>2. CASE d > p
  BY <1>1, <1>2 DEF LastBefore, Queue, Chained
<1>3. CASE d = p
  BY <1>1, <1>3 DEF Fulfilled, Waits
<1>4. CASE d < p
  <2>1. p \in 1 .. Len(calls) /\ ~Waits(p) /\ ~calls[p].refused
    BY <1>1, <1>4 DEF LastBefore, Fulfilled, Waits
  <2>2. QED
    BY <1>4, <2>1 DEF Queue, InOrder
<1>5. QED
  BY <1>1, <1>2, <1>3, <1>4 DEF LastBefore

(* What a call that has run keeps of what it was. *)
LEMMA SettledFields ==
  ASSUME Types, NEW c \in 1 .. Len(calls), NEW ok, NEW value
  PROVE  LET s == Settled(c, ok, value)
         IN  /\ s.op = calls[c].op /\ s.key = calls[c].key /\ s.given = calls[c].given
             /\ s.after = calls[c].after /\ s.refused = calls[c].refused
             /\ s.refilled = calls[c].refilled
             /\ s.state = "ran" /\ s.ok = ok /\ s.value = value
<1>1. calls[c] \in Call
  BY CallIsTyped
<1>2. QED
  BY <1>1 DEF Settled, Call

(* The call that runs was the first that waited. *)
LEMMA RunsQueue ==
  ASSUME Queue, NEW c \in 1 .. Len(calls), NEW ok, NEW value, RunsTo(c, ok, value),
         backing' \in [kind : Kind, holds : JsonObject \cup {Torn}, failed : BOOLEAN],
         document' \in JsonObject, skipped' \subseteq Key
  PROVE  Queue'
<1> DEFINE s == Settled(c, ok, value)
<1>1. /\ calls' \in Seq(Call) /\ Len(calls') = Len(calls)
      /\ \A i \in 1 .. Len(calls) : i # c => calls'[i] = calls[i]
      /\ calls'[c] = s
      /\ UNCHANGED <<readOnly, lock, buffer>> /\ latest' = c
      /\ Waits(c) /\ Fulfilled(calls[c].after)
  BY DEF RunsTo, Becomes
<1>2. /\ s.op = calls[c].op /\ s.key = calls[c].key /\ s.after = calls[c].after
      /\ s.refused = calls[c].refused /\ s.state = "ran"
  BY SettledFields DEF Queue
<1> HIDE DEF s
<1>3. Len(calls) \in Nat /\ ~calls[c].refused
  BY <1>1 DEF Queue, Types, Chained
<1>4. Types'
  BY <1>1, <1>3 DEF Queue, Types
<1>5. Chained'
  <2>1. \A i \in 1 .. Len(calls) : calls'[i].after = calls[i].after
                                   /\ calls'[i].refused = calls[i].refused
    BY <1>1, <1>2
  <2>2. \A i \in 1 .. Len(calls) : calls[i].refused => ~Waits(i)' /\ ~calls'[i].ok
    BY <1>1, <1>3 DEF Queue, Chained, Waits
  <2>3. QED
    BY <1>1, <2>1, <2>2, SameChain
<1>6. InOrder'
  <2>1. \A d \in 1 .. Len(calls) : d < c => ~Waits(d)
    BY <1>1, FirstInLine
  <2>2. QED
    BY <1>1, <1>2, <2>1 DEF Queue, InOrder, Waits
<1>7. Arguments' /\ NoReadRefused'
  BY <1>1, <1>2 DEF Queue, Arguments, NoReadRefused, Waits
<1>8. QED
  BY <1>4, <1>5, <1>6, <1>7 DEF Queue

(* Telling a caller moves no call. *)
LEMMA ToldQueue ==
  ASSUME Queue, CallIsTold
  PROVE  Queue'
<1>1. PICK c \in 1 .. Len(calls) : Tell(c)
  BY DEF CallIsTold
<1> DEFINE s == [calls[c] EXCEPT !.state = "told"]
<1>2. /\ calls' \in Seq(Call) /\ Len(calls') = Len(calls)
      /\ \A i \in 1 .. Len(calls) : i # c => calls'[i] = calls[i]
      /\ calls'[c] = s
      /\ calls[c].state = "ran"
      /\ UNCHANGED <<backing, document, skipped, readOnly, lock, buffer, latest>>
  BY <1>1, TellTells DEF Queue, Becomes, Tell
<1>3. /\ s.op = calls[c].op /\ s.key = calls[c].key /\ s.after = calls[c].after
      /\ s.refused = calls[c].refused /\ s.state = "told" /\ s.ok = calls[c].ok
  <2>1. calls[c] \in Call
    BY CallIsTyped DEF Queue
  <2>2. QED
    BY <2>1 DEF Call
<1> HIDE DEF s
<1>4. Types'
  BY <1>2 DEF Queue, Types
<1>5. Chained'
  <2>1. \A i \in 1 .. Len(calls) : calls'[i].after = calls[i].after
                                   /\ calls'[i].refused = calls[i].refused
    BY <1>2, <1>3
  <2>2. \A i \in 1 .. Len(calls) : calls[i].refused => ~Waits(i)' /\ ~calls'[i].ok
    BY <1>2, <1>3 DEF Queue, Chained, Waits
  <2>3. QED
    BY <1>2, <2>1, <2>2, SameChain
<1>6. InOrder' /\ Arguments' /\ NoReadRefused'
  BY <1>2, <1>3 DEF Queue, InOrder, Arguments, NoReadRefused, Waits
<1>7. QED
  BY <1>4, <1>5, <1>6 DEF Queue

-----------------------------------------------------------------------------
(* The inductive invariant.                                                *)

(* What reads of the key return once the write w has taken effect. *)
Stores(w) == IF calls[w].op = "delete" THEN NotFound ELSE Normal(calls[w].key, calls[w].given)

Later(w, c) == w < c

(* The last write of a key is what the store holds of it. *)
LastWriteHolds ==
  \A w \in 1 .. Len(calls) :
    /\ Wrote(w, calls[w].key)
    /\ ~calls[w].refilled
    /\ \A c \in 1 .. Len(calls) : Later(w, c) => ~Wrote(c, calls[w].key)
    => ContentOf(document, skipped)[calls[w].key] = Stores(w)

(* A get that has run was given what the last write before it stored. *)
Serves(r) ==
  \A w \in 1 .. Len(calls) :
    /\ Later(w, r)
    /\ Wrote(w, calls[r].key)
    /\ ~calls[w].refilled
    /\ \A c \in 1 .. Len(calls) : Later(w, c) /\ Later(c, r) => ~Wrote(c, calls[r].key)
    => calls[r].value = Stores(w)

AllServed == \A r \in 1 .. Len(calls) : calls[r].op = "get" /\ ~Waits(r) => Serves(r)

DataInv == SkipExact /\ DurableInSync

Inv == Queue /\ DataInv /\ LastWriteHolds /\ AllServed

(* What no step changes of the calls there are. *)
Frame ==
  /\ Len(calls) \in Nat /\ Len(calls') \in Nat /\ Len(calls) <= Len(calls')
  /\ \A i \in 1 .. Len(calls) :
       /\ calls'[i].op = calls[i].op /\ calls'[i].key = calls[i].key
       /\ calls'[i].given = calls[i].given
       /\ ~Waits(i) => /\ ~Waits(i)'
                       /\ calls'[i].ok = calls[i].ok
                       /\ calls'[i].refilled = calls[i].refilled
                       /\ calls'[i].value = calls[i].value

(* Steps in which no call runs. *)
Quiet ==
  /\ Frame
  /\ UNCHANGED <<backing, document, skipped>>
  /\ \A i \in 1 .. Len(calls) : Waits(i) => Waits(i)'
  /\ \A i \in 1 .. Len(calls') : ~(i \in 1 .. Len(calls)) =>
       \/ Waits(i)'
       \/ ~calls'[i].ok /\ calls'[i].op # "get"

(* A call that joins or is refused changes nothing in the store. *)
LEMMA JoiningIsQuiet ==
  ASSUME Queue, CallJoins \/ CallIsRefused
  PROVE  Quiet
<1>1. Len(calls) \in Nat
  BY DEF Queue, Types
<1>2. CASE CallJoins
  <2>1. PICK op \in Ops, key \in Key, given \in ByteString : Enqueues(op, key, given)
    BY <1>2 DEF CallJoins
  <2>2. NewCall(op, key, given).state = "queued"
    BY DEF NewCall
  <2>3. Frame
    BY <1>1, <2>1 DEF Enqueues, Joins, Frame, Waits
  <2>4. QED
    BY <1>1, <2>1, <2>2, <2>3 DEF Enqueues, Joins, Quiet, Waits
<1>3. CASE CallIsRefused
  <2>1. PICK op \in {"set", "setJson", "delete"}, key \in Key, given \in ByteString :
          Refuses(op, key, given)
    BY <1>3 DEF CallIsRefused
  <2>2. Refusal(op, key, given).ok = FALSE /\ Refusal(op, key, given).op = op
    BY DEF Refusal, NewCall
  <2>3. Frame
    BY <1>1, <2>1 DEF Refuses, Joins, Frame, Waits
  <2>4. QED
    BY <1>1, <2>1, <2>2, <2>3 DEF Refuses, Joins, Quiet, Waits
<1>4. QED
  BY <1>2, <1>3

(* A refilled array changes nothing in the store. *)
LEMMA RefillingIsQuiet ==
  ASSUME Queue, ArrayIsRefilled
  PROVE  Quiet
<1>1. PICK bytes \in Bytes : Refill(bytes)
  BY DEF ArrayIsRefilled
<1>2. /\ Len(calls) \in Nat /\ Len(calls') = Len(calls)
      /\ \A i \in 1 .. Len(calls) : calls'[i] = Refilled(i)
      /\ UNCHANGED <<backing, document, skipped>>
  <2>1. Len(calls) \in Nat
    BY DEF Queue, Types
  <2>2. QED
    BY <1>1, <2>1, RefillMarks DEF Queue, Refill
<1>3. ASSUME NEW i \in 1 .. Len(calls)
      PROVE  /\ calls'[i].op = calls[i].op /\ calls'[i].key = calls[i].key
             /\ calls'[i].given = calls[i].given /\ calls'[i].state = calls[i].state
             /\ calls[i].state # "queued" => calls'[i] = calls[i]
  <2>1. calls[i] \in Call
    BY CallIsTyped DEF Queue
  <2>2. QED
    BY <1>2, <2>1 DEF Refilled, Call, Waits
<1>4. Frame
  BY <1>2, <1>3 DEF Frame, Waits
<1>5. QED
  BY <1>2, <1>3, <1>4 DEF Quiet, Waits

(* A caller that is told changes nothing in the store. *)
LEMMA TellingIsQuiet ==
  ASSUME Queue, CallIsTold
  PROVE  Quiet
<1>1. PICK c \in 1 .. Len(calls) : Tell(c)
  BY DEF CallIsTold
<1> DEFINE s == [calls[c] EXCEPT !.state = "told"]
<1>2. /\ Len(calls) \in Nat /\ Len(calls') = Len(calls)
      /\ \A i \in 1 .. Len(calls) : i # c => calls'[i] = calls[i]
      /\ calls'[c] = s /\ calls[c].state = "ran"
      /\ UNCHANGED <<backing, document, skipped>>
  <2>1. Types /\ Len(calls) \in Nat
    BY DEF Queue, Types
  <2>2. Becomes(c, s)
    BY <1>1, <2>1, TellTells
  <2>3. calls[c].state = "ran" /\ UNCHANGED <<backing, document, skipped>>
    BY <1>1 DEF Tell
  <2> HIDE DEF s
  <2>4. QED
    BY <2>1, <2>2, <2>3 DEF Becomes
<1>3. /\ s.op = calls[c].op /\ s.key = calls[c].key /\ s.given = calls[c].given
      /\ s.state = "told" /\ s.ok = calls[c].ok /\ s.refilled = calls[c].refilled
      /\ s.value = calls[c].value
  <2>1. calls[c] \in Call
    BY CallIsTyped DEF Queue
  <2>2. QED
    BY <2>1 DEF Call
<1> HIDE DEF s
<1>4. Frame
  BY <1>2, <1>3 DEF Frame, Waits
<1>5. QED
  BY <1>2, <1>3, <1>4 DEF Quiet, Waits

(* A call that runs leaves the other calls alone. *)
LEMMA RunningFrames ==
  ASSUME Queue, NEW c \in 1 .. Len(calls), NEW ok, NEW value, RunsTo(c, ok, value)
  PROVE  /\ Frame /\ Len(calls') = Len(calls)
         /\ \A i \in 1 .. Len(calls) : i # c => calls'[i] = calls[i]
         /\ calls'[c].op = calls[c].op /\ calls'[c].key = calls[c].key
         /\ calls'[c].given = calls[c].given /\ calls'[c].refilled = calls[c].refilled
         /\ calls'[c].state = "ran" /\ calls'[c].ok = ok /\ calls'[c].value = value
<1> DEFINE s == Settled(c, ok, value)
<1>1. /\ Len(calls) \in Nat /\ Len(calls') = Len(calls)
      /\ \A i \in 1 .. Len(calls) : i # c => calls'[i] = calls[i]
      /\ calls'[c] = s /\ Waits(c)
  BY DEF RunsTo, Becomes, Queue, Types
<1>2. /\ s.op = calls[c].op /\ s.key = calls[c].key /\ s.given = calls[c].given
      /\ s.refilled = calls[c].refilled
      /\ s.state = "ran" /\ s.ok = ok /\ s.value = value
  BY SettledFields DEF Queue
<1> HIDE DEF s
<1>3. Frame
  BY <1>1, <1>2 DEF Frame, Waits
<1>4. QED
  BY <1>1, <1>2, <1>3

(* Nothing after the call whose turn it is has had any effect. *)
LEMMA NoneAhead ==
  ASSUME Queue, NEW c \in 1 .. Len(calls), Waits(c),
         NEW d \in 1 .. Len(calls), Later(c, d), NEW key
  PROVE  ~Wrote(d, key)
<1>1. calls[d].refused => ~calls[d].ok
  BY DEF Queue, Chained
<1>2. ~calls[d].refused => Waits(d)
  BY DEF Queue, InOrder, Later
<1>3. QED
  BY <1>1, <1>2 DEF Wrote, Waits

(* Which writes have taken effect on a key does not change afterwards. *)
LEMMA WroteKept ==
  ASSUME Frame, NEW i \in 1 .. Len(calls), ~Waits(i), NEW key
  PROVE  Wrote(i, key)' <=> Wrote(i, key)
  BY DEF Frame, Wrote, Waits

(* What a get that has run was given stays what it should be. *)
LEMMA ServedStays ==
  ASSUME Queue, Frame, NEW r \in 1 .. Len(calls), calls[r].op = "get", ~Waits(r), Serves(r)
  PROVE  Serves(r)'
<1>1. /\ r \in Nat /\ Len(calls) \in Nat /\ Len(calls') \in Nat
      /\ \A i \in 1 .. Len(calls') : Later(i, r) => i \in 1 .. Len(calls)
  BY DEF Frame, Later
<1>2. \A i \in 1 .. Len(calls) : Later(i, r) => ~Waits(i)
  BY DEF Queue, InOrder, NoReadRefused, Later
<1>3. PICK key : key = calls[r].key
  OBVIOUS
<1>4. calls'[r].key = key /\ calls'[r].value = calls[r].value
  BY <1>3 DEF Frame
<1>5. SUFFICES ASSUME NEW w \in 1 .. Len(calls'), Later(w, r),
                      Wrote(w, key)', ~calls'[w].refilled,
                      \A c \in 1 .. Len(calls') : Later(w, c) /\ Later(c, r) => ~Wrote(c, key)'
               PROVE  calls'[r].value = Stores(w)'
  BY <1>4 DEF Serves, Wrote, Later
<1>6. w \in 1 .. Len(calls) /\ ~Waits(w)
  BY <1>1, <1>2, <1>5
<1>7. Wrote(w, key) /\ ~calls[w].refilled
  BY <1>5, <1>6, WroteKept DEF Frame
<1>8. ASSUME NEW c \in 1 .. Len(calls), Later(w, c), Later(c, r)
      PROVE  ~Wrote(c, key)
  <2>1. ~Waits(c) /\ c \in 1 .. Len(calls')
    BY <1>2, <1>8 DEF Frame
  <2>2. ~Wrote(c, key)'
    BY <1>5, <1>8, <2>1
  <2>3. QED
    BY <2>1, <2>2, WroteKept
<1>9. calls[r].value = Stores(w)
  BY <1>3, <1>5, <1>6, <1>7, <1>8 DEF Serves
<1>10. Stores(w)' = Stores(w)
  BY <1>6 DEF Stores, Frame
<1>11. QED
  BY <1>4, <1>9, <1>10

(* A step in which no call runs adds no write and no read. *)
LEMMA QuietReads ==
  ASSUME Queue, LastWriteHolds, AllServed, Quiet
  PROVE  LastWriteHolds' /\ AllServed'
<1>1. Frame /\ document' = document /\ skipped' = skipped
  BY DEF Quiet
<1>2. ASSUME NEW i \in 1 .. Len(calls'), ~Waits(i)', calls'[i].ok \/ calls'[i].op = "get"
      PROVE  i \in 1 .. Len(calls) /\ ~Waits(i)
  BY <1>2 DEF Quiet
<1>3. AllServed'
  <2>1. SUFFICES ASSUME NEW r \in 1 .. Len(calls'), calls'[r].op = "get", ~Waits(r)'
                 PROVE  Serves(r)'
    BY DEF AllServed
  <2>2. r \in 1 .. Len(calls) /\ ~Waits(r)
    BY <1>2, <2>1
  <2>3. calls[r].op = "get" /\ Serves(r)
    BY <1>1, <2>1, <2>2 DEF AllServed, Frame
  <2>4. QED
    BY <1>1, <2>2, <2>3, ServedStays
<1>4. LastWriteHolds'
  <2>1. SUFFICES ASSUME NEW w \in 1 .. Len(calls'), NEW key, key = calls'[w].key,
                        Wrote(w, key)', ~calls'[w].refilled,
                        \A c \in 1 .. Len(calls') : Later(w, c) => ~Wrote(c, key)'
                 PROVE  ContentOf(document', skipped')[key] = Stores(w)'
    BY DEF LastWriteHolds, Wrote, Later
  <2>2. w \in 1 .. Len(calls) /\ ~Waits(w)
    BY <1>2, <2>1 DEF Wrote, Waits
  <2>3. Wrote(w, key) /\ ~calls[w].refilled /\ key = calls[w].key
    BY <1>1, <2>1, <2>2, WroteKept DEF Frame
  <2>4. ASSUME NEW c \in 1 .. Len(calls), Later(w, c)
        PROVE  ~Wrote(c, key)
    <3>1. c \in 1 .. Len(calls')
      BY <1>1 DEF Frame
    <3>2. CASE ~Waits(c)
      BY <1>1, <2>1, <2>4, <3>1, <3>2, WroteKept
    <3>3. CASE Waits(c)
      BY <3>3 DEF Wrote, Waits
    <3>4. QED
      BY <3>2, <3>3
  <2>5. ContentOf(document, skipped)[key] = Stores(w)
    BY <2>2, <2>3, <2>4 DEF LastWriteHolds
  <2>6. Stores(w)' = Stores(w)
    BY <1>1, <2>2 DEF Stores, Frame
  <2>7. QED
    BY <1>1, <2>5, <2>6
<1>5. QED
  BY <1>3, <1>4

(* Steps in which no call runs keep the invariant. *)
LEMMA QuietInv ==
  ASSUME Inv, Queue', Quiet
  PROVE  Inv'
<1>1. DataInv'
  BY DEF Inv, Quiet, DataInv, SkipExact, DurableInSync, Persisted
<1>2. QED
  BY <1>1, QuietReads DEF Inv

(* The document a set or delete persists: only its own member is another,  *)
(* which the validator accepts.                                            *)
LEMMA MutationFacts ==
  ASSUME Queue, NEW c \in 1 .. Len(calls), Waits(c),
         calls[c].op \in {"set", "setJson", "delete"}, Encodable(c)
  PROVE  LET key    == calls[c].key
             before == ContentOf(document, skipped)
             after  == ContentOf(Mutated(c), skipped \ {key})
         IN  /\ Mutated(c) \in JsonObject
             /\ \A k \in Key \ {key} : Mutated(c).at[k] = document.at[k]
             /\ IssueKeys(Mutated(c)) = IssueKeys(document) \ {key}
             /\ after = [before EXCEPT ![key] = IF calls[c].op = "delete" THEN NotFound
                                                ELSE Normal(key, Argument(c))]
<1> DEFINE key == calls[c].key
<1>1. key \in Key /\ document \in JsonObject
  BY CallIsTyped DEF Queue, Types
<1>2. CASE calls[c].op = "delete"
  <2>1. Mutated(c) = Pop(document, key)
    BY <1>2 DEF Mutated
  <2>2. Pop(document, key) \in JsonObject
    BY <1>1, RemoveIsObject
  <2>3. \A k \in Key \ {key} : Pop(document, key).at[k] = document.at[k]
    BY <1>1 DEF Pop, JsonObject
  <2>4. IssueKeys(Pop(document, key)) = IssueKeys(document) \ {key}
    BY <1>1, IssuesAfterRemove
  <2>5. ContentOf(Pop(document, key), skipped \ {key})
          = [ContentOf(document, skipped) EXCEPT ![key] = NotFound]
    BY <1>1, ContentAfterRemove
  <2>6. QED
    BY <1>2, <2>1, <2>2, <2>3, <2>4, <2>5
<1>3. CASE calls[c].op # "delete"
  <2> DEFINE value == EncodeValue(key, Argument(c))
  <2>1. Argument(c) \in ByteString /\ value # CodecError
    BY <1>3 DEF Encodable
  <2>2. /\ value \in Member /\ HasValidType(key, value)
        /\ DecodeValue(key, value) = Normal(key, Argument(c))
    BY <2>1, EncodeIsMember, DecodeEncoded
  <2>3. IsWellFormed(key)
    BY <1>3 DEF Queue, Arguments
  <2>4. Mutated(c) = Put(document, key, value)
    BY <1>3 DEF Mutated
  <2> HIDE DEF value
  <2>5. Put(document, key, value) \in JsonObject
    BY <1>1, <2>2, PutIsObject
  <2>6. \A k \in Key \ {key} : Put(document, key, value).at[k] = document.at[k]
    BY <1>1 DEF Put, JsonObject
  <2>7. IssueKeys(Put(document, key, value)) = IssueKeys(document) \ {key}
    BY <1>1, <2>2, <2>3, IssuesAfterPut
  <2>8. ContentOf(Put(document, key, value), skipped \ {key})
          = [ContentOf(document, skipped) EXCEPT ![key] = Normal(key, Argument(c))]
    BY <1>1, <2>2, ContentAfterPut
  <2>9. QED
    BY <1>3, <2>4, <2>5, <2>6, <2>7, <2>8
<1>4. QED
  BY <1>2, <1>3

(* Of what succeeds, the document is that one, and persisted. *)
LEMMA SuccessIsMutation ==
  ASSUME Queue, NEW c \in 1 .. Len(calls), Written(c) \/ Erased(c)
  PROVE  /\ Waits(c) /\ calls[c].op \in {"set", "setJson", "delete"} /\ Encodable(c)
         /\ document' = Mutated(c) /\ skipped' = skipped \ {calls[c].key}
         /\ backing' = [backing EXCEPT !.holds = document', !.failed = FALSE]
<1>1. CASE Written(c)
  BY <1>1 DEF Written, Encodable, Mutated, RunsTo
<1>2. CASE Erased(c)
  BY <1>2 DEF Erased, Encodable, Mutated, RunsTo
<1>3. QED
  BY <1>1, <1>2

(* What the turn of a call does to the document, with its skip set and the *)
(* document that is persisted.                                             *)
LEMMA DataKept ==
  ASSUME Queue, DataInv, NEW c \in 1 .. Len(calls),
         Written(c) \/ Erased(c) \/ Undone(c) \/ Answered(c)
  PROVE  /\ backing' \in [kind : Kind, holds : JsonObject \cup {Torn}, failed : BOOLEAN]
         /\ document' \in JsonObject /\ skipped' \subseteq Key
         /\ DataInv'
<1> DEFINE key == calls[c].key
<1>1. /\ key \in Key /\ document \in JsonObject /\ skipped \subseteq Key
      /\ backing \in [kind : Kind, holds : JsonObject \cup {Torn}, failed : BOOLEAN]
  BY CallIsTyped DEF Queue, Types
<1>2. SkipExact /\ DurableInSync
  BY DEF DataInv
<1>3. CASE Written(c) \/ Erased(c)
  <2>1. /\ Waits(c) /\ calls[c].op \in {"set", "setJson", "delete"} /\ Encodable(c)
        /\ document' = Mutated(c) /\ skipped' = skipped \ {key}
        /\ backing' = [backing EXCEPT !.holds = document', !.failed = FALSE]
    BY <1>3, SuccessIsMutation
  <2>2. document' \in JsonObject /\ IssueKeys(document') = IssueKeys(document) \ {key}
    BY <2>1, MutationFacts
  <2>3. /\ backing' \in [kind : Kind, holds : JsonObject \cup {Torn}, failed : BOOLEAN]
        /\ backing'.holds = document'
    BY <1>1, <2>1, <2>2
  <2>4. SkipExact' /\ skipped' \subseteq Key
    BY <1>1, <1>2, <2>1, <2>2 DEF SkipExact
  <2>5. DurableInSync'
    BY <2>3 DEF DurableInSync
  <2>6. QED
    BY <2>2, <2>3, <2>4, <2>5 DEF DataInv
<1>4. CASE Undone(c)
  <2>1. /\ document' \in JsonObject /\ document'.at = document.at /\ skipped' = skipped
        /\ calls[c].op \in {"set", "setJson", "delete"} /\ Waits(c)
        /\ NotWritten \/ Spoiled
    BY <1>4 DEF Undone, RunsTo
  <2>2. SkipExact'
    BY <1>2, <2>1, IssuesDependOnMembers DEF SkipExact
  <2>3. CASE NotWritten
    <3>1. /\ backing'.holds = backing.holds /\ backing'.kind = backing.kind
          /\ backing' \in [kind : Kind, holds : JsonObject \cup {Torn}, failed : BOOLEAN]
          /\ ~backing'.failed => ~backing.failed
      BY <1>1, <2>3 DEF NotWritten
    <3>2. DurableInSync'
      BY <1>2, <2>1, <3>1 DEF DurableInSync, Persisted
    <3>3. QED
      BY <1>1, <2>1, <2>2, <3>1, <3>2 DEF DataInv
  <2>4. CASE Spoiled
    <3>1. PICK left \in JsonObject \cup {Torn} :
            backing' = [backing EXCEPT !.holds = left, !.failed = TRUE]
      BY <2>4 DEF Spoiled
    <3>2. /\ backing' \in [kind : Kind, holds : JsonObject \cup {Torn}, failed : BOOLEAN]
          /\ backing'.kind = "custom" /\ backing'.failed = TRUE
      BY <1>1, <2>4, <3>1 DEF Spoiled
    <3>3. DurableInSync'
      BY <3>2 DEF DurableInSync, Persisted
    <3>4. QED
      BY <1>1, <2>1, <2>2, <3>2, <3>3 DEF DataInv
  <2>5. QED
    BY <2>1, <2>3, <2>4
<1>5. CASE Answered(c)
  BY <1>1, <1>2, <1>5
    DEF Answered, DataInv, SkipExact, DurableInSync, Persisted
<1>6. QED
  BY <1>3, <1>4, <1>5

(* What the store holds of each key afterwards. *)
LEMMA ContentEffect ==
  ASSUME Queue, NEW c \in 1 .. Len(calls),
         Written(c) \/ Erased(c) \/ Undone(c) \/ Answered(c)
  PROVE  LET before == ContentOf(document, skipped)
             after  == ContentOf(document', skipped')
         IN  /\ Written(c) => after = [before EXCEPT ![calls[c].key] =
                                         Normal(calls[c].key, Argument(c))]
             /\ Erased(c) => after = [before EXCEPT ![calls[c].key] = NotFound]
             /\ Undone(c) \/ Answered(c) => after = before
<1> DEFINE key == calls[c].key
<1>1. key \in Key /\ document \in JsonObject
  BY CallIsTyped DEF Queue, Types
<1>2. CASE Written(c)
  <2>1. calls[c].op # "delete" /\ RunsTo(c, TRUE, Argument(c))
    BY <1>2 DEF Written
  <2>2. ContentOf(document', skipped')
          = [ContentOf(document, skipped) EXCEPT ![key] = Normal(key, Argument(c))]
    BY <1>2, <2>1, SuccessIsMutation, MutationFacts
  <2>3. calls'[c].ok = TRUE
    BY <2>1, RunningFrames
  <2>4. Undone(c) => calls'[c].ok = FALSE
    BY RunningFrames DEF Undone
  <2>5. ~Erased(c) /\ ~Undone(c) /\ ~Answered(c)
    BY <1>2, <2>1, <2>3, <2>4 DEF Written, Erased, Answered
  <2>6. QED
    BY <2>2, <2>5
<1>3. CASE Erased(c)
  <2>1. calls[c].op = "delete" /\ RunsTo(c, TRUE, NotFound)
    BY <1>3 DEF Erased
  <2>2. ContentOf(document', skipped') = [ContentOf(document, skipped) EXCEPT ![key] = NotFound]
    BY <1>3, <2>1, SuccessIsMutation, MutationFacts
  <2>3. calls'[c].ok = TRUE
    BY <2>1, RunningFrames
  <2>4. Undone(c) => calls'[c].ok = FALSE
    BY RunningFrames DEF Undone
  <2>5. ~Written(c) /\ ~Undone(c) /\ ~Answered(c)
    BY <2>1, <2>3, <2>4 DEF Written, Answered
  <2>6. QED
    BY <2>2, <2>5
<1>4. CASE Undone(c) /\ ~Written(c) /\ ~Erased(c)
  BY <1>4, ContentDependsOnMembers DEF Undone
<1>5. CASE Answered(c) /\ ~Written(c) /\ ~Erased(c)
  BY <1>5 DEF Answered
<1>6. QED
  BY <1>2, <1>3, <1>4, <1>5

(* The call that runs, as the sequence of calls tells of it. *)
LEMMA RunningCall ==
  ASSUME Queue, NEW c \in 1 .. Len(calls),
         Written(c) \/ Erased(c) \/ Undone(c) \/ Answered(c)
  PROVE  /\ Frame /\ Len(calls') = Len(calls)
         /\ Waits(c) /\ Fulfilled(calls[c].after)
         /\ \A i \in 1 .. Len(calls) : i # c => calls'[i] = calls[i]
         /\ calls'[c].refilled = calls[c].refilled
         /\ calls'[c].state = "ran"
         /\ Undone(c) => calls'[c].ok = FALSE
         /\ calls[c].op = "get" => calls'[c].value = ContentOf(document, skipped)[calls[c].key]
<1>1. PICK ok, value : RunsTo(c, ok, value)
  BY DEF Written, Erased, Undone, Answered
<1>2. Waits(c) /\ Fulfilled(calls[c].after)
  BY <1>1 DEF RunsTo
<1>3. Undone(c) => calls'[c].ok = FALSE
  BY RunningFrames DEF Undone
<1>4. ASSUME calls[c].op = "get"
      PROVE  calls'[c].value = ContentOf(document, skipped)[calls[c].key]
  <2> DEFINE found == ContentOf(document, skipped)[calls[c].key]
  <2>1. RunsTo(c, found # Unreadable, found)
    BY <1>4 DEF Written, Erased, Undone, Answered
  <2> HIDE DEF found
  <2>2. calls'[c].value = found
    BY <2>1, RunningFrames
  <2>3. QED
    BY <2>2 DEF found
<1>5. QED
  BY <1>1, <1>2, <1>3, <1>4, RunningFrames

(* Each kind of call keeps what reads rest on. *)
LEMMA RunningReads ==
  ASSUME Queue, LastWriteHolds, AllServed, NEW c \in 1 .. Len(calls),
         Written(c) \/ Erased(c) \/ Undone(c) \/ Answered(c)
  PROVE  LastWriteHolds' /\ AllServed'
<1> DEFINE before == ContentOf(document, skipped)
           after  == ContentOf(document', skipped')
<1>1. /\ Frame /\ Len(calls') = Len(calls)
      /\ Waits(c) /\ Fulfilled(calls[c].after)
      /\ \A i \in 1 .. Len(calls) : i # c => calls'[i] = calls[i]
      /\ calls'[c].refilled = calls[c].refilled /\ calls'[c].state = "ran"
      /\ Undone(c) => calls'[c].ok = FALSE
      /\ calls[c].op = "get" => calls'[c].value = before[calls[c].key]
  BY RunningCall
<1>2. calls'[c].op = calls[c].op /\ calls'[c].key = calls[c].key /\ calls'[c].given = calls[c].given
  BY <1>1 DEF Frame
<1>3. ASSUME NEW i \in 1 .. Len(calls), i # c, NEW key
      PROVE  /\ Wrote(i, key)' <=> Wrote(i, key)
             /\ Stores(i)' = Stores(i)
             /\ Waits(i)' <=> Waits(i)
  BY <1>1, <1>3 DEF Wrote, Waits, Stores
<1>4. ASSUME NEW d \in 1 .. Len(calls), Later(c, d), NEW key
      PROVE  ~Wrote(d, key)
  BY <1>1, <1>4, NoneAhead
<1>5. ASSUME NEW d \in 1 .. Len(calls), d # c, ~Later(d, c)
      PROVE  Later(c, d)
  BY <1>5 DEF Later
<1>6. AllServed'
  <2>1. SUFFICES ASSUME NEW r \in 1 .. Len(calls), calls'[r].op = "get", ~Waits(r)'
                 PROVE  Serves(r)'
    BY <1>1 DEF AllServed
  <2>2. CASE r # c
    <3>1. calls[r].op = "get" /\ ~Waits(r)
      BY <1>1, <1>3, <2>1, <2>2
    <3>2. Serves(r)
      BY <3>1 DEF AllServed
    <3>3. QED
      BY <1>1, <3>1, <3>2, ServedStays
  <2>3. CASE r = c
    <3>1. SUFFICES ASSUME NEW w \in 1 .. Len(calls), NEW key, key = calls'[c].key,
                          Later(w, c), Wrote(w, key)', ~calls'[w].refilled,
                          \A d \in 1 .. Len(calls) : Later(w, d) /\ Later(d, c) => ~Wrote(d, key)'
                   PROVE  calls'[c].value = Stores(w)'
      BY <1>1, <2>3 DEF Serves, Wrote, Later
    <3>2. w # c /\ Wrote(w, key) /\ ~calls[w].refilled
      BY <1>1, <1>3, <3>1 DEF Later
    <3>3. ASSUME NEW d \in 1 .. Len(calls), Later(w, d)
          PROVE  ~Wrote(d, key)
      <4>1. CASE d = c
        BY <1>1, <4>1 DEF Wrote, Waits
      <4>2. CASE Later(d, c)
        BY <1>3, <3>1, <3>3, <4>2 DEF Later
      <4>3. CASE Later(c, d)
        BY <1>4, <4>3
      <4>4. QED
        BY <1>5, <4>1, <4>2, <4>3
    <3>4. key = calls[w].key
      BY <3>2 DEF Wrote
    <3>5. before[key] = Stores(w)
      BY <3>2, <3>3, <3>4 DEF LastWriteHolds
    <3>6. QED
      BY <1>1, <1>2, <1>3, <2>1, <2>3, <3>1, <3>2, <3>5
  <2>4. QED
    BY <2>2, <2>3
<1>7. LastWriteHolds'
  <2>1. SUFFICES ASSUME NEW w \in 1 .. Len(calls), NEW key, key = calls'[w].key,
                        Wrote(w, key)', ~calls'[w].refilled,
                        \A d \in 1 .. Len(calls) : Later(w, d) => ~Wrote(d, key)'
                 PROVE  after[key] = Stores(w)'
    BY <1>1 DEF LastWriteHolds, Wrote, Later
  <2>2. /\ before \in [Key -> Replies]
        /\ calls[c].key \in Key /\ calls[w].key \in Key
    BY CallIsTyped, ContentIsTyped DEF Queue, Types, Replies
  <2>3. /\ Written(c) => after = [before EXCEPT ![calls[c].key] = Normal(calls[c].key, Argument(c))]
        /\ Erased(c) => after = [before EXCEPT ![calls[c].key] = NotFound]
        /\ Undone(c) \/ Answered(c) => after = before
    BY ContentEffect
  <2> HIDE DEF before, after
  <2>4. CASE w = c
    <3>1. ~Undone(c) /\ ~Answered(c)
      BY <1>1, <1>2, <2>1, <2>4 DEF Wrote, Answered
    <3>2. key = calls[c].key /\ ~calls[c].refilled
      BY <1>1, <1>2, <2>1, <2>4
    <3>3. CASE Written(c)
      <4>1. Argument(c) = calls[c].given
        BY <1>1, <3>2 DEF Argument, Queue, Arguments
      <4>2. calls[c].op # "delete"
        BY <3>3 DEF Written
      <4>3. QED
        BY <1>2, <2>2, <2>3, <2>4, <3>2, <3>3, <4>1, <4>2 DEF Stores
    <3>4. CASE Erased(c)
      <4>1. calls[c].op = "delete"
        BY <3>4 DEF Erased
      <4>2. QED
        BY <1>2, <2>2, <2>3, <2>4, <3>2, <3>4, <4>1 DEF Stores
    <3>5. QED
      BY <3>1, <3>3, <3>4
  <2>5. CASE w # c
    <3>1. Wrote(w, key) /\ ~calls[w].refilled /\ key = calls[w].key
      BY <1>1, <1>3, <2>1, <2>5
    <3>2. Later(w, c)
      BY <1>4, <1>5, <2>5, <3>1
    <3>3. ASSUME NEW d \in 1 .. Len(calls), Later(w, d)
          PROVE  ~Wrote(d, key)
      <4>1. CASE d = c
        BY <1>1, <4>1 DEF Wrote, Waits
      <4>2. CASE d # c
        BY <1>3, <2>1, <3>3, <4>2
      <4>3. QED
        BY <4>1, <4>2
    <3>4. before[key] = Stores(w)
      BY <3>1, <3>3 DEF LastWriteHolds, before
    <3>5. ~Wrote(c, key)'
      BY <2>1, <3>2
    <3>6. after[key] = before[key]
      <4>1. CASE Undone(c) \/ Answered(c)
        BY <2>3, <4>1
      <4>2. CASE Written(c) \/ Erased(c)
        <5>1. calls'[c].ok
          BY <4>2, RunningFrames DEF Written, Erased
        <5>2. calls[c].op \in {"set", "setJson", "delete"}
          BY <4>2 DEF Written, Erased
        <5>3. calls[c].key # key
          BY <1>1, <1>2, <3>5, <5>1, <5>2 DEF Wrote
        <5>4. QED
          BY <2>2, <2>3, <3>1, <4>2, <5>3
      <4>3. QED
        BY <4>1, <4>2
    <3>7. QED
      BY <1>3, <2>5, <3>4, <3>6
  <2>6. QED
    BY <2>4, <2>5
<1>8. QED
  BY <1>6, <1>7

(* The call whose turn it is keeps the invariant. *)
LEMMA RunInv ==
  ASSUME Inv, CallRuns
  PROVE  Inv'
<1>1. PICK c \in 1 .. Len(calls) : Written(c) \/ Erased(c) \/ Undone(c) \/ Answered(c)
  BY DEF CallRuns
<1>2. /\ backing' \in [kind : Kind, holds : JsonObject \cup {Torn}, failed : BOOLEAN]
      /\ document' \in JsonObject /\ skipped' \subseteq Key
      /\ DataInv'
  BY <1>1, DataKept DEF Inv
<1>3. LastWriteHolds' /\ AllServed'
  BY <1>1, RunningReads DEF Inv
<1>4. PICK ok, value : RunsTo(c, ok, value)
  BY <1>1 DEF Written, Erased, Undone, Answered
<1>5. Queue'
  BY <1>2, <1>4, RunsQueue DEF Inv
<1>6. QED
  BY <1>2, <1>3, <1>5 DEF Inv

(* No call has been made and the skip set was computed from the document. *)
LEMMA InitInv == Init => Inv
<1> SUFFICES ASSUME Init PROVE Inv
  OBVIOUS
<1>1. Len(calls) = 0 /\ calls \in Seq(Call)
  BY DEF Init
<1>2. Types
  <2>1. /\ backing \in [kind : Kind, holds : InitialDocument, failed : {FALSE}]
        /\ InitialDocument \subseteq JsonObject
    BY ConstantsAssumption DEF Init
  <2>2. /\ backing \in [kind : Kind, holds : JsonObject \cup {Torn}, failed : BOOLEAN]
        /\ document \in JsonObject
    <3>1. document = backing.holds
      BY DEF Init
    <3>2. QED
      BY <2>1, <3>1
  <2>3. /\ skipped \subseteq Key /\ readOnly \in BOOLEAN /\ buffer \in Bytes /\ latest = 0
        /\ MaxCalls \in Nat
    BY ConstantsAssumption DEF Init, IssueKeys
  <2>4. QED
    BY <1>1, <2>2, <2>3 DEF Types
<1>3. Chained /\ InOrder /\ Arguments /\ NoReadRefused
  BY <1>1 DEF Init, Chained, LastBefore, InOrder, Arguments, NoReadRefused
<1>4. DataInv
  BY DEF Init, DataInv, SkipExact, DurableInSync
<1>5. LastWriteHolds /\ AllServed
  BY <1>1 DEF LastWriteHolds, AllServed
<1>6. QED
  BY <1>2, <1>3, <1>4, <1>5 DEF Inv, Queue

(* Every step keeps the invariant. *)
LEMMA NextInv == Inv /\ [Next]_vars => Inv'
<1> SUFFICES ASSUME Inv, [Next]_vars PROVE Inv'
  OBVIOUS
<1>1. CASE CallJoins \/ CallIsRefused
  BY <1>1, JoinsQueue, RefusedQueue, JoiningIsQuiet, QuietInv DEF Inv
<1>2. CASE ArrayIsRefilled
  BY <1>2, RefilledQueue, RefillingIsQuiet, QuietInv DEF Inv
<1>3. CASE CallRuns
  BY <1>3, RunInv
<1>4. CASE CallIsTold
  BY <1>4, ToldQueue, TellingIsQuiet, QuietInv DEF Inv
<1>5. CASE UNCHANGED vars
  <2>1. Types' /\ Chained' /\ InOrder' /\ Arguments' /\ NoReadRefused'
    <3>1. Types'
      BY <1>5 DEF vars, Inv, Queue, Types
    <3>2. Chained'
      BY <1>5 DEF vars, Inv, Queue, Chained, LastBefore, Waits
    <3>3. InOrder' /\ Arguments' /\ NoReadRefused'
      BY <1>5 DEF vars, Inv, Queue, InOrder, Arguments, NoReadRefused, Waits
    <3>4. QED
      BY <3>1, <3>2, <3>3
  <2>2. Len(calls) \in Nat
    BY DEF Inv, Queue, Types
  <2>3. Quiet
    BY <1>5, <2>2 DEF vars, Quiet, Frame, Waits
  <2>4. QED
    BY <2>1, <2>3, QuietInv DEF Queue
<1>6. QED
  BY <1>1, <1>2, <1>3, <1>4, <1>5, StepKinds DEF Inv

(***************************************************************************)
(* For every set of keys, bytes and documents and any number of calls, the *)
(* store keeps the queue in order and serves reads what the writes before  *)
(* them stored.                                                            *)
(***************************************************************************)
THEOREM Invariance == Spec => []Inv
<1>1. QED
  BY InitInv, NextInv, PTL DEF Spec

(* Every variable of the TypeScript store keeps its type. *)
THEOREM TypeCorrectness == Spec => []TypeOK
<1>1. Inv => TypeOK
  <2> SUFFICES ASSUME Inv PROVE TypeOK
    OBVIOUS
  <2>1. Types /\ Chained
    BY DEF Inv, Queue
  <2>2. Len(calls) \in Nat /\ DOMAIN calls = 1 .. Len(calls)
    BY <2>1 DEF Types
  <2>3. {lock, latest} \subseteq 0 .. Len(calls)
    BY <2>1, <2>2 DEF Types, Chained, LastBefore
  <2>4. ASSUME NEW c \in 1 .. Len(calls)
        PROVE  calls[c] \in
          [op : {"set", "setJson", "delete", "get", "has"}, key : Key, given : ByteString,
           refilled : BOOLEAN, after : 0 .. c - 1, state : {"queued", "ran", "told"},
           refused : BOOLEAN, ok : BOOLEAN, value : ByteString \cup {NotFound, Unreadable}]
    <3>1. calls[c] \in Call
      BY <2>1, CallIsTyped
    <3>2. calls[c].after \in 0 .. c - 1
      BY <2>1 DEF Chained, LastBefore
    <3>3. QED
      BY <3>1, <3>2 DEF Call, Replies
  <2>5. QED
    BY <2>1, <2>2, <2>3, <2>4 DEF Types, TypeOK
<1>2. QED
  BY <1>1, Invariance, PTL

(***************************************************************************)
(* The skip set the constructor computed, and every write that succeeded   *)
(* amends, is what validating the current document would give.             *)
(***************************************************************************)
THEOREM SkipSetIsExact == Spec => []SkipExact
<1>1. QED
  BY Invariance, PTL DEF Inv, DataInv

(***************************************************************************)
(* What the backing would load has the members the store shows, after any  *)
(* sequence of persists that succeed or throw; for a caller's own backing  *)
(* whenever its last persist returned, whatever those before it left.      *)
(***************************************************************************)
THEOREM BackingIsInSync == Spec => []DurableInSync
<1>1. QED
  BY Invariance, PTL DEF Inv, DataInv

(***************************************************************************)
(* A program that awaits none of its calls still reads what the last call  *)
(* before the read that wrote its key, and succeeded, stored.              *)
(***************************************************************************)
THEOREM ReadsFollowTheCalls == Spec => []ReadsFollowCalls
<1>1. Inv => ReadsFollowCalls
  <2> SUFFICES ASSUME Inv PROVE ReadsFollowCalls
    OBVIOUS
  <2>1. Len(calls) \in Nat /\ DOMAIN calls = 1 .. Len(calls)
    BY DEF Inv, Queue, Types
  <2>2. SUFFICES ASSUME NEW r \in 1 .. Len(calls), calls[r].op = "get", ~Waits(r),
                        NEW w \in 1 .. r - 1, NEW key, key = calls[r].key,
                        Wrote(w, key), ~calls[w].refilled,
                        \A c \in w + 1 .. r - 1 : ~Wrote(c, key)
                 PROVE  calls[r].value = IF calls[w].op = "delete" THEN NotFound
                                                             ELSE Normal(key, calls[w].given)
    BY <2>1 DEF ReadsFollowCalls, Waits
  <2>3. w \in 1 .. Len(calls) /\ Later(w, r)
    BY <2>1 DEF Later
  <2>4. \A c \in 1 .. Len(calls) : Later(w, c) /\ Later(c, r) => ~Wrote(c, key)
    BY <2>1, <2>2 DEF Later
  <2>5. Serves(r)
    BY <2>2, Zenon DEF Inv, AllServed
  <2>6. calls[r].value = Stores(w)
    BY <2>2, <2>3, <2>4, <2>5, Zenon DEF Serves
  <2>7. calls[w].key = key
    BY <2>2 DEF Wrote
  <2>8. QED
    BY <2>6, <2>7 DEF Stores
<1>2. QED
  BY <1>1, Invariance, PTL

-----------------------------------------------------------------------------
(* What steps may not do, and the byte store that they implement. *)

FailureStep ==
  \A c \in DOMAIN calls' :
    Failed(c) /\ calls'[c].op \in {"set", "setJson", "delete"}
    => /\ UNCHANGED skipped
       /\ document'.at = document.at
       /\ calls'[c].op # "delete" => document' = document
       /\ backing.kind # "custom" \/ calls'[c].refused => backing'.holds = backing.holds

UnknownStep ==
  \A c \in DOMAIN calls' : latest' = c =>
    /\ HiddenChanges(document, document') \subseteq MutatedBy(c)
    /\ Persisted /\ Persisted'
         => HiddenChanges(backing.holds, backing'.holds) \subseteq MutatedBy(c)

AbstractStep == Abstract!Next \/ UNCHANGED <<Reply, Contents>>

Sound == FailureStep /\ UnknownStep /\ AbstractStep

(* The call that took effect last has done so. *)
LatestRan == latest # 0 => ~Waits(latest)

(* The operation of the abstract store that a call amounts to. *)
Named(op) == CASE op = "setJson" -> "set" [] op = "has" -> "exists" [] OTHER -> op

(* The reply of the byte store is that of the call that took effect last. *)
LEMMA ReplyOfLatest ==
  ASSUME latest # 0
  PROVE  Reply = [op |-> Named(calls[latest].op), key |-> calls[latest].key,
                  ok |-> calls[latest].ok, value |-> calls[latest].value]
  BY DEF Reply, Named

(* The same, after a step. *)
LEMMA NextReplyOfLatest ==
  ASSUME latest' # 0
  PROVE  Reply' = [op |-> Named(calls'[latest'].op), key |-> calls'[latest'].key,
                   ok |-> calls'[latest'].ok, value |-> calls'[latest'].value]
  BY DEF Reply, Named

(* A step that leaves the members alone hides and destroys none, neither   *)
(* in the document nor, being in step with it, in the backing.             *)
LEMMA NothingChanged ==
  ASSUME Inv, DurableInSync', document'.at = document.at
  PROVE  UnknownStep
<1>1. HiddenChanges(document, document') = {}
  BY DEF HiddenChanges
<1>2. Persisted /\ Persisted' => HiddenChanges(backing.holds, backing'.holds) = {}
  BY DEF Inv, DataInv, DurableInSync, HiddenChanges, IssueKeys, Has
<1>3. QED
  BY <1>1, <1>2 DEF UnknownStep

(* Nothing the abstract store shows changes in a step in which no call     *)
(* takes effect.                                                           *)
LEMMA IdleSound ==
  ASSUME Inv, LatestRan, Frame, UNCHANGED <<backing, document, skipped, latest>>
  PROVE  Sound /\ LatestRan'
<1>1. latest = 0 \/ latest \in 1 .. Len(calls)
  BY DEF Inv, Queue, Types
<1>2. latest # 0 => ~Waits(latest)'
  BY <1>1 DEF LatestRan, Frame
<1>3. LatestRan'
  BY <1>2 DEF LatestRan, Waits
<1>4. Reply' = Reply
  <2>1. CASE latest = 0
    BY <2>1 DEF Reply
  <2>2. CASE latest # 0
    <3>1. /\ calls'[latest].op = calls[latest].op /\ calls'[latest].key = calls[latest].key
          /\ calls'[latest].ok = calls[latest].ok /\ calls'[latest].value = calls[latest].value
      BY <1>1, <2>2 DEF LatestRan, Frame
    <3>2. QED
      BY <2>2, <3>1, ReplyOfLatest, NextReplyOfLatest
  <2>3. QED
    BY <2>1, <2>2
<1>5. Contents' = Contents
  BY DEF Contents
<1>6. FailureStep /\ UnknownStep
  BY NothingChanged DEF FailureStep, Inv, DataInv, DurableInSync, Persisted
<1>7. QED
  BY <1>3, <1>4, <1>5, <1>6 DEF Sound, AbstractStep

(* A refused call fails without an effect on the byte store. *)
LEMMA RefusalSound ==
  ASSUME Inv, CallIsRefused
  PROVE  Sound /\ LatestRan'
<1>1. PICK op \in {"set", "setJson", "delete"}, key \in Key, given \in ByteString :
        Refuses(op, key, given)
  BY DEF CallIsRefused
<1> DEFINE last == Len(calls) + 1
           new  == Refusal(op, key, given)
<1>2. /\ latest' = last /\ calls'[last] = new /\ last \in Nat \ {0}
      /\ UNCHANGED <<backing, document, skipped>>
  BY <1>1 DEF Refuses, Joins, Inv, Queue, Types
<1>3. new.op = op /\ new.ok = FALSE /\ new.state = "ran"
  BY DEF Refusal, NewCall
<1> HIDE DEF last, new
<1>4. LatestRan'
  BY <1>2, <1>3 DEF LatestRan, Waits
<1>5. FailureStep /\ UnknownStep
  BY <1>2, NothingChanged DEF FailureStep, Inv, DataInv, DurableInSync, Persisted
<1>6. Reply'.op = Named(op) /\ Reply'.ok = FALSE
  BY <1>2, <1>3, NextReplyOfLatest
<1>7. Named(op) \in {"set", "delete"}
  BY DEF Named
<1>8. Abstract!Refuse
  BY <1>2, <1>6, <1>7 DEF Abstract!Refuse, Contents
<1>9. QED
  BY <1>4, <1>5, <1>8 DEF Sound, AbstractStep, Abstract!Next

(* The reply to the call that runs. *)
LEMMA RunningReply ==
  ASSUME Inv, NEW c \in 1 .. Len(calls), NEW ok, NEW value, RunsTo(c, ok, value)
  PROVE  /\ latest' = c /\ c \in DOMAIN calls' /\ LatestRan'
         /\ calls'[c].ok = ok /\ calls'[c].op = calls[c].op /\ calls'[c].key = calls[c].key
         /\ Reply' = [op |-> Named(calls[c].op), key |-> calls[c].key,
                      ok |-> ok, value |-> value]
<1>1. /\ calls'[c].op = calls[c].op /\ calls'[c].key = calls[c].key
      /\ calls'[c].ok = ok /\ calls'[c].value = value /\ calls'[c].state = "ran"
      /\ Len(calls') = Len(calls)
  BY RunningFrames DEF Inv
<1>2. latest' = c /\ c # 0 /\ calls' \in Seq(Call)
  BY DEF RunsTo, Becomes, Inv, Queue, Types
<1>3. LatestRan'
  BY <1>1, <1>2 DEF LatestRan, Waits
<1>4. c \in DOMAIN calls'
  BY <1>1, <1>2
<1>5. QED
  BY <1>1, <1>2, <1>3, <1>4, NextReplyOfLatest

(* A read that has run is not a call that a failure would undo. *)
LEMMA ReadsOnly ==
  ASSUME Inv, NEW c \in 1 .. Len(calls), Answered(c)
  PROVE  \A d \in DOMAIN calls' :
           Failed(d) => ~(calls'[d].op \in {"set", "setJson", "delete"})
<1>1. PICK ok, value : RunsTo(c, ok, value) /\ calls[c].op \in {"get", "has"}
  BY DEF Answered
<1>2. latest' = c /\ calls'[c].op = calls[c].op
  BY <1>1, RunningReply
<1>3. QED
  BY <1>1, <1>2 DEF Failed

(* A call that succeeds changes its own key, in the document and so in the *)
(* backing, and takes effect on the byte store.                            *)
LEMMA SuccessSound ==
  ASSUME Inv, NEW c \in 1 .. Len(calls), Written(c) \/ Erased(c)
  PROVE  Sound /\ LatestRan'
<1> DEFINE key == calls[c].key
<1>1. /\ Waits(c) /\ calls[c].op \in {"set", "setJson", "delete"} /\ Encodable(c)
      /\ document' = Mutated(c) /\ skipped' = skipped \ {key}
      /\ backing' = [backing EXCEPT !.holds = document', !.failed = FALSE]
  BY SuccessIsMutation DEF Inv
<1>2. /\ key \in Key
      /\ backing \in [kind : Kind, holds : JsonObject \cup {Torn}, failed : BOOLEAN]
  BY CallIsTyped DEF Inv, Queue, Types
<1>3. /\ document' \in JsonObject
      /\ \A k \in Key \ {key} : document'.at[k] = document.at[k]
  BY <1>1, MutationFacts DEF Inv
<1>4. DurableInSync'
  BY DataKept DEF Inv, DataInv
<1>5. PICK value : RunsTo(c, TRUE, value)
  BY Zenon DEF Written, Erased
<1>6. /\ latest' = c /\ c \in DOMAIN calls' /\ LatestRan'
      /\ calls'[c].ok = TRUE /\ calls'[c].op = calls[c].op /\ calls'[c].key = key
  BY <1>5, RunningReply
<1>7. FailureStep
  BY <1>6 DEF FailureStep, Failed
<1>8. MutatedBy(c) = {key}
  BY <1>1, <1>6 DEF MutatedBy
<1>9. UnknownStep
  <2>1. HiddenChanges(document, document') \subseteq {key}
    BY <1>3 DEF HiddenChanges, IssueKeys
  <2>2. Persisted /\ Persisted'
          => HiddenChanges(backing.holds, backing'.holds) \subseteq {key}
    BY <1>4, <2>1 DEF Inv, DataInv, DurableInSync, HiddenChanges, IssueKeys, Has
  <2>3. QED
    BY <1>6, <1>8, <2>1, <2>2 DEF UnknownStep
<1>10. CASE Written(c)
  <2>1. /\ Argument(c) \in ByteString
        /\ calls[c].op \in {"set", "setJson"} /\ RunsTo(c, TRUE, Argument(c))
    BY <1>10, Zenon DEF Written
  <2>2. Reply' = [op |-> Named(calls[c].op), key |-> key, ok |-> TRUE, value |-> Argument(c)]
    BY <2>1, RunningReply
  <2>3. Named(calls[c].op) = "set"
    BY <2>1 DEF Named
  <2>4. Contents' = [Contents EXCEPT ![key] = Normal(key, Argument(c))]
    BY <1>10, ContentEffect DEF Inv, Contents
  <2>5. Stored[key][Argument(c)] = Normal(key, Argument(c))
    BY <1>2, <2>1 DEF Stored
  <2>6. Abstract!Write(key)
    BY <2>1, <2>2, <2>3, <2>4, <2>5
      DEF Abstract!Write, Abstract!Become, Abstract!Written, Abstract!Replies
  <2>7. QED
    BY <1>2, <1>6, <1>7, <1>9, <2>6 DEF Sound, AbstractStep, Abstract!Next
<1>11. CASE Erased(c)
  <2>1. calls[c].op = "delete" /\ RunsTo(c, TRUE, NotFound)
    BY <1>11, Zenon DEF Erased
  <2>2. Reply' = [op |-> Named(calls[c].op), key |-> key, ok |-> TRUE, value |-> NotFound]
    BY <2>1, RunningReply
  <2>3. Named(calls[c].op) = "delete"
    BY <2>1 DEF Named
  <2>4. Contents' = [Contents EXCEPT ![key] = NotFound]
    BY <1>11, ContentEffect DEF Inv, Contents
  <2>5. Abstract!Erase(key)
    BY <2>2, <2>3, <2>4
      DEF Abstract!Erase, Abstract!Become, Abstract!Erased, Abstract!Replies
  <2>6. QED
    BY <1>2, <1>6, <1>7, <1>9, <2>5 DEF Sound, AbstractStep, Abstract!Next
<1>12. QED
  BY <1>10, <1>11

(* A call that fails is undone, whatever a caller's own backing holds when *)
(* it has thrown.                                                          *)
LEMMA FailureSound ==
  ASSUME Inv, NEW c \in 1 .. Len(calls), Undone(c)
  PROVE  Sound /\ LatestRan'
<1> DEFINE key == calls[c].key
<1>1. /\ calls[c].op \in {"set", "setJson", "delete"} /\ RunsTo(c, FALSE, NotFound)
      /\ document' \in JsonObject /\ document'.at = document.at
      /\ calls[c].op # "delete" => document' = document
      /\ UNCHANGED skipped
      /\ NotWritten \/ Spoiled
  BY DEF Undone
<1>2. /\ key \in Key
      /\ backing \in [kind : Kind, holds : JsonObject \cup {Torn}, failed : BOOLEAN]
  BY CallIsTyped DEF Inv, Queue, Types
<1>3. /\ latest' = c /\ c \in DOMAIN calls' /\ LatestRan'
      /\ calls'[c].ok = FALSE /\ calls'[c].op = calls[c].op /\ calls'[c].key = key
      /\ Reply' = [op |-> Named(calls[c].op), key |-> key, ok |-> FALSE, value |-> NotFound]
  BY <1>1, RunningReply
<1>4. ~calls'[c].refused
  <2>1. Waits(c) /\ calls'[c] = Settled(c, FALSE, NotFound)
    BY <1>1 DEF RunsTo, Becomes
  <2>2. ~calls[c].refused
    <3>1. Chained /\ Waits(c)
      BY <2>1 DEF Inv, Queue
    <3>2. QED
      BY <3>1 DEF Chained
  <2>3. Settled(c, FALSE, NotFound).refused <=> calls[c].refused
    <3>1. calls[c] \in Call
      BY CallIsTyped DEF Inv, Queue
    <3>2. QED
      BY <3>1 DEF Settled, Call
  <2>4. QED
    BY <2>1, <2>2, <2>3
<1>5. Contents' = Contents
  BY ContentEffect DEF Inv, Contents
<1>6. Named(calls[c].op) = IF calls[c].op = "delete" THEN "delete" ELSE "set"
  BY <1>1 DEF Named
<1>7. UnknownStep
  <2>1. DurableInSync'
    BY DataKept DEF Inv, DataInv
  <2>2. QED
    BY <1>1, <2>1, NothingChanged
<1>8. FailureStep
  <2>1. backing'.holds = backing.holds \/ backing.kind = "custom"
    BY <1>1, <1>2 DEF NotWritten, Spoiled
  <2>2. QED
    BY <1>1, <1>3, <1>4, <2>1 DEF FailureStep, Failed
<1>9. Abstract!Refuse
  BY <1>3, <1>5, <1>6 DEF Abstract!Refuse
<1>10. QED
  BY <1>3, <1>7, <1>8, <1>9 DEF Sound, AbstractStep, Abstract!Next

(* A call that runs takes its effect on the byte store. *)
LEMMA RunSound ==
  ASSUME Inv, NEW c \in 1 .. Len(calls),
         Written(c) \/ Erased(c) \/ Undone(c) \/ Answered(c)
  PROVE  Sound /\ LatestRan'
<1> DEFINE key == calls[c].key
<1>1. key \in Key
  BY CallIsTyped DEF Inv, Queue, Types
<1>2. CASE Written(c) \/ Erased(c)
  BY <1>2, SuccessSound
<1>3. CASE Undone(c)
  BY <1>3, FailureSound
<1>4. CASE Answered(c)
  <2>1. UNCHANGED <<backing, document, skipped>>
    BY <1>4 DEF Answered
  <2>2. FailureStep /\ UnknownStep
    BY <1>4, <2>1, NothingChanged, ReadsOnly
      DEF FailureStep, Inv, DataInv, DurableInSync, Persisted
  <2>3. Contents' = Contents
    BY <2>1 DEF Contents
  <2>4. CASE calls[c].op = "get" /\ RunsTo(c, Contents[key] # Unreadable, Contents[key])
    <3>1. /\ LatestRan'
          /\ Reply' = [op |-> Named(calls[c].op), key |-> key,
                       ok |-> Contents[key] # Unreadable, value |-> Contents[key]]
      BY <2>4, RunningReply
    <3>2. Named(calls[c].op) = "get"
      BY <2>4 DEF Named
    <3>3. Abstract!Read(key)
      BY <2>3, <3>1, <3>2 DEF Abstract!Read, Abstract!Replies
    <3>4. QED
      BY <1>1, <2>2, <3>1, <3>3 DEF Sound, AbstractStep, Abstract!Next
  <2>5. CASE calls[c].op = "has" /\ RunsTo(c, Contents[key] # NotFound, NotFound)
    <3>1. /\ LatestRan'
          /\ Reply' = [op |-> Named(calls[c].op), key |-> key,
                       ok |-> Contents[key] # NotFound, value |-> NotFound]
      BY <2>5, RunningReply
    <3>2. Named(calls[c].op) = "exists"
      BY <2>5 DEF Named
    <3>3. Abstract!Has(key)
      BY <2>3, <3>1, <3>2 DEF Abstract!Has, Abstract!Replies
    <3>4. QED
      BY <1>1, <2>2, <3>1, <3>3 DEF Sound, AbstractStep, Abstract!Next
  <2>6. QED
    BY <1>4, <2>4, <2>5, Zenon DEF Answered, Contents
<1>5. QED
  BY <1>2, <1>3, <1>4

(* Every step is sound. *)
LEMMA StepSound ==
  ASSUME Inv, LatestRan, [Next]_vars
  PROVE  /\ LatestRan'
         /\ Next => Sound
         /\ UNCHANGED vars => UNCHANGED <<Reply, Contents>>
<1>1. Queue
  BY DEF Inv
<1>2. CASE CallJoins
  <2>1. PICK op \in Ops, key \in Key, given \in ByteString : Enqueues(op, key, given)
    BY <1>2 DEF CallJoins
  <2>2. UNCHANGED <<backing, document, skipped, latest>>
    BY <2>1 DEF Enqueues
  <2>3. Frame
    BY <1>1, <1>2, JoiningIsQuiet DEF Quiet
  <2>4. Sound /\ LatestRan'
    BY <2>2, <2>3, IdleSound
  <2>5. UNCHANGED vars => UNCHANGED <<Reply, Contents>>
    BY DEF vars, Reply, Contents
  <2>6. QED
    BY <2>4, <2>5
<1>3. CASE ArrayIsRefilled \/ CallIsTold
  <2>1. UNCHANGED <<backing, document, skipped, latest>>
    BY <1>3 DEF ArrayIsRefilled, CallIsTold, Refill, Tell
  <2>2. Frame
    BY <1>1, <1>3, RefillingIsQuiet, TellingIsQuiet DEF Quiet
  <2>3. QED
    BY <2>1, <2>2, IdleSound DEF vars, Reply, Contents
<1>4. CASE CallIsRefused
  BY <1>4, RefusalSound DEF vars, Reply, Contents
<1>5. CASE CallRuns
  BY <1>5, RunSound DEF CallRuns, vars, Reply, Contents
<1>6. CASE UNCHANGED vars
  <2>1. UNCHANGED <<Reply, Contents>>
    BY <1>6 DEF vars, Reply, Contents
  <2>2. LatestRan'
    BY <1>6 DEF vars, LatestRan, Waits
  <2>3. QED
    BY <2>1, <2>2, <1>1, <1>2, <1>3, <1>4, <1>5, StepKinds
<1>7. QED
  BY <1>1, <1>2, <1>3, <1>4, <1>5, <1>6, StepKinds

(* The call that took effect last is one that has run. *)
LEMMA LatestHasRun == Spec => []LatestRan
<1>1. Init => LatestRan
  BY DEF Init, LatestRan
<1>2. Inv /\ LatestRan /\ [Next]_vars => LatestRan'
  BY StepSound
<1>3. QED
  BY <1>1, <1>2, Invariance, PTL DEF Spec

(***************************************************************************)
(* SPEC 8.2: a set that fails, refused or undone, leaves the document, its *)
(* order and the skip set as they were; a delete that fails, its members.  *)
(* Nor does either change what a MemoryBacking or StringBacking holds.     *)
(***************************************************************************)
THEOREM FailedCallsChangeNothing == Spec => FailureChangesNothing
<1>1. Inv /\ LatestRan /\ [Next]_vars => [FailureStep]_vars
  BY StepSound DEF Sound
<1>2. QED
  BY <1>1, Invariance, LatestHasRun, PTL DEF Spec, FailureChangesNothing, FailureStep

(***************************************************************************)
(* A member the validator does not accept is destroyed only by a set or    *)
(* delete of its own key that succeeds: in the document, and in what is    *)
(* held by a backing whose last persist and the one before returned.       *)
(***************************************************************************)
THEOREM UnknownIsPreserved == Spec => UnknownPreserved
<1>1. Inv /\ LatestRan /\ [Next]_vars => [UnknownStep]_vars
  BY StepSound DEF Sound
<1>2. QED
  BY <1>1, Invariance, LatestHasRun, PTL DEF Spec, UnknownPreserved, UnknownStep

(***************************************************************************)
(* The TypeScript store implements the byte store, whatever calls are in   *)
(* flight: each takes effect when its turn comes, or when it is refused.   *)
(***************************************************************************)
THEOREM TsStoreIsByteStore == Spec => ImplementsByteStore
<1>1. Init => Abstract!Init
  <2> SUFFICES ASSUME Init PROVE Abstract!Init
    OBVIOUS
  <2>1. document \in JsonObject
    BY InitInv DEF Inv, Queue, Types
  <2>2. QED
    BY <2>1, ContentIsTyped DEF Abstract!Init, Abstract!Contents, Contents
<1>2. Inv /\ LatestRan /\ [Next]_vars => [Abstract!Next]_(Abstract!vars)
  BY StepSound DEF Sound, AbstractStep, Abstract!vars
<1>3. QED
  BY <1>1, <1>2, Invariance, LatestHasRun, PTL DEF Spec, ImplementsByteStore, Abstract!Spec

=============================================================================
