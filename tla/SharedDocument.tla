--------------------------- MODULE SharedDocument ---------------------------
(***************************************************************************)
(* Several TypeScript stores over one MemoryBacking: load hands each the   *)
(* same object, which they change in place, but each has its own lock and  *)
(* its own set of skipped keys, computed when it was constructed.  What a  *)
(* call does under its lock runs in one piece, so calls of different       *)
(* stores alternate as a whole (TsStore has the calls of one).             *)
(***************************************************************************)
EXTENDS JsonDocument

CONSTANTS
  Store,      (* the store objects *)
  Bytes,      (* byte strings callers set *)
  InitialDocument

ASSUME ConstantsAssumption ==
  Bytes \subseteq ByteString /\ InitialDocument \subseteq JsonObject

VARIABLES
  document,   (* the one object *)
  open,       (* the stores constructed so far *)
  skipped     (* #skipped of each *)

vars == <<document, open, skipped>>

Init ==
  /\ document \in InitialDocument
  /\ open = {} /\ skipped = [s \in Store |-> {}]

(* constructor, lenient; again at any time, for a store opened anew. *)
Open(s) ==
  /\ open' = open \cup {s}
  /\ skipped' = [skipped EXCEPT ![s] = IssueKeys(document)]
  /\ UNCHANGED document

Present(s, key) == Has(document, key) /\ key \notin skipped[s]

(* Mutant: the key is not checked. *)
SetUnchecked(s, key, bytes) ==
  LET encoded == EncodeValue(key, bytes)
  IN  /\ s \in open /\ encoded # CodecError
      /\ document' = Put(document, key, encoded)
      /\ skipped' = [skipped EXCEPT ![s] = @ \ {key}]
      /\ UNCHANGED open

(* set, of a key that passes R1 and bytes that encode. *)
Set(s, key, bytes) ==
  LET encoded == EncodeValue(key, bytes)
  IN  /\ s \in open /\ IsWellFormed(key) /\ encoded # CodecError
      /\ document' = Put(document, key, encoded)
      /\ skipped' = [skipped EXCEPT ![s] = @ \ {key}]
      /\ UNCHANGED open

(* Mutant: the store that deletes also forgets what else it skips. *)
DeleteForgetting(s, key) ==
  /\ s \in open
  /\ document' = Pop(document, key)
  /\ skipped' = [skipped EXCEPT ![s] = {}]
  /\ UNCHANGED open

Delete(s, key) ==
  /\ s \in open
  /\ document' = Pop(document, key)
  /\ skipped' = [skipped EXCEPT ![s] = @ \ {key}]
  /\ UNCHANGED open

Next ==
  \E s \in Store :
    \/ Open(s)
    \/ \E k \in Key : Delete(s, k) \/ \E b \in Bytes : Set(s, k, b)

Spec == Init /\ [][Next]_vars

-----------------------------------------------------------------------------
(* Every variable has its type; the members are all JSON. *)
TypeOK ==
  /\ document \in JsonObject
  /\ open \subseteq Store
  /\ skipped \in [Store -> SUBSET Key]

(* No store shows a member the validator refuses, whatever the others did  *)
(* since it was constructed.                                               *)
NothingInvalidShown ==
  \A s \in open : \A k \in IssueKeys(document) : ~Present(s, k)

(* What a store shows it goes on showing, also when it is opened anew,     *)
(* until the key is deleted, whichever store deletes or writes it.         *)
StaysShown ==
  [][\A s \in open : \A k \in Key :
       Present(s, k) /\ ~(Has(document', k) /\ k \notin skipped'[s]) => ~Has(document', k)]_vars

=============================================================================
