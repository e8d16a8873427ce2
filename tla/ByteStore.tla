----------------------------- MODULE ByteStore -----------------------------
(***************************************************************************)
(* What every zarr-inline store promises its caller: a map from keys to    *)
(* byte strings.  Each operation takes effect at one instant, a read       *)
(* returns what the last acknowledged write of that key stored (the        *)
(* canonical form of it at a metadata key), and an operation that reports  *)
(* an error has changed nothing of what is read.  How the map is laid out  *)
(* as a JSON document and which members a lenient reader skips do not      *)
(* appear here.  Of persistence only what shows when the store is closed:  *)
(* a fragile medium may keep, of an operation that reported an error, what *)
(* it would have written, or nothing at all.                               *)
(***************************************************************************)
CONSTANTS
  Key,          (* store keys *)
  Bytes,        (* byte strings *)
  Stored,       (* Stored[k][b]: what reads of k return once b is written *)
  NotFound,     (* contents of an absent key *)
  Unreadable,   (* contents of a key whose every read is an error *)
  Lost,         (* contents of every key once the medium is destroyed *)
  Fragile       (* whether a failed operation can leave a trace in the medium *)

VARIABLES
  contents,     (* key -> what a read of it returns *)
  kept,         (* key -> what a read returns once the store is closed and opened *)
  reply         (* the last operation and its outcome, with the bytes that it *)
                (* read or, for an acknowledged write, was given              *)

vars == <<reply, contents, kept>>

Contents == Bytes \cup {NotFound, Unreadable, Lost}

(* A document may be opened with anything in it. *)
Init ==
  /\ contents \in [Key -> Contents]
  /\ kept = contents

Replies(op, key, ok, value) ==
  reply'.op = op /\ reply'.key = key /\ reply'.ok = ok /\ reply'.value = value

(* An acknowledged mutation is readable, and kept. *)
Become(new) == contents' = new /\ kept' = new

Written(k, b) == [contents EXCEPT ![k] = Stored[k][b]]

Erased(k) == [contents EXCEPT ![k] = NotFound]

Write(k) ==
  /\ Replies("set", k, TRUE, reply'.value)
  /\ reply'.value \in Bytes
  /\ Become(Written(k, reply'.value))

Erase(k) == Replies("delete", k, TRUE, NotFound) /\ Become(Erased(k))

EraseAll ==
  /\ reply'.op = "erase_prefix" /\ reply'.ok
  /\ \E S \in SUBSET Key : Become([k \in Key |-> IF k \in S THEN NotFound ELSE contents[k]])

Read(k) ==
  /\ Replies("get", k, contents[k] # Unreadable, contents[k])
  /\ UNCHANGED <<contents, kept>>

Has(k) ==
  /\ Replies("exists", k, contents[k] # NotFound, NotFound)
  /\ UNCHANGED <<contents, kept>>

(* A mutation may be refused, and then has no effect. *)
Refuse ==
  /\ reply'.op \in {"set", "delete"} /\ ~reply'.ok
  /\ UNCHANGED <<contents, kept>>

LostAll == [k \in Key |-> Lost]

(* It may fail half way: no read shows it, but it may be found when the    *)
(* store is opened anew, or nothing.                                       *)
Fail(k) ==
  /\ Fragile
  /\ UNCHANGED contents
  /\ \/ Replies("set", k, FALSE, NotFound)
        /\ (kept' = LostAll \/ \E b \in Bytes : kept' = Written(k, b))
     \/ Replies("delete", k, FALSE, NotFound)
        /\ (kept' = LostAll \/ kept' = Erased(k))

(* Opening and sharing a store leave what it holds alone. *)
Administer ==
  /\ reply'.op \in {"open", "with_read_only"}
  /\ UNCHANGED <<contents, kept>>

(* What is kept stays when the store is closed, by its end if need be. *)
Close ==
  /\ reply'.op = "close"
  /\ contents' = kept
  /\ UNCHANGED kept

(* It ends while the medium is written. *)
Lose ==
  /\ Fragile
  /\ reply'.op = "close"
  /\ Become(LostAll)

Next ==
  \/ Refuse
  \/ Administer
  \/ Close
  \/ Lose
  \/ \E k \in Key : Read(k) \/ Has(k) \/ Write(k) \/ Erase(k) \/ Fail(k)
  \/ EraseAll

Spec == Init /\ [][Next]_vars

=============================================================================
