----------------------------- MODULE ByteRange -----------------------------
(***************************************************************************)
(* Partial reads of a value: the byte ranges of the three stores' own      *)
(* interfaces, applied to the bytes that were decoded.  A reader fetches a *)
(* value piece by piece, as Zarr libraries fetch a shard, and the value    *)
(* may be replaced between two fetches.                                    *)
(***************************************************************************)
EXTENDS Integers, Sequences, SequencesExt

CONSTANTS
  Value,      (* the byte strings a key may hold *)
  Width       (* 2^64: integers of Rust are below *)

(* What is in memory has a length that an integer can hold. *)
ASSUME ValueAssumption ==
  Width \in Nat /\ \A v \in Value : v \in Seq(0 .. 255) /\ Len(v) < Width

VARIABLES
  value,      (* what the key holds *)
  request,    (* the last range asked for *)
  answers,    (* what the three stores gave for it *)
  asked,      (* how many bytes, from the front on, a reader has asked for *)
  pieces,     (* the pieces it has, in the order of their ranges *)
  still       (* history: the value was not replaced since the first piece *)

rangeVars == <<value, request, answers, asked, pieces, still>>

Refused == [refused |-> TRUE]
Got(s) == [refused |-> FALSE, is |-> s]
NoRequest == [kind |-> "none", start |-> 0, length |-> 0]
None == [py |-> Refused, ts |-> Refused, rs |-> Refused]

Larger(m, n)  == IF m >= n THEN m ELSE n
Smaller(m, n) == IF m <= n THEN m ELSE n

(* data[i:j] and data.slice(i, j): clamped to the data, empty if none. *)
Slice(data, from, to) == SubSeq(data, Smaller(from, Len(data)) + 1, Smaller(to, Len(data)))

(* Mutant: the end of a range taken as its last byte. *)
ApplyRangeInclusive(data, r) ==
  IF r.kind = "suffix" THEN Slice(data, Larger(0, Len(data) - r.length), Len(data))
  ELSE Slice(data, r.start, r.start + r.length + 1)

(* applyRange of TypeScript, and _apply_byte_range of Python alike. *)
ApplyRange(data, r) ==
  IF r.kind = "suffix" THEN Slice(data, Larger(0, Len(data) - r.length), Len(data))
  ELSE Slice(data, r.start, r.start + r.length)

(* Mutant: no check of the addition nor of the end. *)
PartialUnchecked(data, r) ==
  LET start == IF r.kind = "suffix" THEN Larger(0, Len(data) - r.length) ELSE r.start
      end   == IF r.kind = "suffix" THEN Len(data) ELSE (r.start + r.length) % Width
  IN  Got(Slice(data, start, end))

(* get_partial_many of Rust: checked arithmetic, and an error for a range  *)
(* that is not all in the data.                                            *)
Partial(data, r) ==
  LET start == IF r.kind = "suffix" THEN Len(data) - r.length ELSE r.start
      end   == IF r.kind = "suffix" THEN Len(data) ELSE r.start + r.length
  IN  IF start < 0 \/ end >= Width \/ end > Len(data) THEN Refused
      ELSE Got(Slice(data, start, end))

RangesInit ==
  /\ value \in Value /\ request = NoRequest /\ answers = None
  /\ asked = 0 /\ pieces = <<>> /\ still = TRUE

Ask(r) ==
  /\ request' = r
  /\ answers' = [py |-> Got(ApplyRange(value, r)), ts |-> Got(ApplyRange(value, r)),
                 rs |-> Partial(value, r)]

(* One range of any kind. *)
Get(r) == Ask(r) /\ UNCHANGED <<value, asked, pieces, still>>

(* The next piece of a value read from the front, some bytes long. *)
GetNext(n) ==
  LET r == [kind |-> "range", start |-> asked, length |-> n]
  IN  /\ asked < Len(value)
      /\ Ask(r)
      /\ asked' = asked + n
      /\ pieces' = Append(pieces, ApplyRange(value, r))
      /\ still' = (pieces = <<>> \/ still)
      /\ UNCHANGED value

Replace(v) ==
  /\ v # value
  /\ value' = v /\ still' = FALSE
  /\ UNCHANGED <<request, answers, asked, pieces>>

Number == 0 .. Width - 1

RangesNext ==
  \/ \E s, n \in Number : Get([kind |-> "range", start |-> s, length |-> n])
  \/ \E n \in Number : Get([kind |-> "suffix", start |-> 0, length |-> n])
  \/ \E n \in 1 .. 2 : GetNext(n)
  \/ \E v \in Value : Replace(v)

RangesSpec == RangesInit /\ [][RangesNext]_rangeVars

-----------------------------------------------------------------------------
(* The stores agree on every range that is in the value, and Rust refuses  *)
(* the others, where the other two give what there is.                     *)
StoresAgree ==
  [][LET r == request'
         inside == IF r.kind = "suffix" THEN r.length <= Len(value)
                   ELSE r.start + r.length <= Len(value)
     IN  answers' # answers =>
           IF inside
           THEN answers'.py = answers'.ts /\ answers'.rs = answers'.ts
                /\ Len(answers'.ts.is) = r.length
           ELSE /\ answers'.rs = Refused
                /\ IsSuffix(answers'.ts.is, value)]_rangeVars

(* The pieces fetched of a value that stays are the front of it: nothing   *)
(* is skipped or fetched twice at their borders, the last cut short.       *)
PiecesMakeValue == still => FlattenSeq(pieces) = Slice(value, 0, asked)

=============================================================================
