---------------------------- MODULE MCDocuments ----------------------------
(***************************************************************************)
(* Four views of one document, which share no state, side by side: Init    *)
(* chooses the one a behaviour is about.                                   *)
(*   "stores" several TypeScript stores over one MemoryBacking             *)
(*   "report" the conformance harness, which reads and reports a document  *)
(*   "points" the comparison of two keys that sorts the report             *)
(*   "ranges" partial reads of the value of a key                          *)
(***************************************************************************)
(* MCConformance first: TLC compares records by the fields it met first, and *)
(* the field "of" holds sequences and records.                              *)
EXTENDS MCConformance, MCSharedDocument, CodePoints, ByteRange

VARIABLES
  part,
  input, doc, pos, issues, errors, decoded, reencoded, prototype, report

reporting == <<input, doc, pos, issues, errors, decoded, reencoded, prototype, report>>
all       == <<part, vars, reporting, compareVars, rangeVars>>

Reports == INSTANCE Conformance WITH
  Safe <- 4, Huge <- 8, Largest <- 16, IndexNames <- Indexed,
  Input <- Inputs, LoneKeys <- Lone

(* Every two strings of up to three code units: a letter, the last unit of *)
(* all, and surrogates of which two pairs differ in their second half.     *)
Units   == {97, 55357, 56832, 56833, 65535}
Strings == UNION {[1 .. n -> Units] : n \in 0 .. 3}

(* Values up to four bytes, all different. *)
Fronts == {[n \in 1 .. length |-> n] : length \in 0 .. 4}

-----------------------------------------------------------------------------
(* A part that is not the chosen one stays as it begins, in one state. *)
MCInit ==
  /\ part \in {"stores", "report", "points", "ranges"}
  /\ Init
  /\ (part = "report" \/ input = OneInput) /\ Reports!Init
  /\ (part = "points" \/ a = <<>>) /\ (part = "points" \/ b = <<>>) /\ CompareInit
  /\ (part = "ranges" \/ value = <<>>) /\ RangesInit

MCNext ==
  /\ UNCHANGED part
  /\ \/ part = "stores" /\ Next /\ UNCHANGED <<reporting, compareVars, rangeVars>>
     \/ part = "report" /\ Reports!Next /\ UNCHANGED <<vars, compareVars, rangeVars>>
     \/ part = "points" /\ CompareNext /\ UNCHANGED <<vars, reporting, rangeVars>>
     \/ part = "ranges" /\ RangesNext /\ UNCHANGED <<vars, reporting, compareVars>>

MCSpec == MCInit /\ [][MCNext]_all

-----------------------------------------------------------------------------
(* Conformance: a re-encoded value is read back as the decoded bytes. *)
Lossless == Reports!Lossless

(* Conformance: the report speaks of every key, in one place. *)
EveryKeyReported == Reports!EveryKeyReported

=============================================================================
