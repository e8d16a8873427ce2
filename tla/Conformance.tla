---------------------------- MODULE Conformance ----------------------------
(***************************************************************************)
(* The conformance harness of TypeScript: it reads a document, puts every  *)
(* member through the validator, decodeValue and encodeValue, and prints a *)
(* report of the issues, the decoded bytes, the re-encoded values and the  *)
(* keys that failed.                                                       *)
(***************************************************************************)
EXTENDS TsDocument, FiniteSets, TLC

CONSTANTS
  Input,       (* the documents read: sequences of members, key and token *)
  LoneKeys     (* keys with a lone surrogate *)

None == [k |-> "none"]

VARIABLES
  input, doc,           (* the members as they were read and as they parsed *)
  pos,                  (* the member visited next *)
  issues, errors,       (* sets of keys *)
  decoded, reencoded,   (* the two maps of the report *)
  prototype,            (* what the prototype of the second was replaced by *)
  report

vars == <<input, doc, pos, issues, errors, decoded, reencoded, prototype, report>>

Proto == <<"__proto__">>

Init ==
  /\ input \in Input
  /\ doc = [i \in DOMAIN input |->
             [key |-> input[i].key, is |-> StrictParse(input[i].is, FALSE)]]
  /\ pos = 1 /\ issues = {} /\ errors = {}
  /\ decoded = <<>> /\ reencoded = <<>> /\ prototype = None /\ report = "none"

(* main: an input the parser refuses is the end of it. *)
Refuse ==
  /\ report = "none" /\ pos = 1
  /\ \E i \in DOMAIN doc : doc[i].is = Error
  /\ report' = "invalid input"
  /\ UNCHANGED <<input, doc, pos, issues, errors, decoded, reencoded, prototype>>

Visiting == report = "none" /\ pos <= Len(doc) /\ \A i \in DOMAIN doc : doc[i].is # Error
TheKey   == doc[pos].key
TheValue == doc[pos].is
TheBytes == DecodeValue(TheKey, TheValue)

Issue ==
  /\ Visiting /\ HasIssue(TheKey, TheValue)
  /\ issues' = issues \cup {TheKey} /\ pos' = pos + 1
  /\ UNCHANGED <<input, doc, errors, decoded, reencoded, prototype, report>>

(* Mutant: a key that does not decode is passed over. *)
FailSilently ==
  /\ Visiting /\ ~HasIssue(TheKey, TheValue) /\ TheBytes = Broken
  /\ pos' = pos + 1
  /\ UNCHANGED <<input, doc, issues, errors, decoded, reencoded, prototype, report>>

Fail ==
  /\ Visiting /\ ~HasIssue(TheKey, TheValue) /\ TheBytes = Broken
  /\ errors' = errors \cup {TheKey} /\ pos' = pos + 1
  /\ UNCHANGED <<input, doc, issues, decoded, reencoded, prototype, report>>

With(map, key, value) == (key :> value) @@ map

(* The maps are plain objects: assigning to "__proto__" makes no member,   *)
(* but sets the prototype if the value is an object or an array.           *)
Pass ==
  /\ Visiting /\ ~HasIssue(TheKey, TheValue) /\ TheBytes # Broken
  /\ pos' = pos + 1
  /\ LET again == EncodeValue(TheKey, TheBytes)
     IN  IF TheKey = Proto
         THEN /\ prototype' = IF IsContainer(again) THEN again ELSE prototype
              /\ UNCHANGED <<decoded, reencoded>>
         ELSE /\ decoded' = With(decoded, TheKey, TheBytes)
              /\ reencoded' = With(reencoded, TheKey, again)
              /\ UNCHANGED prototype
  /\ UNCHANGED <<input, doc, issues, errors, report>>

(* canonicalStringify of the report: loud about a key it cannot encode,    *)
(* and about a map that is not a plain object any more.                    *)
PrintReport ==
  /\ report = "none" /\ pos > Len(doc)
  /\ report' = IF \/ (issues \cup errors \cup DOMAIN decoded) \cap LoneKeys # {}
                  \/ prototype # None
               THEN "failed" ELSE "printed"
  /\ UNCHANGED <<input, doc, pos, issues, errors, decoded, reencoded, prototype>>

Next == Refuse \/ Issue \/ Fail \/ Pass \/ PrintReport

Spec == Init /\ [][Next]_vars

-----------------------------------------------------------------------------
(* Properties. *)

(* Printed in a document and read again, a re-encoded value decodes to the *)
(* bytes the report gives for the key.                                     *)
Lossless ==
  \A k \in DOMAIN reencoded :
    DecodeValue(k, StrictParse(Write(reencoded[k]), FALSE)) = decoded[k]

(* "decoded": for every issue-free key that decodes, and the errors for    *)
(* those that do not (conformance.ts, the top): the report speaks of every *)
(* key of the document in one place, and "a decode failure on one key must *)
(* not abort the report": there is none only of a document the parser      *)
(* refuses or with a key without UTF-8 form.  A key __proto__ is the       *)
(* exception to both.                                                      *)
EveryKeyReported ==
  /\ report = "printed" =>
       \A i \in DOMAIN doc :
         LET k == doc[i].key
         IN  k = Proto \/ Cardinality({s \in {"issue", "error", "decoded"} :
                             \/ s = "issue" /\ k \in issues
                             \/ s = "error" /\ k \in errors
                             \/ s = "decoded" /\ k \in DOMAIN decoded}) = 1
  /\ report \in {"failed", "invalid input"} =>
       \E i \in DOMAIN doc : doc[i].is = Error \/ doc[i].key \in LoneKeys \cup {Proto}

=============================================================================
