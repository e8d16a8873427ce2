----------------------------- MODULE CodePoints -----------------------------
(***************************************************************************)
(* compareCodePoints: strings of UTF-16 code units compared by the code    *)
(* points they spell, with which the harnesses sort keys as Python does.   *)
(***************************************************************************)
EXTENDS Integers, Sequences, FiniteSetsExt

CONSTANT String    (* the strings compared *)

CodeUnit == 0 .. 65535
High     == 55296 .. 56319    (* the surrogates: the first of a pair, *)
Trail    == 56320 .. 57343    (* and the second                       *)

ASSUME StringAssumption == String \subseteq Seq(CodeUnit)

VARIABLES a, b, i, j, result

compareVars == <<a, b, i, j, result>>

Running == 2      (* no result yet *)

IsPair(s, p) == s[p] \in High /\ p < Len(s) /\ s[p + 1] \in Trail

(* The code point of a pair, past every code unit. *)
Combined(h, t) == 65536 + 1024 * (h - 55296) + (t - 56320)

(* Mutant: the code unit at a position (charCodeAt). *)
CodeUnitAt(s, p) == s[p]

CodePointAt(s, p) == IF IsPair(s, p) THEN Combined(s[p], s[p + 1]) ELSE s[p]

CompareInit == a \in String /\ b \in String /\ i = 1 /\ j = 1 /\ result = Running

UnitsOf(c) == IF c > 65535 THEN 2 ELSE 1

(* One turn of the loop. *)
Step ==
  /\ result = Running /\ i <= Len(a) /\ j <= Len(b)
  /\ LET ca == CodePointAt(a, i)  cb == CodePointAt(b, j)
     IN  IF ca # cb
         THEN result' = (IF ca < cb THEN -1 ELSE 1) /\ UNCHANGED <<i, j>>
         ELSE i' = i + UnitsOf(ca) /\ j' = j + UnitsOf(cb) /\ UNCHANGED result
  /\ UNCHANGED <<a, b>>

(* One string is at its end: the rest of the other decides. *)
End ==
  /\ result = Running /\ (i > Len(a) \/ j > Len(b))
  /\ LET rest == (Len(a) - i) - (Len(b) - j)
     IN  result' = IF rest < 0 THEN -1 ELSE IF rest > 0 THEN 1 ELSE 0
  /\ UNCHANGED <<a, b, i, j>>

CompareNext == Step \/ End

CompareSpec == CompareInit /\ [][CompareNext]_compareVars

-----------------------------------------------------------------------------
(* The code points of a string, in order: one at every position that is    *)
(* not the second half of a pair.                                          *)
Starts(s)   == {p \in DOMAIN s : p = 1 \/ ~IsPair(s, p - 1)}
Count(s, p) == Cardinality({q \in Starts(s) : q <= p})
Nth(s, n)   == CHOOSE p \in Starts(s) : Count(s, p) = n
Point(s, p) == IF IsPair(s, p) THEN Combined(s[p], s[p + 1]) ELSE s[p]
Spelled(s)  == [n \in 1 .. Cardinality(Starts(s)) |-> Point(s, Nth(s, n))]

Precedes(s, t) ==
  \E n \in 0 .. Len(s) :
    /\ n <= Len(t) /\ \A m \in 1 .. n : s[m] = t[m]
    /\ \/ n = Len(s) /\ n < Len(t)
       \/ n < Len(s) /\ n < Len(t) /\ s[n + 1] < t[n + 1]

(* The result is the order of the two sequences of code points, zero for   *)
(* equal strings only, lone surrogates among them or not.                  *)
ComparesCodePoints ==
  result # Running =>
    /\ result < 0 <=> Precedes(Spelled(a), Spelled(b))
    /\ result > 0 <=> Precedes(Spelled(b), Spelled(a))
    /\ result = 0 <=> a = b

=============================================================================
