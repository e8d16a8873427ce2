--------------------------- MODULE MCConformance ---------------------------
(* What Conformance is instantiated with: documents of up to two members.  *)
(* Texts: every atom alone in an array, a few objects of two members, with *)
(* spaces or without, and as base64.                                       *)
EXTENDS Integers, Sequences

Indexed == {"1"}
Lone == {<<"lone">>}

Digits(n) == [k |-> "int", v |-> n]
Float(h) == [k |-> "float", h |-> h]
Atoms ==
  {Digits(2), Digits(5), Digits(7), Digits(13), [k |-> "-0"], Float(1), Float(2), Float(12), Float(40),
   [k |-> "exp", h |-> 4], [k |-> "exp", h |-> 16], [k |-> "word"]}
    \cup {[k |-> "str", s |-> s, plain |-> p] : s \in {"text", "lone"}, p \in BOOLEAN}

Arr(items, t)   == [k |-> "arr", of |-> items, tight |-> t]
Obj(members, t) == [k |-> "obj", of |-> members, tight |-> t]
Named(n, t)     == [name |-> n, is |-> t]

Texts ==
  {Arr(<<a>>, t) : a \in Atoms, t \in BOOLEAN} \cup {Arr(<<>>, TRUE), Arr(<<Arr(<<Digits(5)>>, FALSE)>>, TRUE)}
    \cup {Obj(<<Named(m, a)>>, TRUE) : m \in {"b", "__proto__", "lone"}, a \in Atoms}
    \cup {Obj(<<Named(m, a), Named(n, Digits(2))>>, TRUE) :
            m \in {"b", "1"}, n \in {"b", "1"}, a \in {Digits(5), Float(40)}}

NotJson == [k |-> "opaque"]
Base64(b, e) == [k |-> "b64", of |-> b, exact |-> e]
Values == Texts \cup {Base64(b, TRUE) : b \in Texts \cup Atoms \cup {NotJson}} \cup {Base64(NotJson, FALSE)}
            \cup {Digits(2), [k |-> "str", s |-> "text", plain |-> TRUE]}

Few == {Arr(<<Float(2)>>, TRUE), Obj(<<Named("b", Digits(7))>>, TRUE), Base64(NotJson, FALSE), Digits(2),
        [k |-> "str", s |-> "text", plain |-> TRUE]}

Entry(keys, values) == [key : keys, is : values]
Pairs(keys) ==
  {<<e>> : e \in Entry(keys, Values)}
    \cup {<<e, f>> : e \in Entry(keys, Values), f \in Entry(keys, Few)}
Distinct(docs) == {d \in docs : Len(d) = 1 \/ d[1].key # d[2].key}

Inputs == Distinct(Pairs({<<"a", "zarr.json">>, <<"c">>, <<"a", "">>, <<"lone">>, <<"__proto__">>}))
OneInput == <<[key |-> <<"c">>, is |-> Digits(2)]>>
=============================================================================
