---------------------------- MODULE MCCrosscheck ----------------------------
(* What Crosscheck is instantiated with: arrays with edge chunks, without  *)
(* elements and of rank 0 and 2, at paths below each other; regions inside *)
(* and across chunks and past the end.                                     *)
EXTENDS ChunkIndex, TLC

Paths3 == {<<"a">>, <<"a", "b">>, <<"c">>}
A(s, c) == [shape |-> s, chunks |-> c]
Layouts == {A(<<3>>, <<2>>), A(<<2, 3>>, <<1, 2>>), A(<<>>, <<>>), A(<<0>>, <<1>>)}

Creating(p, d, l, s) ==
  [op |-> "create_array", path |-> p, dtype |-> d, shape |-> l.shape, chunks |-> l.chunks, shards |-> s]
Parts == {<<<<0>>, <<1>>>>, <<<<1>>, <<2>>>>, <<<<0, 1>>, <<2, 2>>>>, <<<<1, 0>>, <<1, 3>>>>, <<<<>>, <<>>>>}
PastEnd == {<<<<2>>, <<2>>>>, <<<<3>>, <<1>>>>}
NoParts == {<<<<0>>, <<0>>>>, <<<<-1>>, <<1>>>>}
Writing(p, part, f, b) ==
  [op |-> "write_region", path |-> p, origin |-> part[1], shape |-> part[2], form |-> f,
   cells |-> [n \in 1 .. Product(part[2]) |-> b + n]]
Reading(p, part) == [op |-> "read_region", path |-> p, origin |-> part[1], shape |-> part[2]]
WholeParts == {<<<<0>>, <<3>>>>, <<<<0, 0>>, <<2, 3>>>>, <<<<>>, <<>>>>}

LegalRequests ==
  {Creating(p, "int32", l, <<>>) : p \in Paths3, l \in Layouts}
    \cup {Creating(<<"c">>, "float64", A(<<3>>, <<2>>), <<>>),
          Creating(<<"a", "b", "d">>, "int32", A(<<3>>, <<2>>), <<>>)}
    \cup {Writing(p, part, f, b) : p \in {<<"a", "b">>, <<"c">>}, part \in Parts,
            f \in {"integer", "point"}, b \in {0, 4}}
    \cup {Reading(p, part) : p \in {<<"a", "b">>, <<"c">>}, part \in WholeParts}
    \cup {Writing(<<"c">>, part, "integer", 0) : part \in PastEnd}
    \cup {Writing(<<"c">>, <<<<0>>, <<1>>>>, "ragged", 0)}
    \cup {Reading(<<"c">>, part) : part \in PastEnd}

IllegalRequests ==
  {Creating(p, "int32", A(<<3>>, <<2>>), <<>>) : p \in {<<"">>, <<"a", "__x">>, <<"a", "..">>}}
    \cup {Creating(<<"c">>, "int8", A(<<3>>, <<2>>), <<>>), Creating(<<"c">>, "int32", A(<<3>>, <<0>>), <<>>),
          Creating(<<"c">>, "int32", A(<<-1>>, <<2>>), <<>>), Creating(<<"c">>, "int32", A(<<9>>, <<2>>), <<>>),
          Creating(<<"c">>, "int32", A(<<3>>, <<2>>), <<<<4>>>>),
          Creating(<<"c">>, "int32", A(<<3>>, <<2>>), <<<<3>>>>)}
    \cup {Writing(<<"c">>, part, "integer", 0) : part \in NoParts}
    \cup {Reading(<<"c">>, part) : part \in NoParts}

Requests == LegalRequests \cup IllegalRequests

Root == [type |-> "group", dtype |-> "none", shape |-> <<>>, chunk |-> <<>>]
ArrayNode(s, c) == [type |-> "array", dtype |-> "int32", shape |-> s, chunk |-> c]
Documents == {<<>>, (<<>> :> Root), (<<>> :> Root) @@ (<<"a">> :> ArrayNode(<<3>>, <<2>>)),
              (<<>> :> Root) @@ (<<"a">> :> Root) @@ (<<"a", "b">> :> ArrayNode(<<3>>, <<1>>))}
=============================================================================
