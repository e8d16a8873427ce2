---------------------------- MODULE MCPyListing ----------------------------
(***************************************************************************)
(* A small instance of PyListing: the root key and a directory "a" with    *)
(* two members; the root member is hidden at first.                        *)
(***************************************************************************)
EXTENDS PyListing

CONSTANTS good

root  == <<"">>
x     == <<"a", "x">>
meta  == <<"a", "zarr.json">>

MCKey == {root, x, meta}

value == [kind |-> "object", of |-> good]

MCBytes == {Canonical(value)}

MCInitialDocument ==
  {[at |-> [k \in MCKey |-> IF k = root THEN [kind |-> "scalar", of |-> good] ELSE value],
    order |-> <<x, root, meta>>]}

MCDirectory == {<<>>, <<"a">>}

=============================================================================
