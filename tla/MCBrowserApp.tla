--------------------------- MODULE MCBrowserApp ---------------------------
(***************************************************************************)
(* The page alone, for the history of its address: documents a and b with  *)
(* an array, and the empty one.                                            *)
(***************************************************************************)
EXTENDS BrowserApp

CONSTANTS empty, a, b, root, array

MCPath == {root, array}
MCPaths == [d \in Doc |-> IF d = Empty THEN {root} ELSE {root, array}]

=============================================================================
