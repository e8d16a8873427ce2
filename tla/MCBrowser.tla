----------------------------- MODULE MCBrowser -----------------------------
(***************************************************************************)
(* The parts of the document browser, which share no state, side by side:  *)
(* Init chooses the one a behaviour is about.                              *)
(*   "page"   the page, with inputs that write the address bar themselves  *)
(*   "typing" the page, with inputs that leave it to the timer to write    *)
(*            the address bar                                              *)
(*   "roles"  the array viewer, for all shapes up to a rank                *)
(*   "tree"   the hierarchy, of every document over a few keys             *)
(***************************************************************************)
EXTENDS MCViewerRoles, BrowserApp, Hierarchy

VARIABLE part

all == <<part, vars, rolesVars, treeVars>>

-----------------------------------------------------------------------------
(* The empty document has no array; every other has the same one. *)
PathsOf == [d \in Doc |-> IF d = Empty THEN {Root} ELSE Path]

(* The constant Inputs is that of the part "typing". *)
Page == INSTANCE BrowserApp WITH Inputs <- {"fromUrl", "navigate", "edit", "select"}

(* Nested nodes with and without metadata, chunks and stray keys. *)
TreeKeys ==
  {<<"zarr.json">>, <<"a", "zarr.json">>, <<"a", "b", "c", "zarr.json">>,
   <<"">>, <<"a", "b", "x">>, <<"a", "b", "c", "x">>, <<"x", "y">>}

-----------------------------------------------------------------------------
(* A part that is not the chosen one stays as it begins, in one state. *)
MCInit ==
  /\ part \in {"page", "typing", "roles", "tree"}
  /\ (part = "roles" \/ shape = <<>>) /\ RolesInit
  /\ \/ part = "page" /\ Page!Init
     \/ part # "page" /\ Init
  /\ (part = "tree" \/ document = <<>>) /\ TreeInit

MCNext ==
  /\ UNCHANGED part
  /\ \/ part = "page" /\ Page!Next /\ UNCHANGED <<rolesVars, treeVars>>
     \/ part = "typing" /\ Next /\ UNCHANGED <<rolesVars, treeVars>>
     \/ part = "roles" /\ RolesNext /\ UNCHANGED <<vars, treeVars>>
     \/ part = "tree" /\ TreeNext /\ UNCHANGED <<vars, rolesVars>>

(* Of the parts only the page has timers and promises. *)
MCSpec == MCInit /\ [][MCNext]_all /\ Fairness

-----------------------------------------------------------------------------
(* Every variable of the parts has its type. *)
TypesOK == TypeOK /\ RolesTypeOK /\ TreeTypeOK

(* BrowserApp: the address bar comes to hold the document when nothing but *)
(* the timer writes it.                                                    *)
AddressOfTypingCatchesUp == (part = "typing") => AddressCatchesUp

=============================================================================
