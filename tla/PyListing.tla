----------------------------- MODULE PyListing -----------------------------
(***************************************************************************)
(* The listings of the Python store: list, list_prefix and list_dir.       *)
(*                                                                         *)
(* Each is an asynchronous generator: it takes the keys there are, under   *)
(* the lock, when its consumer first asks for one, and then yields one     *)
(* key at a time.  Whenever it is suspended at a yield any other method of *)
(* the store may run, called by the consumer (which may be deleting what   *)
(* it is listing) or by another task.                                      *)
(*                                                                         *)
(* A prefix is a directory: "" or a name with its final "/", which         *)
(* list_dir adds where its caller leaves it out.                           *)
(***************************************************************************)
EXTENDS PyStore

CONSTANTS
  Directory,    (* directories callers list, as sequences of segments *)
  MaxListings   (* bound: the listings of a behaviour *)

ASSUME DirectoryAssumption == Directory \subseteq Seq(STRING) /\ MaxListings \in Nat

VARIABLES
  listing,      (* the generator *)
  began,        (* history: the keys shown when the listing began *)
  steady        (* history: those of them shown ever since *)

historyVars == <<began, steady>>

allVars == <<vars, listing, historyVars>>

-----------------------------------------------------------------------------
Shown == {k \in Key : Present(k)}

NoListing(count) ==
  [op |-> "none", dir |-> <<>>, keys |-> <<>>, next |-> 1, yielded |-> <<>>, count |-> count]

(* _keys() *)
Keys == Only(document.order, Key \ skipped)

(* The first request: list_prefix filters the keys, list_dir takes all.    *)
(* list() is list_prefix of the root.                                      *)
Begin(op, dir) ==
  /\ Live
  /\ listing.op = "none" /\ listing.count < MaxListings
  /\ listing' = [NoListing(listing.count + 1) EXCEPT
       !.op = op, !.dir = dir,
       !.keys = IF op = "list_dir" THEN Keys
                ELSE Only(Keys, {k \in Key : InDirectory(dir, k)})]
  /\ began' = Shown /\ steady' = Shown
  /\ UNCHANGED vars

(* The first segment below the directory. *)
Child(dir, key) == <<key[Len(dir) + 1]>>

Item(key) == IF listing.op = "list_dir" THEN Child(listing.dir, key) ELSE key

(* Mutant: the dict itself is iterated over, by position. *)
SourceNow == Keys

(* What the generator iterates over. *)
Source == listing.keys

(* Mutant: seen is forgotten. *)
YieldsUnseen(key) ==
  listing.op = "list_dir" => InDirectory(listing.dir, key) /\ Child(listing.dir, key) # <<"">>

(* The keys list_dir does not pass over; list_prefix yields all of its own. *)
Yields(key) ==
  listing.op = "list_dir" =>
    /\ InDirectory(listing.dir, key)
    /\ Child(listing.dir, key) # <<"">>
    /\ \A i \in DOMAIN listing.yielded : listing.yielded[i] # Child(listing.dir, key)

Places == {p \in DOMAIN Source : p >= listing.next /\ Yields(Source[p])}

Yield ==
  /\ listing.op # "none"
  /\ \E p \in Places :
       /\ \A q \in Places : p <= q
       /\ listing' = [listing EXCEPT !.next = p + 1, !.yielded = Append(@, Item(Source[p]))]
  /\ UNCHANGED <<vars, historyVars>>

Exhausted == listing.op # "none" /\ Places = {}

(* StopAsyncIteration, or a consumer that drops the generator. *)
End ==
  /\ listing.op # "none"
  /\ listing' = NoListing(listing.count)
  /\ began' = {} /\ steady' = {}
  /\ UNCHANGED vars

(* Any other method, and the end of the process, which ends the listing. *)
OtherMethod ==
  /\ Next
  /\ \/ /\ Live'
        /\ steady' = steady \cap Shown'
        /\ UNCHANGED <<listing, began>>
     \/ /\ ~Live'
        /\ listing' = NoListing(listing.count)
        /\ began' = {} /\ steady' = {}

-----------------------------------------------------------------------------
ListingInit ==
  /\ Init
  /\ listing = NoListing(0)
  /\ began = {} /\ steady = {}

ListingNext ==
  \/ \E op \in {"list_prefix", "list_dir"}, dir \in Directory : Begin(op, dir)
  \/ Yield
  \/ End
  \/ OtherMethod

ListingSpec == ListingInit /\ [][ListingNext]_allVars

-----------------------------------------------------------------------------
(***************************************************************************)
(* Whatever is set and deleted while a listing is suspended, a consumer    *)
(* that takes all it yields has been given every key of the directory that *)
(* was shown all along (for list_dir, its child of the directory).         *)
(***************************************************************************)
ListsSteadyKeys ==
  Exhausted =>
    \A k \in steady :
      InDirectory(listing.dir, k) /\ (listing.op = "list_dir" => Item(k) # <<"">>)
      => \E i \in DOMAIN listing.yielded : listing.yielded[i] = Item(k)

(***************************************************************************)
(* A listing yields nothing twice, though a key may be deleted and set     *)
(* again behind or ahead of it, and only what the store showed at its      *)
(* beginning: never a hidden member.                                       *)
(***************************************************************************)
YieldsOnce ==
  \A i \in DOMAIN listing.yielded :
    /\ \E k \in began : InDirectory(listing.dir, k) /\ listing.yielded[i] = Item(k)
    /\ \A j \in DOMAIN listing.yielded :
         listing.yielded[i] = listing.yielded[j] => i = j

=============================================================================
