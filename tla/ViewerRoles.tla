---------------------------- MODULE ViewerRoles ----------------------------
(***************************************************************************)
(* The array viewer of the document browser: two dimensions of the array   *)
(* (X and Y) are drawn as an image, the others are fixed at an index by    *)
(* sliders.  The choice is kept per path, so it outlives the array it was  *)
(* made for when the metadata is edited.  Dimensions count from 0; -1      *)
(* stands for none, as in the code.                                        *)
(***************************************************************************)
EXTENDS Integers, Sequences, FiniteSetsExt

CONSTANT Shape    (* sequences of the extents of the dimensions *)

ASSUME ShapeAssumption == Shape \subseteq Seq(Nat)

VARIABLES
  shape,          (* of the array shown *)
  xDim, yDim,     (* the dimensions drawn *)
  index           (* where each dimension is sliced *)

rolesVars == <<shape, xDim, yDim, index>>

Dims(s)      == 0 .. Len(s) - 1
Dim          == Dims(shape)
Extent(s, d) == s[d + 1]
Smaller(i, j) == IF i <= j THEN i ELSE j

(* No controls are drawn for a scalar or for an array without elements. *)
Interactive == Dim # {} /\ \A d \in Dim : Extent(shape, d) > 0

-----------------------------------------------------------------------------
(* initialViewerState: the last two dimensions, at the origin. *)
InitialState(s) ==
  [x |-> Len(s) - 1, y |-> IF Len(s) >= 2 THEN Len(s) - 2 ELSE -1,
   index |-> [d \in Dims(s) |-> 0]]

Clamped(i, s) == [d \in Dims(s) |-> Smaller(i[d], Extent(s, d) - 1)]

RolesInit ==
  /\ shape \in Shape
  /\ xDim = InitialState(shape).x /\ yDim = InitialState(shape).y
  /\ index = Clamped(InitialState(shape).index, shape)

(* Mutant: the index kept from the array before is not clamped. *)
ShowUnclamped(s) ==
  /\ shape' = s
  /\ IF Len(s) = Len(shape)
     THEN UNCHANGED <<xDim, yDim, index>>
     ELSE /\ xDim' = InitialState(s).x /\ yDim' = InitialState(s).y
          /\ index' = InitialState(s).index

(* The array at the path is read again, its metadata edited in between:    *)
(* the state is kept while the rank is the same, and the index clamped.    *)
Show(s) ==
  /\ shape' = s
  /\ IF Len(s) = Len(shape)
     THEN /\ UNCHANGED <<xDim, yDim>>
          /\ index' = Clamped(index, s)
     ELSE /\ xDim' = InitialState(s).x /\ yDim' = InitialState(s).y
          /\ index' = Clamped(InitialState(s).index, s)

-----------------------------------------------------------------------------
(* The role menu of a dimension. *)

RoleOf(d) == IF xDim = d THEN "X" ELSE IF yDim = d THEN "Y" ELSE "slice"

Choose(d, role) ==
  /\ Interactive
  /\ d \in Dim /\ RoleOf(d) # role
  /\ UNCHANGED <<shape, index>>

ChooseX(d) ==
  /\ Choose(d, "X")
  /\ xDim' = d
  /\ yDim' = IF RoleOf(d) = "Y" THEN xDim ELSE yDim

(* With one dimension the menu has no Y. *)
ChooseY(d) ==
  /\ Choose(d, "Y")
  /\ Len(shape) >= 2
  /\ yDim' = d
  /\ xDim' = IF RoleOf(d) = "X" THEN yDim ELSE xDim

(* Mutant: X may go to the dimension that is Y already. *)
ChooseSliceForXShared(d) ==
  /\ Choose(d, "slice")
  /\ RoleOf(d) = "X"
  /\ xDim' = IF yDim >= 0 THEN yDim ELSE IF d = 0 THEN Smaller(1, Len(shape) - 1) ELSE 0
  /\ UNCHANGED yDim

ChooseSliceForX(d) ==
  /\ Choose(d, "slice")
  /\ RoleOf(d) = "X"
  /\ xDim' = IF yDim >= 0 THEN yDim ELSE IF d = 0 THEN Smaller(1, Len(shape) - 1) ELSE 0
  /\ yDim' = IF yDim = xDim' THEN d ELSE yDim

(* Mutant: no other dimension becomes Y. *)
ChooseSliceForYAlone(d) ==
  /\ Choose(d, "slice")
  /\ RoleOf(d) = "Y"
  /\ yDim' = -1
  /\ UNCHANGED xDim

ChooseSliceForY(d) ==
  /\ Choose(d, "slice")
  /\ RoleOf(d) = "Y"
  /\ yDim' = LET others == Dim \ {xDim, d} IN IF others = {} THEN -1 ELSE Max(others)
  /\ UNCHANGED xDim

(* A slider, which only a sliced dimension of more than one element has. *)
Slide(d, i) ==
  /\ Interactive
  /\ d \in Dim /\ RoleOf(d) = "slice" /\ Extent(shape, d) > 1
  /\ i \in 0 .. Extent(shape, d) - 1
  /\ index' = [index EXCEPT ![d] = i]
  /\ UNCHANGED <<shape, xDim, yDim>>

RolesNext ==
  \/ \E s \in Shape : Show(s)
  \/ \E d \in Dim : ChooseX(d) \/ ChooseY(d) \/ ChooseSliceForX(d) \/ ChooseSliceForY(d)
  \/ \E d \in Dim : \E i \in 0 .. Extent(shape, d) - 1 : Slide(d, i)

RolesSpec == RolesInit /\ [][RolesNext]_rolesVars

-----------------------------------------------------------------------------
(* What is drawn. *)

Product(D) == MapThenFoldSet(LAMBDA m, n : m * n, 1, LAMBDA d : Extent(shape, d),
                             LAMBDA E : CHOOSE d \in E : TRUE, D)
Size == Product(Dim)

Width  == Extent(shape, xDim)
Height == IF yDim >= 0 THEN Extent(shape, yDim) ELSE 1

(* Where the element of a pixel is in the data, which is in C order. *)
Offset(px, py) ==
  MapThenSumSet(LAMBDA d : (IF d = xDim THEN px ELSE IF d = yDim THEN py ELSE index[d])
                           * Product({e \in Dim : e > d}), Dim)

-----------------------------------------------------------------------------
RolesTypeOK ==
  /\ shape \in Shape
  /\ xDim \in Dim \cup {-1} /\ yDim \in Dim \cup {-1}
  /\ index \in [Dim -> Int] /\ \A d \in Dim : index[d] >= -1

(* Whatever roles are chosen, in whatever order and for whatever arrays,   *)
(* X and Y are never the same dimension.                                   *)
RolesDistinct == Dim # {} => xDim # yDim

(* With three dimensions or more the image always has two of them; only    *)
(* with two can a dimension be lost to "slice".                            *)
PlaneOfThreeUp == Len(shape) > 2 => xDim \in Dim /\ yDim \in Dim

(* An array that shrinks under the saved state is never sliced past its    *)
(* end.                                                                    *)
NeverPastEnd == \A d \in Dim : index[d] < Extent(shape, d)

(* viewer.ts: "pick two dimensions to display as an image plane";          *)
(* docs/browser.md: the display "prints each element's exact value".  X,   *)
(* which every drawing reads, is a dimension, and every pixel an element.  *)
PixelsAreElements ==
  Interactive =>
    /\ xDim \in Dim
    /\ \A px \in 0 .. Width - 1, py \in 0 .. Height - 1 : Offset(px, py) \in 0 .. Size - 1

=============================================================================
