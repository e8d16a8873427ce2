----------------------------- MODULE ChunkIndex -----------------------------
(* Indices of arrays and chunks, as sequences that count from 0, and their *)
(* C order.                                                                *)
EXTENDS Integers, SequencesExt

Product(shape) == FoldLeft(LAMBDA a, b : a * b, 1, shape)

(* cStrides: how far apart neighbours along each dimension are. *)
CStrides(shape) ==
  [d \in DOMAIN shape |-> Product(SubSeq(shape, d + 1, Len(shape)))]

Offset(idx, stride) ==
  FoldLeft(LAMBDA a, d : a + idx[d] * stride[d], 0, [d \in DOMAIN idx |-> d])

(* The index at a position in C order. *)
Unravel(n, shape) ==
  [d \in DOMAIN shape |-> (n \div CStrides(shape)[d]) % shape[d]]

(* Every index of a shape; the place of one among them. *)
Indices(shape) == {Unravel(n, shape) : n \in 0 .. Product(shape) - 1}
Place(idx, shape) == Offset(idx, CStrides(shape)) + 1

=============================================================================
