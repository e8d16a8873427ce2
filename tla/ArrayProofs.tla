---------------------------- MODULE ArrayProofs ----------------------------
(***************************************************************************)
(* Proofs about arrays: that the trace harness implements the contract of  *)
(* ArrayTrace, and that chunkElements gathers in C order, for arrays,      *)
(* chunks and regions of every shape and rank.  Both rest on what is       *)
(* proved first of products, strides and places in C order, by induction   *)
(* on the dimensions.                                                      *)
(***************************************************************************)
EXTENDS Crosscheck, ChunkWalk, SequenceTheorems, WellFoundedInduction, TLAPS

-----------------------------------------------------------------------------
(* Folds over the places of a sequence. *)

(* A set of numbers with 0, and with every number the next, has them all.  *)
LEMMA EveryNumber ==
  ASSUME NEW S \in SUBSET Nat, 0 \in S, \A n \in S : n + 1 \in S
  PROVE  S = Nat
<1> SUFFICES ASSUME Nat \ S # {} PROVE FALSE
  OBVIOUS
<1> DEFINE R == OpToRel(<, Nat)
<1>1. \E x \in Nat \ S : \A y \in Nat \ S : ~ (<<y, x>> \in R)
  <2>1. IsWellFoundedOn(R, Nat)
    BY NatLessThanWellFounded
  <2> HIDE DEF R
  <2>2. QED
    BY <2>1, WFMin
<1>2. PICK x \in Nat \ S : \A y \in Nat \ S : ~(y < x)
  BY <1>1 DEF OpToRel
<1>3. x - 1 \in Nat /\ x - 1 \in S
  BY <1>2
<1>4. QED
  BY <1>2, <1>3

(* The value of a fold on a set of places, given those on smaller sets: h  *)
(* takes what is left and the largest place.                               *)
Folded(h, b, f, s) == IF s = {} THEN b ELSE h[<<f[s \ {Max(s)}], Max(s)>>]

(* The folds on the places up to n, with values in T. *)
FoldOn(T, h, b, n) ==
  {f \in [SUBSET (1 .. n) -> T] : \A s \in SUBSET (1 .. n) : f[s] = Folded(h, b, f, s)}

(* The place past all others of a set is the largest. *)
LEMMA LargestPlace ==
  ASSUME NEW k \in Nat, NEW s \in SUBSET (1 .. k + 1), k + 1 \in s
  PROVE  Max(s) = k + 1 /\ s \ {k + 1} \in SUBSET (1 .. k)
<1>1. \A y \in s : k + 1 >= y
  OBVIOUS
<1>2. Max(s) \in s /\ \A y \in s : Max(s) >= y
  BY <1>1 DEF Max
<1>3. Max(s) >= k + 1 /\ Max(s) \in 1 .. k + 1
  BY <1>2
<1>4. QED
  BY <1>3

(* There is such a fold, by induction on the number of places. *)
LEMMA FoldExists ==
  ASSUME NEW T, NEW b \in T, NEW h \in [T \X (Nat \ {0}) -> T]
  PROVE  \A n \in Nat : FoldOn(T, h, b, n) # {}
<1> DEFINE Fold(f, n) == f \in [SUBSET (1 .. n) -> T] /\ \A s \in SUBSET (1 .. n) : f[s] = Folded(h, b, f, s)
<1> DEFINE S == {n \in Nat : \E f : Fold(f, n)}
<1>1. 0 \in S
  <2>1. Fold([s \in SUBSET (1 .. 0) |-> b], 0)
    BY DEF Folded
  <2>2. QED
    BY <2>1
<1>2. ASSUME NEW k \in S PROVE k + 1 \in S
  <2>1. PICK f : Fold(f, k)
    BY <1>2
  <2> DEFINE g == [s \in SUBSET (1 .. k + 1) |->
                    IF k + 1 \in s THEN h[<<f[s \ {k + 1}], k + 1>>] ELSE f[s]]
  <2>2. \A s \in SUBSET (1 .. k + 1) : k + 1 \notin s => s \in SUBSET (1 .. k)
    <3>1. \A i \in 1 .. k + 1 : i # k + 1 => i \in 1 .. k
      BY <1>2
    <3>2. QED
      BY <3>1
  <2>3. g \in [SUBSET (1 .. k + 1) -> T]
    <3>1. ASSUME NEW s \in SUBSET (1 .. k + 1) PROVE g[s] \in T
      <4>1. CASE k + 1 \in s
        <5>1. f[s \ {k + 1}] \in T /\ k + 1 \in Nat \ {0}
          BY <4>1, <2>1, <1>2, LargestPlace
        <5>2. QED
          BY <5>1, <4>1
      <4>2. CASE k + 1 \notin s
        BY <4>2, <2>1, <2>2
      <4>3. QED
        BY <4>1, <4>2
    <3>2. QED
      BY <3>1
  <2>4. ASSUME NEW s \in SUBSET (1 .. k + 1) PROVE g[s] = Folded(h, b, g, s)
    <3>1. CASE k + 1 \in s
      <4>1. Max(s) = k + 1 /\ s \ {k + 1} \in SUBSET (1 .. k) /\ s # {}
        BY <3>1, <1>2, LargestPlace
      <4>2. g[s \ {k + 1}] = f[s \ {k + 1}]
        OBVIOUS
      <4>3. g[s] = h[<<f[s \ {k + 1}], k + 1>>]
        BY <3>1
      <4> HIDE DEF g
      <4>4. QED
        BY <4>1, <4>2, <4>3 DEF Folded
    <3>2. CASE k + 1 \notin s
      <4>1. s \in SUBSET (1 .. k)
        BY <3>2, <2>2
      <4>2. g[s] = f[s]
        BY <3>2
      <4>3. g[s \ {Max(s)}] = f[s \ {Max(s)}]
        BY <3>2
      <4>4. f[s] = Folded(h, b, f, s)
        BY <4>1, <2>1
      <4> HIDE DEF g
      <4>5. QED
        BY <4>2, <4>3, <4>4 DEF Folded
    <3>3. QED
      BY <3>1, <3>2
  <2>5. Fold(g, k + 1)
    BY <2>3, <2>4
  <2> HIDE DEF Fold, g
  <2>6. QED
    BY <2>5, <1>2
<1>3. S = Nat
  <2>1. S \in SUBSET Nat
    OBVIOUS
  <2> HIDE DEF S
  <2>2. QED
    BY <1>1, <1>2, <2>1, EveryNumber
<1>4. QED
  BY <1>3 DEF FoldOn

(* The places up to k, without the largest. *)
LEMMA FrontPlaces ==
  ASSUME NEW n \in Nat, NEW k \in 1 .. n
  PROVE  /\ 1 .. k \in SUBSET (1 .. n) /\ 1 .. k # {}
         /\ Max(1 .. k) = k /\ (1 .. k) \ {k} = 1 .. k - 1
<1>1. /\ 1 .. k \in SUBSET (1 .. n) /\ k \in 1 .. k
      /\ k - 1 \in Nat /\ (k - 1) + 1 = k /\ (1 .. k) \ {k} = 1 .. k - 1
  OBVIOUS
<1>2. Max(1 .. k) = k
  <2>1. 1 .. k \in SUBSET (1 .. (k - 1) + 1) /\ (k - 1) + 1 \in 1 .. k
    BY <1>1
  <2>2. Max(1 .. k) = (k - 1) + 1
    BY <1>1, <2>1, LargestPlace
  <2>3. QED
    BY <1>1, <2>2
<1>3. QED
  BY <1>1, <1>2

(* A place of those up to n that no other is past. *)
Largest(m, s, n) == m \in s /\ m \in 1 .. n /\ \A y \in s : y <= m

(* Of places, some is the largest. *)
LEMMA LargestOfPlaces ==
  \A n \in Nat : \A s \in SUBSET (1 .. n) : s # {} => Largest(Max(s), s, n)
<1> DEFINE S == {n \in Nat : \A s \in SUBSET (1 .. n) : s # {} => Largest(Max(s), s, n)}
<1>1. 0 \in S
  <2>1. 1 .. 0 = {} /\ 0 \in Nat
    OBVIOUS
  <2>2. \A s \in SUBSET (1 .. 0) : s = {}
    BY <2>1
  <2>3. QED
    BY <2>1, <2>2
<1>2. ASSUME NEW k \in S PROVE k + 1 \in S
  <2>1. ASSUME NEW s \in SUBSET (1 .. k + 1), s # {} PROVE Largest(Max(s), s, k + 1)
    <3>1. CASE k + 1 \in s
      BY <3>1, <1>2, LargestPlace DEF Largest
    <3>2. CASE k + 1 \notin s
      <4>1. \A i \in 1 .. k + 1 : i # k + 1 => i \in 1 .. k
        BY <1>2
      <4>2. s \in SUBSET (1 .. k)
        BY <3>2, <4>1
      <4>3. Largest(Max(s), s, k)
        BY <4>2, <2>1, <1>2
      <4>4. QED
        BY <4>3 DEF Largest
    <3>3. QED
      BY <3>1, <3>2
  <2>2. QED
    BY <2>1, <1>2
<1>3. S = Nat
  <2>1. S \in SUBSET Nat
    OBVIOUS
  <2> HIDE DEF S
  <2>2. QED
    BY <1>1, <1>2, <2>1, EveryNumber
<1>4. QED
  BY <1>3

-----------------------------------------------------------------------------
(* Products of shapes, and strides. *)

(* The product of a shape grows place by place: P has those of its fronts. *)
Multiplies(P, shape) ==
  /\ P[0] = 1
  /\ \A k \in 1 .. Len(shape) : P[k] = P[k - 1] * shape[k]

(* Every shape has such products, the last of them its own. *)
LEMMA ProductByPlace ==
  ASSUME NEW shape \in Seq(Nat)
  PROVE  \E P \in [0 .. Len(shape) -> Nat] :
           Multiplies(P, shape) /\ Product(shape) = P[Len(shape)]
<1> DEFINE n == Len(shape)
           h == [p \in Nat \X (Nat \ {0}) |-> IF p[2] \in 1 .. n THEN p[1] * shape[p[2]] ELSE 0]
           Step(g, s) == IF s = {} THEN 1 ELSE g[s \ {Max(s)}] * shape[Max(s)]
           fold == CHOOSE g : g = [s \in SUBSET (DOMAIN shape) |-> Step(g, s)]
<1>1. Product(shape) = fold[DOMAIN shape]
  BY DEF Product, FoldLeft, MapThenFoldSet
<1>2. n \in Nat /\ DOMAIN shape = 1 .. n
  OBVIOUS
<1>3. h \in [Nat \X (Nat \ {0}) -> Nat]
  OBVIOUS
<1>4. \A g \in [SUBSET (1 .. n) -> Nat] : \A s \in SUBSET (1 .. n) : Folded(h, 1, g, s) = Step(g, s)
  <2>1. TAKE g \in [SUBSET (1 .. n) -> Nat]
  <2>2. TAKE s \in SUBSET (1 .. n)
  <2>3. CASE s = {}
    BY <2>3 DEF Folded
  <2>4. CASE s # {}
    <3>1. Max(s) \in 1 .. n /\ Max(s) \in Nat \ {0}
      BY <2>4, <1>2, LargestOfPlaces DEF Largest
    <3>2. s \ {Max(s)} \in SUBSET (1 .. n)
      OBVIOUS
    <3>3. g[s \ {Max(s)}] \in Nat
      BY <3>2
    <3>4. h[<<g[s \ {Max(s)}], Max(s)>>] = g[s \ {Max(s)}] * shape[Max(s)]
      BY <3>1, <3>3
    <3>5. QED
      BY <2>4, <3>4 DEF Folded
  <2>5. QED
    BY <2>3, <2>4
<1>5. \A m \in Nat : FoldOn(Nat, h, 1, m) # {}
  <2> HIDE DEF h
  <2>1. 1 \in Nat
    OBVIOUS
  <2>2. QED
    BY <1>3, <2>1, FoldExists
<1> HIDE DEF h
<1>6. \E f \in [SUBSET (1 .. n) -> Nat] : \A s \in SUBSET (1 .. n) : f[s] = Step(f, s)
  <2>1. PICK f \in [SUBSET (1 .. n) -> Nat] : \A s \in SUBSET (1 .. n) : f[s] = Folded(h, 1, f, s)
    BY <1>2, <1>5 DEF FoldOn
  <2> HIDE DEF Step
  <2>2. QED
    BY <2>1, <1>4
<1>7. fold = [s \in SUBSET (DOMAIN shape) |-> Step(fold, s)]
  <2>1. PICK f \in [SUBSET (1 .. n) -> Nat] : \A s \in SUBSET (1 .. n) : f[s] = Step(f, s)
    BY <1>6
  <2> HIDE DEF Step
  <2>2. f = [s \in SUBSET (DOMAIN shape) |-> Step(f, s)]
    BY <1>2, <2>1
  <2>3. QED
    BY <2>2
<1> DEFINE P == [k \in 0 .. n |-> fold[1 .. k]]
<1>8. P[0] = 1
  <2>1. 1 .. 0 = {} /\ 0 \in 0 .. n /\ {} \in SUBSET (1 .. n)
    BY <1>2
  <2>2. fold[{}] = 1
    <3> HIDE DEF fold
    <3>1. fold[{}] = Step(fold, {})
      BY <2>1, <1>2, <1>7
    <3>2. QED
      BY <3>1
  <2> HIDE DEF fold
  <2>3. QED
    BY <2>1, <2>2
<1>9. ASSUME NEW k \in 1 .. n PROVE P[k] = P[k - 1] * shape[k]
  <2> HIDE DEF fold
  <2>1. /\ 1 .. k \in SUBSET (1 .. n) /\ 1 .. k # {}
        /\ Max(1 .. k) = k /\ (1 .. k) \ {k} = 1 .. k - 1
    BY <1>2, FrontPlaces
  <2>2. fold[1 .. k] = Step(fold, 1 .. k)
    BY <2>1, <1>2, <1>7
  <2>3. Step(fold, 1 .. k) = fold[1 .. k - 1] * shape[k]
    BY <2>1
  <2>4. k \in 0 .. n /\ k - 1 \in 0 .. n
    BY <1>2
  <2>5. QED
    BY <2>2, <2>3, <2>4
<1> HIDE DEF P
<1>10. \A k \in 0 .. n : P[k] \in Nat
  <2> DEFINE S == {k \in Nat : k \in 0 .. n => P[k] \in Nat}
  <2>1. 0 \in S
    BY <1>8
  <2>2. ASSUME NEW k \in S PROVE k + 1 \in S
    <3>1. ASSUME k + 1 \in 0 .. n PROVE P[k + 1] \in Nat
      <4>1. k + 1 \in 1 .. n /\ k \in 0 .. n /\ (k + 1) - 1 = k
        BY <3>1, <2>2
      <4>2. P[k] \in Nat /\ shape[k + 1] \in Nat
        BY <4>1, <2>2
      <4>3. P[k + 1] = P[k] * shape[k + 1]
        BY <4>1, <1>9
      <4>4. QED
        BY <4>2, <4>3
    <3>2. QED
      BY <3>1, <2>2
  <2>3. S = Nat
    <3>1. S \in SUBSET Nat
      OBVIOUS
    <3> HIDE DEF S
    <3>2. QED
      BY <2>1, <2>2, <3>1, EveryNumber
  <2>4. QED
    BY <2>3
<1>11. P \in [0 .. n -> Nat]
  BY <1>10 DEF P
<1>12. Multiplies(P, shape)
  BY <1>8, <1>9 DEF Multiplies
<1>13. Product(shape) = P[n]
  <2> HIDE DEF fold
  <2>1. n \in 0 .. n
    BY <1>2
  <2>2. QED
    BY <2>1, <1>1, <1>2 DEF P
<1>14. QED
  BY <1>11, <1>12, <1>13

(* A shape with one extent in front of another shape. *)
LEMMA ProductOfLonger ==
  ASSUME NEW s \in Seq(Nat), NEW t \in Seq(Nat), Len(t) = Len(s) + 1,
         \A k \in 1 .. Len(s) : t[k + 1] = s[k]
  PROVE  Product(t) = t[1] * Product(s) /\ Product(s) \in Nat
<1>1. PICK P \in [0 .. Len(s) -> Nat] : Multiplies(P, s) /\ Product(s) = P[Len(s)]
  BY ProductByPlace
<1>2. PICK Q \in [0 .. Len(t) -> Nat] : Multiplies(Q, t) /\ Product(t) = Q[Len(t)]
  BY ProductByPlace
<1>3. Len(s) \in Nat /\ 1 \in 1 .. Len(t) /\ t[1] \in Nat
  OBVIOUS
<1> DEFINE S == {k \in Nat : k \in 0 .. Len(s) => Q[k + 1] = t[1] * P[k]}
<1>4. 0 \in S
  <2>1. Q[1] = Q[0] * t[1] /\ Q[0] = 1 /\ P[0] = 1
    BY <1>1, <1>2, <1>3 DEF Multiplies
  <2>2. Q[0 + 1] = t[1] * P[0]
    BY <2>1, <1>3
  <2>3. QED
    BY <2>2
<1>5. ASSUME NEW k \in S PROVE k + 1 \in S
  <2>1. ASSUME k + 1 \in 0 .. Len(s) PROVE Q[(k + 1) + 1] = t[1] * P[k + 1]
    <3>1. /\ k \in 0 .. Len(s) /\ k + 1 \in 1 .. Len(s) /\ (k + 1) - 1 = k
          /\ (k + 1) + 1 \in 1 .. Len(t) /\ ((k + 1) + 1) - 1 = k + 1
      BY <2>1, <1>5, <1>3
    <3>2. P[k + 1] = P[k] * s[k + 1] /\ P[k] \in Nat /\ s[k + 1] \in Nat
      <4>1. P[k + 1] = P[k] * s[k + 1]
        BY <3>1, <1>1 DEF Multiplies
      <4>2. P[k] \in Nat
        BY <3>1, <1>1
      <4>3. s[k + 1] \in Nat
        BY <3>1, ElementOfSeq
      <4>4. QED
        BY <4>1, <4>2, <4>3
    <3>3. Q[(k + 1) + 1] = Q[k + 1] * t[(k + 1) + 1] /\ t[(k + 1) + 1] = s[k + 1]
      BY <3>1, <1>2 DEF Multiplies
    <3>4. Q[k + 1] = t[1] * P[k]
      BY <3>1, <1>5
    <3>5. \A a, b, c \in Nat : (a * b) * c = a * (b * c)
      OBVIOUS
    <3>6. QED
      BY <3>2, <3>3, <3>4, <3>5, <1>3
  <2>2. QED
    BY <2>1, <1>5
<1>6. S = Nat
  <2>1. S \in SUBSET Nat
    OBVIOUS
  <2> HIDE DEF S
  <2>2. QED
    BY <1>4, <1>5, <2>1, EveryNumber
<1>7. Q[Len(s) + 1] = t[1] * P[Len(s)]
  <2>1. Len(s) \in 0 .. Len(s)
    BY <1>3
  <2>2. Len(s) \in S
    <3> HIDE DEF S
    <3>1. QED
      BY <1>3, <1>6
  <2>3. QED
    BY <2>1, <2>2
<1>8. Product(t) = Q[Len(s) + 1] /\ Product(s) = P[Len(s)]
  BY <1>1, <1>2
<1>9. P[Len(s)] \in Nat
  BY <1>3
<1>10. QED
  BY <1>7, <1>8, <1>9

(* What is left of a shape past a dimension: how far apart its neighbours  *)
(* are.                                                                    *)
Past(shape, d) == Product(SubSeq(shape, d + 1, Len(shape)))

(* Each stride is the next times the extent there. *)
LEMMA StrideByDimension ==
  ASSUME NEW shape \in Seq(Nat)
  PROVE  /\ \A d \in 0 .. Len(shape) : Past(shape, d) \in Nat
         /\ Past(shape, Len(shape)) = 1 /\ Past(shape, 0) = Product(shape)
         /\ \A d \in 1 .. Len(shape) : Past(shape, d - 1) = shape[d] * Past(shape, d)
<1> DEFINE n == Len(shape)
           rest(d) == SubSeq(shape, d + 1, n)
<1>1. n \in Nat /\ \A d \in 1 .. n : shape[d] \in Nat
  OBVIOUS
<1>2. ASSUME NEW d \in 0 .. n
      PROVE  rest(d) \in Seq(Nat) /\ Len(rest(d)) = n - d /\ \A k \in 1 .. n - d : rest(d)[k] = shape[d + k]
  <2>1. d + 1 \in 1 .. n + 1 /\ n \in (d + 1) - 1 .. n /\ d \in Nat
    BY <1>1
  <2>2. /\ rest(d) \in Seq(Nat)
        /\ Len(rest(d)) = IF d + 1 <= n THEN n - (d + 1) + 1 ELSE 0
        /\ \A i \in 1 .. n - (d + 1) + 1 : rest(d)[i] = shape[(d + 1) + i - 1]
    BY <2>1, SubSeqProperties
  <2>3. Len(rest(d)) = n - d
    BY <2>1, <2>2, <1>1
  <2>4. ASSUME NEW k \in 1 .. n - d PROVE rest(d)[k] = shape[d + k]
    <3>1. k \in 1 .. n - (d + 1) + 1 /\ (d + 1) + k - 1 = d + k
      BY <2>1, <1>1
    <3>2. QED
      BY <3>1, <2>2
  <2>5. QED
    BY <2>2, <2>3, <2>4
<1>3. ASSUME NEW s \in Seq(Nat) PROVE Product(s) \in Nat /\ (Len(s) = 0 => Product(s) = 1)
  <2>1. PICK P \in [0 .. Len(s) -> Nat] : Multiplies(P, s) /\ Product(s) = P[Len(s)]
    BY ProductByPlace
  <2>2. Len(s) \in 0 .. Len(s)
    OBVIOUS
  <2>3. QED
    BY <2>1, <2>2 DEF Multiplies
<1>4. ASSUME NEW d \in 1 .. n PROVE Product(rest(d - 1)) = shape[d] * Product(rest(d))
  <2>1. d - 1 \in 0 .. n /\ d \in 0 .. n
    BY <1>1
  <2>2. rest(d) \in Seq(Nat) /\ Len(rest(d)) = n - d /\ \A k \in 1 .. n - d : rest(d)[k] = shape[d + k]
    BY <2>1, <1>2
  <2>3. /\ rest(d - 1) \in Seq(Nat) /\ Len(rest(d - 1)) = n - (d - 1)
        /\ \A k \in 1 .. n - (d - 1) : rest(d - 1)[k] = shape[(d - 1) + k]
    BY <2>1, <1>2
  <2> HIDE DEF rest
  <2>4. Len(rest(d - 1)) = Len(rest(d)) + 1
    BY <2>2, <2>3, <1>1
  <2>5. ASSUME NEW k \in 1 .. Len(rest(d)) PROVE rest(d - 1)[k + 1] = rest(d)[k]
    <3>1. k \in 1 .. n - d /\ k + 1 \in 1 .. n - (d - 1) /\ (d - 1) + (k + 1) = d + k
      BY <2>2, <1>1
    <3>2. rest(d)[k] = shape[d + k]
      BY <3>1, <2>2
    <3>3. rest(d - 1)[k + 1] = shape[(d - 1) + (k + 1)]
      BY <3>1, <2>3
    <3>4. QED
      BY <3>1, <3>2, <3>3
  <2>6. Product(rest(d - 1)) = rest(d - 1)[1] * Product(rest(d))
    BY <2>2, <2>3, <2>4, <2>5, ProductOfLonger
  <2>7. rest(d - 1)[1] = shape[d]
    <3>1. 1 \in 1 .. n - (d - 1) /\ (d - 1) + 1 = d
      BY <1>1
    <3>2. QED
      BY <3>1, <2>3
  <2>8. QED
    BY <2>6, <2>7
<1>5. rest(0) = shape
  OBVIOUS
<1>6. Past(shape, n) = 1
  <2>1. rest(n) \in Seq(Nat) /\ Len(rest(n)) = 0
    <3>1. n \in 0 .. n /\ n - n = 0
      BY <1>1
    <3>2. QED
      BY <3>1, <1>2
  <2> HIDE DEF rest
  <2>2. Product(rest(n)) = 1
    BY <2>1, <1>3
  <2>3. QED
    BY <2>2 DEF Past, rest
<1>7. \A d \in 0 .. n : Past(shape, d) \in Nat
  <2> TAKE d \in 0 .. n
  <2>1. rest(d) \in Seq(Nat)
    BY <1>2
  <2> HIDE DEF rest
  <2>2. Product(rest(d)) \in Nat
    BY <2>1, <1>3
  <2>3. QED
    BY <2>2 DEF Past, rest
<1>8. \A d \in 1 .. n : Past(shape, d - 1) = shape[d] * Past(shape, d)
  BY <1>4 DEF Past
<1>9. Past(shape, 0) = Product(shape)
  BY <1>5 DEF Past
<1>10. QED
  BY <1>6, <1>7, <1>8, <1>9

(* An offset grows place by place: O has those of the fronts. *)
Sums(O, idx, stride) ==
  /\ O[0] = 0
  /\ \A k \in 1 .. Len(idx) : O[k] = O[k - 1] + idx[k] * stride[k]

(* Every index has such offsets, the last of them its own. *)
LEMMA OffsetByPlace ==
  ASSUME NEW idx \in Seq(Nat), NEW stride \in Seq(Nat), Len(stride) = Len(idx)
  PROVE  \E O \in [0 .. Len(idx) -> Nat] :
           Sums(O, idx, stride) /\ Offset(idx, stride) = O[Len(idx)]
<1> DEFINE n == Len(idx)
           h == [p \in Nat \X (Nat \ {0}) |-> IF p[2] \in 1 .. n THEN p[1] + idx[p[2]] * stride[p[2]] ELSE 0]
           Step(g, s) == IF s = {} THEN 0 ELSE g[s \ {Max(s)}] + idx[Max(s)] * stride[Max(s)]
           place == [d \in DOMAIN idx |-> d]
           Raw(g, s) == IF s = {} THEN 0
                        ELSE g[s \ {Max(s)}] + idx[place[Max(s)]] * stride[place[Max(s)]]
           fold == CHOOSE g : g = [s \in SUBSET (DOMAIN place) |-> Raw(g, s)]
<1>1. Offset(idx, stride) = fold[DOMAIN idx]
  <2>1. Offset(idx, stride) = fold[DOMAIN place]
    BY DEF Offset, FoldLeft, MapThenFoldSet
  <2>2. DOMAIN place = DOMAIN idx
    OBVIOUS
  <2> HIDE DEF fold, place
  <2>3. QED
    BY <2>1, <2>2
<1>2. n \in Nat /\ DOMAIN idx = 1 .. n
  OBVIOUS
<1>3. h \in [Nat \X (Nat \ {0}) -> Nat]
  <2>1. ASSUME NEW p \in Nat \X (Nat \ {0}) PROVE h[p] \in Nat
    <3>1. CASE p[2] \in 1 .. n
      <4>1. p[1] \in Nat /\ idx[p[2]] \in Nat /\ stride[p[2]] \in Nat
        BY <3>1, <1>2, ElementOfSeq
      <4>2. \A a, b, c \in Nat : a + b * c \in Nat
        OBVIOUS
      <4>3. p[1] + idx[p[2]] * stride[p[2]] \in Nat
        BY <4>1, <4>2
      <4>4. QED
        BY <3>1, <4>3
    <3>2. CASE p[2] \notin 1 .. n
      BY <3>2
    <3>3. QED
      BY <3>1, <3>2
  <2>2. QED
    BY <2>1
<1>4. \A g \in [SUBSET (1 .. n) -> Nat] : \A s \in SUBSET (1 .. n) : Folded(h, 0, g, s) = Step(g, s)
  <2>1. TAKE g \in [SUBSET (1 .. n) -> Nat]
  <2>2. TAKE s \in SUBSET (1 .. n)
  <2>3. CASE s = {}
    BY <2>3 DEF Folded
  <2>4. CASE s # {}
    <3>1. Max(s) \in 1 .. n /\ Max(s) \in Nat \ {0}
      BY <2>4, <1>2, LargestOfPlaces DEF Largest
    <3>2. s \ {Max(s)} \in SUBSET (1 .. n)
      OBVIOUS
    <3>3. g[s \ {Max(s)}] \in Nat
      BY <3>2
    <3>4. h[<<g[s \ {Max(s)}], Max(s)>>] = g[s \ {Max(s)}] + idx[Max(s)] * stride[Max(s)]
      BY <3>1, <3>3
    <3>5. QED
      BY <2>4, <3>4 DEF Folded
  <2>5. QED
    BY <2>3, <2>4
<1>5. \A m \in Nat : FoldOn(Nat, h, 0, m) # {}
  <2> HIDE DEF h
  <2>1. 0 \in Nat
    OBVIOUS
  <2>2. QED
    BY <1>3, <2>1, FoldExists
<1> HIDE DEF h
<1>6. \E f \in [SUBSET (1 .. n) -> Nat] : \A s \in SUBSET (1 .. n) : f[s] = Step(f, s)
  <2>1. PICK f \in [SUBSET (1 .. n) -> Nat] : \A s \in SUBSET (1 .. n) : f[s] = Folded(h, 0, f, s)
    BY <1>2, <1>5 DEF FoldOn
  <2> HIDE DEF Step
  <2>2. QED
    BY <2>1, <1>4
<1>7. fold = [s \in SUBSET (DOMAIN idx) |-> Step(fold, s)]
  <2>0. \A g : \A s \in SUBSET (1 .. n) : Raw(g, s) = Step(g, s)
    <3>1. \A s \in SUBSET (1 .. n) : s # {} => Max(s) \in 1 .. n
      BY <1>2, LargestOfPlaces DEF Largest
    <3>2. \A d \in 1 .. n : place[d] = d
      BY <1>2
    <3> HIDE DEF place
    <3>3. QED
      BY <3>1, <3>2
  <2>1. PICK f \in [SUBSET (1 .. n) -> Nat] : \A s \in SUBSET (1 .. n) : f[s] = Step(f, s)
    BY <1>6
  <2>2. DOMAIN place = 1 .. n
    BY <1>2
  <2> HIDE DEF Step, Raw, place
  <2>3. f = [s \in SUBSET (DOMAIN place) |-> Raw(f, s)]
    BY <2>0, <2>1, <2>2
  <2>4. fold = [s \in SUBSET (DOMAIN place) |-> Raw(fold, s)]
    BY <2>3
  <2> HIDE DEF fold
  <2>5. QED
    BY <2>0, <2>2, <2>4, <1>2
<1> HIDE DEF Raw, place
<1> DEFINE O == [k \in 0 .. n |-> fold[1 .. k]]
<1>8. O[0] = 0
  <2>1. 1 .. 0 = {} /\ 0 \in 0 .. n /\ {} \in SUBSET (1 .. n)
    BY <1>2
  <2>2. fold[{}] = 0
    <3> HIDE DEF fold
    <3>1. fold[{}] = Step(fold, {})
      BY <2>1, <1>2, <1>7
    <3>2. QED
      BY <3>1
  <2> HIDE DEF fold
  <2>3. QED
    BY <2>1, <2>2
<1>9. ASSUME NEW k \in 1 .. n PROVE O[k] = O[k - 1] + idx[k] * stride[k]
  <2> HIDE DEF fold
  <2>1. /\ 1 .. k \in SUBSET (1 .. n) /\ 1 .. k # {}
        /\ Max(1 .. k) = k /\ (1 .. k) \ {k} = 1 .. k - 1
    BY <1>2, FrontPlaces
  <2>2. fold[1 .. k] = Step(fold, 1 .. k)
    BY <2>1, <1>2, <1>7
  <2>3. Step(fold, 1 .. k) = fold[1 .. k - 1] + idx[k] * stride[k]
    BY <2>1
  <2>4. k \in 0 .. n /\ k - 1 \in 0 .. n
    BY <1>2
  <2>5. QED
    BY <2>2, <2>3, <2>4
<1> HIDE DEF O
<1>10. \A k \in 0 .. n : O[k] \in Nat
  <2> DEFINE S == {k \in Nat : k \in 0 .. n => O[k] \in Nat}
  <2>1. 0 \in S
    BY <1>8
  <2>2. ASSUME NEW k \in S PROVE k + 1 \in S
    <3>1. ASSUME k + 1 \in 0 .. n PROVE O[k + 1] \in Nat
      <4>1. k + 1 \in 1 .. n /\ k \in 0 .. n /\ (k + 1) - 1 = k
        BY <3>1, <2>2
      <4>2. O[k] \in Nat /\ idx[k + 1] * stride[k + 1] \in Nat
        BY <4>1, <2>2
      <4>3. O[k + 1] = O[k] + idx[k + 1] * stride[k + 1]
        BY <4>1, <1>9
      <4>4. QED
        BY <4>2, <4>3
    <3>2. QED
      BY <3>1, <2>2
  <2>3. S = Nat
    <3>1. S \in SUBSET Nat
      OBVIOUS
    <3> HIDE DEF S
    <3>2. QED
      BY <2>1, <2>2, <3>1, EveryNumber
  <2>4. QED
    BY <2>3
<1>11. O \in [0 .. n -> Nat]
  BY <1>10 DEF O
<1>12. Sums(O, idx, stride)
  BY <1>8, <1>9 DEF Sums
<1>13. Offset(idx, stride) = O[n]
  <2> HIDE DEF fold
  <2>1. n \in 0 .. n
    BY <1>2
  <2>2. QED
    BY <2>1, <1>1, <1>2 DEF O
<1>14. QED
  BY <1>11, <1>12, <1>13

-----------------------------------------------------------------------------
(* Places and indices. *)

(* Arithmetic of products. *)
LEMMA Multiples ==
  ASSUME NEW a \in Int, NEW s \in Nat
  PROVE  (a >= 1 => a * s >= s) /\ (a <= -1 => a * s <= -s)
OBVIOUS

(* Of a difference. *)
LEMMA Difference ==
  ASSUME NEW a \in Int, NEW b \in Int, NEW s \in Int
  PROVE  (a - b) * s = a * s - b * s /\ (a - b) * s \in Int /\ a * s \in Int /\ b * s \in Int
OBVIOUS

(* One times more than a smaller factor stays below the larger. *)
LEMMA OneMore ==
  ASSUME NEW a \in Nat, NEW b \in Nat, NEW s \in Nat, a + 1 <= b
  PROVE  a * s + s <= b * s /\ a * s \in Nat /\ b * s \in Nat
<1>1. (b - (a + 1)) * s >= 0 /\ (b - (a + 1)) * s = b * s - (a + 1) * s /\ (a + 1) * s = a * s + s
  <2>1. b - (a + 1) \in Nat
    OBVIOUS
  <2>2. \A c \in Nat : c * s \in Nat
    OBVIOUS
  <2>3. QED
    BY <2>1, <2>2
<1>2. a * s \in Nat /\ b * s \in Nat /\ (a + 1) * s \in Nat
  OBVIOUS
<1>3. QED
  BY <1>1, <1>2

(* A multiple of a product, and one of a factor of it. *)
Regroups(a, b, c, e) == a * (b * c) + e * c = (a * b + e) * c /\ a * b + e \in Nat

(* It holds of all numbers. *)
LEMMA Regrouped ==
  ASSUME NEW a \in Nat, NEW b \in Nat, NEW c \in Nat, NEW e \in Nat
  PROVE  Regroups(a, b, c, e)
BY DEF Regroups

(* The quotient and the rest of a number by another are the only ones. *)
LEMMA QuotientAndRest ==
  ASSUME NEW q \in Nat, NEW s \in Nat \ {0}, NEW r \in 0 .. s - 1
  PROVE  (q * s + r) \div s = q /\ (q * s + r) % s = r
<1> DEFINE a == q * s  x == a + r  p == x \div s  b == p * s  m == x % s  c == (p - q) * s
<1>1. a \in Nat
  OBVIOUS
<1>2. p \in Int /\ x = s * p + m /\ m \in 0 .. s - 1
  <2>1. x \in Nat
    BY <1>1
  <2>2. \A y \in Nat : y \div s \in Int /\ y = s * (y \div s) + (y % s) /\ y % s \in 0 .. s - 1
    OBVIOUS
  <2> HIDE DEF x
  <2>3. QED
    BY <2>1, <2>2
<1> HIDE DEF p, m
<1>3. s * p = b /\ c = b - a /\ b \in Int
  <2>1. s * p = p * s /\ q \in Int /\ s \in Int
    BY <1>2
  <2>2. QED
    BY <2>1, <1>2, Difference
<1>4. p = q
  <2>1. c = r - m
    <3> HIDE DEF a, b, c
    <3>1. QED
      BY <1>1, <1>2, <1>3
  <2>2. p - q \in Int /\ s \in Nat
    BY <1>2
  <2>3. (p - q >= 1 => c >= s) /\ (p - q <= -1 => c <= -s)
    BY <2>2, Multiples
  <2> HIDE DEF c
  <2>4. ~(p - q >= 1) /\ ~(p - q <= -1)
    BY <2>1, <2>3, <1>2
  <2>5. QED
    BY <2>4, <1>2
<1>5. m = r
  <2>1. b = a
    BY <1>4
  <2> HIDE DEF a, b, c
  <2>2. QED
    BY <2>1, <1>1, <1>2, <1>3
<1>6. QED
  BY <1>4, <1>5 DEF p, m

(* An index of a shape has a value within the extent of each dimension. *)
InRange(idx, shape) ==
  /\ idx \in Seq(Nat) /\ Len(idx) = Len(shape)
  /\ \A d \in 1 .. Len(shape) : idx[d] < shape[d]

(* The place of an index in C order, dimension by dimension: O has the     *)
(* offsets of the fronts.                                                  *)
Climbs(O, idx, shape) ==
  /\ O[0] = 0
  /\ \A k \in 1 .. Len(shape) : O[k] = O[k - 1] + idx[k] * Past(shape, k)

(* Every index of the rank of a shape has such offsets. *)
LEMMA PlaceByDimension ==
  ASSUME NEW shape \in Seq(Nat), NEW idx \in Seq(Nat), Len(idx) = Len(shape)
  PROVE  \E O \in [0 .. Len(shape) -> Nat] : Climbs(O, idx, shape) /\ Place(idx, shape) = O[Len(shape)] + 1
<1> DEFINE n == Len(shape)  stride == CStrides(shape)
<1>1. n \in Nat /\ DOMAIN shape = 1 .. n
  OBVIOUS
<1>2. stride \in Seq(Nat) /\ Len(stride) = n /\ \A d \in 1 .. n : stride[d] = Past(shape, d)
  <2>1. stride = [d \in 1 .. n |-> Past(shape, d)]
    BY <1>1 DEF CStrides, Past
  <2>2. \A d \in 1 .. n : Past(shape, d) \in Nat
    BY <1>1, StrideByDimension
  <2> HIDE DEF stride
  <2>3. QED
    BY <2>1, <2>2, <1>1
<1> HIDE DEF stride
<1>3. PICK O \in [0 .. n -> Nat] : Sums(O, idx, stride) /\ Offset(idx, stride) = O[n]
  <2>1. Len(stride) = Len(idx) /\ Len(idx) = n
    BY <1>2
  <2>2. \E O \in [0 .. Len(idx) -> Nat] : Sums(O, idx, stride) /\ Offset(idx, stride) = O[Len(idx)]
    BY <1>2, <2>1, OffsetByPlace
  <2> HIDE DEF n
  <2>3. QED
    BY <2>1, <2>2
<1>4. Climbs(O, idx, shape)
  BY <1>1, <1>2, <1>3 DEF Sums, Climbs
<1>5. Place(idx, shape) = O[n] + 1
  BY <1>3 DEF Place, stride
<1>6. QED
  BY <1>3, <1>4, <1>5

(* The place of an index is one of the shape's, and has that index. *)
LEMMA IndexOfPlace ==
  ASSUME NEW shape \in Seq(Nat), NEW idx, InRange(idx, shape)
  PROVE  Place(idx, shape) \in 1 .. Product(shape) /\ Unravel(Place(idx, shape) - 1, shape) = idx
<1> DEFINE n == Len(shape)
<1>1. /\ n \in Nat /\ DOMAIN shape = 1 .. n /\ DOMAIN idx = 1 .. n /\ Len(idx) = n /\ idx \in Seq(Nat)
      /\ \A d \in 1 .. n : shape[d] \in Nat /\ idx[d] \in Nat /\ idx[d] < shape[d]
  BY ElementOfSeq DEF InRange
<1>2. /\ \A d \in 0 .. n : Past(shape, d) \in Nat
      /\ Past(shape, n) = 1 /\ Past(shape, 0) = Product(shape)
      /\ \A d \in 1 .. n : Past(shape, d - 1) = shape[d] * Past(shape, d)
  BY StrideByDimension
<1>4. PICK O \in [0 .. n -> Nat] : Climbs(O, idx, shape) /\ Place(idx, shape) = O[n] + 1
  BY <1>1, PlaceByDimension
<1>5. O[0] = 0 /\ \A k \in 1 .. n : O[k] = O[k - 1] + idx[k] * Past(shape, k)
  BY <1>4 DEF Climbs
<1>6. \A k \in 0 .. n : O[k] \in Nat
  BY <1>4
<1>7. \A j \in Nat : j \in 0 .. n => O[n] - O[n - j] >= 0 /\ O[n] - O[n - j] < Past(shape, n - j)
  <2> DEFINE S == {j \in Nat : j \in 0 .. n => O[n] - O[n - j] >= 0 /\ O[n] - O[n - j] < Past(shape, n - j)}
  <2>1. 0 \in S
    <3>1. n - 0 = n /\ n \in 0 .. n
      BY <1>1
    <3>2. O[n] - O[n - 0] = 0
      BY <3>1, <1>6
    <3>3. QED
      BY <3>1, <3>2, <1>2
  <2>2. ASSUME NEW j \in S PROVE j + 1 \in S
    <3>1. ASSUME j + 1 \in 0 .. n
          PROVE  O[n] - O[n - (j + 1)] >= 0 /\ O[n] - O[n - (j + 1)] < Past(shape, n - (j + 1))
      <4> DEFINE k == n - j
      <4>1. k \in 1 .. n /\ k \in 0 .. n /\ k - 1 \in 0 .. n /\ n - (j + 1) = k - 1 /\ j \in 0 .. n /\ n \in 0 .. n
        BY <3>1, <2>2, <1>1
      <4>2. O[n] - O[k] >= 0 /\ O[n] - O[k] < Past(shape, k)
        BY <4>1, <2>2
      <4> HIDE DEF k
      <4>3. O[k] = O[k - 1] + idx[k] * Past(shape, k) /\ Past(shape, k - 1) = shape[k] * Past(shape, k)
        BY <4>1, <1>2, <1>5
      <4>4. O[n] \in Nat /\ O[k] \in Nat /\ O[k - 1] \in Nat /\ Past(shape, k) \in Nat
        BY <4>1, <1>2, <1>6
      <4>5. idx[k] \in Nat /\ shape[k] \in Nat /\ idx[k] + 1 <= shape[k]
        BY <4>1, <1>1
      <4>6. /\ idx[k] * Past(shape, k) + Past(shape, k) <= shape[k] * Past(shape, k) /\ idx[k] * Past(shape, k) \in Nat
            /\ shape[k] * Past(shape, k) \in Nat
        BY <4>4, <4>5, OneMore
      <4> DEFINE u == idx[k] * Past(shape, k)  v == shape[k] * Past(shape, k)
      <4> HIDE DEF u, v
      <4>7. O[n] - O[k - 1] >= 0 /\ O[n] - O[k - 1] < Past(shape, k - 1)
        <5>1. u + Past(shape, k) <= v /\ u \in Nat /\ v \in Nat
          BY <4>6 DEF u, v
        <5>2. O[k] = O[k - 1] + u /\ Past(shape, k - 1) = v
          BY <4>3 DEF u, v
        <5>3. QED
          BY <5>1, <5>2, <4>2, <4>4
      <4>8. QED
        BY <4>1, <4>7
    <3>2. QED
      BY <3>1, <2>2
  <2>3. S = Nat
    <3>1. S \in SUBSET Nat
      OBVIOUS
    <3> HIDE DEF S
    <3>2. QED
      BY <2>1, <2>2, <3>1, EveryNumber
  <2>4. QED
    BY <2>3
<1>8. \A k \in Nat : k \in 0 .. n => \E q \in Nat : O[k] = q * Past(shape, k)
  <2> DEFINE S == {k \in Nat : k \in 0 .. n => \E q \in Nat : O[k] = q * Past(shape, k)}
  <2>1. 0 \in S
    <3>1. 0 \in 0 .. n
      BY <1>1
    <3>2. O[0] = 0 * Past(shape, 0)
      BY <3>1, <1>2, <1>5
    <3>3. QED
      BY <3>2
  <2>2. ASSUME NEW k \in S PROVE k + 1 \in S
    <3>1. ASSUME k + 1 \in 0 .. n PROVE \E q \in Nat : O[k + 1] = q * Past(shape, k + 1)
      <4>1. k \in 0 .. n /\ k + 1 \in 1 .. n /\ (k + 1) - 1 = k
        BY <3>1, <2>2
      <4>2. PICK q \in Nat : O[k] = q * Past(shape, k)
        BY <4>1, <2>2
      <4>3. /\ O[k + 1] = O[k] + idx[k + 1] * Past(shape, k + 1)
            /\ Past(shape, k) = shape[k + 1] * Past(shape, k + 1)
        BY <4>1, <1>2, <1>5
      <4>4. shape[k + 1] \in Nat /\ idx[k + 1] \in Nat /\ Past(shape, k + 1) \in Nat
        BY <4>1, <1>1, <1>2, <3>1
      <4>6. /\ O[k + 1] = (q * shape[k + 1] + idx[k + 1]) * Past(shape, k + 1)
            /\ q * shape[k + 1] + idx[k + 1] \in Nat
        <5>1. /\ q * (shape[k + 1] * Past(shape, k + 1)) + idx[k + 1] * Past(shape, k + 1)
                   = (q * shape[k + 1] + idx[k + 1]) * Past(shape, k + 1)
              /\ q * shape[k + 1] + idx[k + 1] \in Nat
          <6>1. Regroups(q, shape[k + 1], Past(shape, k + 1), idx[k + 1])
            BY <4>4, Regrouped
          <6>2. QED
            BY ONLY <6>1, ZenonT(30) DEF Regroups
        <5>2. O[k + 1] = q * (shape[k + 1] * Past(shape, k + 1)) + idx[k + 1] * Past(shape, k + 1)
          BY ONLY <4>2, <4>3, ZenonT(30)
        <5>3. QED
          BY <5>1, <5>2
      <4>7. QED
        BY <4>6
    <3>2. QED
      BY <3>1, <2>2
  <2>3. S = Nat
    <3>1. S \in SUBSET Nat
      OBVIOUS
    <3> HIDE DEF S
    <3>2. QED
      BY <2>1, <2>2, <3>1, EveryNumber
  <2>4. QED
    BY <2>3
<1>9. Place(idx, shape) = O[n] + 1
  BY <1>4
<1>10. Place(idx, shape) \in 1 .. Product(shape) /\ Place(idx, shape) - 1 = O[n]
  <2>1. n \in 0 .. n /\ n - n = 0 /\ 0 \in 0 .. n
    BY <1>1
  <2>2. O[n] - O[0] < Past(shape, 0)
    BY <2>1, <1>1, <1>7
  <2>3. O[n] < Product(shape) /\ O[n] \in Nat /\ Product(shape) \in Nat
    BY <2>1, <2>2, <1>2, <1>5, <1>6
  <2>4. QED
    BY <2>3, <1>9
<1>11. ASSUME NEW d \in 1 .. n PROVE (O[n] \div Past(shape, d)) % shape[d] = idx[d]
  <2>1. d \in 0 .. n /\ d - 1 \in 0 .. n /\ n - d \in 0 .. n /\ n - (n - d) = d /\ n \in 0 .. n /\ n - d \in Nat /\ d - 1 \in Nat
    BY <1>1
  <2>2. PICK q \in Nat : O[d - 1] = q * Past(shape, d - 1)
    BY <2>1, <1>8
  <2> DEFINE r == O[n] - O[d]  s == Past(shape, d)
  <2>3. r >= 0 /\ r < s
    BY <2>1, <1>7
  <2>4. r \in 0 .. s - 1 /\ s \in Nat \ {0} /\ O[n] = O[d] + r
    <3>1. O[n] \in Nat /\ O[d] \in Nat /\ s \in Nat
      BY <2>1, <1>2, <1>6
    <3> HIDE DEF s
    <3>2. QED
      BY <3>1, <2>3
  <2>5. O[d] = O[d - 1] + idx[d] * s /\ Past(shape, d - 1) = shape[d] * s
    BY <1>2, <1>5
  <2> HIDE DEF r, s
  <2>6. shape[d] \in Nat \ {0} /\ idx[d] \in 0 .. shape[d] - 1 /\ idx[d] \in Nat
    BY <1>1
  <2>8. O[d] = (q * shape[d] + idx[d]) * s /\ q * shape[d] + idx[d] \in Nat
    <3>1. s \in Nat /\ shape[d] \in Nat
      BY <2>4, <2>6
    <3>2. /\ q * (shape[d] * s) + idx[d] * s = (q * shape[d] + idx[d]) * s
          /\ q * shape[d] + idx[d] \in Nat
      <4>1. Regroups(q, shape[d], s, idx[d])
        BY <3>1, <2>6, Regrouped
      <4>2. QED
        BY ONLY <4>1, ZenonT(30) DEF Regroups
    <3>3. O[d] = q * (shape[d] * s) + idx[d] * s
      BY ONLY <2>2, <2>5, ZenonT(30)
    <3>4. QED
      BY <3>2, <3>3
  <2>9. O[n] \div s = q * shape[d] + idx[d]
    <3> DEFINE t == q * shape[d] + idx[d]
    <3>1. t \in Nat /\ O[n] = t * s + r
      BY <2>4, <2>8
    <3> HIDE DEF t
    <3>2. (t * s + r) \div s = t
      BY <3>1, <2>4, QuotientAndRest
    <3>3. QED
      BY <3>1, <3>2 DEF t
  <2>10. (q * shape[d] + idx[d]) % shape[d] = idx[d]
    BY <2>6, QuotientAndRest
  <2>11. QED
    BY <2>9, <2>10 DEF s
<1>12. Unravel(O[n], shape) = [d \in 1 .. n |-> idx[d]]
  <2>1. Unravel(O[n], shape) = [d \in 1 .. n |-> (O[n] \div Past(shape, d)) % shape[d]]
    BY <1>1 DEF Unravel, CStrides, Past
  <2>2. QED
    BY <2>1, <1>11
<1>13. idx = [d \in 1 .. n |-> idx[d]]
  BY <1>1
<1>14. QED
  BY <1>10, <1>12, <1>13

(* A shape with elements has room along every dimension. *)
LEMMA PositiveExtents ==
  ASSUME NEW shape \in Seq(Nat), Product(shape) > 0
  PROVE  \A d \in 1 .. Len(shape) : shape[d] \in Nat \ {0} /\ Past(shape, d) \in Nat \ {0}
<1> DEFINE n == Len(shape)
<1>1. n \in Nat /\ DOMAIN shape = 1 .. n /\ \A d \in 1 .. n : shape[d] \in Nat
  BY ElementOfSeq
<1>2. /\ \A d \in 0 .. n : Past(shape, d) \in Nat
      /\ Past(shape, n) = 1 /\ Past(shape, 0) = Product(shape)
      /\ \A d \in 1 .. n : Past(shape, d - 1) = shape[d] * Past(shape, d)
  BY StrideByDimension
<1>3. \A k \in Nat : k \in 0 .. n => Past(shape, k) > 0
  <2> DEFINE S == {k \in Nat : k \in 0 .. n => Past(shape, k) > 0}
  <2>1. 0 \in S
    BY <1>1, <1>2
  <2>2. ASSUME NEW k \in S PROVE k + 1 \in S
    <3>1. ASSUME k + 1 \in 0 .. n PROVE Past(shape, k + 1) > 0
      <4>1. k \in 0 .. n /\ k + 1 \in 1 .. n /\ (k + 1) - 1 = k
        BY <3>1, <2>2
      <4>2. Past(shape, k) > 0 /\ Past(shape, k) = shape[k + 1] * Past(shape, k + 1)
        BY <4>1, <2>2, <1>2
      <4>3. shape[k + 1] \in Nat /\ Past(shape, k + 1) \in Nat
        BY <4>1, <1>1, <1>2, <3>1
      <4>4. \A a \in Nat : a * 0 = 0
        OBVIOUS
      <4>5. QED
        BY <4>2, <4>3, <4>4
    <3>2. QED
      BY <3>1, <2>2
  <2>3. S = Nat
    <3>1. S \in SUBSET Nat
      OBVIOUS
    <3> HIDE DEF S
    <3>2. QED
      BY <2>1, <2>2, <3>1, EveryNumber
  <2>4. QED
    BY <2>3
<1>4. ASSUME NEW d \in 1 .. n
      PROVE  shape[d] \in Nat \ {0} /\ Past(shape, d) \in Nat \ {0}
  <2>1. d \in 0 .. n /\ d - 1 \in 0 .. n /\ d \in Nat /\ d - 1 \in Nat
    BY <1>1
  <2>2. Past(shape, d - 1) > 0 /\ Past(shape, d) > 0 /\ Past(shape, d - 1) = shape[d] * Past(shape, d)
    BY <2>1, <1>2, <1>3
  <2>3. shape[d] \in Nat /\ Past(shape, d) \in Nat
    BY <2>1, <1>1, <1>2
  <2>4. \A a \in Nat : 0 * a = 0
    OBVIOUS
  <2>5. QED
    BY <2>2, <2>3, <2>4
<1>5. QED
  BY <1>4

(* What is at a position is an index of the shape. *)
LEMMA PlaceInRange ==
  ASSUME NEW shape \in Seq(Nat), NEW p \in 0 .. Product(shape) - 1
  PROVE  InRange(Unravel(p, shape), shape)
<1> DEFINE n == Len(shape)
<1>1. n \in Nat /\ DOMAIN shape = 1 .. n
  OBVIOUS
<1>4. ASSUME NEW d \in 1 .. n
      PROVE  shape[d] \in Nat \ {0} /\ Past(shape, d) \in Nat \ {0}
  <2>1. Product(shape) \in Nat
    BY StrideByDimension
  <2>2. Product(shape) > 0
    BY <2>1
  <2>3. QED
    BY <2>2, PositiveExtents
<1>5. Unravel(p, shape) = [d \in 1 .. n |-> (p \div Past(shape, d)) % shape[d]]
  BY <1>1 DEF Unravel, CStrides, Past
<1>6. ASSUME NEW d \in 1 .. n PROVE (p \div Past(shape, d)) % shape[d] \in 0 .. shape[d] - 1
  <2>1. \A a \in Nat : \A b \in Nat \ {0} : a \div b \in Nat
    OBVIOUS
  <2>2. \A a \in Nat : \A b \in Nat \ {0} : a % b \in 0 .. b - 1
    OBVIOUS
  <2>3. p \in Nat
    OBVIOUS
  <2>4. QED
    BY <1>4, <2>1, <2>2, <2>3
<1>7. QED
  <2> DEFINE e(d) == (p \div Past(shape, d)) % shape[d]
  <2>1. \A d \in 1 .. n : e(d) \in Nat /\ e(d) < shape[d]
    BY <1>4, <1>6
  <2>2. Unravel(p, shape) = [d \in 1 .. n |-> e(d)]
    BY <1>5
  <2> HIDE DEF e
  <2>3. QED
    BY <2>1, <2>2, <1>1 DEF InRange

(* So the indices of a shape are those in range, each at its place. *)
LEMMA IndicesAreInRange ==
  ASSUME NEW shape \in Seq(Nat)
  PROVE  \A idx : idx \in Indices(shape) <=> InRange(idx, shape)
<1>1. ASSUME NEW idx \in Indices(shape) PROVE InRange(idx, shape)
  BY PlaceInRange DEF Indices
<1>2. ASSUME NEW idx, InRange(idx, shape) PROVE idx \in Indices(shape)
  <2>1. Place(idx, shape) \in 1 .. Product(shape) /\ Unravel(Place(idx, shape) - 1, shape) = idx
    BY <1>2, IndexOfPlace
  <2>2. Product(shape) \in Nat
    BY StrideByDimension
  <2>3. Place(idx, shape) - 1 \in 0 .. Product(shape) - 1
    BY <2>1, <2>2
  <2>4. QED
    BY <2>1, <2>3 DEF Indices
<1>3. QED
  BY <1>1, <1>2

-----------------------------------------------------------------------------
(* The refinement. *)

(* The contract has indices of its own, which are the same. *)
LEMMA SameIndices ==
  ASSUME NEW s
  PROVE  /\ Contract!Product(s) = Product(s)
         /\ Contract!CStrides(s) = CStrides(s)
         /\ \A n : Contract!Unravel(n, s) = Unravel(n, s)
         /\ \A idx : Contract!Place(idx, s) = Place(idx, s)
         /\ Contract!Indices(s) = Indices(s)
<1>1. \A t : Contract!Product(t) = Product(t)
  BY DEF Contract!Product, Product, Contract!FoldLeft, FoldLeft, Contract!MapThenFoldSet, MapThenFoldSet,
         Contract!Max, Max
<1>2. Contract!CStrides(s) = CStrides(s)
  BY <1>1 DEF Contract!CStrides, CStrides
<1>3. \A n : Contract!Unravel(n, s) = Unravel(n, s)
  BY <1>2 DEF Contract!Unravel, Unravel
<1>4. \A idx, stride : Contract!Offset(idx, stride) = Offset(idx, stride)
  BY DEF Contract!Offset, Offset, Contract!FoldLeft, FoldLeft, Contract!MapThenFoldSet, MapThenFoldSet,
         Contract!Max, Max
<1>5. \A idx : Contract!Place(idx, s) = Place(idx, s)
  BY <1>2, <1>4 DEF Contract!Place, Place
<1>6. Contract!Indices(s) = Indices(s)
  BY <1>1, <1>3 DEF Contract!Indices, Indices
<1>7. QED
  BY <1>1, <1>2, <1>3, <1>5, <1>6

(* The inductive invariant: nodes are groups or arrays whose chunks have   *)
(* the rank of the array, and only arrays have chunks.                     *)
TraceInv ==
  /\ \A p \in DOMAIN nodes : IsNode(nodes[p])
  /\ \A at \in DOMAIN chunks : at[1] \in Paths("array")

(* A trace starts from nodes and no chunks. *)
LEMMA TraceInitInv == Init => TraceInv
<1> SUFFICES ASSUME Init PROVE TraceInv
  OBVIOUS
<1>1. DOMAIN chunks = {}
  BY DEF Init
<1>2. \A p \in DOMAIN nodes : IsNode(nodes[p])
  BY InitialAssumption DEF Init
<1>3. QED
  BY <1>1, <1>2 DEF TraceInv

(* Nodes are groups or arrays, and not both. *)
LEMMA NodeTypes ==
  ASSUME TraceInv
  PROVE  /\ \A p \in DOMAIN nodes : p \in Paths("group") \/ p \in Paths("array")
         /\ \A p : p \in Paths("group") <=> p \in DOMAIN nodes /\ nodes[p].type = "group"
         /\ \A p : p \in Paths("array") <=> p \in DOMAIN nodes /\ nodes[p].type = "array"
         /\ \A p \in Paths("array") : p \in DOMAIN nodes /\ p \notin Paths("group")
  BY DEF TraceInv, IsNode, Paths

(* What is there after an array is made. *)
LEMMA NodesAfterCreate ==
  ASSUME TraceInv, NEW r \in Request, r.op = "create_array", ~Refuses(r.path), nodes' = CreateArray(r)
  PROVE  /\ DOMAIN nodes' = DOMAIN nodes \cup Above(r.path) \cup {r.path}
         /\ r.path \notin DOMAIN nodes /\ r.path \notin Above(r.path)
         /\ nodes'[r.path] = [type |-> "array", dtype |-> r.dtype, shape |-> r.shape, chunk |-> r.chunks]
         /\ \A p \in DOMAIN nodes : nodes'[p] = nodes[p]
         /\ \A p \in Above(r.path) : nodes'[p].type = "group"
<1> DEFINE new == [type |-> "array", dtype |-> r.dtype, shape |-> r.shape, chunk |-> r.chunks]
           path == r.path
<1>1. path \notin DOMAIN nodes /\ \A p \in Above(path) : p \in DOMAIN nodes => nodes[p].type = "group"
  BY DEF Refuses, Has
<1>2. path \notin Above(path)
  <2>1. path \in Seq(STRING) /\ Len(path) \in Nat
    BY RequestAssumption
  <2>2. \A n \in 0 .. Len(path) - 1 : Len(SubSeq(path, 1, n)) = n
    BY <2>1
  <2> HIDE DEF path
  <2>3. QED
    BY <2>1, <2>2 DEF Above
<1>3. nodes' = [p \in {path} \cup (DOMAIN nodes \cup Above(path)) |->
                 IF p = path THEN new ELSE IF p \in DOMAIN nodes THEN nodes[p] ELSE Group]
  <2>1. nodes' = [p \in DOMAIN EnsureParents(path) \cup {path} |->
                   IF p = path THEN new ELSE EnsureParents(path)[p]]
    BY DEF CreateArray
  <2>2. /\ DOMAIN EnsureParents(path) = DOMAIN nodes \cup Above(path)
        /\ \A p \in DOMAIN nodes \cup Above(path) :
             EnsureParents(path)[p] = IF p \in DOMAIN nodes THEN nodes[p] ELSE Group
    BY DEF EnsureParents, Has
  <2> HIDE DEF new, path
  <2>3. QED
    BY <2>1, <2>2
<1> HIDE DEF new, path
<1>4. QED
  BY <1>1, <1>2, <1>3 DEF new, path, Group

(* What the contract asks of an operation is what the code asks. *)
LEMMA LegalIsLawful ==
  ASSUME NEW r \in Request, CanCreate(r) \/ CanWrite(r) \/ CanRead(r)
  PROVE  r \in Legal
<1>1. Lawful(r)
  <2>1. CASE CanCreate(r)
    BY <2>1 DEF CanCreate, Lawful
  <2>2. CASE CanWrite(r) \/ CanRead(r)
    BY <2>2 DEF CanWrite, CanRead, Opens, InRegion, Lawful
  <2>3. QED
    BY <2>1, <2>2
<1>2. QED
  BY <1>1, LegalAssumption

(* A node may be made when the contract says so. *)
LEMMA FreeIsNotRefused ==
  ASSUME TraceInv, NEW path
  PROVE  Contract!Free(path) <=> ~Refuses(path)
<1>1. Contract!AncestorsOf(path) = Above(path)
  BY DEF Contract!AncestorsOf, Above
<1>2. DOMAIN Arrays = Paths("array")
  BY DEF Arrays
<1>3. Contract!Free(path) <=>
        path \notin Paths("group") \cup Paths("array") /\ Above(path) \cap Paths("array") = {}
  BY <1>1, <1>2 DEF Contract!Free
<1>4. \A p : p \in Paths("group") \cup Paths("array") <=> Has(p)
  BY NodeTypes DEF Has
<1>5. \A p : p \in Paths("array") <=> Has(p) /\ nodes[p].type # "group"
  BY NodeTypes DEF Has
<1>6. QED
  BY <1>3, <1>4, <1>5 DEF Refuses

(* A new array is made of zeros: no chunk is at a path without a node. *)
LEMMA CreateImplements ==
  ASSUME TraceInv, NEW r \in Request, Create(r)
  PROVE  Contract!Create(r)
<1>1. /\ r.op = "create_array" /\ ~Refuses(r.path)
      /\ nodes' = CreateArray(r) /\ answer' = Nothing /\ chunks' = chunks /\ status' = status
  BY DEF Create, CanCreate
<1>2. /\ DOMAIN nodes' = DOMAIN nodes \cup Above(r.path) \cup {r.path}
      /\ r.path \notin DOMAIN nodes /\ r.path \notin Above(r.path)
      /\ nodes'[r.path] = [type |-> "array", dtype |-> r.dtype, shape |-> r.shape, chunk |-> r.chunks]
      /\ \A p \in DOMAIN nodes : nodes'[p] = nodes[p]
      /\ \A p \in Above(r.path) : nodes'[p].type = "group"
  BY <1>1, NodesAfterCreate
<1>3. Paths("group")' = Paths("group") \cup Above(r.path)
  BY <1>2 DEF Paths
<1>4. Paths("array")' = Paths("array") \cup {r.path}
  <2>1. \A p \in Above(r.path) : p \notin Paths("array")
    BY <1>1 DEF Refuses, Has, Paths
  <2>2. QED
    BY <1>2, <2>1 DEF Paths
<1>5. ASSUME NEW p \in Paths("array") PROVE Arrays'[p] = Arrays[p]
  <2>1. nodes'[p] = nodes[p] /\ p \in Paths("array")'
    BY <1>2, <1>4, <1>5 DEF Paths
  <2>2. \A idx : Element(p, idx)' = Element(p, idx)
    BY <2>1, <1>1 DEF Element, ChunkAt, Local
  <2>3. QED
    BY <2>1, <2>2 DEF Arrays
<1>6. Arrays'[r.path] = [dtype |-> r.dtype, shape |-> r.shape, at |-> [i \in Indices(r.shape) |-> 0]]
  <2>1. r.path \in Paths("array")'
    BY <1>4
  <2>2. \A c : <<r.path, c>> \notin DOMAIN chunks
    <3>1. r.path \notin Paths("array")
      BY <1>2 DEF Paths
    <3>2. QED
      BY <3>1 DEF TraceInv
  <2>3. \A idx : Element(r.path, idx)' = 0
    BY <2>2, <1>1 DEF Element
  <2>4. nodes'[r.path].dtype = r.dtype /\ nodes'[r.path].shape = r.shape
    BY <1>2
  <2>5. QED
    BY <2>1, <2>3, <2>4 DEF Arrays
<1>7. DOMAIN Arrays = Paths("array") /\ DOMAIN Arrays' = Paths("array")'
  BY DEF Arrays
<1>8. Contract!CanCreate(r)
  BY <1>1, FreeIsNotRefused DEF Contract!CanCreate
<1>9. Arrays' = [p \in DOMAIN Arrays \cup {r.path} |->
                  IF p = r.path
                  THEN [dtype |-> r.dtype, shape |-> r.shape, at |-> [i \in Indices(r.shape) |-> 0]]
                  ELSE Arrays[p]]
  <2>1. Arrays' = [p \in Paths("array")' |-> Arrays'[p]]
    BY DEF Arrays
  <2> HIDE DEF Arrays
  <2>2. QED
    BY <2>1, <1>4, <1>5, <1>6, <1>7
<1>10. Contract!AncestorsOf(r.path) = Above(r.path)
  BY DEF Contract!AncestorsOf, Above
<1>11. QED
  BY <1>1, <1>3, <1>8, <1>9, <1>10, SameIndices DEF Contract!Create, Contract!Nothing, Nothing

(* A function on the places up to n is a sequence. *)
LEMMA SeqOfPlaces ==
  ASSUME NEW n \in Nat, NEW T, NEW f, DOMAIN f = 1 .. n, f = [i \in 1 .. n |-> f[i]],
         \A i \in 1 .. n : f[i] \in T
  PROVE  f \in Seq(T) /\ Len(f) = n
<1>1. f \in [1 .. n -> T]
  OBVIOUS
<1>2. QED
  BY <1>1

(* A node as the contract has arrays: chunks of the array's rank. *)
IsArray(node) ==
  /\ node.shape \in Seq(Nat) /\ node.chunk \in Seq(Nat) /\ Len(node.chunk) = Len(node.shape)
  /\ \A d \in 1 .. Len(node.shape) : node.chunk[d] >= 1 /\ node.shape[d] <= MaxDimension

(* By the invariant every array is one. *)
LEMMA ArraysAreArrays ==
  ASSUME TraceInv, NEW p \in Paths("array")
  PROVE  IsArray(nodes[p])
<1> DEFINE node == nodes[p]
<1>1. /\ node.shape \in Seq(0 .. MaxDimension) /\ node.chunk \in Seq(1 .. MaxDimension)
      /\ Len(node.chunk) = Len(node.shape)
  BY DEF TraceInv, IsNode, Paths
<1> HIDE DEF node
<1>2. /\ \A d \in 1 .. Len(node.shape) : node.shape[d] \in 0 .. MaxDimension
      /\ \A d \in 1 .. Len(node.chunk) : node.chunk[d] \in 1 .. MaxDimension
  BY <1>1, ElementOfSeq
<1>3. \A T : \A s \in Seq(T) : Len(s) \in Nat /\ DOMAIN s = 1 .. Len(s) /\ s = [i \in 1 .. Len(s) |-> s[i]]
  OBVIOUS
<1>4. 0 .. MaxDimension \subseteq Nat /\ 1 .. MaxDimension \subseteq Nat
  BY RequestAssumption
<1>5. node.shape \in Seq(Nat)
  <2>1. \A i \in 1 .. Len(node.shape) : node.shape[i] \in Nat
    BY <1>2, <1>4
  <2>2. QED
    BY <2>1, <1>1, <1>3, SeqOfPlaces
<1>6. node.chunk \in Seq(Nat)
  <2>1. \A i \in 1 .. Len(node.chunk) : node.chunk[i] \in Nat
    BY <1>2, <1>4
  <2>2. QED
    BY <2>1, <1>1, <1>3, SeqOfPlaces
<1>7. \A d \in 1 .. Len(node.shape) : node.chunk[d] >= 1 /\ node.shape[d] <= MaxDimension
  BY <1>1, <1>2
<1>8. QED
  BY <1>1, <1>5, <1>6, <1>7 DEF IsArray, node

(* The chunk and the place in it say which element of the array it is. *)
LEMMA ElementInChunk ==
  ASSUME NEW array, IsArray(array), NEW idx, InRange(idx, array.shape)
  PROVE  LET k == Place(Local(array, idx), array.chunk)
             local == Unravel(k - 1, array.chunk)
         IN  /\ k \in 1 .. Product(array.chunk)
             /\ [d \in DOMAIN local |-> ChunkAt(array, idx)[d] * array.chunk[d] + local[d]] = idx
<1> DEFINE n == Len(array.shape)  local == Local(array, idx)
<1>1. /\ n \in Nat /\ idx \in Seq(Nat) /\ Len(idx) = n /\ DOMAIN idx = 1 .. n
      /\ array.chunk \in Seq(Nat) /\ Len(array.chunk) = n
      /\ \A d \in 1 .. n : array.chunk[d] \in Nat \ {0} /\ idx[d] \in Nat
  <2>1. /\ idx \in Seq(Nat) /\ Len(idx) = n /\ array.chunk \in Seq(Nat) /\ Len(array.chunk) = n
        /\ \A d \in 1 .. n : array.chunk[d] >= 1
    BY DEF IsArray, InRange
  <2> HIDE DEF n
  <2>2. n \in Nat /\ DOMAIN idx = 1 .. n
    BY <2>1, LenProperties
  <2>3. \A d \in 1 .. n : array.chunk[d] \in Nat /\ idx[d] \in Nat
    BY <2>1, ElementOfSeq
  <2>4. QED
    BY <2>1, <2>2, <2>3
<1>2. \A d \in 1 .. n : /\ idx[d] % array.chunk[d] \in Nat /\ idx[d] % array.chunk[d] < array.chunk[d]
                        /\ (idx[d] \div array.chunk[d]) * array.chunk[d] + (idx[d] % array.chunk[d]) = idx[d]
  <2>1. \A a \in Nat : \A b \in Nat \ {0} :
          a % b \in Nat /\ a % b < b /\ (a \div b) * b + (a % b) = a
    OBVIOUS
  <2>2. QED
    BY <1>1, <2>1
<1>3. local = [d \in 1 .. n |-> idx[d] % array.chunk[d]]
  BY <1>1 DEF Local
<1>4. InRange(local, array.chunk)
  <2>1. \A d \in 1 .. n : local[d] \in Nat /\ local[d] < array.chunk[d]
    BY <1>2, <1>3
  <2> HIDE DEF local
  <2>2. local \in Seq(Nat) /\ Len(local) = n
    <3>1. DOMAIN local = 1 .. n /\ local = [i \in 1 .. n |-> local[i]]
      BY <1>3
    <3>2. QED
      BY <3>1, <1>1, <2>1, SeqOfPlaces
  <2>3. QED
    BY <1>1, <2>1, <2>2 DEF InRange
<1>5. /\ Place(local, array.chunk) \in 1 .. Product(array.chunk)
      /\ Unravel(Place(local, array.chunk) - 1, array.chunk) = local
  <2> HIDE DEF local
  <2>1. QED
    BY <1>1, <1>4, IndexOfPlace
<1>6. [d \in DOMAIN local |-> ChunkAt(array, idx)[d] * array.chunk[d] + local[d]] = idx
  <2>1. \A d \in 1 .. n : ChunkAt(array, idx)[d] * array.chunk[d] + local[d] = idx[d]
    BY <1>1, <1>2, <1>3 DEF ChunkAt
  <2>2. DOMAIN local = 1 .. n
    BY <1>3
  <2>3. idx = [d \in 1 .. n |-> idx[d]]
    BY <1>1
  <2> HIDE DEF local
  <2>4. QED
    BY <2>1, <2>2, <2>3
<1>7. QED
  BY <1>5, <1>6

(* A written region changes its elements and no others, in chunks that are *)
(* there and in chunks it makes.                                           *)
LEMMA ElementAfterWrite ==
  ASSUME TraceInv, NEW r, NEW path \in Paths("array"), nodes' = nodes, chunks' = SetRegion(path, r),
         NEW idx, InRange(idx, nodes[path].shape)
  PROVE  Element(path, idx)' =
           IF idx \in Covered(r)
           THEN r.cells[Place([d \in DOMAIN idx |-> idx[d] - r.origin[d]], r.shape)]
           ELSE Element(path, idx)
<1> DEFINE array == nodes[path]
           at  == <<path, ChunkAt(array, idx)>>
           k   == Place(Local(array, idx), array.chunk)
           met == {<<path, ChunkAt(array, i)>> : i \in Covered(r)}
           cell(a, n) == [d \in DOMAIN Unravel(n - 1, array.chunk) |->
                            a[2][d] * array.chunk[d] + Unravel(n - 1, array.chunk)[d]]
           written(a, n) ==
             IF cell(a, n) \in Covered(r)
             THEN r.cells[Place([d \in DOMAIN cell(a, n) |-> cell(a, n)[d] - r.origin[d]], r.shape)]
             ELSE Element(path, cell(a, n))
<1>1. chunks' = [a \in met \cup DOMAIN chunks |->
                  IF a \in met THEN [n \in 1 .. Product(array.chunk) |-> written(a, n)] ELSE chunks[a]]
  BY DEF SetRegion
<1>2. Element(path, idx)' = IF at \in DOMAIN chunks' THEN chunks'[at][k] ELSE 0
  BY DEF Element, ChunkAt, Local
<1>3. Element(path, idx) = IF at \in DOMAIN chunks THEN chunks[at][k] ELSE 0
  BY DEF Element
<1>4. k \in 1 .. Product(array.chunk) /\ cell(at, k) = idx
  <2>1. IsArray(array)
    BY ArraysAreArrays
  <2>2. at[2] = ChunkAt(array, idx)
    OBVIOUS
  <2>3. QED
    BY <2>1, <2>2, ElementInChunk
<1>5. CASE at \in met
  <2>1. Element(path, idx)' = written(at, k)
    <3> HIDE DEF written, met, at, k, array
    <3>1. QED
      BY <1>1, <1>2, <1>4, <1>5
  <2>2. written(at, k) = IF idx \in Covered(r)
                         THEN r.cells[Place([d \in DOMAIN idx |-> idx[d] - r.origin[d]], r.shape)]
                         ELSE Element(path, idx)
    <3> HIDE DEF cell, at, k, array
    <3>1. QED
      BY <1>4
  <2>3. QED
    BY <2>1, <2>2
<1>6. CASE at \notin met
  <2>1. idx \notin Covered(r)
    BY <1>6
  <2>2. Element(path, idx)' = Element(path, idx)
    <3> HIDE DEF written, met, at, k, array
    <3>1. QED
      BY <1>1, <1>2, <1>3, <1>6
  <2>3. QED
    BY <2>1, <2>2
<1>7. QED
  BY <1>5, <1>6

(* A region of an array is where the contract says it is. *)
LEMMA RegionIsWithin ==
  ASSUME TraceInv, NEW r \in Request, r.op # "create_array", NEW p \in Paths("array")
  PROVE  InRegion(nodes[p], r) <=> Contract!Within(Arrays[p], r.origin, r.shape)
<1> DEFINE shape == nodes[p].shape  n == Len(shape)
<1>1. Arrays[p].shape = shape
  BY DEF Arrays
<1>2. IsArray(nodes[p]) /\ MaxDimension \in Nat
  BY ArraysAreArrays, RequestAssumption
<1>3. shape \in Seq(Nat) /\ n \in Nat /\ \A d \in 1 .. n : shape[d] \in Nat /\ shape[d] <= MaxDimension
  <2>1. shape \in Seq(Nat) /\ \A d \in 1 .. n : shape[d] <= MaxDimension
    BY <1>2 DEF IsArray
  <2> HIDE DEF shape
  <2>2. QED
    BY <2>1, ElementOfSeq, LenProperties
<1>4. r.origin \in Seq(Int) /\ r.shape \in Seq(Int)
  BY RequestAssumption
<1>5. /\ DOMAIN r.origin = 1 .. Len(r.origin) /\ \A d \in 1 .. Len(r.origin) : r.origin[d] \in Int
      /\ DOMAIN r.shape = 1 .. Len(r.shape) /\ \A d \in 1 .. Len(r.shape) : r.shape[d] \in Int
  BY <1>4, ElementOfSeq, LenProperties
<1>6. CASE Len(r.origin) = n /\ Len(r.shape) = n
  <2> HIDE DEF n, shape
  <2>1. ASSUME NEW d \in 1 .. n
        PROVE  (/\ r.origin[d] \in 0 .. MaxDimension /\ r.shape[d] \in 1 .. MaxDimension
                /\ r.origin[d] <= shape[d] /\ r.shape[d] <= shape[d] - r.origin[d])
               <=> r.origin[d] >= 0 /\ r.shape[d] >= 1 /\ r.origin[d] + r.shape[d] <= shape[d]
    <3>1. /\ r.origin[d] \in Int /\ r.shape[d] \in Int
          /\ shape[d] \in Nat /\ shape[d] <= MaxDimension /\ MaxDimension \in Nat
      BY <1>2, <1>3, <1>5, <1>6
    <3>2. \A o, s \in Int : \A e, m \in Nat : e <= m =>
            ((o \in 0 .. m /\ s \in 1 .. m /\ o <= e /\ s <= e - o) <=> (o >= 0 /\ s >= 1 /\ o + s <= e))
      OBVIOUS
    <3>3. QED
      BY <3>1, <3>2
  <2>2. InRegion(nodes[p], r) <=>
          \A d \in 1 .. n : /\ r.origin[d] \in 0 .. MaxDimension /\ r.shape[d] \in 1 .. MaxDimension
                            /\ r.origin[d] <= shape[d] /\ r.shape[d] <= shape[d] - r.origin[d]
    BY <1>5, <1>6 DEF InRegion, IntList, n, shape
  <2>3. Contract!Within(Arrays[p], r.origin, r.shape) <=>
          \A d \in 1 .. n : r.origin[d] >= 0 /\ r.shape[d] >= 1 /\ r.origin[d] + r.shape[d] <= shape[d]
    BY <1>1, <1>5, <1>6 DEF Contract!Within, n
  <2>4. QED
    BY <2>1, <2>2, <2>3
<1>7. CASE ~(Len(r.origin) = n /\ Len(r.shape) = n)
  BY <1>1, <1>7 DEF InRegion, Contract!Within
<1>8. QED
  BY <1>6, <1>7

(* The contract may write or read what the code may. *)
LEMMA WriteWhenMayWrite ==
  ASSUME TraceInv, NEW r \in Request
  PROVE  /\ CanWrite(r) <=> PortablePath(r.path) /\ Contract!CanWrite(r)
         /\ CanRead(r) <=> PortablePath(r.path) /\ Contract!CanRead(r)
<1>1. DOMAIN Arrays = Paths("array")
  BY DEF Arrays
<1>2. Has(r.path) /\ nodes[r.path].type = "array" <=> r.path \in Paths("array")
  BY NodeTypes DEF Has
<1>3. ASSUME r.path \in Paths("array"), r.op # "create_array"
      PROVE  InRegion(nodes[r.path], r) <=> Contract!Within(Arrays[r.path], r.origin, r.shape)
  BY <1>3, RegionIsWithin
<1>4. ASSUME r.path \in Paths("array")
      PROVE  Decodes(PayloadStringify(Parsed(r.form)), nodes[r.path].dtype)
               <=> Contract!Takes(Arrays[r.path].dtype, r.form)
  <2>1. Arrays[r.path].dtype = nodes[r.path].dtype
    BY <1>4 DEF Arrays
  <2>2. QED
    BY <2>1 DEF Decodes, PayloadStringify, Parsed, Contract!Takes
<1>5. CanWrite(r) <=> PortablePath(r.path) /\ Contract!CanWrite(r)
  BY <1>1, <1>2, <1>3, <1>4 DEF CanWrite, Opens, Contract!CanWrite
<1>6. CanRead(r) <=> PortablePath(r.path) /\ Contract!CanRead(r)
  BY <1>1, <1>2, <1>3 DEF CanRead, Opens, Contract!CanRead
<1>7. QED
  BY <1>5, <1>6

(* A write replaces the region in the one array. *)
LEMMA WriteImplements ==
  ASSUME TraceInv, NEW r \in Request, Write(r)
  PROVE  Contract!Write(r)
<1> DEFINE path == r.path
           new(old) ==
             [idx \in DOMAIN old |->
               IF idx \in Contract!Region(r.origin, r.shape)
               THEN r.cells[Contract!Place([d \in DOMAIN idx |-> idx[d] - r.origin[d]], r.shape)]
               ELSE old[idx]]
<1>1. /\ CanWrite(r) /\ nodes' = nodes /\ chunks' = SetRegion(path, r)
      /\ answer' = Nothing /\ status' = status
  BY DEF Write
<1>2. Contract!CanWrite(r) /\ path \in Paths("array")
  <2>1. Contract!CanWrite(r)
    BY <1>1, WriteWhenMayWrite
  <2>2. QED
    BY <1>1, <2>1, NodeTypes DEF CanWrite, Opens, Has
<1>3. /\ Paths("array")' = Paths("array") /\ Paths("group")' = Paths("group")
      /\ DOMAIN Arrays = Paths("array")
  BY <1>1 DEF Paths, Arrays
<1>4. ASSUME NEW p \in Paths("array"), p # path PROVE Arrays'[p] = Arrays[p]
  <2>1. \A c : <<p, c>> \in DOMAIN chunks' <=> <<p, c>> \in DOMAIN chunks
    BY <1>1, <1>4 DEF SetRegion
  <2>2. \A c : <<p, c>> \in DOMAIN chunks => chunks'[<<p, c>>] = chunks[<<p, c>>]
    BY <1>1, <1>4 DEF SetRegion
  <2>3. \A idx : Element(p, idx)' = Element(p, idx)
    BY <1>1, <2>1, <2>2 DEF Element, ChunkAt, Local
  <2>4. QED
    BY <1>1, <1>3, <2>3 DEF Arrays
<1>5. Contract!Region(r.origin, r.shape) = Covered(r)
  BY SameIndices DEF Contract!Region, Covered
<1>6. nodes[path].shape \in Seq(Nat)
  BY <1>2, ArraysAreArrays DEF IsArray
<1>7. \A idx \in Indices(nodes[path].shape) :
        Element(path, idx)' =
          IF idx \in Covered(r)
          THEN r.cells[Place([d \in DOMAIN idx |-> idx[d] - r.origin[d]], r.shape)]
          ELSE Element(path, idx)
  BY <1>1, <1>2, <1>6, IndicesAreInRange, ElementAfterWrite
<1>8. Arrays'[path] = [Arrays[path] EXCEPT !.at = new(@)]
  <2>1. Arrays[path] = [dtype |-> nodes[path].dtype, shape |-> nodes[path].shape,
                        at |-> [idx \in Indices(nodes[path].shape) |-> Element(path, idx)]]
    BY <1>2 DEF Arrays
  <2>2. Arrays'[path] = [dtype |-> nodes[path].dtype, shape |-> nodes[path].shape,
                         at |-> [idx \in Indices(nodes[path].shape) |-> Element(path, idx)']]
    BY <1>1, <1>2, <1>3 DEF Arrays
  <2>3. new(Arrays[path].at) = [idx \in Indices(nodes[path].shape) |-> Element(path, idx)']
    <3> DEFINE old == Arrays[path].at
    <3>1. old = [idx \in Indices(nodes[path].shape) |-> Element(path, idx)]
      BY <2>1
    <3> HIDE DEF old
    <3>2. DOMAIN old = Indices(nodes[path].shape)
      BY <3>1
    <3>3. ASSUME NEW idx \in Indices(nodes[path].shape)
          PROVE  (IF idx \in Contract!Region(r.origin, r.shape)
                  THEN r.cells[Contract!Place([d \in DOMAIN idx |-> idx[d] - r.origin[d]], r.shape)]
                  ELSE old[idx]) = Element(path, idx)'
      <4>1. old[idx] = Element(path, idx)
        BY <3>1
      <4>2. QED
        BY <4>1, <1>5, <1>7, SameIndices
    <3>4. new(old) = [idx \in Indices(nodes[path].shape) |-> Element(path, idx)']
      BY <3>2, <3>3
    <3>5. QED
      BY <3>4 DEF old
  <2> HIDE DEF new
  <2>4. QED
    BY <2>1, <2>2, <2>3
<1>9. Arrays' = [Arrays EXCEPT ![path].at = new(@)]
  <2>1. Arrays' = [p \in Paths("array") |-> Arrays'[p]] /\ Arrays = [p \in Paths("array") |-> Arrays[p]]
    BY <1>3 DEF Arrays
  <2> HIDE DEF Arrays, new
  <2>2. QED
    BY <2>1, <1>2, <1>4, <1>8
<1>10. QED
  BY <1>1, <1>2, <1>3, <1>9 DEF Contract!Write, Contract!Nothing, Nothing

(* A read gives the elements of the region in C order. *)
LEMMA ReadImplements ==
  ASSUME TraceInv, NEW r \in Request, Read(r)
  PROVE  Contract!Read(r)
<1> DEFINE path == r.path  shape == nodes[path].shape
           cell(n) == [d \in DOMAIN Unravel(n - 1, r.shape) |-> r.origin[d] + Unravel(n - 1, r.shape)[d]]
<1>1. /\ CanRead(r) /\ nodes' = nodes /\ chunks' = chunks /\ status' = status
      /\ answer' = [n \in 1 .. Product(r.shape) |-> Element(path, cell(n))]
  BY DEF Read, GetRegion
<1>2. Contract!CanRead(r) /\ path \in Paths("array")
  <2>1. Contract!CanRead(r)
    BY <1>1, WriteWhenMayWrite
  <2>2. QED
    BY <1>1, <2>1, NodeTypes DEF CanRead, Opens, Has
<1>3. shape \in Seq(Nat)
  BY <1>2, ArraysAreArrays DEF IsArray
<1>4. /\ r.origin \in Seq(Int) /\ r.shape \in Seq(Int)
      /\ Len(r.origin) = Len(shape) /\ Len(r.shape) = Len(shape)
      /\ \A d \in DOMAIN r.shape : r.origin[d] >= 0 /\ r.shape[d] >= 1 /\ r.origin[d] + r.shape[d] <= shape[d]
  <2>1. Arrays[path].shape = shape
    BY <1>2 DEF Arrays
  <2>2. r.origin \in Seq(Int) /\ r.shape \in Seq(Int)
    BY <1>1, RequestAssumption DEF CanRead
  <2>3. Contract!Within(Arrays[path], r.origin, r.shape)
    BY <1>2 DEF Contract!CanRead
  <2> HIDE DEF shape
  <2>4. QED
    BY <2>1, <2>2, <2>3 DEF Contract!Within
<1>5. /\ Len(shape) \in Nat /\ DOMAIN r.shape = 1 .. Len(shape)
      /\ \A d \in 1 .. Len(shape) : shape[d] \in Nat /\ r.origin[d] \in Nat /\ r.shape[d] \in Nat
  <2> HIDE DEF shape
  <2>1. Len(shape) \in Nat /\ DOMAIN r.shape = 1 .. Len(shape)
    BY <1>3, <1>4, LenProperties
  <2>2. \A d \in 1 .. Len(shape) : shape[d] \in Nat /\ r.origin[d] \in Int /\ r.shape[d] \in Int
    BY <1>3, <1>4, ElementOfSeq
  <2>3. ASSUME NEW d \in 1 .. Len(shape) PROVE r.origin[d] \in Nat /\ r.shape[d] \in Nat
    <3>1. r.origin[d] >= 0 /\ r.shape[d] >= 1
      BY <1>4, <2>1
    <3>2. QED
      BY <3>1, <2>2
  <2>4. QED
    BY <2>1, <2>2, <2>3
<1>6. r.shape \in Seq(Nat)
  <2> HIDE DEF shape
  <2>1. r.shape = [i \in 1 .. Len(r.shape) |-> r.shape[i]]
    BY <1>4
  <2>2. r.shape = [i \in 1 .. Len(shape) |-> r.shape[i]]
    BY <1>4, <2>1
  <2>3. QED
    BY <2>2, <1>5, SeqOfPlaces
<1>7. ASSUME NEW n \in 1 .. Product(r.shape) PROVE cell(n) \in Indices(shape)
  <2> DEFINE local == Unravel(n - 1, r.shape)
  <2>1. n - 1 \in 0 .. Product(r.shape) - 1
    <3>1. Product(r.shape) \in Nat
      BY <1>6, StrideByDimension
    <3>2. QED
      BY <3>1
  <2>2. InRange(local, r.shape)
    BY <2>1, <1>6, PlaceInRange
  <2> HIDE DEF local
  <2>3. /\ DOMAIN local = 1 .. Len(shape)
        /\ \A d \in 1 .. Len(shape) : local[d] \in Nat /\ local[d] < r.shape[d]
    <3>1. local \in Seq(Nat) /\ Len(local) = Len(shape)
      BY <2>2, <1>4 DEF InRange
    <3>2. \A d \in 1 .. Len(shape) : local[d] \in Nat
      BY <3>1, ElementOfSeq
    <3>3. QED
      BY <3>1, <3>2, <2>2, <1>4 DEF InRange
  <2> DEFINE idx == [d \in DOMAIN local |-> r.origin[d] + local[d]]
  <2>4. \A d \in 1 .. Len(shape) : idx[d] \in Nat /\ idx[d] < shape[d]
    <3>1. TAKE d \in 1 .. Len(shape)
    <3>2. /\ local[d] \in Nat /\ local[d] < r.shape[d] /\ r.origin[d] \in Nat /\ r.shape[d] \in Nat
          /\ shape[d] \in Nat /\ r.origin[d] + r.shape[d] <= shape[d] /\ idx[d] = r.origin[d] + local[d]
      BY <2>3, <1>4, <1>5
    <3> HIDE DEF idx, shape
    <3>3. QED
      BY <3>2
  <2>5. DOMAIN idx = 1 .. Len(shape) /\ idx = [d \in 1 .. Len(shape) |-> idx[d]]
    BY <2>3
  <2> HIDE DEF idx
  <2>6. idx \in Seq(Nat) /\ Len(idx) = Len(shape)
    BY <2>4, <2>5, <1>5, SeqOfPlaces
  <2>7. InRange(idx, shape)
    BY <2>4, <2>6 DEF InRange
  <2>8. idx \in Indices(shape)
    BY <2>7, <1>3, IndicesAreInRange
  <2>9. QED
    BY <2>8 DEF idx, local
<1>8. ASSUME NEW n \in 1 .. Product(r.shape) PROVE Element(path, cell(n)) = Arrays[path].at[cell(n)]
  <2>1. Arrays[path].at = [idx \in Indices(shape) |-> Element(path, idx)]
    BY <1>2 DEF Arrays
  <2>2. cell(n) \in Indices(shape)
    BY <1>7
  <2> HIDE DEF cell
  <2>3. QED
    BY <2>1, <2>2
<1>9. answer' = [n \in 1 .. Product(r.shape) |-> Arrays[path].at[cell(n)]]
  <2> HIDE DEF cell, path
  <2>1. QED
    BY <1>1, <1>8
<1>10. Paths("group")' = Paths("group") /\ Arrays' = Arrays
  <2>1. \A type : Paths(type)' = Paths(type)
    BY <1>1 DEF Paths
  <2>2. \A p, idx : Element(p, idx)' = Element(p, idx)
    BY <1>1 DEF Element, ChunkAt, Local
  <2>3. QED
    BY <1>1, <2>1, <2>2 DEF Arrays
<1>11. QED
  BY <1>1, <1>2, <1>9, <1>10, SameIndices DEF Contract!Read

(* A trace fails only where the contract refuses the operation. *)
LEMMA FailImplements ==
  ASSUME TraceInv, NEW r \in Request, Fail(r)
  PROVE  Contract!Fail(r)
<1>1. /\ ~CanCreate(r) /\ ~CanWrite(r) /\ ~CanRead(r)
      /\ status' = "failed" /\ nodes' = nodes /\ chunks' = chunks /\ answer' = answer
  BY DEF Fail
<1>2. Paths("group")' = Paths("group") /\ Arrays' = Arrays
  BY <1>1 DEF Paths, Arrays, Element, ChunkAt, Local
<1>3. ASSUME r \in Legal PROVE ~(Contract!CanCreate(r) \/ Contract!CanWrite(r) \/ Contract!CanRead(r))
  <2>1. Lawful(r)
    BY <1>3, LegalAssumption
  <2>2. ~Contract!CanCreate(r)
    BY <1>1, <2>1, FreeIsNotRefused DEF Lawful, CanCreate, Contract!CanCreate
  <2>3. PortablePath(r.path)
    BY <2>1 DEF Lawful
  <2>4. QED
    BY <1>1, <2>2, <2>3, WriteWhenMayWrite
<1>4. QED
  BY <1>1, <1>2, <1>3 DEF Contract!Fail

-----------------------------------------------------------------------------
(* The invariant is kept. *)

(* Making an array adds groups and an array whose chunks have its rank. *)
LEMMA CreateInv ==
  ASSUME TraceInv, NEW r \in Request, Create(r)
  PROVE  TraceInv'
<1>1. /\ CanCreate(r) /\ r.op = "create_array" /\ ~Refuses(r.path)
      /\ nodes' = CreateArray(r) /\ chunks' = chunks
  BY DEF Create, CanCreate
<1>2. /\ DOMAIN nodes' = DOMAIN nodes \cup Above(r.path) \cup {r.path}
      /\ nodes'[r.path] = [type |-> "array", dtype |-> r.dtype, shape |-> r.shape, chunk |-> r.chunks]
      /\ \A p \in DOMAIN nodes : nodes'[p] = nodes[p]
      /\ \A p \in Above(r.path) : nodes'[p].type = "group"
  BY <1>1, NodesAfterCreate
<1>3. IsNode(nodes'[r.path])
  <2>1. /\ r.shape \in Seq(Int) /\ r.chunks \in Seq(Int) /\ Len(r.chunks) = Len(r.shape)
        /\ IntList(r.shape, 0) /\ IntList(r.chunks, 1)
    BY <1>1, RequestAssumption DEF CanCreate
  <2>2. \A s \in Seq(Int) : \A least \in {0, 1} : IntList(s, least) => s \in Seq(least .. MaxDimension)
    <3>1. TAKE s \in Seq(Int)
    <3>2. TAKE least \in {0, 1}
    <3>3. Len(s) \in Nat /\ DOMAIN s = 1 .. Len(s) /\ s = [i \in 1 .. Len(s) |-> s[i]]
      OBVIOUS
    <3>4. HAVE IntList(s, least)
    <3>5. \A i \in 1 .. Len(s) : s[i] \in least .. MaxDimension
      BY <3>3, <3>4 DEF IntList
    <3>6. QED
      BY <3>3, <3>5, SeqOfPlaces
  <2>3. r.shape \in Seq(0 .. MaxDimension) /\ r.chunks \in Seq(1 .. MaxDimension)
    BY <2>1, <2>2
  <2>4. QED
    BY <1>2, <2>1, <2>3 DEF IsNode
<1>4. \A p \in DOMAIN nodes' : IsNode(nodes'[p])
  BY <1>2, <1>3 DEF TraceInv, IsNode
<1>5. \A p \in Paths("array") : p \in Paths("array")'
  BY <1>2 DEF Paths
<1>6. QED
  BY <1>1, <1>4, <1>5 DEF TraceInv, IsNode

(* A write makes chunks of the array it writes. *)
LEMMA WriteInv ==
  ASSUME TraceInv, NEW r \in Request, Write(r)
  PROVE  TraceInv'
<1>1. CanWrite(r) /\ nodes' = nodes /\ chunks' = SetRegion(r.path, r)
  BY DEF Write
<1>2. r.path \in Paths("array")
  BY <1>1 DEF CanWrite, Opens, Has, Paths
<1>3. \A at \in DOMAIN chunks' : at \in DOMAIN chunks \/ at[1] = r.path
  <2> DEFINE met == {<<r.path, ChunkAt(nodes[r.path], idx)>> : idx \in Covered(r)}
  <2>1. DOMAIN chunks' = met \cup DOMAIN chunks
    BY <1>1 DEF SetRegion
  <2>2. \A at \in met : at[1] = r.path
    OBVIOUS
  <2>3. QED
    BY <2>1, <2>2
<1>4. Paths("array")' = Paths("array")
  BY <1>1 DEF Paths
<1>5. QED
  BY <1>1, <1>2, <1>3, <1>4 DEF TraceInv, IsNode

(* Nothing else touches nodes or chunks. *)
LEMMA TraceNextInv == TraceInv /\ [Next]_vars => TraceInv'
<1> SUFFICES ASSUME TraceInv, [Next]_vars PROVE TraceInv'
  OBVIOUS
<1>1. CASE nodes' = nodes /\ chunks' = chunks
  BY <1>1 DEF TraceInv, IsNode, Paths
<1>2. CASE UNCHANGED vars
  BY <1>1, <1>2 DEF vars
<1>3. ASSUME NEW r \in Request, Create(r) \/ Write(r) \/ Read(r) \/ Fail(r) PROVE TraceInv'
  <2>1. CASE Create(r)
    BY <2>1, CreateInv
  <2>2. CASE Write(r)
    BY <2>2, WriteInv
  <2>3. CASE Read(r)
    BY <2>3, <1>1 DEF Read
  <2>4. CASE Fail(r)
    BY <2>4, <1>1 DEF Fail
  <2>5. QED
    BY <1>3, <2>1, <2>2, <2>3, <2>4
<1>4. QED
  BY <1>2, <1>3 DEF Next

(* The invariant holds throughout: nodes are groups or arrays with chunks  *)
(* of their rank, and only arrays have chunks.                             *)
THEOREM TraceInvariance == Spec => []TraceInv
  BY TraceInitInv, TraceNextInv, PTL DEF Spec

(* A document that a trace starts from is a tree with arrays at its leaves. *)
LEMMA InitImplements == Init => Contract!Init
<1> SUFFICES ASSUME Init PROVE Contract!Init
  OBVIOUS
<1>1. TraceInv
  BY TraceInitInv
<1>2. DOMAIN Arrays = Paths("array")
  BY DEF Arrays
<1>3. Paths("group") \cap Paths("array") = {}
  BY <1>1, NodeTypes
<1>4. \A p \in Paths("group") \cup Paths("array") : Contract!AncestorsOf(p) \subseteq Paths("group")
  <2>1. \A p \in Paths("group") \cup Paths("array") : p \in DOMAIN nodes
    BY DEF Paths
  <2>2. \A p \in DOMAIN nodes : \A a \in Above(p) : a \in Paths("group")
    BY InitialAssumption DEF Init, Paths
  <2>3. QED
    BY <2>1, <2>2 DEF Contract!AncestorsOf, Above
<1>5. answer = Nothing /\ status = "running" /\ request = Nothing
  BY DEF Init
<1>6. QED
  BY <1>2, <1>3, <1>4, <1>5 DEF Contract!Init, Contract!Nothing, Nothing

(* Every operation of the harness is the operation of the contract. *)
LEMMA NextImplements == TraceInv /\ [Next]_vars => [Contract!Next]_(Contract!contract)
<1> SUFFICES ASSUME TraceInv, [Next]_vars PROVE [Contract!Next]_(Contract!contract)
  OBVIOUS
<1>1. CASE UNCHANGED vars
  BY <1>1 DEF vars, Contract!contract, Paths, Arrays, Element, ChunkAt, Local
<1>2. ASSUME NEW r \in Request, Create(r) \/ Write(r) \/ Read(r) \/ Fail(r) PROVE Contract!Next
  <2>1. status = "running" /\ request' = r
    BY <1>2 DEF Create, Write, Read, Fail, Ask
  <2>2. CASE Create(r)
    <3>1. r \in Legal
      BY <2>2, LegalIsLawful DEF Create
    <3>2. Contract!Create(r)
      BY <2>2, CreateImplements
    <3>3. QED
      BY <2>1, <3>1, <3>2 DEF Contract!Next
  <2>3. CASE Write(r)
    <3>1. r \in Legal
      BY <2>3, LegalIsLawful DEF Write
    <3>2. Contract!Write(r)
      BY <2>3, WriteImplements
    <3>3. QED
      BY <2>1, <3>1, <3>2 DEF Contract!Next
  <2>4. CASE Read(r)
    <3>1. r \in Legal
      BY <2>4, LegalIsLawful DEF Read
    <3>2. Contract!Read(r)
      BY <2>4, ReadImplements
    <3>3. QED
      BY <2>1, <3>1, <3>2 DEF Contract!Next
  <2>5. CASE Fail(r)
    <3>1. Contract!Fail(r)
      BY <2>5, FailImplements
    <3>2. QED
      BY <2>1, <3>1 DEF Contract!Next
  <2>6. QED
    BY <1>2, <2>2, <2>3, <2>4, <2>5
<1>3. QED
  BY <1>1, <1>2 DEF Next

(* A trace of the harness keeps the contract: arrays begin as zeros, a     *)
(* write changes its region of one array, a read gives what is there, and  *)
(* the trace fails exactly where the contract refuses.                     *)
THEOREM TraceKeepsContract == Spec => KeepsContract
<1>1. Spec => Contract!Init /\ [][Contract!Next]_(Contract!contract)
  BY InitImplements, NextImplements, TraceInvariance, PTL DEF Spec
<1>2. QED
  BY <1>1 DEF KeepsContract, Contract!Spec

-----------------------------------------------------------------------------
(* The walk over the elements of a chunk. *)

(* A counter one below its extent adds what the dimension has left: u is   *)
(* an extent times its stride p, and v the counter times that stride.      *)
LEMMA LastOfExtent ==
  ASSUME NEW i \in Nat, NEW e \in Nat, NEW p \in Nat, i + 1 = e
  PROVE  i * p + p = e * p /\ i * p \in Nat /\ e * p \in Nat
<1>1. i + 1 <= e /\ e <= i + 1
  OBVIOUS
<1>2. e * p = (i + 1) * p /\ (i + 1) * p = i * p + p
  OBVIOUS
<1>3. i * p \in Nat /\ e * p \in Nat
  OBVIOUS
<1>4. QED
  BY <1>2, <1>3

(* A dimension whose counter is at its last value: with what is left past  *)
(* it, the offset so far is that of the dimension before.                  *)
LEMMA FullDimension ==
  ASSUME NEW shape \in Seq(Nat), NEW idx, InRange(idx, shape),
         NEW O \in [0 .. Len(shape) -> Nat], Climbs(O, idx, shape),
         NEW k \in 1 .. Len(shape), ~(idx[k] + 1 < shape[k])
  PROVE  O[k] + Past(shape, k) = O[k - 1] + Past(shape, k - 1)
<1>1. /\ k \in 0 .. Len(shape) /\ k - 1 \in 0 .. Len(shape) /\ Len(shape) \in Nat
      /\ idx \in Seq(Nat) /\ Len(idx) = Len(shape)
  BY DEF InRange
<1>2. idx[k] \in Nat /\ shape[k] \in Nat /\ idx[k] < shape[k]
  BY <1>1, ElementOfSeq DEF InRange
<1>3. Past(shape, k) \in Nat /\ Past(shape, k - 1) = shape[k] * Past(shape, k)
  BY <1>1, StrideByDimension
<1>4. O[k] = O[k - 1] + idx[k] * Past(shape, k) /\ O[k - 1] \in Nat
  BY <1>1 DEF Climbs
<1>5. idx[k] + 1 = shape[k]
  BY <1>2
<1> DEFINE u == idx[k] * Past(shape, k)  v == shape[k] * Past(shape, k)
<1>6. u + Past(shape, k) = v /\ u \in Nat /\ v \in Nat
  BY <1>2, <1>3, <1>5, LastOfExtent
<1>7. O[k] = O[k - 1] + u /\ Past(shape, k - 1) = v
  BY <1>3, <1>4
<1> HIDE DEF u, v
<1>8. QED
  BY <1>3, <1>4, <1>6, <1>7

(* With no counter that has room, the index is the last of the shape.      *)
LEMMA LastIndex ==
  ASSUME NEW shape \in Seq(Nat), NEW idx, InRange(idx, shape),
         \A d \in 1 .. Len(shape) : ~(idx[d] + 1 < shape[d])
  PROVE  Place(idx, shape) = Product(shape)
<1> DEFINE n == Len(shape)
<1>1. n \in Nat /\ idx \in Seq(Nat) /\ Len(idx) = n
  BY DEF InRange
<1>2. PICK O \in [0 .. n -> Nat] : Climbs(O, idx, shape) /\ Place(idx, shape) = O[n] + 1
  BY <1>1, PlaceByDimension
<1>3. Past(shape, n) = 1 /\ Past(shape, 0) = Product(shape) /\ Product(shape) \in Nat
  <2>1. 0 \in 0 .. n
    BY <1>1
  <2>2. QED
    BY <2>1, StrideByDimension
<1> DEFINE S == {k \in Nat : k \in 0 .. n => O[k] + Past(shape, k) = Product(shape)}
<1>4. 0 \in S
  <2>1. O[0] = 0
    BY <1>2 DEF Climbs
  <2>2. QED
    BY <2>1, <1>3
<1>5. ASSUME NEW k \in S PROVE k + 1 \in S
  <2>1. ASSUME k + 1 \in 0 .. n PROVE O[k + 1] + Past(shape, k + 1) = Product(shape)
    <3>1. k \in 0 .. n /\ k + 1 \in 1 .. n /\ (k + 1) - 1 = k
      BY <2>1, <1>5
    <3>2. O[k + 1] + Past(shape, k + 1) = O[k] + Past(shape, k)
      <4>1. ~(idx[k + 1] + 1 < shape[k + 1])
        BY <3>1
      <4>2. O[k + 1] + Past(shape, k + 1) = O[(k + 1) - 1] + Past(shape, (k + 1) - 1)
        BY <3>1, <4>1, <1>2, FullDimension
      <4>3. QED
        BY <3>1, <4>2
    <3>3. QED
      BY <3>1, <3>2, <1>5
  <2>2. QED
    BY <2>1, <1>5
<1>6. S = Nat
  <2>1. S \in SUBSET Nat
    OBVIOUS
  <2> HIDE DEF S
  <2>2. QED
    BY <1>4, <1>5, <2>1, EveryNumber
<1>7. O[n] + Past(shape, n) = Product(shape)
  <2>1. n \in S
    <3> HIDE DEF S
    <3>1. QED
      BY <1>1, <1>6
  <2>2. n \in 0 .. n
    BY <1>1
  <2>3. QED
    BY <2>1, <2>2
<1>8. QED
  BY <1>2, <1>3, <1>7

(* With a counter that has room, the next index is the one at the next     *)
(* place.                                                                  *)
LEMMA NextIndex ==
  ASSUME NEW shape \in Seq(Nat), NEW idx, InRange(idx, shape),
         NEW e \in 1 .. Len(shape), idx[e] + 1 < shape[e]
  PROVE  /\ InRange(Advance(idx, shape), shape)
         /\ Place(Advance(idx, shape), shape) = Place(idx, shape) + 1
<1> DEFINE n == Len(shape)
           open == {d \in DOMAIN shape : idx[d] + 1 < shape[d]}
           a == Max(open)
           next == [d \in DOMAIN shape |->
                     IF d < a THEN idx[d] ELSE IF d = a THEN idx[d] + 1 ELSE 0]
<1>1. /\ n \in Nat /\ DOMAIN shape = 1 .. n /\ idx \in Seq(Nat) /\ Len(idx) = n
      /\ \A d \in 1 .. n : shape[d] \in Nat /\ idx[d] \in Nat /\ idx[d] < shape[d]
  BY ElementOfSeq DEF InRange
<1>2. open \in SUBSET (1 .. n) /\ open # {}
  BY <1>1
<1>3. Advance(idx, shape) = next
  BY <1>2 DEF Advance
<1>4. a \in open /\ a \in 1 .. n /\ \A d \in 1 .. n : d > a => d \notin open
  <2> HIDE DEF open
  <2>1. a \in open /\ a \in 1 .. n /\ \A y \in open : y <= a
    BY <1>1, <1>2, LargestOfPlaces DEF Largest
  <2>2. QED
    BY <2>1
<1>5. idx[a] + 1 < shape[a] /\ \A d \in 1 .. n : d > a => ~(idx[d] + 1 < shape[d])
  BY <1>1, <1>4
<1> HIDE DEF open, a
<1>6. /\ \A d \in 1 .. n : d < a => next[d] = idx[d]
      /\ next[a] = idx[a] + 1
      /\ \A d \in 1 .. n : d > a => next[d] = 0
  BY <1>1, <1>4
<1>7. InRange(next, shape)
  <2>1. ASSUME NEW d \in 1 .. n PROVE next[d] \in Nat /\ next[d] < shape[d]
    <3>1. d < a \/ d = a \/ d > a
      BY <1>4
    <3>2. CASE d < a
      BY <3>2, <1>1, <1>6
    <3>3. CASE d = a
      <4>1. next[a] = idx[a] + 1 /\ idx[a] \in Nat /\ idx[a] + 1 < shape[a]
        BY <1>1, <1>4, <1>5, <1>6
      <4> HIDE DEF next
      <4>2. next[a] \in Nat /\ next[a] < shape[a]
        BY <4>1
      <4>3. QED
        BY <3>3, <4>2
    <3>4. CASE d > a
      <4>1. next[d] = 0 /\ shape[d] \in Nat /\ idx[d] \in Nat /\ idx[d] < shape[d]
        BY <3>4, <1>1, <1>6
      <4>2. QED
        BY <4>1
    <3>5. QED
      BY <3>1, <3>2, <3>3, <3>4
  <2>2. next = [d \in 1 .. n |-> next[d]]
    BY <1>1
  <2> HIDE DEF next
  <2>3. QED
    BY <2>1, <2>2, <1>1 DEF InRange
<1>8. next \in Seq(Nat) /\ Len(next) = n
  BY <1>7 DEF InRange
<1> HIDE DEF next
<1>9. PICK O \in [0 .. n -> Nat] : Climbs(O, idx, shape) /\ Place(idx, shape) = O[n] + 1
  BY <1>1, PlaceByDimension
<1>10. PICK Q \in [0 .. n -> Nat] : Climbs(Q, next, shape) /\ Place(next, shape) = Q[n] + 1
  BY <1>8, PlaceByDimension
<1>11. Past(shape, n) = 1 /\ \A d \in 0 .. n : Past(shape, d) \in Nat
  BY StrideByDimension
<1> DEFINE S == {k \in Nat : k \in 0 .. n => Q[k] = O[k] + (IF k < a THEN 0 ELSE Past(shape, k))}
<1>12. 0 \in S
  BY <1>4, <1>9, <1>10 DEF Climbs
<1>13. ASSUME NEW k \in S PROVE k + 1 \in S
  <2> DEFINE l == k + 1
  <2>1. ASSUME l \in 0 .. n PROVE Q[l] = O[l] + (IF l < a THEN 0 ELSE Past(shape, l))
    <3>1. k \in 0 .. n /\ l \in 1 .. n /\ l - 1 = k /\ k \in Nat
      BY <2>1, <1>13
    <3>2. Q[k] = O[k] + (IF k < a THEN 0 ELSE Past(shape, k)) /\ O[k] \in Nat /\ O[l] \in Nat
      BY <2>1, <3>1, <1>13
    <3>3. Past(shape, l) \in Nat /\ Past(shape, k) \in Nat /\ idx[l] \in Nat
      BY <2>1, <3>1, <1>1, <1>11
    <3>4. (l < a /\ k < a) \/ (l = a /\ k < a) \/ (l > a /\ ~(k < a) /\ ~(l < a))
      BY <3>1, <1>4
    <3> HIDE DEF l
    <3>5. Q[l] = Q[k] + next[l] * Past(shape, l) /\ O[l] = O[k] + idx[l] * Past(shape, l)
      BY <3>1, <1>9, <1>10 DEF Climbs
    <3>6. CASE l < a /\ k < a
      <4>1. next[l] = idx[l]
        BY <3>1, <3>6, <1>6
      <4> DEFINE u == idx[l] * Past(shape, l)
      <4>2. u \in Nat
        BY <3>3
      <4>3. Q[l] = Q[k] + u /\ O[l] = O[k] + u
        BY <3>5, <4>1
      <4> HIDE DEF u
      <4>4. QED
        BY <3>2, <3>6, <4>2, <4>3
    <3>7. CASE l = a /\ k < a
      <4>1. next[l] = idx[l] + 1
        BY <3>7, <1>6
      <4> DEFINE u == idx[l] * Past(shape, l)  v == (idx[l] + 1) * Past(shape, l)
      <4>2. u \in Nat /\ v = u + Past(shape, l)
        <5> DEFINE i == idx[l]  p == Past(shape, l)
        <5>1. i \in Nat /\ p \in Nat /\ i + 1 \in Nat
          BY <3>3
        <5> HIDE DEF i, p
        <5>2. i * p + p = (i + 1) * p /\ i * p \in Nat
          BY <5>1, LastOfExtent
        <5>3. QED
          BY <5>2 DEF i, p
      <4>3. Q[l] = Q[k] + v /\ O[l] = O[k] + u
        BY <3>5, <4>1
      <4> HIDE DEF u, v
      <4>4. Q[k] = O[k] /\ ~(l < a)
        BY <3>2, <3>7, <1>4
      <4>5. Q[l] = O[l] + Past(shape, l)
        BY <3>2, <3>3, <4>2, <4>3, <4>4
      <4>6. QED
        BY <4>4, <4>5
    <3>8. CASE l > a /\ ~(k < a) /\ ~(l < a)
      <4>1. next[l] = 0 /\ ~(idx[l] + 1 < shape[l])
        BY <3>1, <3>8, <1>5, <1>6
      <4>2. O[l] + Past(shape, l) = O[l - 1] + Past(shape, l - 1)
        BY <3>1, <4>1, <1>9, FullDimension
      <4>3. O[l] + Past(shape, l) = O[k] + Past(shape, k)
        BY <3>1, <4>2
      <4>4. Q[l] = Q[k]
        <5>1. \A x \in Nat : 0 * x = 0
          OBVIOUS
        <5>2. 0 * Past(shape, l) = 0
          BY <5>1, <3>3
        <5>3. Q[k] \in Nat
          BY <3>1
        <5>4. Q[l] = Q[k] + 0
          BY <3>5, <4>1, <5>2
        <5>5. QED
          BY <5>3, <5>4
      <4>5. QED
        BY <3>2, <3>3, <3>8, <4>3, <4>4
    <3>9. QED
      BY <3>4, <3>6, <3>7, <3>8
  <2>2. QED
    BY <2>1, <1>13
<1>14. S = Nat
  <2>1. S \in SUBSET Nat
    OBVIOUS
  <2> HIDE DEF S
  <2>2. QED
    BY <1>12, <1>13, <2>1, EveryNumber
<1>15. Q[n] = O[n] + 1
  <2>1. n \in S
    <3> HIDE DEF S
    <3>1. QED
      BY <1>1, <1>14
  <2>2. n \in 0 .. n /\ ~(n < a)
    BY <1>1, <1>4
  <2>3. QED
    BY <2>1, <2>2, <1>11
<1>16. Place(next, shape) = Place(idx, shape) + 1
  <2>1. n \in 0 .. n
    BY <1>1
  <2>2. O[n] \in Nat
    BY <2>1
  <2>3. QED
    BY <2>2, <1>9, <1>10, <1>15
<1>17. QED
  BY <1>3, <1>7, <1>16

(* The invariant of the walk: the counters hold the index at the next      *)
(* place, until every element is gathered.                                 *)
WalkInv ==
  /\ chunk \in Chunk
  /\ out \in Seq({chunk.data[k] : k \in Nat}) /\ Len(out) <= Size
  /\ Len(out) < Size => InRange(index, chunk.shape) /\ Place(index, chunk.shape) = Len(out) + 1
  /\ GatheredInOrder

(* The counters start at the first place, if the shape has elements.       *)
LEMMA FirstIndex ==
  ASSUME NEW shape \in Seq(Nat), Product(shape) > 0
  PROVE  LET zeros == [d \in DOMAIN shape |-> 0]
         IN  InRange(zeros, shape) /\ Place(zeros, shape) = 1
<1> DEFINE n == Len(shape)  zeros == [d \in DOMAIN shape |-> 0]
<1>1. n \in Nat /\ DOMAIN shape = 1 .. n
  OBVIOUS
<1>2. zeros = [d \in 1 .. n |-> 0] /\ \A d \in 1 .. n : zeros[d] = 0
  BY <1>1
<1> HIDE DEF zeros
<1>3. zeros \in Seq(Nat) /\ Len(zeros) = n
  BY <1>1, <1>2
<1>4. \A d \in 1 .. n : zeros[d] < shape[d]
  <2> TAKE d \in 1 .. n
  <2>1. shape[d] \in Nat \ {0}
    BY PositiveExtents
  <2>2. QED
    BY <2>1, <1>2
<1>5. PICK O \in [0 .. n -> Nat] : Climbs(O, zeros, shape) /\ Place(zeros, shape) = O[n] + 1
  BY <1>3, PlaceByDimension
<1> DEFINE S == {k \in Nat : k \in 0 .. n => O[k] = 0}
<1>6. 0 \in S
  BY <1>5 DEF Climbs
<1>7. ASSUME NEW k \in S PROVE k + 1 \in S
  <2>1. ASSUME k + 1 \in 0 .. n PROVE O[k + 1] = 0
    <3>1. k \in 0 .. n /\ k + 1 \in 1 .. n /\ k + 1 \in 0 .. n /\ (k + 1) - 1 = k
      BY <2>1, <1>7
    <3>2. O[k + 1] = O[k] + zeros[k + 1] * Past(shape, k + 1) /\ O[k] = 0
      BY <3>1, <1>5, <1>7 DEF Climbs
    <3>3. Past(shape, k + 1) \in Nat
      BY <3>1, StrideByDimension
    <3>4. zeros[k + 1] = 0 /\ 0 * Past(shape, k + 1) = 0
      BY <3>1, <3>3, <1>2
    <3>5. QED
      BY <3>2, <3>4
  <2>2. QED
    BY <2>1, <1>7
<1>8. S = Nat
  <2>1. S \in SUBSET Nat
    OBVIOUS
  <2> HIDE DEF S
  <2>2. QED
    BY <1>6, <1>7, <2>1, EveryNumber
<1>9. O[n] = 0
  <2>1. n \in S
    <3> HIDE DEF S
    <3>1. QED
      BY <1>1, <1>8
  <2>2. QED
    BY <2>1, <1>1
<1>10. QED
  BY <1>3, <1>4, <1>5, <1>9 DEF InRange, zeros

(* A walk starts with nothing gathered, at the first place. *)
LEMMA WalkInitInv == WalkInit => WalkInv
<1> SUFFICES ASSUME WalkInit PROVE WalkInv
  OBVIOUS
<1>1. chunk \in Chunk /\ index = [d \in DOMAIN chunk.shape |-> 0] /\ out = <<>>
  BY DEF WalkInit
<1>2. chunk.shape \in Seq(Nat)
  BY <1>1, ChunkAssumption
<1>3. Size \in Nat
  BY <1>2, StrideByDimension DEF Size
<1>4. Len(out) = 0 /\ out \in Seq({chunk.data[k] : k \in Nat})
  BY <1>1
<1>5. ASSUME Len(out) < Size
      PROVE  InRange(index, chunk.shape) /\ Place(index, chunk.shape) = Len(out) + 1
  <2>1. Product(chunk.shape) > 0
    BY <1>3, <1>4, <1>5 DEF Size
  <2>2. InRange(index, chunk.shape) /\ Place(index, chunk.shape) = 1
    BY <2>1, <1>1, <1>2, FirstIndex
  <2>3. QED
    BY <2>2, <1>4
<1>6. GatheredInOrder
  BY <1>1 DEF GatheredInOrder
<1>7. QED
  BY <1>1, <1>3, <1>4, <1>5, <1>6 DEF WalkInv

(* A turn takes the element at the next place and moves the counters on.   *)
LEMMA GatherInv == WalkInv /\ Gather => WalkInv'
<1> SUFFICES ASSUME WalkInv, Gather PROVE WalkInv'
  OBVIOUS
<1> DEFINE shape == chunk.shape
           S == {chunk.data[k] : k \in Nat}
           new == chunk.data[Offset(index, chunk.stride) + 1]
<1>1. /\ Len(out) < Size /\ out' = Append(out, new)
      /\ index' = Advance(index, shape) /\ chunk' = chunk
  BY DEF Gather
<1>2. /\ chunk \in Chunk /\ out \in Seq(S) /\ GatheredInOrder
      /\ InRange(index, shape) /\ Place(index, shape) = Len(out) + 1
  BY <1>1 DEF WalkInv
<1>3. shape \in Seq(Nat) /\ chunk.stride \in Seq(Nat) /\ Len(chunk.stride) = Len(shape)
  BY <1>2, ChunkAssumption
<1>4. Size \in Nat /\ Size = Product(shape) /\ Size' = Size
  BY <1>1, <1>3, StrideByDimension DEF Size
<1>5. index \in Seq(Nat) /\ Len(index) = Len(shape)
  BY <1>2 DEF InRange
<1>6. Offset(index, chunk.stride) \in Nat
  <2>1. PICK O \in [0 .. Len(index) -> Nat] : Offset(index, chunk.stride) = O[Len(index)]
    BY <1>3, <1>5, OffsetByPlace
  <2>2. Len(index) \in 0 .. Len(index)
    BY <1>5
  <2>3. QED
    BY <2>1, <2>2
<1>7. new \in S
  BY <1>6
<1>8. Unravel(Len(out), shape) = index
  <2>1. Unravel((Len(out) + 1) - 1, shape) = index
    BY <1>2, <1>3, IndexOfPlace
  <2>2. Len(out) \in Nat /\ (Len(out) + 1) - 1 = Len(out)
    BY <1>2, LenProperties
  <2>3. QED
    BY <2>1, <2>2
<1> HIDE DEF S
<1>9. /\ out' \in Seq(S) /\ Len(out') = Len(out) + 1 /\ out'[Len(out) + 1] = new
      /\ \A n \in 1 .. Len(out) : out'[n] = out[n]
  <2> HIDE DEF new
  <2>1. QED
    BY <1>1, <1>2, <1>7, AppendProperties
<1>10. Len(out) \in Nat /\ DOMAIN out = 1 .. Len(out) /\ DOMAIN out' = 1 .. Len(out) + 1
  BY <1>2, <1>9, LenProperties
<1>11. ASSUME Len(out') < Size'
       PROVE  InRange(index', shape) /\ Place(index', shape) = Len(out') + 1
  <2>1. Place(index, shape) # Product(shape)
    BY <1>2, <1>4, <1>9, <1>10, <1>11
  <2>2. PICK e \in 1 .. Len(shape) : index[e] + 1 < shape[e]
    <3> HIDE DEF shape
    <3>1. QED
      BY <2>1, <1>2, <1>3, LastIndex
  <2>3. InRange(Advance(index, shape), shape) /\ Place(Advance(index, shape), shape) = Place(index, shape) + 1
    <3> HIDE DEF shape
    <3>1. QED
      BY <2>2, <1>2, <1>3, NextIndex
  <2>4. QED
    BY <2>3, <1>1, <1>2, <1>9
<1>12. GatheredInOrder'
  <2>1. ASSUME NEW n \in DOMAIN out'
        PROVE  out'[n] = chunk.data[Offset(Unravel(n - 1, shape), chunk.stride) + 1]
    <3>1. n \in 1 .. Len(out) \/ n = Len(out) + 1
      BY <2>1, <1>10
    <3>2. CASE n \in 1 .. Len(out)
      BY <3>2, <1>2, <1>9, <1>10 DEF GatheredInOrder
    <3>3. CASE n = Len(out) + 1
      <4>1. n - 1 = Len(out)
        BY <3>3, <1>10
      <4>2. Unravel(n - 1, shape) = index
        BY <4>1, <1>8
      <4>3. QED
        BY <3>3, <4>2, <1>9
    <3>4. QED
      BY <3>1, <3>2, <3>3
  <2>2. QED
    BY <2>1, <1>1 DEF GatheredInOrder
<1>13. /\ chunk' \in Chunk /\ out' \in Seq({chunk'.data[k] : k \in Nat})
       /\ Len(out') <= Size'
  <2>1. Len(out') <= Size'
    BY <1>1, <1>4, <1>9, <1>10
  <2>2. S = {chunk'.data[k] : k \in Nat}
    BY <1>1 DEF S
  <2>3. QED
    BY <2>1, <2>2, <1>1, <1>2, <1>9
<1>14. QED
  BY <1>1, <1>11, <1>12, <1>13 DEF WalkInv

(* The counters of chunkElements are always at the index whose place in C  *)
(* order is next, for a shape of any rank and strides of any kind.         *)
THEOREM WalkInvariance == WalkSpec => []WalkInv
<1>1. WalkInv /\ [Gather]_walk => WalkInv'
  <2>1. WalkInv /\ UNCHANGED walk => WalkInv'
    BY DEF WalkInv, walk, Size, GatheredInOrder
  <2>2. QED
    BY <2>1, GatherInv
<1>2. QED
  BY <1>1, WalkInitInv, PTL DEF WalkSpec

(* The elements are gathered in C order of the shape. *)
THEOREM ElementsInOrder == WalkSpec => []GatheredInOrder
<1>1. WalkInv => GatheredInOrder
  BY DEF WalkInv
<1>2. QED
  BY <1>1, WalkInvariance, PTL

=============================================================================
