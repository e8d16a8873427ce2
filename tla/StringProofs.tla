---------------------------- MODULE StringProofs ----------------------------
(***************************************************************************)
(* Proofs about strings.  Of code units: the loop of compareCodePoints     *)
(* orders any two, of any length and with lone surrogates anywhere, by     *)
(* the code points they spell.  Of bytes: what the three stores answer to  *)
(* a byte range, for every value and every range.                          *)
(***************************************************************************)
EXTENDS CodePoints, ByteRange, FiniteSetTheorems, SequenceTheorems,
        WellFoundedInduction, TLAPS

(* The positions below k at which a code point begins, and how many.       *)
Below(s, k) == {p \in Starts(s) : p < k}

(* No pair of surrogates lies across the border before position k.         *)
Border(s, k) == k = 1 \/ ~IsPair(s, k - 1)

(* The code points below k are counted from 1 on without a gap.            *)
Counted(s, k) ==
  \A n \in 1 .. Cardinality(Below(s, k)) : \E p \in Below(s, k) : Count(s, p) = n

(* The strings have been found the same up to the place the loop is at.    *)
SameBefore ==
  /\ i = j /\ i \in 1 .. Len(a) + 1 /\ i \in 1 .. Len(b) + 1
  /\ \A p \in 1 .. i - 1 : a[p] = b[p]
  /\ Border(a, i) /\ Border(b, i)
  /\ Counted(a, i)

CompareInv ==
  /\ a \in Seq(CodeUnit) /\ b \in Seq(CodeUnit)
  /\ SameBefore
  /\ result \in {-1, 0, 1, Running}
  /\ ComparesCodePoints

-----------------------------------------------------------------------------
(* Positions and counts. *)

(* The places where code points begin are finitely many, and so are those  *)
(* up to a position.                                                       *)
LEMMA StartsFinite ==
  ASSUME NEW s \in Seq(CodeUnit)
  PROVE  /\ IsFiniteSet(Starts(s)) /\ Cardinality(Starts(s)) \in Nat
         /\ \A k \in Int : /\ IsFiniteSet(Below(s, k)) /\ Cardinality(Below(s, k)) \in Nat
                           /\ Cardinality(Below(s, k)) <= Cardinality(Starts(s))
         /\ \A p \in Int : Count(s, p) = Cardinality(Below(s, p + 1))
<1>1. IsFiniteSet(1 .. Len(s))
  BY FS_Interval
<1>2. Starts(s) \subseteq 1 .. Len(s)
  BY DEF Starts
<1>3. IsFiniteSet(Starts(s))
  BY <1>1, <1>2, FS_Subset
<1>4. ASSUME NEW k \in Int
      PROVE  IsFiniteSet(Below(s, k)) /\ Cardinality(Below(s, k)) <= Cardinality(Starts(s))
  BY <1>3, FS_Subset DEF Below
<1>5. ASSUME NEW p \in Int
      PROVE  Count(s, p) = Cardinality(Below(s, p + 1))
  <2>1. {q \in Starts(s) : q <= p} = Below(s, p + 1)
    BY <1>2 DEF Below
  <2>2. QED
    BY <2>1 DEF Count
<1>6. QED
  BY <1>3, <1>4, <1>5, FS_CardinalityType

(* Passing the beginning of a code point counts one more.                  *)
LEMMA OneMore ==
  ASSUME NEW s \in Seq(CodeUnit), NEW p \in Starts(s)
  PROVE  /\ p \in 1 .. Len(s)
         /\ Below(s, p + 1) = Below(s, p) \cup {p}
         /\ Count(s, p) = Cardinality(Below(s, p)) + 1
<1>1. p \in 1 .. Len(s) /\ Starts(s) \subseteq 1 .. Len(s)
  BY DEF Starts
<1>2. Below(s, p + 1) = Below(s, p) \cup {p} /\ p \notin Below(s, p)
  BY <1>1 DEF Below
<1>3. IsFiniteSet(Below(s, p))
  BY <1>1, StartsFinite
<1>4. Cardinality(Below(s, p + 1)) = Cardinality(Below(s, p)) + 1
  BY <1>2, <1>3, FS_AddElement
<1>5. Count(s, p) = Cardinality(Below(s, p + 1))
  BY <1>1, StartsFinite
<1>6. QED
  BY <1>1, <1>2, <1>4, <1>5

(* Counts grow with the position, so the one with a count is found.        *)
LEMMA NthOfCount ==
  ASSUME NEW s \in Seq(CodeUnit), NEW p \in Starts(s)
  PROVE  /\ Count(s, p) \in 1 .. Cardinality(Starts(s))
         /\ Nth(s, Count(s, p)) = p
<1>1. \A q \in Starts(s) : q \in Nat /\ Count(s, q) = Cardinality(Below(s, q)) + 1
  BY OneMore
<1>2. ASSUME NEW q \in Starts(s), NEW r \in Starts(s), q < r
      PROVE  Count(s, q) < Count(s, r)
  <2>1. q \in Nat /\ r \in Nat
    BY <1>1
  <2>2. Below(s, q + 1) \subseteq Below(s, r)
    <3>1. ASSUME NEW t \in Starts(s), t < q + 1
          PROVE  t < r
      <4>1. t \in Nat
        BY <1>1
      <4>2. QED
        BY <2>1, <1>2, <3>1, <4>1
    <3>2. QED
      BY <3>1 DEF Below
  <2>3. IsFiniteSet(Below(s, r))
    BY <2>1, StartsFinite
  <2>4. Cardinality(Below(s, q + 1)) <= Cardinality(Below(s, r))
    BY <2>2, <2>3, FS_Subset
  <2>5. Count(s, q) = Cardinality(Below(s, q + 1)) /\ Cardinality(Below(s, r)) \in Nat
        /\ Cardinality(Below(s, q + 1)) \in Nat
    BY <2>1, StartsFinite
  <2>6. QED
    BY <1>1, <2>4, <2>5
<1>3. \A q \in Starts(s) : Count(s, q) = Count(s, p) => q = p
  <2>1. ASSUME NEW q \in Starts(s), Count(s, q) = Count(s, p)
        PROVE  q = p
    <3>1. ~(q < p) /\ ~(p < q)
      <4>1. Count(s, p) \in Int
        <5>1. p \in Int
          BY <1>1
        <5>2. QED
          BY <5>1, StartsFinite
      <4>2. QED
        BY <1>2, <2>1, <4>1
    <3>2. QED
      BY <1>1, <3>1
  <2>2. QED
    BY <2>1
<1>4. Nth(s, Count(s, p)) = p
  BY <1>3 DEF Nth
<1>5. p + 1 \in Int /\ p \in Int
  BY <1>1
<1>6. Count(s, p) = Cardinality(Below(s, p + 1)) /\ Cardinality(Below(s, p)) \in Nat
  BY <1>5, StartsFinite
<1>7. Cardinality(Below(s, p + 1)) <= Cardinality(Starts(s))
  BY <1>5, StartsFinite
<1>8. Count(s, p) = Cardinality(Below(s, p)) + 1 /\ Cardinality(Starts(s)) \in Nat
  BY <1>1, StartsFinite
<1>9. Count(s, p) \in 1 .. Cardinality(Starts(s))
  BY <1>6, <1>7, <1>8
<1>10. QED
  BY <1>4, <1>9

(* What a string spells at the place of a code point.                      *)
LEMMA SpelledAt ==
  ASSUME NEW s \in Seq(CodeUnit), NEW p \in Starts(s)
  PROVE  /\ Count(s, p) \in 1 .. Len(Spelled(s))
         /\ Spelled(s)[Count(s, p)] = Point(s, p)
<1>1. Len(Spelled(s)) = Cardinality(Starts(s))
  BY StartsFinite DEF Spelled
<1>2. Count(s, p) \in 1 .. Cardinality(Starts(s)) /\ Nth(s, Count(s, p)) = p
  BY NthOfCount
<1>3. Spelled(s)[Count(s, p)] = Point(s, Nth(s, Count(s, p)))
  BY <1>2 DEF Spelled
<1>4. QED
  BY <1>1, <1>2, <1>3

(* What a code unit is as a number.                                        *)
LEMMA UnitBounds ==
  ASSUME NEW c \in CodeUnit
  PROVE  c \in Nat /\ ~(c > 65535)
<1>1. c \in Int /\ 0 <= c /\ c <= 65535
  BY DEF CodeUnit
<1>2. QED
  BY <1>1

(* A pair of surrogates stands for a number past every code unit.          *)
LEMMA CombinedBounds ==
  ASSUME NEW h \in High, NEW t \in Trail
  PROVE  Combined(h, t) \in Nat /\ Combined(h, t) > 65535
<1>1. h \in Int /\ 55296 <= h
  BY DEF High
<1>2. t \in Int /\ 56320 <= t
  BY DEF Trail
<1>3. QED
  BY <1>1, <1>2 DEF Combined

(* No code unit is the first of a pair and the second of another.          *)
LEMMA NotBoth ==
  ASSUME NEW t \in Trail
  PROVE  t \notin High
<1>1. t \in Int /\ 56320 <= t
  BY DEF Trail
<1>2. \A h \in High : h \in Int /\ h <= 56319
  BY DEF High
<1>3. QED
  BY <1>1, <1>2

(* Different pairs stand for different numbers.                            *)
LEMMA CombinedInjective ==
  ASSUME NEW h \in High, NEW t \in Trail, NEW g \in High, NEW u \in Trail,
         Combined(h, t) = Combined(g, u)
  PROVE  h = g /\ t = u
<1>1. /\ h \in Int /\ g \in Int /\ t \in Int /\ u \in Int
      /\ 56320 <= t /\ t <= 57343 /\ 56320 <= u /\ u <= 57343
  BY DEF High, Trail
<1>2. 1024 * h + t = 1024 * g + u
  BY <1>1 DEF Combined
<1>3. h = g
  BY <1>1, <1>2
<1>4. QED
  BY <1>1, <1>2, <1>3

(* A code point is a natural number, past the code units for a pair.       *)
LEMMA PointType ==
  ASSUME NEW s \in Seq(CodeUnit), NEW p \in 1 .. Len(s)
  PROVE  /\ CodePointAt(s, p) = Point(s, p) /\ Point(s, p) \in Nat
         /\ IsPair(s, p) <=> Point(s, p) > 65535
<1>1. s[p] \in CodeUnit
  OBVIOUS
<1>2. p < Len(s) => s[p + 1] \in CodeUnit
  OBVIOUS
<1>3. CASE IsPair(s, p)
  <2>1. s[p] \in High /\ s[p + 1] \in Trail
    BY <1>3 DEF IsPair
  <2>2. Combined(s[p], s[p + 1]) \in Nat /\ Combined(s[p], s[p + 1]) > 65535
    BY <2>1, CombinedBounds
  <2>3. QED
    BY <1>3, <2>2 DEF CodePointAt, Point
<1>4. CASE ~IsPair(s, p)
  <2>1. s[p] \in Nat /\ ~(s[p] > 65535)
    BY <1>1, UnitBounds
  <2>2. QED
    BY <1>4, <2>1 DEF CodePointAt, Point
<1>5. QED
  BY <1>3, <1>4

-----------------------------------------------------------------------------
(* Two strings that are the same below a position. *)

(* They spell the same code points below it.                               *)
LEMMA SameSpelled ==
  ASSUME NEW s \in Seq(CodeUnit), NEW t \in Seq(CodeUnit), NEW k \in Nat \ {0},
         k <= Len(s) + 1, k <= Len(t) + 1, \A p \in 1 .. k - 1 : s[p] = t[p],
         Border(s, k), Border(t, k), Counted(s, k)
  PROVE  /\ Below(s, k) = Below(t, k) /\ Counted(t, k)
         /\ \A n \in 1 .. Cardinality(Below(s, k)) :
              /\ n <= Len(Spelled(s)) /\ n <= Len(Spelled(t))
              /\ Spelled(s)[n] = Spelled(t)[n] /\ Spelled(s)[n] \in Nat
<1>1. ASSUME NEW p \in 1 .. k - 1
      PROVE  /\ IsPair(s, p) <=> IsPair(t, p)
             /\ Point(s, p) = Point(t, p)
  <2>1. s[p] = t[p]
    OBVIOUS
  <2>2. CASE p + 1 = k
    <3>1. ~IsPair(s, p) /\ ~IsPair(t, p)
      BY <2>2 DEF Border
    <3>2. QED
      BY <2>1, <3>1 DEF Point
  <2>3. CASE p + 1 # k
    <3>1. p + 1 \in 1 .. k - 1 /\ p < Len(s) /\ p < Len(t)
      BY <2>3
    <3>2. s[p + 1] = t[p + 1]
      BY <3>1
    <3>3. QED
      BY <2>1, <3>1, <3>2 DEF IsPair, Point
  <2>4. QED
    BY <2>2, <2>3
<1>2. \A p \in 1 .. k - 1 : p \in Starts(s) <=> p \in Starts(t)
  <2>1. ASSUME NEW p \in 1 .. k - 1
        PROVE  p \in Starts(s) <=> p \in Starts(t)
    <3>1. p \in DOMAIN s /\ p \in DOMAIN t
      OBVIOUS
    <3>2. p # 1 => (IsPair(s, p - 1) <=> IsPair(t, p - 1))
      BY <1>1
    <3>3. QED
      BY <3>1, <3>2 DEF Starts
  <2>2. QED
    BY <2>1
<1>3. Starts(s) \subseteq Nat \ {0} /\ Starts(t) \subseteq Nat \ {0}
  BY DEF Starts
<1>4. \A m \in 1 .. k : Below(s, m) = Below(t, m)
  BY <1>2, <1>3 DEF Below
<1>5. \A p \in Below(s, k) : p \in Starts(s) /\ p \in Starts(t) /\ p \in 1 .. k - 1
  BY <1>2, <1>3 DEF Below
<1>6. \A p \in Below(s, k) : Count(s, p) = Count(t, p)
  <2>1. ASSUME NEW p \in Below(s, k)
        PROVE  Count(s, p) = Count(t, p)
    <3>1. p + 1 \in 1 .. k /\ p \in Int
      BY <1>5
    <3>2. QED
      BY <1>4, <3>1, StartsFinite
  <2>2. QED
    BY <2>1
<1>7. Below(s, k) = Below(t, k)
  BY <1>4
<1>8. ASSUME NEW n \in 1 .. Cardinality(Below(s, k))
      PROVE  /\ n <= Len(Spelled(s)) /\ n <= Len(Spelled(t))
             /\ Spelled(s)[n] = Spelled(t)[n] /\ Spelled(s)[n] \in Nat
  <2>1. PICK p \in Below(s, k) : Count(s, p) = n
    BY DEF Counted
  <2>2. p \in Starts(s) /\ p \in Starts(t) /\ p \in 1 .. k - 1 /\ Count(t, p) = n
    BY <1>5, <1>6, <2>1
  <2>3. n \in 1 .. Len(Spelled(s)) /\ Spelled(s)[n] = Point(s, p)
    BY <2>1, <2>2, SpelledAt
  <2>4. n \in 1 .. Len(Spelled(t)) /\ Spelled(t)[n] = Point(t, p)
    BY <2>2, SpelledAt
  <2>5. Point(s, p) \in Nat
    BY <2>2, PointType
  <2>6. QED
    BY <1>1, <2>2, <2>3, <2>4, <2>5
<1>9. Counted(t, k)
  BY <1>6, <1>7 DEF Counted
<1>10. QED
  BY <1>7, <1>8, <1>9

(* Of two sequences that are the same up to their n-th element the next    *)
(* element decides ...                                                     *)
LEMMA NextDecides ==
  ASSUME NEW U, NEW S \in Seq(U), NEW T \in Seq(U), NEW n \in Nat,
         n <= Len(S), n <= Len(T), \A m \in 1 .. n : S[m] = T[m] /\ S[m] \in Nat,
         n < Len(S), n < Len(T), S[n + 1] \in Nat, T[n + 1] \in Nat, S[n + 1] < T[n + 1]
  PROVE  Precedes(S, T) /\ ~Precedes(T, S)
<1>1. Precedes(S, T)
  <2>1. n \in 0 .. Len(S)
    OBVIOUS
  <2>2. QED
    BY <2>1 DEF Precedes
<1>2. ASSUME NEW o \in 0 .. Len(T), o <= Len(S), \A m \in 1 .. o : T[m] = S[m],
             \/ o = Len(T) /\ o < Len(S)
             \/ o < Len(T) /\ o < Len(S) /\ T[o + 1] < S[o + 1]
      PROVE  FALSE
  <2>1. S[n + 1] \in Nat /\ T[n + 1] \in Nat
    OBVIOUS
  <2>2. o <= n
    <3>1. n < o => T[n + 1] = S[n + 1]
      BY <1>2
    <3>2. QED
      BY <2>1, <3>1
  <2>3. o < Len(T) /\ o < Len(S) /\ T[o + 1] < S[o + 1]
    BY <1>2, <2>2
  <2>4. CASE o = n
    BY <2>1, <2>3, <2>4
  <2>5. CASE o < n
    <3>1. o + 1 \in 1 .. n
      BY <2>5
    <3>2. S[o + 1] = T[o + 1] /\ S[o + 1] \in Nat
      BY <2>3, <3>1
    <3>3. QED
      BY <2>3, <3>2
  <2>6. QED
    BY <2>2, <2>4, <2>5
<1>3. QED
  BY <1>1, <1>2 DEF Precedes

(* ... or the end of the shorter ...                                       *)
LEMMA EndDecides ==
  ASSUME NEW U, NEW S \in Seq(U), NEW T \in Seq(U), NEW n \in Nat,
         n <= Len(S), n <= Len(T), \A m \in 1 .. n : S[m] = T[m] /\ S[m] \in Nat,
         n = Len(S), n < Len(T)
  PROVE  Precedes(S, T) /\ ~Precedes(T, S)
<1>1. Precedes(S, T)
  <2>1. n \in 0 .. Len(S)
    OBVIOUS
  <2>2. QED
    BY <2>1 DEF Precedes
<1>2. ASSUME NEW o \in 0 .. Len(T), o <= Len(S), \A m \in 1 .. o : T[m] = S[m],
             \/ o = Len(T) /\ o < Len(S)
             \/ o < Len(T) /\ o < Len(S) /\ T[o + 1] < S[o + 1]
      PROVE  FALSE
  <2>1. o < Len(S) /\ T[o + 1] < S[o + 1]
    BY <1>2
  <2>2. o + 1 \in 1 .. n
    BY <2>1
  <2>3. S[o + 1] = T[o + 1] /\ S[o + 1] \in Nat
    BY <2>2
  <2>4. QED
    BY <2>1, <2>3
<1>3. QED
  BY <1>1, <1>2 DEF Precedes

(* ... and nothing precedes what is the same.                              *)
LEMMA SamePrecedesNot ==
  ASSUME NEW U, NEW S \in Seq(U), NEW T \in Seq(U), NEW n \in Nat,
         n <= Len(S), n <= Len(T), \A m \in 1 .. n : S[m] = T[m] /\ S[m] \in Nat,
         n = Len(S), n = Len(T)
  PROVE  ~Precedes(S, T)
<1>1. ASSUME NEW o \in 0 .. Len(S), o < Len(S), S[o + 1] < T[o + 1]
      PROVE  FALSE
  <2>1. o + 1 \in 1 .. n
    BY <1>1
  <2>2. S[o + 1] = T[o + 1] /\ S[o + 1] \in Nat
    BY <2>1
  <2>3. QED
    BY <1>1, <2>2
<1>2. QED
  BY <1>1 DEF Precedes

(* What two strings spell are sequences, to be compared as such.           *)
LEMMA SpelledSequences ==
  ASSUME NEW s \in Seq(CodeUnit), NEW t \in Seq(CodeUnit)
  PROVE  \E U : /\ Spelled(s) \in Seq(U) /\ Len(Spelled(s)) = Cardinality(Starts(s))
                /\ Spelled(t) \in Seq(U) /\ Len(Spelled(t)) = Cardinality(Starts(t))
<1> DEFINE U == {Point(s, Nth(s, n)) : n \in 1 .. Cardinality(Starts(s))}
                  \cup {Point(t, Nth(t, n)) : n \in 1 .. Cardinality(Starts(t))}
<1>1. Cardinality(Starts(s)) \in Nat /\ Cardinality(Starts(t)) \in Nat
  BY StartsFinite
<1>2. /\ \A n \in 1 .. Cardinality(Starts(s)) : Point(s, Nth(s, n)) \in U
      /\ \A n \in 1 .. Cardinality(Starts(t)) : Point(t, Nth(t, n)) \in U
  OBVIOUS
<1> HIDE DEF U
<1>3. Spelled(s) \in Seq(U) /\ Len(Spelled(s)) = Cardinality(Starts(s))
  BY <1>1, <1>2 DEF Spelled
<1>4. Spelled(t) \in Seq(U) /\ Len(Spelled(t)) = Cardinality(Starts(t))
  BY <1>1, <1>2 DEF Spelled
<1>5. QED
  BY <1>3, <1>4
-----------------------------------------------------------------------------
(* The loop. *)

(* The two code points the loop compares are those after the common ones.  *)
LEMMA NextPoint ==
  ASSUME NEW s \in Seq(CodeUnit), NEW k \in Nat \ {0}, k <= Len(s), Border(s, k)
  PROVE  /\ k \in Starts(s) /\ Count(s, k) = Cardinality(Below(s, k)) + 1
         /\ Cardinality(Below(s, k)) + 1 \in 1 .. Cardinality(Starts(s))
         /\ Spelled(s)[Cardinality(Below(s, k)) + 1] = CodePointAt(s, k)
         /\ CodePointAt(s, k) \in Nat
<1>1. k \in Starts(s) /\ k \in 1 .. Len(s)
  BY DEF Border, Starts
<1>2. QED
  BY <1>1, OneMore, NthOfCount, SpelledAt, PointType

(* After the last position all code points are counted.                    *)
LEMMA AllBelow ==
  ASSUME NEW s \in Seq(CodeUnit)
  PROVE  Below(s, Len(s) + 1) = Starts(s)
BY DEF Below, Starts

(* Two code points that are the same are the same code units.              *)
LEMMA SameUnits ==
  ASSUME NEW s \in Seq(CodeUnit), NEW t \in Seq(CodeUnit),
         NEW k \in 1 .. Len(s), k \in 1 .. Len(t), CodePointAt(s, k) = CodePointAt(t, k)
  PROVE  /\ IsPair(s, k) <=> IsPair(t, k)
         /\ s[k] = t[k] /\ (IsPair(s, k) => s[k + 1] = t[k + 1])
         /\ UnitsOf(CodePointAt(s, k)) = (IF IsPair(s, k) THEN 2 ELSE 1)
         /\ UnitsOf(CodePointAt(t, k)) = (IF IsPair(s, k) THEN 2 ELSE 1)
<1>1. IsPair(s, k) <=> IsPair(t, k)
  BY PointType
<1>2. CASE IsPair(s, k)
  <2>1. /\ s[k] \in High /\ s[k + 1] \in Trail /\ t[k] \in High /\ t[k + 1] \in Trail
        /\ Combined(s[k], s[k + 1]) = Combined(t[k], t[k + 1])
    BY <1>1, <1>2 DEF IsPair, CodePointAt
  <2>2. s[k] = t[k] /\ s[k + 1] = t[k + 1]
    BY <2>1, CombinedInjective
  <2>3. CodePointAt(s, k) > 65535
    BY <1>2, PointType
  <2>4. QED
    BY <1>1, <1>2, <2>2, <2>3 DEF UnitsOf
<1>3. CASE ~IsPair(s, k)
  <2>1. ~(CodePointAt(s, k) > 65535)
    BY <1>3, PointType
  <2>2. QED
    BY <1>1, <1>3, <2>1 DEF UnitsOf, CodePointAt
<1>4. QED
  BY <1>2, <1>3

(* Past a code point the next begins, and one more is counted.             *)
LEMMA Passed ==
  ASSUME NEW s \in Seq(CodeUnit), NEW k \in Nat \ {0}, k <= Len(s),
         Border(s, k), Counted(s, k),
         NEW w, w = IF IsPair(s, k) THEN 2 ELSE 1
  PROVE  /\ k + w <= Len(s) + 1 /\ Border(s, k + w) /\ Counted(s, k + w)
<1>1. k \in Starts(s) /\ k \in 1 .. Len(s) /\ Starts(s) \subseteq 1 .. Len(s)
  BY DEF Border, Starts
<1>2. k + w <= Len(s) + 1 /\ w \in {1, 2}
  BY DEF IsPair
<1>3. Border(s, k + w)
  <2>1. CASE IsPair(s, k)
    <3>1. s[k + 1] \in Trail
      BY <2>1 DEF IsPair
    <3>2. ~(s[k + 1] \in High)
      BY <3>1, NotBoth
    <3>3. k + w - 1 = k + 1
      BY <2>1
    <3>4. QED
      BY <3>2, <3>3 DEF Border, IsPair
  <2>2. CASE ~IsPair(s, k)
    <3>1. k + w - 1 = k
      BY <2>2
    <3>2. QED
      BY <2>2, <3>1 DEF Border
  <2>3. QED
    BY <2>1, <2>2
<1>4. Below(s, k + w) = Below(s, k) \cup {k} /\ k \notin Below(s, k)
  <2>1. CASE IsPair(s, k)
    <3>1. k + 1 \notin Starts(s)
      <4>1. k + 1 # 1 /\ (k + 1) - 1 = k
        OBVIOUS
      <4>2. QED
        BY <2>1, <4>1 DEF Starts
    <3>2. \A p \in Starts(s) : p < k + 2 <=> p < k \/ p = k
      BY <1>1, <3>1
    <3>3. k + w = k + 2
      BY <2>1
    <3>4. QED
      BY <1>1, <3>2, <3>3 DEF Below
  <2>2. CASE ~IsPair(s, k)
    BY <1>1, <2>2 DEF Below
  <2>3. QED
    BY <2>1, <2>2
<1>5. Cardinality(Below(s, k + w)) = Cardinality(Below(s, k)) + 1
      /\ Cardinality(Below(s, k)) \in Nat
  <2>1. IsFiniteSet(Below(s, k)) /\ Cardinality(Below(s, k)) \in Nat
    BY StartsFinite
  <2>2. QED
    BY <1>4, <2>1, FS_AddElement
<1>6. ASSUME NEW n \in 1 .. Cardinality(Below(s, k + w))
      PROVE  \E p \in Below(s, k + w) : Count(s, p) = n
  <2>1. CASE n = Cardinality(Below(s, k)) + 1
    <3>1. Count(s, k) = n
      BY <1>1, <2>1, OneMore
    <3>2. QED
      BY <1>4, <3>1
  <2>2. CASE n # Cardinality(Below(s, k)) + 1
    <3>1. n \in 1 .. Cardinality(Below(s, k))
      BY <1>5, <2>2
    <3>2. QED
      BY <1>4, <3>1 DEF Counted
  <2>3. QED
    BY <2>1, <2>2
<1>7. QED
  BY <1>2, <1>3, <1>6 DEF Counted

(* The loop begins with nothing compared.                                  *)
LEMMA CompareInitInv == CompareInit => CompareInv
<1> SUFFICES ASSUME CompareInit
             PROVE  CompareInv
  OBVIOUS
<1>1. a \in Seq(CodeUnit) /\ b \in Seq(CodeUnit)
  BY StringAssumption DEF CompareInit
<1>2. Below(a, 1) = {}
  <2>1. \A p \in Starts(a) : ~(p < 1)
    BY <1>1 DEF Starts
  <2>2. QED
    BY <2>1 DEF Below
<1>3. Counted(a, 1)
  <2>1. Cardinality(Below(a, 1)) = 0
    BY <1>2, FS_EmptySet
  <2>2. QED
    BY <2>1 DEF Counted
<1>4. QED
  BY <1>1, <1>3 DEF CompareInit, CompareInv, SameBefore, Border, ComparesCodePoints, Running

(* One turn: the code points differ and decide, or both are passed.        *)
LEMMA StepInv == CompareInv /\ Step => CompareInv'
<1> SUFFICES ASSUME CompareInv, Step
             PROVE  CompareInv'
  OBVIOUS
<1>1. /\ a \in Seq(CodeUnit) /\ b \in Seq(CodeUnit) /\ a' = a /\ b' = b
      /\ result = Running /\ i = j /\ i \in Nat \ {0} /\ i <= Len(a) /\ i <= Len(b)
      /\ i \in 1 .. Len(a) /\ i \in 1 .. Len(b)
      /\ \A p \in 1 .. i - 1 : a[p] = b[p]
      /\ Border(a, i) /\ Border(b, i) /\ Counted(a, i)
  BY DEF CompareInv, SameBefore, Step
<1> DEFINE ca == CodePointAt(a, i)
           cb == CodePointAt(b, i)
           n  == Cardinality(Below(a, i))
<1>2. /\ Below(a, i) = Below(b, i) /\ Counted(b, i)
      /\ \A m \in 1 .. n : /\ m <= Len(Spelled(a)) /\ m <= Len(Spelled(b))
                           /\ Spelled(a)[m] = Spelled(b)[m] /\ Spelled(a)[m] \in Nat
  <2>1. i <= Len(a) + 1 /\ i <= Len(b) + 1
    BY <1>1
  <2>2. QED
    BY <1>1, <2>1, SameSpelled
<1>3. CASE ca # cb
  <2>1. result' = (IF ca < cb THEN -1 ELSE 1) /\ i' = i /\ j' = j
    BY <1>1, <1>3 DEF Step
  <2>2. PICK U : /\ Spelled(a) \in Seq(U) /\ Len(Spelled(a)) = Cardinality(Starts(a))
                 /\ Spelled(b) \in Seq(U) /\ Len(Spelled(b)) = Cardinality(Starts(b))
    BY <1>1, SpelledSequences
  <2>3. /\ n + 1 \in 1 .. Len(Spelled(a)) /\ Spelled(a)[n + 1] = ca /\ ca \in Nat
        /\ n + 1 \in 1 .. Len(Spelled(b)) /\ Spelled(b)[n + 1] = cb /\ cb \in Nat
    BY <1>1, <1>2, <2>2, NextPoint
  <2>4. n \in Nat /\ n < Len(Spelled(a)) /\ n < Len(Spelled(b))
    <3>1. n \in Nat
      BY <1>1, StartsFinite
    <3>2. QED
      BY <2>2, <2>3, <3>1
  <2>5. \A m \in 1 .. n : Spelled(b)[m] = Spelled(a)[m] /\ Spelled(b)[m] \in Nat
    BY <1>2
  <2>6. ASSUME ca < cb
        PROVE  Precedes(Spelled(a), Spelled(b)) /\ ~Precedes(Spelled(b), Spelled(a))
    <3>1. /\ Spelled(a)[n + 1] \in Nat /\ Spelled(b)[n + 1] \in Nat
          /\ Spelled(a)[n + 1] < Spelled(b)[n + 1]
          /\ n <= Len(Spelled(a)) /\ n <= Len(Spelled(b))
      BY <2>3, <2>4, <2>6
    <3> HIDE DEF n, ca, cb
    <3>2. QED
      BY <1>2, <2>2, <2>4, <3>1, NextDecides
  <2>7. ASSUME cb < ca
        PROVE  Precedes(Spelled(b), Spelled(a)) /\ ~Precedes(Spelled(a), Spelled(b))
    <3>1. /\ Spelled(a)[n + 1] \in Nat /\ Spelled(b)[n + 1] \in Nat
          /\ Spelled(b)[n + 1] < Spelled(a)[n + 1]
          /\ n <= Len(Spelled(a)) /\ n <= Len(Spelled(b))
      BY <2>3, <2>4, <2>7
    <3> HIDE DEF n, ca, cb
    <3>2. QED
      BY <2>2, <2>4, <2>5, <3>1, NextDecides
  <2>8. a # b
    BY <1>3
  <2>9. ComparesCodePoints'
    <3> HIDE DEF ca, cb
    <3>1. CASE ca < cb
      <4>1. result' = -1
        BY <2>1, <3>1
      <4>2. QED
        BY <1>1, <2>6, <2>8, <3>1, <4>1 DEF ComparesCodePoints
    <3>2. CASE cb < ca
      <4>1. result' = 1
        BY <2>1, <2>3, <3>2
      <4>2. QED
        BY <1>1, <2>7, <2>8, <3>2, <4>1 DEF ComparesCodePoints
    <3>3. QED
      BY <1>3, <2>3, <3>1, <3>2
  <2>10. result' \in {-1, 0, 1, Running}
    BY <2>1
  <2>11. SameBefore'
    BY <1>1, <2>1 DEF CompareInv, SameBefore, Border, Counted
  <2>12. QED
    BY <1>1, <2>9, <2>10, <2>11 DEF CompareInv
<1>4. CASE ca = cb
  <2> DEFINE w == IF IsPair(a, i) THEN 2 ELSE 1
  <2>1. /\ IsPair(a, i) <=> IsPair(b, i)
        /\ a[i] = b[i] /\ (IsPair(a, i) => a[i + 1] = b[i + 1])
        /\ UnitsOf(ca) = w /\ UnitsOf(cb) = w
    BY <1>1, <1>4, SameUnits
  <2>2. i' = i + w /\ j' = i + w /\ result' = Running
    <3>1. i' = i + UnitsOf(ca) /\ j' = j + UnitsOf(cb) /\ result' = result
      BY <1>1, <1>4 DEF Step
    <3>2. QED
      BY <1>1, <2>1, <3>1
  <2>3. i + w <= Len(a) + 1 /\ Border(a, i + w) /\ Counted(a, i + w)
    BY <1>1, Passed
  <2>4. w = IF IsPair(b, i) THEN 2 ELSE 1
    BY <2>1
  <2>5. i + w <= Len(b) + 1 /\ Border(b, i + w)
    <3> HIDE DEF w
    <3>1. QED
      BY <1>1, <1>2, <2>4, Passed
  <2>6. ASSUME NEW p \in 1 .. (i + w) - 1
        PROVE  a[p] = b[p]
    <3>1. w \in {1, 2} /\ (w = 2 => IsPair(a, i))
      OBVIOUS
    <3> HIDE DEF w
    <3>2. p \in 1 .. i - 1 \/ p = i \/ (w = 2 /\ p = i + 1)
      BY <1>1, <3>1
    <3>3. QED
      BY <1>1, <2>1, <3>1, <3>2
  <2>7. SameBefore'
    <3>1. i + w \in 1 .. Len(a) + 1 /\ i + w \in 1 .. Len(b) + 1
      BY <1>1, <2>3, <2>5
    <3> HIDE DEF w
    <3>2. QED
      BY <1>1, <2>2, <2>3, <2>5, <2>6, <3>1 DEF SameBefore, Border, Counted
  <2>8. QED
    BY <1>1, <2>2, <2>7 DEF CompareInv, ComparesCodePoints
<1>5. QED
  BY <1>3, <1>4

(* A string is at its end: the other is longer, or is the same.            *)
LEMMA EndInv == CompareInv /\ End => CompareInv'
<1> SUFFICES ASSUME CompareInv, End
             PROVE  CompareInv'
  OBVIOUS
<1>1. /\ a \in Seq(CodeUnit) /\ b \in Seq(CodeUnit) /\ a' = a /\ b' = b /\ i' = i /\ j' = j
      /\ i = j /\ i \in Nat \ {0} /\ i <= Len(a) + 1 /\ i <= Len(b) + 1
      /\ \A p \in 1 .. i - 1 : a[p] = b[p]
      /\ Border(a, i) /\ Border(b, i) /\ Counted(a, i)
      /\ i > Len(a) \/ i > Len(b)
  BY DEF CompareInv, SameBefore, End
<1> DEFINE n == Cardinality(Below(a, i))
<1>2. /\ Below(a, i) = Below(b, i)
      /\ \A m \in 1 .. n : /\ m <= Len(Spelled(a)) /\ m <= Len(Spelled(b))
                           /\ Spelled(a)[m] = Spelled(b)[m] /\ Spelled(a)[m] \in Nat
  BY <1>1, SameSpelled
<1>3. PICK U : /\ Spelled(a) \in Seq(U) /\ Len(Spelled(a)) = Cardinality(Starts(a))
               /\ Spelled(b) \in Seq(U) /\ Len(Spelled(b)) = Cardinality(Starts(b))
  BY <1>1, SpelledSequences
<1>4. \A m \in 1 .. n : Spelled(b)[m] = Spelled(a)[m] /\ Spelled(b)[m] \in Nat
  BY <1>2
<1>5. n \in Nat
  BY <1>1, StartsFinite
<1>6. result' = IF Len(a) < Len(b) THEN -1 ELSE IF Len(b) < Len(a) THEN 1 ELSE 0
  BY <1>1 DEF End
<1>7. i = Len(a) + 1 => n = Len(Spelled(a))
  BY <1>1, <1>3, AllBelow
<1>8. i = Len(b) + 1 => n = Len(Spelled(b))
  BY <1>1, <1>2, <1>3, AllBelow
<1>9. i <= Len(a) => n < Len(Spelled(a))
  <2>1. ASSUME i <= Len(a)
        PROVE  n < Len(Spelled(a))
    <3>1. n + 1 \in 1 .. Len(Spelled(a))
      BY <1>1, <1>3, <2>1, NextPoint
    <3>2. QED
      BY <1>3, <1>5, <3>1
  <2>2. QED
    BY <2>1
<1>10. i <= Len(b) => n < Len(Spelled(b))
  <2>1. ASSUME i <= Len(b)
        PROVE  n < Len(Spelled(b))
    <3>1. n + 1 \in 1 .. Len(Spelled(b))
      BY <1>1, <1>2, <1>3, <2>1, NextPoint
    <3>2. QED
      BY <1>3, <1>5, <3>1
  <2>2. QED
    BY <2>1
<1> HIDE DEF n
<1>11. ComparesCodePoints'
  <2>1. CASE i = Len(a) + 1 /\ i <= Len(b)
    <3>1. result' = -1 /\ a # b
      BY <1>1, <1>6, <2>1
    <3>2. n = Len(Spelled(a)) /\ n < Len(Spelled(b))
      BY <1>7, <1>10, <2>1
    <3>3. Precedes(Spelled(a), Spelled(b)) /\ ~Precedes(Spelled(b), Spelled(a))
      BY <1>2, <1>3, <1>5, <3>2, EndDecides
    <3>4. QED
      BY <1>1, <3>1, <3>3 DEF ComparesCodePoints
  <2>2. CASE i = Len(b) + 1 /\ i <= Len(a)
    <3>1. result' = 1 /\ a # b
      BY <1>1, <1>6, <2>2
    <3>2. n = Len(Spelled(b)) /\ n < Len(Spelled(a))
      BY <1>8, <1>9, <2>2
    <3>3. Precedes(Spelled(b), Spelled(a)) /\ ~Precedes(Spelled(a), Spelled(b))
      BY <1>3, <1>4, <1>5, <3>2, EndDecides
    <3>4. QED
      BY <1>1, <3>1, <3>3 DEF ComparesCodePoints
  <2>3. CASE i = Len(a) + 1 /\ i = Len(b) + 1
    <3>1. result' = 0
      BY <1>1, <1>6, <2>3
    <3>2. a = b
      BY <1>1, <2>3
    <3>3. n = Len(Spelled(a)) /\ n = Len(Spelled(b))
      BY <1>7, <1>8, <2>3
    <3>4. ~Precedes(Spelled(a), Spelled(b))
      BY <1>2, <1>3, <1>5, <3>3, SamePrecedesNot
    <3>5. QED
      BY <1>1, <3>1, <3>2, <3>4 DEF ComparesCodePoints
  <2>4. QED
    BY <1>1, <2>1, <2>2, <2>3
<1>12. result' \in {-1, 0, 1, Running}
  BY <1>6
<1>13. SameBefore'
  BY <1>1 DEF CompareInv, SameBefore, Border, Counted
<1>14. QED
  BY <1>1, <1>11, <1>12, <1>13 DEF CompareInv

(* The inductive invariant: below the place the loop is at the strings are *)
(* the same, unit for unit and so code point for code point.               *)
THEOREM CompareInvariance == CompareSpec => []CompareInv
<1>1. CompareInv /\ UNCHANGED compareVars => CompareInv'
  BY DEF CompareInv, SameBefore, Border, Counted, ComparesCodePoints, compareVars
<1>2. CompareInv /\ [CompareNext]_compareVars => CompareInv'
  BY <1>1, StepInv, EndInv DEF CompareNext
<1>3. QED
  BY CompareInitInv, <1>2, PTL DEF CompareSpec

(* compareCodePoints gives the order of the sequences of code points, for  *)
(* any two strings of code units, and zero for equal strings only.         *)
THEOREM OrderIsOfCodePoints == CompareSpec => []ComparesCodePoints
<1>1. CompareInv => ComparesCodePoints
  BY DEF CompareInv
<1>2. QED
  BY <1>1, CompareInvariance, PTL
-----------------------------------------------------------------------------
(* Byte ranges. *)

(* The value is one that a key may hold; a reader asks from the front on.  *)
RangesInv == value \in Value /\ asked \in Nat

(* Cutting a value between two positions that are in it.                   *)
LEMMA SliceWithin ==
  ASSUME NEW v \in Seq(0 .. 255), NEW from \in Nat, NEW to \in Nat, from <= to, to <= Len(v)
  PROVE  Len(Slice(v, from, to)) = to - from
BY DEF Slice, Smaller

(* Cutting off the last bytes of a value.                                  *)
LEMMA LastBytes ==
  ASSUME NEW v \in Seq(0 .. 255), NEW n \in Nat, n <= Len(v)
  PROVE  Len(Slice(v, Len(v) - n, Len(v))) = n
<1>1. Smaller(Len(v) - n, Len(v)) = Len(v) - n /\ Smaller(Len(v), Len(v)) = Len(v)
  BY DEF Smaller
<1>2. Slice(v, Len(v) - n, Len(v)) = SubSeq(v, Len(v) - n + 1, Len(v))
  BY <1>1 DEF Slice
<1>3. QED
  BY <1>2

(* What is left of a value from a position on is its end.                  *)
LEMMA SliceToEnd ==
  ASSUME NEW v \in Seq(0 .. 255), NEW from \in Nat, NEW to \in Nat, to >= Len(v)
  PROVE  IsSuffix(Slice(v, from, to), v)
<1> DEFINE start == Smaller(from, Len(v))
           rest  == Slice(v, from, to)
<1>1. start \in 0 .. Len(v)
  BY DEF Smaller
<1>2. rest = SubSeq(v, start + 1, Len(v))
  <2>1. Smaller(to, Len(v)) = Len(v)
    BY DEF Smaller
  <2>2. QED
    BY <2>1 DEF Slice
<1>3. /\ Len(rest) = Len(v) - start
      /\ \A m \in 1 .. Len(v) - start : rest[m] = v[start + m]
  BY <1>1, <1>2
<1> HIDE DEF rest, start
<1> DEFINE back == Reverse(rest)  all == Reverse(v)
<1>4. /\ Len(back) = Len(v) - start /\ Len(all) = Len(v)
      /\ \A m \in 1 .. Len(v) - start : back[m] = all[m]
  <2>1. \A m \in 1 .. Len(v) - start : rest[(Len(v) - start) - m + 1] = v[Len(v) - m + 1]
    <3>1. ASSUME NEW m \in 1 .. Len(v) - start
          PROVE  rest[(Len(v) - start) - m + 1] = v[Len(v) - m + 1]
      <4>1. (Len(v) - start) - m + 1 \in 1 .. Len(v) - start
        BY <1>1
      <4>2. start + ((Len(v) - start) - m + 1) = Len(v) - m + 1
        BY <1>1
      <4>3. QED
        BY <1>3, <4>1, <4>2
    <3>2. QED
      BY <3>1
  <2>2. QED
    BY <1>1, <1>3, <2>1 DEF Reverse
<1>5. SubSeq(back, 1, Len(back)) = SubSeq(all, 1, Len(back))
  BY <1>1, <1>4
<1>6. QED
  BY <1>1, <1>4, <1>5 DEF IsSuffix, IsPrefix, rest

(* What a step that asks for a range answers.                              *)
RangeAnswered(r) ==
  LET inside == IF r.kind = "suffix" THEN r.length <= Len(value)
                ELSE r.start + r.length <= Len(value)
  IN  IF inside
      THEN answers'.py = answers'.ts /\ answers'.rs = answers'.ts
           /\ Len(answers'.ts.is) = r.length
      ELSE /\ answers'.rs = Refused
           /\ IsSuffix(answers'.ts.is, value)

(* Any range of the two kinds, in the value or past its end.               *)
LEMMA AskAnswers ==
  ASSUME RangesInv, NEW k \in {"range", "suffix"}, NEW start \in Nat, NEW length \in Nat,
         Ask([kind |-> k, start |-> start, length |-> length])
  PROVE  RangeAnswered([kind |-> k, start |-> start, length |-> length])
<1> DEFINE r == [kind |-> k, start |-> start, length |-> length]
<1>1. value \in Seq(0 .. 255) /\ Len(value) < Width /\ Width \in Nat /\ Len(value) \in Nat
  BY ValueAssumption DEF RangesInv
<1>2. /\ answers'.py = Got(ApplyRange(value, r)) /\ answers'.ts = Got(ApplyRange(value, r))
      /\ answers'.rs = Partial(value, r)
  BY DEF Ask
<1>3. answers'.ts.is = ApplyRange(value, r)
  BY <1>2 DEF Got
<1>4. CASE k = "suffix"
  <2>1. CASE length <= Len(value)
    <3>1. ApplyRange(value, r) = Slice(value, Len(value) - length, Len(value))
      BY <1>1, <1>4, <2>1 DEF ApplyRange, Larger
    <3>2. Partial(value, r) = Got(Slice(value, Len(value) - length, Len(value)))
      BY <1>1, <1>4, <2>1 DEF Partial
    <3>3. Len(Slice(value, Len(value) - length, Len(value))) = length
      BY <1>1, <2>1, LastBytes
    <3>4. QED
      BY <1>2, <1>3, <1>4, <2>1, <3>1, <3>2, <3>3 DEF RangeAnswered
  <2>2. CASE length > Len(value)
    <3>1. ApplyRange(value, r) = Slice(value, 0, Len(value))
      BY <1>1, <1>4, <2>2 DEF ApplyRange, Larger
    <3>2. Partial(value, r) = Refused
      BY <1>1, <1>4, <2>2 DEF Partial
    <3>3. IsSuffix(Slice(value, 0, Len(value)), value)
      BY <1>1, SliceToEnd
    <3>4. ~(length <= Len(value))
      BY <1>1, <2>2
    <3>5. QED
      BY <1>2, <1>3, <1>4, <3>1, <3>2, <3>3, <3>4 DEF RangeAnswered
  <2>3. QED
    BY <1>1, <2>1, <2>2
<1>5. CASE k = "range"
  <2>1. ApplyRange(value, r) = Slice(value, start, start + length)
    BY <1>5 DEF ApplyRange
  <2>2. CASE start + length <= Len(value)
    <3>1. Partial(value, r) = Got(Slice(value, start, start + length))
      BY <1>1, <1>5, <2>2 DEF Partial
    <3>2. Len(Slice(value, start, start + length)) = length
      BY <1>1, <2>2, SliceWithin
    <3>3. QED
      BY <1>2, <1>3, <1>5, <2>1, <2>2, <3>1, <3>2 DEF RangeAnswered
  <2>3. CASE start + length > Len(value)
    <3>1. Partial(value, r) = Refused
      BY <1>1, <1>5, <2>3 DEF Partial
    <3>2. IsSuffix(Slice(value, start, start + length), value)
      BY <1>1, <2>3, SliceToEnd
    <3>3. ~(start + length <= Len(value))
      BY <1>1, <2>3
    <3>4. QED
      BY <1>2, <1>3, <1>5, <2>1, <3>1, <3>2, <3>3 DEF RangeAnswered
  <2>4. QED
    BY <1>1, <2>2, <2>3
<1>6. QED
  BY <1>4, <1>5

(* The value stays one a key may hold.                                     *)
LEMMA RangesInvariance == RangesSpec => []RangesInv
<1>1. RangesInit => RangesInv
  BY DEF RangesInit, RangesInv
<1>2. RangesInv /\ [RangesNext]_rangeVars => RangesInv'
  <2>1. ASSUME RangesInv, NEW r, Get(r)
        PROVE  RangesInv'
    BY <2>1 DEF RangesInv, Get
  <2>2. ASSUME RangesInv, NEW n \in 1 .. 2, GetNext(n)
        PROVE  RangesInv'
    <3>1. asked' = asked + n /\ value' = value
      BY <2>2 DEF GetNext
    <3>2. QED
      BY <2>2, <3>1 DEF RangesInv
  <2>3. ASSUME RangesInv, NEW v \in Value, Replace(v)
        PROVE  RangesInv'
    BY <2>3 DEF RangesInv, Replace
  <2>4. RangesInv /\ UNCHANGED rangeVars => RangesInv'
    BY DEF RangesInv, rangeVars
  <2>5. QED
    BY <2>1, <2>2, <2>3, <2>4 DEF RangesNext
<1>3. QED
  BY <1>1, <1>2, PTL DEF RangesSpec

(* The three stores give the same bytes for a range that is in the value,  *)
(* as many as asked for; for any other Rust refuses, and Python and        *)
(* TypeScript give what is left of the value.                              *)
THEOREM StoresGiveTheSame == RangesSpec => StoresAgree
<1> DEFINE Agrees == answers' # answers => RangeAnswered(request')
<1>1. ASSUME RangesInv, [RangesNext]_rangeVars
      PROVE  [Agrees]_rangeVars
  <2>1. ASSUME NEW k \in {"range", "suffix"}, NEW start \in Nat, NEW length \in Nat,
               Ask([kind |-> k, start |-> start, length |-> length])
        PROVE  Agrees
    <3>1. request' = [kind |-> k, start |-> start, length |-> length]
      BY <2>1 DEF Ask
    <3>2. RangeAnswered([kind |-> k, start |-> start, length |-> length])
      BY <1>1, <2>1, AskAnswers
    <3>3. QED
      BY <3>1, <3>2
  <2>2. Number \subseteq Nat
    BY ValueAssumption DEF Number
  <2>3. ASSUME NEW s \in Number, NEW n \in Number,
               Get([kind |-> "range", start |-> s, length |-> n])
        PROVE  Agrees
    BY <2>1, <2>2, <2>3 DEF Get
  <2>4. ASSUME NEW n \in Number, Get([kind |-> "suffix", start |-> 0, length |-> n])
        PROVE  Agrees
    BY <2>1, <2>2, <2>4 DEF Get
  <2>5. ASSUME NEW n \in 1 .. 2, GetNext(n)
        PROVE  Agrees
    <3>1. Ask([kind |-> "range", start |-> asked, length |-> n]) /\ asked \in Nat
      BY <1>1, <2>5 DEF GetNext, RangesInv
    <3>2. QED
      BY <2>1, <3>1
  <2>6. ASSUME NEW v \in Value, Replace(v)
        PROVE  Agrees
    BY <2>6 DEF Replace
  <2>7. CASE UNCHANGED rangeVars
    BY <2>7
  <2>8. QED
    BY <1>1, <2>3, <2>4, <2>5, <2>6, <2>7 DEF RangesNext
<1>2. [Agrees]_rangeVars =>
        [LET r == request'
             inside == IF r.kind = "suffix" THEN r.length <= Len(value)
                       ELSE r.start + r.length <= Len(value)
         IN  answers' # answers =>
               IF inside
               THEN answers'.py = answers'.ts /\ answers'.rs = answers'.ts
                    /\ Len(answers'.ts.is) = r.length
               ELSE /\ answers'.rs = Refused
                    /\ IsSuffix(answers'.ts.is, value)]_rangeVars
  BY DEF RangeAnswered
<1>3. QED
  BY <1>1, <1>2, RangesInvariance, PTL DEF RangesSpec, StoresAgree
-----------------------------------------------------------------------------
(* Sequences joined one after the other.  FlattenSeq is a recursive        *)
(* function: that there is one, and only one, is by induction.             *)

(* A set of numbers with 0, and with every number the next, has them all.  *)
LEMMA EveryNumber ==
  ASSUME NEW S \in SUBSET Nat, 0 \in S, \A n \in S : n + 1 \in S
  PROVE  S = Nat
<1> SUFFICES ASSUME Nat \ S # {} PROVE FALSE
  OBVIOUS
<1> DEFINE R == OpToRel(<, Nat)
<1>1. \E x \in Nat \ S : \A y \in Nat \ S : ~ (<<y, x>> \in R)
  <2>1. IsWellFoundedOn(R, Nat)
    BY NatLessThanWellFounded
  <2> HIDE DEF R
  <2>2. QED
    BY <2>1, WFMin
<1>2. PICK x \in Nat \ S : \A y \in Nat \ S : ~(y < x)
  BY <1>1 DEF OpToRel
<1>3. x - 1 \in Nat /\ x - 1 \in S
  BY <1>2
<1>4. QED
  BY <1>2, <1>3

(* The value of the function at n, given those before, and the equation it *)
(* satisfies up to m.                                                      *)
Joined(f, s, n) == IF n = 1 THEN s[n] ELSE f[n - 1] \o s[n]
Joins(f, s, m)  == [n \in 1 .. m |-> Joined(f, s, n)]

(* A function satisfies the equation when it does at each place.           *)
LEMMA JoinEquations ==
  ASSUME NEW f, NEW s, NEW m \in Nat
  PROVE  f = Joins(f, s, m) <=> /\ f = [n \in 1 .. m |-> f[n]]
                                /\ \A n \in 1 .. m : f[n] = Joined(f, s, n)
<1> DEFINE h == Joins(f, s, m)
<1>1. h = [n \in 1 .. m |-> h[n]] /\ \A n \in 1 .. m : h[n] = Joined(f, s, n)
  BY DEF Joins
<1> HIDE DEF h
<1>2. f = h => /\ f = [n \in 1 .. m |-> f[n]]
               /\ \A n \in 1 .. m : f[n] = Joined(f, s, n)
  BY <1>1, Zenon
<1>3. ASSUME f = [n \in 1 .. m |-> f[n]], \A n \in 1 .. m : f[n] = Joined(f, s, n)
      PROVE  f = h
  <2>1. \A n \in 1 .. m : f[n] = h[n]
    BY <1>1, <1>3, Zenon
  <2>2. QED
    BY <1>1, <1>3, <2>1
<1>4. QED
  BY <1>2, <1>3 DEF h

(* There is such a function up to every place.                             *)
LEMMA JoinExists ==
  ASSUME NEW s, NEW m \in Nat
  PROVE  \E f : f = Joins(f, s, m)
<1> DEFINE S == {n \in Nat : \E f : f = Joins(f, s, n)}
<1>1. 0 \in S
  <2> DEFINE f == [n \in 1 .. 0 |-> <<>>]
  <2>1. f = Joins(f, s, 0)
    BY DEF Joins
  <2>2. QED
    BY <2>1
<1>2. ASSUME NEW k \in S PROVE k + 1 \in S
  <2>1. PICK f : f = Joins(f, s, k)
    OBVIOUS
  <2> DEFINE g == [n \in 1 .. k + 1 |-> IF n <= k THEN f[n] ELSE Joined(f, s, n)]
  <2>2. \A n \in 1 .. k : g[n] = f[n] /\ f[n] = Joined(f, s, n)
    BY <2>1, JoinEquations
  <2>3. \A n \in 1 .. k + 1 : Joined(g, s, n) = Joined(f, s, n)
    BY <2>2 DEF Joined
  <2>4. \A n \in 1 .. k + 1 : g[n] = Joined(g, s, n)
    BY <2>2, <2>3
  <2>5. g = [n \in 1 .. k + 1 |-> g[n]]
    OBVIOUS
  <2> HIDE DEF g
  <2>6. g = Joins(g, s, k + 1)
    BY <2>4, <2>5, JoinEquations
  <2>7. QED
    BY <2>6
<1>3. S = Nat
  <2>1. S \in SUBSET Nat
    OBVIOUS
  <2> HIDE DEF S
  <2>2. QED
    BY <1>1, <1>2, <2>1, EveryNumber
<1>4. QED
  BY <1>3

(* Two that join sequences with a common front agree on it.                *)
JoinFront(f, s, g, t, m) ==
  \A n \in 1 .. m : f[n] = Joined(f, s, n) /\ g[n] = Joined(g, t, n) /\ s[n] = t[n]

(* They do, by induction on the place.                                     *)
LEMMA JoinUnique ==
  ASSUME NEW f, NEW s, NEW g, NEW t, NEW m \in Nat, JoinFront(f, s, g, t, m)
  PROVE  \A n \in 1 .. m : f[n] = g[n]
<1> DEFINE S == {n \in Nat : n \in 1 .. m => f[n] = g[n]}
<1>1. 0 \in S
  OBVIOUS
<1>2. ASSUME NEW k \in S PROVE k + 1 \in S
  <2>1. SUFFICES ASSUME k + 1 \in 1 .. m
                 PROVE  f[k + 1] = g[k + 1]
    OBVIOUS
  <2>2. (k + 1) - 1 = k /\ k \in Nat /\ (k = 0 \/ k \in 1 .. m)
    BY <2>1
  <2>3. f[k + 1] = Joined(f, s, k + 1) /\ g[k + 1] = Joined(g, t, k + 1) /\ s[k + 1] = t[k + 1]
    BY <2>1 DEF JoinFront
  <2>4. Joined(f, s, k + 1) = Joined(g, t, k + 1)
    BY <2>2, <2>3 DEF Joined
  <2>5. QED
    BY <2>3, <2>4
<1>3. S = Nat
  <2>1. S \in SUBSET Nat
    OBVIOUS
  <2> HIDE DEF S
  <2>2. QED
    BY <1>1, <1>2, <2>1, EveryNumber
<1>4. QED
  BY <1>3

(* What FlattenSeq makes of a sequence of sequences is the last value.     *)
LEMMA FlattenIsJoined ==
  ASSUME NEW T, NEW s \in Seq(T), s # <<>>
  PROVE  \E f : /\ \A n \in 1 .. Len(s) : f[n] = Joined(f, s, n)
                /\ FlattenSeq(s) = f[Len(s)]
<1>1. Len(s) \in Nat /\ Len(s) # 0
  OBVIOUS
<1> DEFINE f == CHOOSE f : f = Joins(f, s, Len(s))
<1>2. f = Joins(f, s, Len(s))
  BY <1>1, JoinExists
<1>3. FlattenSeq(s) = f[Len(s)]
  BY <1>1 DEF FlattenSeq, Joins, Joined
<1> HIDE DEF f
<1>4. \A n \in 1 .. Len(s) : f[n] = Joined(f, s, n)
  BY <1>1, <1>2, JoinEquations
<1>5. QED
  BY <1>3, <1>4

(* One piece more is joined to the end.                                    *)
LEMMA FlattenAppend ==
  ASSUME NEW T, NEW s \in Seq(T), NEW e \in T
  PROVE  FlattenSeq(Append(s, e)) = IF s = <<>> THEN e ELSE FlattenSeq(s) \o e
<1> DEFINE t == Append(s, e)
           m == Len(s)
<1>1. /\ t \in Seq(T) /\ t # <<>> /\ Len(t) = m + 1 /\ t[m + 1] = e /\ m \in Nat
      /\ \A n \in 1 .. m : s[n] = t[n]
  OBVIOUS
<1> HIDE DEF t
<1>2. PICK g : /\ \A n \in 1 .. m + 1 : g[n] = Joined(g, t, n)
               /\ FlattenSeq(t) = g[m + 1]
  BY <1>1, FlattenIsJoined
<1>3. g[m + 1] = IF m = 0 THEN e ELSE g[m] \o e
  <2>1. m + 1 \in 1 .. m + 1 /\ (m + 1) - 1 = m /\ (m + 1 = 1 <=> m = 0)
    BY <1>1
  <2>2. QED
    BY <1>1, <1>2, <2>1 DEF Joined
<1>4. CASE s = <<>>
  BY <1>2, <1>3, <1>4 DEF t
<1>5. CASE s # <<>>
  <2>1. PICK f : /\ \A n \in 1 .. m : f[n] = Joined(f, s, n)
                 /\ FlattenSeq(s) = f[m]
    BY <1>5, FlattenIsJoined
  <2>2. JoinFront(f, s, g, t, m)
    BY <1>1, <1>2, <2>1 DEF JoinFront
  <2>3. \A n \in 1 .. m : f[n] = g[n]
    <3>1. m \in Nat
      BY <1>1
    <3> HIDE DEF m
    <3>2. QED
      BY <2>2, <3>1, JoinUnique
  <2>4. m \in 1 .. m /\ m # 0
    BY <1>1, <1>5
  <2>5. QED
    BY <1>2, <1>3, <1>5, <2>1, <2>3, <2>4 DEF t
<1>6. QED
  BY <1>4, <1>5

(* What is cut out of a value is bytes.                                    *)
LEMMA SliceType ==
  ASSUME NEW B, NEW v \in Seq(B), NEW from \in Nat, NEW to \in Nat
  PROVE  Slice(v, from, to) \in Seq(B)
<1> DEFINE first == Smaller(from, Len(v)) + 1
           last  == Smaller(to, Len(v))
<1>1. first \in 1 .. Len(v) + 1 /\ last \in 0 .. Len(v)
  BY DEF Smaller
<1>2. Slice(v, from, to) = SubSeq(v, first, last)
  BY DEF Slice
<1> HIDE DEF first, last
<1>3. SubSeq(v, first, last) \in Seq(B)
  <2>1. \A p \in first .. last : v[p] \in B
    BY <1>1
  <2>2. first \in Int /\ last \in Int
    BY <1>1
  <2>3. QED
    BY <2>1, <2>2, SubSeqProperties
<1>4. QED
  BY <1>2, <1>3

(* A value cut in two is the front and what follows it.                    *)
LEMMA SliceJoin ==
  ASSUME NEW v \in Seq(0 .. 255), NEW from \in Nat, NEW n \in Nat, from <= Len(v)
  PROVE  Slice(v, 0, from) \o Slice(v, from, from + n) = Slice(v, 0, from + n)
<1> DEFINE to == Smaller(from + n, Len(v))
<1>1. to \in Nat /\ from <= to /\ to <= Len(v)
  BY DEF Smaller
<1>2. /\ Slice(v, 0, from) = SubSeq(v, 1, from)
      /\ Slice(v, from, from + n) = SubSeq(v, from + 1, to)
      /\ Slice(v, 0, from + n) = SubSeq(v, 1, to)
  <2>1. Smaller(0, Len(v)) = 0 /\ Smaller(from, Len(v)) = from /\ 0 + 1 = 1
    BY DEF Smaller
  <2> HIDE DEF to
  <2>2. Slice(v, 0, from) = SubSeq(v, 1, from)
    BY <2>1 DEF Slice
  <2>3. Slice(v, from, from + n) = SubSeq(v, from + 1, to)
    BY <2>1 DEF Slice, to
  <2>4. Slice(v, 0, from + n) = SubSeq(v, 1, to)
    BY <2>1 DEF Slice, to
  <2>5. QED
    BY <2>2, <2>3, <2>4
<1> HIDE DEF to
<1>3. SubSeq(v, 1, from) \o SubSeq(v, from + 1, to) = SubSeq(v, 1, to)
  BY <1>1
<1>4. QED
  BY <1>2, <1>3

(* A reader has the pieces of what it asked for, and of a value that was   *)
(* not replaced they are the front.                                        *)
PiecesInv ==
  /\ RangesInv
  /\ pieces \in Seq(Seq(0 .. 255)) /\ (pieces = <<>> <=> asked = 0)
  /\ still \in BOOLEAN
  /\ PiecesMakeValue

(* The next piece, of a value that was not replaced since the first.       *)
LEMMA GetNextInv ==
  ASSUME PiecesInv, NEW n \in 1 .. 2, GetNext(n)
  PROVE  PiecesInv'
<1> DEFINE e == Slice(value, asked, asked + n)
<1>1. /\ value \in Value /\ value \in Seq(0 .. 255) /\ Len(value) \in Nat /\ asked \in Nat
      /\ pieces \in Seq(Seq(0 .. 255)) /\ (pieces = <<>> <=> asked = 0)
  BY ValueAssumption DEF PiecesInv, RangesInv
<1>2. /\ value' = value /\ asked' = asked + n /\ asked < Len(value)
      /\ still' = (pieces = <<>> \/ still)
  BY DEF GetNext
<1>3. pieces' = Append(pieces, e)
  BY DEF GetNext, ApplyRange
<1>4. e \in Seq(0 .. 255)
  <2>1. asked + n \in Nat
    BY <1>1
  <2>2. QED
    BY <1>1, <2>1, SliceType
<1> HIDE DEF e
<1>5. pieces' \in Seq(Seq(0 .. 255)) /\ pieces' # <<>> /\ asked' \in Nat /\ asked' # 0
  BY <1>1, <1>2, <1>3, <1>4
<1>6. FlattenSeq(pieces') = IF pieces = <<>> THEN e ELSE FlattenSeq(pieces) \o e
  BY <1>1, <1>3, <1>4, FlattenAppend
<1>7. Slice(value, 0, asked) \o e = Slice(value, 0, asked + n)
  <2>1. asked <= Len(value) /\ n \in Nat
    BY <1>1, <1>2
  <2>2. QED
    BY <1>1, <2>1, SliceJoin DEF e
<1>8. ASSUME still'
      PROVE  FlattenSeq(pieces') = Slice(value, 0, asked + n)
  <2>1. CASE pieces = <<>>
    <3>1. asked = 0 /\ asked + n = n
      BY <1>1, <2>1
    <3>2. e = Slice(value, 0, asked + n)
      BY <3>1 DEF e
    <3>3. QED
      BY <1>6, <2>1, <3>2
  <2>2. CASE pieces # <<>>
    <3>1. FlattenSeq(pieces) = Slice(value, 0, asked)
      BY <1>2, <1>8, <2>2 DEF PiecesInv, PiecesMakeValue
    <3>2. QED
      BY <1>6, <1>7, <2>2, <3>1
  <2>3. QED
    BY <2>1, <2>2
<1>9. PiecesMakeValue'
  BY <1>2, <1>8 DEF PiecesMakeValue
<1>10. still' \in BOOLEAN
  BY <1>2 DEF PiecesInv
<1>11. QED
  BY <1>1, <1>2, <1>5, <1>9, <1>10 DEF PiecesInv, RangesInv

(* A value fetched piece by piece, by pieces of any lengths, is the value: *)
(* nothing is skipped or fetched twice where the pieces meet.              *)
THEOREM PiecesJoinToValue == RangesSpec => []PiecesMakeValue
<1>1. RangesInit => PiecesInv
  <2> SUFFICES ASSUME RangesInit
               PROVE  PiecesInv
    OBVIOUS
  <2>1. value \in Value /\ value \in Seq(0 .. 255) /\ asked = 0 /\ pieces = <<>> /\ still = TRUE
    BY ValueAssumption DEF RangesInit
  <2>2. FlattenSeq(<<>>) = <<>>
    BY DEF FlattenSeq
  <2>3. Slice(value, 0, 0) = <<>>
    <3>1. Smaller(0, Len(value)) = 0
      BY <2>1 DEF Smaller
    <3>2. QED
      BY <2>1, <3>1 DEF Slice
  <2>4. QED
    BY <2>1, <2>2, <2>3 DEF PiecesInv, RangesInv, PiecesMakeValue
<1>2. PiecesInv /\ [RangesNext]_rangeVars => PiecesInv'
  <2>1. ASSUME PiecesInv, NEW r, Get(r)
        PROVE  PiecesInv'
    BY <2>1 DEF PiecesInv, RangesInv, PiecesMakeValue, Get
  <2>2. ASSUME PiecesInv, NEW v \in Value, Replace(v)
        PROVE  PiecesInv'
    BY <2>2 DEF PiecesInv, RangesInv, PiecesMakeValue, Replace
  <2>3. PiecesInv /\ UNCHANGED rangeVars => PiecesInv'
    BY DEF PiecesInv, RangesInv, PiecesMakeValue, rangeVars
  <2>4. QED
    BY <2>1, <2>2, <2>3, GetNextInv DEF RangesNext
<1>3. PiecesInv => PiecesMakeValue
  BY DEF PiecesInv
<1>4. QED
  BY <1>1, <1>2, <1>3, PTL DEF RangesSpec

=============================================================================
