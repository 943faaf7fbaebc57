-------------------------- MODULE PiecePlanProofs --------------------------
(***************************************************************************)
(* Theorems about PiecePlan, for every size, piece size, block size and    *)
(* number of segments: its types, that the ranges of the workers cover the *)
(* file once, and that neither workers, rows nor completed blocks claim a  *)
(* byte that was not written.                                              *)
(*                                                                         *)
(* The arithmetic of pieces, blocks and lanes comes first; it is reduced   *)
(* to what a quotient is and how products are ordered.                     *)
(***************************************************************************)
EXTENDS PiecePlan, FiniteSetTheorems, FunctionTheorems, SequenceTheorems,
        NaturalsInduction, WellFoundedInduction, TLAPS

(***************************************************************************)
(* Arithmetic.                                                             *)
(***************************************************************************)

\* A set of numbers has a least one.
LEMMA LeastNumber ==
    ASSUME NEW S \in SUBSET Nat, S # {}
    PROVE  \E n \in S : \A m \in S : n <= m
<1>1. PICK n \in S : \A m \in S : ~(<<m, n>> \in OpToRel(<, Nat))
  BY NatLessThanWellFounded, WFMin, Zenon
<1>2. \A m \in S : ~(m < n)
  BY <1>1 DEF OpToRel
<1>3. n \in Nat /\ \A m \in S : m \in Nat
  OBVIOUS
<1> QED BY <1>2, <1>3

\* What a quotient is.
LEMMA Quotient ==
    ASSUME NEW a \in Nat, NEW b \in Nat \ {0}
    PROVE  /\ a \div b \in Nat
           /\ (a \div b) * b <= a /\ a < (a \div b) * b + b
  OBVIOUS

\* Products are ordered as their first factors are.
LEMMA Products ==
    ASSUME NEW a \in Nat, NEW b \in Nat, NEW c \in Nat \ {0}
    PROVE  /\ a * c \in Nat
           /\ a <= b <=> a * c <= b * c
           /\ (a + 1) * c = a * c + c
  OBVIOUS

\* A rounded up quotient is the least number of parts that suffices.
LEMMA RoundedUp ==
    ASSUME NEW a \in Nat \ {0}, NEW b \in Nat \ {0}
    PROVE  \E n \in Nat : /\ DivCeil(a, b) = n + 1
                          /\ n * b < a /\ a <= n * b + b
<1>1. PICK q : q = DivCeil(a, b)
  OBVIOUS
<1>2. q \in Nat /\ q * b <= a + b - 1 /\ a + b - 1 < q * b + b
  BY <1>1, Quotient DEF DivCeil
<1>3. q # 0
  BY <1>2
<1>4. PICK n \in Nat : q = n + 1
  BY <1>2, <1>3
<1>5. q * b = n * b + b /\ n * b \in Nat
  BY <1>4, Products
<1> QED BY <1>1, <1>2, <1>4, <1>5

(***************************************************************************)
(* Pieces and blocks.                                                      *)
(***************************************************************************)
IsLayout(l) == l \in [size : Nat \ {0}, piece : Nat \ {0}, block : Nat \ {0}]

\* What the planner makes of a size and a number of segments is a layout.
LEMMA LayoutTypes ==
    ASSUME NEW total \in Nat \ {0}, NEW requested \in Nat
    PROVE  /\ Layout(total, requested) \in [size : {total}, piece : 1..MaxPiece, block : 1..MaxBlock]
           /\ IsLayout(Layout(total, requested))
<1>1. PICK c \in Nat \ {0} : c = AtMost(AtLeast(requested, 1), total)
  BY DEF AtMost, AtLeast
<1>2. PICK d \in Nat : DivCeil(total, AtMost(AtLeast(requested, 1), total)) = d + 1
  BY <1>1, RoundedUp
<1>3. PieceSize(total, requested) \in 1..MaxPiece
  BY <1>2, PlanAssumption DEF PieceSize, AtMost
<1>4. AtMost(PieceSize(total, requested), MaxBlock) \in 1..MaxBlock
  BY <1>3, PlanAssumption DEF AtMost
<1> QED BY <1>3, <1>4 DEF Layout, IsLayout

\* There is a piece; all but the last are full, and the last ends with the file.
LEMMA Pieces ==
    ASSUME NEW l, IsLayout(l)
    PROVE  /\ PieceCount(l) \in Nat \ {0}
           /\ (PieceCount(l) - 1) * l.piece < l.size
           /\ l.size <= PieceCount(l) * l.piece
<1>0. l.size \in Nat \ {0} /\ l.piece \in Nat \ {0}
  BY DEF IsLayout
<1>1. PICK n \in Nat : /\ PieceCount(l) = n + 1
                       /\ n * l.piece < l.size /\ l.size <= n * l.piece + l.piece
  BY <1>0, RoundedUp DEF PieceCount
<1>2. PieceCount(l) - 1 = n /\ PieceCount(l) * l.piece = n * l.piece + l.piece
  BY <1>0, <1>1, Products
<1> QED BY <1>1, <1>2

\* The ends of pieces.
LEMMA PieceEnds ==
    ASSUME NEW l, IsLayout(l), NEW p \in 0..(PieceCount(l) - 1)
    PROVE  /\ PieceEnd(l, p) \in Nat
           /\ p * l.piece < PieceEnd(l, p) /\ PieceEnd(l, p) <= l.size
           /\ PieceEnd(l, p) <= (p + 1) * l.piece
           /\ p + 1 < PieceCount(l) => PieceEnd(l, p) = (p + 1) * l.piece
           /\ p + 1 = PieceCount(l) => PieceEnd(l, p) = l.size
           /\ \A q \in 0..p : PieceEnd(l, q) <= PieceEnd(l, p)
<1>0. l.size \in Nat \ {0} /\ l.piece \in Nat \ {0} /\ p \in Nat
  BY Pieces DEF IsLayout
<1>1. PICK n \in Nat : /\ PieceCount(l) = n + 1
                       /\ n * l.piece < l.size /\ l.size <= n * l.piece + l.piece
  BY <1>0, RoundedUp DEF PieceCount
<1>2. p * l.piece \in Nat /\ (p + 1) * l.piece = p * l.piece + l.piece /\ p * l.piece <= n * l.piece
  BY <1>0, <1>1, Products
<1>3. p + 1 < PieceCount(l) => (p + 1) * l.piece <= n * l.piece
  BY <1>0, <1>1, Products
<1>4. p + 1 = PieceCount(l) => (p + 1) * l.piece = n * l.piece + l.piece
  BY <1>1, <1>2
<1>5. \A q \in 0..p : (q + 1) * l.piece \in Nat /\ (q + 1) * l.piece <= (p + 1) * l.piece
  BY <1>0, Products
<1> QED BY <1>0, <1>1, <1>2, <1>3, <1>4, <1>5 DEF PieceEnd, AtMost

\* A block is not empty, begins in its piece and ends no later than it does.
LEMMA BlockTypes ==
    ASSUME NEW l, IsLayout(l), NEW b \in Blocks(l)
    PROVE  /\ b[1] \in 0..(PieceCount(l) - 1) /\ Offset(l, b) \in Nat /\ BlockEnd(l, b) \in Nat
           /\ b[1] * l.piece <= Offset(l, b) /\ Offset(l, b) < BlockEnd(l, b)
           /\ BlockEnd(l, b) <= PieceEnd(l, b[1]) /\ BlockEnd(l, b) <= l.size
<1>0. /\ l.size \in Nat \ {0} /\ l.piece \in Nat \ {0} /\ l.block \in Nat \ {0}
      /\ b[1] \in 0..(PieceCount(l) - 1) /\ b[2] \in Nat /\ Offset(l, b) < PieceEnd(l, b[1])
  <2>1. l.size \in Nat \ {0} /\ l.piece \in Nat \ {0} /\ l.block \in Nat \ {0}
    BY DEF IsLayout
  <2>2. PICK m \in Nat : DivCeil(l.piece, l.block) = m + 1
    BY <2>1, RoundedUp
  <2>3. PieceCount(l) \in Nat
    BY Pieces
  <2> QED BY <2>1, <2>2, <2>3 DEF Blocks
<1>1. b[1] * l.piece \in Nat /\ b[2] * l.block \in Nat
  BY <1>0, Pieces, Products
<1>2. PieceEnd(l, b[1]) \in Nat /\ PieceEnd(l, b[1]) <= l.size
  BY <1>0, PieceEnds
<1> QED BY <1>0, <1>1, <1>2 DEF Offset, BlockEnd, AtMost

\* Every byte of the file is in a block, and in its piece.
LEMMA EveryByteHasABlock ==
    ASSUME NEW l, IsLayout(l), NEW x \in 0..(l.size - 1)
    PROVE  \E b \in Blocks(l) : /\ Offset(l, b) <= x /\ x < BlockEnd(l, b)
                                /\ b[1] * l.piece <= x /\ x < b[1] * l.piece + l.piece
<1>0. l.size \in Nat \ {0} /\ l.piece \in Nat \ {0} /\ l.block \in Nat \ {0} /\ x \in Nat
  BY DEF IsLayout
<1>1. PICK p \in Nat : p * l.piece \in Nat /\ p * l.piece <= x /\ x < p * l.piece + l.piece
  BY <1>0, Quotient, Products
<1>2. p \in 0..(PieceCount(l) - 1)
  <2>1. PieceCount(l) \in Nat /\ x < PieceCount(l) * l.piece
    BY <1>0, Pieces
  <2>2. ~(PieceCount(l) <= p)
    BY <1>0, <1>1, <2>1, Products
  <2> QED BY <2>1, <2>2
<1>3. PICK y \in Nat : x = p * l.piece + y /\ y < l.piece
  <2>1. PICK m \in Nat : m = p * l.piece
    BY <1>1
  <2>2. x - m \in Nat /\ x = m + (x - m) /\ x - m < l.piece
    BY <1>0, <1>1, <2>1
  <2> QED BY <2>1, <2>2
<1>4. PICK q \in Nat : q * l.block \in Nat /\ q * l.block <= y /\ y < q * l.block + l.block
  BY <1>0, Quotient, Products
<1>5. q \in 0..(DivCeil(l.piece, l.block) - 1)
  <2>1. PICK m \in Nat : DivCeil(l.piece, l.block) = m + 1 /\ l.piece <= m * l.block + l.block
    BY <1>0, RoundedUp
  <2>2. (m + 1) * l.block = m * l.block + l.block
    BY <1>0, Products
  <2>3. ~(m + 1 <= q)
    BY <1>0, <1>3, <1>4, <2>1, <2>2, Products
  <2> QED BY <2>1, <2>3
<1>6. x < PieceEnd(l, p) /\ PieceEnd(l, p) \in Nat
  <2>1. (p + 1) * l.piece = p * l.piece + l.piece
    BY <1>0, Products
  <2> QED BY <1>0, <1>1, <1>2, <2>1, PieceEnds DEF PieceEnd, AtMost
<1>7. Offset(l, <<p, q>>) = p * l.piece + q * l.block
  BY DEF Offset
<1>8. <<p, q>> \in Blocks(l)
  BY <1>2, <1>3, <1>4, <1>5, <1>6, <1>7, <1>1 DEF Blocks
<1>9. x < BlockEnd(l, <<p, q>>)
  BY <1>0, <1>1, <1>3, <1>4, <1>6, <1>7 DEF BlockEnd, AtMost
<1> QED BY <1>1, <1>3, <1>4, <1>7, <1>8, <1>9

(***************************************************************************)
(* Lanes.                                                                  *)
(***************************************************************************)
LaneCount(l) == AtMost(AtLeast(segments, 1), PieceCount(l))

\* The first piece of a lane.
FirstPiece(l, i) == ((i - 1) * PieceCount(l)) \div LaneCount(l)

\* Each lane has a piece, and the pieces are dealt out in order, to the last.
LEMMA LanePieces ==
    ASSUME NEW l, IsLayout(l), segments \in Nat
    PROVE  /\ LaneCount(l) \in 1..PieceCount(l)
           /\ FirstPiece(l, 1) = 0 /\ FirstPiece(l, LaneCount(l) + 1) = PieceCount(l)
           /\ \A i \in 1..LaneCount(l) :
                /\ FirstPiece(l, i) \in Nat /\ FirstPiece(l, i + 1) \in Nat
                /\ FirstPiece(l, i) < FirstPiece(l, i + 1)
                /\ FirstPiece(l, i + 1) <= PieceCount(l)
                /\ i < LaneCount(l) => FirstPiece(l, i + 1) < PieceCount(l)
<1>0. PICK n \in Nat \ {0} : n = PieceCount(l)
  BY Pieces
<1>1. PICK c \in Nat \ {0} : c = LaneCount(l) /\ c <= n
  BY <1>0 DEF LaneCount, AtMost, AtLeast
<1>2. \A i \in Nat \ {0} : FirstPiece(l, i) = ((i - 1) * n) \div c
  BY <1>0, <1>1 DEF FirstPiece
<1>3. FirstPiece(l, 1) = 0
  <2>1. (1 - 1) * n = 0 /\ 0 \div c = 0
    BY <1>1
  <2> QED BY <1>2, <2>1
<1>4. FirstPiece(l, c + 1) = n
  <2>1. FirstPiece(l, c + 1) = (c * n) \div c
    BY <1>1, <1>2
  <2>2. (c * n) \div c = n
    <3>0. PICK m \in Nat : m = c * n /\ m = n * c
      BY <1>1
    <3>a. PICK q \in Nat : q = m \div c /\ q * c <= m /\ m < q * c + c
      BY <1>1, Quotient
    <3>1. q = (c * n) \div c /\ q * c <= n * c /\ n * c < (q + 1) * c
      BY <1>1, <3>0, <3>a, Products
    <3>2. q <= n /\ ~(q + 1 <= n)
      BY <1>1, <3>1, Products
    <3> QED BY <3>1, <3>2
  <2> QED BY <2>1, <2>2
<1>5. ASSUME NEW i \in 1..c
      PROVE  /\ FirstPiece(l, i) \in Nat /\ FirstPiece(l, i + 1) \in Nat
             /\ FirstPiece(l, i) < FirstPiece(l, i + 1)
             /\ FirstPiece(l, i + 1) <= n
             /\ i < c => FirstPiece(l, i + 1) < n
  <2>1. PICK h \in Nat : i = h + 1 /\ h < c
    OBVIOUS
  <2>2. h * n \in Nat /\ (h + 1) * n = h * n + n
    BY Products
  <2>0. FirstPiece(l, i) = (h * n) \div c /\ FirstPiece(l, i + 1) = ((h + 1) * n) \div c
    <3>1. i - 1 = h /\ (i + 1) - 1 = h + 1 /\ i \in Nat \ {0} /\ i + 1 \in Nat \ {0}
      BY <2>1
    <3> QED BY <1>2, <3>1
  <2>3. PICK s \in Nat : s = FirstPiece(l, i) /\ s * c <= h * n /\ h * n < s * c + c
    BY <1>1, <2>0, <2>2, Quotient
  <2>4. PICK e \in Nat : e = FirstPiece(l, i + 1) /\ e * c <= h * n + n /\ h * n + n < e * c + c
    <3>1. PICK m \in Nat : m = (h + 1) * n /\ m = h * n + n
      BY <2>2
    <3> QED BY <1>1, <2>0, <3>1, Quotient
  <2>5. s * c + c = (s + 1) * c /\ e * c + c = (e + 1) * c
    BY <1>1, Products
  <2>6. ~(e + 1 <= s + 1)
    BY <1>1, <2>2, <2>3, <2>4, <2>5, Products
  <2>7. h * n + n <= c * n /\ (i < c => h * n + n < c * n) /\ c * n = n * c
    <3>1. (h + 1) * n <= c * n
      BY <2>1, Products
    <3>2. i < c => ~(c * n <= (h + 1) * n)
      BY <2>1, Products
    <3> QED BY <1>1, <2>2, <3>1, <3>2
  <2>8. e <= n /\ (i < c => ~(n <= e))
    BY <1>1, <2>4, <2>7, Products
  <2> QED BY <2>3, <2>4, <2>6, <2>8
<1> QED BY <1>0, <1>1, <1>3, <1>4, <1>5

\* The lanes in terms of their pieces.
LEMMA LaneTypes ==
    ASSUME NEW l, IsLayout(l), segments \in Nat
    PROVE  /\ DOMAIN Lanes(l) = 1..LaneCount(l) /\ Len(Lanes(l)) = LaneCount(l)
           /\ \A i \in 1..LaneCount(l) :
                /\ Lanes(l)[i].id = i - 1
                /\ Lanes(l)[i].start = FirstPiece(l, i) * l.piece
                /\ Lanes(l)[i].end = PieceEnd(l, FirstPiece(l, i + 1) - 1) - 1
<1>1. LaneCount(l) \in Nat \ {0} /\ PieceCount(l) \in Nat
  BY LanePieces, Pieces
<1>2. Lanes(l) = [i \in 1..LaneCount(l) |->
                    [id |-> i - 1, start |-> FirstPiece(l, i) * l.piece,
                     end |-> PieceEnd(l, ((i * PieceCount(l)) \div LaneCount(l)) - 1) - 1]]
  BY DEF Lanes, LaneCount, FirstPiece
<1>3. \A i \in 1..LaneCount(l) : FirstPiece(l, i + 1) = (i * PieceCount(l)) \div LaneCount(l)
  <2> TAKE i \in 1..LaneCount(l)
  <2>1. (i + 1) - 1 = i
    BY <1>1
  <2> QED BY <2>1 DEF FirstPiece
<1>4. DOMAIN Lanes(l) = 1..LaneCount(l) /\ Len(Lanes(l)) = LaneCount(l)
  BY <1>1, <1>2
<1>5. ASSUME NEW i \in 1..LaneCount(l)
      PROVE  Lanes(l)[i] = [id |-> i - 1, start |-> FirstPiece(l, i) * l.piece,
                            end |-> PieceEnd(l, FirstPiece(l, i + 1) - 1) - 1]
  BY <1>2, <1>3
<1> QED BY <1>4, <1>5

\* The lanes cover the file once and in order.
LEMMA LanesCover ==
    ASSUME NEW l, IsLayout(l), segments \in Nat
    PROVE  /\ Lanes(l)[1].start = 0 /\ Lanes(l)[LaneCount(l)].end = l.size - 1
           /\ \A i \in 1..LaneCount(l) :
                /\ Lanes(l)[i].start \in Nat /\ Lanes(l)[i].end \in Nat
                /\ Lanes(l)[i].start <= Lanes(l)[i].end /\ Lanes(l)[i].end < l.size
                /\ i > 1 => Lanes(l)[i].start = Lanes(l)[i - 1].end + 1
<1>0. l.size \in Nat \ {0} /\ l.piece \in Nat \ {0}
  BY DEF IsLayout
<1>1. PICK c \in Nat \ {0} : c = LaneCount(l) /\ c <= PieceCount(l)
  BY LanePieces, Pieces
<1>2. Lanes(l)[1].start = 0
  BY <1>0, <1>1, LanePieces, LaneTypes
<1>3. ASSUME NEW i \in 1..c
      PROVE  /\ Lanes(l)[i].start \in Nat /\ Lanes(l)[i].end \in Nat
             /\ Lanes(l)[i].start <= Lanes(l)[i].end /\ Lanes(l)[i].end < l.size
             /\ i = c => Lanes(l)[i].end = l.size - 1
             /\ i < c => Lanes(l)[i].end + 1 = FirstPiece(l, i + 1) * l.piece
  <2>1. PICK s \in Nat, e \in Nat : /\ s = FirstPiece(l, i) /\ e + 1 = FirstPiece(l, i + 1)
                                    /\ s <= e /\ e + 1 <= PieceCount(l)
                                    /\ i < c => e + 1 < PieceCount(l)
                                    /\ i = c => e + 1 = PieceCount(l)
    <3>1. FirstPiece(l, i) \in Nat /\ FirstPiece(l, i + 1) \in Nat
      BY <1>1, LanePieces
    <3>2. FirstPiece(l, i + 1) - 1 \in Nat
      BY <1>1, <3>1, LanePieces
    <3> QED BY <1>1, <3>1, <3>2, LanePieces
  <2>2. e \in 0..(PieceCount(l) - 1) /\ (e + 1) - 1 = e
    BY <2>1, Pieces
  <2>3. Lanes(l)[i].start = s * l.piece /\ Lanes(l)[i].end = PieceEnd(l, e) - 1
    BY <1>1, <2>1, <2>2, LaneTypes
  <2>4. s * l.piece \in Nat /\ s * l.piece <= e * l.piece /\ e * l.piece \in Nat
    BY <1>0, <2>1, Products
  <2>5. /\ PieceEnd(l, e) \in Nat /\ e * l.piece < PieceEnd(l, e) /\ PieceEnd(l, e) <= l.size
        /\ i < c => PieceEnd(l, e) = (e + 1) * l.piece
        /\ i = c => PieceEnd(l, e) = l.size
    BY <2>1, <2>2, PieceEnds
  <2> QED BY <1>0, <2>1, <2>3, <2>4, <2>5
<1>4. ASSUME NEW i \in 1..c, i > 1
      PROVE  Lanes(l)[i].start = Lanes(l)[i - 1].end + 1
  <2>1. PICK h \in 1..c : h + 1 = i /\ h < c /\ h = i - 1
    BY <1>4
  <2> QED BY <1>1, <1>3, <2>1, LaneTypes
<1> QED BY <1>1, <1>2, <1>3, <1>4

\* The byte of a lane is in a block of the lane.
LEMMA ByteOfLane ==
    ASSUME NEW l, IsLayout(l), segments \in Nat, NEW i \in 1..LaneCount(l),
           NEW x \in Lanes(l)[i].start..Lanes(l)[i].end
    PROVE  \E b \in Blocks(l) : /\ InLane(l, b, Lanes(l)[i])
                                /\ Offset(l, b) <= x /\ x < BlockEnd(l, b)
<1>0. /\ l.size \in Nat \ {0} /\ l.piece \in Nat \ {0}
      /\ x \in 0..(l.size - 1)
  BY LanesCover DEF IsLayout
<1>1. PICK b \in Blocks(l) : /\ Offset(l, b) <= x /\ x < BlockEnd(l, b)
                             /\ b[1] * l.piece <= x /\ x < b[1] * l.piece + l.piece
  BY <1>0, EveryByteHasABlock
<1>2. PICK p \in 0..(PieceCount(l) - 1) :
        /\ p = b[1] /\ Offset(l, b) \in Nat /\ BlockEnd(l, b) \in Nat
        /\ p * l.piece <= Offset(l, b) /\ BlockEnd(l, b) <= PieceEnd(l, p)
  BY BlockTypes
<1>3. PICK s \in Nat, e \in Nat : /\ s = FirstPiece(l, i) /\ e + 1 = FirstPiece(l, i + 1)
                                  /\ e + 1 <= PieceCount(l)
  <2>1. FirstPiece(l, i + 1) \in Nat /\ FirstPiece(l, i) \in Nat /\ FirstPiece(l, i + 1) - 1 \in Nat
    BY LanePieces
  <2> QED BY <2>1, LanePieces
<1>4. e \in 0..(PieceCount(l) - 1) /\ (e + 1) - 1 = e /\ p \in Nat
  BY <1>3, Pieces
<1>5. Lanes(l)[i].start = s * l.piece /\ Lanes(l)[i].end + 1 = PieceEnd(l, e)
  <2>1. Lanes(l)[i].start = s * l.piece /\ Lanes(l)[i].end = PieceEnd(l, e) - 1
    BY <1>3, <1>4, LaneTypes
  <2>2. PieceEnd(l, e) \in Nat
    BY <1>4, PieceEnds
  <2> QED BY <2>1, <2>2
<1>6. s <= p
  <2>1. s * l.piece \in Nat /\ p * l.piece \in Nat /\ (p + 1) * l.piece = p * l.piece + l.piece
    BY <1>0, <1>4, Products
  <2>2. ~((p + 1) * l.piece <= s * l.piece)
    BY <1>0, <1>1, <1>2, <1>5, <2>1
  <2>3. ~(p + 1 <= s)
    BY <1>0, <1>4, <2>2, Products
  <2> QED BY <1>4, <2>3
<1>7. p <= e
  <2>1. PieceEnd(l, e) \in Nat /\ PieceEnd(l, e) <= (e + 1) * l.piece
    BY <1>4, PieceEnds
  <2>2. p * l.piece \in Nat /\ (e + 1) * l.piece \in Nat
    BY <1>0, <1>4, Products
  <2>3. x < PieceEnd(l, e)
    BY <1>0, <1>5, <2>1, LanesCover
  <2>4. ~((e + 1) * l.piece <= p * l.piece)
    BY <1>0, <1>1, <1>2, <2>1, <2>2, <2>3
  <2>5. ~(e + 1 <= p)
    BY <1>0, <1>4, <2>4, Products
  <2> QED BY <1>4, <2>5
<1>8. InLane(l, b, Lanes(l)[i])
  <2>1. s * l.piece <= p * l.piece /\ s * l.piece \in Nat /\ p * l.piece \in Nat
    BY <1>0, <1>4, <1>6, Products
  <2>2. PieceEnd(l, p) <= PieceEnd(l, e) /\ PieceEnd(l, e) \in Nat /\ PieceEnd(l, p) \in Nat
    BY <1>2, <1>4, <1>7, PieceEnds
  <2> QED BY <1>2, <1>5, <2>1, <2>2 DEF InLane
<1> QED BY <1>1, <1>8

(***************************************************************************)
(* Progress that is carried over.                                          *)
(***************************************************************************)

\* The completed blocks of l are among the bytes of d.
Covered(l, st, d) ==
    \A b \in Blocks(l) : st[b] => \A x \in Offset(l, b)..(BlockEnd(l, b) - 1) : x \in d

\* The open blocks of a lane begin inside of it.
LEMMA OpenBlocks ==
    ASSUME NEW l, IsLayout(l), segments \in Nat, NEW i \in 1..LaneCount(l),
           NEW b \in Blocks(l), InLane(l, b, Lanes(l)[i])
    PROVE  Offset(l, b) \in Lanes(l)[i].start..Lanes(l)[i].end
<1>1. Offset(l, b) \in Nat /\ BlockEnd(l, b) \in Nat /\ Offset(l, b) < BlockEnd(l, b)
  BY BlockTypes
<1>2. Lanes(l)[i].start \in Nat /\ Lanes(l)[i].end \in Nat
  BY LanesCover
<1> QED BY <1>1, <1>2 DEF InLane

\* A new worker starts inside of its lane or at its end, behind bytes that are in
\* completed blocks.
LEMMA Seeding ==
    ASSUME NEW l, IsLayout(l), segments \in Nat, NEW i \in 1..LaneCount(l)
    PROVE  /\ Seeded(l, Lanes(l)[i]) \in 0..Length(Lanes(l)[i])
           /\ Covered(l, states, disk) =>
                \A x \in Lanes(l)[i].start..(Lanes(l)[i].start + Seeded(l, Lanes(l)[i]) - 1) : x \in disk
<1> DEFINE lane == Lanes(l)[i]
           open == {Offset(l, b) : b \in {c \in Blocks(l) : InLane(l, c, lane) /\ ~states[c]}}
<1>0. lane.start \in Nat /\ lane.end \in Nat /\ lane.start <= lane.end
  BY LanesCover
<1>1. open \subseteq lane.start..lane.end
  BY OpenBlocks
<1>2. ASSUME NEW x \in lane.start..lane.end, \A y \in open : x < y, Covered(l, states, disk)
      PROVE  x \in disk
  <2>1. PICK b \in Blocks(l) : InLane(l, b, lane) /\ Offset(l, b) <= x /\ x < BlockEnd(l, b)
    BY ByteOfLane
  <2>2. Offset(l, b) \in Nat /\ BlockEnd(l, b) \in Nat
    BY BlockTypes
  <2>3. x \in Nat
    BY <1>0
  <2>4. Offset(l, b) \notin open
    BY <1>2, <2>1, <2>2, <2>3
  <2>5. states[b]
    BY <2>1, <2>4
  <2>6. x \in Offset(l, b)..(BlockEnd(l, b) - 1)
    BY <2>1, <2>2, <2>3
  <2> QED BY <1>2, <2>5, <2>6 DEF Covered
<1>3. CASE open = {}
  <2>1. Seeded(l, lane) = lane.end + 1 - lane.start
    BY <1>3 DEF Seeded, Length
  <2>2. Seeded(l, lane) \in 0..Length(lane) /\ lane.start + Seeded(l, lane) - 1 = lane.end
    BY <1>0, <2>1 DEF Length
  <2> QED BY <1>2, <1>3, <2>2
<1>4. CASE open # {}
  <2>1. PICK m \in open : \A y \in open : m <= y
    <3>1. open \in SUBSET Nat
      BY <1>0, <1>1
    <3> HIDE DEF open
    <3> QED BY <1>4, <3>1, LeastNumber
  <2>2. \A z \in open : (\A y \in open : z <= y) => z = m
    BY <1>0, <1>1, <2>1
  <2>3. m = CHOOSE z \in open : \A y \in open : z <= y
    <3> HIDE DEF open
    <3> QED BY <2>1, <2>2
  <2>4. Seeded(l, lane) = m - lane.start
    BY <1>4, <2>3 DEF Seeded
  <2>5. m \in Nat /\ lane.start <= m /\ m <= lane.end
    BY <1>0, <1>1, <2>1
  <2>6. Seeded(l, lane) \in 0..Length(lane) /\ lane.start + Seeded(l, lane) - 1 = m - 1
    BY <1>0, <2>4, <2>5 DEF Length
  <2>7. \A x \in lane.start..(m - 1) : x \in lane.start..lane.end /\ \A y \in open : x < y
    BY <1>0, <1>1, <2>1, <2>5
  <2> QED BY <1>2, <2>6, <2>7
<1> QED BY <1>3, <1>4

\* The blocks that follow from the progress of workers are in the file, if the
\* bytes are that these claim.
LEMMA Syncing ==
    ASSUME NEW l, IsLayout(l), NEW old, NEW ws, Covered(l, old, disk),
           \A i \in DOMAIN ws : /\ ws[i].start \in Nat /\ ws[i].got \in Nat
                                /\ Claimed(ws[i]) \subseteq disk
    PROVE  Covered(l, Synced(l, old, ws), disk)
<1> SUFFICES ASSUME NEW b \in Blocks(l), Synced(l, old, ws)[b],
                    NEW x \in Offset(l, b)..(BlockEnd(l, b) - 1)
             PROVE  x \in disk
  BY DEF Covered
<1>1. Offset(l, b) \in Nat /\ BlockEnd(l, b) \in Nat
  BY BlockTypes
<1>2. CASE old[b]
  BY <1>2 DEF Covered
<1>3. CASE \E i \in DOMAIN ws : Marks(l, b, ws[i])
  <2>1. PICK i \in DOMAIN ws : Marks(l, b, ws[i])
    BY <1>3
  <2>2. x \in Claimed(ws[i])
    BY <1>1, <2>1 DEF Marks, Claimed
  <2> QED BY <2>2
<1> QED BY <1>2, <1>3 DEF Synced

(***************************************************************************)
(* Rows that are read back.                                                *)
(***************************************************************************)

\* No two rows have the same index.
Distinct(rs) == \A r, s \in rs : r.id = s.id => r = s

\* The number of rows up to the index of r.
Rank(rs, r) == Cardinality({s \in rs : s.id <= r.id})

\* A finite set of rows with indices of their own can be sorted.
LEMMA Sorting ==
    ASSUME NEW rs, IsFiniteSet(rs), Distinct(rs), \A r \in rs : r.id \in Nat
    PROVE  /\ Cardinality(rs) \in Nat
           /\ InOrder(rs) \in [1..Cardinality(rs) -> rs]
           /\ \A i, j \in 1..Cardinality(rs) : i < j => InOrder(rs)[i].id < InOrder(rs)[j].id
<1> DEFINE n == Cardinality(rs)
           rank == [r \in rs |-> Rank(rs, r)]
<1>0. n \in Nat
  BY FS_CardinalityType
<1>1. ASSUME NEW r \in rs
      PROVE  rank[r] \in 1..n
  <2>1. /\ IsFiniteSet({s \in rs : s.id <= r.id})
        /\ Rank(rs, r) <= n /\ r \in {s \in rs : s.id <= r.id}
    BY FS_Subset DEF Rank
  <2>2. Rank(rs, r) \in Nat /\ Rank(rs, r) # 0
    BY <2>1, FS_CardinalityType, FS_EmptySet DEF Rank
  <2> QED BY <1>0, <2>1, <2>2
<1>2. ASSUME NEW r \in rs, NEW s \in rs, r.id < s.id
      PROVE  rank[r] < rank[s]
  <2> DEFINE A == {t \in rs : t.id <= r.id}
             B == {t \in rs : t.id <= s.id}
  <2>1. A \subseteq B /\ s \in B /\ s \notin A
    BY <1>2
  <2>2. IsFiniteSet(B)
    BY FS_Subset
  <2>3. IsFiniteSet(A) /\ Cardinality(A) <= Cardinality(B) /\ Cardinality(A) # Cardinality(B)
    <3> HIDE DEF A, B
    <3> QED BY <2>1, <2>2, FS_Subset
  <2>4. Cardinality(A) \in Nat /\ Cardinality(B) \in Nat
    BY <2>2, <2>3, FS_CardinalityType
  <2> QED BY <2>3, <2>4 DEF Rank
<1>3. rank \in Surjection(rs, 1..n)
  <2>1. rank \in [rs -> 1..n]
    BY <1>1
  <2>2. \A r, s \in rs : rank[r] = rank[s] => r = s
    <3> SUFFICES ASSUME NEW r \in rs, NEW s \in rs, rank[r] = rank[s]
                 PROVE  r = s
      OBVIOUS
    <3>1. ~(r.id < s.id) /\ ~(s.id < r.id)
      BY <1>1, <1>2
    <3> QED BY <3>1 DEF Distinct
  <2>3. rank \in Injection(rs, 1..n)
    <3> HIDE DEF rank
    <3> QED BY <2>1, <2>2 DEF Injection, IsInjective
  <2>4. IsFiniteSet(1..n) /\ Cardinality(1..n) = n
    BY <1>0, FS_Interval
  <2> HIDE DEF rank
  <2> QED BY <2>3, <2>4, FS_Injection
<1>4. \A i \in 1..n : \E r \in rs : rank[r] = i
  <2> HIDE DEF rank
  <2> QED BY <1>3 DEF Surjection
<1> DEFINE ws == [i \in 1..n |-> CHOOSE r \in rs : rank[r] = i]
<1>5. \A i \in 1..n : ws[i] \in rs /\ rank[ws[i]] = i
  <2> HIDE DEF rank
  <2> QED BY <1>4
<1>6. ws \in [1..n -> rs]
  <2> HIDE DEF rank
  <2> QED BY <1>5
<1>7. \A i, j \in 1..n : i < j => ws[i].id < ws[j].id
  <2> SUFFICES ASSUME NEW i \in 1..n, NEW j \in 1..n, i < j
               PROVE  ws[i].id < ws[j].id
    OBVIOUS
  <2>0. ws[i] \in rs /\ ws[j] \in rs /\ rank[ws[i]] = i /\ rank[ws[j]] = j
    BY <1>5
  <2> HIDE DEF ws, rank
  <2>1. CASE ws[j].id < ws[i].id
    BY <1>2, <2>0, <2>1
  <2>2. CASE ws[j].id = ws[i].id
    BY <2>0, <2>2 DEF Distinct
  <2> QED BY <2>0, <2>1, <2>2
<1> HIDE DEF ws, rank
<1> QED BY <1>0, <1>6, <1>7 DEF InOrder

(***************************************************************************)
(* The plan: types, and that the ranges of workers cover the file.         *)
(***************************************************************************)

\* A worker or row of a file of size z that claims no more than its range.
GoodRows(z) ==
    {w \in [id : Nat, start : 0..(z - 1), end : 0..(z - 1), got : 0..z] :
        w.start <= w.end /\ w.got <= Length(w)}

Types ==
    /\ size \in Sizes /\ segments \in Segments /\ restarts \in Nat
    /\ phase \in {"restored", "stopped", "ensure", "create", "running"}
    /\ layout \in [size : {size}, piece : 1..MaxPiece, block : 1..MaxBlock]
    /\ states \in [DOMAIN states -> BOOLEAN] /\ stored \in [DOMAIN stored -> BOOLEAN]
    /\ workers \in Seq(GoodRows(size)) /\ made \in Seq(GoodRows(size))
    /\ late \subseteq GoodRows(size) /\ rows \subseteq GoodRows(size) /\ IsFiniteSet(rows)
    /\ disk \subseteq Bytes

\* The workers that were made so far are those of the first lanes.
Fits(ms, lanes) ==
    /\ Len(ms) <= Len(lanes)
    /\ \A i \in 1..Len(ms) : /\ ms[i].id = lanes[i].id
                             /\ ms[i].start = lanes[i].start /\ ms[i].end = lanes[i].end

\* No two workers have the same index.
Indexed(ws) == \A i, j \in DOMAIN ws : ws[i].id = ws[j].id => i = j

\* The inductive form of LanesTile: once the manifest is installed it is the one of
\* the settings, and the workers that are being made follow its lanes.
Planned ==
    /\ Types
    /\ phase # "restored" => layout = Layout(size, segments) /\ DOMAIN states = Blocks(layout)
    /\ phase # "create" => made = <<>>
    /\ phase = "create" => Fits(made, Lanes(layout))
    /\ Distinct(rows) /\ Indexed(workers)
    /\ LanesTile

\* Constants of the state.
LEMMA SizeTypes ==
    ASSUME Types
    PROVE  /\ size \in Nat \ {0} /\ segments \in Nat /\ IsLayout(layout)
           /\ layout.size = size /\ disk \subseteq Nat
<1>1. size \in Nat \ {0} /\ segments \in Nat
  BY PlanAssumption DEF Types
<1> QED BY <1>1, PlanAssumption DEF Types, IsLayout, Bytes

\* The lanes depend on the layout and the settings.
LEMMA LanesSame ==
    ASSUME segments' = segments, layout' = layout
    PROVE  Lanes(layout)' = Lanes(layout)
  BY DEF Lanes

\* The parts of a good row.
LEMMA GoodRowTypes ==
    ASSUME NEW z \in Nat \ {0}, NEW w \in GoodRows(z)
    PROVE  /\ w.id \in Nat /\ w.start \in Nat /\ w.end \in Nat /\ w.got \in Nat
           /\ w.start <= w.end /\ w.end < z /\ w.got <= Length(w) /\ Length(w) <= z
  BY DEF GoodRows, Length

\* The rows of a list of workers.
LEMMA RowsOfList ==
    ASSUME NEW S, NEW ws \in Seq(S)
    PROVE  /\ RowsOf(ws) \subseteq S /\ IsFiniteSet(RowsOf(ws))
           /\ Indexed(ws) => Distinct(RowsOf(ws))
<1>0. Len(ws) \in Nat /\ DOMAIN ws = 1..Len(ws) /\ \A i \in 1..Len(ws) : ws[i] \in S
  BY LenProperties, ElementOfSeq
<1>1. RowsOf(ws) \subseteq S
  BY <1>0 DEF RowsOf
<1>2. IsFiniteSet(RowsOf(ws))
  <2>1. IsFiniteSet(1..Len(ws))
    BY <1>0, FS_Interval
  <2>2. ws \in Surjection(1..Len(ws), RowsOf(ws))
    <3>1. ws \in [1..Len(ws) -> RowsOf(ws)]
      BY <1>0 DEF RowsOf
    <3> QED BY <1>0, <3>1 DEF Surjection, RowsOf
  <2> QED BY <2>1, <2>2, FS_Surjection
<1>3. Indexed(ws) => Distinct(RowsOf(ws))
  BY DEF Indexed, Distinct, RowsOf
<1> QED BY <1>1, <1>2, <1>3

\* A row in place of another with the same index.
LEMMA WithRowTypes ==
    ASSUME NEW S, rows \subseteq S, IsFiniteSet(rows), Distinct(rows), NEW w \in S
    PROVE  WithRow(w) \subseteq S /\ IsFiniteSet(WithRow(w)) /\ Distinct(WithRow(w))
<1>1. IsFiniteSet({r \in rows : r.id # w.id})
  BY FS_Subset
<1>2. IsFiniteSet({r \in rows : r.id # w.id} \cup {w})
  BY <1>1, FS_AddElement
<1> QED BY <1>2 DEF WithRow, Distinct

\* The worker that is made for a lane is a good one.
LEMMA SeedIsGood ==
    ASSUME Types, NEW i \in 1..Len(Lanes(layout))
    PROVE  /\ Seed(layout, Lanes(layout)[i]) \in GoodRows(size)
           /\ Lanes(layout)[i].id = i - 1
<1>0. /\ size \in Nat \ {0} /\ segments \in Nat /\ IsLayout(layout) /\ layout.size = size
      /\ i \in 1..LaneCount(layout) /\ i \in Nat \ {0}
  BY SizeTypes, LaneTypes, LanePieces
<1> DEFINE lane == Lanes(layout)[i]
<1>1. /\ lane.id = i - 1 /\ lane.start \in Nat /\ lane.end \in Nat
      /\ lane.start <= lane.end /\ lane.end < size
  BY <1>0, LaneTypes, LanesCover
<1>2. Seeded(layout, lane) \in 0..Length(lane)
  BY <1>0, Seeding
<1> HIDE DEF lane
<1>3. Seed(layout, lane) \in [id : Nat, start : 0..(size - 1), end : 0..(size - 1), got : 0..size]
  BY <1>0, <1>1, <1>2 DEF Seed, Length
<1> QED BY <1>1, <1>2, <1>3 DEF Seed, Length, GoodRows, lane

LEMMA PlannedInit == Init => Planned
<1> SUFFICES ASSUME Init PROVE Planned
  OBVIOUS
<1>1. size \in Nat \ {0} /\ segments \in Nat
  BY PlanAssumption DEF Init
<1>2. layout \in [size : {size}, piece : 1..MaxPiece, block : 1..MaxBlock]
  BY <1>1, LayoutTypes DEF Init
<1>3. IsFiniteSet({}) /\ <<>> \in Seq(GoodRows(size))
  BY FS_EmptySet, EmptySeq
<1>4. Types
  BY <1>2, <1>3, PlanAssumption DEF Init, Types
<1> QED BY <1>4 DEF Init, Planned, Distinct, Indexed, LanesTile

\* Block states that follow the workers are of the blocks of the layout.
LEMMA SyncedTypes ==
    ASSUME NEW l, NEW old, NEW ws
    PROVE  /\ DOMAIN Synced(l, old, ws) = Blocks(l)
           /\ Synced(l, old, ws) \in [Blocks(l) -> BOOLEAN]
  BY DEF Synced

LEMMA PlannedInstall ==
    ASSUME Planned, Install
    PROVE  Planned'
<1>1. size \in Nat \ {0} /\ segments \in Nat
  BY SizeTypes DEF Planned
<1>2. layout' \in [size : {size}, piece : 1..MaxPiece, block : 1..MaxBlock]
  BY <1>1, LayoutTypes DEF Install
<1>3. DOMAIN states' = Blocks(layout') /\ states' \in [DOMAIN states' -> BOOLEAN] /\ stored' = states'
  BY SyncedTypes DEF Install
<1>4. rows' \subseteq GoodRows(size) /\ IsFiniteSet(rows') /\ Distinct(rows')
  BY RowsOfList DEF Planned, Types, Install
<1>5. Types'
  BY <1>2, <1>3, <1>4 DEF Planned, Types, Install, Bytes
<1>6. LanesTile' /\ Indexed(workers)'
  BY DEF Planned, LanesTile, Indexed, Install
<1> QED BY <1>3, <1>4, <1>5, <1>6 DEF Planned, Install

LEMMA PlannedEnsure ==
    ASSUME Planned, Ensure
    PROVE  Planned'
<1>1. CASE phase' = "running" /\ UNCHANGED <<workers, rows>>
  BY <1>1 DEF Planned, Types, Ensure, LanesTile, Indexed, Distinct, Bytes
<1>2. CASE workers' = <<>> /\ rows' = {} /\ phase' = "create"
  <2>1. IsFiniteSet(rows') /\ workers' \in Seq(GoodRows(size)) /\ Len(made') = 0
    BY <1>2, FS_EmptySet, EmptySeq DEF Planned, Ensure
  <2>2. Types'
    BY <1>2, <2>1 DEF Planned, Types, Ensure, Bytes
  <2>3. Len(Lanes(layout)') \in Nat
    <3>1. Len(Lanes(layout)) \in Nat
      BY SizeTypes, LaneTypes, LanePieces, Pieces DEF Planned
    <3> QED BY <3>1, LanesSame DEF Ensure
  <2>4. Fits(made, Lanes(layout))'
    BY <2>1, <2>3 DEF Fits
  <2> QED BY <1>2, <2>2, <2>4 DEF Planned, Ensure, LanesTile, Indexed, Distinct
<1> QED BY <1>1, <1>2 DEF Ensure

\* One more worker is made: the one of the next lane.
LEMMA PlannedCreate ==
    ASSUME Planned, Create
    PROVE  Planned'
<1> DEFINE k == Len(made) + 1
           w == Seed(layout, Lanes(layout)[k])
<1>0. /\ phase = "create" /\ Len(made) < Len(Lanes(layout)) /\ made' = Append(made, w)
      /\ rows' = WithRow(w)
      /\ UNCHANGED <<size, segments, phase, layout, states, workers, late, stored, disk, restarts>>
  BY DEF Create
<1>1. Types /\ made \in Seq(GoodRows(size)) /\ Len(made) \in Nat /\ Fits(made, Lanes(layout))
  BY <1>0, LenProperties DEF Planned, Types
<1>2. k \in 1..Len(Lanes(layout))
  <2>1. Len(Lanes(layout)) \in Nat
    BY <1>1, SizeTypes, LaneTypes, LanePieces, Pieces
  <2> QED BY <1>0, <1>1, <2>1
<1>3. w \in GoodRows(size)
  BY <1>1, <1>2, SeedIsGood
<1>4. rows' \subseteq GoodRows(size) /\ IsFiniteSet(rows') /\ Distinct(rows')
  BY <1>0, <1>3, WithRowTypes DEF Planned, Types
<1>5. /\ w.id = Lanes(layout)[k].id /\ w.start = Lanes(layout)[k].start
      /\ w.end = Lanes(layout)[k].end
  BY DEF Seed
<1> HIDE DEF w
<1>6. made' \in Seq(GoodRows(size)) /\ Len(made') = k /\ made'[k] = w
      /\ \A i \in 1..Len(made) : made'[i] = made[i]
  BY <1>0, <1>1, <1>3, AppendProperties
<1>7. Fits(made', Lanes(layout))
  <2>1. \A i \in 1..k : i = k \/ i \in 1..Len(made)
    BY <1>1
  <2>2. k <= Len(Lanes(layout))
    BY <1>2
  <2> HIDE DEF k
  <2> QED BY <1>1, <1>5, <1>6, <2>1, <2>2 DEF Fits
<1>8. Fits(made, Lanes(layout))'
  BY <1>0, <1>7, LanesSame DEF Fits
<1>9. Types'
  BY <1>0, <1>4, <1>6 DEF Planned, Types, Bytes
<1> QED BY <1>0, <1>4, <1>8, <1>9 DEF Planned, LanesTile, Indexed

\* The workers of all lanes become those of the task: they cover the file.
LEMMA PlannedCreated ==
    ASSUME Planned, Created
    PROVE  Planned'
<1>0. /\ phase = "create" /\ Len(made) = Len(Lanes(layout)) /\ workers' = made /\ made' = <<>>
      /\ phase' = "running"
      /\ UNCHANGED <<size, segments, layout, states, late, rows, stored, disk, restarts>>
  BY DEF Created
<1>1. /\ Types /\ Fits(made, Lanes(layout)) /\ segments \in Nat /\ IsLayout(layout)
      /\ layout.size = size /\ size \in Nat \ {0}
  BY <1>0, SizeTypes DEF Planned
<1>2. PICK c \in Nat \ {0} : c = LaneCount(layout)
  BY <1>1, LanePieces, Pieces
<1>3. Len(made) = c /\ DOMAIN made = 1..c
  BY <1>0, <1>1, <1>2, LaneTypes, LenProperties DEF Types
<1>4. \A i \in 1..c : /\ made[i].id = i - 1
                      /\ made[i].start = Lanes(layout)[i].start
                      /\ made[i].end = Lanes(layout)[i].end
  BY <1>1, <1>2, <1>3, LaneTypes DEF Fits
<1>5. /\ Lanes(layout)[1].start = 0 /\ Lanes(layout)[c].end = size - 1
      /\ \A i \in 1..c :
           /\ Lanes(layout)[i].start <= Lanes(layout)[i].end
           /\ i > 1 => Lanes(layout)[i].start = Lanes(layout)[i - 1].end + 1
  BY <1>1, <1>2, LanesCover
<1>6. LanesTile'
  <2>1. made[1].start = 0 /\ made[c].end = size - 1
    BY <1>4, <1>5
  <2>2. ASSUME NEW i \in 1..c
        PROVE  made[i].start <= made[i].end /\ (i > 1 => made[i].start = made[i - 1].end + 1)
    <3>1. i > 1 => i - 1 \in 1..c
      OBVIOUS
    <3> QED BY <1>4, <1>5, <3>1
  <2> QED BY <1>0, <1>3, <2>1, <2>2 DEF LanesTile
<1>7. Indexed(workers)'
  BY <1>0, <1>3, <1>4 DEF Indexed
<1>8. Types'
  BY <1>0, <1>1, EmptySeq DEF Types, Bytes
<1> QED BY <1>0, <1>6, <1>7, <1>8 DEF Planned, Distinct

\* A worker has one more byte of its range.
LEMMA PlannedWrite ==
    ASSUME Planned, NEW i \in 1..Len(workers), Write(i)
    PROVE  Planned'
<1>0. /\ phase \in {"running", "stopped"} /\ i \in DOMAIN workers
      /\ workers[i].got < Length(workers[i])
      /\ disk' = disk \cup {workers[i].start + workers[i].got}
      /\ workers' = [workers EXCEPT ![i].got = @ + 1]
      /\ UNCHANGED <<size, segments, phase, layout, states, made, late, rows, stored, restarts>>
  BY DEF Write
<1>1. Types /\ size \in Nat \ {0} /\ workers \in Seq(GoodRows(size)) /\ workers[i] \in GoodRows(size)
  BY SizeTypes, ElementOfSeq DEF Planned, Types
<1>2. PICK w : w = [workers[i] EXCEPT !.got = @ + 1]
  OBVIOUS
<1>3. w \in GoodRows(size) /\ w.id = workers[i].id /\ w.start = workers[i].start /\ w.end = workers[i].end
  <2>1. PICK v \in GoodRows(size) : v = workers[i]
    BY <1>1
  <2>2. /\ v \in [id : Nat, start : 0..(size - 1), end : 0..(size - 1), got : 0..size]
        /\ v.start <= v.end /\ v.got < v.end + 1 - v.start
    BY <1>0, <2>1 DEF GoodRows, Length
  <2>3. w = [v EXCEPT !.got = @ + 1]
    BY <1>2, <2>1
  <2>4. w.id = v.id /\ w.start = v.start /\ w.end = v.end /\ w.got = v.got + 1
    BY <2>2, <2>3
  <2>5. v.got + 1 \in 0..size
    BY <1>1, <2>2
  <2>6. w \in [id : Nat, start : 0..(size - 1), end : 0..(size - 1), got : 0..size]
    BY <2>2, <2>3, <2>5
  <2>7. w.start <= w.end /\ w.got <= Length(w)
    BY <1>1, <2>2, <2>4 DEF Length
  <2> QED BY <2>1, <2>4, <2>6, <2>7 DEF GoodRows
<1>4. workers' = [workers EXCEPT ![i] = w]
  BY <1>0, <1>2
<1>5. workers' \in Seq(GoodRows(size)) /\ Len(workers') = Len(workers) /\ DOMAIN workers' = DOMAIN workers
  BY <1>1, <1>3, <1>4, ExceptSeq
<1>6. \A j \in DOMAIN workers : /\ workers'[j].id = workers[j].id
                                /\ workers'[j].start = workers[j].start
                                /\ workers'[j].end = workers[j].end
  BY <1>3, <1>4
<1>7. disk' \subseteq Bytes
  <2>1. PICK v \in GoodRows(size) : v = workers[i]
    BY <1>1
  <2>2. /\ v.start \in Nat /\ v.end \in Nat /\ v.got \in Nat /\ v.end < size
        /\ v.got < v.end + 1 - v.start
    BY <1>0, <1>1, <2>1, GoodRowTypes DEF Length
  <2>3. v.start + v.got \in Bytes
    BY <1>1, <2>2 DEF Bytes
  <2> QED BY <1>0, <1>1, <2>1, <2>3 DEF Types
<1>8. Types'
  BY <1>0, <1>1, <1>5, <1>7 DEF Types, Bytes
<1>9. Indexed(workers)'
  BY <1>5, <1>6 DEF Planned, Indexed
<1>10. LanesTile'
  <2>1. Len(workers) \in Nat /\ DOMAIN workers = 1..Len(workers) /\ (workers' # <<>> => workers # <<>>)
    BY <1>1, <1>0, LenProperties
  <2>2. 1 \in DOMAIN workers /\ Len(workers) \in DOMAIN workers /\ workers # <<>>
    BY <2>1, <1>0
  <2>3. \A j \in DOMAIN workers : j > 1 => j - 1 \in DOMAIN workers
    BY <2>1
  <2> QED BY <1>0, <1>5, <1>6, <2>2, <2>3 DEF Planned, LanesTile
<1> QED BY <1>0, <1>8, <1>9, <1>10 DEF Planned, Distinct

LEMMA PlannedProgress ==
    ASSUME Planned, NEW i \in 1..Len(workers), Progress(i)
    PROVE  Planned'
<1>1. workers[i] \in GoodRows(size)
  BY ElementOfSeq DEF Planned, Types
<1>2. DOMAIN states' = Blocks(layout') /\ states' \in [DOMAIN states' -> BOOLEAN]
  BY SyncedTypes DEF Progress
<1>3. Types'
  BY <1>1, <1>2 DEF Planned, Types, Progress, Bytes
<1> QED BY <1>2, <1>3 DEF Planned, Progress, LanesTile, Indexed, Distinct

\* The other saves, and a pause.
LEMMA PlannedSaves ==
    ASSUME Planned, SaveLate \/ SaveTask \/ Pause
    PROVE  Planned'
<1>1. /\ rows' \subseteq GoodRows(size) /\ IsFiniteSet(rows') /\ Distinct(rows')
      /\ late' \subseteq GoodRows(size)
  <2>1. CASE SaveLate
    BY <2>1, WithRowTypes DEF Planned, Types, SaveLate
  <2>2. CASE SaveTask
    BY <2>2, RowsOfList DEF Planned, Types, SaveTask
  <2>3. CASE Pause
    BY <2>3 DEF Planned, Types, Pause
  <2> QED BY <2>1, <2>2, <2>3
<1>2. /\ UNCHANGED <<size, segments, layout, states, workers, made, disk, restarts>>
      /\ stored' \in {stored, states}
      /\ phase' = phase \/ (phase = "running" /\ phase' = "stopped")
  BY DEF SaveLate, SaveTask, Pause
<1>3. Types'
  BY <1>1, <1>2 DEF Planned, Types, Bytes
<1>4. phase' = "create" => Fits(made, Lanes(layout))'
  BY <1>2, LanesSame DEF Planned, Fits
<1>5. LanesTile' /\ Indexed(workers)'
  BY <1>2 DEF Planned, LanesTile, Indexed
<1> QED BY <1>1, <1>2, <1>3, <1>4, <1>5 DEF Planned

\* The process starts again: rows that are trusted cover the file.
LEMMA PlannedRestart ==
    ASSUME Planned, Restart
    PROVE  Planned'
<1>0. /\ restarts > 0 /\ restarts' = restarts - 1 /\ segments' \in Segments /\ phase' = "restored"
      /\ states' = stored /\ made' = <<>> /\ late' = {}
      /\ workers' = <<>> \/ (Trusted(InOrder(rows)) /\ workers' = InOrder(rows))
      /\ UNCHANGED <<size, layout, rows, stored, disk>>
  BY DEF Restart
<1>1. Types /\ size \in Nat \ {0}
  BY SizeTypes DEF Planned
<1>2. workers' \in Seq(GoodRows(size)) /\ Indexed(workers') /\ LanesTile'
  <2>1. CASE workers' = <<>>
    BY <2>1, EmptySeq DEF Indexed, LanesTile
  <2>2. CASE Trusted(InOrder(rows)) /\ workers' = InOrder(rows)
    <3>1. PICK ws : ws = InOrder(rows)
      OBVIOUS
    <3>2. PICK n \in Nat : /\ n = Cardinality(rows) /\ ws \in [1..n -> rows]
                           /\ \A i, j \in 1..n : i < j => ws[i].id < ws[j].id
      <4>1. \A r \in rows : r.id \in Nat
        BY <1>1, GoodRowTypes DEF Types
      <4> QED BY <1>1, <3>1, <4>1, Sorting DEF Planned, Types
    <3>3. ws \in Seq(GoodRows(size)) /\ Len(ws) = n /\ DOMAIN ws = 1..n
      BY <1>1, <3>2 DEF Types
    <3>4. \A i \in 1..n : ws[i] \in GoodRows(size) /\ ws[i].id \in Nat /\ ws[i].end \in Nat
      BY <1>1, <3>2, GoodRowTypes DEF Types
    <3>5. Indexed(ws)
      <4> SUFFICES ASSUME NEW i \in 1..n, NEW j \in 1..n, ws[i].id = ws[j].id
                   PROVE  i = j
        BY <3>3 DEF Indexed
      <4>1. ~(i < j) /\ ~(j < i)
        BY <3>2, <3>4
      <4> QED BY <4>1
    <3>6. /\ ws # <<>> /\ ws[n].end + 1 = size
          /\ \A i \in 1..n : /\ ws[i].start <= ws[i].end
                             /\ ws[i].start = IF i = 1 THEN 0 ELSE ws[i - 1].end + 1
      BY <2>2, <3>1, <3>3 DEF Trusted
    <3>7. n # 0
      BY <3>3, <3>6
    <3>8. ws[1].start = 0 /\ ws[n].end = size - 1
      <4>1. 1 \in 1..n /\ n \in 1..n
        BY <3>7
      <4>2. ws[1].start = 0
        BY <3>6, <4>1
      <4>3. ws[n].end \in Nat /\ ws[n].end + 1 = size
        BY <3>4, <3>6, <4>1
      <4> QED BY <1>1, <4>2, <4>3
    <3>9. LanesTile'
      BY <1>0, <2>2, <3>1, <3>3, <3>6, <3>8 DEF LanesTile
    <3> QED BY <2>2, <3>1, <3>3, <3>5, <3>9
  <2> QED BY <1>0, <2>1, <2>2
<1>3. Types'
  BY <1>0, <1>1, <1>2, EmptySeq DEF Types, Bytes
<1> QED BY <1>0, <1>2, <1>3 DEF Planned, Distinct, Indexed

LEMMA PlannedNext == Planned /\ [Next]_vars => Planned'
<1> SUFFICES ASSUME Planned, [Next]_vars PROVE Planned'
  OBVIOUS
<1>1. CASE UNCHANGED vars
  <2>1. phase' = "create" => Fits(made, Lanes(layout))'
    BY <1>1, LanesSame DEF vars, Planned, Fits
  <2> QED BY <1>1, <2>1 DEF vars, Planned, Types, Distinct, Indexed, LanesTile, Bytes
<1>2. CASE Next
  BY <1>2, PlannedInstall, PlannedEnsure, PlannedCreate, PlannedCreated, PlannedWrite,
     PlannedProgress, PlannedSaves, PlannedRestart DEF Next
<1> QED BY <1>1, <1>2

LEMMA PlannedInvariant == Spec => []Planned
  BY PlannedInit, PlannedNext, PTL DEF Spec

\* Every variable keeps its range.
THEOREM TypeCorrect == Spec => []TypeOK
<1>1. Planned => TypeOK
  <2> SUFFICES ASSUME Planned PROVE TypeOK
    OBVIOUS
  <2>1. GoodRows(size) \subseteq Row
    BY DEF GoodRows, Row, Bytes
  <2>2. workers \in Seq(Row) /\ made \in Seq(Row)
    BY <2>1 DEF Planned, Types
  <2> QED BY <2>1, <2>2 DEF Planned, Types, TypeOK
<1> QED BY <1>1, PlannedInvariant, PTL

\* The workers of a task, planned by plan_execution_lanes_with_source_order or
\* restored by sanitize_worker_requests, have every byte of the file in exactly one
\* range, in order.
THEOREM LanesTileCorrect == Spec => []LanesTile
<1>1. Planned => LanesTile
  BY DEF Planned
<1> QED BY <1>1, PlannedInvariant, PTL

(***************************************************************************)
(* Progress: what is claimed is written.                                   *)
(***************************************************************************)

\* The block states st are true of the file under every layout they are of.
Proper(z, st, d) ==
    \A s \in Segments : DOMAIN st = Blocks(Layout(z, s)) => Covered(Layout(z, s), st, d)

\* The inductive form of ClaimsAreWritten and CompletedBlocksAreWritten: also what is
\* stored, and would be read back under other settings, is true.
Honest ==
    size \in NumbersTellLayouts =>
        /\ \A w \in RowsOf(workers) \cup RowsOf(made) \cup late \cup rows : Claimed(w) \subseteq disk
        /\ Proper(size, states, disk) /\ Proper(size, stored, disk)

\* More bytes on the disk do not make anything untrue.
LEMMA MoreBytes ==
    ASSUME NEW d, NEW e, d \subseteq e, NEW z, NEW st, Proper(z, st, d)
    PROVE  Proper(z, st, e)
  BY DEF Proper, Covered

\* Where numbers tell layouts, states that are true under one of the layouts are
\* true under all they are of.
LEMMA TrueOfOne ==
    ASSUME Types, size \in NumbersTellLayouts, NEW d, NEW st,
           DOMAIN st = Blocks(Layout(size, segments)), Covered(Layout(size, segments), st, d)
    PROVE  Proper(size, st, d)
<1>1. segments \in Segments
  BY DEF Types
<1>2. \A s \in Segments :
        Blocks(Layout(size, s)) = Blocks(Layout(size, segments)) =>
          Layout(size, s) = Layout(size, segments)
  BY <1>1 DEF NumbersTellLayouts
<1> QED BY <1>2 DEF Proper

\* The states that follow true ones and the workers are true.
LEMMA SyncedProper ==
    ASSUME Types, Honest, size \in NumbersTellLayouts, NEW old,
           Covered(Layout(size, segments), old, disk)
    PROVE  Proper(size, Synced(Layout(size, segments), old, workers), disk)
<1>1. PICK l : l = Layout(size, segments)
  OBVIOUS
<1>2. IsLayout(l)
  BY <1>1, SizeTypes, LayoutTypes
<1>3. \A i \in DOMAIN workers : /\ workers[i].start \in Nat /\ workers[i].got \in Nat
                                /\ Claimed(workers[i]) \subseteq disk
  <2> TAKE i \in DOMAIN workers
  <2>1. workers[i] \in GoodRows(size) /\ size \in Nat \ {0}
    BY SizeTypes, ElementOfSeq DEF Types
  <2>2. workers[i] \in RowsOf(workers)
    BY DEF RowsOf
  <2> QED BY <2>1, <2>2, GoodRowTypes DEF Honest
<1>4. Covered(l, Synced(l, old, workers), disk)
  BY <1>1, <1>2, <1>3, Syncing
<1>5. DOMAIN Synced(l, old, workers) = Blocks(l)
  BY SyncedTypes
<1> QED BY <1>1, <1>4, <1>5, TrueOfOne

LEMMA HonestInit == Planned /\ Init => Honest
<1> SUFFICES ASSUME Planned, Init, size \in NumbersTellLayouts PROVE Honest
  BY DEF Honest
<1>1. RowsOf(workers) = {} /\ RowsOf(made) = {} /\ late = {} /\ rows = {}
  BY DEF Init, RowsOf
<1>2. DOMAIN states = {} /\ DOMAIN stored = {}
  BY DEF Init
<1>3. Proper(size, states, disk) /\ Proper(size, stored, disk)
  BY <1>2 DEF Proper, Covered
<1> QED BY <1>1, <1>3 DEF Honest

\* Installing the manifest: old states are kept where the numbers of the blocks are
\* the same, and then they are of the same bytes.
LEMMA HonestInstall ==
    ASSUME Planned, Honest, Install
    PROVE  Honest'
<1>0. UNCHANGED <<size, workers, made, late, disk>> /\ rows' = RowsOf(workers) /\ stored' = states'
      /\ states' = Synced(Layout(size, segments), Installed(Layout(size, segments), states), workers)
  BY DEF Install
<1> SUFFICES ASSUME size \in NumbersTellLayouts
             PROVE  Honest'
  BY <1>0 DEF Honest, NumbersTellLayouts
<1>1. Covered(Layout(size, segments), Installed(Layout(size, segments), states), disk)
  <2>1. segments \in Segments
    BY DEF Planned, Types
  <2>2. CASE DOMAIN states = Blocks(Layout(size, segments))
    BY <2>1, <2>2 DEF Honest, Proper, Installed
  <2>3. CASE DOMAIN states # Blocks(Layout(size, segments))
    BY <2>3 DEF Installed, Covered
  <2> QED BY <2>2, <2>3
<1>2. Proper(size, states', disk)
  BY <1>0, <1>1, SyncedProper DEF Planned
<1> QED BY <1>0, <1>2 DEF Honest, RowsOf

\* A new worker counts the completed blocks at the beginning of its lane.
LEMMA HonestCreate ==
    ASSUME Planned, Honest, Create
    PROVE  Honest'
<1> DEFINE k == Len(made) + 1
           w == Seed(layout, Lanes(layout)[k])
<1>0. /\ phase = "create" /\ Len(made) < Len(Lanes(layout)) /\ made' = Append(made, w)
      /\ rows' = WithRow(w)
      /\ UNCHANGED <<size, segments, phase, layout, states, workers, late, stored, disk, restarts>>
  BY DEF Create
<1> SUFFICES ASSUME size \in NumbersTellLayouts
             PROVE  Honest'
  BY <1>0 DEF Honest, NumbersTellLayouts
<1>1. /\ Types /\ made \in Seq(GoodRows(size)) /\ Len(made) \in Nat
      /\ segments \in Nat /\ IsLayout(layout)
  BY SizeTypes, LenProperties DEF Planned, Types
<1>2. k \in 1..LaneCount(layout)
  <2>1. Len(Lanes(layout)) \in Nat /\ Len(Lanes(layout)) = LaneCount(layout)
    BY <1>1, LaneTypes, LanePieces, Pieces
  <2> QED BY <1>0, <1>1, <2>1
<1>3. Covered(layout, states, disk)
  <2>1. layout = Layout(size, segments) /\ DOMAIN states = Blocks(layout) /\ segments \in Segments
    BY <1>0 DEF Planned, Types
  <2> QED BY <2>1 DEF Honest, Proper
<1>4. Claimed(w) \subseteq disk
  BY <1>1, <1>2, <1>3, Seeding DEF Seed, Claimed
<1> HIDE DEF w
<1>5. RowsOf(made') \subseteq RowsOf(made) \cup {w}
  <2>1. /\ DOMAIN made' = 1..k /\ made'[k] = w /\ DOMAIN made = 1..Len(made)
        /\ \A i \in 1..Len(made) : made'[i] = made[i]
    BY <1>0, <1>1
  <2>2. \A i \in 1..k : i = k \/ i \in 1..Len(made)
    BY <1>1
  <2> HIDE DEF k
  <2> QED BY <2>1, <2>2 DEF RowsOf
<1>6. rows' \subseteq rows \cup {w}
  BY <1>0 DEF WithRow
<1>7. RowsOf(workers)' = RowsOf(workers)
  BY <1>0 DEF RowsOf
<1> QED BY <1>0, <1>4, <1>5, <1>6, <1>7 DEF Honest

\* A worker claims the byte it has written.
LEMMA HonestWrite ==
    ASSUME Planned, Honest, NEW i \in 1..Len(workers), Write(i)
    PROVE  Honest'
<1>0. /\ i \in DOMAIN workers
      /\ disk' = disk \cup {workers[i].start + workers[i].got}
      /\ workers' = [workers EXCEPT ![i].got = @ + 1]
      /\ UNCHANGED <<size, segments, phase, layout, states, made, late, rows, stored, restarts>>
  BY DEF Write
<1> SUFFICES ASSUME size \in NumbersTellLayouts
             PROVE  Honest'
  BY <1>0 DEF Honest, NumbersTellLayouts
<1>1. Types /\ size \in Nat \ {0} /\ workers \in Seq(GoodRows(size)) /\ workers[i] \in GoodRows(size)
  BY SizeTypes, ElementOfSeq DEF Planned, Types
<1>2. PICK v \in GoodRows(size) : v = workers[i] /\ v.start \in Nat /\ v.got \in Nat
  BY <1>1, GoodRowTypes
<1>3. PICK w : w = [v EXCEPT !.got = @ + 1]
  OBVIOUS
<1>4. w.start = v.start /\ w.got = v.got + 1
  BY <1>2, <1>3 DEF GoodRows
<1>5. RowsOf(workers') \subseteq RowsOf(workers) \cup {w}
  BY <1>0, <1>2, <1>3 DEF RowsOf
<1>6. Claimed(v) \subseteq disk
  BY <1>0, <1>2 DEF Honest, RowsOf
<1>7. Claimed(w) \subseteq disk'
  <2>1. disk' = disk \cup {v.start + v.got}
    BY <1>0, <1>2
  <2>2. Claimed(w) \subseteq Claimed(v) \cup {v.start + v.got}
    BY <1>2, <1>4 DEF Claimed
  <2> QED BY <1>6, <2>1, <2>2
<1>8. Proper(size, states, disk') /\ Proper(size, stored, disk')
  BY <1>0, MoreBytes DEF Honest
<1>9. RowsOf(made)' = RowsOf(made)
  BY <1>0 DEF RowsOf
<1> QED BY <1>0, <1>5, <1>7, <1>8, <1>9 DEF Honest

LEMMA HonestProgress ==
    ASSUME Planned, Honest, NEW i \in 1..Len(workers), Progress(i)
    PROVE  Honest'
<1>0. /\ phase \in {"running", "stopped"} /\ i \in DOMAIN workers
      /\ late' = late \cup {workers[i]} /\ states' = Synced(layout, states, workers)
      /\ UNCHANGED <<size, segments, phase, layout, workers, made, rows, stored, disk, restarts>>
  BY DEF Progress
<1> SUFFICES ASSUME size \in NumbersTellLayouts
             PROVE  Honest'
  BY <1>0 DEF Honest, NumbersTellLayouts
<1>1. layout = Layout(size, segments) /\ DOMAIN states = Blocks(layout) /\ segments \in Segments
  BY <1>0 DEF Planned, Types
<1>2. Covered(Layout(size, segments), states, disk)
  BY <1>1 DEF Honest, Proper
<1>3. Proper(size, states', disk)
  BY <1>0, <1>1, <1>2, SyncedProper DEF Planned
<1>4. late' \subseteq late \cup RowsOf(workers)
  BY <1>0 DEF RowsOf
<1>5. RowsOf(workers)' = RowsOf(workers) /\ RowsOf(made)' = RowsOf(made)
  BY <1>0 DEF RowsOf
<1> QED BY <1>0, <1>3, <1>4, <1>5 DEF Honest

\* The other steps only carry rows and states from one place to another.
LEMMA HonestMoves ==
    ASSUME Planned, Honest, Ensure \/ Created \/ SaveLate \/ SaveTask \/ Pause \/ Restart
    PROVE  Honest'
<1>1. /\ UNCHANGED <<size, disk>> /\ states' \in {states, stored} /\ stored' \in {states, stored}
  BY DEF Ensure, Created, SaveLate, SaveTask, Pause, Restart
<1> SUFFICES ASSUME size \in NumbersTellLayouts
             PROVE  Honest'
  BY <1>1 DEF Honest, NumbersTellLayouts
<1>2. RowsOf(<<>>) = {}
  BY DEF RowsOf
<1>3. RowsOf(workers') \subseteq RowsOf(workers) \cup RowsOf(made) \cup rows
  <2>1. CASE Restart
    <3>1. RowsOf(InOrder(rows)) \subseteq rows
      <4>1. \A r \in rows : r.id \in Nat
        BY SizeTypes, GoodRowTypes DEF Planned, Types
      <4>2. InOrder(rows) \in [1..Cardinality(rows) -> rows]
        BY <4>1, Sorting DEF Planned, Types
      <4> QED BY <4>2 DEF RowsOf
    <3> QED BY <1>2, <2>1, <3>1 DEF Restart
  <2>2. CASE Ensure \/ Created \/ SaveLate \/ SaveTask \/ Pause
    BY <1>2, <2>2 DEF Ensure, Created, SaveLate, SaveTask, Pause
  <2> QED BY <2>1, <2>2
<1>4. RowsOf(made') \subseteq RowsOf(made)
  BY <1>2 DEF Ensure, Created, SaveLate, SaveTask, Pause, Restart
<1>5. late' \subseteq late
  BY DEF Ensure, Created, SaveLate, SaveTask, Pause, Restart
<1>6. rows' \subseteq rows \cup late \cup RowsOf(workers)
  BY DEF Ensure, Created, SaveLate, SaveTask, Pause, Restart, WithRow
<1>7. Proper(size, states', disk) /\ Proper(size, stored', disk)
  BY <1>1 DEF Honest
<1> QED BY <1>1, <1>3, <1>4, <1>5, <1>6, <1>7 DEF Honest

LEMMA HonestNext == Planned /\ Honest /\ [Next]_vars => Honest'
<1> SUFFICES ASSUME Planned, Honest, [Next]_vars PROVE Honest'
  OBVIOUS
<1>1. CASE UNCHANGED vars
  BY <1>1 DEF vars, Honest, NumbersTellLayouts, RowsOf
<1>2. CASE Next
  BY <1>2, HonestInstall, HonestCreate, HonestWrite, HonestProgress, HonestMoves DEF Next
<1> QED BY <1>1, <1>2

LEMMA HonestInvariant == Spec => [](Planned /\ Honest)
<1>1. Init => Planned /\ Honest
  BY PlannedInit, HonestInit
<1> QED BY <1>1, PlannedNext, HonestNext, PTL DEF Spec

\* Neither a worker nor a row claims a byte that is not in the file, whatever plans,
\* saves and restarts the progress went through, for every size whose layouts
\* block_state_layout_matches can tell apart.
THEOREM ClaimsCorrect == Spec => []ClaimsAreWritten
<1>1. Planned /\ Honest => ClaimsAreWritten
  <2> SUFFICES ASSUME Planned, Honest, size \in NumbersTellLayouts,
                      NEW w \in RowsOf(workers) \cup RowsOf(made) \cup late \cup rows
               PROVE  w.got <= Length(w) /\ Claimed(w) \subseteq disk
    BY DEF ClaimsAreWritten
  <2>1. w \in GoodRows(size)
    BY RowsOfList DEF Planned, Types
  <2> QED BY <2>1 DEF GoodRows, Honest
<1> QED BY <1>1, HonestInvariant, PTL

\* A block that mark_completed_blocks or a restore counts as completed is in the file.
THEOREM CompletedBlocksCorrect == Spec => []CompletedBlocksAreWritten
<1>1. Planned /\ Honest => CompletedBlocksAreWritten
  <2> SUFFICES ASSUME Planned, Honest, size \in NumbersTellLayouts, phase # "restored"
               PROVE  Covered(layout, states, disk)
    BY DEF CompletedBlocksAreWritten, Covered
  <2>1. layout = Layout(size, segments) /\ DOMAIN states = Blocks(layout) /\ segments \in Segments
    BY DEF Planned, Types
  <2> QED BY <2>1 DEF Honest, Proper
<1> QED BY <1>1, HonestInvariant, PTL
=============================================================================
