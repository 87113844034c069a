---------------------------- MODULE RexmitProofs ----------------------------
(***************************************************************************)
(* What the sequence space of rexmit.c keeps of a direction, for a         *)
(* quadrant, a window and a stream of any size and any number of packets.  *)
(***************************************************************************)
EXTENDS Rexmit, Conversation, FiniteSetTheorems, WellFoundedInduction, TLAPS

-----------------------------------------------------------------------------
(* Sequence numbers.                                                       *)

LEMMA DivMod ==
    ASSUME NEW D \in Nat \ {0}, NEW a \in Nat
    PROVE  /\ a \div D \in Nat /\ a % D \in 0..(D - 1)
           /\ D * (a \div D) <= a /\ a < D * (a \div D) + D
<1>1. a \div D \in Nat /\ D * (a \div D) <= a /\ a < D * (a \div D) + D
  BY Z3
<1>2. a % D \in 0..(D - 1)
  BY Z3
<1> QED
  BY <1>1, <1>2

LEMMA ModUnique ==
    ASSUME NEW D \in Nat \ {0}, NEW b \in Nat, NEW r \in 0..(D - 1)
    PROVE  (D * b + r) % D = r /\ (D * b + r) \div D = b
  BY Z3

LEMMA QuadPositive == QuadSize \in Nat \ {0} /\ SeqSize \in Nat \ {0} /\ SeqSize = 4 * QuadSize
  BY SeqspaceAssumption DEF SeqSize

\* Four quadrants make one turn of the sequence space.
LEMMA TurnShape ==
    ASSUME NEW a \in Nat, NEW r \in 0..(QuadSize - 1)
    PROVE  /\ (QuadSize * a + r) % SeqSize = QuadSize * (a % 4) + r
           /\ (QuadSize * a + r) \div QuadSize = a
<1>0. QuadSize \in Nat \ {0} /\ SeqSize \in Nat \ {0} /\ SeqSize = 4 * QuadSize
  BY QuadPositive
<1>1. PICK b \in Nat, i \in 0..3 : a = 4 * b + i /\ i = a % 4
  <2>1. /\ a \div 4 \in Nat /\ a % 4 \in 0..3 /\ 4 * (a \div 4) <= a /\ a < 4 * (a \div 4) + 4
    BY DivMod
  <2>2. a - 4 * (a \div 4) \in 0..3 /\ a = 4 * (a \div 4) + (a - 4 * (a \div 4))
    BY <2>1
  <2>3. (4 * (a \div 4) + (a - 4 * (a \div 4))) % 4 = a - 4 * (a \div 4)
    BY <2>1, <2>2, ModUnique
  <2> QED
    BY <2>1, <2>2, <2>3
<1>3. QuadSize * i + r \in 0..(SeqSize - 1)
  BY <1>0
<1>4. QuadSize * a + r = SeqSize * b + (QuadSize * i + r)
  BY <1>1, <1>0, Z3
<1>5. (SeqSize * b + (QuadSize * i + r)) % SeqSize = QuadSize * i + r
  BY <1>0, <1>3, ModUnique
<1>6. (QuadSize * a + r) \div QuadSize = a
  BY <1>0, ModUnique
<1> QED
  BY <1>1, <1>4, <1>5, <1>6

\* Where byte y of the stream stands in its quadrant, and what its number is.
LEMMA NumberShape ==
    ASSUME NEW y \in Nat
    PROVE  /\ QuadOf(y) \in Nat /\ QuadOf(y) % 4 \in Index
           /\ QuadSize * QuadOf(y) <= Isn + y /\ Isn + y < QuadSize * QuadOf(y) + QuadSize
           /\ NumberOf(y) = QuadSize * (QuadOf(y) % 4) + (Isn + y - QuadSize * QuadOf(y))
           /\ NumberOf(y) \in Nat
           /\ QuadSize * (QuadOf(y) % 4) <= NumberOf(y) /\ NumberOf(y) <= LAST_SEQ(QuadOf(y) % 4)
           /\ QUADNUM(NumberOf(y)) = QuadOf(y) % 4
<1>0. QuadSize \in Nat \ {0} /\ SeqSize \in Nat \ {0} /\ Isn + y \in Nat /\ Isn \in Nat
  BY QuadPositive, RexmitAssumption DEF Seqnum
<1> DEFINE A == QuadOf(y)
           r == Isn + y - QuadSize * A
<1>1. /\ A \in Nat /\ QuadSize * A <= Isn + y /\ Isn + y < QuadSize * A + QuadSize
  BY <1>0, DivMod DEF QuadOf
<1> HIDE DEF A
<1>2. A % 4 \in 0..3
  <2>1. \A a \in Nat : a % 4 \in 0..(4 - 1)
    BY DivMod
  <2> QED
    BY <1>1, <2>1
<1>a. QuadSize * A \in Nat
  BY <1>0, <1>1
<1>3. r \in 0..(QuadSize - 1) /\ Isn + y = QuadSize * A + r
  BY <1>0, <1>1, <1>a
<1>4. NumberOf(y) = QuadSize * (A % 4) + r
  BY <1>1, <1>3, TurnShape DEF NumberOf
<1>5. QUADNUM(NumberOf(y)) = A % 4
  BY <1>2, <1>3, <1>4, TurnShape DEF QUADNUM
<1>6. /\ NumberOf(y) \in Nat /\ QuadSize * (A % 4) <= NumberOf(y)
      /\ NumberOf(y) <= LAST_SEQ(A % 4)
  <2>1. QuadSize * (A % 4) \in Nat /\ QuadSize * ((A % 4) + 1) = QuadSize * (A % 4) + QuadSize
    BY <1>0, <1>2
  <2> QED
    BY <1>0, <1>3, <1>4, <2>1 DEF LAST_SEQ
<1> QED
  BY <1>1, <1>2, <1>3, <1>4, <1>5, <1>6 DEF A, Index

\* Bytes less than a quadrant apart are in the same or in neighbour quadrants.
LEMMA NearShape ==
    ASSUME NEW y \in Nat, NEW z \in Nat, y <= z, z <= y + QuadSize
    PROVE  QuadOf(z) \in {QuadOf(y), QuadOf(y) + 1}
<1> DEFINE A == QuadOf(y)
           B == QuadOf(z)
<1>0. QuadSize \in Nat \ {0} /\ Isn \in Nat
  BY QuadPositive, RexmitAssumption DEF Seqnum
<1>1. /\ A \in Nat /\ B \in Nat
      /\ QuadSize * A <= Isn + y /\ Isn + y < QuadSize * A + QuadSize
      /\ QuadSize * B <= Isn + z /\ Isn + z < QuadSize * B + QuadSize
  BY NumberShape
<1> HIDE DEF A, B
<1>2. ASSUME NEW a \in Nat, NEW b \in Nat, a > b PROVE QuadSize * a >= QuadSize * b + QuadSize
  <2>1. PICK d \in Nat : a = b + 1 + d
    <3>1. a - b - 1 \in Nat /\ a = b + 1 + (a - b - 1)
      BY <1>2
    <3> QED
      BY <3>1
  <2>2. QuadSize * (b + 1 + d) = QuadSize * b + QuadSize + QuadSize * d /\ QuadSize * d \in Nat
    BY <1>0
  <2> QED
    BY <2>1, <2>2, <1>0
<1>3. ~(A > B)
  <2>1. SUFFICES ASSUME A > B PROVE FALSE
    OBVIOUS
  <2>2. QuadSize * A >= QuadSize * B + QuadSize
    BY <1>1, <1>2, <2>1
  <2>3. QuadSize * A \in Nat /\ QuadSize * B \in Nat
    BY <1>0, <1>1
  <2> QED
    BY <1>0, <1>1, <2>2, <2>3
<1>4. ~(B > A + 1)
  <2>1. SUFFICES ASSUME B > A + 1 PROVE FALSE
    OBVIOUS
  <2>2. QuadSize * B >= QuadSize * (A + 1) + QuadSize
    BY <1>1, <1>2, <2>1
  <2>3. QuadSize * A \in Nat /\ QuadSize * B \in Nat /\ QuadSize * (A + 1) = QuadSize * A + QuadSize
    BY <1>0, <1>1
  <2> QED
    BY <1>0, <1>1, <2>2, <2>3
<1> QED
  BY <1>1, <1>3, <1>4 DEF A, B

\* Among bytes of three quadrants in a row a sequence number is one byte's.
LEMMA NumberInjective ==
    ASSUME NEW y \in Nat, NEW z \in Nat,
           QuadOf(y) - QuadOf(z) \in {-3, -2, -1, 0, 1, 2, 3}, QuadOf(y) % 4 = QuadOf(z) % 4
    PROVE  QuadOf(y) = QuadOf(z) /\ NumberOf(z) - NumberOf(y) = z - y
<1>1. \A a, b \in Nat : a - b \in {-3, -2, -1, 0, 1, 2, 3} /\ a % 4 = b % 4 => a = b
  OBVIOUS
<1>2. QuadOf(y) = QuadOf(z)
  BY <1>1, NumberShape
<1>3. QuadSize \in Nat \ {0} /\ Isn \in Nat
  BY QuadPositive, RexmitAssumption DEF Seqnum
<1>4. QuadSize * QuadOf(y) \in Nat /\ QuadSize * (QuadOf(y) % 4) \in Nat
  BY <1>3, NumberShape DEF Index
<1> QED
  BY <1>2, <1>3, <1>4, NumberShape

-----------------------------------------------------------------------------
(* The ring of quadrants.                                                  *)

LEMMA IndexShape ==
    ASSUME NEW i \in Index
    PROVE  /\ After(i) \in Index /\ Before(i) \in Index /\ Opposite(i) \in Index
           /\ i # After(i) /\ i # Before(i) /\ i # Opposite(i) /\ After(i) # Before(i)
           /\ After(i) # Opposite(i) /\ Before(i) # Opposite(i)
           /\ \A j \in Index : j \in {i, After(i), Before(i), Opposite(i)}
           /\ Opposite(After(i)) = Before(i) /\ Opposite(Before(i)) = After(i)
           /\ Opposite(Opposite(i)) = i
           /\ After(After(i)) = Opposite(i) /\ Before(Before(i)) = Opposite(i)
           /\ After(Before(i)) = i /\ Before(After(i)) = i
<1>1. i \in {0, 1, 2, 3}
  BY DEF Index
<1>2. /\ After(0) = 1 /\ After(1) = 2 /\ After(2) = 3 /\ After(3) = 0
      /\ Before(0) = 3 /\ Before(1) = 0 /\ Before(2) = 1 /\ Before(3) = 2
      /\ Opposite(0) = 2 /\ Opposite(1) = 3 /\ Opposite(2) = 0 /\ Opposite(3) = 1
  BY DEF After, Before, Opposite
<1> QED
  BY <1>1, <1>2 DEF Index

QuadType == [segs : SUBSET SegmentType, prev : BOOLEAN, next : BOOLEAN, there : BOOLEAN]

\* The ring turns with the quadrant that is asked for; it loses the segments of
\* the opposite one, and no others.
LEMMA RingTurns ==
    ASSUME NEW ss \in [Index -> QuadType], NEW i \in Index,
           ss = NewSeqspace \/ \E c \in Index : Ring(ss, c)
    PROVE  /\ whichquad(ss, i) \in [Index -> QuadType]
           /\ Ring(whichquad(ss, i), i)
           /\ \A j \in Index : whichquad(ss, i)[j].segs = IF j = Opposite(i) THEN {} ELSE ss[j].segs
<1> DEFINE new == whichquad(ss, i)
<1>0. NoQuad \in QuadType /\ NewQuad \in QuadType /\ NoQuad.segs = {} /\ NewQuad.segs = {} /\ NewQuad.there
  BY DEF NoQuad, NewQuad, QuadType
<1>1. \A j \in Index : ss[j].there \/ ss[j] = NoQuad
  <2>1. CASE ss = NewSeqspace
    BY <2>1 DEF NewSeqspace
  <2>2. CASE \E c \in Index : Ring(ss, c)
    BY <2>2, IndexShape DEF Ring
  <2> QED
    BY <2>1, <2>2
<1>2. \A j \in Index : /\ Present(ss[j]) \in QuadType /\ Present(ss[j]).there
                       /\ Present(ss[j]).segs = ss[j].segs
  BY <1>0, <1>1 DEF Present, QuadType
<1>3. CASE ss[i].there /\ ss[i].prev /\ ss[i].next
  <2>1. Ring(ss, i)
    <3>1. PICK c \in Index : Ring(ss, c)
      BY <1>3 DEF NewSeqspace, NoQuad
    <3>2. i = c
      BY <1>3, <3>1, IndexShape DEF Ring, NoQuad
    <3> QED
      BY <3>1, <3>2
  <2> QED
    BY <1>0, <1>3, <2>1 DEF whichquad, Ring
<1>4. CASE ~(ss[i].there /\ ss[i].prev /\ ss[i].next)
  <2> DEFINE self == [Present(ss[i]) EXCEPT !.prev = TRUE, !.next = TRUE]
             next == [Present(ss[After(i)]) EXCEPT !.prev = TRUE, !.next = FALSE]
             prev == [Present(ss[Before(i)]) EXCEPT !.prev = FALSE, !.next = TRUE]
  <2>a. After(i) \in Index /\ Before(i) \in Index
    BY IndexShape
  <2>1. /\ self \in QuadType /\ next \in QuadType /\ prev \in QuadType
        /\ self.there /\ self.prev /\ self.next /\ self.segs = ss[i].segs
        /\ next.there /\ next.prev /\ ~next.next /\ next.segs = ss[After(i)].segs
        /\ prev.there /\ ~prev.prev /\ prev.next /\ prev.segs = ss[Before(i)].segs
    <3>2. self \in QuadType /\ self.there /\ self.prev /\ self.next /\ self.segs = ss[i].segs
      BY <1>2 DEF QuadType
    <3>4. /\ next \in QuadType /\ next.there /\ next.prev /\ ~next.next
          /\ next.segs = ss[After(i)].segs
      BY <1>2, <2>a DEF QuadType
    <3>5. /\ prev \in QuadType /\ prev.there /\ ~prev.prev /\ prev.next
          /\ prev.segs = ss[Before(i)].segs
      BY <1>2, <2>a DEF QuadType
    <3> QED
      BY <3>2, <3>4, <3>5
  <2>2. new = [ss EXCEPT ![i] = self, ![After(i)] = next, ![Before(i)] = prev, ![Opposite(i)] = NoQuad]
    BY <1>4, IndexShape DEF whichquad
  <2> HIDE DEF self, next, prev
  <2>3. /\ new \in [Index -> QuadType]
        /\ new[i] = self /\ new[After(i)] = next /\ new[Before(i)] = prev /\ new[Opposite(i)] = NoQuad
    BY <1>0, <2>1, <2>2, IndexShape
  <2>4. Ring(new, i)
    BY <2>1, <2>3 DEF Ring
  <2>5. \A j \in Index : new[j].segs = IF j = Opposite(i) THEN {} ELSE ss[j].segs
    BY <1>0, <2>1, <2>3, IndexShape, SMTT(30)
  <2> QED
    BY <2>3, <2>4, <2>5
<1> QED
  BY <1>3, <1>4

\* The sequence space with other segments in quadrant i.
WithSegs(ss, i, segs) == [ss EXCEPT ![i].segs = segs]

RingStep(ss, c, i, segs) ==
    /\ ss \in [Index -> QuadType] /\ c \in Index /\ Ring(ss, c)
    /\ i \in Index /\ i # Opposite(c) /\ segs \in SUBSET SegmentType

\* The ring does not see the segments.
LEMMA RingKept ==
    ASSUME NEW ss, NEW c, NEW i, NEW segs, RingStep(ss, c, i, segs)
    PROVE  /\ WithSegs(ss, i, segs) \in [Index -> QuadType]
           /\ Ring(WithSegs(ss, i, segs), c)
           /\ \A j \in Index : WithSegs(ss, i, segs)[j].segs = IF j = i THEN segs ELSE ss[j].segs
<1>p. /\ ss \in [Index -> QuadType] /\ c \in Index /\ Ring(ss, c)
      /\ i \in Index /\ i # Opposite(c) /\ segs \in SUBSET SegmentType
  BY DEF RingStep
<1> USE <1>p
<1> DEFINE q == [ss[i] EXCEPT !.segs = segs]
           new == WithSegs(ss, i, segs)
<1>1. /\ q \in QuadType /\ q.segs = segs
      /\ q.there = ss[i].there /\ q.prev = ss[i].prev /\ q.next = ss[i].next
  BY DEF QuadType
<1>2. new = [ss EXCEPT ![i] = q]
  BY DEF WithSegs
<1> HIDE DEF q, new
<1>3. new \in [Index -> QuadType] /\ \A j \in Index : new[j] = IF j = i THEN q ELSE ss[j]
  BY <1>1, <1>2
<1>4. Ring(new, c)
  BY <1>1, <1>3, IndexShape DEF Ring
<1>5. \A j \in Index : new[j].segs = IF j = i THEN segs ELSE ss[j].segs
  BY <1>1, <1>3
<1> QED
  BY <1>3, <1>4, <1>5 DEF new

-----------------------------------------------------------------------------
(* Pieces of the sequence space.                                           *)

\* The first element of a set of numbers, and the last of a bounded one.
LEMMA LeastNumber ==
    ASSUME NEW S \in SUBSET Nat, S # {}
    PROVE  \E x \in S : \A y \in S : x <= y
<1> DEFINE R == OpToRel(<, Nat)
<1>1. \E x \in S : \A y \in S : ~(<<y, x>> \in R)
  BY NatLessThanWellFounded, WFMin
<1>2. R = {p \in Nat \X Nat : p[1] < p[2]}
  BY DEF OpToRel
<1> HIDE DEF R
<1>3. \A x, y \in Nat : y < x => <<y, x>> \in R
  BY <1>2
<1>4. PICK x \in S : \A y \in S : ~(<<y, x>> \in R)
  BY <1>1
<1>5. \A y \in S : ~(y < x)
  BY <1>3, <1>4, Zenon
<1> QED
  BY <1>5

LEMMA Greatest ==
    ASSUME NEW S \in SUBSET Int, S # {}, NEW b \in Int, \A x \in S : x <= b
    PROVE  \E x \in S : \A y \in S : y <= x
<1> DEFINE T == {n \in Nat : b - n \in S}
<1>1. \A x \in S : b - x \in T
  OBVIOUS
<1>2. T # {} /\ T \in SUBSET Nat
  BY <1>1
<1>3. PICK n \in T : \A m \in T : n <= m
  BY <1>2, LeastNumber
<1>4. b - n \in S
  BY <1>3
<1> QED
  BY <1>1, <1>3, <1>4

LEMMA MaxShape ==
    ASSUME NEW S \in SUBSET Int, S # {}, NEW b \in Int, \A x \in S : x <= b
    PROVE  Max(S) \in S /\ \A y \in S : y <= Max(S)
<1>1. \E x \in S : \A y \in S : x >= y
  <2>1. PICK x \in S : \A y \in S : y <= x
    BY Greatest
  <2> QED
    BY <2>1
<1>2. Max(S) \in S /\ \A y \in S : Max(S) >= y
  BY <1>1 DEF Max
<1> QED
  BY <1>2

\* A run of numbers that ends at x: its first one, as Pieces chooses it.
LEMMA RunShape ==
    ASSUME NEW a \in Int, NEW b \in Int, NEW S \in SUBSET (a..b), NEW x \in S
    PROVE  LET f == Max({y \in S : y <= x /\ y - 1 \notin S})
           IN  f \in S /\ f <= x /\ f - 1 \notin S /\ f..x \subseteq S
<1> DEFINE F == {y \in S : y <= x /\ y - 1 \notin S}
           f == Max(F)
<1>1. F # {}
  <2>0. S \subseteq Int
    OBVIOUS
  <2>1. PICK y \in S : \A z \in S : z >= y
    <3>1. {n \in Nat : a + n \in S} # {}
      <4>1. x - a \in Nat /\ a + (x - a) = x
        OBVIOUS
      <4> QED
        BY <4>1
    <3>2. PICK n \in {d \in Nat : a + d \in S} : \A m \in {d \in Nat : a + d \in S} : n <= m
      BY <3>1, LeastNumber
    <3>3. \A z \in S : z - a \in Nat /\ a + (z - a) = z
      OBVIOUS
    <3> QED
      BY <3>2, <3>3
  <2>2. y - 1 \notin S /\ y <= x
    BY <2>0, <2>1
  <2> QED
    BY <2>2
<1>2. f \in F /\ \A y \in F : y <= f
  <2>0. S \subseteq Int /\ F \subseteq S
    OBVIOUS
  <2>1. F \in SUBSET Int /\ x \in Int /\ \A y \in F : y <= x
    <3>1. F \in SUBSET Int
      <4> HIDE DEF F
      <4> QED
        BY <2>0
    <3>2. x \in Int /\ \A y \in F : y <= x
      BY <2>0
    <3> QED
      BY <3>1, <3>2
  <2> HIDE DEF F
  <2> QED
    BY <1>1, <2>1, MaxShape
<1> HIDE DEF f
<1>3. ASSUME NEW z \in f..x, z \notin S PROVE FALSE
  <2> DEFINE T == {w \in f..x : w \notin S}
  <2>1. PICK w \in T : \A v \in T : v <= w
    <3>1. T # {} /\ T \in SUBSET Int /\ x \in Int /\ \A v \in T : v <= x
      BY <1>3
    <3> HIDE DEF T
    <3> QED
      BY <3>1, Greatest
  <2>2. w # x /\ w + 1 \in f..x /\ w + 1 \notin T
    BY <1>2, <2>1
  <2>3. w + 1 \in S /\ (w + 1) - 1 \notin S /\ w + 1 <= x
    BY <1>2, <2>1, <2>2
  <2>4. w + 1 \in F
    BY <2>3
  <2> QED
    BY <1>2, <2>1, <2>4
<1> QED
  BY <1>2, <1>3 DEF f

\* Every number of a set is in a run of it that ends.
LEMMA RunEnds ==
    ASSUME NEW a \in Int, NEW b \in Int, NEW S \in SUBSET (a..b), NEW x \in S
    PROVE  \E e \in S : e + 1 \notin S /\ x <= e /\ x..e \subseteq S
<1> DEFINE T == {z \in x..b : x..z \subseteq S}
<1>1. x \in T
  OBVIOUS
<1>2. PICK e \in T : \A z \in T : z <= e
  <2>1. T # {} /\ T \in SUBSET Int /\ \A z \in T : z <= b
    BY <1>1
  <2> HIDE DEF T
  <2> QED
    BY <2>1, Greatest
<1>3. e + 1 \notin S
  <2>1. SUFFICES ASSUME e + 1 \in S PROVE FALSE
    OBVIOUS
  <2>2. e + 1 \in x..b /\ x..(e + 1) \subseteq S
    BY <1>2, <2>1
  <2>3. e + 1 \in T
    BY <2>2
  <2> QED
    BY <1>2, <2>3
<1> QED
  BY <1>2, <1>3

\* The bytes of a..b that nobody has become segments of their own.
LEMMA PiecesShape ==
    ASSUME NEW segs, NEW a \in Nat, NEW b \in Nat, NEW now \in Nat
    PROVE  /\ \A p \in Pieces(segs, a, b, now) :
                 /\ p \in SegmentType /\ p.time = now /\ p.retrans = 0 /\ p.acked = 0
                 /\ a <= p.first /\ p.first <= p.last /\ p.last <= b
                 /\ Bytes(p) \subseteq Missing(segs, a, b)
           /\ \A n \in Missing(segs, a, b) : \E p \in Pieces(segs, a, b, now) : n \in Bytes(p)
           /\ \A p, q \in Pieces(segs, a, b, now) :
                 p # q => p.last < q.first \/ q.last < p.first
<1> DEFINE new == Missing(segs, a, b)
           ends == {x \in new : x + 1 \notin new}
           Begin(x) == Max({y \in new : y <= x /\ y - 1 \notin new})
<1>0. new \in SUBSET (a..b) /\ a \in Int /\ b \in Int
  BY DEF Missing
<1>1. Pieces(segs, a, b, now) = {Segment(Begin(x), x, now) : x \in ends}
  BY DEF Pieces
<1> HIDE DEF new
<1>2. \A x \in ends : /\ Begin(x) \in new /\ Begin(x) <= x /\ Begin(x) - 1 \notin new
                      /\ Begin(x)..x \subseteq new
  <2> TAKE x \in ends
  <2>1. x \in new
    OBVIOUS
  <2> QED
    BY <1>0, <2>1, RunShape, Zenon
<1> HIDE DEF Begin
<1>3. \A x \in ends : x \in a..b /\ Begin(x) \in a..b
  BY <1>0, <1>2
<1>4. \A x \in ends : LET p == Segment(Begin(x), x, now)
                      IN  p \in SegmentType /\ p.first = Begin(x) /\ p.last = x
                          /\ p.time = now /\ p.retrans = 0 /\ p.acked = 0
  BY <1>3 DEF Segment, SegmentType
<1>5. \A p \in Pieces(segs, a, b, now) :
         /\ p \in SegmentType /\ p.time = now /\ p.retrans = 0 /\ p.acked = 0
         /\ p.last \in ends /\ p.first = Begin(p.last)
         /\ a <= p.first /\ p.first <= p.last /\ p.last <= b
         /\ Bytes(p) \subseteq new
  BY <1>1, <1>2, <1>3, <1>4 DEF Bytes
<1>6. ASSUME NEW n \in new PROVE \E p \in Pieces(segs, a, b, now) : n \in Bytes(p)
  <2>1. PICK e \in new : e + 1 \notin new /\ n <= e /\ n..e \subseteq new
    BY <1>0, RunEnds
  <2>2. e \in ends /\ n \in a..b /\ e \in a..b
    BY <1>0, <2>1
  <2>3. Begin(e) <= n
    <3>1. SUFFICES ASSUME n < Begin(e) PROVE FALSE
      BY <1>3, <2>2
    <3>2. Begin(e) - 1 \in n..e
      BY <1>2, <1>3, <2>2, <3>1
    <3> QED
      BY <1>2, <2>1, <2>2, <3>2
  <2>4. n \in Begin(e)..e
    BY <1>3, <2>1, <2>2, <2>3
  <2>5. Segment(Begin(e), e, now) \in Pieces(segs, a, b, now)
    BY <1>1, <2>2
  <2> QED
    BY <1>4, <2>2, <2>4, <2>5 DEF Bytes
<1>7. ASSUME NEW p \in Pieces(segs, a, b, now), NEW q \in Pieces(segs, a, b, now), p # q
      PROVE  p.last < q.first \/ q.last < p.first
  <2>1. PICK x \in ends, y \in ends :
           p = Segment(Begin(x), x, now) /\ q = Segment(Begin(y), y, now)
    BY <1>1
  <2>2. x # y
    BY <1>7, <2>1
  <2>3. x \in Int /\ y \in Int /\ Begin(x) \in Int /\ Begin(y) \in Int
    BY <1>3
  <2>4. p.last = x /\ q.last = y /\ p.first = Begin(x) /\ q.first = Begin(y)
    BY <1>4, <2>1
  <2>5. CASE x < y
    <3>1. ~(Begin(y) <= x)
      <4>1. SUFFICES ASSUME Begin(y) <= x PROVE FALSE
        OBVIOUS
      <4>2. x + 1 \in Begin(y)..y
        BY <2>3, <2>5, <4>1
      <4> QED
        BY <1>2, <4>2
    <3> QED
      BY <2>3, <2>4, <3>1
  <2>6. CASE y < x
    <3>1. ~(Begin(x) <= y)
      <4>1. SUFFICES ASSUME Begin(x) <= y PROVE FALSE
        OBVIOUS
      <4>2. y + 1 \in Begin(x)..x
        BY <2>3, <2>6, <4>1
      <4> QED
        BY <1>2, <4>2
    <3> QED
      BY <2>3, <2>4, <3>1
  <2> QED
    BY <2>2, <2>3, <2>5, <2>6
<1> QED
  BY <1>5, <1>6, <1>7 DEF new

\* Segment u is segment s, repeated once more.
Again(u, s) ==
    /\ u \in SegmentType /\ u.first = s.first /\ u.last = s.last /\ u.acked = s.acked
    /\ u.retrans = (s.retrans + 1) % CountLimit

\* What becomes of the segments of a quadrant when a..b is sent.
Added(segs, new, a, b) ==
    \A u \in new :
        \/ u \in segs /\ Bytes(u) \cap (a..b) = {}
        \/ \E s \in segs : Again(u, s) /\ s.last >= a /\ s.first <= b
        \/ /\ Bytes(u) \subseteq Missing(segs, a, b)
           /\ u.retrans = 0 /\ u.acked = 0

\* The segments a packet touches, one of which may take its time.
LEMMA TimedShape ==
    ASSUME NEW touched \in SUBSET SegmentType, NEW now \in Nat,
           \A s, u \in touched : s.first = u.first => s = u
    PROVE  LET again == {[s EXCEPT !.retrans = (@ + 1) % CountLimit] : s \in touched}
               lowest == CHOOSE s \in again : \A u \in again : s.first <= u.first
               timed == IF again = {} THEN {}
                        ELSE (again \ {lowest}) \cup {[lowest EXCEPT !.time = now]}
           IN  /\ \A u \in timed : \E s \in touched : Again(u, s)
               /\ \A s \in touched : \E u \in timed : Again(u, s)
               /\ \A u, v \in timed : u.first = v.first => u = v
               /\ again # {} => lowest \in again
<1> DEFINE More(s) == [s EXCEPT !.retrans = (@ + 1) % CountLimit]
           again == {More(s) : s \in touched}
           lowest == CHOOSE s \in again : \A u \in again : s.first <= u.first
           restart == [lowest EXCEPT !.time = now]
           timed == IF again = {} THEN {} ELSE (again \ {lowest}) \cup {restart}
<1>0. \A n \in Nat : n % CountLimit \in Nat
  BY DivMod, SeqspaceAssumption
<1>1. \A s \in touched : Again(More(s), s)
  BY <1>0 DEF Again, SegmentType
<1> HIDE DEF More
<1>2. again # {} => lowest \in again
  <2>1. SUFFICES ASSUME again # {} PROVE lowest \in again
    OBVIOUS
  <2> DEFINE F == {u.first : u \in again}
  <2>2. F # {} /\ F \in SUBSET Nat
    BY <1>1, <2>1 DEF Again, SegmentType
  <2>3. PICK f \in F : \A g \in F : f <= g
    BY <2>2, LeastNumber
  <2>4. \E s \in again : \A u \in again : s.first <= u.first
    BY <2>3
  <2> HIDE DEF again
  <2> QED
    BY <2>4
<1> HIDE DEF lowest
<1>3. again # {} => \E s \in touched : Again(restart, s) /\ lowest = More(s)
  BY <1>1, <1>2 DEF Again, SegmentType
<1> HIDE DEF restart
<1>4. \A u \in timed : \E s \in touched : Again(u, s)
  BY <1>1, <1>3
<1>5. \A s \in touched : \E u \in timed : Again(u, s)
  <2> TAKE s \in touched
  <2>1. CASE More(s) = lowest
    <3>1. PICK z \in touched : Again(restart, z) /\ lowest = More(z)
      BY <1>3
    <3>2. s.first = z.first
      BY <1>1, <2>1, <3>1 DEF Again
    <3>3. s = z
      BY <3>2
    <3> QED
      BY <3>1, <3>3
  <2>2. CASE More(s) # lowest
    BY <1>1, <2>2
  <2> QED
    BY <2>1, <2>2
<1>6. \A u, v \in timed : u.first = v.first => u = v
  <2>1. \A u, v \in again : u.first = v.first => u = v
    BY <1>1 DEF Again
  <2>2. again # {} => restart.first = lowest.first
    BY <1>1, <1>3 DEF Again
  <2> HIDE DEF again
  <2> QED
    BY <1>2, <2>1, <2>2
<1> QED
  BY <1>2, <1>4, <1>5, <1>6 DEF More, lowest, restart

\* A packet within one quadrant: everything else stays, nothing is lost.
LEMMA AddedShape ==
    ASSUME NEW i \in Index, NEW segs, SegmentsInv(segs, i),
           NEW a \in Nat, NEW b \in Nat, NEW now \in Nat,
           QuadSize * i <= a, b <= LAST_SEQ(i),
           NEW timed, NEW touched, touched = {s \in segs : s.last >= a /\ s.first <= b},
           \A u \in timed : \E s \in touched : Again(u, s),
           \A s \in touched : \E u \in timed : Again(u, s),
           \A u, v \in timed : u.first = v.first => u = v,
           NEW new, new = (segs \ touched) \cup timed \cup Pieces(segs, a, b, now)
    PROVE  /\ SegmentsInv(new, i)
           /\ Recorded(new) = Recorded(segs) \cup (a..b)
           /\ Added(segs, new, a, b)
<1> DEFINE pieces == Pieces(segs, a, b, now)
<1>0. QuadSize * i \in Nat /\ LAST_SEQ(i) \in Int
  BY QuadPositive DEF Index, LAST_SEQ
<1>1. /\ segs \subseteq SegmentType
      /\ \A s \in segs : /\ s.first \in Nat /\ s.last \in Nat /\ QuadSize * i <= s.first
                         /\ s.first <= s.last /\ s.last <= LAST_SEQ(i)
      /\ \A s, u \in segs : s # u => s.last < u.first \/ u.last < s.first
  BY DEF SegmentsInv, SegmentType
<1>2. /\ \A p \in pieces :
            /\ p \in SegmentType /\ p.retrans = 0 /\ p.acked = 0
            /\ p.first \in Nat /\ p.last \in Nat
            /\ a <= p.first /\ p.first <= p.last /\ p.last <= b
            /\ Bytes(p) \subseteq Missing(segs, a, b)
      /\ \A n \in Missing(segs, a, b) : \E p \in pieces : n \in Bytes(p)
      /\ \A p, q \in pieces : p # q => p.last < q.first \/ q.last < p.first
  <2>1. /\ \A p \in pieces : /\ p \in SegmentType /\ p.time = now /\ p.retrans = 0 /\ p.acked = 0
                             /\ a <= p.first /\ p.first <= p.last /\ p.last <= b
                             /\ Bytes(p) \subseteq Missing(segs, a, b)
        /\ \A n \in Missing(segs, a, b) : \E p \in pieces : n \in Bytes(p)
        /\ \A p, q \in pieces : p # q => p.last < q.first \/ q.last < p.first
    BY PiecesShape, Zenon
  <2> HIDE DEF pieces
  <2>2. \A p \in SegmentType : p.first \in Nat /\ p.last \in Nat
    BY DEF SegmentType
  <2> QED
    BY <2>1, <2>2, Zenon
<1> HIDE DEF pieces
<1>3. \A u \in timed : \E s \in segs :
         Again(u, s) /\ u.first = s.first /\ u.last = s.last /\ s.last >= a /\ s.first <= b
  BY DEF Again
<1>4. \A u \in new : /\ u \in SegmentType /\ u.first \in Nat /\ u.last \in Nat
                     /\ QuadSize * i <= u.first /\ u.first <= u.last /\ u.last <= LAST_SEQ(i)
  <2> TAKE u \in new
  <2>1. CASE u \in segs
    BY <1>1, <2>1
  <2>2. CASE u \in timed
    BY <1>1, <1>3, <2>2 DEF Again
  <2>3. CASE u \in pieces
    BY <1>0, <1>2, <2>3
  <2> QED
    BY <2>1, <2>2, <2>3 DEF pieces
<1>5. \A p \in pieces : \A s \in segs : p.last < s.first \/ s.last < p.first
  <2> TAKE p \in pieces
  <2> TAKE s \in segs
  <2>1. \A n \in Bytes(p) : n \notin Bytes(s)
    BY <1>2 DEF Missing, Recorded
  <2>2. p.first \in Nat /\ p.last \in Nat /\ s.first \in Nat /\ s.last \in Nat
        /\ p.first <= p.last /\ s.first <= s.last
    BY <1>1, <1>2
  <2>3. (\A n \in p.first..p.last : n \notin s.first..s.last)
    BY <2>1 DEF Bytes
  <2>4. p.first \notin s.first..s.last /\ s.first \notin p.first..p.last
    BY <2>2, <2>3
  <2> QED
    BY <2>2, <2>4
<1>6. \A u, v \in new : u # v => u.last < v.first \/ v.last < u.first
  <2> TAKE u, v \in new
  <2> HAVE u # v
  <2>1. CASE u \in pieces /\ v \in pieces
    BY <1>2, <2>1
  <2>2. CASE u \in pieces /\ v \notin pieces
    BY <1>3, <1>5, <2>2 DEF pieces
  <2>3. CASE v \in pieces /\ u \notin pieces
    BY <1>3, <1>5, <2>3 DEF pieces
  <2>4. CASE u \in segs \ touched /\ v \in segs \ touched
    BY <1>1, <2>4
  <2>5. CASE u \in segs \ touched /\ v \in timed
    <3>1. PICK s \in touched : Again(v, s)
      BY <2>5
    <3>2. s \in segs /\ s # u /\ v.first = s.first /\ v.last = s.last
      BY <2>5, <3>1 DEF Again
    <3> QED
      BY <1>1, <2>5, <3>2
  <2>6. CASE v \in segs \ touched /\ u \in timed
    <3>1. PICK s \in touched : Again(u, s)
      BY <2>6
    <3>2. s \in segs /\ s # v /\ u.first = s.first /\ u.last = s.last
      BY <2>6, <3>1 DEF Again
    <3> QED
      BY <1>1, <2>6, <3>2
  <2>7. CASE u \in timed /\ v \in timed
    <3>1. PICK s \in segs : u.first = s.first /\ u.last = s.last
      BY <1>3, <2>7
    <3>2. PICK z \in segs : v.first = z.first /\ v.last = z.last
      BY <1>3, <2>7
    <3>3. s # z
      BY <2>7, <3>1, <3>2
    <3> QED
      BY <1>1, <3>1, <3>2, <3>3
  <2> QED
    BY <2>1, <2>2, <2>3, <2>4, <2>5, <2>6, <2>7 DEF pieces
<1>7. SegmentsInv(new, i)
  BY <1>4, <1>6 DEF SegmentsInv
<1>8. Recorded(new) = Recorded(segs) \cup (a..b)
  <2>1. ASSUME NEW u \in new, NEW n \in Bytes(u) PROVE n \in Recorded(segs) \cup (a..b)
    <3>1. CASE u \in segs
      BY <2>1, <3>1 DEF Recorded
    <3>2. CASE u \in timed
      <4>1. PICK s \in segs : u.first = s.first /\ u.last = s.last
        BY <1>3, <3>2
      <4>2. n \in Bytes(s)
        BY <2>1, <4>1 DEF Bytes
      <4> QED
        BY <4>2 DEF Recorded
    <3>3. CASE u \in pieces
      BY <1>2, <2>1, <3>3 DEF Missing
    <3> QED
      BY <3>1, <3>2, <3>3 DEF pieces
  <2>2. ASSUME NEW s \in segs, NEW n \in Bytes(s) PROVE n \in Recorded(new)
    <3>1. CASE s \in touched
      <4>1. PICK u \in timed : Again(u, s)
        BY <3>1
      <4>2. u \in new /\ n \in Bytes(u)
        BY <2>2, <4>1 DEF Again, Bytes
      <4> QED
        BY <4>2 DEF Recorded
    <3>2. CASE s \notin touched
      BY <2>2, <3>2 DEF Recorded
    <3> QED
      BY <3>1, <3>2
  <2>3. ASSUME NEW n \in a..b PROVE n \in Recorded(new)
    <3>1. CASE n \in Missing(segs, a, b)
      <4>1. PICK p \in pieces : n \in Bytes(p)
        BY <1>2, <3>1
      <4>2. p \in new
        BY <4>1 DEF pieces
      <4> QED
        BY <4>1, <4>2 DEF Recorded
    <3>2. CASE n \in Recorded(segs)
      BY <2>2, <3>2 DEF Recorded
    <3> QED
      BY <3>1, <3>2 DEF Missing
  <2>4. Recorded(new) \subseteq Recorded(segs) \cup (a..b)
    <3>1. \A n \in Recorded(new) : \E u \in new : n \in Bytes(u)
      BY DEF Recorded
    <3> QED
      BY <2>1, <3>1
  <2>5. Recorded(segs) \subseteq Recorded(new)
    <3>1. \A n \in Recorded(segs) : \E u \in segs : n \in Bytes(u)
      BY DEF Recorded
    <3> QED
      BY <2>2, <3>1
  <2> QED
    BY <2>3, <2>4, <2>5
<1>9. Added(segs, new, a, b)
  <2>1. ASSUME NEW u \in segs \ touched PROVE Bytes(u) \cap (a..b) = {}
    <3>1. u.first \in Nat /\ u.last \in Nat /\ ~(u.last >= a /\ u.first <= b)
      BY <1>1
    <3> QED
      BY <3>1 DEF Bytes
  <2>2. \A u \in pieces : Bytes(u) \subseteq Missing(segs, a, b) /\ u.retrans = 0 /\ u.acked = 0
    BY <1>2
  <2>3. \A u \in timed : \E s \in segs : Again(u, s) /\ s.last >= a /\ s.first <= b
    BY <1>3
  <2>4. new = (segs \ touched) \cup timed \cup pieces
    BY DEF pieces
  <2> QED
    BY <2>1, <2>2, <2>3, <2>4 DEF Added
<1> QED
  BY <1>7, <1>8, <1>9

\* addseg on the block of the direction: nothing but the quadrant's segments.
LEMMA AddsegShape ==
    ASSUME NEW t, "ss" \in DOMAIN t, t.ss \in [Index -> QuadType], NEW i \in Index,
           SegmentsInv(t.ss[i].segs, i),
           NEW a \in Nat, NEW b \in Nat, NEW now \in Nat,
           QuadSize * i <= a, b <= LAST_SEQ(i)
    PROVE  \E new \in SUBSET SegmentType :
              /\ "ss" \in DOMAIN addseg(t, i, a, b, now).tcb
              /\ addseg(t, i, a, b, now).tcb.ss = WithSegs(t.ss, i, new)
              /\ addseg(t, i, a, b, now).rexlen = Cardinality((a..b) \cap Recorded(t.ss[i].segs))
              /\ SegmentsInv(new, i)
              /\ Recorded(new) = Recorded(t.ss[i].segs) \cup (a..b)
              /\ Added(t.ss[i].segs, new, a, b)
<1> DEFINE segs == t.ss[i].segs
           touched == {s \in segs : s.last >= a /\ s.first <= b}
           again == {[s EXCEPT !.retrans = (@ + 1) % CountLimit] : s \in touched}
           lowest == CHOOSE s \in again : \A u \in again : s.first <= u.first
           timed == IF again = {} THEN {}
                    ELSE (again \ {lowest}) \cup {[lowest EXCEPT !.time = now]}
           new == (segs \ touched) \cup timed \cup Pieces(segs, a, b, now)
           base == IF again = {} THEN t ELSE rtt_retrans(t, lowest, now)
           result == [base EXCEPT !.ss[i].segs = (@ \ touched) \cup timed \cup Pieces(segs, a, b, now)]
<1>1. /\ addseg(t, i, a, b, now).tcb = result
      /\ addseg(t, i, a, b, now).rexlen = Cardinality((a..b) \cap Recorded(segs))
  BY DEF addseg
<1>2. touched \in SUBSET SegmentType /\ \A s, u \in touched : s.first = u.first => s = u
  <2>1. segs \subseteq SegmentType
        /\ \A s, u \in segs : s # u => s.last < u.first \/ u.last < s.first
    BY DEF SegmentsInv
  <2>2. \A s \in segs : s.first <= s.last
    BY DEF SegmentsInv
  <2>3. \A s \in SegmentType : s.first \in Nat /\ s.last \in Nat
    BY DEF SegmentType
  <2> QED
    BY <2>1, <2>2, <2>3
<1>3. /\ \A u \in timed : \E s \in touched : Again(u, s)
      /\ \A s \in touched : \E u \in timed : Again(u, s)
      /\ \A u, v \in timed : u.first = v.first => u = v
  <2> HIDE DEF touched
  <2> QED
    BY <1>2, TimedShape
<1>4. "ss" \in DOMAIN base /\ base.ss = t.ss
  <2>1. \A s : DOMAIN rtt_retrans(t, s, now) = DOMAIN t /\ rtt_retrans(t, s, now).ss = t.ss
    BY DEF rtt_retrans
  <2> HIDE DEF lowest, again
  <2> QED
    BY <2>1
<1> HIDE DEF timed, touched
<1>5. /\ SegmentsInv(new, i)
      /\ Recorded(new) = Recorded(segs) \cup (a..b)
      /\ Added(segs, new, a, b)
  <2>1. touched = {s \in segs : s.last >= a /\ s.first <= b}
    BY DEF touched
  <2> HIDE DEF segs
  <2>2. SegmentsInv(segs, i)
    BY DEF segs
  <2> QED
    BY <1>3, <2>1, <2>2, AddedShape
<1> HIDE DEF base
<1>6. "ss" \in DOMAIN result /\ result.ss = WithSegs(t.ss, i, new)
  BY <1>4 DEF WithSegs
<1>7. new \in SUBSET SegmentType
  BY <1>5 DEF SegmentsInv
<1> HIDE DEF result, new
<1> QED
  BY <1>1, <1>5, <1>6, <1>7

-----------------------------------------------------------------------------
(* Records: what was sent, and what is kept of it.                         *)

\* The state of the sequence space around byte p, after k packets.
Sound(ss, snd, low, p, k) ==
    SeqspaceInv(ss) /\ Ring(ss, QuadOf(p) % 4) /\ RecordInv(ss, snd, low, p, k)

\* A number of quadrant j is of quadrant j.
LEMMA QuadnumShape ==
    ASSUME NEW j \in Index, NEW n \in Int, QuadSize * j <= n, n <= LAST_SEQ(j)
    PROVE  n \in Nat /\ QUADNUM(n) = j
<1>1. QuadSize \in Nat \ {0} /\ QuadSize * j \in Nat /\ j \in Nat
  BY QuadPositive DEF Index
<1>2. LAST_SEQ(j) = QuadSize * j + QuadSize - 1
  BY <1>1 DEF LAST_SEQ
<1>3. n - QuadSize * j \in 0..(QuadSize - 1) /\ n = QuadSize * j + (n - QuadSize * j)
  BY <1>1, <1>2
<1>4. (QuadSize * j + (n - QuadSize * j)) \div QuadSize = j
  BY <1>1, <1>3, ModUnique
<1> QED
  BY <1>1, <1>3, <1>4 DEF QUADNUM

\* A recorded number is of the quadrant that records it.
LEMMA RecordedQuad ==
    ASSUME NEW ss, SeqspaceInv(ss), NEW j \in Index, NEW n \in Recorded(ss[j].segs)
    PROVE  n \in Nat /\ QuadSize * j <= n /\ n <= LAST_SEQ(j) /\ QUADNUM(n) = j
<1>1. PICK s \in ss[j].segs : n \in Bytes(s)
  BY DEF Recorded
<1>2. s \in SegmentType /\ QuadSize * j <= s.first /\ s.last <= LAST_SEQ(j)
  BY DEF SeqspaceInv, SegmentsInv
<1>3. s.first \in Nat /\ s.last \in Nat
  BY <1>2 DEF SegmentType
<1>4. n \in Int /\ s.first <= n /\ n <= s.last
  BY <1>1, <1>3 DEF Bytes
<1>5. QuadSize * j \in Nat /\ LAST_SEQ(j) \in Int
  BY QuadPositive DEF LAST_SEQ, Index
<1>6. QuadSize * j <= n /\ n <= LAST_SEQ(j)
  BY <1>2, <1>3, <1>4, <1>5
<1> QED
  BY <1>4, <1>6, QuadnumShape

\* Near p a number is one byte's.
LEMMA NearUnique ==
    ASSUME NEW p \in Nat, NEW y \in Nat, NEW z \in Nat, Near(y, p), Near(z, p),
           NumberOf(y) = NumberOf(z)
    PROVE  y = z
<1>1. QuadOf(p) \in Nat /\ QuadOf(y) \in Nat /\ QuadOf(z) \in Nat
  BY NumberShape
<1>2. QuadOf(y) - QuadOf(z) \in {-3, -2, -1, 0, 1, 2, 3}
  BY <1>1 DEF Near
<1>3. QuadOf(y) % 4 = QuadOf(z) % 4
  BY NumberShape
<1>4. NumberOf(z) - NumberOf(y) = z - y /\ NumberOf(y) \in Nat
  BY <1>2, <1>3, NumberInjective, NumberShape
<1> QED
  BY <1>4

LEMMA StreamNat == MaxStream \in Nat /\ Stream \subseteq Nat
  BY RexmitAssumption DEF Stream

\* What is recorded near p, and can still show up, is what was sent.
LEMMA SentIsRecorded ==
    ASSUME NEW ss, NEW snd, NEW low \in Nat, NEW p \in Nat, NEW k \in Nat,
           RecordInv(ss, snd, low, p, k),
           NEW y \in Stream, Near(y, p), y + Late >= low
    PROVE  snd[y] > 0 <=> NumberOf(y) \in Recorded(ss[QuadOf(y) % 4].segs)
<1>1. ASSUME NumberOf(y) \in Recorded(ss[QuadOf(y) % 4].segs) PROVE snd[y] > 0
  <2>1. PICK s \in ss[QuadOf(y) % 4].segs : NumberOf(y) \in Bytes(s)
    BY <1>1 DEF Recorded
  <2>2. QuadOf(y) % 4 \in Index
    BY NumberShape, StreamNat
  <2>3. PICK z \in Stream : NumberOf(z) = NumberOf(y) /\ Near(z, p) /\ snd[z] > 0
    BY <2>1, <2>2 DEF RecordInv
  <2>4. y = z
    BY <2>3, NearUnique, StreamNat
  <2> QED
    BY <2>3, <2>4
<1> QED
  BY <1>1 DEF RecordInv

\* The bytes x1..x2 of one quadrant, and their numbers.
LEMMA PartShape ==
    ASSUME NEW x1 \in Nat, NEW x2 \in Nat, QuadOf(x1) = QuadOf(x2), x1 <= x2
    PROVE  /\ \A y \in x1..x2 :
                 /\ y \in Nat /\ QuadOf(y) = QuadOf(x1)
                 /\ NumberOf(y) \in NumberOf(x1)..NumberOf(x2)
                 /\ NumberOf(y) = NumberOf(x1) + (y - x1)
           /\ \A n \in NumberOf(x1)..NumberOf(x2) :
                 x1 + (n - NumberOf(x1)) \in x1..x2 /\ NumberOf(x1 + (n - NumberOf(x1))) = n
<1>1. NumberOf(x1) \in Nat /\ NumberOf(x2) \in Nat /\ NumberOf(x2) = NumberOf(x1) + (x2 - x1)
  BY NumberShape, NumberInjective, SMTT(30)
<1>2. ASSUME NEW y \in x1..x2
      PROVE  y \in Nat /\ QuadOf(y) = QuadOf(x1) /\ NumberOf(y) = NumberOf(x1) + (y - x1)
  <2>1. y \in Nat /\ x1 <= y /\ y <= x2
    OBVIOUS
  <2>2. QuadSize \in Nat \ {0} /\ Isn \in Nat /\ QuadSize * QuadOf(x1) \in Nat
    BY QuadPositive, RexmitAssumption, NumberShape DEF Seqnum
  <2>3. QuadSize * QuadOf(x1) <= Isn + y /\ Isn + y < QuadSize * QuadOf(x1) + QuadSize
    BY <2>1, <2>2, NumberShape
  <2>4. Isn + y - QuadSize * QuadOf(x1) \in 0..(QuadSize - 1)
        /\ Isn + y = QuadSize * QuadOf(x1) + (Isn + y - QuadSize * QuadOf(x1))
    BY <2>1, <2>2, <2>3
  <2>5. QuadOf(y) = QuadOf(x1)
    BY <2>4, TurnShape, NumberShape DEF QuadOf
  <2>6. NumberOf(y) - NumberOf(x1) = y - x1 /\ NumberOf(y) \in Nat
    BY <2>1, <2>5, NumberInjective, NumberShape
  <2> QED
    BY <1>1, <2>1, <2>5, <2>6
<1>3. ASSUME NEW n \in NumberOf(x1)..NumberOf(x2)
      PROVE  x1 + (n - NumberOf(x1)) \in x1..x2 /\ NumberOf(x1 + (n - NumberOf(x1))) = n
  <2>1. x1 + (n - NumberOf(x1)) \in x1..x2
    BY <1>1
  <2>2. NumberOf(x1 + (n - NumberOf(x1))) = NumberOf(x1) + ((x1 + (n - NumberOf(x1))) - x1)
    BY <1>2, <2>1
  <2> QED
    BY <1>1, <2>1, <2>2
<1>4. \A y \in x1..x2 : NumberOf(y) \in NumberOf(x1)..NumberOf(x2)
  <2> TAKE y \in x1..x2
  <2>1. NumberOf(y) = NumberOf(x1) + (y - x1)
    BY <1>2
  <2> QED
    BY <1>1, <2>1
<1> QED
  BY <1>2, <1>3, <1>4

\* How often each byte was sent, with one more time for x1..x2.
SentAlso(snd, x1, x2) == [y \in Stream |-> snd[y] + (IF y \in x1..x2 THEN 1 ELSE 0)]

\* The bytes x1..x2 of one quadrant are sent: ss becomes ss1, snd becomes snd1.
PartStep(ss, snd, low, p, k, m, x1, x2, i, new, ss1, snd1) ==
    /\ snd \in [Stream -> Nat] /\ low \in Nat /\ p \in Nat
    /\ k \in Nat /\ m \in Nat \ {0} /\ k <= m /\ Sound(ss, snd, low, p, k)
    /\ x1 \in Nat /\ x2 \in Nat /\ QuadOf(x1) = QuadOf(x2) /\ x1 <= x2
    /\ x1..x2 \subseteq Stream /\ Near(x1, p) /\ x1 + Late >= low
    /\ i = QuadOf(x1) % 4
    /\ m <= CountLimit => \A s \in ss[i].segs : s.retrans + 1 < m
    /\ new \in SUBSET SegmentType /\ SegmentsInv(new, i)
    /\ Recorded(new) = Recorded(ss[i].segs) \cup (NumberOf(x1)..NumberOf(x2))
    /\ Added(ss[i].segs, new, NumberOf(x1), NumberOf(x2))
    /\ snd1 = SentAlso(snd, x1, x2) /\ ss1 = WithSegs(ss, i, new)

\* The records stay sound.
LEMMA PartRecorded ==
    ASSUME NEW ss, NEW snd, NEW low, NEW p, NEW k, NEW m, NEW x1, NEW x2, NEW i,
           NEW new, NEW ss1, NEW snd1,
           PartStep(ss, snd, low, p, k, m, x1, x2, i, new, ss1, snd1)
    PROVE  /\ Sound(ss1, snd1, low, p, m)
           /\ m <= CountLimit => \A u \in new : u.retrans < m
           /\ \A j \in Index : ss1[j].segs = IF j = i THEN new ELSE ss[j].segs
<1>p. /\ snd \in [Stream -> Nat] /\ low \in Nat /\ p \in Nat
      /\ k \in Nat /\ m \in Nat \ {0} /\ k <= m /\ Sound(ss, snd, low, p, k)
      /\ x1 \in Nat /\ x2 \in Nat /\ QuadOf(x1) = QuadOf(x2) /\ x1 <= x2
      /\ x1..x2 \subseteq Stream /\ Near(x1, p) /\ x1 + Late >= low
      /\ i = QuadOf(x1) % 4
      /\ m <= CountLimit => \A s \in ss[i].segs : s.retrans + 1 < m
      /\ new \in SUBSET SegmentType /\ SegmentsInv(new, i)
      /\ Recorded(new) = Recorded(ss[i].segs) \cup (NumberOf(x1)..NumberOf(x2))
      /\ Added(ss[i].segs, new, NumberOf(x1), NumberOf(x2))
      /\ snd1 = SentAlso(snd, x1, x2) /\ ss1 = WithSegs(ss, i, new)
  BY DEF PartStep
<1> USE <1>p
<1> DEFINE segs == ss[i].segs
           a == NumberOf(x1)
           b == NumberOf(x2)
<1>0. ss \in [Index -> QuadType] /\ SeqspaceInv(ss) /\ Ring(ss, QuadOf(p) % 4)
      /\ RecordInv(ss, snd, low, p, k)
  BY DEF Sound, SeqspaceInv, QuadType
<1>1. i \in Index /\ QuadOf(p) % 4 \in Index
  BY NumberShape
<1>2. i # Opposite(QuadOf(p) % 4)
  <2>1. QuadOf(p) \in Nat /\ QuadOf(x1) \in {QuadOf(p) - 1, QuadOf(p), QuadOf(p) + 1} /\ QuadOf(x1) \in Nat
    BY NumberShape DEF Near
  <2>2. \A c, d \in Nat : d \in {c - 1, c, c + 1} => d % 4 # ((c % 4) + 2) % 4
    OBVIOUS
  <2> QED
    BY <2>1, <2>2 DEF Opposite
<1>3. /\ ss1 \in [Index -> QuadType]
      /\ Ring(ss1, QuadOf(p) % 4)
      /\ \A j \in Index : ss1[j].segs = IF j = i THEN new ELSE ss[j].segs
  <2>1. RingStep(ss, QuadOf(p) % 4, i, new)
    BY <1>0, <1>1, <1>2 DEF RingStep
  <2> QED
    BY ONLY <2>1, <1>p, RingKept
<1>4. SeqspaceInv(ss1)
  BY <1>0, <1>3 DEF SeqspaceInv, QuadType
<1>5. /\ \A y \in x1..x2 :
            /\ y \in Nat /\ QuadOf(y) = QuadOf(x1) /\ NumberOf(y) \in a..b
            /\ NumberOf(y) = a + (y - x1)
      /\ \A n \in a..b : x1 + (n - a) \in x1..x2 /\ NumberOf(x1 + (n - a)) = n
  BY PartShape
<1>6. /\ \A j \in Index : \A s \in ss[j].segs : \A n \in Bytes(s) :
            \E y \in Stream :
               /\ NumberOf(y) = n /\ Near(y, p) /\ snd[y] > 0
               /\ k <= CountLimit /\ s.retrans = 0 /\ s.acked = 0 => snd[y] = 1
      /\ \A y \in Stream : snd[y] > 0 /\ y + Late >= low =>
               NumberOf(y) \in Recorded(ss[QuadOf(y) % 4].segs)
  BY <1>0 DEF RecordInv
<1>7. \A y \in Stream : /\ y \notin x1..x2 => snd1[y] = snd[y]
                        /\ y \in x1..x2 => snd1[y] = snd[y] + 1
                        /\ snd[y] \in Nat
  BY DEF SentAlso
<1>8. CountLimit \in Nat /\ (k <= CountLimit \/ ~(m <= CountLimit))
  BY SeqspaceAssumption
<1> HIDE DEF a, b
<1>9. ASSUME NEW j \in Index, j # i, NEW s \in ss[j].segs, NEW n \in Bytes(s)
      PROVE  \E y \in Stream :
               /\ NumberOf(y) = n /\ Near(y, p) /\ snd1[y] > 0
               /\ m <= CountLimit /\ s.retrans = 0 /\ s.acked = 0 => snd1[y] = 1
  <2>1. PICK y \in Stream :
               /\ NumberOf(y) = n /\ Near(y, p) /\ snd[y] > 0
               /\ k <= CountLimit /\ s.retrans = 0 /\ s.acked = 0 => snd[y] = 1
    BY <1>6, <1>9
  <2>2. n \in Recorded(ss[j].segs)
    BY <1>9 DEF Recorded
  <2>3. QUADNUM(n) = j
    BY <1>0, <2>2, RecordedQuad
  <2>4. y \notin x1..x2
    BY <1>5, <1>9, <2>1, <2>3, NumberShape
  <2> QED
    BY <1>7, <1>8, <2>1, <2>4
<1>10. ASSUME m <= CountLimit, NEW s \in segs, NEW u, Again(u, s)
       PROVE  u.retrans = s.retrans + 1 /\ u.retrans # 0 /\ u.retrans < m
  <2>1. s \in SegmentType
    BY <1>0, <1>1 DEF QuadType
  <2>2. s.retrans \in Nat /\ s.retrans + 1 < m
    BY <2>1, <1>10 DEF SegmentType
  <2>3. s.retrans + 1 \in 0..(CountLimit - 1)
    BY <2>2, <1>10, <1>8
  <2>4. \A r \in 0..(CountLimit - 1) : r % CountLimit = r
    <3> TAKE r \in 0..(CountLimit - 1)
    <3>1. (CountLimit * 0 + r) % CountLimit = r
      BY SeqspaceAssumption, ModUnique
    <3>2. CountLimit * 0 + r = r
      BY SeqspaceAssumption
    <3> QED
      BY <3>1, <3>2
  <2> QED
    BY <1>10, <2>2, <2>3, <2>4 DEF Again
<1>11. ASSUME NEW u \in new, NEW n \in Bytes(u)
       PROVE  \E y \in Stream :
                /\ NumberOf(y) = n /\ Near(y, p) /\ snd1[y] > 0
                /\ m <= CountLimit /\ u.retrans = 0 /\ u.acked = 0 => snd1[y] = 1
  <2>1. CASE u \in segs /\ Bytes(u) \cap (a..b) = {}
    <3>1. PICK y \in Stream :
               /\ NumberOf(y) = n /\ Near(y, p) /\ snd[y] > 0
               /\ k <= CountLimit /\ u.retrans = 0 /\ u.acked = 0 => snd[y] = 1
      BY <1>1, <1>6, <1>11, <2>1
    <3>2. y \notin x1..x2
      BY <1>5, <1>11, <2>1, <3>1
    <3> QED
      BY <1>7, <1>8, <3>1, <3>2
  <2>2. ASSUME NEW s \in segs, Again(u, s)
        PROVE  \E y \in Stream :
                /\ NumberOf(y) = n /\ Near(y, p) /\ snd1[y] > 0
                /\ m <= CountLimit /\ u.retrans = 0 /\ u.acked = 0 => snd1[y] = 1
    <3>1. n \in Bytes(s)
      BY <1>11, <2>2 DEF Again, Bytes
    <3>2. PICK y \in Stream : NumberOf(y) = n /\ Near(y, p) /\ snd[y] > 0
      BY <1>1, <1>6, <3>1
    <3>3. snd1[y] > 0
      BY <1>7, <3>2
    <3> QED
      BY <1>10, <2>2, <3>2, <3>3
  <2>3. CASE /\ Bytes(u) \subseteq Missing(segs, a, b)
             /\ u.retrans = 0 /\ u.acked = 0
    <3>1. n \in a..b /\ n \notin Recorded(segs)
      BY <1>11, <2>3 DEF Missing
    <3>2. PICK y \in x1..x2 : NumberOf(y) = n
      BY <1>5, <3>1
    <3>3. y \in Stream /\ y + Late >= low /\ QuadOf(y) % 4 = i /\ Near(y, p)
      BY <1>5, RexmitAssumption DEF Near
    <3>4. snd[y] = 0
      BY <1>6, <1>7, <3>1, <3>2, <3>3
    <3>5. snd1[y] = 1
      BY <1>7, <3>2, <3>3, <3>4
    <3> QED
      BY <3>2, <3>3, <3>5
  <2>4. Added(segs, new, a, b)
    BY DEF a, b
  <2> QED
    BY <2>1, <2>2, <2>3, <2>4 DEF Added
<1>12. ASSUME NEW y \in Stream, snd1[y] > 0, y + Late >= low
       PROVE  NumberOf(y) \in Recorded(ss1[QuadOf(y) % 4].segs)
  <2>1. QuadOf(y) % 4 \in Index
    BY NumberShape, StreamNat
  <2>2. Recorded(new) = Recorded(segs) \cup (a..b)
    BY DEF a, b
  <2>3. CASE y \in x1..x2
    <3>1. QuadOf(y) % 4 = i /\ NumberOf(y) \in a..b
      BY <1>5, <2>3
    <3> QED
      BY <1>1, <1>3, <2>2, <3>1
  <2>4. CASE y \notin x1..x2
    <3>1. NumberOf(y) \in Recorded(ss[QuadOf(y) % 4].segs)
      BY <1>6, <1>7, <1>12, <2>4
    <3> QED
      BY <1>3, <2>1, <2>2, <3>1
  <2> QED
    BY <2>3, <2>4
<1>13. RecordInv(ss1, snd1, low, p, m)
  <2>1. ASSUME NEW j \in Index, NEW s \in ss1[j].segs, NEW n \in Bytes(s)
        PROVE  \E y \in Stream :
                /\ NumberOf(y) = n /\ Near(y, p) /\ snd1[y] > 0
                /\ m <= CountLimit /\ s.retrans = 0 /\ s.acked = 0 => snd1[y] = 1
    <3>1. CASE j = i
      BY <1>1, <1>3, <1>11, <2>1, <3>1
    <3>2. CASE j # i
      BY <1>3, <1>9, <2>1, <3>2
    <3> QED
      BY <3>1, <3>2
  <2> QED
    BY <1>12, <2>1 DEF RecordInv
<1>14. ASSUME m <= CountLimit, NEW u \in new PROVE u.retrans < m
  <2>1. CASE u \in segs
    <3>1. u \in SegmentType
      OBVIOUS
    <3>2. u.retrans \in Nat /\ u.retrans + 1 < m
      BY <1>14, <2>1, <3>1 DEF SegmentType
    <3> QED
      BY <3>2
  <2>2. ASSUME NEW s \in segs, Again(u, s) PROVE u.retrans < m
    BY <1>10, <1>14, <2>2
  <2>3. CASE u.retrans = 0 /\ u \notin segs
    BY <2>3
  <2>4. Added(segs, new, a, b)
    BY DEF a, b
  <2> QED
    BY <2>1, <2>2, <2>3, <2>4 DEF Added
<1> QED
  BY <1>3, <1>4, <1>13, <1>14 DEF Sound

\* Of the bytes x1..x2 the quadrant counts those that had been sent.
LEMMA PartCounted ==
    ASSUME NEW ss, NEW snd, NEW low, NEW p, NEW k, NEW m, NEW x1, NEW x2, NEW i,
           NEW new, NEW ss1, NEW snd1,
           PartStep(ss, snd, low, p, k, m, x1, x2, i, new, ss1, snd1)
    PROVE  Cardinality((NumberOf(x1)..NumberOf(x2)) \cap Recorded(ss[i].segs))
              = Cardinality({y \in x1..x2 : snd[y] > 0})
<1>p. /\ snd \in [Stream -> Nat] /\ low \in Nat /\ p \in Nat /\ k \in Nat
      /\ x1 \in Nat /\ x2 \in Nat /\ QuadOf(x1) = QuadOf(x2) /\ x1 <= x2
      /\ x1..x2 \subseteq Stream /\ Near(x1, p) /\ x1 + Late >= low
      /\ i = QuadOf(x1) % 4 /\ RecordInv(ss, snd, low, p, k)
  BY DEF PartStep, Sound
<1> USE <1>p
<1> DEFINE A == {y \in x1..x2 : snd[y] > 0}
           N == (NumberOf(x1)..NumberOf(x2)) \cap Recorded(ss[i].segs)
           f == [y \in A |-> NumberOf(y)]
<1>1. /\ \A y \in x1..x2 :
            /\ y \in Nat /\ QuadOf(y) = QuadOf(x1)
            /\ NumberOf(y) \in NumberOf(x1)..NumberOf(x2)
            /\ NumberOf(y) = NumberOf(x1) + (y - x1)
      /\ \A n \in NumberOf(x1)..NumberOf(x2) :
            x1 + (n - NumberOf(x1)) \in x1..x2 /\ NumberOf(x1 + (n - NumberOf(x1))) = n
  BY PartShape
<1>2. \A y \in x1..x2 : snd[y] > 0 <=> NumberOf(y) \in Recorded(ss[i].segs)
  <2> TAKE y \in x1..x2
  <2>1. Near(y, p) /\ y \in Stream /\ y + Late >= low
    BY <1>1, RexmitAssumption DEF Near
  <2>2. snd[y] > 0 <=> NumberOf(y) \in Recorded(ss[QuadOf(y) % 4].segs)
    BY ONLY <2>1, <1>p, SentIsRecorded, Zenon
  <2> QED
    BY <1>1, <2>2, QuadOf(y) % 4 = i
<1>3. f \in [A -> N]
  BY <1>1, <1>2
<1>4. \A y, z \in A : f[y] = f[z] => y = z
  <2> TAKE y, z \in A
  <2> HAVE f[y] = f[z]
  <2>1. NumberOf(x1) + (y - x1) = NumberOf(x1) + (z - x1)
    BY <1>1
  <2> QED
    BY <1>1, <2>1, NumberShape
<1>5. \A n \in N : \E y \in A : f[y] = n
  BY <1>1, <1>2
<1>6. f \in Bijection(A, N)
  <2> HIDE DEF f, A, N
  <2> QED
    BY <1>3, <1>4, <1>5 DEF Bijection, Injection, Surjection, IsInjective
<1>7. IsFiniteSet(A)
  <2>1. IsFiniteSet(x1..x2)
    BY FS_Interval
  <2>2. A \subseteq x1..x2
    OBVIOUS
  <2> QED
    BY <2>1, <2>2, FS_Subset
<1> HIDE DEF f, A, N
<1>8. Cardinality(N) = Cardinality(A)
  BY <1>6, <1>7, FS_Bijection DEF ExistsBijection
<1> QED
  BY <1>8 DEF A, N

\* What can show up at the same time fits into neighbour quadrants.
LEMMA WindowIsNear ==
    ASSUME NEW low \in Nat, NEW y \in Nat, NEW p \in Nat,
           y + Late >= low, y <= low + Window, p + Late >= low, p <= low + Window
    PROVE  Near(y, p)
<1>1. Late \in Nat /\ Window \in Nat /\ Window + Late <= QuadSize /\ QuadSize \in Nat
  BY RexmitAssumption, QuadPositive
<1>2. QuadOf(y) \in Nat /\ QuadOf(p) \in Nat
  BY NumberShape
<1>3. CASE y <= p
  <2>1. p <= y + QuadSize
    BY <1>1
  <2>2. QuadOf(p) \in {QuadOf(y), QuadOf(y) + 1}
    BY <1>3, <2>1, NearShape
  <2> QED
    BY <1>2, <2>2 DEF Near
<1>4. CASE p <= y
  <2>1. y <= p + QuadSize
    BY <1>1
  <2>2. QuadOf(y) \in {QuadOf(p), QuadOf(p) + 1}
    BY <1>4, <2>1, NearShape
  <2> QED
    BY <1>2, <2>2 DEF Near
<1> QED
  BY <1>3, <1>4

\* The records around p, or none at all before the first packet.
SoundOrNew(ss, snd, low, p, k) ==
    \/ ss = NewSeqspace /\ \A y \in Stream : snd[y] = 0
    \/ Sound(ss, snd, low, p, k)

\* Byte z is near enough for the ring to turn to it.
CanTurn(ss, snd, low, p, k, z) ==
    /\ low \in Nat /\ p \in Nat /\ k \in Nat /\ z \in Nat
    /\ SoundOrNew(ss, snd, low, p, k) /\ Near(z, p)
    /\ \A y \in Stream : snd[y] > 0 /\ y + Late >= low => Near(y, z)

\* The ring turns to another byte of the window: nothing that can still show up
\* is in the quadrant that is freed.
LEMMA RecordsTurn ==
    ASSUME NEW ss, NEW snd, NEW low, NEW p, NEW k, NEW z, CanTurn(ss, snd, low, p, k, z),
           NEW new, new = whichquad(ss, QuadOf(z) % 4)
    PROVE  /\ Sound(new, snd, low, z, k)
           /\ \A j \in Index : new[j].segs = IF j = Opposite(QuadOf(z) % 4) THEN {} ELSE ss[j].segs
<1>p. /\ low \in Nat /\ p \in Nat /\ k \in Nat /\ z \in Nat
      /\ SoundOrNew(ss, snd, low, p, k) /\ Near(z, p)
      /\ \A y \in Stream : snd[y] > 0 /\ y + Late >= low => Near(y, z)
  BY DEF CanTurn
<1> USE <1>p
<1> DEFINE i == QuadOf(z) % 4
<1>1. /\ i \in Index /\ QuadOf(p) % 4 \in Index /\ QuadOf(p) \in Nat /\ QuadOf(z) \in Nat
      /\ \A y \in Stream : y \in Nat /\ QuadOf(y) \in Nat /\ QuadOf(y) % 4 \in Index
  BY NumberShape, StreamNat
<1>2. /\ ss \in [Index -> QuadType]
      /\ \A j \in Index : SegmentsInv(ss[j].segs, j)
      /\ ss = NewSeqspace \/ \E c \in Index : Ring(ss, c)
  <2>1. CASE ss = NewSeqspace
    BY <2>1 DEF NewSeqspace, NoQuad, QuadType, SegmentsInv
  <2>2. CASE Sound(ss, snd, low, p, k)
    BY <1>1, <2>2 DEF Sound, SeqspaceInv, QuadType
  <2> QED
    BY <2>1, <2>2 DEF SoundOrNew
<1>3. /\ new \in [Index -> QuadType] /\ Ring(new, i)
      /\ \A j \in Index : new[j].segs = IF j = Opposite(i) THEN {} ELSE ss[j].segs
  <2> HIDE DEF i
  <2>1. new = whichquad(ss, i)
    BY DEF i
  <2> QED
    BY <1>1, <1>2, <2>1, RingTurns
<1>4. SeqspaceInv(new)
  BY <1>2, <1>3 DEF SeqspaceInv, QuadType, SegmentsInv
<1>5. \A c, d \in Nat : d \in {c - 1, c, c + 1} => d % 4 # ((c % 4) + 2) % 4
  OBVIOUS
<1>6. ASSUME NEW y \in Stream, Near(y, z) PROVE QuadOf(y) % 4 # Opposite(i)
  BY <1>1, <1>5, <1>6 DEF Near, Opposite
<1>7. RecordInv(new, snd, low, z, k)
  <2>1. CASE ss = NewSeqspace /\ \A y \in Stream : snd[y] = 0
    <3>1. \A j \in Index : new[j].segs = {}
      BY <1>3, <2>1 DEF NewSeqspace, NoQuad
    <3> QED
      BY <2>1, <3>1 DEF RecordInv
  <2>2. CASE Sound(ss, snd, low, p, k)
    <3>1. /\ \A j \in Index : \A s \in ss[j].segs : \A n \in Bytes(s) :
               \E y \in Stream :
                  /\ NumberOf(y) = n /\ Near(y, p) /\ snd[y] > 0
                  /\ k <= CountLimit /\ s.retrans = 0 /\ s.acked = 0 => snd[y] = 1
          /\ \A y \in Stream : snd[y] > 0 /\ y + Late >= low =>
                  NumberOf(y) \in Recorded(ss[QuadOf(y) % 4].segs)
      BY <2>2 DEF Sound, RecordInv
    <3>2. ASSUME NEW j \in Index, NEW s \in new[j].segs, NEW n \in Bytes(s)
          PROVE  \E y \in Stream :
                  /\ NumberOf(y) = n /\ Near(y, z) /\ snd[y] > 0
                  /\ k <= CountLimit /\ s.retrans = 0 /\ s.acked = 0 => snd[y] = 1
      <4>1. j # Opposite(i) /\ s \in ss[j].segs
        BY <1>3, <3>2
      <4>2. PICK y \in Stream :
                  /\ NumberOf(y) = n /\ Near(y, p) /\ snd[y] > 0
                  /\ k <= CountLimit /\ s.retrans = 0 /\ s.acked = 0 => snd[y] = 1
        BY <3>1, <3>2, <4>1
      <4>3. QuadOf(y) % 4 = j
        <5>1. n \in Recorded(ss[j].segs)
          BY <3>2, <4>1 DEF Recorded
        <5>2. QUADNUM(n) = j
          BY <2>2, <5>1, RecordedQuad DEF Sound
        <5> QED
          BY <1>1, <4>2, <5>2, NumberShape
      <4>4. Near(y, z)
        <5>1. \A c, d, e \in Nat :
                 /\ d \in {c - 1, c, c + 1} /\ e \in {c - 1, c, c + 1}
                 /\ e % 4 # ((d % 4) + 2) % 4
                 => e \in {d - 1, d, d + 1}
          OBVIOUS
        <5>2. QuadOf(y) \in {QuadOf(p) - 1, QuadOf(p), QuadOf(p) + 1}
              /\ QuadOf(z) \in {QuadOf(p) - 1, QuadOf(p), QuadOf(p) + 1}
              /\ QuadOf(y) % 4 # ((QuadOf(z) % 4) + 2) % 4
          BY <4>1, <4>2, <4>3 DEF Near, Opposite
        <5>3. QuadOf(y) \in {QuadOf(z) - 1, QuadOf(z), QuadOf(z) + 1}
          BY <1>1, <5>1, <5>2
        <5> QED
          BY <5>3 DEF Near
      <4> QED
        BY <4>2, <4>4
    <3>3. ASSUME NEW y \in Stream, snd[y] > 0, y + Late >= low
          PROVE  NumberOf(y) \in Recorded(new[QuadOf(y) % 4].segs)
      <4>1. QuadOf(y) % 4 # Opposite(i)
        BY <1>6, <3>3
      <4>2. new[QuadOf(y) % 4].segs = ss[QuadOf(y) % 4].segs
        BY <1>1, <1>3, <4>1
      <4> QED
        BY <3>1, <3>3, <4>2
    <3> QED
      BY <3>2, <3>3 DEF RecordInv
  <2> QED
    BY <2>1, <2>2 DEF SoundOrNew
<1> QED
  BY <1>3, <1>4, <1>7 DEF Sound

\* The bytes x1..x2 of one quadrant can be sent.
CanSend(t, snd, low, p, k, m, x1, x2) ==
    /\ "ss" \in DOMAIN t /\ snd \in [Stream -> Nat] /\ low \in Nat /\ p \in Nat
    /\ k \in Nat /\ m \in Nat \ {0} /\ k <= m /\ Sound(t.ss, snd, low, p, k)
    /\ x1 \in Nat /\ x2 \in Nat /\ QuadOf(x1) = QuadOf(x2) /\ x1 <= x2
    /\ x1..x2 \subseteq Stream /\ Near(x1, p) /\ x1 + Late >= low
    /\ m <= CountLimit => \A s \in t.ss[QuadOf(x1) % 4].segs : s.retrans + 1 < m

\* addseg for the bytes x1..x2 of one quadrant.
LEMMA PartSent ==
    ASSUME NEW t, NEW snd, NEW low, NEW p, NEW k, NEW m, NEW x1, NEW x2,
           CanSend(t, snd, low, p, k, m, x1, x2), NEW now \in Nat,
           NEW r, r = addseg(t, QuadOf(x1) % 4, NumberOf(x1), NumberOf(x2), now)
    PROVE  /\ "ss" \in DOMAIN r.tcb
           /\ Sound(r.tcb.ss, SentAlso(snd, x1, x2), low, p, m)
           /\ r.rexlen = Cardinality({y \in x1..x2 : snd[y] > 0})
           /\ m <= CountLimit => \A u \in r.tcb.ss[QuadOf(x1) % 4].segs : u.retrans < m
           /\ \A j \in Index : j # QuadOf(x1) % 4 => r.tcb.ss[j].segs = t.ss[j].segs
<1> DEFINE i == QuadOf(x1) % 4
           snd1 == SentAlso(snd, x1, x2)
<1>p. /\ "ss" \in DOMAIN t /\ snd \in [Stream -> Nat] /\ low \in Nat /\ p \in Nat
      /\ k \in Nat /\ m \in Nat \ {0} /\ k <= m /\ Sound(t.ss, snd, low, p, k)
      /\ x1 \in Nat /\ x2 \in Nat /\ QuadOf(x1) = QuadOf(x2) /\ x1 <= x2
      /\ x1..x2 \subseteq Stream /\ Near(x1, p) /\ x1 + Late >= low
      /\ m <= CountLimit => \A s \in t.ss[i].segs : s.retrans + 1 < m
  BY DEF CanSend
<1> USE <1>p
<1>1. i \in Index /\ NumberOf(x1) \in Nat /\ NumberOf(x2) \in Nat
      /\ QuadSize * i <= NumberOf(x1) /\ NumberOf(x2) <= LAST_SEQ(i)
  BY NumberShape
<1>2. t.ss \in [Index -> QuadType] /\ SegmentsInv(t.ss[i].segs, i) /\ RecordInv(t.ss, snd, low, p, k)
  BY <1>1 DEF Sound, SeqspaceInv, QuadType
<1>3. PICK new \in SUBSET SegmentType :
         /\ "ss" \in DOMAIN r.tcb
         /\ r.tcb.ss = WithSegs(t.ss, i, new)
         /\ r.rexlen = Cardinality((NumberOf(x1)..NumberOf(x2)) \cap Recorded(t.ss[i].segs))
         /\ SegmentsInv(new, i)
         /\ Recorded(new) = Recorded(t.ss[i].segs) \cup (NumberOf(x1)..NumberOf(x2))
         /\ Added(t.ss[i].segs, new, NumberOf(x1), NumberOf(x2))
  BY <1>1, <1>2, AddsegShape
<1>4. PartStep(t.ss, snd, low, p, k, m, x1, x2, i, new, r.tcb.ss, snd1)
  BY <1>3 DEF PartStep
<1>5. /\ Sound(r.tcb.ss, snd1, low, p, m)
      /\ m <= CountLimit => \A u \in new : u.retrans < m
      /\ \A j \in Index : r.tcb.ss[j].segs = IF j = i THEN new ELSE t.ss[j].segs
  BY ONLY <1>4, PartRecorded
<1>6. Cardinality((NumberOf(x1)..NumberOf(x2)) \cap Recorded(t.ss[i].segs))
         = Cardinality({y \in x1..x2 : snd[y] > 0})
  BY ONLY <1>4, PartCounted
<1> QED
  BY <1>1, <1>3, <1>5, <1>6

\* A number some bytes further on, before and after the wrap.
LEMMA LastNumber ==
    ASSUME NEW x \in Nat, NEW e \in Nat, x <= e, e <= x + QuadSize
    PROVE  (NumberOf(x) + (e - x)) % SeqSize = NumberOf(e)
<1> DEFINE A == QuadOf(x)
           B == QuadOf(e)
           re == Isn + e - QuadSize * B
<1>1. /\ A \in Nat /\ B \in Nat /\ B \in {A, A + 1}
      /\ NumberOf(x) = QuadSize * (A % 4) + (Isn + x - QuadSize * A)
      /\ NumberOf(e) = QuadSize * (B % 4) + re
      /\ QuadSize * B <= Isn + e /\ Isn + e < QuadSize * B + QuadSize
      /\ A % 4 \in Nat /\ B % 4 \in Nat
  BY NumberShape, NearShape, SMTT(30) DEF Index
<1>2. QuadSize \in Nat \ {0} /\ Isn \in Nat
  BY QuadPositive, RexmitAssumption DEF Seqnum
<1>3. ((A % 4) + (B - A)) % 4 = B % 4 /\ (A % 4) + (B - A) \in Nat
  <2>1. \A a, b \in Nat : b \in {a, a + 1} => ((a % 4) + (b - a)) % 4 = b % 4 /\ (a % 4) + (b - a) \in Nat
    OBVIOUS
  <2> HIDE DEF A, B
  <2> QED
    BY <1>1, <2>1
<1> HIDE DEF A, B
<1>4. QuadSize * A \in Nat /\ QuadSize * B \in Nat /\ QuadSize * (A % 4) \in Nat
  BY <1>1, <1>2
<1>5. re \in 0..(QuadSize - 1)
  BY <1>1, <1>2, <1>4
<1>6. NumberOf(x) + (e - x) = QuadSize * ((A % 4) + (B - A)) + re
  <2>1. QuadSize * ((A % 4) + (B - A)) = QuadSize * (A % 4) + QuadSize * B - QuadSize * A
    <3>1. CASE B = A
      BY <1>1, <1>2, <1>4, <3>1
    <3>2. CASE B = A + 1
      <4>1. QuadSize * (A + 1) = QuadSize * A + QuadSize
            /\ QuadSize * ((A % 4) + 1) = QuadSize * (A % 4) + QuadSize
        BY <1>1, <1>2, Z3
      <4>2. (A % 4) + (B - A) = (A % 4) + 1
        BY <1>1, <3>2
      <4> QED
        BY <1>2, <1>4, <3>2, <4>1, <4>2
    <3> QED
      BY <1>1, <3>1, <3>2
  <2> QED
    BY <1>1, <1>2, <1>4, <2>1
<1>7. (QuadSize * ((A % 4) + (B - A)) + re) % SeqSize = QuadSize * (((A % 4) + (B - A)) % 4) + re
  BY <1>3, <1>5, TurnShape
<1> QED
  BY <1>1, <1>3, <1>6, <1>7

\* The packet can show up: it lies in the window, and so does what was sent.
CanRexmit(t, snd, low, p, k, x, len) ==
    /\ "ss" \in DOMAIN t /\ snd \in [Stream -> Nat] /\ low \in Nat /\ p \in Nat /\ k \in Nat
    /\ SoundOrNew(t.ss, snd, low, p, k)
    /\ k + 1 <= CountLimit => \A j \in Index : \A s \in t.ss[j].segs : s.retrans < k
    /\ x \in Nat /\ len \in Nat \ {0} /\ x..(x + len - 1) \subseteq Stream
    /\ p + Late >= low /\ p <= low + Window /\ x + Late >= low /\ x + len <= low + Window
    /\ \A y \in Stream : snd[y] > 0 => y <= low + Window

\* What rexmit then does: it records the bytes and counts those sent before.
RexmitDone(r, snd, low, x, len, k) ==
    /\ "ss" \in DOMAIN r.tcb
    /\ Sound(r.tcb.ss, SentAlso(snd, x, x + len - 1), low, x, k + 1)
    /\ r.rexlen = Cardinality({y \in x..(x + len - 1) : snd[y] > 0})
    /\ k + 1 <= CountLimit =>
          \A j \in Index : \A s \in r.tcb.ss[j].segs : s.retrans < k + 1

\* rexmit of the bytes from x on, around p: the whole packet is recorded, in one
\* part or in two, and the bytes that had been sent before are counted.
LEMMA RexmitShape ==
    ASSUME NEW t, NEW snd, NEW low, NEW p, NEW k, NEW x, NEW len,
           CanRexmit(t, snd, low, p, k, x, len), NEW now \in Nat,
           NEW r, r = rexmit(t, NumberOf(x), len, now)
    PROVE  RexmitDone(r, snd, low, x, len, k)
<1>p. /\ "ss" \in DOMAIN t /\ snd \in [Stream -> Nat] /\ low \in Nat /\ p \in Nat /\ k \in Nat
      /\ SoundOrNew(t.ss, snd, low, p, k)
      /\ k + 1 <= CountLimit => \A j \in Index : \A s \in t.ss[j].segs : s.retrans < k
      /\ x \in Nat /\ len \in Nat \ {0} /\ x..(x + len - 1) \subseteq Stream
      /\ p + Late >= low /\ p <= low + Window /\ x + Late >= low /\ x + len <= low + Window
      /\ \A y \in Stream : snd[y] > 0 => y <= low + Window
  BY DEF CanRexmit
<1> USE <1>p
<1> SUFFICES /\ "ss" \in DOMAIN r.tcb
             /\ Sound(r.tcb.ss, SentAlso(snd, x, x + len - 1), low, x, k + 1)
             /\ r.rexlen = Cardinality({y \in x..(x + len - 1) : snd[y] > 0})
             /\ k + 1 <= CountLimit =>
                   \A j \in Index : \A s \in r.tcb.ss[j].segs : s.retrans < k + 1
  BY DEF RexmitDone
<1> DEFINE i == QUADNUM(NumberOf(x))
           e == x + len - 1
           ring == whichquad(t.ss, i)
           ready == [t EXCEPT !.ss = ring]
           last == (NumberOf(x) + len - 1) % SeqSize
           head == addseg(ready, i, NumberOf(x), LAST_SEQ(i), now)
           tail == addseg(head.tcb, After(i), QuadSize * After(i), last, now)
<1>0. /\ QuadSize \in Nat \ {0} /\ Isn \in Nat /\ Late \in Nat /\ Window \in Nat
      /\ Window + Late <= QuadSize
  BY QuadPositive, RexmitAssumption DEF Seqnum
<1>1. /\ i = QuadOf(x) % 4 /\ i \in Index /\ QuadOf(x) \in Nat /\ NumberOf(x) \in Nat
      /\ e \in Nat /\ x <= e /\ e <= x + QuadSize
  BY <1>0, NumberShape, SMTT(30)
<1>2. Near(x, p) /\ Near(x, x)
  BY <1>0, WindowIsNear, SMTT(30)
<1>3. /\ Sound(ring, snd, low, x, k)
      /\ \A j \in Index : ring[j].segs = IF j = Opposite(i) THEN {} ELSE t.ss[j].segs
  <2>1. ASSUME NEW y \in Stream, snd[y] > 0, y + Late >= low PROVE Near(y, x)
    <3>1. y \in Nat /\ y <= low + Window /\ x <= low + Window
      BY <1>0, <2>1, StreamNat
    <3> QED
      BY <2>1, <3>1, WindowIsNear
  <2> DEFINE ss == t.ss
  <2>2. CanTurn(ss, snd, low, p, k, x)
    BY <1>2, <2>1 DEF CanTurn
  <2>3. ring = whichquad(ss, QuadOf(x) % 4)
    BY <1>1
  <2> HIDE DEF ss, ring
  <2>4. /\ Sound(ring, snd, low, x, k)
        /\ \A j \in Index : ring[j].segs = IF j = Opposite(QuadOf(x) % 4) THEN {} ELSE ss[j].segs
    BY ONLY <2>2, <2>3, RecordsTurn
  <2> QED
    BY <1>1, <2>4 DEF ss
<1>4. "ss" \in DOMAIN ready /\ ready.ss = ring
  OBVIOUS
<1>5. k + 1 <= CountLimit => \A j \in Index : \A s \in ring[j].segs : s.retrans \in Nat /\ s.retrans < k /\ s.retrans + 1 < k + 1
  <2>1. ring \in [Index -> QuadType]
    BY <1>3 DEF Sound, SeqspaceInv, QuadType
  <2>2. \A j \in Index : \A s \in ring[j].segs : s.retrans \in Nat
    BY <2>1 DEF QuadType, SegmentType
  <2>3. k + 1 <= CountLimit => \A j \in Index : \A s \in ring[j].segs : s.retrans < k
    BY <1>3
  <2> QED
    BY <2>2, <2>3
<1>6. last = NumberOf(e) /\ QUADNUM(last) = QuadOf(e) % 4 /\ QuadOf(e) \in Nat
  <2>1. NumberOf(x) + len - 1 = NumberOf(x) + (e - x)
    BY <1>1
  <2> QED
    BY <1>1, <2>1, LastNumber, NumberShape
<1>7. QuadOf(e) \in {QuadOf(x), QuadOf(x) + 1}
  BY <1>1, NearShape
<1> HIDE DEF i, e, ring, ready, last
<1>8. CASE QUADNUM(last) = i
  <2>1. QuadOf(e) = QuadOf(x)
    <3>1. \A c, d \in Nat : d \in {c, c + 1} /\ d % 4 = c % 4 => d = c
      OBVIOUS
    <3> QED
      BY <1>1, <1>6, <1>7, <1>8, <3>1
  <2>2. r = addseg(ready, i, NumberOf(x), NumberOf(e), now)
    BY <1>6, <1>8 DEF rexmit, i, e, ready, last, ring
  <2>3. x..e \subseteq Stream
    BY DEF e
  <2>4. /\ "ss" \in DOMAIN r.tcb
        /\ Sound(r.tcb.ss, SentAlso(snd, x, e), low, x, k + 1)
        /\ r.rexlen = Cardinality({y \in x..e : snd[y] > 0})
        /\ k + 1 <= CountLimit => \A u \in r.tcb.ss[i].segs : u.retrans < k + 1
        /\ \A j \in Index : j # i => r.tcb.ss[j].segs = ready.ss[j].segs
    <3>1. CanSend(ready, snd, low, x, k, k + 1, x, e)
      BY <1>1, <1>2, <1>3, <1>4, <1>5, <2>1, <2>3 DEF CanSend
    <3>2. r = addseg(ready, QuadOf(x) % 4, NumberOf(x), NumberOf(e), now)
      BY <1>1, <2>2
    <3>3. /\ "ss" \in DOMAIN r.tcb
          /\ Sound(r.tcb.ss, SentAlso(snd, x, e), low, x, k + 1)
          /\ r.rexlen = Cardinality({y \in x..e : snd[y] > 0})
          /\ k + 1 <= CountLimit => \A u \in r.tcb.ss[QuadOf(x) % 4].segs : u.retrans < k + 1
          /\ \A j \in Index : j # QuadOf(x) % 4 => r.tcb.ss[j].segs = ready.ss[j].segs
      BY <3>1, <3>2, PartSent
    <3> QED
      BY <1>1, <3>3
  <2>5. k + 1 <= CountLimit =>
                 \A j \in Index : \A s \in r.tcb.ss[j].segs : s.retrans < k + 1
    <3> SUFFICES ASSUME k + 1 <= CountLimit, NEW j \in Index, NEW s \in r.tcb.ss[j].segs
                 PROVE  s.retrans < k + 1
      OBVIOUS
    <3>1. CASE j = i
      BY <2>4, <3>1
    <3>2. CASE j # i
      <4>1. s \in ring[j].segs
        BY <1>4, <2>4, <3>2
      <4>2. s.retrans \in Nat /\ s.retrans < k
        BY <1>5, <4>1
      <4> QED
        BY <4>2
    <3> QED
      BY <3>1, <3>2
  <2> QED
    BY <2>4, <2>5 DEF e
<1>9. CASE QUADNUM(last) # i
  <2> DEFINE A == QuadOf(x)
             m == QuadSize * (A + 1) - 1 - Isn
             snd1 == SentAlso(snd, x, m)
  <2>1. QuadOf(e) = A + 1 /\ A \in Nat
    BY <1>1, <1>6, <1>7, <1>9
  <2>2. /\ m \in Nat /\ x <= m /\ m + 1 <= e /\ m + 1 \in Nat
        /\ Isn + m = QuadSize * A + (QuadSize - 1) /\ Isn + (m + 1) = QuadSize * (A + 1) + 0
    <3>1. /\ QuadSize * A <= Isn + x /\ Isn + x < QuadSize * A + QuadSize
          /\ QuadSize * QuadOf(e) <= Isn + e /\ Isn + e < QuadSize * QuadOf(e) + QuadSize
      BY <1>1, NumberShape
    <3>2. QuadSize * (A + 1) = QuadSize * A + QuadSize /\ QuadSize * A \in Nat
      BY <1>0, <2>1
    <3> HIDE DEF A
    <3> QED
      BY <1>0, <1>1, <2>1, <3>1, <3>2
  <2> HIDE DEF m
  <2>3. /\ QuadOf(m) = A /\ QuadOf(m + 1) = A + 1
        /\ NumberOf(m) = QuadSize * (A % 4) + (QuadSize - 1)
        /\ NumberOf(m + 1) = QuadSize * ((A + 1) % 4) + 0
    <3>1. /\ A + 1 \in Nat /\ QuadSize - 1 \in 0..(QuadSize - 1) /\ 0 \in 0..(QuadSize - 1)
      BY <1>0, <2>1
    <3> HIDE DEF A
    <3>2. (Isn + m) % SeqSize = QuadSize * (A % 4) + (QuadSize - 1) /\ (Isn + m) \div QuadSize = A
      BY ONLY <2>1, <2>2, <3>1, TurnShape
    <3>3. /\ (Isn + (m + 1)) % SeqSize = QuadSize * ((A + 1) % 4) + 0
          /\ (Isn + (m + 1)) \div QuadSize = A + 1
      BY ONLY <2>2, <3>1, TurnShape
    <3> QED
      BY <3>2, <3>3 DEF QuadOf, NumberOf
  <2>4. NumberOf(m) = LAST_SEQ(i) /\ NumberOf(m + 1) = QuadSize * After(i)
        /\ After(i) = QuadOf(m + 1) % 4 /\ After(i) # i /\ After(i) \in Index
    <3>1. \A c \in Nat : ((c % 4) + 1) % 4 = (c + 1) % 4
      OBVIOUS
    <3>2. After(i) = (A + 1) % 4
      BY <1>1, <2>1, <3>1 DEF After
    <3>3. QuadSize * (i + 1) = QuadSize * i + QuadSize /\ QuadSize * i \in Nat /\ QuadSize * After(i) \in Nat
      <4>1. i \in Nat /\ After(i) \in Nat
        BY <1>1, IndexShape DEF Index
      <4> QED
        BY <1>0, <4>1
    <3> QED
      BY <1>0, <1>1, <2>3, <3>2, <3>3, IndexShape DEF LAST_SEQ
  <2>5. r = [tcb |-> tail.tcb, rexlen |-> head.rexlen + tail.rexlen,
             out_order |-> head.out_order \/ tail.out_order]
    BY <1>9 DEF rexmit, i, ready, last, ring
  <2>6. /\ x..m \subseteq Stream /\ (m + 1)..e \subseteq Stream
    <3>1. x..e \subseteq Stream
      BY DEF e
    <3>2. x..m \subseteq x..e /\ (m + 1)..e \subseteq x..e
      BY <1>1, <2>2
    <3> QED
      BY <3>1, <3>2
  <2>7. /\ "ss" \in DOMAIN head.tcb
        /\ Sound(head.tcb.ss, snd1, low, x, k + 1)
        /\ head.rexlen = Cardinality({y \in x..m : snd[y] > 0})
        /\ k + 1 <= CountLimit => \A u \in head.tcb.ss[i].segs : u.retrans < k + 1
        /\ \A j \in Index : j # i => head.tcb.ss[j].segs = ready.ss[j].segs
    <3>1. CanSend(ready, snd, low, x, k, k + 1, x, m)
      BY <1>1, <1>2, <1>3, <1>4, <1>5, <2>2, <2>3, <2>6 DEF CanSend
    <3>2. head = addseg(ready, QuadOf(x) % 4, NumberOf(x), NumberOf(m), now)
      BY <1>1, <2>4
    <3> HIDE DEF head
    <3>3. /\ "ss" \in DOMAIN head.tcb
          /\ Sound(head.tcb.ss, SentAlso(snd, x, m), low, x, k + 1)
          /\ head.rexlen = Cardinality({y \in x..m : snd[y] > 0})
          /\ k + 1 <= CountLimit => \A u \in head.tcb.ss[QuadOf(x) % 4].segs : u.retrans < k + 1
          /\ \A j \in Index : j # QuadOf(x) % 4 => head.tcb.ss[j].segs = ready.ss[j].segs
      BY ONLY <3>1, <3>2, now \in Nat, PartSent
    <3> QED
      BY <1>1, <3>3
  <2> HIDE DEF head, A
  <2>8. snd1 \in [Stream -> Nat]
    BY DEF SentAlso
  <2> HIDE DEF snd1
  <2>9. /\ "ss" \in DOMAIN tail.tcb
        /\ Sound(tail.tcb.ss, SentAlso(snd1, m + 1, e), low, x, k + 1)
        /\ tail.rexlen = Cardinality({y \in (m + 1)..e : snd1[y] > 0})
        /\ k + 1 <= CountLimit => \A u \in tail.tcb.ss[After(i)].segs : u.retrans < k + 1
        /\ \A j \in Index : j # After(i) => tail.tcb.ss[j].segs = head.tcb.ss[j].segs
    <3>1. CanSend(head.tcb, snd1, low, x, k + 1, k + 1, m + 1, e)
      <4>1. Near(m + 1, x) /\ (m + 1) + Late >= low
        BY <1>0, <1>1, <2>2, <2>3 DEF Near, A
      <4>2. k + 1 <= CountLimit => \A s \in head.tcb.ss[QuadOf(m + 1) % 4].segs : s.retrans + 1 < k + 1
        BY <1>4, <1>5, <2>4, <2>7
      <4>3. QuadOf(m + 1) = QuadOf(e) /\ k + 1 \in Nat \ {0} /\ k + 1 <= k + 1
        BY <2>1, <2>3
      <4> QED
        BY <1>1, <2>2, <2>6, <2>7, <2>8, <4>1, <4>2, <4>3 DEF CanSend
    <3>2. tail = addseg(head.tcb, QuadOf(m + 1) % 4, NumberOf(m + 1), NumberOf(e), now)
      BY <1>6, <2>4
    <3> HIDE DEF tail
    <3>3. /\ "ss" \in DOMAIN tail.tcb
          /\ Sound(tail.tcb.ss, SentAlso(snd1, m + 1, e), low, x, k + 1)
          /\ tail.rexlen = Cardinality({y \in (m + 1)..e : snd1[y] > 0})
          /\ k + 1 <= CountLimit =>
                \A u \in tail.tcb.ss[QuadOf(m + 1) % 4].segs : u.retrans < k + 1
          /\ \A j \in Index : j # QuadOf(m + 1) % 4 => tail.tcb.ss[j].segs = head.tcb.ss[j].segs
      BY <3>1, <3>2, PartSent
    <3> QED
      BY <2>4, <3>3
  <2> HIDE DEF tail
  <2>10. SentAlso(snd1, m + 1, e) = SentAlso(snd, x, e)
    <3>1. \A y \in Stream : snd1[y] + (IF y \in (m + 1)..e THEN 1 ELSE 0)
                               = snd[y] + (IF y \in x..e THEN 1 ELSE 0)
      <4> TAKE y \in Stream
      <4>1. y \in Nat /\ snd[y] \in Nat /\ snd1[y] = snd[y] + (IF y \in x..m THEN 1 ELSE 0)
        BY StreamNat DEF snd1, SentAlso
      <4>2. y \in x..e <=> y \in x..m \/ y \in (m + 1)..e
        BY <1>1, <2>2, <4>1
      <4>3. ~(y \in x..m /\ y \in (m + 1)..e)
        BY <2>2
      <4> QED
        BY <4>1, <4>2, <4>3
    <3> QED
      BY <3>1 DEF SentAlso
  <2>11. head.rexlen + tail.rexlen = Cardinality({y \in x..e : snd[y] > 0})
    <3> DEFINE H == {y \in x..m : snd[y] > 0}
               T == {y \in (m + 1)..e : snd1[y] > 0}
               U == {y \in x..e : snd[y] > 0}
    <3>1. \A y \in (m + 1)..e : snd1[y] = snd[y]
      <4> TAKE y \in (m + 1)..e
      <4>1. y \notin x..m /\ y \in Stream
        BY <2>2, <2>6
      <4>2. snd[y] \in Nat /\ snd1[y] = snd[y] + 0
        BY <4>1 DEF snd1, SentAlso
      <4> QED
        BY <4>2
    <3>2. U = H \cup T /\ H \cap T = {}
      <4>1. \A y : y \in x..e <=> y \in x..m \/ y \in (m + 1)..e
        BY <1>1, <2>2
      <4>2. \A y : ~(y \in x..m /\ y \in (m + 1)..e)
        BY <2>2
      <4> QED
        BY <3>1, <4>1, <4>2
    <3>3. IsFiniteSet(H) /\ IsFiniteSet(T)
      <4>1. IsFiniteSet(x..m) /\ IsFiniteSet((m + 1)..e)
        BY <1>1, <2>2, FS_Interval
      <4>2. H \subseteq x..m /\ T \subseteq (m + 1)..e
        OBVIOUS
      <4> QED
        BY <4>1, <4>2, FS_Subset
    <3>4. head.rexlen = Cardinality(H) /\ tail.rexlen = Cardinality(T)
      BY <2>7, <2>9
    <3> HIDE DEF H, T, U
    <3>5. Cardinality(U) = Cardinality(H) + Cardinality(T) - Cardinality({})
      BY <3>2, <3>3, FS_Union
    <3>6. Cardinality({}) = 0 /\ Cardinality(H) \in Nat /\ Cardinality(T) \in Nat
      BY <3>3, FS_EmptySet, FS_CardinalityType
    <3> QED
      BY <3>4, <3>5, <3>6 DEF U
  <2>12. k + 1 <= CountLimit =>
                 \A j \in Index : \A s \in tail.tcb.ss[j].segs : s.retrans < k + 1
    <3> SUFFICES ASSUME k + 1 <= CountLimit, NEW j \in Index, NEW s \in tail.tcb.ss[j].segs
                 PROVE  s.retrans < k + 1
      OBVIOUS
    <3>1. CASE j = After(i)
      BY <2>9, <3>1
    <3>2. CASE j = i
      BY <2>4, <2>7, <2>9, <3>2
    <3>3. CASE j # i /\ j # After(i)
      <4>1. s \in ring[j].segs
        BY <1>4, <2>7, <2>9, <3>3
      <4>2. s.retrans \in Nat /\ s.retrans < k
        BY <1>5, <4>1
      <4> QED
        BY <4>2
    <3> QED
      BY <3>1, <3>2, <3>3
  <2> QED
    BY <2>5, <2>9, <2>10, <2>11, <2>12 DEF e
<1> QED
  BY <1>8, <1>9

-----------------------------------------------------------------------------
(* Acknowledgements.                                                       *)

\* Of finitely many segments one has the latest time: a smallest set without
\* one would have one after all.
LEMMA LatestSegment ==
    ASSUME NEW F \in SUBSET SegmentType, IsFiniteSet(F), F # {}
    PROVE  Max({u.time : u \in F}) \in Nat
<1> DEFINE Latest(T) == \E s \in T : \A u \in T : u.time <= s.time
           Bad == {T \in SUBSET F : T # {} /\ ~Latest(T)}
           Sizes == {Cardinality(T) : T \in Bad}
<1>0. \A s \in F : s.time \in Nat
  BY DEF SegmentType
<1>1. Latest(F)
  <2> SUFFICES ASSUME ~Latest(F) PROVE FALSE
    OBVIOUS
  <2>1. \A T \in SUBSET F : IsFiniteSet(T) /\ Cardinality(T) \in Nat
    BY FS_Subset, FS_CardinalityType
  <2>2. F \in Bad
    OBVIOUS
  <2>3. Sizes # {} /\ Sizes \in SUBSET Nat
    <3>1. \A T \in Bad : Cardinality(T) \in Nat
      BY <2>1
    <3> HIDE DEF Bad
    <3> QED
      BY <2>2, <3>1
  <2>4. PICK n \in Sizes : \A k \in Sizes : n <= k
    <3> HIDE DEF Sizes
    <3> QED
      BY <2>3, LeastNumber
  <2>5. PICK T \in Bad : n = Cardinality(T)
    OBVIOUS
  <2>6. T \in SUBSET F /\ T # {} /\ ~Latest(T)
    OBVIOUS
  <2>7. PICK x \in T : TRUE
    BY <2>6
  <2> DEFINE U == T \ {x}
  <2>8. Cardinality(U) = n - 1 /\ n \in Nat /\ U \in SUBSET F
    BY <2>1, <2>5, <2>6, <2>7, FS_RemoveElement
  <2>9. U \notin Bad
    <3>1. SUFFICES ASSUME U \in Bad PROVE FALSE
      OBVIOUS
    <3>2. Cardinality(U) \in Sizes
      BY <3>1
    <3> HIDE DEF Sizes, U
    <3> QED
      BY <2>4, <2>8, <3>2
  <2>10. CASE U = {}
    <3>1. T = {x} /\ x.time \in Nat
      BY <1>0, <2>6, <2>7, <2>10
    <3> QED
      BY <2>6, <3>1
  <2>11. CASE U # {}
    <3>1. PICK s \in U : \A u \in U : u.time <= s.time
      BY <2>8, <2>9, <2>11
    <3>2. s \in T /\ s.time \in Nat /\ x.time \in Nat /\ \A u \in T : u = x \/ u \in U
      BY <1>0, <2>6, <2>7, <3>1
    <3>3. CASE x.time <= s.time
      BY <2>6, <3>1, <3>2, <3>3
    <3>4. CASE s.time <= x.time
      <4>1. \A u \in U : u.time \in Nat
        BY <1>0, <2>8
      <4>2. \A u \in U : u.time <= x.time
        BY <3>1, <3>2, <3>4, <4>1
      <4>3. \A u \in T : u.time <= x.time
        BY <3>2, <4>2
      <4> QED
        BY <2>6, <2>7, <4>3
    <3> QED
      BY <3>2, <3>3, <3>4
  <2> QED
    BY <2>10, <2>11
<1>2. PICK s \in F : \A u \in F : u.time <= s.time
  BY <1>1
<1> DEFINE Times == {u.time : u \in F}
<1>3. Times # {} /\ Times \in SUBSET Int /\ s.time \in Int /\ \A x \in Times : x <= s.time
  BY <1>0, <1>2
<1>4. Times \subseteq Nat
  BY <1>0
<1> HIDE DEF Times
<1>5. Max(Times) \in Times
  BY <1>3, MaxShape
<1> QED
  BY <1>4, <1>5 DEF Times

\* A quadrant has finitely many segments: they do not share a first byte.
LEMMA SegmentsFinite ==
    ASSUME NEW i \in Index, NEW segs, SegmentsInv(segs, i)
    PROVE  IsFiniteSet(segs)
<1> DEFINE T == (QuadSize * i)..LAST_SEQ(i)
           f == [s \in segs |-> s.first]
<1>1. QuadSize * i \in Int /\ LAST_SEQ(i) \in Int
  BY QuadPositive DEF Index, LAST_SEQ
<1>2. \A s \in segs : /\ s.first \in Nat /\ s.last \in Nat /\ QuadSize * i <= s.first
                      /\ s.first <= s.last /\ s.last <= LAST_SEQ(i)
  BY DEF SegmentsInv, SegmentType
<1>3. \A s, u \in segs : s # u => s.last < u.first \/ u.last < s.first
  BY DEF SegmentsInv
<1>4. IsFiniteSet(T)
  BY <1>1, FS_Interval
<1>5. \A s \in segs : s.first \in T
  BY <1>1, <1>2
<1> HIDE DEF T
<1>6. f \in [segs -> T]
  BY <1>5
<1>7. \A s, u \in segs : f[s] = f[u] => s = u
  BY <1>2, <1>3
<1>8. f \in Injection(segs, T)
  <2> HIDE DEF f
  <2> QED
    BY <1>6, <1>7 DEF Injection, IsInjective
<1> QED
  BY <1>4, <1>8, FS_Injection

LEMMA RunBegins ==
    ASSUME NEW a \in Int, NEW b \in Int, NEW S \in SUBSET (a..b), NEW x \in S
    PROVE  \E f \in S : f - 1 \notin S /\ f <= x /\ f..x \subseteq S
  BY RunShape

\* What an acknowledgement may do to the segments of a quadrant.
Preserved(segs, new) ==
    /\ Recorded(new) = Recorded(segs)
    /\ \A u \in new : (u.acked > 0 \/ u \in segs) /\ \E s \in segs : u.retrans = s.retrans

LEMMA KeptTransitive ==
    ASSUME NEW segs, NEW mid, NEW new, Preserved(segs, mid), Preserved(mid, new)
    PROVE  Preserved(segs, new)
  BY DEF Preserved

\* Acknowledged segments that fit together become one, without a gap.
LEMMA CollapseShape ==
    ASSUME NEW i \in Index, NEW segs, SegmentsInv(segs, i)
    PROVE  SegmentsInv(collapse_quad(segs), i) /\ Preserved(segs, collapse_quad(segs))
<1> DEFINE front == {s \in segs : \A u \in segs : u.first <= s.first => u.acked > 0}
           Run(s) == {u \in front : u.first >= s.first
                                    /\ s.first..u.last \subseteq Recorded(front)}
           starts == {s \in front : \A u \in front : u.last + 1 # s.first}
           Last(s) == CHOOSE u \in Run(s) : \A v \in Run(s) : v.last <= u.last
           Joined(s) == [s EXCEPT !.last = Last(s).last, !.acked = Last(s).acked,
                                  !.time = Max({u.time : u \in Run(s)})]
           joined == {Joined(s) : s \in starts}
           new == (segs \ front) \cup joined
           lo == QuadSize * i
           hi == LAST_SEQ(i)
           S == Recorded(front)
<1>0. collapse_quad(segs) = new
  BY DEF collapse_quad
<1>1. lo \in Int /\ hi \in Int
  BY QuadPositive DEF Index, LAST_SEQ
<1>2. /\ segs \subseteq SegmentType
      /\ \A s \in segs : /\ s.first \in Nat /\ s.last \in Nat /\ s.retrans \in Nat /\ s.acked \in Nat
                         /\ lo <= s.first /\ s.first <= s.last /\ s.last <= hi
      /\ \A s, u \in segs : s # u => s.last < u.first \/ u.last < s.first
  BY DEF SegmentsInv, SegmentType
<1>3. front \subseteq segs /\ starts \subseteq front /\ \A s \in front : s.acked > 0
  BY <1>2
<1>4. IsFiniteSet(front)
  BY <1>3, SegmentsFinite, FS_Subset
<1> HIDE DEF front, lo, hi
<1>5. S \in SUBSET (lo..hi) /\ \A n \in S : \E u \in front : n \in Bytes(u)
  <2>1. \A n \in S : \E u \in front : n \in Bytes(u)
    BY DEF Recorded
  <2>2. \A u \in front : Bytes(u) \subseteq lo..hi
    BY <1>1, <1>2, <1>3 DEF Bytes
  <2> QED
    BY <2>1, <2>2
<1>6. \A u \in front : Bytes(u) \subseteq S
  BY DEF Recorded
<1>7. \A s \in front : s \in Run(s)
  BY <1>2, <1>3, <1>6 DEF Bytes
<1>8. ASSUME NEW s \in starts
      PROVE  /\ Last(s) \in Run(s) /\ \A v \in Run(s) : v.last <= Last(s).last
             /\ Max({u.time : u \in Run(s)}) \in Nat
  <2>1. s \in Run(s) /\ Run(s) \subseteq front
    BY <1>3, <1>7, <1>8
  <2> DEFINE R == Run(s)
             L == {u.last : u \in R}
  <2>2. L # {} /\ L \in SUBSET Int /\ \A x \in L : x <= hi
    <3>1. \A u \in R : u.last \in Int /\ u.last <= hi
      BY <1>2, <1>3, <2>1
    <3>2. s \in R
      BY <2>1
    <3> HIDE DEF R
    <3> QED
      BY <3>1, <3>2
  <2>3. PICK x \in L : \A y \in L : y <= x
    <3> HIDE DEF L
    <3> QED
      BY <1>1, <2>2, Greatest
  <2>4. \E u \in R : \A v \in R : v.last <= u.last
    BY <2>3
  <2>5. R \in SUBSET SegmentType /\ IsFiniteSet(R) /\ R # {}
    <3> HIDE DEF R
    <3>1. R \subseteq front /\ s \in R
      BY <2>1 DEF R
    <3> QED
      BY <1>2, <1>3, <1>4, <3>1, FS_Subset
  <2> HIDE DEF R
  <2>6. Max({u.time : u \in R}) \in Nat
    BY <2>5, LatestSegment
  <2> QED
    BY <2>4, <2>6 DEF R
<1> HIDE DEF Last
<1>9. ASSUME NEW s \in starts
      PROVE  /\ Joined(s) \in SegmentType /\ Joined(s).first = s.first
             /\ Joined(s).last = Last(s).last /\ Joined(s).acked > 0
             /\ Joined(s).retrans = s.retrans
             /\ s \in front /\ Last(s) \in front /\ Last(s).first >= s.first
             /\ Bytes(Joined(s)) \subseteq S
             /\ s.first \in Nat /\ Last(s).last \in Nat /\ s.first <= Last(s).last
             /\ lo <= s.first /\ Last(s).last <= hi
  <2>1. s \in front /\ s \in SegmentType /\ s \in segs
    BY <1>2, <1>3, <1>9
  <2>2. /\ Last(s) \in front /\ Last(s) \in segs /\ Last(s) \in SegmentType /\ Last(s).acked > 0
        /\ Last(s).first >= s.first /\ s.first..Last(s).last \subseteq S
    BY <1>2, <1>3, <1>8, <1>9
  <2>3. /\ Last(s).last \in Nat /\ Last(s).acked \in Nat /\ Last(s).first \in Nat
        /\ Last(s).first <= Last(s).last
    BY <1>2, <2>2
  <2>4. Max({u.time : u \in Run(s)}) \in Nat
    BY <1>8, <1>9
  <2> DEFINE e == Last(s).last
             a == Last(s).acked
             m == Max({u.time : u \in Run(s)})
  <2>5. Joined(s) = [s EXCEPT !.last = e, !.acked = a, !.time = m]
    OBVIOUS
  <2>6. e \in Nat /\ a \in Nat /\ m \in Nat /\ a > 0
    BY <2>2, <2>3, <2>4
  <2> HIDE DEF e, a, m, Joined
  <2>7. /\ Joined(s) \in SegmentType /\ Joined(s).first = s.first
        /\ Joined(s).last = e /\ Joined(s).acked = a
        /\ Joined(s).retrans = s.retrans
    BY <2>1, <2>5, <2>6 DEF SegmentType
  <2> QED
    BY <1>2, <2>1, <2>2, <2>3, <2>6, <2>7 DEF e, Bytes
<1> HIDE DEF Joined, Run
<1>10. ASSUME NEW n \in S PROVE \E s \in starts : n \in Bytes(Joined(s))
  <2>1. PICK f \in S : f - 1 \notin S /\ f <= n /\ f..n \subseteq S
    BY <1>1, <1>5, RunBegins
  <2>2. PICK v \in front : f \in Bytes(v)
    BY <1>5
  <2>3. PICK u \in front : n \in Bytes(u)
    BY <1>5, <1>10
  <2>4. /\ v.first \in Nat /\ v.last \in Nat /\ u.first \in Nat /\ u.last \in Nat
        /\ v.first <= f /\ f <= v.last /\ u.first <= n /\ n <= u.last /\ f \in Int /\ n \in Int
    BY <1>2, <1>3, <2>2, <2>3 DEF Bytes
  <2>5. v.first = f
    <3>1. SUFFICES ASSUME v.first < f PROVE FALSE
      BY <2>4
    <3>2. f - 1 \in Bytes(v)
      BY <2>4, <3>1 DEF Bytes
    <3> QED
      BY <1>6, <2>1, <3>2
  <2>6. v \in starts
    <3>1. SUFFICES ASSUME NEW w \in front, w.last + 1 = f PROVE FALSE
      BY <2>5
    <3>2. w.last = f - 1 /\ w.last \in Bytes(w)
      BY <1>2, <1>3, <2>4, <3>1 DEF Bytes
    <3> QED
      BY <1>6, <2>1, <3>2
  <2>7. u.first >= f
    <3>1. SUFFICES ASSUME u.first < f PROVE FALSE
      BY <2>4
    <3>2. f - 1 \in Bytes(u)
      BY <2>1, <2>4, <3>1 DEF Bytes
    <3> QED
      BY <1>6, <2>1, <3>2
  <2>8. f..u.last \subseteq S
    <3>1. \A z \in f..u.last : z \in f..n \/ z \in Bytes(u)
      BY <2>4 DEF Bytes
    <3> QED
      BY <1>6, <2>1, <3>1
  <2>9. u \in Run(v)
    BY <2>5, <2>7, <2>8 DEF Run
  <2>10. u.last <= Last(v).last
    BY <1>8, <2>6, <2>9
  <2>11. n \in Bytes(Joined(v))
    BY <1>9, <2>1, <2>4, <2>5, <2>6, <2>10 DEF Bytes
  <2> QED
    BY <2>6, <2>11
<1>11. ASSUME NEW s \in starts, NEW z \in starts, s.first < z.first
       PROVE  Last(s).last < z.first
  <2>1. SUFFICES ASSUME z.first <= Last(s).last PROVE FALSE
    BY <1>9, <1>11
  <2>2. z.first - 1 \in Bytes(Joined(s))
    BY <1>9, <1>11, <2>1 DEF Bytes
  <2>3. PICK w \in front : z.first - 1 \in Bytes(w)
    BY <1>5, <1>9, <2>2
  <2>4. /\ w.first \in Nat /\ w.last \in Nat /\ w.first <= z.first - 1 /\ z.first - 1 <= w.last
        /\ z.first \in Nat /\ z.last \in Nat /\ z.first <= z.last /\ z \in segs /\ w \in segs
    BY <1>2, <1>3, <1>11, <2>3 DEF Bytes
  <2>5. w.last < z.first
    BY <1>2, <2>4
  <2>6. w.last + 1 = z.first
    BY <2>4, <2>5
  <2> QED
    BY <1>11, <2>6
<1>12. \A u \in new : /\ u \in SegmentType /\ lo <= u.first /\ u.first <= u.last /\ u.last <= hi
                      /\ u.first \in Nat /\ u.last \in Nat
  <2> TAKE u \in new
  <2>1. CASE u \in segs
    BY <1>2, <2>1
  <2>2. CASE u \in joined
    BY <1>9, <2>2
  <2> QED
    BY <2>1, <2>2
<1>13. ASSUME NEW u \in segs \ front, NEW s \in starts
       PROVE  u.last < s.first \/ Last(s).last < u.first
  <2>1. \A n \in Bytes(u) : n \notin S
    <3>1. \A w \in front : w \in segs /\ w # u
      BY <1>3, <1>13
    <3>2. \A w \in front : \A n \in Bytes(u) : n \notin Bytes(w)
      BY <1>2, <1>13, <3>1 DEF Bytes
    <3> QED
      BY <1>5, <3>2
  <2>2. \A n \in u.first..u.last : n \notin s.first..Last(s).last
    BY <1>9, <1>13, <2>1 DEF Bytes
  <2>3. u.first \in Nat /\ u.last \in Nat /\ u.first <= u.last
    BY <1>2, <1>13
  <2>4. s.first \in Nat /\ Last(s).last \in Nat /\ s.first <= Last(s).last
    BY <1>9, <1>13
  <2>5. u.first \notin s.first..Last(s).last /\ s.first \notin u.first..u.last
    BY <2>2, <2>3, <2>4
  <2> QED
    BY <2>3, <2>4, <2>5
<1>14. \A u, v \in new : u # v => u.last < v.first \/ v.last < u.first
  <2> TAKE u, v \in new
  <2> HAVE u # v
  <2>1. CASE u \in segs \ front /\ v \in segs \ front
    BY <1>2, <2>1
  <2>2. CASE u \in segs \ front /\ v \in joined
    <3>1. PICK s \in starts : v = Joined(s)
      BY <2>2
    <3> QED
      BY <1>9, <1>13, <2>2, <3>1
  <2>3. CASE u \in joined /\ v \in segs \ front
    <3>1. PICK s \in starts : u = Joined(s)
      BY <2>3
    <3> QED
      BY <1>9, <1>13, <2>3, <3>1
  <2>4. CASE u \in joined /\ v \in joined
    <3>1. PICK s \in starts : u = Joined(s)
      BY <2>4
    <3>2. PICK z \in starts : v = Joined(z)
      BY <2>4
    <3>3. s # z /\ s \in segs /\ z \in segs
      BY <1>3, <3>1, <3>2
    <3>4. s.first < z.first \/ z.first < s.first
      BY <1>2, <3>3
    <3> QED
      BY <1>9, <1>11, <3>1, <3>2, <3>4
  <2> QED
    BY <2>1, <2>2, <2>3, <2>4
<1>15. SegmentsInv(new, i)
  BY <1>12, <1>14 DEF SegmentsInv, lo, hi
<1>9b. Recorded(new) = Recorded(segs)
  <2>1. ASSUME NEW u \in new, NEW n \in Bytes(u) PROVE n \in Recorded(segs)
    <3>1. CASE u \in segs
      BY <2>1, <3>1 DEF Recorded
    <3>2. CASE u \in joined
      <4>1. n \in S
        BY <1>9, <2>1, <3>2
      <4> QED
        BY <1>3, <1>5, <4>1 DEF Recorded
    <3> QED
      BY <3>1, <3>2
  <2>2. ASSUME NEW u \in segs, NEW n \in Bytes(u) PROVE n \in Recorded(new)
    <3>1. CASE u \in front
      <4>1. n \in S
        BY <1>6, <2>2, <3>1
      <4>2. PICK s \in starts : n \in Bytes(Joined(s))
        BY <1>10, <4>1
      <4>3. Joined(s) \in new
        OBVIOUS
      <4> QED
        BY <4>2, <4>3 DEF Recorded
    <3>2. CASE u \notin front
      <4>1. u \in new
        BY <3>2
      <4> QED
        BY <2>2, <4>1 DEF Recorded
    <3> QED
      BY <3>1, <3>2
  <2>3. \A n \in Recorded(new) : \E u \in new : n \in Bytes(u)
    BY DEF Recorded
  <2>4. \A n \in Recorded(segs) : \E u \in segs : n \in Bytes(u)
    BY DEF Recorded
  <2> QED
    BY <2>1, <2>2, <2>3, <2>4
<1>9a. \A u \in new : (u.acked > 0 \/ u \in segs) /\ \E s \in segs : u.retrans = s.retrans
  <2> TAKE u \in new
  <2>1. CASE u \in segs
    BY <2>1
  <2>2. CASE u \in joined
    BY <1>3, <1>9, <2>2
  <2> QED
    BY <2>1, <2>2
<1> HIDE DEF new
<1> QED
  BY <1>0, <1>15, <1>9b, <1>9a DEF Preserved

\* Segment u is segment s, or s acknowledged.
Marked(u, s) ==
    /\ u \in SegmentType /\ u.first = s.first /\ u.last = s.last /\ u.retrans = s.retrans
    /\ u = s \/ u.acked > 0

\* Acknowledging segments one by one.
LEMMA MarkedShape ==
    ASSUME NEW i \in Index, NEW segs, SegmentsInv(segs, i), NEW covered \in SUBSET segs,
           NEW v \in [covered -> Nat \ {0}],
           NEW new, new = (segs \ covered) \cup {[s EXCEPT !.acked = v[s]] : s \in covered}
    PROVE  SegmentsInv(new, i) /\ Preserved(segs, new)
<1> DEFINE M == [s \in covered |-> [s EXCEPT !.acked = v[s]]]
<1>1. /\ segs \subseteq SegmentType
      /\ \A s \in segs : QuadSize * i <= s.first /\ s.first <= s.last /\ s.last <= LAST_SEQ(i)
      /\ \A s, u \in segs : s # u => s.last < u.first \/ u.last < s.first
  BY DEF SegmentsInv
<1>2. \A s \in covered : Marked(M[s], s)
  <2> TAKE s \in covered
  <2>1. s \in SegmentType /\ v[s] \in Nat /\ v[s] > 0
    BY <1>1
  <2> QED
    BY <2>1 DEF Marked, SegmentType
<1>3. \A s \in segs : Marked(s, s)
  BY <1>1 DEF Marked
<1> HIDE DEF M
<1>4. new = (segs \ covered) \cup {M[s] : s \in covered}
  BY DEF M
<1>5. \A u \in new : \E s \in segs : Marked(u, s)
  BY <1>2, <1>3, <1>4
<1>6. \A s \in segs : \E u \in new : Marked(u, s)
  BY <1>2, <1>3, <1>4
<1>7. \A u, w \in new : u # w => u.last < w.first \/ w.last < u.first
  <2> TAKE u, w \in new
  <2> HAVE u # w
  <2>0. ASSUME NEW a \in new
        PROVE  \E s \in segs : /\ a.first = s.first /\ a.last = s.last
                               /\ (a = s /\ s \notin covered) \/ (s \in covered /\ a = M[s])
    <3>1. CASE a \in segs \ covered
      BY <3>1
    <3>2. CASE a \in {M[s] : s \in covered}
      <4>1. PICK s \in covered : a = M[s]
        BY <3>2
      <4>2. Marked(a, s)
        BY <1>2, <4>1
      <4> QED
        BY <4>1, <4>2 DEF Marked
    <3> QED
      BY <1>4, <3>1, <3>2
  <2>1. PICK s \in segs : /\ u.first = s.first /\ u.last = s.last
                          /\ (u = s /\ s \notin covered) \/ (s \in covered /\ u = M[s])
    BY <2>0
  <2>2. PICK z \in segs : /\ w.first = z.first /\ w.last = z.last
                          /\ (w = z /\ z \notin covered) \/ (z \in covered /\ w = M[z])
    BY <2>0
  <2>3. s # z
    BY <2>1, <2>2
  <2> QED
    BY <1>1, <2>1, <2>2, <2>3
<1>8. SegmentsInv(new, i)
  <2>1. new \subseteq SegmentType
        /\ \A u \in new : QuadSize * i <= u.first /\ u.first <= u.last /\ u.last <= LAST_SEQ(i)
    BY <1>1, <1>5 DEF Marked
  <2> QED
    BY <1>7, <2>1 DEF SegmentsInv
<1>9. Recorded(new) = Recorded(segs)
  <2>1. \A u, s : Marked(u, s) => Bytes(u) = Bytes(s)
    BY DEF Marked, Bytes
  <2>2. \A u \in new : \E s \in segs : Bytes(u) = Bytes(s)
    BY <1>5, <2>1
  <2>3. \A s \in segs : \E u \in new : Bytes(u) = Bytes(s)
    BY <1>6, <2>1
  <2> QED
    BY ONLY <2>2, <2>3 DEF Recorded
<1>10. \A u \in new : (u.acked > 0 \/ u \in segs) /\ \E s \in segs : u.retrans = s.retrans
  BY <1>5 DEF Marked
<1> QED
  BY <1>8, <1>9, <1>10 DEF Preserved

\* A quadrant's segments are acknowledged.
KeptStep(ss, snd, low, p, k, i, new) ==
    /\ Sound(ss, snd, low, p, k) /\ p \in Nat
    /\ i \in Index /\ i # Opposite(QuadOf(p) % 4)
    /\ SegmentsInv(new, i) /\ Preserved(ss[i].segs, new)

\* The records stay sound.
LEMMA KeptSound ==
    ASSUME NEW ss, NEW snd, NEW low, NEW p, NEW k, NEW i, NEW new,
           KeptStep(ss, snd, low, p, k, i, new),
           NEW ss1, ss1 = WithSegs(ss, i, new)
    PROVE  /\ Sound(ss1, snd, low, p, k)
           /\ \A j \in Index : ss1[j].segs = IF j = i THEN new ELSE ss[j].segs
           /\ \A j \in Index : \A u \in ss1[j].segs : \E s \in ss[j].segs : u.retrans = s.retrans
<1>p. /\ Sound(ss, snd, low, p, k) /\ p \in Nat
      /\ i \in Index /\ i # Opposite(QuadOf(p) % 4)
      /\ SegmentsInv(new, i) /\ Preserved(ss[i].segs, new)
  BY DEF KeptStep
<1> DEFINE c == QuadOf(p) % 4
<1>1. c \in Index /\ ss \in [Index -> QuadType] /\ SeqspaceInv(ss) /\ Ring(ss, c)
      /\ RecordInv(ss, snd, low, p, k) /\ new \in SUBSET SegmentType /\ i # Opposite(c)
  BY <1>p, NumberShape DEF Sound, SeqspaceInv, SegmentsInv, QuadType
<1> HIDE DEF c
<1>2. ss1 \in [Index -> QuadType] /\ Ring(ss1, c)
  <2>1. RingStep(ss, c, i, new)
    BY <1>p, <1>1 DEF RingStep
  <2> QED
    BY <2>1, RingKept
<1>3. \A j \in Index : ss1[j].segs = IF j = i THEN new ELSE ss[j].segs
  <2>1. RingStep(ss, c, i, new)
    BY <1>p, <1>1 DEF RingStep
  <2> QED
    BY <2>1, RingKept
<1>4. SeqspaceInv(ss1)
  BY <1>p, <1>1, <1>2, <1>3 DEF SeqspaceInv, QuadType
<1>5. \A j \in Index : Recorded(ss1[j].segs) = Recorded(ss[j].segs)
  BY <1>p, <1>3 DEF Preserved
<1>6. ASSUME NEW j \in Index, NEW u \in ss1[j].segs, NEW n \in Bytes(u)
      PROVE  \E y \in Stream :
               /\ NumberOf(y) = n /\ Near(y, p) /\ snd[y] > 0
               /\ k <= CountLimit /\ u.retrans = 0 /\ u.acked = 0 => snd[y] = 1
  <2>1. CASE u \in ss[j].segs
    BY <1>1, <1>6, <2>1 DEF RecordInv
  <2>2. CASE u \notin ss[j].segs
    <3>1. j = i /\ u.acked > 0
      BY <1>p, <1>3, <1>6, <2>2 DEF Preserved
    <3>2. n \in Recorded(ss[j].segs)
      <4>1. n \in Recorded(ss1[j].segs)
        BY <1>6 DEF Recorded
      <4> QED
        BY <1>5, <4>1
    <3>3. PICK s \in ss[j].segs : n \in Bytes(s)
      BY <3>2 DEF Recorded
    <3>4. PICK y \in Stream : NumberOf(y) = n /\ Near(y, p) /\ snd[y] > 0
      BY <1>1, <3>3 DEF RecordInv
    <3>5. u.acked # 0
      BY <3>1
    <3> QED
      BY <3>4, <3>5
  <2> QED
    BY <2>1, <2>2
<1>7. \A y \in Stream : snd[y] > 0 /\ y + Late >= low => NumberOf(y) \in Recorded(ss1[QuadOf(y) % 4].segs)
  <2>1. \A y \in Stream : QuadOf(y) % 4 \in Index
    BY NumberShape, StreamNat
  <2> QED
    BY <1>1, <1>5, <2>1 DEF RecordInv
<1>8. RecordInv(ss1, snd, low, p, k)
  BY <1>6, <1>7 DEF RecordInv
<1>9. \A j \in Index : \A u \in ss1[j].segs : \E s \in ss[j].segs : u.retrans = s.retrans
  BY <1>p, <1>3 DEF Preserved
<1> QED
  BY <1>2, <1>3, <1>4, <1>8, <1>9 DEF Sound, c

\* Time passes, and what lies further behind need not be kept.
LEMMA SoundLater ==
    ASSUME NEW ss, NEW snd, NEW low \in Nat, NEW p, NEW k \in Nat,
           NEW low1 \in Nat, NEW k1 \in Nat, low <= low1, k <= k1, Sound(ss, snd, low, p, k)
    PROVE  Sound(ss, snd, low1, p, k1)
<1>1. \A y \in Stream : y + Late >= low1 => y + Late >= low
  BY StreamNat, RexmitAssumption
<1>2. k1 <= CountLimit => k <= CountLimit
  BY SeqspaceAssumption
<1> QED
  BY <1>1, <1>2 DEF Sound, RecordInv

\* Everything in the quadrant before the acknowledgement is acknowledged.
LEMMA AckBehindShape ==
    ASSUME NEW t, "ss" \in DOMAIN t, NEW i \in Index,
           NEW segs, SegmentsInv(segs, Before(i)), segs = t.ss[Before(i)].segs
    PROVE  /\ "ss" \in DOMAIN AckBehind(t, i)
           /\ \/ AckBehind(t, i).ss = t.ss
              \/ \E new : /\ SegmentsInv(new, Before(i)) /\ Preserved(segs, new)
                          /\ AckBehind(t, i).ss = WithSegs(t.ss, Before(i), new)
<1> DEFINE fresh == {s \in segs : s.acked = 0}
           marked == {[s EXCEPT !.acked = IF @ = 0 THEN 1 ELSE @] : s \in segs}
           v == [s \in segs |-> IF s.acked = 0 THEN 1 ELSE s.acked]
           new == collapse_quad(marked)
           j == Before(i)
<1>1. j \in Index
  BY IndexShape
<1>2. v \in [segs -> Nat \ {0}]
  <2>1. \A s \in segs : s.acked \in Nat
    BY DEF SegmentsInv, SegmentType
  <2> QED
    BY <2>1
<1>3. marked = (segs \ segs) \cup {[s EXCEPT !.acked = v[s]] : s \in segs}
  OBVIOUS
<1>4. SegmentsInv(marked, j) /\ Preserved(segs, marked)
  <2> DEFINE covered == segs
  <2>1. SegmentsInv(segs, j)
    BY DEF j
  <2>2. covered \in SUBSET segs /\ v \in [covered -> Nat \ {0}]
    BY <1>2
  <2>3. marked = (segs \ covered) \cup {[s EXCEPT !.acked = v[s]] : s \in covered}
    BY <1>3
  <2> HIDE DEF marked, v, j, covered
  <2> QED
    BY ONLY <1>1, <2>1, <2>2, <2>3, MarkedShape
<1>5. SegmentsInv(new, j) /\ Preserved(segs, new)
  <2> HIDE DEF marked, j
  <2> QED
    BY <1>1, <1>4, CollapseShape, KeptTransitive
<1>6. AckBehind(t, i) = IF fresh = {} THEN t
                        ELSE [t EXCEPT !.ss[j].segs = new, !.rtt_cumack = @ + Cardinality(fresh)]
  BY DEF AckBehind
<1> HIDE DEF fresh, new
<1>7. fresh # {} => /\ "ss" \in DOMAIN AckBehind(t, i)
                    /\ AckBehind(t, i).ss = WithSegs(t.ss, j, new)
  BY <1>6 DEF WithSegs
<1> QED
  BY <1>5, <1>6, <1>7

\* A round trip changes no segment, and is sampled only without a retransmission.
LEMMA RttShape ==
    ASSUME NEW t, "ss" \in DOMAIN t, NEW s, NEW prev \in BOOLEAN, NEW now,
           NEW r, r = rtt_ackin(t, s, prev, now)
    PROVE  /\ "ss" \in DOMAIN r.tcb /\ r.tcb.ss = t.ss
           /\ r.ret = "NORMAL" => s.retrans = 0
<1> DEFINE etime == Elapsed(s.time, now)
           sampled == [t EXCEPT !.rtt_last = etime, !.rtt_count = @ + 1,
                            !.rtt_min = IF @ = 0 \/ @ > etime THEN etime ELSE @,
                            !.rtt_max = Max({@, etime})]
<1>1. CASE prev
  <2> DEFINE counted == [t EXCEPT !.rtt_last = 0, !.rtt_nosample = @ + 1]
  <2>1. r = [tcb |-> counted, ret |-> "NOSAMP"]
    BY <1>1 DEF rtt_ackin
  <2>2. "ss" \in DOMAIN counted /\ counted.ss = t.ss
    OBVIOUS
  <2> HIDE DEF counted
  <2> QED
    BY <2>1, <2>2
<1>2. CASE ~prev /\ s.retrans = 0
  <2>1. r = [tcb |-> FullSize(sampled, s), ret |-> "NORMAL"]
    BY <1>2 DEF rtt_ackin
  <2>2. "ss" \in DOMAIN sampled /\ sampled.ss = t.ss
    OBVIOUS
  <2> HIDE DEF sampled
  <2>3. "ss" \in DOMAIN FullSize(sampled, s) /\ FullSize(sampled, s).ss = t.ss
    BY <2>2 DEF FullSize
  <2> QED
    BY <1>2, <2>1, <2>3
<1>3. CASE ~prev /\ s.retrans # 0
  <2> DEFINE counted == [t EXCEPT !.rtt_last = 0, !.rtt_amback = @ + 1]
  <2>1. r = [tcb |-> counted, ret |-> "AMBIG"]
    BY <1>3 DEF rtt_ackin
  <2>2. "ss" \in DOMAIN counted /\ counted.ss = t.ss
    OBVIOUS
  <2> HIDE DEF counted
  <2> QED
    BY <2>1, <2>2
<1> QED
  BY <1>1, <1>2, <1>3

\* ack_in of everything before byte x: the records stay sound around x, and a
\* sample is taken only of a segment that was neither repeated nor acknowledged.
LEMMA AckShape ==
    ASSUME NEW t, "ss" \in DOMAIN t, NEW snd, NEW low, NEW p, NEW k, NEW x,
           CanTurn(t.ss, snd, low, p, k, x),
           NEW twin, NEW len, NEW win, NEW now,
           NEW r, r = ack_in(t, twin, NumberOf(x), len, win, now),
           NEW ring, ring = whichquad(t.ss, QuadOf(x) % 4)
    PROVE  /\ "ss" \in DOMAIN r.tcb
           /\ Sound(ring, snd, low, x, k)
           /\ Sound(r.tcb.ss, snd, low, x, k)
           /\ \A j \in Index : \A u \in r.tcb.ss[j].segs :
                 \E s \in t.ss[j].segs : u.retrans = s.retrans
           /\ ring[QuadOf(x) % 4].segs = t.ss[QuadOf(x) % 4].segs
           /\ r.ret = "NORMAL" =>
                 \E top \in ring[QuadOf(x) % 4].segs :
                    top.last + 1 = NumberOf(x) /\ top.acked = 0 /\ top.retrans = 0
<1> DEFINE i == QUADNUM(NumberOf(x))
           ack == NumberOf(x)
           ready == [t EXCEPT !.ss = whichquad(@, i)]
           behind == AckBehind(ready, i)
           segs == ready.ss[i].segs
           covered == {s \in segs : s.first < ack}
           fresh == {s \in covered : s.acked = 0}
           tops == {s \in covered : s.last + 1 = ack}
           dup == IsDuplicate(t, twin, ack, len, win)
           Times(s) == IF s.acked = 0 THEN 1
                       ELSE IF s \in tops /\ dup THEN s.acked + 1 ELSE 1
           marked == (segs \ covered) \cup {[s EXCEPT !.acked = Times(s)] : s \in covered}
           final == IF fresh = {} THEN marked ELSE collapse_quad(marked)
           top == CHOOSE s \in tops : TRUE
           counted == [behind EXCEPT !.ss[i].segs = final,
                                     !.rtt_cumack = @ + Cardinality(fresh \ tops)]
           dupped == [counted EXCEPT !.rtt_dupack = @ + 1,
                         !.rtt_triple_dupack = @ + (IF top.acked = 3 THEN 1 ELSE 0)]
           earlier == {u.time : u \in {v \in ready.ss[Before(i)].segs : v.acked = 0} \cup covered}
<1>0. x \in Nat /\ low \in Nat /\ k \in Nat
  BY DEF CanTurn
<1>1. i = QuadOf(x) % 4 /\ i \in Index
  BY <1>0, NumberShape
<1>2. /\ Sound(ring, snd, low, x, k)
      /\ \A j \in Index : ring[j].segs = IF j = Opposite(i) THEN {} ELSE t.ss[j].segs
  <2>1. /\ Sound(ring, snd, low, x, k)
        /\ \A j \in Index : ring[j].segs = IF j = Opposite(QuadOf(x) % 4) THEN {} ELSE t.ss[j].segs
    BY ONLY CanTurn(t.ss, snd, low, p, k, x), ring = whichquad(t.ss, QuadOf(x) % 4), RecordsTurn
  <2> QED
    BY <1>1, <2>1
<1>3. "ss" \in DOMAIN ready /\ ready.ss = ring
  BY <1>1
<1>4. SeqspaceInv(ring) /\ SegmentsInv(segs, i) /\ SegmentsInv(ring[Before(i)].segs, Before(i))
  BY <1>1, <1>2, <1>3, IndexShape DEF Sound, SeqspaceInv
<1>5. r = CASE fresh \cap tops # {} ->
                 rtt_ackin(counted, top, \E y \in earlier : y > top.time, now)
            [] fresh \cap tops = {} /\ tops # {} /\ dup ->
                 [tcb |-> dupped, ret |-> IF top.acked = 3 THEN "TRIPLE" ELSE "CUMUL"]
            [] OTHER -> [tcb |-> counted, ret |-> IF fresh = {} THEN "none" ELSE "CUMUL"]
  BY DEF ack_in
<1>6. SegmentsInv(final, i) /\ Preserved(segs, final)
  <2> DEFINE v == [s \in covered |-> Times(s)]
  <2>1. v \in [covered -> Nat \ {0}]
    <3>1. \A s \in covered : s.acked \in Nat
      BY <1>4 DEF SegmentsInv, SegmentType
    <3> HIDE DEF covered, dup, tops
    <3> QED
      BY <3>1
  <2>2. marked = (segs \ covered) \cup {[s EXCEPT !.acked = v[s]] : s \in covered}
    <3> HIDE DEF segs, covered, dup, tops, Times
    <3>1. {[s EXCEPT !.acked = Times(s)] : s \in covered} = {[s EXCEPT !.acked = v[s]] : s \in covered}
      OBVIOUS
    <3> QED
      BY <3>1
  <2>3. covered \in SUBSET segs
    OBVIOUS
  <2> HIDE DEF segs, covered, marked, v, i
  <2>4. SegmentsInv(marked, i) /\ Preserved(segs, marked)
    BY <1>1, <1>4, <2>1, <2>2, <2>3, MarkedShape
  <2>5. SegmentsInv(collapse_quad(marked), i) /\ Preserved(segs, collapse_quad(marked))
    BY <1>1, <2>4, CollapseShape, KeptTransitive
  <2> QED
    BY <2>4, <2>5
<1> HIDE DEF ready
<1>7. /\ "ss" \in DOMAIN behind
      /\ \/ behind.ss = ring
         \/ \E new : /\ SegmentsInv(new, Before(i)) /\ Preserved(ring[Before(i)].segs, new)
                     /\ behind.ss = WithSegs(ring, Before(i), new)
  <2> HIDE DEF i
  <2> QED
    BY <1>1, <1>3, <1>4, AckBehindShape
<1> HIDE DEF behind
<1>8. /\ Sound(behind.ss, snd, low, x, k) /\ behind.ss[i].segs = segs
      /\ \A j \in Index : \A u \in behind.ss[j].segs : \E s \in ring[j].segs : u.retrans = s.retrans
  <2>1. CASE behind.ss = ring
    BY <1>2, <1>3, <2>1
  <2>2. ASSUME NEW new, SegmentsInv(new, Before(i)), Preserved(ring[Before(i)].segs, new),
               behind.ss = WithSegs(ring, Before(i), new)
        PROVE  <1>8!1 /\ <1>8!2
    <3> DEFINE j == Before(i)
               ss1 == behind.ss
    <3>1. j \in Index /\ j # Opposite(QuadOf(x) % 4) /\ j # i
      BY <1>1, IndexShape
    <3>2. KeptStep(ring, snd, low, x, k, j, new)
      BY <1>0, <1>2, <2>2, <3>1 DEF KeptStep
    <3>3. ss1 = WithSegs(ring, j, new)
      BY <2>2
    <3> HIDE DEF j, ss1
    <3>4. /\ Sound(ss1, snd, low, x, k)
          /\ \A m \in Index : ss1[m].segs = IF m = j THEN new ELSE ring[m].segs
          /\ \A m \in Index : \A u \in ss1[m].segs : \E s \in ring[m].segs : u.retrans = s.retrans
      BY ONLY <3>2, <3>3, KeptSound
    <3> QED
      BY <1>1, <1>3, <3>1, <3>4 DEF ss1
  <2> QED
    BY <1>7, <2>1, <2>2
<1> HIDE DEF final, segs
<1>9. "ss" \in DOMAIN counted /\ counted.ss = WithSegs(behind.ss, i, final)
  BY <1>7 DEF WithSegs
<1>9a. "ss" \in DOMAIN dupped /\ dupped.ss = counted.ss
  BY <1>9
<1> HIDE DEF counted, i, dupped
<1>9b. fresh \cap tops = {} => /\ r.tcb = counted \/ r.tcb = dupped
                               /\ r.ret # "NORMAL"
  <2> HIDE DEF top, tops, fresh, dup, earlier
  <2> SUFFICES ASSUME fresh \cap tops = {}
               PROVE  /\ r.tcb = counted \/ r.tcb = dupped
                      /\ r.ret # "NORMAL"
    OBVIOUS
  <2>1. CASE tops # {} /\ dup
    <3>1. r = [tcb |-> dupped, ret |-> IF top.acked = 3 THEN "TRIPLE" ELSE "CUMUL"]
      BY <1>5, <2>1
    <3> QED
      BY <3>1
  <2>2. CASE ~(tops # {} /\ dup)
    <3>1. r = [tcb |-> counted, ret |-> IF fresh = {} THEN "none" ELSE "CUMUL"]
      BY <1>5, <2>2
    <3> QED
      BY <3>1
  <2> QED
    BY <2>1, <2>2
<1>10. /\ Sound(counted.ss, snd, low, x, k)
       /\ \A j \in Index : \A u \in counted.ss[j].segs : \E s \in behind.ss[j].segs : u.retrans = s.retrans
  <2>1. KeptStep(behind.ss, snd, low, x, k, i, final)
    <3>1. i # Opposite(QuadOf(x) % 4)
      BY <1>1, IndexShape
    <3> QED
      BY <1>0, <1>1, <1>6, <1>8, <3>1 DEF KeptStep
  <2> QED
    BY ONLY <1>9, <2>1, KeptSound
<1>11. fresh \cap tops # {} => /\ "ss" \in DOMAIN r.tcb /\ r.tcb.ss = counted.ss
                               /\ r.ret = "NORMAL" => top.retrans = 0
  <2> HIDE DEF top, tops, fresh, dup, earlier
  <2> SUFFICES ASSUME fresh \cap tops # {}
               PROVE  /\ "ss" \in DOMAIN r.tcb /\ r.tcb.ss = counted.ss
                      /\ r.ret = "NORMAL" => top.retrans = 0
    OBVIOUS
  <2> DEFINE prev == \E y \in earlier : y > top.time
  <2>1. prev \in BOOLEAN
    OBVIOUS
  <2>2. r = rtt_ackin(counted, top, prev, now)
    BY <1>5
  <2>3. "ss" \in DOMAIN counted
    BY <1>9
  <2> HIDE DEF prev
  <2> QED
    BY ONLY <2>1, <2>2, <2>3, RttShape
<1>12. "ss" \in DOMAIN r.tcb /\ r.tcb.ss = counted.ss
  <2> HIDE DEF top, tops, fresh, dup, earlier
  <2>1. CASE fresh \cap tops # {}
    BY <1>11, <2>1
  <2>2. CASE fresh \cap tops = {}
    BY <1>9b, <1>9a, <1>9, <2>2
  <2> QED
    BY <2>1, <2>2
<1>13. ASSUME r.ret = "NORMAL"
       PROVE  \E s \in segs : s.last + 1 = ack /\ s.acked = 0 /\ s.retrans = 0
  <2> DEFINE both == fresh \cap tops
  <2>1. both # {} /\ top.retrans = 0
    <3> HIDE DEF top, tops, fresh, dup, earlier
    <3>1. CASE fresh \cap tops # {}
      BY <1>11, <1>13, <3>1
    <3>2. CASE fresh \cap tops = {}
      BY <1>13, <1>9b, <3>2
    <3> QED
      BY <3>1, <3>2
  <2>2. PICK s \in both : TRUE
    BY <2>1
  <2>3. s \in segs /\ s \in tops /\ s.acked = 0 /\ s.last + 1 = ack
    BY <2>2
  <2>4. \A u \in tops : u = s
    <3>1. \A u \in tops : u \in segs /\ u.last + 1 = ack
      OBVIOUS
    <3>2. /\ \A u \in segs : u.first \in Nat /\ u.last \in Nat /\ u.first <= u.last
          /\ \A u, w \in segs : u # w => u.last < w.first \/ w.last < u.first
      BY <1>4 DEF SegmentsInv, SegmentType
    <3>3. ack \in Nat
      BY <1>0, NumberShape
    <3> HIDE DEF tops, ack
    <3> QED
      BY <2>3, <3>1, <3>2, <3>3
  <2>5. top = s
    <3> HIDE DEF tops
    <3> QED
      BY <2>3, <2>4
  <2> QED
    BY <2>1, <2>3, <2>5
<1>14. \A j \in Index : \A u \in r.tcb.ss[j].segs : \E s \in t.ss[j].segs : u.retrans = s.retrans
  <2>1. \A j \in Index : \A u \in r.tcb.ss[j].segs : \E s \in ring[j].segs : u.retrans = s.retrans
    BY <1>8, <1>10, <1>12
  <2>2. \A j \in Index : ring[j].segs \subseteq t.ss[j].segs
    BY <1>2
  <2> QED
    BY ONLY <2>1, <2>2
<1>15. ring[i].segs = t.ss[i].segs /\ segs = ring[i].segs
  BY <1>1, <1>2, <1>3, IndexShape DEF segs
<1> QED
  BY <1>1, <1>2, <1>10, <1>12, <1>13, <1>14, <1>15

-----------------------------------------------------------------------------
(* The invariant.                                                          *)

LEMMA MaxOfTwo ==
    ASSUME NEW a \in Int, NEW b \in Int
    PROVE  Max({a, b}) \in {a, b} /\ a <= Max({a, b}) /\ b <= Max({a, b})
<1>1. PICK c \in {a, b} : a <= c /\ b <= c
  OBVIOUS
<1>2. {a, b} \in SUBSET Int /\ {a, b} # {} /\ c \in Int /\ \A x \in {a, b} : x <= c
  BY <1>1
<1>3. Max({a, b}) \in {a, b} /\ \A y \in {a, b} : y <= Max({a, b})
  BY ONLY <1>2, MaxShape
<1> QED
  BY <1>3

LEMMA RexmitBegins ==
    ASSUME RexmitInit
    PROVE  RexmitInv
<1>1. "ss" \in DOMAIN tcb /\ tcb.ss = NewSeqspace
  BY DEF RexmitInit, EmptyTcb
<1>2. SeqspaceInv(tcb.ss)
  BY <1>1 DEF SeqspaceInv, NewSeqspace, NoQuad, SegmentsInv
<1>3. WindowInv /\ RecordsInv
  BY <1>1, RexmitAssumption DEF RexmitInit, WindowInv, RecordsInv
<1>4. CountsInv
  BY <1>1 DEF CountsInv, NewSeqspace, NoQuad
<1>5. VerdictInv
  BY FS_EmptySet DEF RexmitInit, VerdictInv, NoVerdict, SamplesAreUnambiguous
<1> QED
  BY <1>1, <1>2, <1>3, <1>4, <1>5 DEF RexmitInv

\* Some byte within the window is where the last packet was, if there was one.
LEMMA RecordsAround ==
    ASSUME RexmitInv
    PROVE  \E p \in Nat : /\ p + Late >= una /\ p <= una + Window
                          /\ SoundOrNew(tcb.ss, sends, una, p, packets)
<1>1. SeqspaceInv(tcb.ss) /\ RecordsInv /\ una \in Nat
  BY DEF RexmitInv, WindowInv
<1>2. CASE tcb.ss = NewSeqspace /\ \A y \in Stream : sends[y] = 0
  BY <1>1, <1>2, RexmitAssumption DEF SoundOrNew
<1>3. CASE \E p \in 0..MaxStream : /\ p + Late >= una /\ p <= una + Window
                                   /\ Ring(tcb.ss, QuadOf(p) % 4)
                                   /\ RecordInv(tcb.ss, sends, una, p, packets)
  BY <1>1, <1>3 DEF SoundOrNew, Sound
<1> QED
  BY <1>1, <1>2, <1>3 DEF RecordsInv

LEMMA SendKeeps ==
    ASSUME RexmitInv, NEW x \in Stream, NEW len \in 1..MaxLen, Send(x, len)
    PROVE  RexmitInv'
<1> DEFINE r == rexmit(tcb, NumberOf(x), len, packets + 1)
           bytes == x..(x + len - 1)
           k == packets
<1>1. /\ una \in Nat /\ nxt \in Nat /\ k \in Nat /\ sends \in [Stream -> Nat]
      /\ una <= nxt /\ nxt <= MaxStream /\ nxt <= una + Window
      /\ \A y \in Stream : sends[y] > 0 => y < nxt
  BY DEF RexmitInv, WindowInv
<1>2. x \in Nat /\ len \in Nat \ {0} /\ MaxStream \in Nat /\ Stream \subseteq Nat /\ Window \in Nat
  BY StreamNat, RexmitAssumption
<1>3. /\ x + Late >= una /\ x + len <= una + Window /\ bytes \subseteq Stream
      /\ tcb' = r.tcb /\ packets' = k + 1 /\ una' = una
      /\ nxt' = Max({nxt, x + len})
      /\ sends' = SentAlso(sends, x, x + len - 1)
      /\ verdict' = [bytes |-> bytes, before |-> {y \in bytes : sends[y] > 0},
                     rexlen |-> r.rexlen, sample |-> {}]
  BY DEF Send, SentAlso
<1>4. PICK p \in Nat : /\ p + Late >= una /\ p <= una + Window
                       /\ SoundOrNew(tcb.ss, sends, una, p, k)
  BY RecordsAround
<1> HIDE DEF r
<1>5. /\ "ss" \in DOMAIN r.tcb
      /\ Sound(r.tcb.ss, SentAlso(sends, x, x + len - 1), una, x, k + 1)
      /\ r.rexlen = Cardinality({y \in x..(x + len - 1) : sends[y] > 0})
      /\ k + 1 <= CountLimit => \A j \in Index : \A s \in r.tcb.ss[j].segs : s.retrans < k + 1
  <2>1. "ss" \in DOMAIN tcb
    BY DEF RexmitInv
  <2>2. k + 1 <= CountLimit => \A j \in Index : \A s \in tcb.ss[j].segs : s.retrans < k
    BY <1>1, SeqspaceAssumption DEF RexmitInv, CountsInv
  <2>3. \A y \in Stream : sends[y] > 0 => y <= una + Window
    BY <1>1, <1>2
  <2> DEFINE now == k + 1
  <2>4. r = rexmit(tcb, NumberOf(x), len, now) /\ now \in Nat
    BY <1>1 DEF r
  <2>5. x..(x + len - 1) \subseteq Stream
    BY <1>3
  <2>6. CanRexmit(tcb, sends, una, p, k, x, len)
    BY <1>1, <1>2, <1>3, <1>4, <2>1, <2>2, <2>3, <2>5 DEF CanRexmit
  <2>7. RexmitDone(r, sends, una, x, len, k)
    <3> HIDE DEF now, k
    <3> QED
      BY ONLY <2>4, <2>6, RexmitShape
  <2> QED
    BY <2>7 DEF RexmitDone
<1>6. "ss" \in DOMAIN tcb' /\ SeqspaceInv(tcb.ss)'
  BY <1>3, <1>5 DEF Sound
<1>7. WindowInv'
  <2>1. x + len <= MaxStream
    <3>1. x + len - 1 \in bytes
      BY <1>2
    <3> QED
      BY <1>2, <1>3, <3>1 DEF Stream
  <2>2. nxt' \in {nxt, x + len} /\ nxt <= nxt' /\ x + len <= nxt'
    <3>1. nxt \in Int /\ x + len \in Int /\ nxt' = Max({nxt, x + len})
      BY <1>1, <1>2, <1>3
    <3> QED
      BY ONLY <3>1, MaxOfTwo
  <2>3. sends' \in [Stream -> Nat]
    BY <1>1, <1>3 DEF SentAlso
  <2>4. \A y \in Stream : sends'[y] > 0 => y < nxt'
    <3>1. ASSUME NEW y \in Stream, sends'[y] > 0 PROVE y < nxt'
      <4>1. y \in Nat /\ sends'[y] = sends[y] + (IF y \in bytes THEN 1 ELSE 0)
        BY <1>2, <1>3 DEF SentAlso
      <4>2. CASE y \in bytes
        BY <1>1, <1>2, <2>2, <4>1, <4>2
      <4>3. CASE y \notin bytes
        BY <1>1, <1>2, <2>2, <3>1, <4>1, <4>3
      <4> QED
        BY <4>2, <4>3
    <3> QED
      BY <3>1
  <2>5. una <= nxt' /\ nxt' <= MaxStream /\ nxt' <= una + Window /\ nxt' \in Nat
    BY <1>1, <1>2, <1>3, <2>1, <2>2
  <2>6. una' = una /\ packets' \in Nat
    BY <1>1, <1>3
  <2> QED
    BY <1>1, <2>3, <2>4, <2>5, <2>6 DEF WindowInv
<1>8. RecordsInv'
  <2>1. x \in 0..MaxStream /\ x + Late >= una' /\ x <= una' + Window
    BY <1>1, <1>2, <1>3 DEF Stream
  <2>2. Ring(tcb'.ss, QuadOf(x) % 4) /\ RecordInv(tcb'.ss, sends', una', x, packets')
    BY <1>3, <1>5 DEF Sound
  <2> QED
    BY <2>1, <2>2 DEF RecordsInv
<1>9. CountsInv'
  BY <1>3, <1>5 DEF CountsInv
<1>10. VerdictInv'
  BY <1>3, <1>5 DEF VerdictInv, SamplesAreUnambiguous
<1> QED
  BY <1>6, <1>7, <1>8, <1>9, <1>10 DEF RexmitInv

LEMMA AcknowledgeKeeps ==
    ASSUME RexmitInv, NEW x \in 0..MaxStream, Acknowledge(x)
    PROVE  RexmitInv'
<1> DEFINE twin == [ack |-> NumberOf(una), win_last |-> 0]
           r == ack_in(tcb, twin, NumberOf(x), 0, 0, packets + 1)
           sample == IF r.ret = "NORMAL" THEN Sampled(x) ELSE {}
           i == QuadOf(x) % 4
           ring == whichquad(tcb.ss, i)
           k == packets
<1>1. /\ una \in Nat /\ nxt \in Nat /\ k \in Nat /\ sends \in [Stream -> Nat]
      /\ una <= nxt /\ nxt <= MaxStream /\ nxt <= una + Window
      /\ \A y \in Stream : sends[y] > 0 => y < nxt
  BY DEF RexmitInv, WindowInv
<1>2. x \in Nat /\ MaxStream \in Nat /\ Stream \subseteq Nat /\ Window \in Nat /\ Late \in Nat
  BY StreamNat, RexmitAssumption
<1>3. /\ x + Late >= una /\ x <= nxt
      /\ tcb' = r.tcb /\ packets' = k + 1
      /\ una' = Max({una, x})
      /\ verdict' = [NoVerdict EXCEPT !.sample = sample]
      /\ nxt' = nxt /\ sends' = sends
  BY DEF Acknowledge
<1>4. PICK p \in Nat : /\ p + Late >= una /\ p <= una + Window
                       /\ SoundOrNew(tcb.ss, sends, una, p, k)
  BY RecordsAround
<1>5. CanTurn(tcb.ss, sends, una, p, k, x)
  <2>1. Near(x, p)
    BY <1>1, <1>2, <1>3, <1>4, WindowIsNear
  <2>2. ASSUME NEW y \in Stream, sends[y] > 0, y + Late >= una PROVE Near(y, x)
    <3>1. y \in Nat /\ y <= una + Window /\ x <= una + Window
      BY <1>1, <1>2, <1>3, <2>2
    <3> QED
      BY <1>1, <1>2, <1>3, <2>2, <3>1, WindowIsNear
  <2> QED
    BY <1>1, <1>2, <1>4, <2>1, <2>2 DEF CanTurn
<1>6. "ss" \in DOMAIN tcb /\ SeqspaceInv(tcb.ss)
  BY DEF RexmitInv
<1> HIDE DEF r, twin, sample, k, ring
<1>7. /\ "ss" \in DOMAIN r.tcb
      /\ Sound(ring, sends, una, x, k)
      /\ Sound(r.tcb.ss, sends, una, x, k)
      /\ \A j \in Index : \A u \in r.tcb.ss[j].segs : \E s \in tcb.ss[j].segs : u.retrans = s.retrans
      /\ ring[QuadOf(x) % 4].segs = tcb.ss[QuadOf(x) % 4].segs
      /\ r.ret = "NORMAL" =>
            \E top \in ring[QuadOf(x) % 4].segs :
               top.last + 1 = NumberOf(x) /\ top.acked = 0 /\ top.retrans = 0
  <2>1. r = ack_in(tcb, twin, NumberOf(x), 0, 0, packets + 1)
    BY DEF r
  <2>2. ring = whichquad(tcb.ss, QuadOf(x) % 4)
    BY DEF ring
  <2> QED
    BY ONLY <1>5, <1>6, <2>1, <2>2, AckShape
<1>8. una' \in Nat /\ una' \in {una, x} /\ una <= una' /\ x <= una'
  <2>1. una \in Int /\ x \in Int /\ una' = Max({una, x})
    BY <1>1, <1>2, <1>3
  <2>2. una' \in {una, x} /\ una <= una' /\ x <= una'
    BY ONLY <2>1, MaxOfTwo
  <2> QED
    BY <1>1, <1>2, <1>3, <2>2
<1>9. Sound(tcb'.ss, sends', una', x, packets')
  <2>1. Sound(tcb'.ss, sends', una, x, k)
    BY <1>3, <1>7
  <2>2. packets' \in Nat /\ k <= packets'
    BY <1>1, <1>3
  <2> QED
    BY <1>1, <1>8, <2>1, <2>2, SoundLater
<1>10. "ss" \in DOMAIN tcb' /\ SeqspaceInv(tcb.ss)'
  BY <1>3, <1>7, <1>9 DEF Sound
<1>11. WindowInv'
  BY <1>1, <1>2, <1>3, <1>8 DEF WindowInv
<1>12. RecordsInv'
  <2>1. x \in 0..MaxStream /\ x + Late >= una' /\ x <= una' + Window
    BY <1>1, <1>2, <1>3, <1>8
  <2> QED
    BY <1>9, <2>1 DEF Sound, RecordsInv
<1>13. CountsInv'
  <2>1. ASSUME packets' <= CountLimit, NEW j \in Index, NEW u \in tcb'.ss[j].segs
        PROVE  u.retrans < packets'
    <3>1. PICK s \in tcb.ss[j].segs : u.retrans = s.retrans
      BY <1>3, <1>7
    <3>2. s.retrans < k
      BY <1>1, <1>3, <2>1, SeqspaceAssumption DEF RexmitInv, CountsInv, k
    <3>3. s.retrans \in Nat
      BY <1>6 DEF SeqspaceInv, SegmentsInv, SegmentType
    <3> QED
      BY <1>1, <1>3, <3>1, <3>2, <3>3
  <2> QED
    BY <2>1 DEF CountsInv
<1>14. ASSUME packets' <= CountLimit, NEW z \in sample
       PROVE  sends[z] = 1
  <2>1. r.ret = "NORMAL" /\ z \in Sampled(x)
    BY DEF sample
  <2>2. PICK top \in ring[i].segs : top.last + 1 = NumberOf(x) /\ top.acked = 0 /\ top.retrans = 0
    BY <1>7, <2>1
  <2>3. /\ QUADNUM(NumberOf(x)) = i /\ i \in Index /\ ring[i].segs = tcb.ss[i].segs
        /\ NumberOf(x) \in Nat
    BY <1>2, <1>7, NumberShape
  <2>4. z \in Stream /\ z < x /\ x <= z + QuadSize
        /\ \E s \in tcb.ss[i].segs : s.last + 1 = NumberOf(x) /\ NumberOf(z) \in Bytes(s)
    BY <2>1, <2>3 DEF Sampled
  <2>5. PICK s \in tcb.ss[i].segs : s.last + 1 = NumberOf(x) /\ NumberOf(z) \in Bytes(s)
    BY <2>4
  <2>6. s = top
    <3>1. SegmentsInv(tcb.ss[i].segs, i) /\ top \in tcb.ss[i].segs
      BY <1>6, <2>2, <2>3 DEF SeqspaceInv
    <3> QED
      BY <2>2, <2>3, <2>5, <3>1 DEF SegmentsInv, SegmentType
  <2>7. PICK y \in Stream : /\ NumberOf(y) = NumberOf(z) /\ Near(y, x)
                            /\ k <= CountLimit /\ top.retrans = 0 /\ top.acked = 0 => sends[y] = 1
    BY <1>7, <2>2, <2>3, <2>5, <2>6 DEF Sound, RecordInv
  <2>8. sends[y] = 1
    BY <1>1, <1>3, <1>14, <2>2, <2>7, SeqspaceAssumption
  <2>9. Near(z, x)
    <3>1. QuadOf(x) \in {QuadOf(z), QuadOf(z) + 1}
      <4>1. z \in Nat /\ x \in Nat /\ z <= x /\ x <= z + QuadSize
        <5>1. z \in Nat /\ QuadSize \in Nat
          BY <1>2, <2>4, SeqspaceAssumption
        <5> QED
          BY <1>2, <2>4, <5>1
      <4> QED
        BY ONLY <4>1, NearShape
    <3>2. QuadOf(z) \in Nat
      BY <1>2, <2>4, NumberShape
    <3> QED
      BY <3>1, <3>2 DEF Near
  <2>10. y = z
    BY <1>2, <2>4, <2>7, <2>9, NearUnique
  <2> QED
    BY <2>8, <2>10
<1>15. VerdictInv'
  <2>1. verdict'.before = {} /\ verdict'.rexlen = 0 /\ verdict'.sample = sample
    BY <1>3 DEF NoVerdict
  <2> QED
    BY <1>3, <1>14, <2>1, FS_EmptySet DEF VerdictInv, SamplesAreUnambiguous
<1> QED
  BY <1>10, <1>11, <1>12, <1>13, <1>15 DEF RexmitInv

LEMMA RexmitInvHolds == RexmitSpec => []RexmitInv
<1>1. RexmitInit => RexmitInv
  BY RexmitBegins
<1>2. RexmitInv /\ [RexmitNext]_rexmitVars => RexmitInv'
  <2> SUFFICES ASSUME RexmitInv, [RexmitNext]_rexmitVars
               PROVE  RexmitInv'
    OBVIOUS
  <2>1. CASE \E x \in Stream, len \in 1..MaxLen : Send(x, len)
    BY <2>1, SendKeeps
  <2>2. CASE \E x \in 0..MaxStream : Acknowledge(x)
    BY <2>2, AcknowledgeKeeps
  <2>3. CASE UNCHANGED rexmitVars
    BY <2>3 DEF rexmitVars, RexmitInv, WindowInv, RecordsInv, CountsInv, VerdictInv,
                SamplesAreUnambiguous
  <2> QED
    BY <2>1, <2>2, <2>3 DEF RexmitNext
<1> QED
  BY <1>1, <1>2, PTL DEF RexmitSpec

\* A byte of the window that was sent is in one segment, and one that was not in none.
LEMMA OutstandingShape ==
    ASSUME RexmitInv, NEW x \in una..(nxt - 1)
    PROVE  Cardinality({s \in UNION {tcb.ss[i].segs : i \in Index} : NumberOf(x) \in Bytes(s)})
             = IF sends[x] > 0 THEN 1 ELSE 0
<1> DEFINE S == {s \in UNION {tcb.ss[i].segs : i \in Index} : NumberOf(x) \in Bytes(s)}
           c == QuadOf(x) % 4
<1>1. /\ una \in Nat /\ nxt \in Nat /\ packets \in Nat /\ sends \in [Stream -> Nat]
      /\ nxt <= MaxStream /\ nxt <= una + Window
  BY DEF RexmitInv, WindowInv
<1>2. x \in Stream /\ x \in Nat /\ x + Late >= una /\ x <= una + Window
  BY <1>1, RexmitAssumption, StreamNat DEF Stream
<1>3. SeqspaceInv(tcb.ss)
  BY DEF RexmitInv
<1>4. c \in Index /\ QUADNUM(NumberOf(x)) = c
  BY <1>2, NumberShape
<1>5. \A s \in S : s \in tcb.ss[c].segs
  <2>1. ASSUME NEW s \in S PROVE s \in tcb.ss[c].segs
    <3>1. PICK j \in Index : s \in tcb.ss[j].segs /\ NumberOf(x) \in Bytes(s)
      BY <2>1
    <3>2. NumberOf(x) \in Recorded(tcb.ss[j].segs)
      BY <3>1 DEF Recorded
    <3>3. j = c
      BY <1>3, <1>4, <3>2, RecordedQuad
    <3> QED
      BY <3>1, <3>3
  <2> QED
    BY <2>1
<1>6. \A s, u \in S : s = u
  <2>1. SegmentsInv(tcb.ss[c].segs, c)
    BY <1>3, <1>4 DEF SeqspaceInv
  <2>2. NumberOf(x) \in Nat
    BY <1>2, NumberShape
  <2>3. ASSUME NEW s \in S, NEW u \in S PROVE s = u
    <3>1. s.first \in Nat /\ s.last \in Nat /\ u.first \in Nat /\ u.last \in Nat
      BY <1>5, <2>1 DEF SegmentsInv, SegmentType
    <3>2. s.first <= NumberOf(x) /\ NumberOf(x) <= s.last /\ u.first <= NumberOf(x) /\ NumberOf(x) <= u.last
      BY <2>2, <3>1 DEF Bytes
    <3>3. s # u => s.last < u.first \/ u.last < s.first
      BY <1>5, <2>1 DEF SegmentsInv
    <3> QED
      BY <2>2, <3>1, <3>2, <3>3
  <2> QED
    BY <2>3
<1>7. S # {} <=> NumberOf(x) \in Recorded(tcb.ss[c].segs)
  BY <1>4, <1>5 DEF Recorded
<1>8. sends[x] > 0 <=> NumberOf(x) \in Recorded(tcb.ss[c].segs)
  <2>1. PICK p \in Nat : /\ p + Late >= una /\ p <= una + Window
                         /\ SoundOrNew(tcb.ss, sends, una, p, packets)
    BY RecordsAround
  <2>2. CASE tcb.ss = NewSeqspace /\ \A y \in Stream : sends[y] = 0
    BY <1>2, <1>4, <2>2 DEF NewSeqspace, NoQuad, Recorded
  <2>3. CASE Sound(tcb.ss, sends, una, p, packets)
    <3>1. Near(x, p)
      BY <1>1, <1>2, <2>1, WindowIsNear
    <3>2. RecordInv(tcb.ss, sends, una, p, packets)
      BY <2>3 DEF Sound
    <3> QED
      BY <1>1, <1>2, <2>1, <3>1, <3>2, SentIsRecorded
  <2> QED
    BY <2>1, <2>2, <2>3 DEF SoundOrNew
<1>9. CASE sends[x] > 0
  <2>1. PICK s \in S : TRUE
    BY <1>7, <1>8, <1>9
  <2>2. S = {s}
    BY <1>6, <2>1
  <2> HIDE DEF S
  <2>3. Cardinality(S) = 1
    BY <2>2, FS_Singleton
  <2> QED
    BY <1>9, <2>3 DEF S
<1>10. CASE ~(sends[x] > 0)
  <2>1. S = {}
    BY <1>7, <1>8, <1>10
  <2> HIDE DEF S
  <2>2. Cardinality(S) = 0
    BY <2>1, FS_EmptySet
  <2> QED
    BY <1>10, <2>2 DEF S
<1> QED
  BY <1>9, <1>10

-----------------------------------------------------------------------------
(* The theorems.                                                           *)

(* whichquad leaves no pointer to a quadrant it has freed: the quadrants    *)
(* that exist are linked to each other and to nothing else, and there are   *)
(* never four (rexmit.c, whichquad and freequad).                           *)
THEOREM QuadrantsAreARing == RexmitSpec => []RingIsWhole
<1>1. RexmitInv => RingIsWhole
  <2> SUFFICES ASSUME RexmitInv
               PROVE  RingIsWhole
    OBVIOUS
  <2>1. PICK p \in Nat : SoundOrNew(tcb.ss, sends, una, p, packets)
    BY RecordsAround
  <2>2. CASE tcb.ss = NewSeqspace
    BY <2>2, IndexShape DEF RingIsWhole, NewSeqspace, NoQuad
  <2>3. CASE Sound(tcb.ss, sends, una, p, packets)
    <3> DEFINE c == QuadOf(p) % 4
    <3>1. Ring(tcb.ss, c) /\ c \in Index
      BY <2>3, NumberShape DEF Sound
    <3> HIDE DEF c
    <3>2. ASSUME NEW i \in Index
          PROVE  /\ tcb.ss[i].next => tcb.ss[After(i)].there /\ tcb.ss[After(i)].prev
                 /\ tcb.ss[i].prev => tcb.ss[Before(i)].there /\ tcb.ss[Before(i)].next
                 /\ ~(tcb.ss[i].there /\ tcb.ss[Opposite(i)].there
                      /\ tcb.ss[After(i)].there /\ tcb.ss[Before(i)].there)
      <4>1. i \in {c, After(c), Before(c), Opposite(c)}
        BY <3>1, IndexShape
      <4>2. ~tcb.ss[Opposite(c)].next /\ ~tcb.ss[Opposite(c)].prev /\ ~tcb.ss[Opposite(c)].there
        BY <3>1 DEF Ring, NoQuad
      <4>3. CASE i = c
        BY <3>1, <4>2, <4>3, IndexShape DEF Ring
      <4>4. CASE i = After(c)
        BY <3>1, <4>2, <4>4, IndexShape DEF Ring
      <4>5. CASE i = Before(c)
        BY <3>1, <4>2, <4>5, IndexShape DEF Ring
      <4>6. CASE i = Opposite(c)
        BY <3>1, <4>2, <4>6, IndexShape DEF Ring
      <4> QED
        BY <4>1, <4>3, <4>4, <4>5, <4>6
    <3> QED
      BY <3>2 DEF RingIsWhole
  <2> QED
    BY <2>1, <2>2, <2>3 DEF SoundOrNew
<1> QED
  BY <1>1, RexmitInvHolds, PTL

(* A stream of any length, in packets of any size and any order the window  *)
(* allows: each byte outstanding that was sent is in one segment, and each  *)
(* packet is found to repeat exactly the bytes that were sent before, at    *)
(* the boundaries of quadrants and at the wrap too (rexmit.c, rexmit).      *)
THEOREM RetransmissionsAreExact == RexmitSpec => []RexmitIsExact
<1>1. RexmitInv => RexmitIsExact
  BY OutstandingShape DEF RexmitIsExact, OutstandingIsRecorded, RexmitInv, VerdictInv
<1> QED
  BY <1>1, RexmitInvHolds, PTL

(* Karn's rule, for any number of segments and collapses: no round trip is  *)
(* sampled from a byte that was sent twice, as long as the count of a       *)
(* segment, a u_char, cannot have wrapped (rexmit.c, rtt_ackin).            *)
THEOREM SamplesFollowKarn == RexmitSpec => []SamplesAreUnambiguous
<1>1. RexmitInv => SamplesAreUnambiguous
  BY DEF RexmitInv, VerdictInv
<1> QED
  BY <1>1, RexmitInvHolds, PTL

-----------------------------------------------------------------------------
(* Conversations: the SYN of a stream in its sequence space.               *)

\* The number of position y of a stream.
Number(isn, y) == (isn + y) % SeqSize

LEMMA ModAdd ==
    ASSUME NEW D \in Nat \ {0}, NEW a \in Nat, NEW b \in Nat
    PROVE  ((a % D) + b) % D = (a + b) % D
<1>1. PICK q \in Nat, r \in 0..(D - 1) : a = D * q + r /\ a % D = r
  <2>1. /\ a \div D \in Nat /\ a % D \in 0..(D - 1)
        /\ D * (a \div D) <= a /\ a < D * (a \div D) + D
    BY DivMod
  <2>2. D * (a \div D) \in Nat
    BY <2>1
  <2>3. a - D * (a \div D) \in 0..(D - 1) /\ a = D * (a \div D) + (a - D * (a \div D))
    BY <2>1, <2>2
  <2>4. (D * (a \div D) + (a - D * (a \div D))) % D = a - D * (a \div D)
    BY <2>1, <2>3, ModUnique
  <2> QED
    BY <2>1, <2>3, <2>4
<1>2. PICK p \in Nat, z \in 0..(D - 1) : r + b = D * p + z
  <2> DEFINE c == r + b
  <2>1. c \in Nat
    OBVIOUS
  <2> HIDE DEF c
  <2>2. c \div D \in Nat /\ D * (c \div D) <= c /\ c < D * (c \div D) + D
    BY <2>1, DivMod
  <2>3. D * (c \div D) \in Nat
    BY <2>2
  <2>4. c - D * (c \div D) \in 0..(D - 1) /\ c = D * (c \div D) + (c - D * (c \div D))
    BY <2>1, <2>2, <2>3
  <2> QED
    BY <2>2, <2>4 DEF c
<1>3. (r + b) % D = z
  BY <1>2, ModUnique
<1>4. a + b = D * (q + p) + z
  <2>1. D * (q + p) = D * q + D * p /\ D * q \in Nat /\ D * p \in Nat
    OBVIOUS
  <2> QED
    BY <1>1, <1>2, <2>1
<1>5. (D * (q + p) + z) % D = z /\ q + p \in Nat
  BY ModUnique
<1> QED
  BY <1>1, <1>3, <1>4, <1>5

\* Positions less than a quadrant behind the SYN are in its quadrant or the next.
LEMMA NumberAt ==
    ASSUME NEW isn \in Seqnum, NEW y \in 0..QuadSize, NEW A, A = QUADNUM(isn)
    PROVE  /\ A \in Index /\ After(A) \in Index /\ LAST_SEQ(A) = QuadSize * A + QuadSize - 1
           /\ QuadSize * A \in Nat /\ QuadSize * A <= isn /\ isn <= LAST_SEQ(A)
           /\ isn + y <= LAST_SEQ(A) => Number(isn, y) = isn + y /\ QUADNUM(isn + y) = A
           /\ isn + y > LAST_SEQ(A) =>
                /\ isn + y - LAST_SEQ(A) - 1 \in 0..(QuadSize - 1)
                /\ Number(isn, y) = QuadSize * After(A) + (isn + y - LAST_SEQ(A) - 1)
                /\ QUADNUM(Number(isn, y)) = After(A)
<1>0. QuadSize \in Nat \ {0} /\ isn \in Nat /\ isn < 4 * QuadSize
  BY QuadPositive DEF Seqnum
<1>1. A \in Nat /\ QuadSize * A <= isn /\ isn < QuadSize * A + QuadSize /\ QuadSize * A \in Nat
  <2>1. /\ isn \div QuadSize \in Nat /\ QuadSize * (isn \div QuadSize) <= isn
        /\ isn < QuadSize * (isn \div QuadSize) + QuadSize
    BY <1>0, DivMod
  <2>2. A = isn \div QuadSize
    BY DEF QUADNUM
  <2> HIDE DEF QUADNUM
  <2> QED
    BY <1>0, <2>1, <2>2
<1>2. A \in Index
  <2>1. SUFFICES ASSUME A >= 4 PROVE FALSE
    BY <1>1 DEF Index
  <2>2. PICK d \in Nat : A = 4 + d
    <3>1. A - 4 \in Nat /\ A = 4 + (A - 4)
      BY <1>1, <2>1
    <3> QED
      BY <3>1
  <2>3. QuadSize * (4 + d) = 4 * QuadSize + QuadSize * d /\ QuadSize * d \in Nat
    BY <1>0
  <2> QED
    BY <1>0, <1>1, <2>2, <2>3
<1>3. After(A) \in Index
  BY <1>2, IndexShape
<1>4. LAST_SEQ(A) = QuadSize * A + QuadSize - 1
  BY <1>0, <1>1 DEF LAST_SEQ
<1>5. isn <= LAST_SEQ(A)
  BY <1>0, <1>1, <1>4
<1>6. ASSUME isn + y <= LAST_SEQ(A) PROVE Number(isn, y) = isn + y /\ QUADNUM(isn + y) = A
  <2> DEFINE r == isn + y - QuadSize * A
  <2>1. r \in 0..(QuadSize - 1) /\ isn + y = QuadSize * A + r
    BY <1>0, <1>1, <1>4, <1>6
  <2> HIDE DEF r
  <2>2. (QuadSize * A + r) % SeqSize = QuadSize * (A % 4) + r /\ (QuadSize * A + r) \div QuadSize = A
    BY <1>1, <2>1, TurnShape
  <2>3. A % 4 = A
    BY <1>2 DEF Index
  <2> QED
    BY <2>1, <2>2, <2>3 DEF Number, QUADNUM
<1>7. ASSUME isn + y > LAST_SEQ(A)
      PROVE  /\ isn + y - LAST_SEQ(A) - 1 \in 0..(QuadSize - 1)
             /\ Number(isn, y) = QuadSize * After(A) + (isn + y - LAST_SEQ(A) - 1)
             /\ QUADNUM(Number(isn, y)) = After(A)
  <2> DEFINE r == isn + y - LAST_SEQ(A) - 1
  <2>1. r \in 0..(QuadSize - 1) /\ isn + y = (QuadSize * A + QuadSize) + r
    <3> DEFINE m == QuadSize * A
               l == LAST_SEQ(A)
    <3>1. m \in Nat /\ isn < m + QuadSize /\ l = m + QuadSize - 1 /\ isn + y > l /\ y <= QuadSize
      BY <1>0, <1>1, <1>4, <1>7
    <3>2. r = isn + y - l - 1 /\ y \in Nat
      BY <1>0
    <3> HIDE DEF m, l, r
    <3>3. r \in 0..(QuadSize - 1) /\ isn + y = (m + QuadSize) + r
      BY <1>0, <3>1, <3>2
    <3> QED
      BY <3>3 DEF m
  <2>2. QuadSize * (A + 1) = QuadSize * A + QuadSize /\ A + 1 \in Nat
    BY <1>0, <1>1
  <2> HIDE DEF r
  <2>3. (QuadSize * (A + 1) + r) % SeqSize = QuadSize * ((A + 1) % 4) + r
    BY <2>1, <2>2, TurnShape
  <2>4. Number(isn, y) = QuadSize * After(A) + r
    BY <2>1, <2>2, <2>3 DEF Number, After
  <2>5. \A c \in Index : (QuadSize * c + r) \div QuadSize = c
    <3> TAKE c \in Index
    <3>1. c \in Nat /\ QuadSize \in Nat \ {0} /\ r \in 0..(QuadSize - 1)
      BY <1>0, <2>1 DEF Index
    <3> QED
      BY ONLY <3>1, ModUnique
  <2> QED
    BY <1>3, <2>1, <2>4, <2>5 DEF r, QUADNUM
<1> QED
  BY <1>1, <1>2, <1>3, <1>4, <1>5, <1>6, <1>7

\* As long as the data is less than a quadrant behind the SYN, the SYN is a
\* segment of its own, sent once, and nothing but it may have been answered.
SynStands(ss, isn, time, answered) ==
    /\ SeqspaceInv(ss)
    /\ \A i \in Index : \A s \in ss[i].segs :
          /\ \A n \in Bytes(s) : \E y \in 0..QuadSize : n = Number(isn, y)
          /\ isn \in Bytes(s) =>
                s.first = isn /\ s.last = isn /\ s.time = time /\ s.retrans = 0
          /\ s.acked > 0 <=> isn \in Bytes(s) /\ answered

LEMMA TurnLeaves ==
    ASSUME NEW ss \in [Index -> QuadType], NEW i \in Index
    PROVE  /\ whichquad(ss, i) \in [Index -> QuadType]
           /\ \A j \in Index : whichquad(ss, i)[j].segs \in {ss[j].segs, {}}
<1>0. NoQuad \in QuadType /\ NewQuad \in QuadType /\ NoQuad.segs = {} /\ NewQuad.segs = {}
  BY DEF NoQuad, NewQuad, QuadType
<1>1. \A j \in Index : Present(ss[j]) \in QuadType /\ Present(ss[j]).segs \in {ss[j].segs, {}}
  BY <1>0 DEF Present
<1>2. ASSUME ~(ss[i].there /\ ss[i].prev /\ ss[i].next)
      PROVE  /\ whichquad(ss, i) \in [Index -> QuadType]
             /\ \A j \in Index : whichquad(ss, i)[j].segs \in {ss[j].segs, {}}
  <2> DEFINE self == [Present(ss[i]) EXCEPT !.prev = TRUE, !.next = TRUE]
             next == [Present(ss[After(i)]) EXCEPT !.prev = TRUE, !.next = FALSE]
             prev == [Present(ss[Before(i)]) EXCEPT !.prev = FALSE, !.next = TRUE]
  <2>1. After(i) \in Index /\ Before(i) \in Index /\ Opposite(i) \in Index
    BY IndexShape
  <2>2. self \in QuadType /\ self.segs \in {ss[i].segs, {}}
    BY <1>1 DEF QuadType
  <2>3. next \in QuadType /\ next.segs \in {ss[After(i)].segs, {}}
    BY <1>1, <2>1 DEF QuadType
  <2>4. prev \in QuadType /\ prev.segs \in {ss[Before(i)].segs, {}}
    BY <1>1, <2>1 DEF QuadType
  <2>5. whichquad(ss, i) = [ss EXCEPT ![i] = self, ![After(i)] = next, ![Before(i)] = prev,
                                      ![Opposite(i)] = NoQuad]
    BY <1>2, IndexShape DEF whichquad
  <2> HIDE DEF self, next, prev
  <2> QED
    BY <1>0, <2>1, <2>2, <2>3, <2>4, <2>5
<1> QED
  BY <1>2 DEF whichquad

LEMMA SeqspaceShape ==
    ASSUME NEW ss
    PROVE  SeqspaceInv(ss) <=>
              ss \in [Index -> QuadType] /\ \A i \in Index : SegmentsInv(ss[i].segs, i)
  BY DEF SeqspaceInv, QuadType

LEMMA TurnKeepsSyn ==
    ASSUME NEW ss, NEW isn, NEW time, NEW answered, SynStands(ss, isn, time, answered),
           NEW i \in Index
    PROVE  SynStands(whichquad(ss, i), isn, time, answered)
<1>1. ss \in [Index -> QuadType]
  BY SeqspaceShape DEF SynStands
<1> DEFINE new == whichquad(ss, i)
<1>2. new \in [Index -> QuadType] /\ \A j \in Index : new[j].segs \in {ss[j].segs, {}}
  BY <1>1, TurnLeaves
<1> HIDE DEF new
<1>3. \A j \in Index : SegmentsInv(new[j].segs, j)
  BY <1>2, SeqspaceShape DEF SynStands, SegmentsInv
<1>4. SeqspaceInv(new)
  BY <1>2, <1>3, SeqspaceShape
<1>5. \A j \in Index : new[j].segs \subseteq ss[j].segs
  BY <1>2
<1>6. SynStands(new, isn, time, answered)
  BY <1>4, <1>5 DEF SynStands
<1> QED
  BY <1>6 DEF new

\* A packet behind the SYN, or a part of one, leaves it alone.
LEMMA PartKeepsSyn ==
    ASSUME NEW t, "ss" \in DOMAIN t, NEW isn, NEW time, NEW answered,
           SynStands(t.ss, isn, time, answered),
           NEW i \in Index, NEW a \in Nat, NEW b \in Nat, NEW now \in Nat,
           QuadSize * i <= a, b <= LAST_SEQ(i),
           \A n \in a..b : n # isn /\ \E y \in 0..QuadSize : n = Number(isn, y)
    PROVE  /\ "ss" \in DOMAIN addseg(t, i, a, b, now).tcb
           /\ SynStands(addseg(t, i, a, b, now).tcb.ss, isn, time, answered)
<1>1. t.ss \in [Index -> QuadType] /\ \A j \in Index : SegmentsInv(t.ss[j].segs, j)
  BY SeqspaceShape DEF SynStands
<1> DEFINE r == addseg(t, i, a, b, now).tcb
           segs == t.ss[i].segs
<1>2. PICK new \in SUBSET SegmentType :
         /\ "ss" \in DOMAIN r /\ r.ss = WithSegs(t.ss, i, new)
         /\ SegmentsInv(new, i) /\ Added(segs, new, a, b)
  BY <1>1, AddsegShape
<1> HIDE DEF r
<1>3. /\ r.ss \in [Index -> QuadType]
      /\ \A j \in Index : r.ss[j].segs = IF j = i THEN new ELSE t.ss[j].segs
  BY <1>1, <1>2 DEF WithSegs, QuadType
<1>4. SeqspaceInv(r.ss)
  BY <1>1, <1>2, <1>3, SeqspaceShape
<1> DEFINE Stands(s) ==
              /\ \A n \in Bytes(s) : \E y \in 0..QuadSize : n = Number(isn, y)
              /\ isn \in Bytes(s) =>
                    s.first = isn /\ s.last = isn /\ s.time = time /\ s.retrans = 0
              /\ s.acked > 0 <=> isn \in Bytes(s) /\ answered
<1>5. \A j \in Index : \A s \in t.ss[j].segs : Stands(s)
  BY DEF SynStands
<1>6. ASSUME NEW u \in new PROVE Stands(u)
  <2>1. CASE u \in segs
    BY <1>5, <2>1
  <2>2. CASE \E s \in segs : Again(u, s) /\ s.last >= a /\ s.first <= b
    <3>1. PICK s \in segs : Again(u, s) /\ s.last >= a /\ s.first <= b
      BY <2>2
    <3>2. Stands(s) /\ Bytes(u) = Bytes(s) /\ u.acked = s.acked
      BY <1>5, <3>1 DEF Again, Bytes
    <3>3. isn \notin Bytes(s)
      <4>1. SUFFICES ASSUME isn \in Bytes(s) PROVE FALSE
        OBVIOUS
      <4>2. s.first = isn /\ s.last = isn /\ s.first \in Nat
        BY <1>1, <3>2, <4>1 DEF SegmentsInv, SegmentType
      <4>3. isn \in a..b
        BY <3>1, <4>2
      <4> QED
        BY <4>3
    <3> HIDE DEF Stands
    <3> QED
      BY <3>2, <3>3 DEF Stands
  <2>3. CASE Bytes(u) \subseteq Missing(segs, a, b) /\ u.retrans = 0 /\ u.acked = 0
    <3>1. Bytes(u) \subseteq a..b
      BY <2>3 DEF Missing
    <3> QED
      BY <2>3, <3>1
  <2> QED
    BY <1>2, <1>6, <2>1, <2>2, <2>3 DEF Added
<1>7. \A j \in Index : \A s \in r.ss[j].segs : Stands(s)
  <2> HIDE DEF Stands
  <2> QED
    BY <1>3, <1>5, <1>6
<1>8. SynStands(r.ss, isn, time, answered)
  BY <1>4, <1>7 DEF SynStands
<1> QED
  BY <1>2, <1>8 DEF r

\* Data behind the SYN, in one part or in two.
LEMMA DataKeepsSyn ==
    ASSUME NEW t, "ss" \in DOMAIN t, NEW isn \in Seqnum, NEW time, NEW answered,
           SynStands(t.ss, isn, time, answered), NEW now \in Nat,
           NEW x \in 1..QuadSize, NEW len \in Nat \ {0}, x + len - 1 <= QuadSize,
           NEW r, r = rexmit(t, Number(isn, x), len, now).tcb
    PROVE  "ss" \in DOMAIN r /\ SynStands(r.ss, isn, time, answered)
<1> DEFINE A == QUADNUM(isn)
           B == After(A)
           top == LAST_SEQ(A)
           e == x + len - 1
           seq == Number(isn, x)
           last == (seq + len - 1) % SeqSize
           i == QUADNUM(seq)
           ready == [t EXCEPT !.ss = whichquad(@, i)]
           head == addseg(ready, i, seq, LAST_SEQ(i), now)
           tail == addseg(head.tcb, After(i), QuadSize * After(i), last, now)
<1>0. QuadSize \in Nat \ {0} /\ isn \in Nat /\ isn < SeqSize /\ e \in x..QuadSize
  BY QuadPositive DEF Seqnum
<1>1. /\ A \in Index /\ B \in Index /\ A # B /\ top = QuadSize * A + QuadSize - 1
      /\ QuadSize * A \in Nat /\ QuadSize * A <= isn /\ isn <= top
      /\ QuadSize * B \in Nat /\ LAST_SEQ(B) = QuadSize * B + QuadSize - 1
  <2>1. /\ A \in Index /\ B \in Index /\ top = QuadSize * A + QuadSize - 1
        /\ QuadSize * A \in Nat /\ QuadSize * A <= isn /\ isn <= top
    BY NumberAt
  <2>2. A # B
    BY <2>1, IndexShape
  <2>3. QuadSize * B \in Nat /\ LAST_SEQ(B) = QuadSize * B + QuadSize - 1
    BY <1>0, <2>1 DEF LAST_SEQ, Index
  <2> QED
    BY <2>1, <2>2, <2>3
<1>2. \A y \in 0..QuadSize :
         /\ isn + y <= top => Number(isn, y) = isn + y /\ QUADNUM(Number(isn, y)) = A
         /\ isn + y > top =>
              /\ isn + y - top - 1 \in 0..(QuadSize - 1)
              /\ Number(isn, y) = QuadSize * B + (isn + y - top - 1)
              /\ QUADNUM(Number(isn, y)) = B
  BY NumberAt
<1>3. last = Number(isn, e)
  <2>1. seq = (isn + x) % SeqSize /\ isn + x \in Nat /\ len - 1 \in Nat
    BY <1>0 DEF Number
  <2>2. (seq + (len - 1)) % SeqSize = ((isn + x) + (len - 1)) % SeqSize
    <3>1. SeqSize \in Nat \ {0}
      BY QuadPositive
    <3> HIDE DEF seq
    <3> QED
      BY <2>1, <3>1, ModAdd
  <2>3. seq \in Int
    BY <2>1, QuadPositive
  <2>4. seq + len - 1 = seq + (len - 1) /\ isn + e = (isn + x) + (len - 1)
    BY <2>3, <1>0
  <2> HIDE DEF seq
  <2> QED
    BY <2>2, <2>4 DEF Number
<1> HIDE DEF top, A, B, e
<1>4. ASSUME NEW n \in Int, isn < n, n <= top, n <= isn + e
      PROVE  n # isn /\ \E y \in 0..QuadSize : n = Number(isn, y)
  <2>1. n - isn \in 0..QuadSize /\ isn + (n - isn) = n
    BY <1>0, <1>4
  <2> QED
    BY <1>0, <1>2, <1>4, <2>1
<1>5. ASSUME NEW n \in Int, QuadSize * B <= n, n <= QuadSize * B + (isn + e - top - 1)
      PROVE  n # isn /\ \E y \in 0..QuadSize : n = Number(isn, y)
  <2> DEFINE y == n - QuadSize * B + top + 1 - isn
  <2>1. y \in 1..QuadSize /\ isn + y > top /\ isn + y - top - 1 = n - QuadSize * B
    BY <1>0, <1>1, <1>5
  <2>2. n = Number(isn, y) /\ QUADNUM(n) = B
    <3> HIDE DEF y
    <3>1. Number(isn, y) = QuadSize * B + (isn + y - top - 1) /\ QUADNUM(Number(isn, y)) = B
      BY <1>2, <2>1
    <3> QED
      BY <1>1, <1>5, <2>1, <3>1
  <2>3. QUADNUM(isn) # B
    BY <1>1 DEF A
  <2> QED
    BY <2>1, <2>2, <2>3
<1>6. i \in Index /\ seq \in Nat
  <2>1. seq \in Nat
    BY <1>0, QuadPositive DEF Number
  <2>2. x \in 0..QuadSize /\ (isn + x <= top \/ isn + x > top)
    BY <1>0, <1>1
  <2>3. i = A \/ i = B
    BY <1>2, <2>2
  <2> QED
    BY <1>1, <2>1, <2>3
<1>7. "ss" \in DOMAIN ready /\ SynStands(ready.ss, isn, time, answered)
  <2> HIDE DEF i
  <2>1. SynStands(whichquad(t.ss, i), isn, time, answered)
    BY <1>6, TurnKeepsSyn
  <2> QED
    BY <2>1
<1>8. r = IF QUADNUM(last) = i THEN addseg(ready, i, seq, last, now).tcb ELSE tail.tcb
  BY DEF rexmit
<1>9. last \in Nat
  BY <1>0, <1>3, QuadPositive DEF Number
<1> HIDE DEF ready
<1>p. ASSUME NEW u, "ss" \in DOMAIN u, SynStands(u.ss, isn, time, answered),
             NEW j \in Index, NEW a \in Nat, NEW b \in Nat, QuadSize * j <= a, b <= LAST_SEQ(j),
             \A n \in a..b : n # isn /\ \E y \in 0..QuadSize : n = Number(isn, y)
      PROVE  /\ "ss" \in DOMAIN addseg(u, j, a, b, now).tcb
             /\ SynStands(addseg(u, j, a, b, now).tcb.ss, isn, time, answered)
  BY <1>p, PartKeepsSyn
<1>10. CASE isn + e <= top
  <2>1. seq = isn + x /\ last = isn + e /\ i = A /\ QUADNUM(last) = A
    BY <1>0, <1>1, <1>2, <1>3, <1>10
  <2> HIDE DEF seq, last, i
  <2>2. \A n \in seq..last : n # isn /\ \E y \in 0..QuadSize : n = Number(isn, y)
    BY <1>0, <1>4, <1>10, <1>1, <2>1
  <2>3. QuadSize * A <= seq /\ last <= LAST_SEQ(A)
    BY <1>0, <1>1, <1>10, <2>1 DEF top
  <2> QED
    BY ONLY <1>1, <1>6, <1>7, <1>8, <1>9, <1>p, <2>1, <2>2, <2>3
<1>11. CASE isn + x > top
  <2>1. /\ seq = QuadSize * B + (isn + x - top - 1) /\ i = B /\ QUADNUM(last) = B
        /\ last = QuadSize * B + (isn + e - top - 1)
        /\ isn + e - top - 1 \in 0..(QuadSize - 1) /\ isn + x - top - 1 \in 0..(QuadSize - 1)
    BY <1>0, <1>1, <1>2, <1>3, <1>11
  <2> HIDE DEF seq, last, i
  <2>2. \A n \in seq..last : n # isn /\ \E y \in 0..QuadSize : n = Number(isn, y)
    BY <1>0, <1>1, <1>5, <2>1
  <2>3. QuadSize * B <= seq /\ last <= LAST_SEQ(B)
    BY <1>0, <1>1, <2>1
  <2> QED
    BY ONLY <1>1, <1>6, <1>7, <1>8, <1>9, <1>p, <2>1, <2>2, <2>3
<1>12. CASE isn + x <= top /\ isn + e > top
  <2>1. /\ seq = isn + x /\ i = A /\ QUADNUM(last) = B
        /\ last = QuadSize * B + (isn + e - top - 1) /\ isn + e - top - 1 \in 0..(QuadSize - 1)
    BY <1>0, <1>1, <1>2, <1>3, <1>12
  <2>2. LAST_SEQ(i) = top /\ After(i) = B
    BY <2>1 DEF top, B
  <2> HIDE DEF seq, last, i
  <2>3. \A n \in seq..top : n # isn /\ \E y \in 0..QuadSize : n = Number(isn, y)
    BY <1>0, <1>1, <1>4, <1>12, <2>1
  <2>4. "ss" \in DOMAIN head.tcb /\ SynStands(head.tcb.ss, isn, time, answered)
    <3>1. QuadSize * i <= seq /\ top \in Nat
      BY <1>0, <1>1, <2>1
    <3> QED
      <4> DEFINE b == LAST_SEQ(i)
      <4>1. /\ b \in Nat /\ b <= LAST_SEQ(i) /\ QuadSize * i <= seq
            /\ \A n \in seq..b : n # isn /\ \E y \in 0..QuadSize : n = Number(isn, y)
        BY <2>2, <2>3, <3>1, <1>1
      <4>2. head = addseg(ready, i, seq, b, now)
        OBVIOUS
      <4> HIDE DEF b, head
      <4> QED
        BY ONLY <1>6, <1>7, <1>p, <4>1, <4>2
  <2> HIDE DEF head
  <2>5. \A n \in (QuadSize * B)..last : n # isn /\ \E y \in 0..QuadSize : n = Number(isn, y)
    BY <1>0, <1>1, <1>5, <2>1
  <2>6. last <= LAST_SEQ(B)
    BY <1>0, <1>1, <2>1
  <2>7. "ss" \in DOMAIN tail.tcb /\ SynStands(tail.tcb.ss, isn, time, answered)
    <3> DEFINE a == QuadSize * B
    <3>1. /\ a \in Nat /\ QuadSize * B <= a
          /\ \A n \in a..last : n # isn /\ \E y \in 0..QuadSize : n = Number(isn, y)
      BY <1>1, <2>5
    <3>2. tail = addseg(head.tcb, B, a, last, now)
      BY <2>2
    <3> HIDE DEF a, tail
    <3> QED
      BY ONLY <1>1, <1>9, <1>p, <2>4, <2>6, <3>1, <3>2
  <2> QED
    BY <1>1, <1>8, <2>1, <2>7
<1> QED
  BY <1>0, <1>1, <1>10, <1>11, <1>12

\* The first SYN, before any data.
LEMMA FirstSyn ==
    ASSUME NEW t, "ss" \in DOMAIN t, t.ss \in [Index -> QuadType],
           \A i \in Index : t.ss[i].segs = {}, NEW isn \in Seqnum, NEW now \in Nat,
           NEW r, r = rexmit(t, isn, 1, now).tcb
    PROVE  "ss" \in DOMAIN r /\ SynStands(r.ss, isn, now, FALSE)
<1> DEFINE i == QUADNUM(isn)
           ready == [t EXCEPT !.ss = whichquad(@, i)]
           touched == {s \in ready.ss[i].segs : s.last >= isn /\ s.first <= isn}
           again == {[s EXCEPT !.retrans = (@ + 1) % CountLimit] : s \in touched}
           pieces == Pieces(ready.ss[i].segs, isn, isn, now)
<1>0. QuadSize \in Nat \ {0} /\ isn \in Nat /\ isn < SeqSize
  BY QuadPositive DEF Seqnum
<1>1. i \in Index /\ QuadSize * i <= isn /\ isn <= LAST_SEQ(i) /\ Number(isn, 0) = isn
  <2>1. 0 \in 0..QuadSize /\ isn + 0 = isn
    BY <1>0
  <2> QED
    BY <2>1, NumberAt
<1>2. (isn + 1 - 1) % SeqSize = isn
  <2>1. isn + 1 - 1 = isn + 0
    BY <1>0
  <2> QED
    BY <1>1, <2>1 DEF Number
<1>3. rexmit(t, isn, 1, now) = addseg(ready, i, isn, isn, now)
  BY <1>2 DEF rexmit
<1>4. /\ "ss" \in DOMAIN ready /\ ready.ss \in [Index -> QuadType]
      /\ \A j \in Index : ready.ss[j].segs = {}
  <2> HIDE DEF i
  <2>1. /\ whichquad(t.ss, i) \in [Index -> QuadType]
        /\ \A j \in Index : whichquad(t.ss, i)[j].segs = {}
    BY <1>1, TurnLeaves
  <2> QED
    BY <2>1
<1> HIDE DEF ready
<1>5. touched = {} /\ again = {}
  BY <1>1, <1>4
<1>6. addseg(ready, i, isn, isn, now).tcb
         = [ready EXCEPT !.ss[i].segs = (@ \ touched) \cup {} \cup pieces]
  BY <1>5 DEF addseg
<1> HIDE DEF touched, again
<1>7. \A p \in pieces : /\ p \in SegmentType /\ p.time = now /\ p.retrans = 0 /\ p.acked = 0
                        /\ p.first = isn /\ p.last = isn
  <2>1. \A p \in pieces : /\ p \in SegmentType /\ p.time = now /\ p.retrans = 0 /\ p.acked = 0
                          /\ isn <= p.first /\ p.first <= p.last /\ p.last <= isn
    <3> DEFINE segs == ready.ss[i].segs
    <3>1. isn \in Nat
      BY <1>0
    <3>2. pieces = Pieces(segs, isn, isn, now)
      OBVIOUS
    <3> HIDE DEF segs, pieces
    <3>3. \A p \in Pieces(segs, isn, isn, now) :
             /\ p \in SegmentType /\ p.time = now /\ p.retrans = 0 /\ p.acked = 0
             /\ isn <= p.first /\ p.first <= p.last /\ p.last <= isn
             /\ Bytes(p) \subseteq Missing(segs, isn, isn)
      BY ONLY <3>1, now \in Nat, PiecesShape, Zenon
    <3> QED
      BY ONLY <3>2, <3>3
  <2> QED
    BY <1>0, <2>1 DEF SegmentType
<1>8. \A p, q \in pieces : p = q
  BY <1>7 DEF SegmentType
<1> HIDE DEF pieces
<1>9. /\ "ss" \in DOMAIN r /\ r.ss = WithSegs(ready.ss, i, pieces)
  <2>1. r = [ready EXCEPT !.ss[i].segs = (@ \ touched) \cup {} \cup pieces]
    BY <1>3, <1>6
  <2>2. (ready.ss[i].segs \ touched) \cup {} \cup pieces = pieces
    BY <1>1, <1>4
  <2> QED
    BY <1>1, <1>4, <2>1, <2>2 DEF WithSegs, QuadType
<1>10. /\ r.ss \in [Index -> QuadType]
       /\ \A j \in Index : r.ss[j].segs = IF j = i THEN pieces ELSE {}
  <2>1. pieces \in SUBSET SegmentType
    BY <1>7
  <2> DEFINE q == [ready.ss[i] EXCEPT !.segs = pieces]
  <2>2. ready.ss[i] \in QuadType
    BY <1>1, <1>4
  <2>3. q \in QuadType /\ q.segs = pieces
    BY <2>1, <2>2 DEF QuadType
  <2>4. r.ss = [ready.ss EXCEPT ![i] = q]
    BY <1>9 DEF WithSegs
  <2> HIDE DEF q, i
  <2> QED
    BY <1>1, <1>4, <2>3, <2>4
<1>11. \A j \in Index : SegmentsInv(r.ss[j].segs, j)
  <2>1. SegmentsInv({}, i) /\ \A j \in Index : SegmentsInv({}, j)
    BY DEF SegmentsInv
  <2>2. SegmentsInv(pieces, i)
    BY <1>0, <1>1, <1>7, <1>8 DEF SegmentsInv
  <2> HIDE DEF i
  <2> QED
    BY <1>10, <2>1, <2>2
<1>12. SeqspaceInv(r.ss)
  BY <1>10, <1>11, SeqspaceShape
<1>13. \A p \in pieces : Bytes(p) = {isn}
  BY <1>0, <1>7 DEF Bytes
<1>14. 0 \in 0..QuadSize
  BY <1>0
<1> QED
  BY <1>1, <1>7, <1>9, <1>10, <1>12, <1>13, <1>14 DEF SynStands

\* One acknowledged segment joins nothing.
LEMMA CollapseOne ==
    ASSUME NEW i \in Index, NEW segs, SegmentsInv(segs, i), NEW c,
           \A s \in segs : s.acked > 0 => s = c
    PROVE  collapse_quad(segs) = segs
<1> DEFINE front == {s \in segs : \A u \in segs : u.first <= s.first => u.acked > 0}
           Run(s) == {u \in front : u.first >= s.first
                                    /\ s.first..u.last \subseteq Recorded(front)}
           starts == {s \in front : \A u \in front : u.last + 1 # s.first}
           Last(s) == CHOOSE u \in Run(s) : \A v \in Run(s) : v.last <= u.last
           Joined(s) == [s EXCEPT !.last = Last(s).last, !.acked = Last(s).acked,
                                  !.time = Max({u.time : u \in Run(s)})]
<1>0. collapse_quad(segs) = (segs \ front) \cup {Joined(s) : s \in starts}
  BY DEF collapse_quad
<1>1. \A s \in segs : /\ s \in SegmentType /\ s.first \in Nat /\ s.last \in Nat /\ s.time \in Nat
                      /\ s.first <= s.last
  BY DEF SegmentsInv, SegmentType
<1>2. front \subseteq segs /\ \A s \in front : s = c
  BY <1>1
<1> HIDE DEF front
<1>3. CASE front = {}
  BY <1>0, <1>3
<1>4. CASE front # {}
  <2>1. front = {c} /\ c \in segs /\ c.first \in Nat /\ c.last \in Nat /\ c.first <= c.last
    BY <1>1, <1>2, <1>4
  <2>2. starts = {c}
    BY <2>1
  <2>3. Run(c) = {c}
    <3>1. Recorded(front) = c.first..c.last
      BY <2>1 DEF Recorded, Bytes
    <3> QED
      BY <2>1, <3>1
  <2>4. Last(c) = c
    <3> HIDE DEF Run
    <3> QED
      BY <2>1, <2>3
  <2>5. Max({u.time : u \in Run(c)}) = c.time
    <3>0. c.time \in Int
      BY ONLY <1>1, <2>1
    <3> HIDE DEF Run
    <3>1. {u.time : u \in Run(c)} = {c.time} /\ c.time \in Int
      BY <2>3, <3>0
    <3>2. {c.time} \in SUBSET Int /\ {c.time} # {} /\ \A x \in {c.time} : x <= c.time
      BY <3>1
    <3>3. Max({c.time}) \in {c.time}
      BY <3>1, <3>2, MaxShape
    <3> QED
      BY <3>1, <3>3
  <2> HIDE DEF Last, Run
  <2>6. Joined(c) = c
    BY <1>1, <2>1, <2>4, <2>5 DEF SegmentType
  <2> HIDE DEF Joined, starts
  <2>7. {Joined(s) : s \in starts} = {c}
    BY <2>2, <2>6
  <2> QED
    BY <1>0, <2>1, <2>7
<1> QED
  BY <1>3, <1>4

\* What is recorded just before the SYN, or the byte behind it, is the SYN.
LEMMA BeforeAck ==
    ASSUME NEW ss, NEW isn \in Seqnum, NEW time, NEW answered, SynStands(ss, isn, time, answered),
           NEW y \in {0, 1}, NEW ack, ack = Number(isn, y), NEW i, i = QUADNUM(ack)
    PROVE  /\ i \in Index /\ ack \in Nat
           /\ \A s \in ss[Before(i)].segs : isn \in Bytes(s) /\ y = 1
           /\ \A s \in ss[i].segs : s.first < ack => isn \in Bytes(s) /\ y = 1
           /\ y = 1 => \A j \in Index : \A s \in ss[j].segs :
                 isn \in Bytes(s) => j = Before(i) \/ (j = i /\ s.first < ack)
<1> DEFINE A == QUADNUM(isn)
           B == After(A)
           top == LAST_SEQ(A)
<1>0. QuadSize \in Nat \ {0} /\ isn \in Nat
  BY QuadPositive DEF Seqnum
<1>1. /\ A \in Index /\ B \in Index /\ A # B /\ Before(A) \notin {A, B} /\ Before(B) = A
      /\ top \in Nat /\ isn <= top /\ QuadSize * B \in Nat /\ QuadSize * A \in Nat
  <2>1. /\ A \in Index /\ B \in Index /\ top = QuadSize * A + QuadSize - 1
        /\ QuadSize * A \in Nat /\ QuadSize * A <= isn /\ isn <= top
    <3>1. 0 \in 0..QuadSize
      BY <1>0
    <3> QED
      BY <3>1, NumberAt
  <2>2. A # B /\ Before(A) \notin {A, B} /\ Before(B) = A
    BY <2>1, IndexShape
  <2>3. QuadSize * B \in Nat
    BY <1>0, <2>1 DEF Index
  <2> QED
    BY <1>0, <2>1, <2>2, <2>3
<1>2. \A z \in 0..QuadSize :
         /\ isn + z <= top => Number(isn, z) = isn + z /\ QUADNUM(Number(isn, z)) = A
         /\ isn + z > top =>
              /\ isn + z - top - 1 \in 0..(QuadSize - 1)
              /\ Number(isn, z) = QuadSize * B + (isn + z - top - 1)
              /\ QUADNUM(Number(isn, z)) = B
  BY NumberAt
<1> HIDE DEF top, A, B
<1>3. \A j \in Index : \A s \in ss[j].segs :
         /\ s.first \in Nat /\ s.last \in Nat /\ s.first <= s.last /\ QUADNUM(s.first) = j
         /\ \E z \in 0..QuadSize : s.first = Number(isn, z)
         /\ isn \in Bytes(s) => j = A /\ s.first = isn
  <2> SUFFICES ASSUME NEW j \in Index, NEW s \in ss[j].segs
               PROVE  /\ s.first \in Nat /\ s.last \in Nat /\ s.first <= s.last
                      /\ QUADNUM(s.first) = j
                      /\ \E z \in 0..QuadSize : s.first = Number(isn, z)
                      /\ isn \in Bytes(s) => j = A /\ s.first = isn
    OBVIOUS
  <2>1. s.first \in Nat /\ s.last \in Nat /\ s.first <= s.last
    BY DEF SynStands, SeqspaceInv, SegmentsInv, SegmentType
  <2>2. s.first \in Bytes(s)
    BY <2>1 DEF Bytes
  <2>3. \A n \in Bytes(s) : QUADNUM(n) = j
    <3> TAKE n \in Bytes(s)
    <3>1. n \in Recorded(ss[j].segs)
      BY DEF Recorded
    <3> QED
      BY <3>1, RecordedQuad DEF SynStands
  <2> QED
    BY <2>1, <2>2, <2>3 DEF SynStands, A
<1>4. y \in 0..QuadSize /\ (isn + y <= top \/ isn + y > top)
  BY <1>0, <1>1
<1>5. ack \in Nat
  BY <1>0, <1>1, <1>2, <1>4
<1>6. CASE isn + y <= top
  <2>1. i = A /\ ack = isn + y
    BY <1>2, <1>4, <1>6
  <2>2. ss[Before(i)].segs = {}
    <3>1. Before(i) \in Index
      BY <1>1, <2>1, IndexShape
    <3> SUFFICES ASSUME NEW s \in ss[Before(i)].segs PROVE FALSE
      OBVIOUS
    <3>2. PICK z \in 0..QuadSize : s.first = Number(isn, z)
      BY <1>3, <3>1
    <3>3. isn + z <= top \/ isn + z > top
      BY <1>0, <1>1
    <3>4. QUADNUM(s.first) \in {A, B}
      BY <1>2, <3>2, <3>3
    <3> QED
      BY <1>1, <1>3, <2>1, <3>1, <3>4
  <2>3. ASSUME NEW s \in ss[i].segs, s.first < ack PROVE isn \in Bytes(s) /\ y = 1
    <3>1. PICK z \in 0..QuadSize : s.first = Number(isn, z)
      BY <1>1, <1>3, <2>1, <2>3
    <3>2. QUADNUM(s.first) = A /\ s.first \in Nat /\ s.last \in Nat /\ s.first <= s.last
      BY <1>1, <1>3, <2>1, <2>3
    <3>3. isn + z <= top \/ isn + z > top
      BY <1>0, <1>1
    <3>4. s.first = isn + z
      BY <1>1, <1>2, <3>1, <3>2, <3>3
    <3>5. z = 0 /\ y = 1
      BY <1>0, <2>1, <2>3, <3>4
    <3>6. isn \in s.first..s.last
      BY <1>0, <3>2, <3>4, <3>5
    <3> QED
      BY <3>5, <3>6 DEF Bytes
  <2>4. y = 1 => \A j \in Index : \A s \in ss[j].segs :
                    isn \in Bytes(s) => j = i /\ s.first < ack
    BY <1>0, <1>3, <2>1
  <2> QED
    BY <1>1, <1>5, <2>1, <2>2, <2>3, <2>4
<1>7. CASE isn + y > top
  <2>1. /\ i = B /\ ack = QuadSize * B + (isn + y - top - 1) /\ y = 1 /\ isn = top
    BY <1>0, <1>1, <1>2, <1>4, <1>7
  <2>2. Before(i) = A /\ ack = QuadSize * B
    BY <1>0, <1>1, <2>1
  <2>3. ASSUME NEW s \in ss[A].segs PROVE isn \in Bytes(s)
    <3>1. PICK z \in 0..QuadSize : s.first = Number(isn, z)
      BY <1>1, <1>3, <2>3
    <3>2. QUADNUM(s.first) = A /\ s.first \in Nat /\ s.last \in Nat /\ s.first <= s.last
      BY <1>1, <1>3, <2>3
    <3>3. isn + z <= top \/ isn + z > top
      BY <1>0, <1>1
    <3>4. s.first = isn + z /\ isn + z <= top
      BY <1>1, <1>2, <3>1, <3>2, <3>3
    <3>5. z = 0
      BY <1>0, <2>1, <3>4
    <3>6. isn \in s.first..s.last
      BY <1>0, <3>2, <3>4, <3>5
    <3> QED
      BY <3>6 DEF Bytes
  <2>4. ASSUME NEW s \in ss[B].segs PROVE ~(s.first < ack)
    <3>1. PICK z \in 0..QuadSize : s.first = Number(isn, z)
      BY <1>1, <1>3, <2>4
    <3>2. QUADNUM(s.first) = B
      BY <1>1, <1>3, <2>4
    <3>3. isn + z <= top \/ isn + z > top
      BY <1>0, <1>1
    <3>4. s.first = QuadSize * B + (isn + z - top - 1) /\ isn + z - top - 1 \in 0..(QuadSize - 1)
      BY <1>1, <1>2, <3>1, <3>2, <3>3
    <3> QED
      BY <1>1, <1>0, <2>2, <3>4
  <2>5. \A j \in Index : \A s \in ss[j].segs : isn \in Bytes(s) => j = A
    BY <1>3
  <2> QED
    BY <1>1, <1>5, <2>1, <2>2, <2>3, <2>4, <2>5
<1> QED
  BY <1>4, <1>6, <1>7

\* Segment u is the SYN, sent once, and answered.
Answered(u, isn, time) ==
    u.first = isn /\ u.last = isn /\ u.time = time /\ u.retrans = 0 /\ u.acked > 0

\* Marking what is covered in one quadrant, when only the SYN can be.
CanMark(ss, isn, time, answered, i, covered, v, marked) ==
    /\ isn \in Seqnum /\ SynStands(ss, isn, time, answered) /\ i \in Index
    /\ covered \in SUBSET ss[i].segs /\ \A s \in covered : isn \in Bytes(s)
    /\ v \in [covered -> Nat \ {0}]
    /\ marked = (ss[i].segs \ covered) \cup {[s EXCEPT !.acked = v[s]] : s \in covered}

LEMMA MarkSyn ==
    ASSUME NEW ss, NEW isn, NEW time, NEW answered, NEW i, NEW covered, NEW v, NEW marked,
           CanMark(ss, isn, time, answered, i, covered, v, marked)
    PROVE  /\ SegmentsInv(marked, i)
           /\ \A u \in marked : u \in ss[i].segs \ covered \/ Answered(u, isn, time)
           /\ collapse_quad(marked) = marked
           /\ covered = {} => marked = ss[i].segs
<1> DEFINE segs == ss[i].segs
<1>0. /\ isn \in Seqnum /\ SynStands(ss, isn, time, answered) /\ i \in Index
      /\ covered \in SUBSET segs /\ \A s \in covered : isn \in Bytes(s)
      /\ v \in [covered -> Nat \ {0}]
      /\ marked = (segs \ covered) \cup {[s EXCEPT !.acked = v[s]] : s \in covered}
  BY DEF CanMark
<1>1. /\ segs \subseteq SegmentType /\ SegmentsInv(segs, i)
      /\ \A s, u \in segs : s # u => s.last < u.first \/ u.last < s.first
      /\ \A s \in segs : s.first \in Nat /\ s.last \in Nat /\ s.acked \in Nat
  BY <1>0 DEF SynStands, SeqspaceInv, SegmentsInv, SegmentType
<1>2. \A s \in segs : /\ isn \in Bytes(s) =>
                            s.first = isn /\ s.last = isn /\ s.time = time /\ s.retrans = 0
                      /\ s.acked > 0 => isn \in Bytes(s)
  BY <1>0 DEF SynStands
<1> HIDE DEF segs
<1>3. SegmentsInv(marked, i)
  <2>1. SegmentsInv(segs, i)
    BY <1>1
  <2>2. SegmentsInv(marked, i) /\ Preserved(segs, marked)
    BY ONLY <1>0, <2>1, MarkedShape
  <2> QED
    BY <2>2
<1>4. \A s \in covered : Answered([s EXCEPT !.acked = v[s]], isn, time)
  <2> TAKE s \in covered
  <2>1. s \in SegmentType /\ v[s] \in Nat /\ v[s] > 0
    BY <1>0, <1>1
  <2>2. s.first = isn /\ s.last = isn /\ s.time = time /\ s.retrans = 0
    BY <1>0, <1>2
  <2> QED
    BY <2>1, <2>2 DEF Answered, SegmentType
<1>5. \A u \in marked : u \in segs \ covered \/ Answered(u, isn, time)
  BY <1>0, <1>4
<1>6. \A u \in marked : u.acked > 0 => u.first = isn /\ u.last = isn
  BY <1>2, <1>5 DEF Answered
<1>7. \A u, w \in marked : u.acked > 0 /\ w.acked > 0 => u = w
  <2> TAKE u, w \in marked
  <2> HAVE u.acked > 0 /\ w.acked > 0
  <2>1. u.first = isn /\ u.last = isn /\ w.first = isn /\ w.last = isn /\ isn \in Nat
    BY <1>0, <1>6 DEF Seqnum
  <2> QED
    BY <1>3, <2>1 DEF SegmentsInv
<1>8. collapse_quad(marked) = marked
  <2> DEFINE c == CHOOSE u \in marked : u.acked > 0
  <2>1. \A s \in marked : s.acked > 0 => s = c
    BY <1>7
  <2> HIDE DEF c
  <2> QED
    BY <1>0, <1>3, <2>1, CollapseOne
<1>9. covered = {} => marked = segs
  BY <1>0
<1> QED
  BY <1>3, <1>5, <1>8, <1>9 DEF segs

\* The fields of a control block that neither rexmit nor ack_in touches.
Steady == {"syn", "syn_count", "rtt_3WHS", "win_tot", "win_max", "scaled", "win_scaled_pkts",
           "packets", "window_scale"}

Alike(t, u) == DOMAIN u = DOMAIN t /\ \A f \in Steady : u[f] = t[f]

LEMMA AlikeTransitive ==
    ASSUME NEW t, NEW u, NEW w, Alike(t, u), Alike(u, w)
    PROVE  Alike(t, w)
  BY DEF Alike

LEMMA RttFieldsShape ==
    ASSUME NEW t, "rtt_last" \in DOMAIN t, NEW s, NEW prev, prev \in BOOLEAN, NEW now,
           NEW r, r = rtt_ackin(t, s, prev, now).tcb
    PROVE  Alike(t, r) /\ r.rtt_last \in {0, Elapsed(s.time, now)}
<1> DEFINE etime == Elapsed(s.time, now)
           sampled == [t EXCEPT !.rtt_last = etime, !.rtt_count = @ + 1,
                            !.rtt_min = IF @ = 0 \/ @ > etime THEN etime ELSE @,
                            !.rtt_max = Max({@, etime})]
<1>1. CASE prev
  <2> DEFINE counted == [t EXCEPT !.rtt_last = 0, !.rtt_nosample = @ + 1]
  <2>1. rtt_ackin(t, s, prev, now) = [tcb |-> counted, ret |-> "NOSAMP"]
    BY <1>1 DEF rtt_ackin
  <2>2. Alike(t, counted) /\ counted.rtt_last = 0
    BY DEF Alike, Steady
  <2> HIDE DEF counted
  <2> QED
    BY <2>1, <2>2
<1>2. CASE ~prev /\ s.retrans = 0
  <2>1. rtt_ackin(t, s, prev, now) = [tcb |-> FullSize(sampled, s), ret |-> "NORMAL"]
    BY <1>2 DEF rtt_ackin
  <2>2. Alike(t, sampled) /\ sampled.rtt_last = etime /\ "rtt_last" \in DOMAIN sampled
    BY DEF Alike, Steady
  <2> HIDE DEF sampled
  <2>3. Alike(sampled, FullSize(sampled, s)) /\ FullSize(sampled, s).rtt_last = sampled.rtt_last
    <3> DEFINE size == current_size(s)
               larger == [sampled EXCEPT !.rtt_full_size = size, !.rtt_full_count = 1]
               more == [sampled EXCEPT !.rtt_full_count = @ + 1]
    <3>1. FullSize(sampled, s) \in {larger, more, sampled}
      BY DEF FullSize
    <3>2. Alike(sampled, larger) /\ larger.rtt_last = sampled.rtt_last
      BY <2>2 DEF Alike, Steady
    <3>3. Alike(sampled, more) /\ more.rtt_last = sampled.rtt_last
      BY <2>2 DEF Alike, Steady
    <3>4. Alike(sampled, sampled)
      BY DEF Alike
    <3> HIDE DEF larger, more
    <3> QED
      BY <3>1, <3>2, <3>3, <3>4
  <2>4. Alike(t, FullSize(sampled, s))
    BY <2>2, <2>3, AlikeTransitive
  <2> QED
    BY <2>1, <2>2, <2>3, <2>4
<1>3. CASE ~prev /\ ~(s.retrans = 0)
  <2> DEFINE counted == [t EXCEPT !.rtt_last = 0, !.rtt_amback = @ + 1]
  <2>1. rtt_ackin(t, s, prev, now) = [tcb |-> counted, ret |-> "AMBIG"]
    BY <1>3 DEF rtt_ackin
  <2>2. Alike(t, counted) /\ counted.rtt_last = 0
    BY DEF Alike, Steady
  <2> HIDE DEF counted
  <2> QED
    BY <2>1, <2>2
<1> QED
  BY <1>1, <1>2, <1>3


\* Every segment is marked, or was before; those before ack are.
AllMarked(segs, new) ==
    \/ new = segs /\ \A s \in segs : s.acked # 0
    \/ \E v \in [segs -> Nat \ {0}] :
          new = collapse_quad({[s EXCEPT !.acked = v[s]] : s \in segs})

SomeMarked(segs, covered, new) ==
    \E v \in [covered -> Nat \ {0}], marked \in SUBSET SegmentType :
        /\ marked = (segs \ covered) \cup {[s EXCEPT !.acked = v[s]] : s \in covered}
        /\ new \in {marked, collapse_quad(marked)}

Covered(segs, ack) == {s \in segs : s.first < ack}

\* The last round trip, of a segment that ack ends.
Timed(covered, ack, now, rtt) ==
    \E top \in covered :
        /\ top.last + 1 = ack /\ \E s \in covered : s.last + 1 = ack /\ s.acked = 0
        /\ rtt \in {0, Elapsed(top.time, now)}

\* ack_in: what becomes of the two quadrants, of the last round trip and of
\* the fields that are not its own.
AckStep(t, S, i, ack, now, r) ==
    /\ Alike(t, r)
    /\ \E first, second :
          /\ r.ss = WithSegs(WithSegs(S, Before(i), first), i, second)
          /\ AllMarked(S[Before(i)].segs, first)
          /\ SomeMarked(S[i].segs, Covered(S[i].segs, ack), second)
    /\ r.rtt_last = t.rtt_last \/ Timed(Covered(S[i].segs, ack), ack, now, r.rtt_last)

LEMMA AckSteps ==
    ASSUME NEW t, "ss" \in DOMAIN t, "rtt_last" \in DOMAIN t,
           NEW ack, NEW i \in Index, i = QUADNUM(ack),
           NEW S, S = whichquad(t.ss, i), S \in [Index -> QuadType],
           NEW twin, NEW len, NEW win, NEW now,
           NEW r, r = ack_in(t, twin, ack, len, win, now).tcb
    PROVE  AckStep(t, S, i, ack, now, r)
<1> DEFINE ready == [t EXCEPT !.ss = S]
           behind == AckBehind(ready, i)
           segs == ready.ss[i].segs
           covered == {s \in segs : s.first < ack}
           fresh == {s \in covered : s.acked = 0}
           tops == {s \in covered : s.last + 1 = ack}
           dup == IsDuplicate(t, twin, ack, len, win)
           Times(s) == IF s.acked = 0 THEN 1
                       ELSE IF s \in tops /\ dup THEN s.acked + 1 ELSE 1
           marked == (segs \ covered) \cup {[s EXCEPT !.acked = Times(s)] : s \in covered}
           final == IF fresh = {} THEN marked ELSE collapse_quad(marked)
           top == CHOOSE s \in tops : TRUE
           counted == [behind EXCEPT !.ss[i].segs = final,
                                     !.rtt_cumack = @ + Cardinality(fresh \ tops)]
           dupped == [counted EXCEPT !.rtt_dupack = @ + 1,
                         !.rtt_triple_dupack = @ + (IF top.acked = 3 THEN 1 ELSE 0)]
           earlier == {u.time : u \in {v \in ready.ss[Before(i)].segs : v.acked = 0} \cup covered}
           prev == \E y \in earlier : y > top.time
           B == Before(i)
           old == S[B].segs
<1>1. ack_in(t, twin, ack, len, win, now)
         = CASE fresh \cap tops # {} -> rtt_ackin(counted, top, prev, now)
             [] fresh \cap tops = {} /\ tops # {} /\ dup ->
                  [tcb |-> dupped, ret |-> IF top.acked = 3 THEN "TRIPLE" ELSE "CUMUL"]
             [] OTHER -> [tcb |-> counted, ret |-> IF fresh = {} THEN "none" ELSE "CUMUL"]
  BY DEF ack_in
<1>2. B \in Index /\ B # i
  BY IndexShape
<1>3. ready.ss = S /\ Alike(t, ready) /\ ready.rtt_last = t.rtt_last /\ "ss" \in DOMAIN ready
      /\ "rtt_last" \in DOMAIN ready
  BY DEF Alike, Steady
<1>4. covered = {s \in S[i].segs : s.first < ack} /\ segs = S[i].segs
  BY <1>3
<1> HIDE DEF ready
<1>5. /\ Alike(ready, behind) /\ behind.rtt_last = t.rtt_last
      /\ \E first :
            /\ behind.ss = WithSegs(S, B, first)
            /\ \/ first = old /\ \A s \in first : s.acked # 0
               \/ \E v \in [old -> Nat \ {0}] :
                     first = collapse_quad({[s EXCEPT !.acked = v[s]] : s \in old})
  <2>0. \A s \in old : s.acked \in Nat
    BY <1>2 DEF QuadType, SegmentType
  <2> DEFINE young == {s \in old : s.acked = 0}
             v == [s \in old |-> IF s.acked = 0 THEN 1 ELSE s.acked]
             once == {[s EXCEPT !.acked = IF @ = 0 THEN 1 ELSE @] : s \in old}
             joined == collapse_quad(once)
             cumulated == [ready EXCEPT !.ss[B].segs = joined,
                                        !.rtt_cumack = @ + Cardinality(young)]
  <2>1. behind = IF young = {} THEN ready ELSE cumulated
    BY <1>3 DEF AckBehind
  <2>2. CASE young = {}
    <3>1. WithSegs(S, B, old) = S
      BY <1>2 DEF WithSegs, QuadType
    <3>2. Alike(ready, ready)
      BY DEF Alike
    <3>3. \A s \in old : s.acked # 0
      BY <2>2
    <3> HIDE DEF young, cumulated, old
    <3> QED
      BY <1>3, <2>1, <2>2, <3>1, <3>2, <3>3
  <2>3. CASE young # {}
    <3>1. v \in [old -> Nat \ {0}]
      <4> HIDE DEF old
      <4> QED
        BY <2>0
    <3>2. once = {[s EXCEPT !.acked = v[s]] : s \in old}
      <4> HIDE DEF old
      <4> QED
        OBVIOUS
    <3> HIDE DEF young, once, v, old
    <3>3. behind = cumulated
      BY <2>1, <2>3
    <3> HIDE DEF joined
    <3>4. Alike(ready, cumulated) /\ cumulated.rtt_last = ready.rtt_last
      BY <1>3 DEF Alike, Steady
    <3>5. cumulated.ss = WithSegs(S, B, joined)
      BY <1>3 DEF WithSegs
    <3>6. joined = collapse_quad({[s EXCEPT !.acked = v[s]] : s \in old})
      BY <3>2 DEF joined
    <3> HIDE DEF cumulated, behind
    <3>7. \E w \in [old -> Nat \ {0}] : joined = collapse_quad({[s EXCEPT !.acked = w[s]] : s \in old})
      BY <3>1, <3>6
    <3> QED
      BY <1>3, <3>3, <3>4, <3>5, <3>7
  <2> QED
    BY <2>2, <2>3
<1> HIDE DEF behind, old
<1>6. /\ "ss" \in DOMAIN behind /\ "rtt_last" \in DOMAIN behind
  BY <1>3, <1>5 DEF Alike
<1>7. \E v \in [covered -> Nat \ {0}] :
         /\ marked = (segs \ covered) \cup {[s EXCEPT !.acked = v[s]] : s \in covered}
         /\ marked \in SUBSET SegmentType
  <2> DEFINE v == [s \in covered |-> Times(s)]
  <2>1. v \in [covered -> Nat \ {0}]
    <3>1. \A s \in covered : s.acked \in Nat
      BY <1>4 DEF QuadType, SegmentType
    <3> HIDE DEF covered, dup, tops
    <3> QED
      BY <3>1
  <2>2. marked = (segs \ covered) \cup {[s EXCEPT !.acked = v[s]] : s \in covered}
    <3> HIDE DEF segs, covered, dup, tops, Times
    <3>1. {[s EXCEPT !.acked = Times(s)] : s \in covered} = {[s EXCEPT !.acked = v[s]] : s \in covered}
      OBVIOUS
    <3> QED
      BY <3>1
  <2>3. segs \subseteq SegmentType /\ covered \subseteq segs
    BY <1>4 DEF QuadType
  <2> HIDE DEF covered, segs, marked, v
  <2>4. marked \in SUBSET SegmentType
    <3>1. \A s \in covered : [s EXCEPT !.acked = v[s]] \in SegmentType
      BY <2>1, <2>3 DEF SegmentType
    <3> QED
      BY <2>2, <2>3, <3>1
  <2> QED
    BY <2>1, <2>2, <2>4
<1>8. final \in {marked, collapse_quad(marked)}
  <2> HIDE DEF fresh, marked
  <2> QED
    OBVIOUS
<1> HIDE DEF final, marked
<1>9. /\ Alike(behind, counted) /\ counted.rtt_last = t.rtt_last
      /\ counted.ss = WithSegs(behind.ss, i, final)
  <2> HIDE DEF fresh, tops
  <2> QED
    BY <1>5, <1>6 DEF Alike, Steady, WithSegs
<1>10. /\ "ss" \in DOMAIN counted /\ "rtt_last" \in DOMAIN counted
  BY <1>6, <1>9 DEF Alike
<1> HIDE DEF counted
<1>11. Alike(counted, dupped) /\ dupped.rtt_last = t.rtt_last /\ dupped.ss = counted.ss
  <2> HIDE DEF top
  <2> QED
    BY <1>9, <1>10 DEF Alike, Steady
<1> HIDE DEF dupped
<1>12. /\ Alike(counted, r) /\ r.ss = counted.ss
       /\ \/ r.rtt_last = t.rtt_last
          \/ fresh \cap tops # {} /\ r.rtt_last \in {0, Elapsed(top.time, now)}
  <2>1. CASE fresh \cap tops # {}
    <3>1. prev \in BOOLEAN
      OBVIOUS
    <3> HIDE DEF prev, top, tops, fresh, dup
    <3>2. r = rtt_ackin(counted, top, prev, now).tcb
      BY <1>1, <2>1
    <3>3. Alike(counted, r) /\ r.rtt_last \in {0, Elapsed(top.time, now)}
      BY ONLY <1>10, <3>1, <3>2, RttFieldsShape
    <3> DEFINE q == rtt_ackin(counted, top, prev, now)
    <3>4. q = rtt_ackin(counted, top, prev, now) /\ r = q.tcb
      BY <3>2
    <3> HIDE DEF q
    <3>5. q.tcb.ss = counted.ss
      <4>1. "ss" \in DOMAIN counted /\ q = rtt_ackin(counted, top, prev, now)
        BY <1>10, <3>4
      <4>2. /\ "ss" \in DOMAIN q.tcb /\ q.tcb.ss = counted.ss
            /\ q.ret = "NORMAL" => top.retrans = 0
        BY ONLY <3>1, <4>1, RttShape
      <4> QED
        BY <4>2
    <3> QED
      BY <2>1, <3>3, <3>4, <3>5
  <2>2. CASE fresh \cap tops = {}
    <3> HIDE DEF prev, top, tops, fresh, dup
    <3>1. Alike(counted, counted)
      BY DEF Alike
    <3>2. CASE tops # {} /\ dup
      <4>1. ack_in(t, twin, ack, len, win, now)
              = [tcb |-> dupped, ret |-> IF top.acked = 3 THEN "TRIPLE" ELSE "CUMUL"]
        BY <1>1, <2>2, <3>2
      <4> QED
        BY <1>11, <4>1
    <3>3. CASE ~(tops # {} /\ dup)
      <4>1. ack_in(t, twin, ack, len, win, now)
              = [tcb |-> counted, ret |-> IF fresh = {} THEN "none" ELSE "CUMUL"]
        BY <1>1, <2>2, <3>3
      <4> QED
        BY <1>9, <3>1, <4>1
    <3> QED
      BY <3>2, <3>3
  <2> QED
    BY <2>1, <2>2
<1>13. Alike(t, r)
  BY <1>3, <1>5, <1>9, <1>12, AlikeTransitive
<1>14. fresh \cap tops # {} =>
          /\ top \in covered /\ top.last + 1 = ack
          /\ \E s \in covered : s.last + 1 = ack /\ s.acked = 0
  <2> HAVE fresh \cap tops # {}
  <2>1. top \in tops
    OBVIOUS
  <2>2. PICK s \in fresh : s \in tops
    OBVIOUS
  <2> HIDE DEF top
  <2> QED
    BY <2>1, <2>2
<1> HIDE DEF fresh, tops, top
<1>15. \/ r.rtt_last = t.rtt_last
       \/ \E u \in covered :
             /\ u.last + 1 = ack /\ \E s \in covered : s.last + 1 = ack /\ s.acked = 0
             /\ r.rtt_last \in {0, Elapsed(u.time, now)}
  BY <1>12, <1>14
<1>16. PICK first : /\ behind.ss = WithSegs(S, B, first)
                    /\ \/ first = old /\ \A s \in first : s.acked # 0
                       \/ \E v \in [old -> Nat \ {0}] :
                             first = collapse_quad({[s EXCEPT !.acked = v[s]] : s \in old})
  BY <1>5
<1>17. r.ss = WithSegs(WithSegs(S, B, first), i, final)
  BY <1>9, <1>12, <1>16
<1>18. AllMarked(old, first)
  BY <1>16 DEF AllMarked
<1>19. covered = Covered(S[i].segs, ack) /\ segs = S[i].segs
  BY <1>4 DEF Covered
<1> HIDE DEF covered, segs
<1>20. SomeMarked(segs, covered, final) /\ (r.rtt_last = t.rtt_last \/ Timed(covered, ack, now, r.rtt_last))
  BY <1>7, <1>8, <1>15 DEF SomeMarked, Timed
<1> QED
  BY <1>13, <1>17, <1>18, <1>19, <1>20 DEF AckStep, old


\* One segment of a quadrant, marked or not.
LEMMA AnsweredBytes ==
    ASSUME NEW isn \in Seqnum, NEW u, NEW time, Answered(u, isn, time)
    PROVE  Bytes(u) = {isn} /\ isn = Number(isn, 0) /\ 0 \in 0..QuadSize
<1>1. isn \in Nat /\ isn < SeqSize /\ QuadSize \in Nat
  BY QuadPositive DEF Seqnum
<1>2. (isn + 0) % SeqSize = isn
  <2>1. 0 \in 0..QuadSize /\ isn + 0 = isn
    BY <1>1
  <2> QED
    BY <2>1, NumberAt DEF Number
<1> QED
  BY <1>1, <1>2 DEF Answered, Bytes, Number

\* An acknowledgement of nothing, or of the SYN alone.
LEMMA AckKeepsSyn ==
    ASSUME NEW t, "ss" \in DOMAIN t, "rtt_last" \in DOMAIN t,
           NEW isn \in Seqnum, NEW time, NEW answered \in BOOLEAN,
           SynStands(t.ss, isn, time, answered), NEW y \in {0, 1},
           NEW twin, NEW len, NEW win, NEW now,
           NEW r, r = ack_in(t, twin, Number(isn, y), len, win, now).tcb
    PROVE  /\ Alike(t, r)
           /\ SynStands(r.ss, isn, time, answered \/ y = 1)
           /\ \/ r.rtt_last = t.rtt_last
              \/ y = 1 /\ ~answered /\ r.rtt_last \in {0, Elapsed(time, now)}
<1> DEFINE ack == Number(isn, y)
           i == QUADNUM(ack)
           S == whichquad(t.ss, i)
           B == Before(i)
           old == S[B].segs
           segs == S[i].segs
           covered == Covered(segs, ack)
<1>1. i \in Index /\ ack \in Nat
  BY BeforeAck
<1>2. SynStands(S, isn, time, answered)
  <2> HIDE DEF i
  <2> QED
    BY <1>1, TurnKeepsSyn
<1>3. S \in [Index -> QuadType] /\ \A j \in Index : SegmentsInv(S[j].segs, j)
  <2> HIDE DEF S
  <2> QED
    BY <1>2, SeqspaceShape DEF SynStands
<1>4. AckStep(t, S, i, ack, now, r)
  <2>1. r = ack_in(t, twin, ack, len, win, now).tcb
    OBVIOUS
  <2> HIDE DEF ack
  <2>2. i = QUADNUM(ack) /\ S = whichquad(t.ss, i)
    OBVIOUS
  <2> HIDE DEF i, S
  <2> QED
    BY <1>1, <1>3, <2>1, <2>2, AckSteps
<1>5. /\ \A s \in old : isn \in Bytes(s) /\ y = 1
      /\ \A s \in segs : s.first < ack => isn \in Bytes(s) /\ y = 1
      /\ y = 1 => \A j \in Index : \A s \in S[j].segs :
            isn \in Bytes(s) => j = B \/ (j = i /\ s.first < ack)
  <2>1. i = QUADNUM(ack) /\ ack = Number(isn, y)
    OBVIOUS
  <2> HIDE DEF i, ack, S
  <2> QED
    BY ONLY isn \in Seqnum, y \in {0, 1}, <1>2, <2>1, BeforeAck DEF B
<1>6. B \in Index /\ B # i
  BY <1>1, IndexShape
<1> HIDE DEF ack, i, S, B
<1>7. covered \subseteq segs /\ \A s \in segs : s \in covered <=> s.first < ack
  BY DEF Covered
<1> HIDE DEF covered
<1>8. \A s \in old \cup segs : s.acked \in Nat
  BY <1>1, <1>3, <1>6 DEF QuadType, SegmentType
<1>9. PICK first, second :
         /\ r.ss = WithSegs(WithSegs(S, B, first), i, second)
         /\ AllMarked(old, first) /\ SomeMarked(segs, covered, second)
  BY <1>4 DEF AckStep, covered, B
<1>10. SegmentsInv(first, B) /\ (\A u \in first : Answered(u, isn, time)) /\ (old = {} => first = {})
  <2>1. CASE first = old /\ \A s \in old : s.acked # 0
    <3>1. \A u \in old : Answered(u, isn, time)
      BY <1>2, <1>5, <1>6, <1>8, <2>1 DEF Answered, SynStands
    <3> QED
      BY <1>3, <1>6, <2>1, <3>1
  <2>2. ASSUME NEW v \in [old -> Nat \ {0}],
               first = collapse_quad({[s EXCEPT !.acked = v[s]] : s \in old})
        PROVE  <1>10
    <3> DEFINE marked == (old \ old) \cup {[s EXCEPT !.acked = v[s]] : s \in old}
    <3>1. first = collapse_quad(marked)
      BY <2>2
    <3> DEFINE all == old
    <3>2. CanMark(S, isn, time, answered, B, all, v, marked)
      BY <1>2, <1>5, <1>6 DEF CanMark
    <3> HIDE DEF marked, all
    <3>3. /\ SegmentsInv(marked, B)
          /\ \A u \in marked : u \in old \ all \/ Answered(u, isn, time)
          /\ collapse_quad(marked) = marked
          /\ all = {} => marked = old
      BY ONLY <3>2, MarkSyn
    <3> QED
      BY <3>1, <3>3 DEF all
  <2> HIDE DEF old
  <2> QED
    BY <1>9, <2>1, <2>2 DEF AllMarked
<1>11. /\ SegmentsInv(second, i)
       /\ \A u \in second : u \in segs \ covered \/ (Answered(u, isn, time) /\ y = 1)
  <2> HIDE DEF segs
  <2>1. PICK v \in [covered -> Nat \ {0}], marked \in SUBSET SegmentType :
           /\ marked = (segs \ covered) \cup {[s EXCEPT !.acked = v[s]] : s \in covered}
           /\ second \in {marked, collapse_quad(marked)}
    BY <1>9 DEF SomeMarked
  <2>2. CanMark(S, isn, time, answered, i, covered, v, marked)
    <3>1. \A s \in covered : isn \in Bytes(s)
      BY <1>5, <1>7
    <3> QED
      BY <1>1, <1>2, <1>7, <2>1, <3>1 DEF CanMark, segs
  <2>3. /\ SegmentsInv(marked, i)
        /\ \A u \in marked : u \in segs \ covered \/ Answered(u, isn, time)
        /\ collapse_quad(marked) = marked
        /\ covered = {} => marked = segs
    BY ONLY <2>2, MarkSyn DEF segs
  <2>4. second = marked
    BY <2>1, <2>3
  <2>5. covered # {} => y = 1
    BY <1>5, <1>7
  <2> QED
    BY <2>3, <2>4, <2>5
<1>12. /\ r.ss \in [Index -> QuadType]
       /\ \A j \in Index : r.ss[j].segs = IF j = i THEN second ELSE IF j = B THEN first ELSE S[j].segs
  <2>1. first \in SUBSET SegmentType /\ second \in SUBSET SegmentType
    BY <1>10, <1>11 DEF SegmentsInv
  <2> QED
    BY <1>1, <1>3, <1>6, <1>9, <2>1 DEF WithSegs, QuadType
<1>13. SeqspaceInv(r.ss)
  <2>1. \A j \in Index : SegmentsInv(r.ss[j].segs, j)
    BY <1>3, <1>10, <1>11, <1>12
  <2> QED
    BY <1>12, <2>1, SeqspaceShape
<1> DEFINE Stands(s, a) ==
              /\ \A n \in Bytes(s) : \E z \in 0..QuadSize : n = Number(isn, z)
              /\ isn \in Bytes(s) =>
                    s.first = isn /\ s.last = isn /\ s.time = time /\ s.retrans = 0
              /\ s.acked > 0 <=> isn \in Bytes(s) /\ a
<1>14. \A j \in Index : \A s \in S[j].segs : Stands(s, answered)
  BY <1>2 DEF SynStands
<1>15. \A u : Answered(u, isn, time) /\ y = 1 => Stands(u, answered \/ y = 1)
  <2> TAKE u
  <2> HAVE Answered(u, isn, time) /\ y = 1
  <2>1. Bytes(u) = {isn} /\ isn = Number(isn, 0) /\ 0 \in 0..QuadSize
    BY AnsweredBytes
  <2> QED
    BY <2>1 DEF Answered
<1>16. ASSUME NEW j \in Index, NEW s \in S[j].segs, j # B, j = i => s \notin covered
       PROVE  Stands(s, answered \/ y = 1)
  <2>1. Stands(s, answered)
    BY <1>14
  <2>2. y = 1 => isn \notin Bytes(s)
    BY <1>5, <1>7, <1>16
  <2> HIDE DEF segs
  <2> QED
    BY <2>1, <2>2
<1> HIDE DEF Stands
<1>17. \A j \in Index : \A s \in r.ss[j].segs : Stands(s, answered \/ y = 1)
  <2> TAKE j \in Index
  <2> TAKE s \in r.ss[j].segs
  <2>1. CASE j = i
    BY <1>6, <1>11, <1>12, <1>15, <1>16, <2>1
  <2>2. CASE j = B
    BY <1>5, <1>6, <1>10, <1>12, <1>15, <2>2
  <2>3. CASE j # i /\ j # B
    BY <1>12, <1>16, <2>3
  <2> QED
    BY <2>1, <2>2, <2>3
<1>18. SynStands(r.ss, isn, time, answered \/ y = 1)
  BY <1>13, <1>17 DEF SynStands, Stands
<1>19. Timed(covered, ack, now, r.rtt_last) =>
          y = 1 /\ ~answered /\ r.rtt_last \in {0, Elapsed(time, now)}
  <2> HAVE Timed(covered, ack, now, r.rtt_last)
  <2>1. PICK top \in covered :
           /\ \E s \in covered : s.acked = 0
           /\ r.rtt_last \in {0, Elapsed(top.time, now)}
    BY DEF Timed
  <2>2. PICK s \in covered : s.acked = 0
    BY <2>1
  <2>3. y = 1 /\ isn \in Bytes(s) /\ isn \in Bytes(top) /\ top \in segs /\ s \in segs
    BY <1>5, <1>7, <2>1, <2>2
  <2>4. Stands(s, answered) /\ Stands(top, answered)
    BY <1>1, <1>14, <2>3
  <2> QED
    BY <2>1, <2>2, <2>3, <2>4 DEF Stands
<1>20. Alike(t, r) /\ (r.rtt_last = t.rtt_last \/ Timed(covered, ack, now, r.rtt_last))
  BY <1>4 DEF AckStep, covered
<1> QED
  BY <1>18, <1>19, <1>20
-----------------------------------------------------------------------------
(* Conversations: the stages of dotrace, and the fields they change.       *)

Fields == Steady \cup {"ss", "rtt_last"}

\* A record of a stage, as far as the proofs look at it.
Stage(d) ==
    /\ {"me", "peer", "win", "rexlen", "probe", "rows"} \subseteq DOMAIN d
    /\ Fields \subseteq DOMAIN d.me /\ Fields \subseteq DOMAIN d.peer

\* Nothing but the fields in changed differs.
Like(t, u, changed) ==
    Fields \subseteq DOMAIN u /\ \A f \in Fields \ changed : u[f] = t[f]

LEMMA MetaShape ==
    ASSUME NEW d, Stage(d), NEW p, NEW now, NEW m, m = Meta(d, p, now)
    PROVE  /\ Stage(m) /\ m.win = eff_win(d, p) /\ m.peer = d.peer
           /\ Like(d.me, m.me, {"syn_count"})
           /\ m.me.syn_count = IF p.syn THEN Bump(d.me.syn_count) ELSE d.me.syn_count
<1>1. /\ m.win = eff_win(d, p) /\ m.peer = d.peer /\ DOMAIN m = DOMAIN d
      /\ DOMAIN m.me = DOMAIN d.me
  BY DEF Meta, Stage
<1>2. m.me.syn_count = IF p.syn THEN Bump(d.me.syn_count) ELSE d.me.syn_count
  BY DEF Meta, Stage, Fields, Steady
<1>3. \A f \in Fields \ {"syn_count"} : m.me[f] = d.me[f]
  <2>1. /\ m.me.syn = d.me.syn /\ m.me.rtt_3WHS = d.me.rtt_3WHS /\ m.me.win_tot = d.me.win_tot
    BY ZenonT(60) DEF Meta, Stage, Fields, Steady
  <2>2. /\ m.me.win_max = d.me.win_max /\ m.me.scaled = d.me.scaled /\ m.me.win_scaled_pkts = d.me.win_scaled_pkts
    BY ZenonT(60) DEF Meta, Stage, Fields, Steady
  <2>3. /\ m.me.packets = d.me.packets /\ m.me.window_scale = d.me.window_scale /\ m.me.ss = d.me.ss
        /\ m.me.rtt_last = d.me.rtt_last
    BY ZenonT(60) DEF Meta, Stage, Fields, Steady
  <2> QED
    BY ONLY <2>1, <2>2, <2>3 DEF Fields, Steady
<1> QED
  BY <1>1, <1>2, <1>3 DEF Stage, Like


LEMMA WrapsShape ==
    ASSUME NEW d, Stage(d), NEW p, NEW m, m = Wraps(d, p)
    PROVE  Stage(m) /\ m.win = d.win /\ m.peer = d.peer /\ Like(d.me, m.me, {})
<1>1. /\ m.win = d.win /\ m.peer = d.peer /\ DOMAIN m = DOMAIN d /\ DOMAIN m.me = DOMAIN d.me
  BY DEF Wraps, Stage
<1>2. \A f \in Fields : m.me[f] = d.me[f]
  BY DEF Wraps, Stage, Fields, Steady
<1> QED
  BY <1>1, <1>2 DEF Stage, Like

LEMMA LimitsShape ==
    ASSUME NEW d, Stage(d), NEW p, NEW m, m = SequenceLimits(d, p)
    PROVE  /\ Stage(m) /\ m.win = d.win /\ Like(d.peer, m.peer, {})
           /\ Like(d.me, m.me, {"syn"}) /\ m.me.syn = IF p.syn THEN start(p) ELSE d.me.syn
<1>1. /\ m.win = d.win /\ DOMAIN m = DOMAIN d /\ DOMAIN m.me = DOMAIN d.me
      /\ DOMAIN m.peer = DOMAIN d.peer
  BY DEF SequenceLimits, Stage
<1>2. \A f \in Fields : m.peer[f] = d.peer[f]
  BY DEF SequenceLimits, Stage, Fields, Steady
<1>3. \A f \in Fields \ {"syn"} : m.me[f] = d.me[f]
  BY ZenonT(60) DEF SequenceLimits, Stage, Fields, Steady
<1>4. m.me.syn = IF p.syn THEN start(p) ELSE d.me.syn
  BY DEF SequenceLimits, Stage, Fields, Steady
<1> QED
  BY <1>1, <1>2, <1>3, <1>4 DEF Stage, Like

LEMMA OptionsShape ==
    ASSUME NEW d, Stage(d), NEW p, NEW m, m = Options(d, p)
    PROVE  /\ Stage(m) /\ m.win = d.win
           /\ Like(d.peer, m.peer, {"window_scale"}) /\ Like(d.me, m.me, {"window_scale"})
           /\ m.me.window_scale \in {d.me.window_scale, p.ws, 0}
           /\ p.ws = None => m.me.window_scale \in {d.me.window_scale, 0}
           /\ m.peer.window_scale \in {d.peer.window_scale, 0}
<1> DEFINE me == [d.me EXCEPT !.window_scale = IF p.ws # None THEN p.ws ELSE @,
                              !.f1323_ws = @ \/ p.ws # None,
                              !.fsack_req = @ \/ p.sackok,
                              !.sacks_sent = @ + If(Len(p.sacks) > 0, 1)]
           unscaled == ~p.syn /\ ~(me.f1323_ws /\ d.peer.f1323_ws)
           sack == ~p.syn /\ me.fsack_req /\ d.peer.fsack_req
           me2 == [me EXCEPT !.window_scale = IF unscaled THEN 0 ELSE @,
                             !.tcp_strain = IF sack THEN "SACK" ELSE @]
<1>1. m = [d EXCEPT !.me = me2,
                    !.peer.window_scale = IF unscaled THEN 0 ELSE @,
                    !.peer.tcp_strain = IF sack THEN "SACK" ELSE @]
  BY DEF Options
<1>2. /\ DOMAIN me = DOMAIN d.me /\ \A f \in Fields \ {"window_scale"} : me[f] = d.me[f]
      /\ me.window_scale \in {d.me.window_scale, p.ws}
      /\ p.ws = None => me.window_scale = d.me.window_scale
  BY DEF Stage, Fields, Steady
<1> HIDE DEF me
<1>3. /\ DOMAIN me2 = DOMAIN d.me /\ \A f \in Fields \ {"window_scale"} : me2[f] = d.me[f]
      /\ me2.window_scale \in {d.me.window_scale, p.ws, 0}
      /\ p.ws = None => me2.window_scale \in {d.me.window_scale, 0}
  <2> HIDE DEF unscaled, sack
  <2> QED
    BY <1>2 DEF Stage, Fields, Steady
<1> HIDE DEF me2, unscaled, sack
<1> DEFINE half == [d EXCEPT !.me = me2]
           scale == IF unscaled THEN 0 ELSE d.peer.window_scale
           strain == IF sack THEN "SACK" ELSE d.peer.tcp_strain
           peer2 == [d.peer EXCEPT !.window_scale = scale, !.tcp_strain = strain]
<1>4. half.win = d.win /\ half.me = me2 /\ half.peer = d.peer /\ DOMAIN half = DOMAIN d
  BY DEF Stage
<1>5. m = [half EXCEPT !.peer.window_scale = scale, !.peer.tcp_strain = strain]
  BY <1>1, <1>4
<1> HIDE DEF half
<1>6. m.win = d.win /\ m.me = me2 /\ DOMAIN m = DOMAIN d /\ m.peer = peer2
  <2> HIDE DEF scale, strain
  <2> QED
    BY <1>4, <1>5 DEF Stage
<1>7. /\ DOMAIN peer2 = DOMAIN d.peer /\ \A f \in Fields \ {"window_scale"} : peer2[f] = d.peer[f]
      /\ peer2.window_scale = scale
  <2> HIDE DEF scale, strain
  <2> QED
    BY DEF Stage, Fields, Steady
<1>8. scale \in {d.peer.window_scale, 0}
  OBVIOUS
<1> HIDE DEF peer2, scale
<1> QED
  BY <1>3, <1>6, <1>7, <1>8 DEF Stage, Like

LEMMA LikeTransitive ==
    ASSUME NEW t, NEW u, NEW w, NEW C, NEW D, Like(t, u, C), Like(u, w, D)
    PROVE  Like(t, w, C \cup D)
  BY DEF Like

LEMMA LikeLess ==
    ASSUME NEW t, NEW u, NEW C, NEW D, C \subseteq D, Like(t, u, C)
    PROVE  Like(t, u, D)
  BY DEF Like

\* The header: the SYN and the scale of windows.
LEMMA HeaderShape ==
    ASSUME NEW d, Stage(d), NEW p, NEW now, NEW h, h = Header(d, p, now)
    PROVE  /\ Stage(h) /\ h.win = eff_win(d, p)
           /\ Like(d.me, h.me, {"syn", "syn_count", "window_scale"})
           /\ Like(d.peer, h.peer, {"window_scale"})
           /\ h.me.syn = IF p.syn THEN start(p) ELSE d.me.syn
           /\ h.me.syn_count = IF p.syn THEN Bump(d.me.syn_count) ELSE d.me.syn_count
           /\ h.me.window_scale \in {d.me.window_scale, p.ws, 0}
           /\ p.ws = None => h.me.window_scale \in {d.me.window_scale, 0}
           /\ h.peer.window_scale \in {d.peer.window_scale, 0}
<1> DEFINE a == Meta(d, p, now)
           b == Wraps(a, p)
           c == SequenceLimits(b, p)
<1>1. /\ Stage(a) /\ a.win = eff_win(d, p) /\ a.peer = d.peer
      /\ Like(d.me, a.me, {"syn_count"})
      /\ a.me.syn_count = IF p.syn THEN Bump(d.me.syn_count) ELSE d.me.syn_count
  BY MetaShape
<1>2. h = Options(c, p)
  BY DEF Header
<1> HIDE DEF a
<1>3. Stage(b) /\ b.win = a.win /\ b.peer = a.peer /\ Like(a.me, b.me, {})
  BY <1>1, WrapsShape
<1> HIDE DEF b
<1>4. /\ Stage(c) /\ c.win = b.win /\ Like(b.peer, c.peer, {})
      /\ Like(b.me, c.me, {"syn"}) /\ c.me.syn = IF p.syn THEN start(p) ELSE b.me.syn
  BY <1>3, LimitsShape
<1> HIDE DEF c
<1>5. /\ Stage(h) /\ h.win = c.win
      /\ Like(c.peer, h.peer, {"window_scale"}) /\ Like(c.me, h.me, {"window_scale"})
      /\ h.me.window_scale \in {c.me.window_scale, p.ws, 0}
      /\ p.ws = None => h.me.window_scale \in {c.me.window_scale, 0}
      /\ h.peer.window_scale \in {c.peer.window_scale, 0}
  BY <1>2, <1>4, OptionsShape
<1>6. Like(d.me, h.me, {"syn", "syn_count", "window_scale"})
  BY <1>1, <1>3, <1>4, <1>5 DEF Like
<1>7. Like(d.peer, h.peer, {"window_scale"})
  BY <1>1, <1>3, <1>4, <1>5 DEF Like
<1>8. /\ c.me.window_scale = d.me.window_scale /\ c.peer.window_scale = d.peer.window_scale
      /\ h.me.syn = c.me.syn /\ b.me.syn = d.me.syn /\ h.me.syn_count = a.me.syn_count
  BY <1>1, <1>3, <1>4, <1>5 DEF Like, Fields, Steady
<1> QED
  BY <1>1, <1>3, <1>4, <1>5, <1>6, <1>7, <1>8

LEMMA ThruShape ==
    ASSUME NEW d, Stage(d), NEW len, NEW now, NEW m, m = DoThru(d, len, now)
    PROVE  Stage(m) /\ m.win = d.win /\ m.peer = d.peer /\ Like(d.me, m.me, {})
<1> DEFINE th == d.me.thru
           new == [NewThru EXCEPT !.begun = TRUE, !.bytes = len,
                     !.bin = now \div Second, !.bin_bytes = len, !.first = now]
           next == Stat(Bin(th, now, len), now, len)
           bin == IF now \div Second >= th.bin + 1 THEN th.bin_bytes ELSE None
<1>1. m = IF ~th.begun THEN [d EXCEPT !.me.thru = new]
          ELSE [d EXCEPT !.me.thru = next, !.bin = bin]
  BY DEF DoThru
<1> HIDE DEF th, new, next, bin
<1>2. /\ m.win = d.win /\ m.peer = d.peer /\ DOMAIN m = DOMAIN d /\ DOMAIN m.me = DOMAIN d.me
  BY <1>1 DEF Stage
<1>3. \A f \in Fields : m.me[f] = d.me[f]
  BY <1>1 DEF Stage, Fields, Steady
<1> QED
  BY <1>2, <1>3 DEF Stage, Like

LEMMA DataStatsShape ==
    ASSUME NEW d, Stage(d), NEW p, NEW now, NEW m, m = DataStats(d, p, now)
    PROVE  /\ Stage(m) /\ m.win = d.win /\ m.peer = d.peer
           /\ Like(d.me, m.me, {"packets", "win_scaled_pkts"})
           /\ m.me.packets = d.me.packets + 1
           /\ m.me.win_scaled_pkts = d.me.win_scaled_pkts + If(d.me.scaled, 1)
<1> DEFINE data == p.len > 0
           c == [d EXCEPT
            !.me.data_pkts = @ + If(data, 1), !.me.data_bytes = @ + p.len,
            !.me.max_seg_size = Max({@, p.len}),
            !.me.min_seg_size = IF data /\ (@ = 0 \/ p.len < @) THEN p.len ELSE @,
            !.me.packets = @ + 1,
            !.me.win_scaled_pkts = @ + If(d.me.scaled, 1)]
<1>1. m = DoThru(c, p.len, now)
  BY DEF DataStats
<1> HIDE DEF data
<1>2. /\ c.win = d.win /\ c.peer = d.peer /\ DOMAIN c = DOMAIN d /\ DOMAIN c.me = DOMAIN d.me
  BY DEF Stage
<1>3. \A f \in Fields \ {"packets", "win_scaled_pkts"} : c.me[f] = d.me[f]
  <2>1. /\ c.me.syn = d.me.syn /\ c.me.syn_count = d.me.syn_count /\ c.me.rtt_3WHS = d.me.rtt_3WHS
    BY DEF Stage, Fields, Steady
  <2>2. /\ c.me.win_tot = d.me.win_tot /\ c.me.win_max = d.me.win_max /\ c.me.scaled = d.me.scaled
    BY DEF Stage, Fields, Steady
  <2>3. /\ c.me.window_scale = d.me.window_scale /\ c.me.ss = d.me.ss /\ c.me.rtt_last = d.me.rtt_last
    BY ZenonT(60) DEF Stage, Fields, Steady
  <2> QED
    BY ONLY <2>1, <2>2, <2>3 DEF Fields, Steady
<1>4. /\ c.me.packets = d.me.packets + 1
      /\ c.me.win_scaled_pkts = d.me.win_scaled_pkts + If(d.me.scaled, 1)
  BY DEF Stage, Fields, Steady
<1> HIDE DEF c
<1>5. Stage(c)
  BY <1>2 DEF Stage
<1>6. Stage(m) /\ m.win = c.win /\ m.peer = c.peer /\ Like(c.me, m.me, {})
  BY <1>1, <1>5, ThruShape
<1>7. "packets" \in Fields /\ "win_scaled_pkts" \in Fields
  BY DEF Fields, Steady
<1> QED
  BY <1>2, <1>3, <1>4, <1>6, <1>7 DEF Like

LEMMA DupsShape ==
    ASSUME NEW d, Stage(d), NEW p, NEW m, m = check_hw_dups(d, p)
    PROVE  Stage(m) /\ m.win = d.win /\ m.peer = d.peer /\ Like(d.me, m.me, {})
<1> DEFINE entry == <<p.seq, p.id>>
           dup == p.seq # 0 /\ p.id # 0 /\ entry \in {d.me.dups[k] : k \in DOMAIN d.me.dups}
           longer == Append(d.me.dups, entry)
           dups == IF dup THEN d.me.dups
                   ELSE IF Len(longer) > Remembered THEN Tail(longer) ELSE longer
           half == [d EXCEPT !.hw_dup = dup]
           number == d.me.num_hardware_dups + If(dup, 1)
<1>0. half.win = d.win /\ half.me = d.me /\ half.peer = d.peer /\ DOMAIN half = DOMAIN d
  BY DEF Stage
<1>1. m = [half EXCEPT !.me.num_hardware_dups = number, !.me.dups = dups]
  BY DEF check_hw_dups, Stage
<1> HIDE DEF half, dups, number
<1> DEFINE me == [d.me EXCEPT !.num_hardware_dups = number, !.dups = dups]
<1>2. m.win = d.win /\ m.peer = d.peer /\ DOMAIN m = DOMAIN d /\ m.me = me
  BY <1>0, <1>1 DEF Stage
<1>3. DOMAIN me = DOMAIN d.me /\ \A f \in Fields : me[f] = d.me[f]
  BY DEF Stage, Fields, Steady
<1> HIDE DEF me
<1> QED
  BY <1>2, <1>3 DEF Stage, Like

LEMMA SequenceStatsShape ==
    ASSUME NEW d, Stage(d), NEW p, NEW m, m = SequenceStats(d, p)
    PROVE  Stage(m) /\ m.win = d.win /\ m.peer = d.peer /\ Like(d.me, m.me, {})
<1>1. /\ m.win = d.win /\ m.peer = d.peer /\ DOMAIN m = DOMAIN d /\ DOMAIN m.me = DOMAIN d.me
  BY DEF SequenceStats, Stage
<1>2. \A f \in Fields : m.me[f] = d.me[f]
  BY ZenonT(60) DEF SequenceStats, Stage, Fields, Steady
<1> QED
  BY <1>1, <1>2 DEF Stage, Like

LEMMA AddsegFields ==
    ASSUME NEW t, Fields \subseteq DOMAIN t, NEW i, NEW a, NEW b, NEW now,
           NEW r, r = addseg(t, i, a, b, now).tcb
    PROVE  Like(t, r, {"ss"})
<1> DEFINE segs == t.ss[i].segs
           touched == {s \in segs : s.last >= a /\ s.first <= b}
           again == {[s EXCEPT !.retrans = (@ + 1) % CountLimit] : s \in touched}
           lowest == CHOOSE s \in again : \A u \in again : s.first <= u.first
           timed == IF again = {} THEN {}
                    ELSE (again \ {lowest}) \cup {[lowest EXCEPT !.time = now]}
           etime == Elapsed(lowest.time, now)
           counted == [t EXCEPT !.retr_max = Max({@, lowest.retrans}),
                                !.retr_max_tm = Max({@, etime}),
                                !.retr_min_tm = IF @ = 0 \/ etime < @ THEN etime ELSE @,
                                !.retr_tm_count = @ + 1]
           base == IF again = {} THEN t ELSE rtt_retrans(t, lowest, now)
<1>1. r = [base EXCEPT !.ss[i].segs = (@ \ touched) \cup timed \cup Pieces(segs, a, b, now)]
  BY DEF addseg
<1>2. base \in {t, counted}
  <2> HIDE DEF again, lowest
  <2> QED
    BY DEF rtt_retrans
<1>3. DOMAIN counted = DOMAIN t /\ \A f \in Fields : counted[f] = t[f]
  <2> HIDE DEF etime, lowest
  <2> QED
    BY DEF Fields, Steady
<1> HIDE DEF counted, base, timed, touched, segs
<1>4. DOMAIN base = DOMAIN t /\ \A f \in Fields : base[f] = t[f]
  BY <1>2, <1>3
<1>5. DOMAIN r = DOMAIN base /\ \A f \in Fields \ {"ss"} : r[f] = base[f]
  <2> DEFINE new == [base.ss EXCEPT ![i].segs = (@ \ touched) \cup timed \cup Pieces(segs, a, b, now)]
  <2>1. r = [base EXCEPT !.ss = new]
    BY <1>1
  <2> HIDE DEF new
  <2> QED
    BY <1>4, <2>1 DEF Fields, Steady
<1> QED
  BY <1>4, <1>5 DEF Like

LEMMA RexmitFields ==
    ASSUME NEW t, Fields \subseteq DOMAIN t, NEW seq, NEW len, NEW now,
           NEW r, r = rexmit(t, seq, len, now).tcb
    PROVE  Like(t, r, {"ss"})
<1> DEFINE i == QUADNUM(seq)
           last == (seq + len - 1) % SeqSize
           ready == [t EXCEPT !.ss = whichquad(@, i)]
           head == addseg(ready, i, seq, LAST_SEQ(i), now)
           front == head.tcb
           tail == addseg(front, After(i), QuadSize * After(i), last, now)
           back == tail.tcb
           whole == addseg(ready, i, seq, last, now)
           all == whole.tcb
<1>1. r = IF QUADNUM(last) = i THEN all ELSE back
  BY DEF rexmit
<1>2. Like(t, ready, {"ss"})
  BY DEF Like, Fields, Steady
<1> HIDE DEF ready
<1>3. Fields \subseteq DOMAIN ready
  BY <1>2 DEF Like
<1>4. Like(ready, all, {"ss"})
  <2>1. all = addseg(ready, i, seq, last, now).tcb
    OBVIOUS
  <2> HIDE DEF all, whole, i, last
  <2> QED
    BY <1>3, <2>1, AddsegFields
<1>5. Like(ready, front, {"ss"})
  <2> DEFINE top == LAST_SEQ(i)
  <2>1. front = addseg(ready, i, seq, top, now).tcb
    OBVIOUS
  <2> HIDE DEF front, head, i, top
  <2> QED
    BY <1>3, <2>1, AddsegFields
<1> HIDE DEF front, head
<1>6. Like(front, back, {"ss"})
  <2> DEFINE j == After(i)
             first == QuadSize * j
  <2>1. back = addseg(front, j, first, last, now).tcb
    OBVIOUS
  <2>2. Fields \subseteq DOMAIN front
    BY <1>5 DEF Like
  <2> HIDE DEF back, tail, i, last, j, first
  <2> QED
    BY <2>1, <2>2, AddsegFields
<1> HIDE DEF all, whole, back, tail
<1> QED
  BY <1>1, <1>2, <1>4, <1>5, <1>6 DEF Like

Size(p) == p.len + If(p.syn, 1) + If(p.fin, 1)

\* Either a packet is not recorded, or rexmit is asked; a SYN is no probe.
LEMMA RetransmissionsShape ==
    ASSUME NEW d, Stage(d), NEW p, p.len \in Nat, NEW now,
           NEW m, m = Retransmissions(d, p, now)
    PROVE  /\ Stage(m) /\ m.win = d.win /\ m.peer = d.peer
           /\ \/ ~p.syn /\ Like(d.me, m.me, {})
              \/ /\ Size(p) > 0
                 /\ Like(rexmit(d.me, start(p), Size(p), now).tcb, m.me, {})
<1> DEFINE len == p.len + If(p.syn, 1) + If(p.fin, 1)
           probe == d.peer.win_last = 0 /\ d.peer.packets > 0 /\ ~p.syn
           r == rexmit(d.me, start(p), len, now)
           more == unique(d, p, r.rexlen)
           probed == [d EXCEPT !.probe = TRUE, !.me.num_zwnd_probes = @ + 1,
                               !.me.zwnd_probe_bytes = @ + p.len]
           recorded == Recording(d, p, r)
<1>0. len = Size(p) /\ len \in Nat /\ (p.syn => len > 0)
  BY DEF Size, If
<1>1. m = CASE len = 0 -> d
            [] len > 0 /\ probe -> probed
            [] OTHER -> recorded
  BY DEF Retransmissions
<1>2. Stage(probed) /\ probed.win = d.win /\ probed.peer = d.peer /\ Like(d.me, probed.me, {})
  <2> DEFINE half == [d EXCEPT !.probe = TRUE]
             me == [d.me EXCEPT !.num_zwnd_probes = @ + 1, !.zwnd_probe_bytes = @ + p.len]
  <2>1. half.win = d.win /\ half.me = d.me /\ half.peer = d.peer /\ DOMAIN half = DOMAIN d
    BY DEF Stage
  <2>2. probed = [half EXCEPT !.me.num_zwnd_probes = @ + 1, !.me.zwnd_probe_bytes = @ + p.len]
    BY <2>1
  <2> HIDE DEF half, probed
  <2>3. probed.win = d.win /\ probed.peer = d.peer /\ DOMAIN probed = DOMAIN d /\ probed.me = me
    BY <2>1, <2>2 DEF Stage
  <2>4. DOMAIN me = DOMAIN d.me /\ \A f \in Fields : me[f] = d.me[f]
    BY DEF Stage, Fields, Steady
  <2> HIDE DEF me
  <2> QED
    BY <2>3, <2>4 DEF Stage, Like
<1>3. Like(d.me, r.tcb, {"ss"})
  <2> DEFINE all == r.tcb
             seq == start(p)
  <2>1. Fields \subseteq DOMAIN d.me /\ all = rexmit(d.me, seq, len, now).tcb
    BY DEF Stage
  <2> HIDE DEF all, len, seq
  <2>2. Like(d.me, all, {"ss"})
    BY <2>1, RexmitFields
  <2> QED
    BY <2>2 DEF all
<1> DEFINE all == r.tcb
           late == r.out_order
           long == r.rexlen
<1>4. recorded = [d EXCEPT !.rexlen = long, !.out_order = late,
                    !.me = [all EXCEPT !.out_order_pkts = @ + If(late, 1), !.unique_bytes = @ + more]]
  BY DEF Recording
<1> DEFINE me == [all EXCEPT !.out_order_pkts = @ + If(late, 1), !.unique_bytes = @ + more]
<1>5. Fields \subseteq DOMAIN all /\ all = rexmit(d.me, start(p), len, now).tcb
  BY <1>3 DEF Like
<1> HIDE DEF r, more, all, late, long, recorded, probed
<1>6. DOMAIN me = DOMAIN all /\ \A f \in Fields : me[f] = all[f]
  BY <1>5 DEF Fields, Steady
<1> HIDE DEF me
<1>7. /\ recorded.win = d.win /\ recorded.peer = d.peer /\ DOMAIN recorded = DOMAIN d
      /\ recorded.me = me
  BY <1>4 DEF Stage, me
<1>8. Stage(recorded) /\ Like(all, recorded.me, {})
  BY <1>5, <1>6, <1>7 DEF Stage, Like
<1> HIDE DEF len, probe
<1>9. Like(d.me, d.me, {})
  BY DEF Stage, Like
<1>10. CASE len = 0
  BY <1>0, <1>1, <1>9, <1>10
<1>11. CASE len > 0 /\ probe
  BY <1>0, <1>1, <1>2, <1>11 DEF probe
<1>12. CASE len > 0 /\ ~probe
  <2>1. m = recorded
    BY <1>0, <1>1, <1>12
  <2> QED
    BY <1>0, <1>5, <1>7, <1>8, <1>12, <2>1
<1> QED
  BY <1>0, <1>10, <1>11, <1>12

\* The data: one packet more, and what rexmit made of it.
LEMMA PayloadShape ==
    ASSUME NEW d, Stage(d), NEW p, p.len \in Nat, NEW now, NEW m, m = Payload(d, p, now)
    PROVE  /\ Stage(m) /\ m.win = d.win /\ m.peer = d.peer
           /\ Like(d.me, m.me, {"ss", "packets", "win_scaled_pkts"})
           /\ m.me.packets = d.me.packets + 1
           /\ m.me.win_scaled_pkts = d.me.win_scaled_pkts + If(d.me.scaled, 1)
           /\ \/ ~p.syn /\ m.me.ss = d.me.ss
              \/ /\ Size(p) > 0
                 /\ \E t : /\ "ss" \in DOMAIN t /\ t.ss = d.me.ss
                           /\ m.me.ss = rexmit(t, p.seq, Size(p), now).tcb.ss
<1> DEFINE a == DataStats(d, p, now)
           b == check_hw_dups(a, p)
           c == SequenceStats(b, p)
<1>1. /\ Stage(a) /\ a.win = d.win /\ a.peer = d.peer
      /\ Like(d.me, a.me, {"packets", "win_scaled_pkts"})
      /\ a.me.packets = d.me.packets + 1
      /\ a.me.win_scaled_pkts = d.me.win_scaled_pkts + If(d.me.scaled, 1)
  BY DataStatsShape
<1>2. m = Retransmissions(c, p, now)
  BY DEF Payload
<1> HIDE DEF a
<1>3. Stage(b) /\ b.win = a.win /\ b.peer = a.peer /\ Like(a.me, b.me, {})
  BY <1>1, DupsShape
<1> HIDE DEF b
<1>4. Stage(c) /\ c.win = b.win /\ c.peer = b.peer /\ Like(b.me, c.me, {})
  BY <1>3, SequenceStatsShape
<1> HIDE DEF c
<1>5. /\ Stage(m) /\ m.win = c.win /\ m.peer = c.peer
      /\ \/ ~p.syn /\ Like(c.me, m.me, {})
         \/ /\ Size(p) > 0
            /\ Like(rexmit(c.me, start(p), Size(p), now).tcb, m.me, {})
  BY <1>2, <1>4, RetransmissionsShape
<1>6. {"ss", "packets", "win_scaled_pkts", "scaled"} \subseteq Fields
  BY DEF Fields, Steady
<1>7. Like(c.me, rexmit(c.me, start(p), Size(p), now).tcb, {"ss"})
  <2> DEFINE t == c.me
             seq == start(p)
             len == Size(p)
             r == rexmit(t, seq, len, now).tcb
  <2>1. Fields \subseteq DOMAIN t
    BY <1>4 DEF Stage
  <2> HIDE DEF t, seq, len
  <2>2. r = rexmit(t, seq, len, now).tcb
    OBVIOUS
  <2> HIDE DEF r
  <2>3. Like(t, r, {"ss"})
    BY <2>1, <2>2, RexmitFields
  <2> QED
    BY <2>3 DEF t, seq, len, r
<1>8. Like(d.me, m.me, {"ss", "packets", "win_scaled_pkts"})
  BY <1>1, <1>3, <1>4, <1>5, <1>7 DEF Like
<1>9. /\ m.me.packets = d.me.packets + 1
      /\ m.me.win_scaled_pkts = d.me.win_scaled_pkts + If(d.me.scaled, 1)
  BY <1>1, <1>3, <1>4, <1>5, <1>6, <1>7 DEF Like
<1>10. \/ ~p.syn /\ m.me.ss = d.me.ss
       \/ /\ Size(p) > 0
          /\ \E t : /\ "ss" \in DOMAIN t /\ t.ss = d.me.ss
                    /\ m.me.ss = rexmit(t, p.seq, Size(p), now).tcb.ss
  <2>1. c.me.ss = d.me.ss /\ "ss" \in DOMAIN c.me
    BY <1>1, <1>3, <1>4, <1>6 DEF Like
  <2>2. CASE ~p.syn /\ Like(c.me, m.me, {})
    BY <1>6, <2>1, <2>2 DEF Like
  <2>3. CASE Size(p) > 0 /\ Like(rexmit(c.me, start(p), Size(p), now).tcb, m.me, {})
    <3>1. m.me.ss = rexmit(c.me, p.seq, Size(p), now).tcb.ss
      BY <1>6, <2>3 DEF Like, start
    <3> QED
      BY <2>1, <2>3, <3>1
  <2> QED
    BY <1>5, <2>2, <2>3
<1> QED
  BY <1>1, <1>3, <1>4, <1>5, <1>8, <1>9, <1>10

LEMMA AckFields ==
    ASSUME NEW t, Fields \subseteq DOMAIN t, NEW twin, NEW ack, NEW len, NEW win, NEW now,
           NEW r, r = ack_in(t, twin, ack, len, win, now).tcb
    PROVE  Like(t, r, {"ss", "rtt_last"})
<1> DEFINE i == QUADNUM(ack)
           ready == [t EXCEPT !.ss = whichquad(@, i)]
           behind == AckBehind(ready, i)
           segs == ready.ss[i].segs
           covered == {s \in segs : s.first < ack}
           fresh == {s \in covered : s.acked = 0}
           tops == {s \in covered : s.last + 1 = ack}
           dup == IsDuplicate(t, twin, ack, len, win)
           Times(s) == IF s.acked = 0 THEN 1
                       ELSE IF s \in tops /\ dup THEN s.acked + 1 ELSE 1
           marked == (segs \ covered) \cup {[s EXCEPT !.acked = Times(s)] : s \in covered}
           final == IF fresh = {} THEN marked ELSE collapse_quad(marked)
           top == CHOOSE s \in tops : TRUE
           counted == [behind EXCEPT !.ss[i].segs = final,
                                     !.rtt_cumack = @ + Cardinality(fresh \ tops)]
           dupped == [counted EXCEPT !.rtt_dupack = @ + 1,
                         !.rtt_triple_dupack = @ + (IF top.acked = 3 THEN 1 ELSE 0)]
           earlier == {u.time : u \in {v \in ready.ss[Before(i)].segs : v.acked = 0} \cup covered}
           prev == \E y \in earlier : y > top.time
           young == {s \in ready.ss[Before(i)].segs : s.acked = 0}
           once == {[s EXCEPT !.acked = IF @ = 0 THEN 1 ELSE @] : s \in ready.ss[Before(i)].segs}
           cumulated == [ready EXCEPT !.ss[Before(i)].segs = collapse_quad(once),
                                      !.rtt_cumack = @ + Cardinality(young)]
           timed == rtt_ackin(counted, top, prev, now)
           sampled == timed.tcb
<1>1. ack_in(t, twin, ack, len, win, now)
         = CASE fresh \cap tops # {} -> timed
             [] fresh \cap tops = {} /\ tops # {} /\ dup ->
                  [tcb |-> dupped, ret |-> IF top.acked = 3 THEN "TRIPLE" ELSE "CUMUL"]
             [] OTHER -> [tcb |-> counted, ret |-> IF fresh = {} THEN "none" ELSE "CUMUL"]
  BY DEF ack_in
<1>2. behind = IF young = {} THEN ready ELSE cumulated
  BY DEF AckBehind
<1>3. Like(t, ready, {"ss"})
  BY DEF Like, Fields, Steady
<1>4. sampled = rtt_ackin(counted, top, prev, now).tcb /\ prev \in BOOLEAN
  OBVIOUS
<1> HIDE DEF ready, prev, earlier, Times, segs
<1>5. DOMAIN cumulated = DOMAIN ready /\ \A f \in Fields \ {"ss"} : cumulated[f] = ready[f]
  <2> DEFINE ss == [ready.ss EXCEPT ![Before(i)].segs = collapse_quad(once)]
             cumack == ready.rtt_cumack + Cardinality(young)
  <2>1. cumulated = [ready EXCEPT !.ss = ss, !.rtt_cumack = cumack]
    BY <1>3 DEF Like, Fields, Steady
  <2> HIDE DEF ss, cumack, cumulated
  <2> QED
    BY <1>3, <2>1 DEF Like, Fields, Steady
<1> HIDE DEF cumulated, young, once
<1>6. Like(t, behind, {"ss"})
  BY <1>2, <1>3, <1>5 DEF Like
<1> HIDE DEF behind, marked, final, top, fresh, tops, covered, dup
<1>7. DOMAIN counted = DOMAIN behind /\ \A f \in Fields \ {"ss"} : counted[f] = behind[f]
  <2> DEFINE ss == [behind.ss EXCEPT ![i].segs = final]
             cumack == behind.rtt_cumack + Cardinality(fresh \ tops)
  <2>1. counted = [behind EXCEPT !.ss = ss, !.rtt_cumack = cumack]
    BY <1>6 DEF Like, Fields, Steady
  <2> HIDE DEF ss, cumack, counted
  <2> QED
    BY <1>6, <2>1 DEF Like, Fields, Steady
<1> HIDE DEF counted
<1>8. Like(t, counted, {"ss"})
  BY <1>6, <1>7 DEF Like
<1>9. DOMAIN dupped = DOMAIN counted /\ \A f \in Fields : dupped[f] = counted[f]
  BY <1>8 DEF Like, Fields, Steady
<1> HIDE DEF dupped, timed
<1>10. Alike(counted, sampled)
  <2>1. "rtt_last" \in DOMAIN counted
    BY <1>8 DEF Like, Fields
  <2> HIDE DEF sampled
  <2> QED
    BY <1>4, <2>1, RttFieldsShape
<1>11. Like(t, dupped, {"ss", "rtt_last"}) /\ Like(t, counted, {"ss", "rtt_last"})
  BY <1>8, <1>9 DEF Like
<1>12. Like(t, sampled, {"ss", "rtt_last"})
  BY <1>8, <1>10 DEF Like, Alike, Fields
<1>13. r \in {sampled, dupped, counted}
  <2>1. CASE fresh \cap tops # {}
    <3>1. ack_in(t, twin, ack, len, win, now) = timed
      BY <1>1, <2>1
    <3> QED
      BY <3>1
  <2>2. CASE fresh \cap tops = {} /\ tops # {} /\ dup
    <3>1. ack_in(t, twin, ack, len, win, now)
            = [tcb |-> dupped, ret |-> IF top.acked = 3 THEN "TRIPLE" ELSE "CUMUL"]
      BY <1>1, <2>2
    <3> QED
      BY <3>1
  <2>3. CASE fresh \cap tops = {} /\ ~(tops # {} /\ dup)
    <3>1. ack_in(t, twin, ack, len, win, now)
            = [tcb |-> counted, ret |-> IF fresh = {} THEN "none" ELSE "CUMUL"]
      BY <1>1, <2>3
    <3> QED
      BY <3>1
  <2> QED
    BY <2>1, <2>2, <2>3
<1> QED
  BY <1>11, <1>12, <1>13

\* The round trips: what ack_in makes of the twin, and that of its handshake.
LEMMA RoundTripsShape ==
    ASSUME NEW d, Stage(d), NEW p, NEW now, NEW m, m = RoundTrips(d, p, now)
    PROVE  /\ Stage(m) /\ m.win = d.win /\ m.me = d.me
           /\ Like(d.peer, m.peer, {"ss", "rtt_last", "rtt_3WHS"})
           /\ ~p.ack => m.peer = d.peer
           /\ p.ack => \E twin, r :
                 /\ r = ack_in(d.peer, twin, p.ackno, p.len, d.win, now).tcb
                 /\ m.peer.ss = r.ss /\ m.peer.rtt_last = r.rtt_last
                 /\ m.peer.rtt_3WHS =
                       IF p.ackno = U32(d.peer.syn + 1) /\ d.peer.syn_count = 1
                       THEN r.rtt_last ELSE d.peer.rtt_3WHS
<1>1. CASE ~p.ack
  <2>1. m = d
    BY <1>1 DEF RoundTrips
  <2> QED
    BY <1>1, <2>1 DEF Stage, Like
<1>2. CASE p.ack
  <2> DEFINE twin == d.me
             q == ack_in(d.peer, twin, p.ackno, p.len, d.win, now)
             r == q.tcb
             handshake == p.ackno = U32(r.syn + 1) /\ r.syn_count = 1
             rtt == IF handshake THEN r.rtt_last ELSE r.rtt_3WHS
             peer == [r EXCEPT !.lastackno = p.ackno, !.rtt_3WHS = rtt]
  <2>1. m = Acknowledging(d, p, q)
    BY <1>2 DEF RoundTrips
  <2>2. m = [d EXCEPT !.ack_type = q.ret, !.peer = [r EXCEPT !.lastackno = p.ackno,
                         !.rtt_3WHS = IF handshake THEN r.rtt_last ELSE @]]
    BY <2>1 DEF Acknowledging
  <2>3. Like(d.peer, r, {"ss", "rtt_last"})
    <3>1. Fields \subseteq DOMAIN d.peer /\ r = ack_in(d.peer, twin, p.ackno, p.len, d.win, now).tcb
      BY DEF Stage
    <3> HIDE DEF r, twin
    <3> QED
      BY ONLY <3>1, AckFields
  <2>4. r = ack_in(d.peer, twin, p.ackno, p.len, d.win, now).tcb
    OBVIOUS
  <2>5. m = [d EXCEPT !.ack_type = q.ret, !.peer = peer]
    BY <2>2
  <2> HIDE DEF q, r, twin, handshake
  <2>6. /\ DOMAIN peer = DOMAIN r /\ \A f \in Fields \ {"rtt_3WHS"} : peer[f] = r[f]
        /\ peer.rtt_3WHS = rtt
    <3> HIDE DEF rtt
    <3> QED
      BY <2>3 DEF Like, Fields, Steady
  <2> HIDE DEF peer
  <2>7. m.win = d.win /\ m.me = d.me /\ DOMAIN m = DOMAIN d /\ m.peer = peer
    BY <2>5 DEF Stage
  <2>8. Like(d.peer, m.peer, {"ss", "rtt_last", "rtt_3WHS"})
    BY <2>3, <2>6, <2>7 DEF Like
  <2>9. /\ m.peer.ss = r.ss /\ m.peer.rtt_last = r.rtt_last /\ m.peer.rtt_3WHS = rtt
        /\ r.syn = d.peer.syn /\ r.syn_count = d.peer.syn_count /\ r.rtt_3WHS = d.peer.rtt_3WHS
    BY <2>3, <2>6, <2>7 DEF Like, Fields, Steady
  <2> QED
    BY <1>2, <2>4, <2>7, <2>8, <2>9 DEF Stage, Like, handshake
<1> QED
  BY <1>1, <1>2

\* The estimate of the retransmissions may turn the ring of the sender.
LEMMA LeastSenderShape ==
    ASSUME NEW d, Stage(d), NEW p, NEW m, m = LeastSender(d, p)
    PROVE  /\ Stage(m) /\ m.win = d.win /\ m.peer = d.peer /\ Like(d.me, m.me, {"ss"})
           /\ m.me.ss = d.me.ss \/ (p.len > 0 /\ m.me.ss = whichquad(d.me.ss, QUADNUM(p.seq)))
<1> DEFINE o == d.me
           again == If(d.rexlen > 0 /\ p.seq < o.recovered, 1)
           turned == whichquad(o.ss, QUADNUM(p.seq))
           rto == IsRTO(o.ss, p.seq)
           counted == [o EXCEPT !.event_retrans = @ + again]
           fresh == [counted EXCEPT !.ss = whichquad(@, QUADNUM(p.seq)),
                              !.recovered = o.seq, !.recovered_orig = o.seq,
                              !.rto_segment = p.seq]
           kept == [counted EXCEPT !.ss = whichquad(@, QUADNUM(p.seq))]
           restarted == IF rto THEN fresh ELSE kept
           recovering == o.tcp_strain = "RENO" /\ o.in_rto /\ p.len > 0
           me == [restarted EXCEPT
                !.recovered = IF d.rexlen = 0 /\ o.ack <= restarted.recovered_orig
                              THEN p.seq ELSE @]
<1>1. m = IF ~recovering THEN d ELSE [d EXCEPT !.me = me]
  BY DEF LeastSender
<1>2. DOMAIN counted = DOMAIN o /\ \A f \in Fields : counted[f] = o[f]
  <2> HIDE DEF again
  <2> QED
    BY DEF Stage, Fields, Steady
<1>3. Fields \subseteq DOMAIN counted /\ counted.ss = o.ss
  BY <1>2 DEF Stage, Fields
<1> HIDE DEF counted, rto
<1>4. /\ DOMAIN fresh = DOMAIN counted /\ \A f \in Fields \ {"ss"} : fresh[f] = counted[f]
      /\ fresh.ss = whichquad(counted.ss, QUADNUM(p.seq))
  BY <1>3 DEF Fields, Steady
<1>5. /\ DOMAIN kept = DOMAIN counted /\ \A f \in Fields \ {"ss"} : kept[f] = counted[f]
      /\ kept.ss = whichquad(counted.ss, QUADNUM(p.seq))
  BY <1>3 DEF Fields, Steady
<1> HIDE DEF fresh, kept
<1>6. /\ DOMAIN restarted = DOMAIN counted
      /\ \A f \in Fields \ {"ss"} : restarted[f] = counted[f]
      /\ restarted.ss = whichquad(counted.ss, QUADNUM(p.seq))
  BY <1>4, <1>5
<1> HIDE DEF restarted
<1>7. DOMAIN me = DOMAIN restarted /\ \A f \in Fields : me[f] = restarted[f]
  <2> DEFINE rec == IF d.rexlen = 0 /\ o.ack <= restarted.recovered_orig
                    THEN p.seq ELSE restarted.recovered
  <2>1. me = [restarted EXCEPT !.recovered = rec]
    OBVIOUS
  <2> HIDE DEF rec, me
  <2> QED
    BY <1>3, <1>6, <2>1 DEF Fields, Steady
<1> HIDE DEF me
<1>8. CASE ~recovering
  <2>1. m = d
    BY <1>1, <1>8
  <2> QED
    BY <2>1 DEF Stage, Like
<1>9. CASE recovering
  <2>1. m.win = d.win /\ m.peer = d.peer /\ DOMAIN m = DOMAIN d /\ m.me = me
    BY <1>1, <1>9 DEF Stage
  <2>2. Like(d.me, m.me, {"ss"}) /\ m.me.ss = whichquad(d.me.ss, QUADNUM(p.seq))
    <3>1. "ss" \in Fields
      BY DEF Fields
    <3> QED
      BY <1>2, <1>3, <1>6, <1>7, <2>1, <3>1 DEF Like
  <2> QED
    BY <1>9, <2>1, <2>2 DEF Stage, Like
<1> QED
  BY <1>8, <1>9

LEMMA LeastReceiverShape ==
    ASSUME NEW d, Stage(d), NEW p, NEW m, m = LeastReceiver(d, p)
    PROVE  Stage(m) /\ m.win = d.win /\ m.me = d.me /\ Like(d.peer, m.peer, {})
<1> DEFINE o == d.peer
           spurious == Least(o.event_dupacks, o.event_retrans)
           recovering == d.me.tcp_strain = "RENO" /\ o.in_rto /\ p.ack
           over == [d EXCEPT !.peer.LEAST = Long(@ - spurious), !.peer.in_rto = FALSE]
           more == o.event_dupacks + If(p.ackno = o.lastackno /\ p.ackno >= o.rto_segment, 1)
           counted == [d EXCEPT !.peer.event_dupacks = more]
<1>1. m = CASE ~recovering -> d
            [] recovering /\ p.ackno > o.recovered -> over
            [] OTHER -> counted
  BY DEF LeastReceiver
<1> HIDE DEF spurious, recovering, more
<1>2. Stage(over) /\ over.win = d.win /\ over.me = d.me /\ Like(d.peer, over.peer, {})
  <2>1. /\ over.win = d.win /\ over.me = d.me /\ DOMAIN over = DOMAIN d
        /\ DOMAIN over.peer = DOMAIN d.peer
    BY DEF Stage
  <2>2. \A f \in Fields : over.peer[f] = d.peer[f]
    BY DEF Stage, Fields, Steady
  <2> HIDE DEF over
  <2> QED
    BY <2>1, <2>2 DEF Stage, Like
<1>3. Stage(counted) /\ counted.win = d.win /\ counted.me = d.me /\ Like(d.peer, counted.peer, {})
  <2>1. /\ counted.win = d.win /\ counted.me = d.me /\ DOMAIN counted = DOMAIN d
        /\ DOMAIN counted.peer = DOMAIN d.peer
    BY DEF Stage
  <2>2. \A f \in Fields : counted.peer[f] = d.peer[f]
    BY DEF Stage, Fields, Steady
  <2> HIDE DEF counted
  <2> QED
    BY <2>1, <2>2 DEF Stage, Like
<1>4. Like(d.peer, d.peer, {})
  BY DEF Stage, Like
<1>5. m \in {d, over, counted}
  <2> HIDE DEF over, counted
  <2> QED
    BY <1>1
<1> HIDE DEF over, counted
<1> QED
  BY <1>2, <1>3, <1>4, <1>5

LEMMA RexmitStatsShape ==
    ASSUME NEW d, Stage(d), NEW p, NEW m, m = RexmitStats(d, p)
    PROVE  Stage(m) /\ m.win = d.win /\ m.peer = d.peer /\ Like(d.me, m.me, {})
<1> DEFINE o == d.me
           begins == o.tcp_strain = "RENO" /\ ~o.in_rto /\ IsRTO(o.ss, p.seq)
           begun == [o EXCEPT !.in_rto = TRUE, !.recovered = o.seq, !.recovered_orig = o.seq,
                              !.rto_segment = p.seq, !.event_retrans = 1, !.event_dupacks = 0]
           base == IF begins THEN begun ELSE o
           me == [base EXCEPT !.rexmit_pkts = @ + 1, !.LEAST = @ + 1, !.rexmit_bytes = @ + d.rexlen]
           new == [o EXCEPT !.seq = U32(end(p))]
<1>1. m = IF d.rexlen = 0 THEN [d EXCEPT !.me = new] ELSE [d EXCEPT !.me = me]
  BY DEF RexmitStats, Stage
<1>2. DOMAIN begun = DOMAIN o /\ \A f \in Fields : begun[f] = o[f]
  BY DEF Stage, Fields, Steady
<1>3. DOMAIN new = DOMAIN o /\ \A f \in Fields : new[f] = o[f]
  BY DEF Stage, Fields, Steady
<1> HIDE DEF begun, begins, new
<1>4. DOMAIN base = DOMAIN o /\ \A f \in Fields : base[f] = o[f]
  BY <1>2
<1> HIDE DEF base
<1>5. DOMAIN me = DOMAIN base /\ \A f \in Fields : me[f] = base[f]
  BY <1>4 DEF Stage, Fields, Steady
<1> HIDE DEF me
<1>6. m.win = d.win /\ m.peer = d.peer /\ DOMAIN m = DOMAIN d /\ m.me \in {new, me}
  BY <1>1 DEF Stage
<1> QED
  BY <1>3, <1>4, <1>5, <1>6 DEF Stage, Like

Windowing == {"win_tot", "win_max", "scaled", "win_scaled_pkts"}

\* What a window does to the statistics of windows, if it counts: the first
\* scaled one starts them again.
WindowStep(t, u, win) ==
    \/ \A f \in Windowing : u[f] = t[f]
    \/ win > 0 /\ u.scaled = TRUE /\ u.win_tot = win /\ u.win_max = win /\ u.win_scaled_pkts = 1
    \/ /\ u.scaled = t.scaled /\ u.win_scaled_pkts = t.win_scaled_pkts
       /\ u.win_tot = t.win_tot + win /\ u.win_max = Max({t.win_max, win})

LEMMA WindowStatsShape ==
    ASSUME NEW d, Stage(d), NEW p, NEW m, m = WindowStats(d, p)
    PROVE  /\ Stage(m) /\ m.peer = d.peer /\ Like(d.me, m.me, Windowing)
           /\ WindowStep(d.me, m.me, d.win)
<1> DEFINE t == d.me
           win == d.win
           most == Max({t.win_max, win})
           o == [t EXCEPT !.win_last = win, !.win_max = most]
           both == win > 0 /\ o.f1323_ws /\ d.peer.f1323_ws /\ ~p.syn
           first == both /\ ~o.scaled
           begun == [o EXCEPT !.scaled = TRUE, !.win_min = win,
                        !.win_max = win, !.win_tot = win, !.win_scaled_pkts = 1]
           least == IF win > 0 /\ (o.win_min = 0 \/ win < o.win_min) THEN win ELSE o.win_min
           tot == o.win_tot + win
           added == [o EXCEPT !.win_tot = tot, !.win_min = least]
           plain == [t EXCEPT !.win_last = win]
           new == IF ~(p.ack \/ p.syn) THEN plain ELSE IF first THEN begun ELSE added
<1>1. m = [d EXCEPT !.me = new]
  <2>1. m = IF ~(p.ack \/ p.syn) THEN [d EXCEPT !.me = plain]
            ELSE IF first THEN [d EXCEPT !.me = begun] ELSE [d EXCEPT !.me = added]
    BY DEF WindowStats, Stage
  <2> HIDE DEF plain, first, begun, added
  <2> QED
    BY <2>1
<1>2. /\ DOMAIN o = DOMAIN t /\ \A f \in Fields \ {"win_max"} : o[f] = t[f]
      /\ o.win_max = most
  <2> HIDE DEF most
  <2> QED
    BY DEF Stage, Fields, Steady
<1>3. DOMAIN plain = DOMAIN t /\ \A f \in Fields : plain[f] = t[f]
  BY DEF Stage, Fields, Steady
<1>4. first => win > 0
  OBVIOUS
<1> HIDE DEF o, first, plain
<1>5. /\ DOMAIN begun = DOMAIN o /\ \A f \in Fields \ Windowing : begun[f] = o[f]
      /\ begun.scaled = TRUE /\ begun.win_max = win /\ begun.win_tot = win
      /\ begun.win_scaled_pkts = 1
  <2>0. Fields \subseteq DOMAIN o
    BY <1>2 DEF Stage
  <2>1. DOMAIN begun = DOMAIN o /\ \A f \in Fields \ Windowing : begun[f] = o[f]
    BY <2>0 DEF Fields, Steady, Windowing
  <2>2. /\ begun.scaled = TRUE /\ begun.win_max = win /\ begun.win_tot = win
        /\ begun.win_scaled_pkts = 1
    BY <2>0 DEF Fields, Steady
  <2> QED
    BY <2>1, <2>2
<1>6. /\ DOMAIN added = DOMAIN o /\ \A f \in Fields \ {"win_tot"} : added[f] = o[f]
      /\ added.win_tot = tot
  <2>0. Fields \subseteq DOMAIN o
    BY <1>2 DEF Stage
  <2> HIDE DEF least, tot
  <2> QED
    BY <2>0 DEF Fields, Steady
<1> HIDE DEF begun, added
<1>7. m.peer = d.peer /\ DOMAIN m = DOMAIN d /\ m.me = new
  BY <1>1 DEF Stage
<1>8. Windowing \subseteq Fields
  BY DEF Windowing, Fields, Steady
<1>9. CASE ~(p.ack \/ p.syn)
  <2>1. m.me = plain
    BY <1>7, <1>9
  <2> QED
    BY <1>3, <1>7, <1>8, <2>1 DEF Stage, Like, WindowStep
<1>10. CASE (p.ack \/ p.syn) /\ first
  <2>1. m.me = begun
    BY <1>7, <1>10
  <2>2. Like(d.me, m.me, Windowing)
    BY <1>2, <1>5, <2>1 DEF Stage, Like, Windowing
  <2> QED
    BY <1>4, <1>5, <1>7, <1>10, <2>1, <2>2 DEF Stage, Like, WindowStep
<1>11. CASE (p.ack \/ p.syn) /\ ~first
  <2>1. m.me = added
    BY <1>7, <1>11
  <2>2. Like(d.me, m.me, Windowing)
    BY <1>2, <1>6, <2>1 DEF Stage, Like, Windowing
  <2>3. /\ m.me.scaled = t.scaled /\ m.me.win_scaled_pkts = t.win_scaled_pkts
        /\ m.me.win_max = most /\ m.me.win_tot = t.win_tot + win
    BY <1>2, <1>6, <2>1 DEF Fields, Steady
  <2> QED
    BY <1>7, <2>2, <2>3 DEF Stage, Like, WindowStep
<1> QED
  BY <1>9, <1>10, <1>11

LEMMA AckStatsShape ==
    ASSUME NEW d, Stage(d), NEW p, NEW now, NEW m, m = AckStats(d, p, now)
    PROVE  Stage(m) /\ Like(d.peer, m.peer, {}) /\ Like(d.me, m.me, {})
<1> DEFINE pure == p.len = 0 /\ ~p.syn /\ ~p.fin
           c == [d EXCEPT !.me.win_zero_ct = @ + If(d.win = 0, 1),
                          !.me.ack_pkts = @ + 1, !.me.pureack_pkts = @ + If(pure, 1)]
           s == Sacks(c, p)
           dsack == IsDsack(p)
           n == c.me.num_dsacks + If(dsack, 1)
           most == Max({c.me.max_sack_blocks, Len(p.sacks)})
           least == IF dsack /\ c.peer.LEAST > 0 THEN c.peer.LEAST - 1 ELSE c.peer.LEAST
           strain == IF n > 0 THEN "DSACK" ELSE c.me.tcp_strain
           counted == [c EXCEPT !.me.num_sacks = @ + 1, !.me.max_sack_blocks = most,
                        !.me.num_dsacks = n, !.peer.LEAST = least, !.me.tcp_strain = strain]
<1>1. m = IF ~p.ack THEN d ELSE [s EXCEPT !.me.time = now, !.me.ack = p.ackno]
  BY DEF AckStats
<1>2. Stage(c) /\ c.peer = d.peer /\ Like(d.me, c.me, {})
  <2> HIDE DEF pure
  <2>1. c.peer = d.peer /\ DOMAIN c = DOMAIN d /\ DOMAIN c.me = DOMAIN d.me
    BY DEF Stage
  <2>2. \A f \in Fields : c.me[f] = d.me[f]
    BY DEF Stage, Fields, Steady
  <2> HIDE DEF c
  <2> QED
    BY <2>1, <2>2 DEF Stage, Like
<1> HIDE DEF c
<1>3. s = IF Len(p.sacks) = 0 THEN c ELSE counted
  BY <1>2 DEF Sacks, Stage
<1> HIDE DEF dsack, n, most, least, strain
<1>4. /\ DOMAIN counted = DOMAIN c /\ DOMAIN counted.me = DOMAIN c.me
      /\ DOMAIN counted.peer = DOMAIN c.peer
  BY <1>2 DEF Stage
<1>5. \A f \in Fields : counted.me[f] = c.me[f]
  BY <1>2 DEF Stage, Fields, Steady
<1>6. \A f \in Fields : counted.peer[f] = c.peer[f]
  BY <1>2 DEF Stage, Fields, Steady
<1> HIDE DEF counted
<1>7. Stage(s) /\ Like(c.peer, s.peer, {}) /\ Like(c.me, s.me, {})
  BY <1>2, <1>3, <1>4, <1>5, <1>6 DEF Stage, Like
<1> HIDE DEF s
<1>8. CASE ~p.ack
  <2>1. m = d
    BY <1>1, <1>8
  <2> QED
    BY <2>1 DEF Stage, Like
<1>9. CASE p.ack
  <2> DEFINE me == [s.me EXCEPT !.time = now, !.ack = p.ackno]
  <2>1. m.peer = s.peer /\ DOMAIN m = DOMAIN s /\ m.me = me
    BY <1>1, <1>7, <1>9 DEF Stage
  <2>2. DOMAIN me = DOMAIN s.me /\ \A f \in Fields : me[f] = s.me[f]
    BY <1>7 DEF Stage, Fields, Steady
  <2> HIDE DEF me
  <2> QED
    BY <1>2, <1>7, <2>1, <2>2 DEF Stage, Like
<1> QED
  BY <1>8, <1>9

LEMMA InitialWindowShape ==
    ASSUME NEW d, Stage(d), NEW p, NEW m, m = InitialWindow(d, p)
    PROVE  Stage(m) /\ Like(d.peer, m.peer, {}) /\ Like(d.me, m.me, {})
<1>1. /\ DOMAIN m = DOMAIN d /\ DOMAIN m.me = DOMAIN d.me /\ DOMAIN m.peer = DOMAIN d.peer
  BY DEF InitialWindow, Stage
<1>2. \A f \in Fields : m.me[f] = d.me[f]
  BY DEF InitialWindow, Stage, Fields, Steady
<1>3. \A f \in Fields : m.peer[f] = d.peer[f]
  BY DEF InitialWindow, Stage, Fields, Steady
<1> QED
  BY <1>1, <1>2, <1>3 DEF Stage, Like

LEMMA OutstandingWindowShape ==
    ASSUME NEW d, Stage(d), NEW p, NEW m, m = OutstandingWindow(d, p)
    PROVE  Stage(m) /\ Like(d.peer, m.peer, {}) /\ Like(d.me, m.me, {})
<1>1. m.peer = d.peer /\ DOMAIN m = DOMAIN d /\ DOMAIN m.me = DOMAIN d.me
  BY DEF OutstandingWindow, Stage
<1>2. \A f \in Fields : m.me[f] = d.me[f]
  BY ZenonT(60) DEF OutstandingWindow, Stage, Fields, Steady
<1> QED
  BY <1>1, <1>2 DEF Stage, Like

LEMMA FinishShape ==
    ASSUME NEW d, Stage(d), NEW p, NEW now, NEW m, m = Finish(d, p, now)
    PROVE  /\ Like(d.peer, m.peer, {}) /\ Like(d.me, m.me, Windowing)
           /\ WindowStep(d.me, m.me, d.win)
<1>1. CASE p.rst
  <2> DEFINE c == [d EXCEPT !.me.ack_pkts = @ + If(p.ack, 1)]
  <2>1. m = c
    BY <1>1 DEF Finish
  <2>2. c.peer = d.peer /\ DOMAIN c.me = DOMAIN d.me
    BY DEF Stage
  <2>3. \A f \in Fields : c.me[f] = d.me[f]
    BY DEF Stage, Fields, Steady
  <2>4. Windowing \subseteq Fields
    BY DEF Windowing, Fields, Steady
  <2> HIDE DEF c
  <2> QED
    BY <2>1, <2>2, <2>3, <2>4 DEF Stage, Like, WindowStep
<1>2. CASE ~p.rst
  <2> DEFINE a == WindowStats(d, p)
             b == AckStats(a, p, now)
             c == InitialWindow(b, p)
  <2>1. m = OutstandingWindow(c, p)
    BY <1>2 DEF Finish
  <2>2. /\ Stage(a) /\ a.peer = d.peer /\ Like(d.me, a.me, Windowing)
        /\ WindowStep(d.me, a.me, d.win)
    BY WindowStatsShape
  <2> HIDE DEF a
  <2>3. Stage(b) /\ Like(a.peer, b.peer, {}) /\ Like(a.me, b.me, {})
    BY <2>2, AckStatsShape
  <2> HIDE DEF b
  <2>4. Stage(c) /\ Like(b.peer, c.peer, {}) /\ Like(b.me, c.me, {})
    BY <2>3, InitialWindowShape
  <2> HIDE DEF c
  <2>5. Stage(m) /\ Like(c.peer, m.peer, {}) /\ Like(c.me, m.me, {})
    BY <2>1, <2>4, OutstandingWindowShape
  <2>6. Like(d.peer, m.peer, {}) /\ Like(d.me, m.me, Windowing)
    BY <2>2, <2>3, <2>4, <2>5 DEF Like
  <2>7. Windowing \subseteq Fields
    BY DEF Windowing, Fields, Steady
  <2>8. \A f \in Windowing : m.me[f] = a.me[f]
    BY <2>3, <2>4, <2>5, <2>7 DEF Like
  <2>9. WindowStep(d.me, m.me, d.win)
    BY <2>2, <2>8 DEF WindowStep, Windowing
  <2> QED
    BY <2>6, <2>9
<1> QED
  BY <1>1, <1>2

LEMMA EstimateShape ==
    ASSUME NEW d, Stage(d), NEW p, NEW m, m = Told(Estimate(d, p), p)
    PROVE  /\ Stage(m) /\ m.win = d.win /\ Like(d.peer, m.peer, {}) /\ Like(d.me, m.me, {"ss"})
           /\ m.me.ss = d.me.ss \/ (p.len > 0 /\ m.me.ss = whichquad(d.me.ss, QUADNUM(p.seq)))
<1> DEFINE a == LeastSender(d, p)
           b == LeastReceiver(a, p)
           c == RexmitStats(b, p)
<1>1. m = Told(c, p)
  BY DEF Estimate
<1>2. /\ Stage(a) /\ a.win = d.win /\ a.peer = d.peer /\ Like(d.me, a.me, {"ss"})
      /\ a.me.ss = d.me.ss \/ (p.len > 0 /\ a.me.ss = whichquad(d.me.ss, QUADNUM(p.seq)))
  BY LeastSenderShape
<1> HIDE DEF a
<1>3. Stage(b) /\ b.win = a.win /\ b.me = a.me /\ Like(a.peer, b.peer, {})
  BY <1>2, LeastReceiverShape
<1> HIDE DEF b
<1>4. Stage(c) /\ c.win = b.win /\ c.peer = b.peer /\ Like(b.me, c.me, {})
  BY <1>3, RexmitStatsShape
<1> HIDE DEF c
<1>5. m.win = c.win /\ m.peer = c.peer /\ m.me = c.me /\ DOMAIN m = DOMAIN c
  BY <1>1, <1>4 DEF Told, Stage
<1>6. Like(d.peer, m.peer, {}) /\ Like(d.me, m.me, {"ss"})
  BY <1>2, <1>3, <1>4, <1>5 DEF Like
<1>7. m.me.ss = a.me.ss
  BY <1>3, <1>4, <1>5 DEF Like, Fields
<1> QED
  BY <1>2, <1>3, <1>4, <1>5, <1>6, <1>7 DEF Stage

\* What a packet does to the sequence space of its sender.
SpaceStep(t, p, now, ss) ==
    \E new :
        /\ \/ ~p.syn /\ new = t.ss
           \/ /\ Size(p) > 0
              /\ \E u : /\ "ss" \in DOMAIN u /\ u.ss = t.ss
                        /\ new = rexmit(u, p.seq, Size(p), now).tcb.ss
        /\ ss = new \/ (p.len > 0 /\ ss = whichquad(new, QUADNUM(p.seq)))

\* What its acknowledgement does to the twin.
AnswerStep(t, p, now, u) ==
    \E like, twin, win, r :
        /\ Like(t, like, {"window_scale"})
        /\ r = ack_in(like, twin, p.ackno, p.len, win, now).tcb
        /\ u.ss = r.ss /\ u.rtt_last = r.rtt_last
        /\ u.rtt_3WHS = IF p.ackno = U32(t.syn + 1) /\ t.syn_count = 1
                        THEN r.rtt_last ELSE t.rtt_3WHS

\* What its window does to the statistics of windows.
WindowsStep(t, u, win) ==
    /\ u.packets = t.packets + 1
    /\ \E v : /\ \A f \in Windowing \ {"win_scaled_pkts"} : v[f] = t[f]
              /\ v.win_scaled_pkts = t.win_scaled_pkts + If(t.scaled, 1)
              /\ WindowStep(v, u, win)

Begin(me, peer) ==
    [me |-> me, peer |-> peer, win |-> 0, hw_dup |-> FALSE, probe |-> FALSE,
     rexlen |-> 0, out_order |-> FALSE, ack_type |-> "none", bin |-> None, rows |-> {}]

\* dotrace, as far as the fields of the proofs go.
Traced(me, peer, p, now, r) ==
    /\ Like(me, r.me, {"syn", "syn_count", "window_scale", "ss", "packets"} \cup Windowing)
    /\ Like(peer, r.peer, {"window_scale", "ss", "rtt_last", "rtt_3WHS"})
    /\ r.me.syn = IF p.syn THEN p.seq ELSE me.syn
    /\ r.me.syn_count = IF p.syn THEN Bump(me.syn_count) ELSE me.syn_count
    /\ r.me.window_scale \in {me.window_scale, p.ws, 0}
    /\ p.ws = None => r.me.window_scale \in {me.window_scale, 0}
    /\ r.peer.window_scale \in {peer.window_scale, 0}
    /\ WindowsStep(me, r.me, eff_win(Begin(me, peer), p))
    /\ SpaceStep(me, p, now, r.me.ss)
    /\ IF p.ack THEN AnswerStep(peer, p, now, r.peer)
       ELSE \A f \in {"ss", "rtt_last", "rtt_3WHS"} : r.peer[f] = peer[f]

LEMMA DotraceShape ==
    ASSUME NEW me, Fields \subseteq DOMAIN me, NEW peer, Fields \subseteq DOMAIN peer,
           NEW p, p.len \in Nat, NEW now, NEW r, r = dotrace(me, peer, p, now)
    PROVE  Traced(me, peer, p, now, r)
<1> DEFINE z == Begin(me, peer)
           a == Header(z, p, now)
           b == Payload(a, p, now)
           c == RoundTrips(b, p, now)
           d == Told(Estimate(c, p), p)
           win == eff_win(z, p)
<1>0. Stage(z) /\ z.me = me /\ z.peer = peer
  BY DEF Stage, Begin
<1>1. r = Finish(d, p, now)
  BY DEF dotrace, Begin
<1> HIDE DEF z
<1>2. /\ Stage(a) /\ a.win = win
      /\ Like(me, a.me, {"syn", "syn_count", "window_scale"})
      /\ Like(peer, a.peer, {"window_scale"})
      /\ a.me.syn = IF p.syn THEN start(p) ELSE me.syn
      /\ a.me.syn_count = IF p.syn THEN Bump(me.syn_count) ELSE me.syn_count
      /\ a.me.window_scale \in {me.window_scale, p.ws, 0}
      /\ p.ws = None => a.me.window_scale \in {me.window_scale, 0}
      /\ a.peer.window_scale \in {peer.window_scale, 0}
  <2>1. a = Header(z, p, now)
    OBVIOUS
  <2> HIDE DEF a
  <2> QED
    BY <1>0, <2>1, HeaderShape
<1> HIDE DEF a, win
<1>3. /\ Stage(b) /\ b.win = a.win /\ b.peer = a.peer
      /\ Like(a.me, b.me, {"ss", "packets", "win_scaled_pkts"})
      /\ b.me.packets = a.me.packets + 1
      /\ b.me.win_scaled_pkts = a.me.win_scaled_pkts + If(a.me.scaled, 1)
      /\ \/ ~p.syn /\ b.me.ss = a.me.ss
         \/ /\ Size(p) > 0
            /\ \E t : /\ "ss" \in DOMAIN t /\ t.ss = a.me.ss
                      /\ b.me.ss = rexmit(t, p.seq, Size(p), now).tcb.ss
  BY <1>2, PayloadShape
<1> HIDE DEF b
<1>4. /\ Stage(c) /\ c.win = b.win /\ c.me = b.me
      /\ Like(b.peer, c.peer, {"ss", "rtt_last", "rtt_3WHS"})
      /\ ~p.ack => c.peer = b.peer
      /\ p.ack => \E twin, u :
            /\ u = ack_in(b.peer, twin, p.ackno, p.len, b.win, now).tcb
            /\ c.peer.ss = u.ss /\ c.peer.rtt_last = u.rtt_last
            /\ c.peer.rtt_3WHS =
                  IF p.ackno = U32(b.peer.syn + 1) /\ b.peer.syn_count = 1
                  THEN u.rtt_last ELSE b.peer.rtt_3WHS
  BY <1>3, RoundTripsShape
<1> HIDE DEF c
<1>5. /\ Stage(d) /\ d.win = c.win /\ Like(c.peer, d.peer, {}) /\ Like(c.me, d.me, {"ss"})
      /\ d.me.ss = c.me.ss \/ (p.len > 0 /\ d.me.ss = whichquad(c.me.ss, QUADNUM(p.seq)))
  BY <1>4, EstimateShape, ZenonT(60)
<1> HIDE DEF d
<1>6. /\ Like(d.peer, r.peer, {}) /\ Like(d.me, r.me, Windowing)
      /\ WindowStep(d.me, r.me, d.win)
  BY <1>1, <1>5, FinishShape
<1>7. /\ {"syn", "syn_count", "window_scale", "ss", "packets", "rtt_last", "rtt_3WHS"} \subseteq Fields
      /\ {"syn", "syn_count", "window_scale", "ss", "packets", "rtt_last", "rtt_3WHS"}
           \cap Windowing = {}
      /\ Windowing \subseteq Fields /\ Windowing \cap {"ss", "packets"} = {}
      /\ {"scaled", "win_scaled_pkts"} \subseteq Windowing
      /\ Windowing \cap {"syn", "syn_count", "window_scale"} = {}
  BY DEF Fields, Steady, Windowing
<1>8. Like(me, r.me, {"syn", "syn_count", "window_scale", "ss", "packets"} \cup Windowing)
  BY <1>2, <1>3, <1>4, <1>5, <1>6, <1>7 DEF Like
<1>9. Like(peer, r.peer, {"window_scale", "ss", "rtt_last", "rtt_3WHS"})
  BY <1>2, <1>3, <1>4, <1>5, <1>6 DEF Like
<1>10. r.me.syn = a.me.syn /\ r.me.syn_count = a.me.syn_count /\ r.me.window_scale = a.me.window_scale
  BY <1>3, <1>4, <1>5, <1>6, <1>7 DEF Like
<1>11. r.peer.window_scale = a.peer.window_scale
  BY <1>3, <1>4, <1>5, <1>6, <1>7 DEF Like
<1>12. WindowsStep(me, r.me, win)
  <2>1. r.me.packets = me.packets + 1
    BY <1>2, <1>3, <1>4, <1>5, <1>6, <1>7 DEF Like
  <2>2. \A f \in Windowing \ {"win_scaled_pkts"} : d.me[f] = me[f]
    BY <1>2, <1>3, <1>4, <1>5, <1>7 DEF Like
  <2>3. d.me.win_scaled_pkts = me.win_scaled_pkts + If(me.scaled, 1)
    BY <1>2, <1>3, <1>4, <1>5, <1>7 DEF Like
  <2>4. WindowStep(d.me, r.me, win)
    BY <1>2, <1>3, <1>4, <1>5, <1>6
  <2> QED
    BY <2>1, <2>2, <2>3, <2>4 DEF WindowsStep
<1>13. SpaceStep(me, p, now, r.me.ss)
  <2>1. r.me.ss = d.me.ss /\ a.me.ss = me.ss
    BY <1>2, <1>6, <1>7 DEF Like
  <2> QED
    BY <1>3, <1>4, <1>5, <2>1 DEF SpaceStep
<1>14. IF p.ack THEN AnswerStep(peer, p, now, r.peer)
       ELSE \A f \in {"ss", "rtt_last", "rtt_3WHS"} : r.peer[f] = peer[f]
  <2>1. \A f \in {"ss", "rtt_last", "rtt_3WHS"} : r.peer[f] = c.peer[f] /\ a.peer[f] = peer[f]
    BY <1>2, <1>5, <1>6, <1>7 DEF Like
  <2>2. a.peer.syn = peer.syn /\ a.peer.syn_count = peer.syn_count
    BY <1>2, <1>7 DEF Like
  <2>3. CASE p.ack
    <3>1. AnswerStep(peer, p, now, r.peer)
      BY <1>2, <1>3, <1>4, <2>1, <2>2, <2>3 DEF AnswerStep
    <3> QED
      BY <2>3, <3>1
  <2>4. CASE ~p.ack
    BY <1>3, <1>4, <2>1, <2>4
  <2> QED
    BY <2>3, <2>4
<1> QED
  BY <1>2, <1>8, <1>9, <1>10, <1>11, <1>12, <1>13, <1>14 DEF Traced, win, z, start

-----------------------------------------------------------------------------
(* Conversations: the inductive invariant, and what keeps it.              *)

\* The statistics of windows of a direction.
WindowsInv(t) ==
    /\ t.window_scale \in Nat /\ t.packets \in Nat /\ t.win_scaled_pkts \in Nat
    /\ t.win_tot \in Int /\ t.win_max \in Nat /\ t.scaled \in BOOLEAN
    /\ t.win_tot <= t.win_max * (IF t.scaled THEN t.win_scaled_pkts ELSE t.packets)

\* The count of SYNs, as long as it cannot have wrapped.
SynsCounted(t, sent, k) ==
    k < CountLimit => t.syn_count \in 0..k /\ (t.syn_count = 0 => sent = 0)

NothingSent(t, sent, sentAt) ==
    sent = 0 => /\ t.ss \in [Index -> QuadType] /\ \A i \in Index : t.ss[i].segs = {}
                /\ t.rtt_last = 0 /\ sentAt = None

SynKnown(t, sent, sentAt, isn, k) ==
    sent > 0 => t.syn = isn /\ sentAt \in 1..k

NothingAnswered(t, acks, ackedAt) ==
    acks = 0 => t.rtt_3WHS = 0 /\ ackedAt = None

\* Until data is answered the only SYN stands, and gave the last sample or none.
SynTimed(t, sent, acks, sentAt, ackedAt, isn, k) ==
    k <= CountLimit /\ t.syn_count = 1 /\ sent > 0 /\ acks <= 1 =>
        /\ SynStands(t.ss, isn, sentAt, acks = 1)
        /\ t.rtt_last = 0 \/ (acks = 1 /\ t.rtt_last = ackedAt - sentAt)

HandshakeTimed(t, sent, sentAt, ackedAt, k) ==
    k <= CountLimit /\ sent <= SeqSize => t.rtt_3WHS \in {0, ackedAt - sentAt}

\* A direction with a handshake after k packets: its block t, what it has sent
\* and what of it is acknowledged, and when its SYN was sent and answered.
TalkInv(t, sent, acks, sentAt, ackedAt, isn, k) ==
    /\ k \in Nat /\ sent \in Nat /\ acks \in Nat /\ acks <= sent
    /\ SynsCounted(t, sent, k) /\ NothingSent(t, sent, sentAt)
    /\ SynKnown(t, sent, sentAt, isn, k) /\ NothingAnswered(t, acks, ackedAt)
    /\ SynTimed(t, sent, acks, sentAt, ackedAt, isn, k)
    /\ HandshakeTimed(t, sent, sentAt, ackedAt, k)

ConversationInv ==
    /\ mode \in {"talk", "middle", "flow"} /\ clock \in Nat
    /\ pos \in [Hosts -> Nat] /\ acked \in [Hosts -> Nat]
    /\ DOMAIN block = Hosts /\ DOMAIN synTime = Hosts
    /\ \A h \in Hosts : /\ Fields \subseteq DOMAIN block[h] /\ WindowsInv(block[h])
                        /\ synTime[h] \in [sent : Int, acked : Int]
    /\ mode = "talk" => \A h \in Hosts :
          TalkInv(block[h], pos[h], acked[h], synTime[h].sent, synTime[h].acked, IsnOf[h], clock)

\* A total that is at most so many times the largest is so after one more.
LEMMA OneMore ==
    ASSUME NEW total \in Int, NEW most \in Nat, NEW n \in Nat, total <= most * n,
           NEW win \in Int, NEW largest \in Nat, most <= largest, win <= largest
    PROVE  total + win <= largest * (n + 1) /\ total <= most * (n + 1)
<1>1. most * n <= largest * n
  BY Z3
<1>2. /\ largest * (n + 1) = largest * n + largest /\ most * (n + 1) = most * n + most
      /\ largest * n \in Int /\ most * n \in Int
  OBVIOUS
<1> QED
  BY <1>1, <1>2

LEMMA WindowsKept ==
    ASSUME NEW me, Fields \subseteq DOMAIN me, WindowsInv(me),
           NEW peer, Fields \subseteq DOMAIN peer, WindowsInv(peer),
           NEW p, p.win \in Nat, p.ws \in Nat \cup {None}, NEW now, NEW r,
           Traced(me, peer, p, now, r)
    PROVE  /\ Fields \subseteq DOMAIN r.me /\ WindowsInv(r.me)
           /\ Fields \subseteq DOMAIN r.peer /\ WindowsInv(r.peer)
<1> DEFINE win == eff_win(Begin(me, peer), p)
<1>1. win \in Int
  <2>1. /\ Begin(me, peer).me = me /\ me.window_scale \in Nat
    BY DEF Begin, WindowsInv
  <2>2. 2 ^ me.window_scale \in Int
    BY <2>1
  <2>3. p.win * 2 ^ me.window_scale \in Int
    BY <2>2
  <2> QED
    BY <2>1, <2>3 DEF eff_win
<1> HIDE DEF win
<1>2. Fields \subseteq DOMAIN r.me /\ Fields \subseteq DOMAIN r.peer
  BY DEF Traced, Like
<1>3. WindowsInv(r.peer)
  <2>1. /\ r.peer.packets = peer.packets /\ r.peer.win_scaled_pkts = peer.win_scaled_pkts
        /\ r.peer.win_tot = peer.win_tot /\ r.peer.win_max = peer.win_max
        /\ r.peer.scaled = peer.scaled /\ r.peer.window_scale \in Nat
    BY DEF Traced, Like, Fields, Steady, WindowsInv
  <2> QED
    BY <2>1 DEF WindowsInv
<1>4. r.me.window_scale \in Nat
  BY DEF Traced, WindowsInv, None
<1>5. WindowsStep(me, r.me, win)
  BY DEF Traced, win
<1>6. WindowsInv(r.me)
  <2>1. PICK v : /\ \A f \in Windowing \ {"win_scaled_pkts"} : v[f] = me[f]
                 /\ v.win_scaled_pkts = me.win_scaled_pkts + If(me.scaled, 1)
                 /\ WindowStep(v, r.me, win)
    BY <1>5 DEF WindowsStep
  <2>2. v.win_tot = me.win_tot /\ v.win_max = me.win_max /\ v.scaled = me.scaled
    BY <2>1 DEF Windowing
  <2> DEFINE n == IF me.scaled THEN me.win_scaled_pkts ELSE me.packets
             most == Max({me.win_max, win})
  <2>3. /\ n \in Nat /\ me.win_tot \in Int /\ me.win_max \in Nat /\ me.win_tot <= me.win_max * n
        /\ me.packets \in Nat /\ me.win_scaled_pkts \in Nat /\ me.scaled \in BOOLEAN
    BY DEF WindowsInv
  <2>4. most \in Nat /\ me.win_max <= most /\ win <= most
    <3>1. me.win_max \in Int
      BY <2>3
    <3>2. most \in {me.win_max, win} /\ me.win_max <= most /\ win <= most
      BY ONLY <1>1, <3>1, MaxOfTwo DEF most
    <3> QED
      BY ONLY <1>1, <2>3, <3>2
  <2> HIDE DEF n, most
  <2>5. me.win_tot + win <= most * (n + 1) /\ me.win_tot <= me.win_max * (n + 1)
    BY <1>1, <2>3, <2>4, OneMore
  <2>6. r.me.packets = me.packets + 1
    BY <1>5 DEF WindowsStep
  <2>7. v.win_scaled_pkts = (IF me.scaled THEN me.win_scaled_pkts + 1 ELSE me.win_scaled_pkts)
    BY <2>1, <2>3 DEF If
  <2>8. CASE \A f \in Windowing : r.me[f] = v[f]
    <3>1. /\ r.me.win_tot = me.win_tot /\ r.me.win_max = me.win_max
          /\ r.me.scaled = me.scaled /\ r.me.win_scaled_pkts = v.win_scaled_pkts
      BY <2>2, <2>8 DEF Windowing
    <3> QED
      BY <1>4, <2>3, <2>5, <2>6, <2>7, <3>1 DEF WindowsInv, n
  <2>9. CASE /\ win > 0 /\ r.me.scaled = TRUE /\ r.me.win_tot = win /\ r.me.win_max = win
             /\ r.me.win_scaled_pkts = 1
    <3>1. /\ r.me.win_tot <= r.me.win_max * r.me.win_scaled_pkts
          /\ r.me.win_tot \in Int /\ r.me.win_max \in Nat
      BY <1>1, <2>9
    <3>2. r.me.packets \in Nat /\ r.me.win_scaled_pkts \in Nat /\ r.me.scaled = TRUE
      BY <2>3, <2>6, <2>9
    <3> QED
      BY ONLY <1>4, <3>1, <3>2 DEF WindowsInv
  <2>10. CASE /\ r.me.scaled = v.scaled /\ r.me.win_scaled_pkts = v.win_scaled_pkts
              /\ r.me.win_tot = v.win_tot + win /\ r.me.win_max = Max({v.win_max, win})
    <3>1. r.me.win_max = most /\ r.me.win_tot = me.win_tot + win /\ r.me.scaled = me.scaled
      BY <2>2, <2>10 DEF most
    <3> QED
      BY <1>1, <1>4, <2>3, <2>4, <2>5, <2>6, <2>7, <2>10, <3>1 DEF WindowsInv, n
  <2> QED
    BY <2>1, <2>8, <2>9, <2>10 DEF WindowStep
<1> QED
  BY <1>2, <1>3, <1>6

LEMMA DivideWhole ==
    ASSUME NEW D \in Nat \ {0}, NEW a \in Nat
    PROVE  \E q \in Nat, r \in 0..(D - 1) : a = D * q + r /\ r = a % D
<1>1. /\ a \div D \in Nat /\ a % D \in 0..(D - 1)
      /\ D * (a \div D) <= a /\ a < D * (a \div D) + D
  BY DivMod
<1>2. D * (a \div D) \in Nat
  BY <1>1
<1>3. a - D * (a \div D) \in 0..(D - 1) /\ a = D * (a \div D) + (a - D * (a \div D))
  BY <1>1, <1>2
<1>4. (D * (a \div D) + (a - D * (a \div D))) % D = a - D * (a \div D)
  BY <1>1, <1>3, ModUnique
<1> QED
  BY <1>1, <1>3, <1>4

\* Where the number of a position is.
LEMMA NumberQuad ==
    ASSUME NEW isn \in Seqnum, NEW y \in Nat
    PROVE  Number(isn, y) \in Seqnum /\ QUADNUM(Number(isn, y)) \in Index
<1> DEFINE m == (isn + y) % SeqSize
<1>0. /\ QuadSize \in Nat \ {0} /\ SeqSize \in Nat \ {0} /\ SeqSize = 4 * QuadSize
      /\ isn + y \in Nat
  BY QuadPositive DEF Seqnum
<1>1. m \in 0..(SeqSize - 1)
  BY <1>0, DivMod
<1> HIDE DEF m
<1>2. m \div QuadSize \in Nat /\ QuadSize * (m \div QuadSize) <= m
  BY <1>0, <1>1, DivMod
<1>3. \A q \in Nat : QuadSize * q <= m => q <= 3
  <2> TAKE q \in Nat
  <2> HAVE QuadSize * q <= m
  <2>1. q >= 4 => QuadSize * q >= QuadSize * 4
    BY <1>0, Z3
  <2> QED
    BY <1>0, <1>1, <2>1
<1> QED
  BY <1>1, <1>2, <1>3 DEF Number, QUADNUM, Seqnum, Index, m

\* In one turn of the sequence space only the first byte has its number.
LEMMA FirstByte ==
    ASSUME NEW isn \in Seqnum, NEW y \in Nat, y <= SeqSize, Number(isn, y) = Number(isn, 1)
    PROVE  y = 1
<1> DEFINE a == isn + 1
           b == isn + y
<1>0. SeqSize \in Nat \ {0} /\ SeqSize >= 4 /\ isn \in Nat
  BY QuadPositive DEF Seqnum
<1>1. a \in Nat /\ b \in Nat /\ b - a \in -1..(SeqSize - 1) /\ a % SeqSize = b % SeqSize
  BY <1>0 DEF Number
<1>2. b - a = y - 1
  BY <1>0
<1> HIDE DEF a, b
<1>3. PICK q \in Nat, r \in 0..(SeqSize - 1) : a = SeqSize * q + r /\ r = a % SeqSize
  BY <1>0, <1>1, DivideWhole
<1>4. PICK p \in Nat, z \in 0..(SeqSize - 1) : b = SeqSize * p + z /\ z = b % SeqSize
  BY <1>0, <1>1, DivideWhole
<1>5. SeqSize * (p - q) = b - a /\ p - q \in Int
  <2>1. SeqSize * (p - q) = SeqSize * p - SeqSize * q /\ SeqSize * p \in Int /\ SeqSize * q \in Int
    BY <1>0
  <2> QED
    BY <1>0, <1>1, <1>3, <1>4, <2>1
<1>6. \A n \in Int : SeqSize * n \in -1..(SeqSize - 1) => n = 0
  <2> TAKE n \in Int
  <2> HAVE SeqSize * n \in -1..(SeqSize - 1)
  <2>1. n >= 1 => SeqSize * n >= SeqSize
    BY <1>0, Z3
  <2>2. n <= -1 => SeqSize * n <= -SeqSize
    BY <1>0, Z3
  <2> QED
    BY <1>0, <2>1, <2>2
<1>7. p - q = 0
  BY <1>1, <1>5, <1>6
<1>8. b - a = 0
  BY <1>0, <1>5, <1>7
<1> QED
  BY <1>2, <1>8

LEMMA SynAnswered ==
    ASSUME NEW ss, NEW isn, NEW time, NEW a, NEW b, a <=> b, SynStands(ss, isn, time, a)
    PROVE  SynStands(ss, isn, time, b)
  BY DEF SynStands

\* The sender of a SYN, the first or one that was not answered.
LEMMA SynSent ==
    ASSUME NEW me, NEW sent, NEW acks, NEW sentAt, NEW ackedAt, NEW isn \in Seqnum, NEW k,
           TalkInv(me, sent, acks, sentAt, ackedAt, isn, k),
           sent <= 1, sent = 1 => acks = 0,
           NEW peer, NEW p, p.syn = TRUE, p.fin = FALSE, p.len = 0, p.seq = isn,
           NEW r, Traced(me, peer, p, k + 1, r)
    PROVE  TalkInv(r.me, 1, acks, IF sentAt = None THEN k + 1 ELSE sentAt, ackedAt, isn, k + 1)
<1> DEFINE at == IF sentAt = None THEN k + 1 ELSE sentAt
<1>1. k \in Nat /\ sent \in {0, 1} /\ acks = 0 /\ CountLimit \in Nat \ {0}
  BY SeqspaceAssumption DEF TalkInv
<1>2. /\ r.me.syn = isn /\ r.me.syn_count = (me.syn_count + 1) % CountLimit
      /\ r.me.rtt_last = me.rtt_last /\ r.me.rtt_3WHS = me.rtt_3WHS
  BY DEF Traced, Like, Fields, Steady, Windowing, Bump
<1>3. at \in 1..(k + 1)
  <2>1. CASE sent = 0
    BY <1>1, <2>1 DEF TalkInv, NothingSent
  <2>2. CASE sent = 1
    <3>1. sentAt \in 1..k
      BY <2>2 DEF TalkInv, SynKnown
    <3> QED
      BY <1>1, <3>1 DEF None
  <2> QED
    BY <1>1, <2>1, <2>2
<1>4. me.rtt_3WHS = 0 /\ ackedAt = None
  BY <1>1 DEF TalkInv, NothingAnswered
<1>5. ASSUME k + 1 <= CountLimit
      PROVE  /\ k + 1 < CountLimit => r.me.syn_count \in 1..(k + 1)
             /\ r.me.syn_count = 1 => me.syn_count = 0
  <2>1. me.syn_count \in 0..k
    BY <1>1, <1>5 DEF TalkInv, SynsCounted
  <2>2. me.syn_count + 1 \in 1..CountLimit
    BY <1>1, <1>5, <2>1
  <2>3. CASE me.syn_count + 1 < CountLimit
    <3>1. (me.syn_count + 1) % CountLimit = me.syn_count + 1
      BY <1>1, <2>1, <2>3
    <3> QED
      BY <1>1, <1>2, <2>1, <3>1
  <2>4. CASE me.syn_count + 1 = CountLimit
    <3>1. CountLimit % CountLimit = 0
      BY <1>1
    <3> QED
      BY <1>1, <1>2, <2>1, <2>4, <3>1
  <2> QED
    BY <1>1, <2>2, <2>3, <2>4
<1>6. ASSUME k + 1 <= CountLimit, r.me.syn_count = 1
      PROVE  SynStands(r.me.ss, isn, at, acks = 1) /\ r.me.rtt_last = 0
  <2>1. me.syn_count = 0 /\ k < CountLimit
    BY <1>1, <1>5, <1>6
  <2>2. sent = 0
    BY <2>1 DEF TalkInv, SynsCounted
  <2>3. /\ me.ss \in [Index -> QuadType] /\ \A i \in Index : me.ss[i].segs = {}
        /\ me.rtt_last = 0 /\ at = k + 1
    BY <2>2 DEF TalkInv, NothingSent
  <2>4. Size(p) = 1
    BY DEF Size, If
  <2>5. PICK u : "ss" \in DOMAIN u /\ u.ss = me.ss /\ r.me.ss = rexmit(u, isn, 1, k + 1).tcb.ss
    BY <2>4 DEF Traced, SpaceStep
  <2>6. SynStands(r.me.ss, isn, k + 1, FALSE)
    <3> DEFINE t == rexmit(u, isn, 1, k + 1).tcb
    <3>1. k + 1 \in Nat
      BY <1>1
    <3>2. u.ss \in [Index -> QuadType] /\ \A i \in Index : u.ss[i].segs = {}
      BY <2>3, <2>5
    <3>3. SynStands(t.ss, isn, k + 1, FALSE)
      BY ONLY <2>5, <3>1, <3>2, isn \in Seqnum, FirstSyn
    <3> QED
      BY <2>5, <3>3
  <2>7. SynStands(r.me.ss, isn, at, acks = 1)
    <3>1. FALSE <=> acks = 1
      BY <1>1
    <3>2. SynStands(r.me.ss, isn, at, FALSE)
      BY <2>3, <2>6
    <3> QED
      BY ONLY <3>1, <3>2, SynAnswered
  <2> QED
    BY <1>2, <2>3, <2>7
<1> HIDE DEF at
<1>7. SynsCounted(r.me, 1, k + 1)
  BY <1>1, <1>5 DEF SynsCounted
<1>8. NothingSent(r.me, 1, at) /\ SynKnown(r.me, 1, at, isn, k + 1)
  BY <1>2, <1>3 DEF NothingSent, SynKnown
<1>9. NothingAnswered(r.me, acks, ackedAt) /\ HandshakeTimed(r.me, 1, at, ackedAt, k + 1)
  BY <1>2, <1>4 DEF NothingAnswered, HandshakeTimed
<1>10. SynTimed(r.me, 1, acks, at, ackedAt, isn, k + 1)
  BY <1>6 DEF SynTimed
<1>11. TalkInv(r.me, 1, acks, at, ackedAt, isn, k + 1)
  BY <1>1, <1>7, <1>8, <1>9, <1>10 DEF TalkInv
<1> QED
  BY <1>11 DEF at

\* The sender of anything else.
LEMMA DataSent ==
    ASSUME NEW me, NEW sent, NEW acks, NEW sentAt, NEW ackedAt, NEW isn \in Seqnum, NEW k,
           TalkInv(me, sent, acks, sentAt, ackedAt, isn, k), sent > 0,
           NEW x \in Nat \ {0}, NEW peer, NEW p, p.syn = FALSE, p.fin \in BOOLEAN, p.len \in Nat,
           p.seq = Number(isn, x), Size(p) = 0 \/ x + Size(p) <= acks + QuadSize,
           NEW r, Traced(me, peer, p, k + 1, r), NEW more \in Nat, sent <= more
    PROVE  TalkInv(r.me, more, acks, sentAt, ackedAt, isn, k + 1)
<1>1. /\ k \in Nat /\ sent \in Nat /\ acks \in Nat /\ acks <= sent
      /\ QuadSize \in Nat /\ SeqSize \in Nat /\ CountLimit \in Nat
  BY QuadPositive, SeqspaceAssumption DEF TalkInv
<1>2. /\ r.me.syn = me.syn /\ r.me.syn_count = me.syn_count
      /\ r.me.rtt_last = me.rtt_last /\ r.me.rtt_3WHS = me.rtt_3WHS
  BY DEF Traced, Like, Fields, Steady, Windowing
<1>3. ASSUME k + 1 <= CountLimit, r.me.syn_count = 1, acks <= 1
      PROVE  /\ SynStands(r.me.ss, isn, sentAt, acks = 1)
             /\ me.rtt_last = 0 \/ (acks = 1 /\ me.rtt_last = ackedAt - sentAt)
  <2>1. /\ SynStands(me.ss, isn, sentAt, acks = 1)
        /\ me.rtt_last = 0 \/ (acks = 1 /\ me.rtt_last = ackedAt - sentAt)
    BY <1>1, <1>2, <1>3 DEF TalkInv, SynTimed
  <2>2. PICK new : /\ \/ new = me.ss
                      \/ /\ Size(p) > 0
                         /\ \E u : /\ "ss" \in DOMAIN u /\ u.ss = me.ss
                                   /\ new = rexmit(u, p.seq, Size(p), k + 1).tcb.ss
                   /\ r.me.ss = new \/ r.me.ss = whichquad(new, QUADNUM(p.seq))
    BY DEF Traced, SpaceStep
  <2>3. SynStands(new, isn, sentAt, acks = 1)
    <3>1. CASE /\ Size(p) > 0
               /\ \E u : /\ "ss" \in DOMAIN u /\ u.ss = me.ss
                         /\ new = rexmit(u, p.seq, Size(p), k + 1).tcb.ss
      <4>1. PICK u : /\ "ss" \in DOMAIN u /\ u.ss = me.ss
                     /\ new = rexmit(u, Number(isn, x), Size(p), k + 1).tcb.ss
        BY <3>1
      <4>2. Size(p) \in Nat \ {0}
        BY <3>1 DEF Size, If
      <4>3. x \in 1..QuadSize /\ x + Size(p) - 1 <= QuadSize
        BY <1>1, <1>3, <3>1, <4>2
      <4>4. SynStands(u.ss, isn, sentAt, acks = 1) /\ k + 1 \in Nat
        BY <1>1, <2>1, <4>1
      <4> QED
        BY ONLY <4>1, <4>2, <4>3, <4>4, isn \in Seqnum, DataKeepsSyn
    <3> QED
      BY <2>1, <2>2, <3>1
  <2>4. QUADNUM(p.seq) \in Index
    BY NumberQuad
  <2>5. SynStands(whichquad(new, QUADNUM(p.seq)), isn, sentAt, acks = 1)
    BY ONLY <2>3, <2>4, TurnKeepsSyn
  <2> QED
    BY <2>1, <2>2, <2>3, <2>5
<1>4. SynsCounted(r.me, more, k + 1)
  BY <1>1, <1>2 DEF TalkInv, SynsCounted
<1>5. NothingSent(r.me, more, sentAt) /\ SynKnown(r.me, more, sentAt, isn, k + 1)
  BY <1>1, <1>2 DEF TalkInv, NothingSent, SynKnown
<1>6. NothingAnswered(r.me, acks, ackedAt)
  BY <1>2 DEF TalkInv, NothingAnswered
<1>7. HandshakeTimed(r.me, more, sentAt, ackedAt, k + 1)
  <2>1. k + 1 <= CountLimit /\ more <= SeqSize => k <= CountLimit /\ sent <= SeqSize
    BY <1>1
  <2> QED
    BY <1>2, <2>1 DEF TalkInv, HandshakeTimed
<1>8. SynTimed(r.me, more, acks, sentAt, ackedAt, isn, k + 1)
  BY <1>2, <1>3 DEF SynTimed
<1> QED
  BY <1>1, <1>4, <1>5, <1>6, <1>7, <1>8 DEF TalkInv

\* The twin of a packet without an acknowledgement.
LEMMA TwinLeft ==
    ASSUME NEW peer, NEW sent, NEW acks, NEW sentAt, NEW ackedAt, NEW isn \in Seqnum, NEW k,
           TalkInv(peer, sent, acks, sentAt, ackedAt, isn, k),
           NEW me, NEW p, p.ack = FALSE, NEW r, Traced(me, peer, p, k + 1, r)
    PROVE  TalkInv(r.peer, sent, acks, sentAt, ackedAt, isn, k + 1)
<1>1. k \in Nat /\ sent \in Nat /\ acks \in Nat /\ acks <= sent /\ CountLimit \in Nat
  BY SeqspaceAssumption DEF TalkInv
<1>2. /\ r.peer.syn = peer.syn /\ r.peer.syn_count = peer.syn_count /\ r.peer.ss = peer.ss
      /\ r.peer.rtt_last = peer.rtt_last /\ r.peer.rtt_3WHS = peer.rtt_3WHS
  BY DEF Traced, Like, Fields, Steady
<1>3. k + 1 <= CountLimit => k <= CountLimit
  BY <1>1
<1>4. SynsCounted(r.peer, sent, k + 1) /\ SynKnown(r.peer, sent, sentAt, isn, k + 1)
  BY <1>1, <1>2 DEF TalkInv, SynsCounted, SynKnown
<1>5. NothingSent(r.peer, sent, sentAt) /\ NothingAnswered(r.peer, acks, ackedAt)
  BY <1>2 DEF TalkInv, NothingSent, NothingAnswered
<1>6. /\ HandshakeTimed(r.peer, sent, sentAt, ackedAt, k + 1)
      /\ SynTimed(r.peer, sent, acks, sentAt, ackedAt, isn, k + 1)
  BY <1>2, <1>3 DEF TalkInv, HandshakeTimed, SynTimed
<1> QED
  BY <1>1, <1>4, <1>5, <1>6 DEF TalkInv

\* The twin of a packet that acknowledges what it did before, or all of it.
LEMMA TwinAnswered ==
    ASSUME NEW peer, NEW sent, NEW acks, NEW sentAt, NEW ackedAt, NEW isn \in Seqnum, NEW k,
           TalkInv(peer, sent, acks, sentAt, ackedAt, isn, k), sent > 0, Fields \subseteq DOMAIN peer,
           NEW y \in {acks, sent}, NEW me, NEW p, p.ack = TRUE, p.ackno = Number(isn, y),
           NEW now, now = k + 1, NEW r, Traced(me, peer, p, now, r),
           NEW at, acks = 0 /\ p.ackno = Number(isn, 1) => at = now,
           (acks = 0 /\ p.ackno = Number(isn, 1)) \/ at = ackedAt
    PROVE  TalkInv(r.peer, sent, y, sentAt, at, isn, now)
<1> SUFFICES TalkInv(r.peer, sent, y, sentAt, at, isn, k + 1)
  OBVIOUS
<1>1. /\ k \in Nat /\ sent \in Nat /\ acks \in Nat /\ acks <= sent /\ CountLimit \in Nat
      /\ y \in Nat /\ acks <= y /\ y <= sent /\ SeqSize \in Nat /\ SeqSize >= 4
  BY QuadPositive, SeqspaceAssumption DEF TalkInv
<1>2. r.peer.syn = peer.syn /\ r.peer.syn_count = peer.syn_count
  BY DEF Traced, Like, Fields, Steady
<1>3. peer.syn = isn /\ sentAt \in 1..k
  BY DEF TalkInv, SynKnown
<1>4. PICK t, twin, win, u :
        /\ Like(peer, t, {"window_scale"})
        /\ u = ack_in(t, twin, Number(isn, y), p.len, win, k + 1).tcb
        /\ r.peer.ss = u.ss /\ r.peer.rtt_last = u.rtt_last
        /\ r.peer.rtt_3WHS = IF Number(isn, y) = Number(isn, 1) /\ peer.syn_count = 1
                             THEN u.rtt_last ELSE peer.rtt_3WHS
  <2>1. AnswerStep(peer, p, k + 1, r.peer)
    BY DEF Traced
  <2>2. U32(peer.syn + 1) = Number(isn, 1)
    BY <1>3 DEF U32, Number
  <2> QED
    BY <2>1, <2>2 DEF AnswerStep
<1>5. Number(isn, y) = Number(isn, 1) /\ sent <= SeqSize => y = 1
  BY <1>1, FirstByte
<1>6. /\ acks # 0 \/ y # 1 => (sent <= SeqSize => at = ackedAt)
      /\ acks # 0 \/ Number(isn, y) # Number(isn, 1) => at = ackedAt
      /\ acks = 0 /\ y = 1 => at = k + 1
  BY <1>5
<1>7. ASSUME k + 1 <= CountLimit, peer.syn_count = 1, y <= 1
      PROVE  /\ SynStands(r.peer.ss, isn, sentAt, y = 1)
             /\ r.peer.rtt_last = 0 \/ (y = 1 /\ r.peer.rtt_last = at - sentAt)
  <2>1. /\ SynStands(peer.ss, isn, sentAt, acks = 1)
        /\ peer.rtt_last = 0 \/ (acks = 1 /\ peer.rtt_last = ackedAt - sentAt)
    BY <1>1, <1>7 DEF TalkInv, SynTimed
  <2>2. /\ "ss" \in DOMAIN t /\ "rtt_last" \in DOMAIN t
        /\ t.ss = peer.ss /\ t.rtt_last = peer.rtt_last
    BY <1>4 DEF Like, Fields, Steady
  <2>3. y \in {0, 1} /\ (acks = 1) \in BOOLEAN /\ SynStands(t.ss, isn, sentAt, acks = 1)
    BY <1>1, <1>7, <2>1, <2>2
  <2>4. /\ SynStands(u.ss, isn, sentAt, acks = 1 \/ y = 1)
        /\ \/ u.rtt_last = t.rtt_last
           \/ y = 1 /\ ~(acks = 1) /\ u.rtt_last \in {0, Elapsed(sentAt, k + 1)}
    <3> DEFINE answered == acks = 1
    <3>1. answered \in BOOLEAN /\ y \in {0, 1} /\ SynStands(t.ss, isn, sentAt, answered)
      BY <2>3
    <3> HIDE DEF answered
    <3>2. /\ SynStands(u.ss, isn, sentAt, answered \/ y = 1)
          /\ \/ u.rtt_last = t.rtt_last
             \/ y = 1 /\ ~answered /\ u.rtt_last \in {0, Elapsed(sentAt, k + 1)}
      BY ONLY <1>4, <2>2, <3>1, isn \in Seqnum, AckKeepsSyn
    <3> QED
      BY <3>2 DEF answered
  <2>5. SynStands(r.peer.ss, isn, sentAt, y = 1)
    <3>1. acks = 1 \/ y = 1 <=> y = 1
      BY <1>1, <1>7
    <3> QED
      BY ONLY <1>4, <2>4, <3>1, SynAnswered
  <2>6. Elapsed(sentAt, k + 1) = k + 1 - sentAt
    BY <1>1, <1>3 DEF Elapsed
  <2>7. CASE u.rtt_last = t.rtt_last
    <3>1. acks = 1 => y = 1 /\ at = ackedAt
      BY <1>1, <1>6, <1>7
    <3> QED
      BY <1>4, <2>1, <2>2, <2>5, <2>7, <3>1
  <2>8. CASE y = 1 /\ ~(acks = 1) /\ u.rtt_last \in {0, Elapsed(sentAt, k + 1)}
    <3>1. acks = 0
      BY ONLY <1>1, <2>8
    <3>2. at = k + 1
      BY ONLY <1>6, <2>8, <3>1
    <3>3. r.peer.rtt_last = 0 \/ (y = 1 /\ r.peer.rtt_last = at - sentAt)
      <4>1. y = 1 /\ u.rtt_last \in {0, k + 1 - sentAt}
        BY ONLY <2>6, <2>8
      <4>2. r.peer.rtt_last = u.rtt_last
        BY ONLY <1>4
      <4> QED
        BY ONLY <1>1, <1>3, <3>2, <4>1, <4>2
    <3> QED
      BY ONLY <2>5, <3>3
  <2> QED
    BY <2>4, <2>7, <2>8
<1>8. SynsCounted(r.peer, sent, k + 1) /\ SynKnown(r.peer, sent, sentAt, isn, k + 1)
  BY <1>1, <1>2, <1>3 DEF TalkInv, SynsCounted, SynKnown
<1>9. NothingSent(r.peer, sent, sentAt)
  BY <1>1 DEF NothingSent
<1>10. NothingAnswered(r.peer, y, at)
  <2>1. ASSUME y = 0
        PROVE  r.peer.rtt_3WHS = 0 /\ at = None
    <3>1. acks = 0 /\ peer.rtt_3WHS = 0 /\ ackedAt = None
      BY <1>1, <2>1 DEF TalkInv, NothingAnswered
    <3>2. Number(isn, y) # Number(isn, 1)
      <4>1. Number(isn, 0) # Number(isn, 1)
        BY <1>1, FirstByte
      <4> QED
        BY <2>1, <4>1
    <3> QED
      BY <1>4, <1>6, <3>1, <3>2
  <2> QED
    BY <2>1 DEF NothingAnswered
<1>11. SynTimed(r.peer, sent, y, sentAt, at, isn, k + 1)
  BY <1>2, <1>7 DEF SynTimed
<1>12. HandshakeTimed(r.peer, sent, sentAt, at, k + 1)
  <2>1. ASSUME k + 1 <= CountLimit, sent <= SeqSize
        PROVE  r.peer.rtt_3WHS \in {0, at - sentAt}
    <3>1. peer.rtt_3WHS \in {0, ackedAt - sentAt}
      BY <1>1, <2>1 DEF TalkInv, HandshakeTimed
    <3>2. CASE Number(isn, y) = Number(isn, 1) /\ peer.syn_count = 1
      <4>1. y = 1
        BY <1>5, <2>1, <3>2
      <4>2. r.peer.rtt_3WHS = r.peer.rtt_last
        BY <1>4, <3>2
      <4> QED
        BY <1>7, <2>1, <3>2, <4>1, <4>2
    <3>3. CASE ~(Number(isn, y) = Number(isn, 1) /\ peer.syn_count = 1)
      <4>1. r.peer.rtt_3WHS = peer.rtt_3WHS
        BY <1>4, <3>3
      <4>2. CASE acks = 0
        <5>1. peer.rtt_3WHS = 0
          BY <4>2 DEF TalkInv, NothingAnswered
        <5> QED
          BY <4>1, <5>1
      <4>3. CASE acks # 0
        BY <1>6, <3>1, <4>1, <4>3
      <4> QED
        BY <4>2, <4>3
    <3> QED
      BY <3>2, <3>3
  <2> QED
    BY <2>1 DEF HandshakeTimed
<1> QED
  BY <1>1, <1>8, <1>9, <1>10, <1>11, <1>12 DEF TalkInv

-----------------------------------------------------------------------------
(* Conversations: the steps.                                               *)

LEMMA HostsShape ==
    /\ \A h \in Hosts : Other(h) \in Hosts /\ Other(h) # h
    /\ \A h, g \in Hosts : g = h \/ g = Other(h)
    /\ \A h \in Hosts : IsnOf[h] \in Seqnum /\ SeqAt(h, 0) = IsnOf[h]
    /\ \A h \in Hosts, x \in Nat : SeqAt(h, x) = Number(IsnOf[h], x)
<1>1. \A h \in Hosts : IsnOf[h] \in Seqnum
  BY ConversationAssumption
<1>2. \A h \in Hosts : SeqAt(h, 0) = IsnOf[h]
  <2> TAKE h \in Hosts
  <2>1. IsnOf[h] \in Nat /\ IsnOf[h] < SeqSize /\ SeqSize \in Nat \ {0} /\ IsnOf[h] + 0 = IsnOf[h]
    BY <1>1, QuadPositive DEF Seqnum
  <2>2. IsnOf[h] % SeqSize = IsnOf[h]
    BY <2>1
  <2> QED
    BY <2>1, <2>2 DEF SeqAt
<1> QED
  BY <1>1, <1>2 DEF Hosts, Other, SeqAt, Number

\* A packet acknowledges position y of o if anything was seen of it.
Answering(p, o, y) ==
    mode = "talk" => IF pos[o] = 0 THEN p.ack = FALSE
                     ELSE p.ack = TRUE /\ p.ackno = SeqAt(o, y)

LEMMA AnswersShape ==
    ASSUME NEW a \in Answers
    PROVE  /\ DOMAIN a = DOMAIN Plain /\ a.ack = FALSE /\ a.syn = FALSE /\ a.fin = FALSE
           /\ a.len = 0 /\ a.win \in Nat /\ a.ws = None
<1>1. Windows \subseteq Nat
  BY ConversationAssumption
<1> QED
  BY <1>1 DEF Answers, Plain

\* What a packet of a conversation does to its receiver.
LEMMA TwinOfTalk ==
    ASSUME ConversationInv, mode = "talk", NEW h \in Hosts, NEW o, o = Other(h),
           NEW y \in Acks(h), NEW p, Answering(p, o, y),
           NEW r, Traced(block[h], block[o], p, clock + 1, r)
    PROVE  /\ y \in Nat /\ acked[o] <= y /\ (pos[o] = 0 => y = 0)
           /\ TalkInv(r.peer, pos[o], y, synTime[o].sent,
                      IF p.ack /\ acked[o] = 0 /\ p.ackno = SeqAt(o, 1) THEN clock + 1
                      ELSE synTime[o].acked, IsnOf[o], clock + 1)
<1> DEFINE at == IF p.ack /\ acked[o] = 0 /\ p.ackno = SeqAt(o, 1) THEN clock + 1
                 ELSE synTime[o].acked
<1>1. /\ o \in Hosts /\ IsnOf[o] \in Seqnum /\ SeqAt(o, 1) = Number(IsnOf[o], 1)
      /\ y \in {acked[o], pos[o]}
  BY HostsShape DEF Acks
<1>2. /\ TalkInv(block[o], pos[o], acked[o], synTime[o].sent, synTime[o].acked, IsnOf[o], clock)
      /\ Fields \subseteq DOMAIN block[o]
  BY <1>1 DEF ConversationInv
<1>3. pos[o] \in Nat /\ acked[o] \in Nat /\ acked[o] <= pos[o]
  BY <1>2 DEF TalkInv
<1>4. y \in Nat /\ acked[o] <= y /\ (pos[o] = 0 => y = 0 /\ acked[o] = 0)
  BY <1>1, <1>3
<1>5. CASE pos[o] = 0
  <2>1. p.ack = FALSE /\ at = synTime[o].acked /\ y = acked[o]
    BY <1>4, <1>5 DEF Answering
  <2> HIDE DEF at
  <2>2. TalkInv(r.peer, pos[o], acked[o], synTime[o].sent, synTime[o].acked, IsnOf[o], clock + 1)
    BY ONLY <1>1, <1>2, <2>1, Traced(block[h], block[o], p, clock + 1, r), TwinLeft
  <2>3. TalkInv(r.peer, pos[o], y, synTime[o].sent, at, IsnOf[o], clock + 1)
    BY <2>1, <2>2
  <2> QED
    BY <1>4, <2>3 DEF at
<1>6. CASE pos[o] # 0
  <2>1. p.ack = TRUE /\ p.ackno = Number(IsnOf[o], y)
    BY <1>1, <1>4, <1>6, HostsShape DEF Answering
  <2>2. at = IF acked[o] = 0 /\ p.ackno = Number(IsnOf[o], 1) THEN clock + 1 ELSE synTime[o].acked
    BY <1>1, <2>1
  <2>3. pos[o] > 0
    BY <1>3, <1>6
  <2> HIDE DEF at
  <2>4. TalkInv(r.peer, pos[o], y, synTime[o].sent, at, IsnOf[o], clock + 1)
    <3> DEFINE me == block[h]
               peer == block[o]
               sent == pos[o]
               acks == acked[o]
               sentAt == synTime[o].sent
               ackedAt == synTime[o].acked
               isn == IsnOf[o]
    <3> DEFINE now == clock + 1
    <3>1. /\ isn \in Seqnum /\ TalkInv(peer, sent, acks, sentAt, ackedAt, isn, clock) /\ sent > 0
          /\ Fields \subseteq DOMAIN peer /\ y \in {acks, sent}
      BY <1>1, <1>2, <2>3
    <3>2. /\ p.ack = TRUE /\ p.ackno = Number(isn, y) /\ now = clock + 1
          /\ Traced(me, peer, p, now, r)
      BY <2>1
    <3>3. /\ acks = 0 /\ p.ackno = Number(isn, 1) => at = now
          /\ (acks = 0 /\ p.ackno = Number(isn, 1)) \/ at = ackedAt
      BY <2>2
    <3> HIDE DEF me, peer, sent, acks, sentAt, ackedAt, isn, now
    <3>4. TalkInv(r.peer, sent, y, sentAt, at, isn, now)
      BY ONLY <3>1, <3>2, <3>3, TwinAnswered, ZenonT(120)
    <3> QED
      BY <3>4 DEF sent, sentAt, isn, now
  <2> QED
    BY <1>4, <2>4 DEF at
<1> QED
  BY <1>5, <1>6

\* What became of the directions with r, packet p of host h, whose data begins
\* at x and which acknowledges y.
DirectionsKept(h, o, x, y, p, r) ==
    mode = "talk" =>
        /\ acked[o] <= y
        /\ TalkInv(r.me, Max({pos[h], x + p.len + If(p.syn, 1) + If(p.fin, 1)}), acked[h],
                   IF p.syn /\ synTime[h].sent = None THEN clock + 1 ELSE synTime[h].sent,
                   synTime[h].acked, IsnOf[h], clock + 1)
        /\ TalkInv(r.peer, pos[o], y, synTime[o].sent,
                   IF p.ack /\ acked[o] = 0 /\ p.ackno = SeqAt(o, 1) THEN clock + 1
                   ELSE synTime[o].acked, IsnOf[o], clock + 1)

\* A packet keeps the invariant if it keeps that of the two directions.
LEMMA PacketKeeps ==
    ASSUME ConversationInv, NEW h \in Hosts, NEW o, o = Other(h), NEW x \in Nat, NEW y \in Nat,
           NEW p, p.win \in Nat, p.ws \in Nat \cup {None}, p.len \in Nat,
           NEW r, Traced(block[h], block[o], p, clock + 1, r), Kept(h, p, x, r, clock + 1),
           mode' = mode, acked' = [acked EXCEPT ![o] = Max({@, y})],
           DirectionsKept(h, o, x, y, p, r)
    PROVE  ConversationInv'
<1> DEFINE upto == x + p.len + If(p.syn, 1) + If(p.fin, 1)
           sentAt == IF p.syn /\ synTime[h].sent = None THEN clock + 1 ELSE synTime[h].sent
           ackedAt == IF p.ack /\ acked[o] = 0 /\ p.ackno = SeqAt(o, 1) THEN clock + 1
                      ELSE synTime[o].acked
<1>1. /\ o \in Hosts /\ o # h /\ \A g \in Hosts : g = h \/ g = o
      /\ clock \in Nat /\ pos \in [Hosts -> Nat] /\ acked \in [Hosts -> Nat]
      /\ DOMAIN block = Hosts /\ DOMAIN synTime = Hosts
  BY HostsShape DEF ConversationInv
<1>2. upto \in Nat
  BY DEF If
<1>3. /\ Max({pos[h], upto}) \in Nat /\ Max({acked[o], y}) \in Nat
      /\ acked[o] <= y => Max({acked[o], y}) = y
  <2>1. pos[h] \in Nat /\ acked[o] \in Nat
    BY <1>1
  <2> HIDE DEF upto
  <2>2. pos[h] \in Int /\ upto \in Int /\ acked[o] \in Int /\ y \in Int
    BY <1>2, <2>1
  <2>3. Max({pos[h], upto}) \in {pos[h], upto}
    BY ONLY <2>2, MaxOfTwo
  <2>4. Max({acked[o], y}) \in {acked[o], y} /\ y <= Max({acked[o], y})
    BY ONLY <2>2, MaxOfTwo
  <2> QED
    BY <1>2, <2>1, <2>3, <2>4
<1>4. /\ clock' = clock + 1
      /\ block'[h] = r.me /\ block'[o] = r.peer /\ DOMAIN block' = Hosts
      /\ pos' = [pos EXCEPT ![h] = Max({@, upto})]
  BY <1>1 DEF Kept
<1>5. /\ synTime'[h] = [synTime[h] EXCEPT !.sent = sentAt]
      /\ synTime'[o] = [synTime[o] EXCEPT !.acked = ackedAt] /\ DOMAIN synTime' = Hosts
  BY <1>1 DEF Kept
<1>6. /\ synTime[h] \in [sent : Int, acked : Int] /\ synTime[o] \in [sent : Int, acked : Int]
      /\ sentAt \in Int /\ ackedAt \in Int
  BY <1>1 DEF ConversationInv
<1> HIDE DEF upto, sentAt, ackedAt
<1>7. /\ synTime'[h] \in [sent : Int, acked : Int] /\ synTime'[o] \in [sent : Int, acked : Int]
      /\ synTime'[h].sent = sentAt /\ synTime'[h].acked = synTime[h].acked
      /\ synTime'[o].sent = synTime[o].sent /\ synTime'[o].acked = ackedAt
  BY <1>5, <1>6
<1>8. /\ pos' \in [Hosts -> Nat] /\ acked' \in [Hosts -> Nat]
      /\ pos'[h] = Max({pos[h], upto}) /\ pos'[o] = pos[o]
      /\ acked'[h] = acked[h] /\ acked'[o] = Max({acked[o], y})
  BY <1>1, <1>3, <1>4
<1>9. \A g \in Hosts : Fields \subseteq DOMAIN block'[g] /\ WindowsInv(block'[g])
  <2>1. /\ Fields \subseteq DOMAIN block[h] /\ WindowsInv(block[h])
        /\ Fields \subseteq DOMAIN block[o] /\ WindowsInv(block[o])
    BY <1>1 DEF ConversationInv
  <2>2. /\ Fields \subseteq DOMAIN r.me /\ WindowsInv(r.me)
        /\ Fields \subseteq DOMAIN r.peer /\ WindowsInv(r.peer)
    BY <2>1, WindowsKept
  <2> QED
    BY <1>1, <1>4, <2>2
<1>10. ASSUME mode = "talk"
       PROVE  \A g \in Hosts : TalkInv(block'[g], pos'[g], acked'[g], synTime'[g].sent,
                                       synTime'[g].acked, IsnOf[g], clock')
  <2>1. /\ acked[o] <= y
        /\ TalkInv(r.me, Max({pos[h], upto}), acked[h], sentAt, synTime[h].acked, IsnOf[h], clock + 1)
        /\ TalkInv(r.peer, pos[o], y, synTime[o].sent, ackedAt, IsnOf[o], clock + 1)
    BY <1>10 DEF DirectionsKept, upto, sentAt, ackedAt
  <2>2. TalkInv(block'[h], pos'[h], acked'[h], synTime'[h].sent, synTime'[h].acked, IsnOf[h], clock')
    BY <1>4, <1>7, <1>8, <2>1
  <2>3. TalkInv(block'[o], pos'[o], acked'[o], synTime'[o].sent, synTime'[o].acked, IsnOf[o], clock')
    BY <1>3, <1>4, <1>7, <1>8, <2>1
  <2> QED
    BY <1>1, <2>2, <2>3
<1>11. mode' \in {"talk", "middle", "flow"} /\ clock' \in Nat
  BY <1>1, <1>4 DEF ConversationInv
<1>12. \A g \in Hosts : synTime'[g] \in [sent : Int, acked : Int]
  BY <1>1, <1>7
<1> QED
  BY <1>4, <1>5, <1>8, <1>9, <1>10, <1>11, <1>12 DEF ConversationInv

\* What dotrace makes of a packet of host h.
LEMMA PacketTraced ==
    ASSUME ConversationInv, NEW h \in Hosts, NEW o, o = Other(h), NEW p, p.len \in Nat, NEW now
    PROVE  Traced(block[h], block[o], p, now, dotrace(block[h], block[o], p, now))
<1>1. Fields \subseteq DOMAIN block[h] /\ Fields \subseteq DOMAIN block[o]
  BY HostsShape DEF ConversationInv
<1> QED
  BY <1>1, DotraceShape

LEMMA SynKeeps ==
    ASSUME ConversationInv, NEW h \in Hosts, NEW y \in {0, 1}, NEW ws \in {None, 1},
           y \in Acks(h), Syn(h, y, ws)
    PROVE  ConversationInv'
<1> DEFINE o == Other(h)
           q == [Plain EXCEPT !.syn = TRUE, !.seq = SeqAt(h, 0), !.ws = ws]
           p == Covering(h, q, y)
           r == dotrace(block[h], block[o], p, clock + 1)
           z == IF pos[o] = 0 THEN 0 ELSE y
           at == IF p.ack /\ acked[o] = 0 /\ p.ackno = SeqAt(o, 1) THEN clock + 1
                 ELSE synTime[o].acked
<1>1. /\ Kept(h, p, 0, r, clock + 1) /\ mode' = mode
      /\ acked' = [acked EXCEPT ![o] = Max({@, z})]
      /\ pos[h] <= 1 /\ (pos[h] = 1 => acked[h] = 0)
  BY DEF Syn, Trace, Acked
<1>2. /\ DOMAIN q = DOMAIN Plain /\ q.ack = FALSE /\ q.syn = TRUE /\ q.fin = FALSE /\ q.len = 0
      /\ q.seq = SeqAt(h, 0) /\ q.win = 1 /\ q.ws = ws
  BY DEF Plain
<1>p. p = Covering(h, q, y)
  OBVIOUS
<1> HIDE DEF q, p
<1>3. /\ p.syn = TRUE /\ p.fin = FALSE /\ p.len = 0 /\ p.seq = IsnOf[h] /\ p.win = 1 /\ p.ws = ws
      /\ Answering(p, o, y)
  <2>1. /\ p.syn = q.syn /\ p.fin = q.fin /\ p.len = q.len /\ p.seq = q.seq
        /\ p.win = q.win /\ p.ws = q.ws /\ Answering(p, o, y)
    BY <1>2, <1>p DEF Answering, Covering, Plain
  <2> QED
    BY <1>2, <2>1, HostsShape
<1>4. Traced(block[h], block[o], p, clock + 1, r)
  BY <1>3, PacketTraced
<1> HIDE DEF r
<1>5. pos[h] \in Nat /\ h \in Hosts /\ IsnOf[h] \in Seqnum /\ o \in Hosts
  BY HostsShape DEF ConversationInv
<1>6. Max({pos[h], 0 + p.len + If(p.syn, 1) + If(p.fin, 1)}) = 1
  <2>1. 0 + p.len + If(p.syn, 1) + If(p.fin, 1) = 1
    BY <1>3 DEF If
  <2>2. pos[h] \in Int /\ 1 \in Int
    BY <1>5
  <2>3. Max({pos[h], 1}) \in {pos[h], 1} /\ 1 <= Max({pos[h], 1})
    BY ONLY <2>2, MaxOfTwo
  <2> QED
    BY <1>1, <1>5, <2>1, <2>3
<1>7. ASSUME mode = "talk"
      PROVE  /\ acked[o] <= z
             /\ TalkInv(r.me, 1, acked[h],
                        IF p.syn /\ synTime[h].sent = None THEN clock + 1 ELSE synTime[h].sent,
                        synTime[h].acked, IsnOf[h], clock + 1)
             /\ TalkInv(r.peer, pos[o], z, synTime[o].sent, at, IsnOf[o], clock + 1)
  <2>1. TalkInv(block[h], pos[h], acked[h], synTime[h].sent, synTime[h].acked, IsnOf[h], clock)
    BY <1>7 DEF ConversationInv
  <2>2. TalkInv(r.me, 1, acked[h], IF synTime[h].sent = None THEN clock + 1 ELSE synTime[h].sent,
                synTime[h].acked, IsnOf[h], clock + 1)
    BY ONLY <1>1, <1>3, <1>4, <1>5, <2>1, SynSent
  <2>3. /\ y \in Nat /\ acked[o] <= y /\ (pos[o] = 0 => y = 0)
        /\ TalkInv(r.peer, pos[o], y, synTime[o].sent, at, IsnOf[o], clock + 1)
    BY <1>3, <1>4, <1>7, TwinOfTalk
  <2>4. z = y
    BY <2>3
  <2> QED
    BY <1>3, <2>2, <2>3, <2>4
<1>8. z \in Nat
  OBVIOUS
<1> HIDE DEF z
<1>9. DirectionsKept(h, o, 0, z, p, r)
  BY <1>6, <1>7 DEF DirectionsKept
<1>10. p.win \in Nat /\ p.ws \in Nat \cup {None} /\ p.len \in Nat /\ 0 \in Nat
  BY <1>3
<1> QED
  BY ONLY ConversationInv, h \in Hosts, <1>1, <1>4, <1>8, <1>9, <1>10, PacketKeeps

LEMMA DataKeeps ==
    ASSUME ConversationInv, NEW h \in Hosts, NEW len \in Lens, NEW fin \in BOOLEAN,
           NEW x \in 1..pos[h], NEW y \in Acks(h), Data(h, x, len, y, fin)
    PROVE  ConversationInv'
<1> DEFINE o == Other(h)
           q == [Plain EXCEPT !.fin = fin, !.seq = SeqAt(h, x), !.len = len,
                              !.saved = len, !.id = If(fin, 1)]
           p == Covering(h, q, y)
           r == dotrace(block[h], block[o], p, clock + 1)
           upto == x + p.len + If(p.syn, 1) + If(p.fin, 1)
           more == Max({pos[h], upto})
           at == IF p.ack /\ acked[o] = 0 /\ p.ackno = SeqAt(o, 1) THEN clock + 1
                 ELSE synTime[o].acked
<1>1. /\ Kept(h, p, x, r, clock + 1) /\ mode' = mode
      /\ acked' = [acked EXCEPT ![o] = Max({@, y})]
      /\ mode = "flow" \/ x + len + If(fin, 1) <= acked[h] + Outstanding
  BY DEF Data, Trace, Acked
<1>2. /\ DOMAIN q = DOMAIN Plain /\ q.ack = FALSE /\ q.syn = FALSE /\ q.fin = fin /\ q.len = len
      /\ q.seq = SeqAt(h, x) /\ q.win = 1 /\ q.ws = None
  BY DEF Plain
<1>p. p = Covering(h, q, y)
  OBVIOUS
<1> HIDE DEF q, p
<1>3. /\ p.syn = FALSE /\ p.fin = fin /\ p.len = len /\ p.seq = SeqAt(h, x) /\ p.win = 1
      /\ p.ws = None
      /\ Answering(p, o, y)
  <2>1. /\ p.syn = q.syn /\ p.fin = q.fin /\ p.len = q.len /\ p.seq = q.seq
        /\ p.win = q.win /\ p.ws = q.ws /\ Answering(p, o, y)
    BY <1>2, <1>p DEF Answering, Covering, Plain
  <2> QED
    BY <1>2, <2>1
<1>4. /\ pos[h] \in Nat /\ acked[h] \in Nat /\ pos[o] \in Nat /\ acked[o] \in Nat /\ o \in Hosts
      /\ x \in Nat \ {0} /\ pos[h] > 0 /\ y \in Nat /\ len \in Nat /\ IsnOf[h] \in Seqnum
      /\ p.seq = Number(IsnOf[h], x) /\ Outstanding \in Nat /\ Outstanding <= QuadSize
      /\ QuadSize \in Nat
  <2>1. /\ pos[h] \in Nat /\ acked[h] \in Nat /\ pos[o] \in Nat /\ acked[o] \in Nat /\ o \in Hosts
    BY HostsShape DEF ConversationInv
  <2>2. x \in Nat \ {0} /\ pos[h] > 0 /\ y \in Nat
    BY <2>1 DEF Acks
  <2>3. Outstanding \in Nat /\ Outstanding <= QuadSize /\ QuadSize \in Nat /\ len \in Nat
    BY ConversationAssumption, SeqspaceAssumption
  <2> QED
    BY <1>3, <2>1, <2>2, <2>3, HostsShape
<1>5. Traced(block[h], block[o], p, clock + 1, r)
  BY <1>3, <1>4, PacketTraced
<1> HIDE DEF r
<1>6. more \in Nat /\ pos[h] <= more
  <2>1. upto \in Nat /\ upto \in Int /\ pos[h] \in Int
    BY <1>3, <1>4 DEF If
  <2> HIDE DEF upto
  <2>2. more \in {pos[h], upto} /\ pos[h] <= more
    BY ONLY <2>1, MaxOfTwo DEF more
  <2> QED
    BY <1>4, <2>1, <2>2
<1>7. ASSUME mode = "talk"
      PROVE  /\ acked[o] <= y
             /\ TalkInv(r.me, more, acked[h],
                        IF p.syn /\ synTime[h].sent = None THEN clock + 1 ELSE synTime[h].sent,
                        synTime[h].acked, IsnOf[h], clock + 1)
             /\ TalkInv(r.peer, pos[o], y, synTime[o].sent, at, IsnOf[o], clock + 1)
  <2> HIDE DEF more, upto
  <2>1. TalkInv(block[h], pos[h], acked[h], synTime[h].sent, synTime[h].acked, IsnOf[h], clock)
    BY <1>7 DEF ConversationInv
  <2>2. p.fin \in BOOLEAN /\ p.len \in Nat /\ (Size(p) = 0 \/ x + Size(p) <= acked[h] + QuadSize)
    BY <1>1, <1>3, <1>4, <1>7 DEF Size, If
  <2>3. TalkInv(r.me, more, acked[h], synTime[h].sent, synTime[h].acked, IsnOf[h], clock + 1)
    BY ONLY <1>3, <1>4, <1>5, <1>6, <2>1, <2>2, DataSent
  <2>4. /\ acked[o] <= y
        /\ TalkInv(r.peer, pos[o], y, synTime[o].sent, at, IsnOf[o], clock + 1)
    BY <1>3, <1>5, <1>7, TwinOfTalk
  <2> QED
    BY <1>3, <2>3, <2>4
<1>8. DirectionsKept(h, o, x, y, p, r)
  BY <1>7 DEF DirectionsKept
<1>9. /\ p.win \in Nat /\ p.ws \in Nat \cup {None} /\ p.len \in Nat
      /\ x \in Nat /\ y \in Nat
  BY <1>3, <1>4
<1> QED
  BY ONLY ConversationInv, h \in Hosts, <1>1, <1>5, <1>8, <1>9, PacketKeeps

LEMMA AnswerKeeps ==
    ASSUME ConversationInv, NEW h \in Hosts, NEW a \in Answers, NEW y \in Acks(h), Answer(h, y, a)
    PROVE  ConversationInv'
<1> DEFINE o == Other(h)
           q == [a EXCEPT !.seq = SeqAt(h, pos[h])]
           p == Covering(h, q, y)
           r == dotrace(block[h], block[o], p, clock + 1)
           upto == pos[h] + p.len + If(p.syn, 1) + If(p.fin, 1)
           at == IF p.ack /\ acked[o] = 0 /\ p.ackno = SeqAt(o, 1) THEN clock + 1
                 ELSE synTime[o].acked
<1>1. /\ Kept(h, p, pos[h], r, clock + 1) /\ mode' = mode /\ pos[h] > 0
      /\ acked' = [acked EXCEPT ![o] = Max({@, y})]
  BY DEF Answer, Trace, Acked
<1>2. /\ DOMAIN q = DOMAIN Plain /\ q.ack = FALSE /\ q.syn = FALSE /\ q.fin = FALSE /\ q.len = 0
      /\ q.seq = SeqAt(h, pos[h]) /\ q.win \in Nat /\ q.ws = None
  <2>1. /\ DOMAIN a = DOMAIN Plain /\ a.ack = FALSE /\ a.syn = FALSE /\ a.fin = FALSE
        /\ a.len = 0 /\ a.win \in Nat /\ a.ws = None
    BY ONLY a \in Answers, AnswersShape
  <2>2. "seq" \in DOMAIN a
    BY <2>1 DEF Plain
  <2> QED
    BY <2>1, <2>2
<1>p. p = Covering(h, q, y)
  OBVIOUS
<1> HIDE DEF q, p
<1>3. /\ p.syn = FALSE /\ p.fin = FALSE /\ p.len = 0 /\ p.seq = SeqAt(h, pos[h]) /\ p.win \in Nat
      /\ p.ws = None /\ Answering(p, o, y)
  <2>1. /\ p.syn = q.syn /\ p.fin = q.fin /\ p.len = q.len /\ p.seq = q.seq
        /\ p.win = q.win /\ p.ws = q.ws /\ Answering(p, o, y)
    BY <1>2, <1>p DEF Answering, Covering, Plain
  <2> QED
    BY <1>2, <2>1
<1>4. /\ pos[h] \in Nat \ {0} /\ acked[h] \in Nat /\ y \in Nat /\ IsnOf[h] \in Seqnum
      /\ p.seq = Number(IsnOf[h], pos[h]) /\ o \in Hosts
  <2>1. /\ pos[h] \in Nat \ {0} /\ acked[h] \in Nat /\ o \in Hosts
        /\ pos[o] \in Nat /\ acked[o] \in Nat
    BY <1>1, HostsShape DEF ConversationInv
  <2> QED
    BY <1>3, <2>1, HostsShape DEF Acks
<1>5. Traced(block[h], block[o], p, clock + 1, r)
  BY <1>3, PacketTraced
<1> HIDE DEF r
<1>6. upto = pos[h] /\ Max({pos[h], upto}) = pos[h]
  <2>1. upto = pos[h] /\ pos[h] \in Int
    BY <1>3, <1>4 DEF If
  <2> HIDE DEF upto
  <2>2. Max({pos[h], pos[h]}) \in {pos[h], pos[h]}
    BY ONLY <2>1, MaxOfTwo
  <2> QED
    BY <2>1, <2>2
<1>7. ASSUME mode = "talk"
      PROVE  /\ acked[o] <= y
             /\ TalkInv(r.me, pos[h], acked[h],
                        IF p.syn /\ synTime[h].sent = None THEN clock + 1 ELSE synTime[h].sent,
                        synTime[h].acked, IsnOf[h], clock + 1)
             /\ TalkInv(r.peer, pos[o], y, synTime[o].sent, at, IsnOf[o], clock + 1)
  <2> HIDE DEF upto
  <2>1. TalkInv(block[h], pos[h], acked[h], synTime[h].sent, synTime[h].acked, IsnOf[h], clock)
    BY <1>7 DEF ConversationInv
  <2>2. /\ p.fin \in BOOLEAN /\ p.len \in Nat /\ Size(p) = 0
        /\ pos[h] \in Nat /\ pos[h] > 0 /\ pos[h] <= pos[h]
    <3>1. If(p.syn, 1) = 0 /\ If(p.fin, 1) = 0 /\ p.fin \in BOOLEAN /\ p.len = 0
      BY <1>3 DEF If
    <3>3. Size(p) = 0
      BY <3>1 DEF Size
    <3>2. pos[h] \in Nat /\ pos[h] > 0 /\ pos[h] <= pos[h]
      BY <1>4
    <3> QED
      BY <3>1, <3>2, <3>3
  <2>3. TalkInv(r.me, pos[h], acked[h], synTime[h].sent, synTime[h].acked, IsnOf[h], clock + 1)
    BY ONLY <1>3, <1>4, <1>5, <2>1, <2>2, DataSent
  <2>4. /\ acked[o] <= y
        /\ TalkInv(r.peer, pos[o], y, synTime[o].sent, at, IsnOf[o], clock + 1)
    BY <1>3, <1>5, <1>7, TwinOfTalk
  <2> QED
    BY <1>3, <2>3, <2>4
<1>8. DirectionsKept(h, o, pos[h], y, p, r)
  BY <1>6, <1>7 DEF DirectionsKept
<1>9. /\ p.win \in Nat /\ p.ws \in Nat \cup {None} /\ p.len \in Nat
      /\ pos[h] \in Nat /\ y \in Nat
  BY <1>3, <1>4
<1> QED
  BY ONLY ConversationInv, h \in Hosts, <1>1, <1>5, <1>8, <1>9, PacketKeeps

LEMMA ConversationBegins ==
    ASSUME ConversationInit
    PROVE  ConversationInv
<1>1. /\ Fields \subseteq DOMAIN NewTcb /\ NewTcb.ss = NewSeqspace
      /\ \A f \in {"syn_count", "rtt_last", "rtt_3WHS", "window_scale", "packets",
                   "win_scaled_pkts", "win_tot", "win_max"} : NewTcb[f] = 0
      /\ NewTcb.scaled = FALSE
  BY DEF NewTcb, RttFields, TcbCounters, TcbFlags, Fields, Steady
<1>2. WindowsInv(NewTcb)
  <2>1. /\ NewTcb.window_scale = 0 /\ NewTcb.packets = 0 /\ NewTcb.win_scaled_pkts = 0
        /\ NewTcb.win_tot = 0 /\ NewTcb.win_max = 0 /\ NewTcb.scaled = FALSE
    BY <1>1
  <2>2. (IF NewTcb.scaled THEN NewTcb.win_scaled_pkts ELSE NewTcb.packets) = 0
    BY <2>1
  <2>3. NewTcb.scaled \in BOOLEAN
    BY ONLY <2>1
  <2>4. NewTcb.win_tot <= NewTcb.win_max * (IF NewTcb.scaled THEN NewTcb.win_scaled_pkts
                                            ELSE NewTcb.packets)
    <3> DEFINE n == IF NewTcb.scaled THEN NewTcb.win_scaled_pkts ELSE NewTcb.packets
    <3>1. NewTcb.win_max * n = 0
      BY ONLY <2>1, <2>2
    <3> HIDE DEF n
    <3>2. NewTcb.win_tot <= NewTcb.win_max * n
      BY ONLY <2>1, <3>1
    <3> QED
      BY ONLY <3>2 DEF n
  <2>5. /\ NewTcb.window_scale \in Nat /\ NewTcb.packets \in Nat
        /\ NewTcb.win_scaled_pkts \in Nat /\ NewTcb.win_tot \in Int /\ NewTcb.win_max \in Nat
    BY ONLY <2>1
  <2> QED
    BY ONLY <2>3, <2>4, <2>5 DEF WindowsInv
<1>3. NewTcb.ss \in [Index -> QuadType] /\ \A i \in Index : NewTcb.ss[i].segs = {}
  BY <1>1 DEF NewSeqspace, NoQuad, QuadType
<1>4. \A isn : TalkInv(NewTcb, 0, 0, None, None, isn, 0)
  <2> TAKE isn
  <2>1. SynsCounted(NewTcb, 0, 0) /\ NothingSent(NewTcb, 0, None)
    BY <1>1, <1>3 DEF SynsCounted, NothingSent
  <2>2. SynKnown(NewTcb, 0, None, isn, 0) /\ NothingAnswered(NewTcb, 0, None)
    BY <1>1 DEF SynKnown, NothingAnswered
  <2>3. /\ SynTimed(NewTcb, 0, 0, None, None, isn, 0)
        /\ HandshakeTimed(NewTcb, 0, None, None, 0)
    BY <1>1 DEF SynTimed, HandshakeTimed
  <2> QED
    BY <2>1, <2>2, <2>3 DEF TalkInv
<1>5. \A h \in Hosts : /\ block[h] = NewTcb /\ pos[h] = FirstPos /\ acked[h] = FirstPos
                       /\ synTime[h] = [sent |-> None, acked |-> None]
  BY DEF ConversationInit, Both
<1>6. /\ DOMAIN block = Hosts /\ DOMAIN synTime = Hosts /\ clock = 0
      /\ pos \in [Hosts -> Nat] /\ acked \in [Hosts -> Nat]
      /\ mode \in {"talk", "middle", "flow"} /\ (mode = "talk" => FirstPos = 0)
  BY DEF ConversationInit, Both, FirstPos
<1>7. \A h \in Hosts : synTime[h] \in [sent : Int, acked : Int]
  BY <1>5 DEF None
<1>8. ASSUME mode = "talk", NEW h \in Hosts
      PROVE  TalkInv(block[h], pos[h], acked[h], synTime[h].sent, synTime[h].acked, IsnOf[h], clock)
  <2>1. /\ block[h] = NewTcb /\ pos[h] = 0 /\ acked[h] = 0 /\ clock = 0
        /\ synTime[h].sent = None /\ synTime[h].acked = None
    BY <1>5, <1>6, <1>8
  <2> QED
    BY <1>4, <2>1
<1> QED
  BY <1>1, <1>2, <1>5, <1>6, <1>7, <1>8 DEF ConversationInv

LEMMA ConversationInvHolds == ConversationSpec => []ConversationInv
<1>1. ConversationInit => ConversationInv
  BY ConversationBegins
<1>2. ConversationInv /\ [ConversationNext]_conversationVars => ConversationInv'
  <2> SUFFICES ASSUME ConversationInv, [ConversationNext]_conversationVars
               PROVE  ConversationInv'
    OBVIOUS
  <2>1. ASSUME NEW h \in Hosts, NEW y \in {0, 1}, NEW ws \in {None, 1},
               y \in Acks(h), Syn(h, y, ws)
        PROVE  ConversationInv'
    BY <2>1, SynKeeps
  <2>2. ASSUME NEW h \in Hosts, NEW len \in Lens, NEW fin \in BOOLEAN,
               NEW x \in 1..pos[h], NEW y \in Acks(h), Data(h, x, len, y, fin)
        PROVE  ConversationInv'
    BY <2>2, DataKeeps
  <2>3. ASSUME NEW h \in Hosts, NEW p \in Answers, NEW y \in Acks(h), Answer(h, y, p)
        PROVE  ConversationInv'
    BY <2>3, AnswerKeeps
  <2>4. CASE UNCHANGED conversationVars
    BY <2>4 DEF conversationVars, ConversationInv
  <2> QED
    BY <2>1, <2>2, <2>3, <2>4 DEF ConversationNext
<1> QED
  BY <1>1, <1>2, PTL DEF ConversationSpec

(* For any conversation, any length of its streams and any loss, delay and  *)
(* repetition of its packets: the round trip dotrace takes for that of the  *)
(* handshake is the time from the only SYN to its acknowledgement or none   *)
(* (trace.c:1835-1837), and the average window is at most the largest one.  *)
THEOREM MeasuresOfAnyConversation == ConversationSpec => []MeasuresAreOfTheConnection
<1>1. ConversationInv => HandshakeIsTheSyn
  <2> SUFFICES ASSUME ConversationInv, NEW h \in Hosts, mode = "talk",
                      clock <= CountLimit, pos[h] <= SeqSize
               PROVE  block[h].rtt_3WHS \in {0, synTime[h].acked - synTime[h].sent}
    BY DEF HandshakeIsTheSyn
  <2> QED
    BY DEF ConversationInv, TalkInv, HandshakeTimed
<1>2. ConversationInv => AverageWindowIsBounded
  BY DEF ConversationInv, WindowsInv, AverageWindowIsBounded
<1> QED
  BY <1>1, <1>2, ConversationInvHolds, PTL DEF MeasuresAreOfTheConnection
=============================================================================
