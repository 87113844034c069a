------------------------- MODULE ConnectionsProofs -------------------------
(***************************************************************************)
(* What FindTTP, the lists of connections and the options -i and -o keep,  *)
(* for any numbers of endpoints, connections and packets.                  *)
(***************************************************************************)
EXTENDS Connections, FiniteSetTheorems, SequenceTheorems, WellFoundedInduction, TLAPS

-----------------------------------------------------------------------------
(* Loops.                                                                  *)

LEMMA Least ==
    ASSUME NEW S \in SUBSET Nat, S # {}
    PROVE  \E x \in S : \A y \in S : x <= y
<1> DEFINE R == OpToRel(<, Nat)
<1>1. \E x \in S : \A y \in S : ~(<<y, x>> \in R)
  BY NatLessThanWellFounded, WFMin
<1>2. R = {p \in Nat \X Nat : p[1] < p[2]}
  BY DEF OpToRel
<1> HIDE DEF R
<1>3. \A x, y \in Nat : y < x => <<y, x>> \in R
  BY <1>2
<1>4. PICK x \in S : \A y \in S : ~(<<y, x>> \in R)
  BY <1>1
<1>5. \A y \in S : ~(y < x)
  BY <1>3, <1>4, Zenon
<1> QED
  BY <1>5

\* A loop has a history of each length.
IsHistory(g, f, x, N) == g[0] = x /\ \A n \in 1..N : g[n] = f[g[n - 1]]

LEMMA History ==
    ASSUME NEW S, NEW f \in [S -> S], NEW x \in S, NEW N \in Nat
    PROVE  \E g \in [0..N -> S] : IsHistory(g, f, x, N)
<1> USE DEF IsHistory
<1> DEFINE Good(m) == \E g \in [0..m -> S] : g[0] = x /\ \A n \in 1..m : g[n] = f[g[n - 1]]
           T == {m \in Nat : ~Good(m)}
<1>1. SUFFICES ASSUME T # {}
               PROVE  FALSE
  OBVIOUS
<1>2. PICK m \in T : \A i \in T : m <= i
  <2>1. T \in SUBSET Nat
    OBVIOUS
  <2> HIDE DEF T
  <2> QED
    BY <1>1, <2>1, Least
<1>3. m \in Nat /\ ~Good(m)
  OBVIOUS
<1>4. m # 0
  <2> DEFINE z == [i \in 0..0 |-> x]
  <2>1. z \in [0..0 -> S] /\ z[0] = x /\ 1..0 = {}
    OBVIOUS
  <2> HIDE DEF z
  <2>2. Good(0)
    BY <2>1
  <2> HIDE DEF Good
  <2> QED
    BY <1>3, <2>2
<1>5. Good(m - 1)
  <2>1. m - 1 \in Nat /\ ~(m <= m - 1)
    BY <1>3, <1>4
  <2> HIDE DEF Good
  <2> QED
    BY <1>2, <2>1
<1>6. PICK g \in [0..(m - 1) -> S] : g[0] = x /\ \A n \in 1..(m - 1) : g[n] = f[g[n - 1]]
  BY <1>5
<1> DEFINE h == [i \in 0..m |-> IF i = m THEN f[g[m - 1]] ELSE g[i]]
<1>7. h \in [0..m -> S]
  BY <1>3, <1>4
<1>8. h[0] = x /\ h[m] = f[h[m - 1]] /\ \A n \in 1..(m - 1) : h[n] = g[n] /\ h[n - 1] = g[n - 1]
  BY <1>3, <1>4, <1>6
<1> HIDE DEF h
<1>9. \A n \in 1..m : h[n] = f[h[n - 1]]
  BY <1>3, <1>4, <1>6, <1>8
<1>10. Good(m)
  BY <1>7, <1>8, <1>9
<1> QED
  BY <1>3, <1>10

-----------------------------------------------------------------------------
(* Which connections to ignore.                                            *)

\* The loop of MoreTcpPairs ends with an array that is larger.
LEMMA EnlargedShape ==
    ASSUME NEW max \in Nat \ {0}, NEW needed \in Nat
    PROVE  /\ Enlarged(max, needed) \in Nat
           /\ Enlarged(max, needed) > max /\ Enlarged(max, needed) >= needed
<1> DEFINE S == {m \in Nat : m > max}
           F == [m \in S |-> IF m < needed THEN 4 * m ELSE m]
           Size(z) == [n \in 0..needed |->
                 IF n = 0 THEN 4 * max ELSE IF z[n - 1] < needed THEN 4 * z[n - 1] ELSE z[n - 1]]
           size == CHOOSE z : z = Size(z)
<1>1. F \in [S -> S] /\ 4 * max \in S /\ S \subseteq Nat
      /\ \A m \in S : F[m] = IF m < needed THEN 4 * m ELSE m
  OBVIOUS
<1>2. Enlarged(max, needed) = size[needed]
  BY DEF Enlarged
<1>3. \E z : z = Size(z)
  <2> HIDE DEF F, S
  <2> DEFINE first == 4 * max
  <2>0. first \in S
    BY <1>1
  <2>1. PICK g \in [0..needed -> S] : g[0] = 4 * max /\ \A n \in 1..needed : g[n] = F[g[n - 1]]
    <3> HIDE DEF first
    <3>0. F \in [S -> S] /\ needed \in Nat
      BY <1>1
    <3>1. \E g \in [0..needed -> S] : IsHistory(g, F, first, needed)
      BY <3>0, <2>0, History
    <3> USE DEF first
    <3> QED
      BY <3>1 DEF IsHistory
  <2>2. \A n \in 0..needed : n # 0 => n \in 1..needed /\ n - 1 \in 0..needed
    OBVIOUS
  <2>3. \A n \in 0..needed :
           g[n] = IF n = 0 THEN 4 * max ELSE IF g[n - 1] < needed THEN 4 * g[n - 1] ELSE g[n - 1]
    BY <1>1, <2>1, <2>2
  <2>4. g = [n \in 0..needed |-> g[n]]
    OBVIOUS
  <2>5. g = Size(g)
    BY <2>3, <2>4
  <2> QED
    BY <2>5
<1>4. size = Size(size)
  BY <1>3
<1> HIDE DEF size, F
<1>5. size[0] = 4 * max /\ \A n \in 1..needed :
         size[n] = IF size[n - 1] < needed THEN 4 * size[n - 1] ELSE size[n - 1]
  <2>1. \A n \in 0..needed : size[n] =
           IF n = 0 THEN 4 * max ELSE IF size[n - 1] < needed THEN 4 * size[n - 1] ELSE size[n - 1]
    BY <1>4
  <2> HIDE DEF Size
  <2> QED
    BY <2>1
<1> DEFINE Fine(n) == size[n] \in S /\ (size[n] >= needed \/ size[n] > n)
           T == {n \in Nat : n <= needed /\ ~Fine(n)}
<1>6. T = {}
  <2> SUFFICES ASSUME T # {}
               PROVE  FALSE
    OBVIOUS
  <2>1. T \in SUBSET Nat
    OBVIOUS
  <2>2. PICK n \in T : \A i \in T : n <= i
    <3> HIDE DEF T
    <3> QED
      BY <2>1, Least
  <2>3. n \in Nat /\ n <= needed /\ ~Fine(n)
    OBVIOUS
  <2>4. n # 0
    BY <1>5, <2>3
  <2>5. n - 1 \in Nat /\ n - 1 <= needed /\ ~(n <= n - 1) /\ n \in 1..needed
    BY <2>3, <2>4
  <2>6. Fine(n - 1)
    <3> HIDE DEF Fine
    <3> QED
      BY <2>2, <2>5
  <2> QED
    BY <1>5, <2>3, <2>5, <2>6
<1>7. Fine(needed)
  <2> HIDE DEF Fine
  <2> QED
    BY <1>6
<1> QED
  BY <1>2, <1>7

\* Whether a connection is to be ignored, also one beyond the array.
Ignored(s, ix) == IF ix \in 1..s.max THEN s.ignore[ix] ELSE s.more

IsSelect(s) ==
    /\ DOMAIN s = {"max", "ignore", "more", "cleared"}
    /\ s.max \in Nat \ {0} /\ s.ignore \in [1..s.max -> BOOLEAN]
    /\ s.more \in BOOLEAN /\ s.cleared \in BOOLEAN

\* Enlarging the array says the same of every connection.
LEMMA MoreSaysTheSame ==
    ASSUME NEW s, IsSelect(s), NEW needed \in Nat
    PROVE  LET b == MoreTcpPairs(s, needed)
           IN  /\ IsSelect(b) /\ b.more = s.more /\ b.cleared = s.cleared
               /\ b.max >= needed
               /\ \A ix \in Nat \ {0} : Ignored(b, ix) = Ignored(s, ix)
<1>1. CASE needed < s.max
  BY <1>1 DEF MoreTcpPairs, IsSelect
<1>2. CASE ~(needed < s.max)
  <2> DEFINE m == Enlarged(s.max, needed)
             big == [k \in 1..m |-> IF k <= s.max THEN s.ignore[k] ELSE s.more]
             b == [s EXCEPT !.max = m, !.ignore = big]
  <2>1. m \in Nat /\ m > s.max /\ m >= needed
    BY EnlargedShape DEF IsSelect
  <2>2. MoreTcpPairs(s, needed) = b
    BY <1>2 DEF MoreTcpPairs, IsSelect
  <2>3. big \in [1..m -> BOOLEAN]
    BY <2>1 DEF IsSelect
  <2>4. \A k \in 1..m : big[k] = IF k <= s.max THEN s.ignore[k] ELSE s.more
    OBVIOUS
  <2> HIDE DEF m, big
  <2>5. /\ b.max = m /\ b.ignore = big /\ b.more = s.more /\ b.cleared = s.cleared
        /\ DOMAIN b = DOMAIN s
    BY DEF IsSelect
  <2> HIDE DEF b
  <2>6. IsSelect(b)
    BY <2>1, <2>3, <2>5 DEF IsSelect
  <2>7. \A ix \in Nat \ {0} : Ignored(b, ix) = Ignored(s, ix)
    BY <2>1, <2>4, <2>5 DEF Ignored, IsSelect
  <2> QED
    BY <2>1, <2>2, <2>5, <2>6, <2>7
<1> QED
  BY <1>1, <1>2

\* What -i says, as long as there was no -o.
SaysIgnore(b, s, ix) ==
    /\ IsSelect(b) /\ b.more = FALSE /\ b.cleared = s.cleared
    /\ \A j \in Nat \ {0} : Ignored(b, j) = (j = ix \/ Ignored(s, j))

LEMMA IgnoreSays ==
    ASSUME NEW s, IsSelect(s), ~s.more, NEW ix \in Nat \ {0},
           ix <= MoreTcpPairs(s, ix - 1).max
    PROVE  SaysIgnore(IgnoreConn(s, ix), s, ix)
<1> DEFINE needed == ix - 1
           big == MoreTcpPairs(s, needed)
           flags == [big.ignore EXCEPT ![ix] = TRUE]
           b == [big EXCEPT !.more = FALSE, !.ignore = flags]
<1>1. needed \in Nat
  OBVIOUS
<1>2. ix <= big.max
  OBVIOUS
<1>3. IgnoreConn(s, ix) = [big EXCEPT !.more = FALSE, !.ignore[ix] = TRUE]
  BY DEF IgnoreConn
<1> HIDE DEF needed
<1>4. /\ IsSelect(big) /\ big.more = s.more /\ big.cleared = s.cleared
      /\ \A j \in Nat \ {0} : Ignored(big, j) = Ignored(s, j)
  BY <1>1, MoreSaysTheSame
<1> HIDE DEF big
<1>5. IgnoreConn(s, ix) = b
  BY <1>3, <1>4 DEF IsSelect
<1>6. flags \in [1..big.max -> BOOLEAN] /\ \A j \in 1..big.max : flags[j] = (j = ix \/ big.ignore[j])
  BY <1>4 DEF IsSelect
<1> HIDE DEF flags
<1>7. /\ b.max = big.max /\ b.ignore = flags /\ b.more = FALSE /\ b.cleared = s.cleared
      /\ DOMAIN b = DOMAIN big
  BY <1>4 DEF IsSelect
<1> HIDE DEF b
<1>8. IsSelect(b)
  BY <1>4, <1>6, <1>7 DEF IsSelect
<1>9. ASSUME NEW j \in Nat \ {0}
      PROVE  Ignored(b, j) = (j = ix \/ Ignored(big, j))
  <2>1. ix \in 1..big.max /\ big.max \in Nat /\ big.more = FALSE
    BY <1>2, <1>4 DEF IsSelect
  <2>2. CASE j \in 1..big.max
    <3>1. Ignored(b, j) = flags[j] /\ Ignored(big, j) = big.ignore[j]
      BY <1>7, <2>2 DEF Ignored
    <3> QED
      BY <1>6, <2>2, <3>1
  <2>3. CASE j \notin 1..big.max
    <3>1. Ignored(b, j) = FALSE /\ Ignored(big, j) = FALSE /\ j # ix
      BY <1>7, <2>1, <2>3 DEF Ignored
    <3> QED
      BY <3>1
  <2> QED
    BY <2>2, <2>3
<1> QED
  BY <1>4, <1>5, <1>7, <1>8, <1>9 DEF SaysIgnore

\* What -o says: the first of them ignores all others.
SaysOnly(b, s, ix) ==
    /\ IsSelect(b) /\ b.more = TRUE /\ b.cleared = TRUE
    /\ \A j \in Nat \ {0} : Ignored(b, j) = (j # ix /\ (s.cleared => Ignored(s, j)))

LEMMA OnlySays ==
    ASSUME NEW s, IsSelect(s), s.cleared => s.more, NEW ix \in Nat \ {0},
           ix <= MoreTcpPairs(s, ix - 1).max
    PROVE  SaysOnly(OnlyConn(s, ix), s, ix)
<1> DEFINE needed == ix - 1
           big == MoreTcpPairs(s, needed)
           all == IF s.cleared THEN big.ignore ELSE [k \in 1..big.max |-> TRUE]
           flags == [all EXCEPT ![ix] = FALSE]
           b == [max |-> big.max, ignore |-> flags, more |-> TRUE, cleared |-> TRUE]
<1>1. needed \in Nat
  OBVIOUS
<1>2. ix <= big.max
  OBVIOUS
<1>3. OnlyConn(s, ix) = b
  BY DEF OnlyConn
<1> HIDE DEF needed
<1>4. /\ IsSelect(big) /\ big.more = s.more /\ big.cleared = s.cleared
      /\ \A j \in Nat \ {0} : Ignored(big, j) = Ignored(s, j)
  BY <1>1, MoreSaysTheSame
<1> HIDE DEF big
<1>5. /\ all \in [1..big.max -> BOOLEAN]
      /\ \A j \in 1..big.max : all[j] = (s.cleared => big.ignore[j])
  BY <1>4 DEF IsSelect
<1> HIDE DEF all
<1>6. flags \in [1..big.max -> BOOLEAN] /\ \A j \in 1..big.max : flags[j] = (j # ix /\ all[j])
  BY <1>5
<1> HIDE DEF flags
<1>7. /\ b.max = big.max /\ b.ignore = flags /\ b.more = TRUE /\ b.cleared = TRUE
      /\ DOMAIN b = {"max", "ignore", "more", "cleared"}
  OBVIOUS
<1> HIDE DEF b
<1>8. IsSelect(b)
  BY <1>4, <1>6, <1>7 DEF IsSelect
<1>9. ASSUME NEW j \in Nat \ {0}
      PROVE  Ignored(b, j) = (j # ix /\ (s.cleared => Ignored(big, j)))
  <2>1. ix \in 1..big.max /\ big.max \in Nat /\ (s.cleared => big.more = TRUE)
    BY <1>2, <1>4 DEF IsSelect
  <2>2. CASE j \in 1..big.max
    <3>1. Ignored(b, j) = flags[j] /\ Ignored(big, j) = big.ignore[j]
      BY <1>7, <2>2 DEF Ignored
    <3> QED
      BY <1>5, <1>6, <2>2, <3>1
  <2>3. CASE j \notin 1..big.max
    <3>1. Ignored(b, j) = TRUE /\ (s.cleared => Ignored(big, j) = TRUE) /\ j # ix
      BY <1>7, <2>1, <2>3 DEF Ignored
    <3> QED
      BY <3>1
  <2> QED
    BY <2>2, <2>3
<1> QED
  BY <1>3, <1>4, <1>7, <1>8, <1>9 DEF SaysOnly

-----------------------------------------------------------------------------
(* The records of the connections.                                         *)

UChar == 0..(CountSize - 1)
BlockType == [syn_count : UChar, fin_count : UChar, reset_count : UChar,
              syn : Nat, windowend : Nat]
PairType == [ends : Ends, a : 1..2, block : [1..2 -> BlockType], last_time : Nat,
             inactive : BOOLEAN, ignored : BOOLEAN]
PacketType == [syn : BOOLEAN, fin : BOOLEAN, rst : BOOLEAN, seq : Nat, wend : Nat]

IsWorld(w) ==
    /\ DOMAIN w = {"pr", "t", "l", "s", "found"}
    /\ w.pr \in Seq(PairType) /\ IsSelect(w.s)

\* What Count leaves alone, and what it makes of the side that sent the packet.
SameConnection(c, pair) ==
    /\ c.ends = pair.ends /\ c.a = pair.a /\ c.ignored = pair.ignored /\ c.inactive = pair.inactive

CountedBlock(b, old, p) ==
    /\ b \in BlockType
    /\ b.syn_count = Bumped(old.syn_count, p.syn)
    /\ b.fin_count = Bumped(old.fin_count, p.fin)
    /\ b.reset_count = Bumped(old.reset_count, p.rst)
    /\ b.syn = IF p.syn THEN p.seq ELSE old.syn
    /\ b.windowend = IF p.wend # 0 THEN p.wend ELSE old.windowend

Counted(c, pair, dir, p, now) ==
    /\ c \in PairType /\ SameConnection(c, pair) /\ c.last_time = now
    /\ CountedBlock(c.block[dir], pair.block[dir], p)
    /\ c.block[3 - dir] = pair.block[3 - dir]

LEMMA BumpedShape ==
    ASSUME NEW n \in UChar, NEW flag \in BOOLEAN
    PROVE  /\ Bumped(n, flag) \in UChar /\ (~flag => Bumped(n, flag) = n)
           /\ flag /\ n = 0 => Bumped(n, flag) = 1
<1>1. CountSize \in Nat /\ CountSize > 1
  BY ConnectionsAssumption DEF ConnectionsAssumption
<1>2. \A i \in UChar : i % CountSize = i
  <2> TAKE i \in UChar
  <2>1. (CountSize * 0 + i) % CountSize = i
    BY <1>1 DEF UChar
  <2>2. CountSize * 0 + i = i
    BY <1>1 DEF UChar
  <2> QED
    BY <2>1, <2>2
<1>3. \A i \in Nat : i % CountSize \in UChar
  BY <1>1 DEF UChar
<1>4. n \in Nat /\ 1 \in UChar
  BY <1>1 DEF UChar
<1>5. CASE flag
  <2>1. Bumped(n, flag) = (n + 1) % CountSize
    BY <1>5 DEF Bumped
  <2>2. n + 1 \in Nat
    BY <1>4
  <2>3. Bumped(n, flag) \in UChar
    BY <1>3, <2>1, <2>2
  <2>4. ASSUME n = 0
        PROVE  Bumped(n, flag) = 1
    <3>1. n + 1 = 1
      BY <2>4
    <3>2. 1 % CountSize = 1
      BY <1>2, <1>4
    <3> QED
      BY <2>1, <3>1, <3>2
  <2> QED
    BY <1>5, <2>3, <2>4
<1>6. CASE ~flag
  <2>1. Bumped(n, flag) = n % CountSize
    BY <1>4, <1>6 DEF Bumped
  <2> QED
    BY <1>2, <1>6, <2>1
<1> QED
  BY <1>5, <1>6

LEMMA CountShape ==
    ASSUME NEW pair \in PairType, NEW dir \in 1..2, NEW p \in PacketType, NEW now \in Nat
    PROVE  Counted(Count(pair, dir, p, now), pair, dir, p, now)
<1> DEFINE old == pair.block[dir]
           b == [syn_count |-> Bumped(old.syn_count, p.syn),
                 fin_count |-> Bumped(old.fin_count, p.fin),
                 reset_count |-> Bumped(old.reset_count, p.rst),
                 syn |-> IF p.syn THEN p.seq ELSE old.syn,
                 windowend |-> IF p.wend # Null THEN p.wend ELSE old.windowend]
           bs == [pair.block EXCEPT ![dir] = b]
           c == [pair EXCEPT !.last_time = now, !.block = bs]
<1>1. Count(pair, dir, p, now) = c
  <2> HIDE DEF b
  <2>1. Count(pair, dir, p, now) = [pair EXCEPT !.last_time = now, !.block[dir] = b]
    BY DEF Count, b
  <2> QED
    BY <2>1 DEF PairType
<1>2. old \in BlockType /\ pair.block \in [1..2 -> BlockType]
  BY DEF PairType
<1> HIDE DEF old
<1>3. CountedBlock(b, old, p)
  <2>1. /\ p.syn \in BOOLEAN /\ p.fin \in BOOLEAN /\ p.rst \in BOOLEAN
        /\ p.seq \in Nat /\ p.wend \in Nat
    BY DEF PacketType
  <2>2. /\ old.syn_count \in UChar /\ old.fin_count \in UChar /\ old.reset_count \in UChar
        /\ old.syn \in Nat /\ old.windowend \in Nat
    BY <1>2 DEF BlockType
  <2>3. /\ Bumped(old.syn_count, p.syn) \in UChar /\ Bumped(old.fin_count, p.fin) \in UChar
        /\ Bumped(old.reset_count, p.rst) \in UChar
    BY <2>1, <2>2, BumpedShape
  <2> QED
    BY <1>2, <2>1, <2>2, <2>3 DEF CountedBlock, BlockType, Null
<1> HIDE DEF b
<1>4. b \in BlockType
  BY <1>3 DEF CountedBlock
<1>5. bs \in [1..2 -> BlockType] /\ bs[dir] = b /\ bs[3 - dir] = pair.block[3 - dir]
  BY <1>2, <1>4
<1> HIDE DEF bs
<1>6. c \in PairType /\ SameConnection(c, pair) /\ c.last_time = now /\ c.block = bs
  BY <1>5 DEF PairType, SameConnection
<1> HIDE DEF c
<1> QED
  BY <1>1, <1>3, <1>5, <1>6 DEF Counted, old

IsFirst(c, e, from) ==
    /\ c \in PairType /\ c.ends = e /\ c.a = from /\ c.inactive = FALSE
    /\ c.block[1] = NoBlock /\ c.block[2] = NoBlock

LEMMA NewPairShape ==
    ASSUME NEW e \in Ends, NEW from \in 1..2, NEW ignored \in BOOLEAN
    PROVE  /\ IsFirst(NewPair(e, from, ignored), e, from)
           /\ NewPair(e, from, ignored).ignored = ignored
<1>1. NoBlock \in BlockType
  <2>1. 0 \in UChar
    BY ConnectionsAssumption DEF ConnectionsAssumption, UChar
  <2> QED
    BY <2>1 DEF NoBlock, BlockType
<1> HIDE DEF NoBlock
<1>2. <<NoBlock, NoBlock>> \in [1..2 -> BlockType]
  BY <1>1
<1> QED
  BY <1>1, <1>2 DEF NewPair, PairType, IsFirst

-----------------------------------------------------------------------------
(* Finding the connection of a packet, without the lists.                  *)

SameSelect(b, s) ==
    /\ IsSelect(b) /\ b.more = s.more /\ b.cleared = s.cleared
    /\ \A ix \in Nat \ {0} : Ignored(b, ix) = Ignored(s, ix)

\* v is w with one more pair, n.
IsLonger(v, w, n) ==
    /\ IsWorld(v) /\ SameSelect(v.s, w.s)
    /\ n = Len(w.pr) + 1 /\ v.found = n /\ Len(v.pr) = n
    /\ \A q \in 1..Len(w.pr) : v.pr[q] = w.pr[q]

LEMMA Appended ==
    ASSUME NEW S, NEW s \in Seq(S), NEW x \in S
    PROVE  LET t == Append(s, x)
           IN  /\ t \in Seq(S) /\ Len(t) = Len(s) + 1 /\ t[Len(s) + 1] = x
               /\ \A q \in 1..Len(s) : t[q] = s[q]
OBVIOUS

\* One element of a sequence is replaced.
LEMMA Replaced ==
    ASSUME NEW S, NEW s \in Seq(S), NEW k \in 1..Len(s), NEW x \in S
    PROVE  LET t == [s EXCEPT ![k] = x]
           IN  /\ t \in Seq(S) /\ Len(t) = Len(s) /\ t[k] = x
               /\ \A q \in 1..Len(s) : q # k => t[q] = s[q]
<1> DEFINE t == [s EXCEPT ![k] = x]
<1>1. s \in [1..Len(s) -> S] /\ Len(s) \in Nat
  OBVIOUS
<1>2. t \in [1..Len(s) -> S] /\ t[k] = x /\ \A q \in 1..Len(s) : q # k => t[q] = s[q]
  BY <1>1
<1> HIDE DEF t
<1>3. t \in Seq(S) /\ Len(t) = Len(s)
  BY <1>1, <1>2, IsASeq, LenProperties
<1> QED
  BY <1>2, <1>3 DEF t

LEMMA IsSequence ==
    ASSUME NEW S, NEW n \in Nat, NEW t \in [1..n -> S]
    PROVE  t \in Seq(S) /\ Len(t) = n
BY IsASeq, LenProperties

LEMMA NewInBatch ==
    ASSUME way = "batch", NEW w, IsWorld(w), w.t \in SUBSET (1..Len(w.pr)),
           NEW e \in Ends, NEW from \in 1..2
    PROVE  LET v == NewTTP(w, e, from)
               n == Len(w.pr) + 1
           IN  /\ IsLonger(v, w, n) /\ v.t = w.t \cup {n}
               /\ IsFirst(v.pr[n], e, from) /\ v.pr[n].ignored = Ignored(w.s, n)
<1> DEFINE n == Len(w.pr) + 1
           s == MoreTcpPairs(w.s, n)
           c == NewPair(e, from, s.ignore[n])
           longer == Append(w.pr, c)
           t == w.t \cup {n}
           v == [w EXCEPT !.s = s, !.pr = longer, !.found = n, !.t = t]
<1>1. Len(w.pr) \in Nat /\ n \in Nat \ {0} /\ IsSelect(w.s) /\ w.pr \in Seq(PairType)
  BY DEF IsWorld
<1>2. IsSelect(s) /\ SameSelect(s, w.s) /\ s.ignore[n] = Ignored(w.s, n) /\ s.ignore[n] \in BOOLEAN
  <2> HIDE DEF n
  <2>1. /\ IsSelect(s) /\ s.more = w.s.more /\ s.cleared = w.s.cleared /\ s.max >= n
        /\ \A ix \in Nat \ {0} : Ignored(s, ix) = Ignored(w.s, ix)
    BY <1>1, MoreSaysTheSame
  <2> HIDE DEF s
  <2>2. n \in 1..s.max
    BY <1>1, <2>1 DEF IsSelect
  <2>3. s.ignore[n] = Ignored(s, n) /\ s.ignore[n] \in BOOLEAN
    BY <2>1, <2>2 DEF Ignored, IsSelect
  <2> QED
    BY <1>1, <2>1, <2>3 DEF SameSelect
<1>3. IsFirst(c, e, from) /\ c.ignored = s.ignore[n]
  <2> DEFINE flag == s.ignore[n]
  <2>1. flag \in BOOLEAN
    BY <1>2
  <2> HIDE DEF flag
  <2>2. IsFirst(NewPair(e, from, flag), e, from) /\ NewPair(e, from, flag).ignored = flag
    BY <2>1, NewPairShape, Zenon
  <2> QED
    BY <2>2 DEF flag
<1>4. NewTTP(w, e, from) = v
  <2> HIDE DEF s
  <2>1. Batch /\ ~Continuous
    BY DEF Batch, Continuous
  <2>2. NewTTP(w, e, from) =
          [[w EXCEPT !.s = s, !.pr = Append(@, NewPair(e, from, Batch /\ s.ignore[n])),
                     !.found = n] EXCEPT !.t = @ \cup {n}]
    BY <2>1 DEF NewTTP, s
  <2>3. (Batch /\ s.ignore[n]) = s.ignore[n]
    BY <1>2, <2>1
  <2> QED
    BY <2>2, <2>3 DEF IsWorld
<1>5. v.s = s /\ v.pr = longer /\ v.found = n /\ v.t = t /\ DOMAIN v = DOMAIN w
  BY DEF IsWorld
<1>6. /\ longer \in Seq(PairType) /\ Len(longer) = n /\ longer[n] = c
      /\ \A q \in 1..Len(w.pr) : longer[q] = w.pr[q]
  <2>1. c \in PairType
    BY <1>3 DEF IsFirst
  <2> HIDE DEF c
  <2> QED
    BY <1>1, <2>1, Appended
<1> HIDE DEF v, longer, t, s, c
<1>7. IsLonger(v, w, n)
  BY <1>1, <1>2, <1>5, <1>6 DEF IsLonger, IsWorld
<1> QED
  BY <1>2, <1>3, <1>4, <1>5, <1>6, <1>7 DEF t

\* What CountFound changes: the record of the pair that was found.
CountedWorld(y, x, from, p, now) ==
    /\ IsWorld(y) /\ y.s = x.s /\ y.t = x.t /\ y.l = x.l /\ y.found = x.found
    /\ Len(y.pr) = Len(x.pr)
    /\ \A q \in 1..Len(x.pr) : q # x.found => y.pr[q] = x.pr[q]
    /\ Counted(y.pr[x.found], x.pr[x.found], WhichDir(x.pr[x.found], from), p, now)

LEMMA CountFoundShape ==
    ASSUME NEW x, IsWorld(x), x.found \in 1..Len(x.pr), NEW from \in 1..2,
           NEW p \in PacketType, NEW now \in Nat
    PROVE  CountedWorld(CountFound(x, from, p, now), x, from, p, now)
<1> DEFINE k == x.found
           pair == x.pr[k]
           dir == WhichDir(pair, from)
           c == Count(pair, dir, p, now)
           pr == [x.pr EXCEPT ![k] = c]
           y == [x EXCEPT !.pr = pr]
<1>1. pair \in PairType /\ x.pr \in Seq(PairType) /\ k \in 1..Len(x.pr)
  BY DEF IsWorld
<1>2. CountFound(x, from, p, now) = y
  BY DEF CountFound, IsWorld
<1>3. dir \in 1..2
  BY DEF WhichDir
<1> HIDE DEF pair, dir, k
<1>4. Counted(c, pair, dir, p, now)
  BY <1>1, <1>3, CountShape
<1>5. c \in PairType
  BY <1>4 DEF Counted
<1> HIDE DEF c
<1>6. /\ pr \in Seq(PairType) /\ Len(pr) = Len(x.pr) /\ pr[k] = c
      /\ \A q \in 1..Len(x.pr) : q # k => pr[q] = x.pr[q]
  BY <1>1, <1>5, Replaced
<1> HIDE DEF pr
<1>7. /\ y.pr = pr /\ y.s = x.s /\ y.t = x.t /\ y.l = x.l /\ y.found = x.found
      /\ DOMAIN y = DOMAIN x
  BY DEF IsWorld
<1> HIDE DEF y
<1>8. IsWorld(y)
  BY <1>6, <1>7 DEF IsWorld
<1>9. CountedWorld(y, x, from, p, now)
  BY <1>4, <1>6, <1>7, <1>8 DEF CountedWorld, dir, pair, k
<1> QED
  BY <1>2, <1>9

\* A record that keeps everything but whether its connection is active.
SameRecord(c, pair) ==
    /\ c \in PairType /\ c.ends = pair.ends /\ c.a = pair.a /\ c.ignored = pair.ignored
    /\ c.block = pair.block /\ c.last_time = pair.last_time

\* The packet is one more of the pair k.
Recorded(v, w, k, from, p, now) ==
    /\ IsWorld(v) /\ SameSelect(v.s, w.s) /\ v.t = w.t
    /\ k \in 1..Len(w.pr) /\ v.found = k /\ Len(v.pr) = Len(w.pr)
    /\ \A q \in 1..Len(w.pr) : q # k => v.pr[q] = w.pr[q]
    /\ Counted(v.pr[k], w.pr[k], WhichDir(w.pr[k], from), p, now)

\* The packet is the first of a new pair, n, which takes the place of old.
Started(v, w, e, from, p, now, old) ==
    \E n \in Nat :
        /\ n = Len(w.pr) + 1 /\ v.found = n /\ Len(v.pr) = n
        /\ IsWorld(v) /\ SameSelect(v.s, w.s) /\ v.t = (w.t \ old) \cup {n}
        /\ \A q \in 1..Len(w.pr) : SameRecord(v.pr[q], w.pr[q])
        /\ v.pr[n].ignored = Ignored(w.s, n)
        /\ \E c : IsFirst(c, e, from) /\ Counted(v.pr[n], c, 1, p, now)

LEMMA StartedInBatch ==
    ASSUME way = "batch", NEW w, IsWorld(w), w.t \in SUBSET (1..Len(w.pr)),
           NEW e \in Ends, NEW from \in 1..2, NEW p \in PacketType, NEW now \in Nat
    PROVE  Started(CountFound(NewTTP(w, e, from), from, p, now), w, e, from, p, now, {})
<1> DEFINE n == Len(w.pr) + 1
           x == NewTTP(w, e, from)
           v == CountFound(x, from, p, now)
<1>1. n \in Nat /\ n \in 1..n /\ Len(w.pr) \in Nat /\ \A q \in 1..Len(w.pr) : q # n /\ q \in 1..n
  BY DEF IsWorld
<1>2. /\ IsLonger(x, w, n) /\ x.t = w.t \cup {n}
      /\ IsFirst(x.pr[n], e, from) /\ x.pr[n].ignored = Ignored(w.s, n)
  BY NewInBatch
<1> HIDE DEF n, x
<1>3. IsWorld(x) /\ x.found = n /\ Len(x.pr) = n
  BY <1>2 DEF IsLonger
<1>4. CountedWorld(v, x, from, p, now)
  BY <1>1, <1>3, CountFoundShape
<1> HIDE DEF v
<1>5. WhichDir(x.pr[n], from) = 1
  BY <1>2 DEF WhichDir, IsFirst
<1>6. Counted(v.pr[n], x.pr[n], 1, p, now)
  BY <1>3, <1>4, <1>5 DEF CountedWorld
<1>7. /\ IsWorld(v) /\ SameSelect(v.s, w.s) /\ v.t = (w.t \ {}) \cup {n}
      /\ v.found = n /\ Len(v.pr) = n /\ n = Len(w.pr) + 1
  BY <1>2, <1>3, <1>4 DEF CountedWorld, IsLonger
<1>8. ASSUME NEW q \in 1..Len(w.pr)
      PROVE  SameRecord(v.pr[q], w.pr[q])
  <2>1. v.pr[q] = w.pr[q]
    BY <1>1, <1>2, <1>3, <1>4 DEF CountedWorld, IsLonger
  <2>2. w.pr[q] \in PairType
    BY DEF IsWorld
  <2> QED
    BY <2>1, <2>2 DEF SameRecord
<1>9. v.pr[n].ignored = Ignored(w.s, n)
  BY <1>2, <1>6 DEF Counted, SameConnection
<1> QED
  BY <1>1, <1>2, <1>6, <1>7, <1>8, <1>9, Zenon DEF Started, v, x

\* The packet of a connection that is known goes to its pair, unless the
\* endpoints are used again.
FoundOrStarted(v, w, e, from, p, now) ==
    \E k \in Known(w, e) :
        IF Reused(w.pr[k], WhichDir(w.pr[k], from), p, now)
        THEN Started(v, w, e, from, p, now, {k}) ELSE Recorded(v, w, k, from, p, now)

LEMMA TracedInBatch ==
    ASSUME way = "batch", NEW w, IsWorld(w), w.t \in SUBSET (1..Len(w.pr)),
           NEW e \in Ends, NEW from \in 1..2, NEW p \in PacketType, NEW now \in Nat, NEW last
    PROVE  LET v == dotraceTTP(w, e, from, p, now, last)
           IN  IF Known(w, e) = {} THEN Started(v, w, e, from, p, now, {})
               ELSE FoundOrStarted(v, w, e, from, p, now)
<1> DEFINE x == FindTTP(w, e, from, p, now)
           v == CountFound(x, from, p, now)
           k == CHOOSE q \in Known(w, e) : TRUE
           again == Reused(w.pr[k], WhichDir(w.pr[k], from), p, now)
<1>1. dotraceTTP(w, e, from, p, now, last) = v
  BY DEF dotraceTTP, Listed, Continuous
<1>2. CASE Known(w, e) = {}
  <2>1. x = NewTTP(w, e, from)
    BY <1>2 DEF FindTTP
  <2> HIDE DEF x
  <2> QED
    BY <1>1, <1>2, <2>1, StartedInBatch
<1>3. CASE Known(w, e) # {}
  <2>1. k \in Known(w, e)
    BY <1>3
  <2>2. k \in 1..Len(w.pr) /\ w.pr[k] \in PairType /\ w.pr \in Seq(PairType)
    BY <2>1 DEF Known, IsWorld
  <2>3. x = IF again
            THEN NewTTP([w EXCEPT !.pr[k].inactive = TRUE, !.t = @ \ {k}], e, from)
            ELSE [w EXCEPT !.found = k]
    <3>1. ~Continuous
      BY DEF Continuous
    <3> QED
      BY <1>3, <3>1 DEF FindTTP
  <2> HIDE DEF x, k
  <2>4. CASE again
    <3> DEFINE c == [w.pr[k] EXCEPT !.inactive = TRUE]
               pr == [w.pr EXCEPT ![k] = c]
               t == w.t \ {k}
               u == [w EXCEPT !.pr = pr, !.t = t]
    <3>1. x = NewTTP(u, e, from)
      <4>1. [w EXCEPT !.pr[k].inactive = TRUE, !.t = @ \ {k}] = u
        BY DEF IsWorld
      <4> QED
        BY <2>3, <2>4, <4>1
    <3>2. c \in PairType /\ SameRecord(c, w.pr[k])
      BY <2>2 DEF PairType, SameRecord
    <3> HIDE DEF c
    <3>3. /\ pr \in Seq(PairType) /\ Len(pr) = Len(w.pr) /\ pr[k] = c
          /\ \A q \in 1..Len(w.pr) : q # k => pr[q] = w.pr[q]
      BY <2>2, <3>2, Replaced
    <3> HIDE DEF pr
    <3>4. u.pr = pr /\ u.t = t /\ u.s = w.s /\ DOMAIN u = DOMAIN w
      BY DEF IsWorld
    <3> HIDE DEF u
    <3>5. IsWorld(u) /\ u.t \in SUBSET (1..Len(u.pr))
      BY <3>3, <3>4 DEF IsWorld
    <3>6. Started(v, u, e, from, p, now, {})
      BY <3>1, <3>5, StartedInBatch
    <3> HIDE DEF v, again
    <3>7. \A q \in 1..Len(w.pr) : SameRecord(pr[q], w.pr[q])
      <4> TAKE q \in 1..Len(w.pr)
      <4>1. w.pr[q] \in PairType
        BY <2>2
      <4> QED
        BY <3>2, <3>3, <4>1 DEF SameRecord
    <3>8. PICK n \in Nat :
            /\ n = Len(u.pr) + 1 /\ v.found = n /\ Len(v.pr) = n
            /\ IsWorld(v) /\ SameSelect(v.s, u.s) /\ v.t = (u.t \ {}) \cup {n}
            /\ \A q \in 1..Len(u.pr) : SameRecord(v.pr[q], u.pr[q])
            /\ v.pr[n].ignored = Ignored(u.s, n)
            /\ \E y : IsFirst(y, e, from) /\ Counted(v.pr[n], y, 1, p, now)
      BY <3>6 DEF Started
    <3>9. \A q \in 1..Len(w.pr) : SameRecord(v.pr[q], w.pr[q])
      BY <3>3, <3>4, <3>7, <3>8 DEF SameRecord
    <3>10. /\ n = Len(w.pr) + 1 /\ SameSelect(v.s, w.s) /\ v.t = (w.t \ {k}) \cup {n}
           /\ v.pr[n].ignored = Ignored(w.s, n)
      BY <3>3, <3>4, <3>8
    <3>11. Started(v, w, e, from, p, now, {k})
      BY <3>8, <3>9, <3>10, Zenon DEF Started
    <3> QED
      BY <1>1, <1>3, <2>1, <2>4, <3>11 DEF FoundOrStarted, again
  <2>5. CASE ~again
    <3>1. x = [w EXCEPT !.found = k]
      BY <2>3, <2>5
    <3>2. IsWorld(x) /\ x.found = k /\ x.pr = w.pr /\ x.t = w.t /\ x.s = w.s
      BY <3>1 DEF IsWorld
    <3>3. CountedWorld(v, x, from, p, now)
      BY <2>2, <3>2, CountFoundShape
    <3> HIDE DEF v, again
    <3>4. SameSelect(w.s, w.s)
      BY DEF SameSelect, IsWorld
    <3>5. Recorded(v, w, k, from, p, now)
      BY <2>2, <3>2, <3>3, <3>4 DEF Recorded, CountedWorld
    <3> QED
      BY <1>1, <1>3, <2>1, <2>5, <3>5 DEF FoundOrStarted, again
  <2> QED
    BY <2>4, <2>5
<1> QED
  BY <1>2, <1>3

\* A new connection is put before the others of its bucket.
LEMMA PutBefore ==
    ASSUME NEW S, NEW t \in Seq(S), NEW x \in S
    PROVE  LET u == <<x>> \o t
           IN  /\ u \in Seq(S) /\ Len(u) = Len(t) + 1 /\ u[1] = x
               /\ \A j \in 1..Len(t) : u[j + 1] = t[j]
<1> DEFINE u == <<x>> \o t
<1>1. u \in Seq(S) /\ Len(u) = Len(t) + 1 /\ u[1] = x /\ \A j \in 2..(Len(t) + 1) : u[j] = t[j - 1]
  OBVIOUS
<1> QED
  BY <1>1

Moved(u, t, k) ==
    /\ Len(u) = Len(t)
    /\ \A j \in 1..Len(t) : u[j] = IF j = 1 THEN t[k] ELSE IF j <= k THEN t[j - 1] ELSE t[j]

\* What was found moves to the front of its bucket.
LEMMA MovedToFront ==
    ASSUME NEW S, NEW t \in Seq(S), NEW k \in 1..Len(t)
    PROVE  LET u == <<t[k]>> \o RemoveAt(t, k)
           IN  u \in Seq(S) /\ Moved(u, t, k)
<1> DEFINE x == t[k]
           m == k - 1
           i == k + 1
           n == Len(t)
           before == SubSeq(t, 1, m)
           after == SubSeq(t, i, n)
           u == <<x>> \o (before \o after)
<1>1. <<t[k]>> \o RemoveAt(t, k) = u
  BY DEF RemoveAt
<1>2. x \in S /\ n \in Nat /\ k \in 1..n /\ m \in Nat /\ i \in Nat /\ m = k - 1 /\ i = k + 1
      /\ t \in Seq(S) /\ n = Len(t)
  OBVIOUS
<1> HIDE DEF x, m, i, n
<1>3. before \in Seq(S) /\ Len(before) = m /\ \A j \in 1..m : before[j] = t[j]
  BY <1>2
<1>4. after \in Seq(S) /\ Len(after) = n - k /\ \A j \in 1..(n - k) : after[j] = t[j + k]
  BY SMTT(20), <1>2
<1> HIDE DEF before, after
<1>5. /\ before \o after \in Seq(S) /\ Len(before \o after) = n - 1
      /\ \A j \in 1..(n - 1) : (before \o after)[j] = IF j < k THEN t[j] ELSE t[j + 1]
  <2>1. before \o after \in Seq(S) /\ Len(before \o after) = n - 1
    BY <1>2, <1>3, <1>4
  <2>2. ASSUME NEW j \in 1..(n - 1)
        PROVE  (before \o after)[j] = IF j < k THEN t[j] ELSE t[j + 1]
    <3>1. CASE j < k
      BY <1>2, <1>3, <1>4, <3>1
    <3>2. CASE ~(j < k)
      <4>1. (before \o after)[j] = after[j - m]
        BY <1>2, <1>3, <1>4, <3>2
      <4>2. j - m \in 1..(n - k) /\ (j - m) + k = j + 1
        BY <1>2, <3>2
      <4> QED
        BY <1>4, <3>2, <4>1, <4>2
    <3> QED
      BY <3>1, <3>2
  <2> QED
    BY <2>1, <2>2
<1> DEFINE rest == before \o after
<1> HIDE DEF rest
<1>6. rest \in Seq(S) /\ Len(rest) = n - 1 /\ u = <<x>> \o rest
      /\ \A j \in 1..(n - 1) : rest[j] = IF j < k THEN t[j] ELSE t[j + 1]
  BY <1>5 DEF rest
<1>7. u \in Seq(S) /\ Len(u) = n /\ u[1] = x /\ \A j \in 2..n : u[j] = rest[j - 1]
  <2> DEFINE z == <<x>> \o rest
  <2>1. z \in Seq(S) /\ Len(z) = Len(rest) + 1 /\ z[1] = x /\ \A j \in 1..Len(rest) : z[j + 1] = rest[j]
    BY <1>2, <1>6, PutBefore
  <2>2. u = z
    BY <1>6
  <2> HIDE DEF z, u
  <2>3. ASSUME NEW j \in 2..n
        PROVE  z[j] = rest[j - 1]
    <3>1. j - 1 \in 1..Len(rest) /\ (j - 1) + 1 = j
      BY <1>2, <1>6
    <3> QED
      BY <2>1, <3>1
  <2> QED
    BY <1>2, <1>6, <2>1, <2>2, <2>3
<1> HIDE DEF u
<1>8. ASSUME NEW j \in 1..n
      PROVE  u[j] = IF j = 1 THEN x ELSE IF j <= k THEN t[j - 1] ELSE t[j]
  <2>1. CASE j = 1
    BY <1>7, <2>1
  <2>2. CASE j # 1
    <3>1. j \in 2..n /\ j - 1 \in 1..(n - 1) /\ (j - 1 < k <=> j <= k) /\ (j - 1) + 1 = j
      BY <1>2, <2>2
    <3> QED
      BY <1>6, <1>7, <2>2, <3>1
  <2> QED
    BY <2>1, <2>2
<1> QED
  BY <1>1, <1>7, <1>8 DEF x, n, Moved

\* A bucket of UDP that holds every pair.
Bucket(t, n) == t \in Seq(1..n) /\ \A q \in 1..n : \E j \in 1..Len(t) : t[j] = q

\* What FindUTP makes of w, where the next pair is n.
InBucket(v, w, n, e, from) ==
    IF \E q \in 1..Len(w.pr) : w.pr[q].ends = e
    THEN /\ IsWorld(v) /\ v.pr = w.pr /\ v.s = w.s /\ Bucket(v.t, Len(w.pr))
         /\ v.found \in 1..Len(w.pr) /\ w.pr[v.found].ends = e
    ELSE /\ IsLonger(v, w, n) /\ IsFirst(v.pr[n], e, from)
         /\ v.pr[n].ignored = Ignored(w.s, n) /\ Bucket(v.t, n)

LEMMA FoundInBucket ==
    ASSUME NEW w, IsWorld(w), Bucket(w.t, Len(w.pr)), NEW e \in Ends, NEW from \in 1..2
    PROVE  InBucket(FindUTP(w, e, from), w, Len(w.pr) + 1, e, from)
<1> DEFINE m == Len(w.pr)
           n == m + 1
           hits == {k \in DOMAIN w.t : w.pr[w.t[k]].ends = e}
           k == CHOOSE i \in hits : \A j \in hits : i <= j
           s == MoreTcpPairs(w.s, n)
           c == NewPair(e, from, s.ignore[n])
           longer == Append(w.pr, c)
           v == FindUTP(w, e, from)
<1>1. /\ m \in Nat /\ n \in Nat \ {0} /\ IsSelect(w.s) /\ w.pr \in Seq(PairType)
      /\ w.t \in Seq(1..m) /\ DOMAIN w.t = 1..Len(w.t) /\ Len(w.t) \in Nat
      /\ \A q \in 1..m : \E j \in 1..Len(w.t) : w.t[j] = q
  BY DEF IsWorld, Bucket
<1>2. v = IF hits # {}
          THEN [w EXCEPT !.found = w.t[k], !.t = <<w.t[k]>> \o RemoveAt(@, k)]
          ELSE [w EXCEPT !.s = s, !.pr = Append(@, c), !.t = <<n>> \o @, !.found = n]
  BY DEF FindUTP
<1> HIDE DEF v, s, c
<1>3. CASE hits # {}
  <2>1. k \in hits
    <3>1. hits \in SUBSET Nat
      BY <1>1
    <3> HIDE DEF hits
    <3>2. \E i \in hits : \A j \in hits : i <= j
      BY <1>3, <3>1, Least
    <3> QED
      BY <3>2
  <2> HIDE DEF k
  <2> DEFINE u == <<w.t[k]>> \o RemoveAt(w.t, k)
             found == w.t[k]
  <2>2. k \in 1..Len(w.t) /\ found \in 1..m /\ w.pr[found].ends = e
    BY <1>1, <2>1
  <2>3. /\ u \in Seq(1..m) /\ Len(u) = Len(w.t)
        /\ \A j \in 1..Len(w.t) :
              u[j] = IF j = 1 THEN w.t[k] ELSE IF j <= k THEN w.t[j - 1] ELSE w.t[j]
    <3> DEFINE t == w.t
               S == 1..m
    <3>1. t \in Seq(S) /\ k \in 1..Len(t)
      BY <1>1, <2>2
    <3> HIDE DEF t, S
    <3>2. <<t[k]>> \o RemoveAt(t, k) \in Seq(S) /\ Moved(<<t[k]>> \o RemoveAt(t, k), t, k)
      BY <3>1, MovedToFront
    <3> QED
      BY <3>2 DEF t, S, Moved
  <2>4. v = [w EXCEPT !.found = w.t[k], !.t = <<w.t[k]>> \o RemoveAt(@, k)]
    BY <1>2, <1>3
  <2>5. v.t = u /\ v.found = found /\ v.pr = w.pr /\ v.s = w.s /\ DOMAIN v = DOMAIN w
    BY <2>4 DEF IsWorld
  <2> HIDE DEF u
  <2>6. ASSUME NEW q \in 1..m
        PROVE  \E j \in 1..Len(u) : u[j] = q
    <3>1. PICK i \in 1..Len(w.t) : w.t[i] = q
      BY <1>1
    <3>2. CASE i < k
      <4>1. i + 1 \in 1..Len(w.t) /\ i + 1 # 1 /\ i + 1 <= k /\ (i + 1) - 1 = i
        BY SMTT(20), <1>1, <2>2, <3>2
      <4> QED
        BY <2>3, <3>1, <4>1
    <3>3. CASE i = k
      <4>1. 1 \in 1..Len(w.t)
        BY <1>1
      <4> QED
        BY <2>3, <3>1, <3>3, <4>1
    <3>4. CASE i > k
      <4>1. i # 1 /\ ~(i <= k)
        BY <2>2, <3>4
      <4> QED
        BY <2>3, <3>1, <4>1
    <3> QED
      BY <1>1, <2>2, <3>2, <3>3, <3>4
  <2>7. IsWorld(v) /\ Bucket(v.t, m)
    BY <2>3, <2>5, <2>6 DEF IsWorld, Bucket
  <2>8. InBucket(v, w, n, e, from)
    <3> HIDE DEF n
    <3> QED
      BY <2>2, <2>5, <2>7 DEF InBucket
  <2> QED
    BY <2>8 DEF v
<1>4. CASE hits = {}
  <2>1. ~ \E q \in 1..m : w.pr[q].ends = e
    BY <1>1, <1>4
  <2>2. IsSelect(s) /\ SameSelect(s, w.s) /\ s.ignore[n] = Ignored(w.s, n) /\ s.ignore[n] \in BOOLEAN
    <3> HIDE DEF n
    <3>1. /\ IsSelect(s) /\ s.more = w.s.more /\ s.cleared = w.s.cleared /\ s.max >= n
          /\ \A ix \in Nat \ {0} : Ignored(s, ix) = Ignored(w.s, ix)
      BY <1>1, MoreSaysTheSame DEF s
    <3>2. n \in 1..s.max
      BY <1>1, <3>1 DEF IsSelect
    <3>3. s.ignore[n] = Ignored(s, n) /\ s.ignore[n] \in BOOLEAN
      BY <3>1, <3>2 DEF Ignored, IsSelect
    <3> QED
      BY <1>1, <3>1, <3>3 DEF SameSelect
  <2>3. IsFirst(c, e, from) /\ c.ignored = s.ignore[n]
    <3> DEFINE flag == s.ignore[n]
    <3>1. flag \in BOOLEAN
      BY <2>2
    <3> HIDE DEF flag
    <3>2. IsFirst(NewPair(e, from, flag), e, from) /\ NewPair(e, from, flag).ignored = flag
      BY <3>1, NewPairShape, Zenon
    <3> QED
      BY <3>2 DEF flag, c
  <2> DEFINE u == <<n>> \o w.t
  <2>4. v = [w EXCEPT !.s = s, !.pr = Append(@, c), !.t = <<n>> \o @, !.found = n]
    BY <1>2, <1>4
  <2>5. v.s = s /\ v.pr = longer /\ v.found = n /\ v.t = u /\ DOMAIN v = DOMAIN w
    BY <2>4 DEF IsWorld
  <2>6. /\ longer \in Seq(PairType) /\ Len(longer) = n /\ longer[n] = c
        /\ \A q \in 1..Len(w.pr) : longer[q] = w.pr[q]
    <3>1. c \in PairType
      BY <2>3 DEF IsFirst
    <3> QED
      BY <1>1, <3>1, Appended
  <2>7. u \in Seq(1..n) /\ Len(u) = Len(w.t) + 1 /\ u[1] = n /\ \A j \in 1..Len(w.t) : u[j + 1] = w.t[j]
    <3>1. w.t \in Seq(1..n) /\ n \in 1..n
      BY <1>1
    <3> HIDE DEF n
    <3> QED
      BY <3>1, PutBefore
  <2> HIDE DEF longer, u
  <2>8. IsLonger(v, w, n)
    BY <2>2, <2>5, <2>6 DEF IsLonger, IsWorld
  <2>9. ASSUME NEW q \in 1..n
        PROVE  \E j \in 1..Len(u) : u[j] = q
    <3>1. CASE q = n
      <4>1. 1 \in 1..Len(u)
        BY <1>1, <2>7
      <4> QED
        BY <2>7, <3>1, <4>1
    <3>2. CASE q # n
      <4>1. q \in 1..m
        BY <1>1, <3>2
      <4>2. PICK i \in 1..Len(w.t) : w.t[i] = q
        BY <1>1, <4>1
      <4>3. i + 1 \in 1..Len(u)
        BY <1>1, <2>7
      <4> QED
        BY <2>7, <4>2, <4>3
    <3> QED
      BY <3>1, <3>2
  <2>10. Bucket(v.t, n)
    BY <2>5, <2>7, <2>9 DEF Bucket
  <2>11. InBucket(v, w, n, e, from)
    <3> HIDE DEF n
    <3> QED
      BY <2>1, <2>2, <2>3, <2>5, <2>6, <2>8, <2>10 DEF InBucket
  <2> QED
    BY <2>11 DEF v
<1> QED
  BY <1>3, <1>4

-----------------------------------------------------------------------------
(* What the lists of continuous mode leave alone.                          *)

\* Of the world, the lists change, a record becomes inactive, and the table
\* loses connections.
Kept(v, w) ==
    /\ DOMAIN v = DOMAIN w /\ v.s = w.s /\ v.found = w.found /\ v.t \in SUBSET w.t
    /\ v.pr \in Seq(PairType) /\ Len(v.pr) = Len(w.pr)
    /\ \A q \in 1..Len(w.pr) : SameRecord(v.pr[q], w.pr[q])

LEMMA KeptAll ==
    ASSUME NEW w, IsWorld(w), NEW v, DOMAIN v = DOMAIN w,
           v.s = w.s, v.found = w.found, v.t \in SUBSET w.t, v.pr = w.pr
    PROVE  Kept(v, w)
<1>1. \A q \in 1..Len(w.pr) : w.pr[q] \in PairType
  BY DEF IsWorld
<1> QED
  BY <1>1 DEF Kept, IsWorld, SameRecord

LEMMA KeptWorld ==
    ASSUME NEW w, IsWorld(w), NEW v, Kept(v, w)
    PROVE  IsWorld(v)
BY DEF Kept, IsWorld

LEMMA KeptTwice ==
    ASSUME NEW u, NEW v, NEW w, Kept(u, v), Kept(v, w)
    PROVE  Kept(u, w)
<1>1. \A q \in 1..Len(w.pr) : SameRecord(u.pr[q], v.pr[q]) /\ SameRecord(v.pr[q], w.pr[q])
  BY DEF Kept
<1>2. \A q \in 1..Len(w.pr) : SameRecord(u.pr[q], w.pr[q])
  BY <1>1 DEF SameRecord
<1> QED
  BY <1>2 DEF Kept

LEMMA FaultKeeps ==
    ASSUME NEW w, IsWorld(w)
    PROVE  Kept(Fault(w), w)
<1>1. DOMAIN w = {"pr", "t", "l", "s", "found"}
  BY DEF IsWorld
<1> DEFINE l == [w.l EXCEPT !.fault = TRUE]
           v == [w EXCEPT !.l = l]
<1>2. Fault(w) = v
  BY <1>1 DEF Fault
<1> HIDE DEF l
<1>3. /\ DOMAIN v = DOMAIN w /\ v.s = w.s /\ v.found = w.found /\ v.t \in SUBSET w.t
      /\ v.pr = w.pr
  BY <1>1
<1> HIDE DEF v
<1> QED
  BY <1>2, <1>3, KeptAll

LEMMA RemoveConnKeeps ==
    ASSUME NEW w, IsWorld(w), NEW p
    PROVE  Kept(RemoveConn(w, p), w)
<1>1. CASE Broken(w.l, p)
  <2>1. RemoveConn(w, p) = Fault(w)
    BY <1>1 DEF RemoveConn
  <2> QED
    BY <2>1, FaultKeeps
<1>2. CASE ~Broken(w.l, p)
  <2> DEFINE t == {q \in w.t : w.pr[q].ends # w.pr[p].ends}
             l == [w.l EXCEPT !.gone = @ \cup {p}]
             v == [w EXCEPT !.l = l, !.t = t]
  <2>1. RemoveConn(w, p) = v
    BY <1>2 DEF RemoveConn
  <2>2. t \in SUBSET w.t
    OBVIOUS
  <2> HIDE DEF t, l
  <2>3. /\ v.pr = w.pr /\ v.s = w.s /\ v.found = w.found /\ v.t \in SUBSET w.t
        /\ DOMAIN v = DOMAIN w
    BY <2>2 DEF IsWorld
  <2> HIDE DEF v
  <2> QED
    BY <2>1, <2>3, KeptAll
<1> QED
  BY <1>1, <1>2

LEMMA RemoveLastKeeps ==
    ASSUME NEW w, IsWorld(w), NEW k
    PROVE  Kept(RemoveLast(w, k), w)
<1> DEFINE last == w.l.tail[k]
           before == w.l.prev[last]
           cut == SetNext([w.l EXCEPT !.tail[k] = before], before, Null)
           l == [cut EXCEPT !.count[k] = @ - 1]
           u == [w EXCEPT !.l = l]
<1>1. RemoveLast(w, k) = IF Broken(w.l, last) THEN Fault(w) ELSE RemoveConn(u, last)
  BY DEF RemoveLast
<1> HIDE DEF l, last
<1>2. Kept(u, w)
  <2>1. /\ DOMAIN u = DOMAIN w /\ u.s = w.s /\ u.found = w.found /\ u.t \in SUBSET w.t
        /\ u.pr = w.pr
    BY DEF IsWorld
  <2> HIDE DEF u
  <2> QED
    BY <2>1, KeptAll
<1> HIDE DEF u
<1>3. IsWorld(u)
  BY <1>2, KeptWorld
<1>4. Kept(RemoveConn(u, last), u)
  BY <1>3, RemoveConnKeeps
<1>5. Kept(RemoveConn(u, last), w) /\ Kept(Fault(w), w)
  BY <1>2, <1>4, KeptTwice, FaultKeeps
<1> QED
  BY <1>1, <1>5

LEMMA MakeRoomKeeps ==
    ASSUME NEW w, IsWorld(w), NEW k
    PROVE  Kept(MakeRoom(w, k), w)
<1>1. Kept(w, w)
  BY KeptAll
<1> QED
  BY <1>1, RemoveLastKeeps DEF MakeRoom

\* One turn of the loop over the tail of a list.
Turn(v, k, interval, now) ==
    LET last == v.l.tail[k]
    IN  IF Broken(v.l, last) THEN Fault(v)
        ELSE IF v.l.prev[last] = Null \/ ~Old(v, last, interval, now) THEN v
        ELSE RemoveLast(v, k)

\* The loop, turn by turn.
Turns(g, w, k, interval, now, m) ==
    /\ g = [n \in 0..m |-> g[n]] /\ g[0] = w
    /\ \A n \in 1..m : g[n] = Turn(g[n - 1], k, interval, now)

LEMMA TurnsExist ==
    ASSUME NEW w, NEW k, NEW interval, NEW now, NEW N \in Nat
    PROVE  \E g : Turns(g, w, k, interval, now, N)
<1> DEFINE Good(m) == \E g : Turns(g, w, k, interval, now, m)
           T == {m \in Nat : ~Good(m)}
<1>1. SUFFICES ASSUME T # {}
               PROVE  FALSE
  OBVIOUS
<1>2. PICK m \in T : \A i \in T : m <= i
  <2>1. T \in SUBSET Nat
    OBVIOUS
  <2> HIDE DEF T
  <2> QED
    BY <1>1, <2>1, Least
<1>3. m \in Nat /\ ~Good(m)
  OBVIOUS
<1>4. m # 0
  <2> DEFINE z == [i \in 0..0 |-> w]
  <2>1. z = [n \in 0..0 |-> z[n]] /\ z[0] = w /\ 1..0 = {}
    OBVIOUS
  <2> HIDE DEF z
  <2>2. Turns(z, w, k, interval, now, 0)
    BY <2>1 DEF Turns
  <2> QED
    BY <1>3, <2>2
<1>5. Good(m - 1)
  <2>1. m - 1 \in Nat /\ ~(m <= m - 1)
    BY <1>3, <1>4
  <2> HIDE DEF Good
  <2> QED
    BY <1>2, <2>1
<1>6. PICK g : Turns(g, w, k, interval, now, m - 1)
  BY <1>5
<1> DEFINE h == [i \in 0..m |-> IF i = m THEN Turn(g[m - 1], k, interval, now) ELSE g[i]]
<1>7. /\ h = [n \in 0..m |-> h[n]] /\ h[0] = w /\ h[m] = Turn(h[m - 1], k, interval, now)
      /\ \A n \in 1..(m - 1) : h[n] = g[n] /\ h[n - 1] = g[n - 1]
  BY <1>3, <1>4, <1>6 DEF Turns
<1> HIDE DEF h
<1>8. ASSUME NEW n \in 1..m
      PROVE  h[n] = Turn(h[n - 1], k, interval, now)
  <2>1. n = m \/ n \in 1..(m - 1)
    BY <1>3
  <2>2. \A i \in 1..(m - 1) : g[i] = Turn(g[i - 1], k, interval, now)
    BY <1>6 DEF Turns
  <2> HIDE DEF T
  <2> QED
    BY <1>7, <2>1, <2>2
<1>9. Turns(h, w, k, interval, now, m)
  BY <1>7, <1>8 DEF Turns
<1> QED
  BY <1>3, <1>9

LEMMA DropTailTurns ==
    ASSUME ConnectionsAssumption, NEW w, NEW k, NEW interval, NEW now
    PROVE  \E g : /\ Turns(g, w, k, interval, now, MaxPairs)
                  /\ DropTail(w, k, interval, now) = g[MaxPairs]
<1> DEFINE Size(z) == [n \in 0..MaxPairs |->
                        IF n = 0 THEN w
                        ELSE LET v == z[n - 1]
                                 last == v.l.tail[k]
                             IN  IF Broken(v.l, last) THEN Fault(v)
                                 ELSE IF v.l.prev[last] = Null \/ ~Old(v, last, interval, now)
                                 THEN v
                                 ELSE RemoveLast(v, k)]
           drop == CHOOSE z : z = Size(z)
<1>1. DropTail(w, k, interval, now) = drop[MaxPairs]
  BY DEF DropTail
<1>2. MaxPairs \in Nat
  BY DEF ConnectionsAssumption
<1>3. \E z : z = Size(z)
  <2>1. PICK g : Turns(g, w, k, interval, now, MaxPairs)
    BY <1>2, TurnsExist
  <2>2. Size(g) = [n \in 0..MaxPairs |-> IF n = 0 THEN w ELSE Turn(g[n - 1], k, interval, now)]
    BY DEF Turn
  <2>3. \A n \in 0..MaxPairs : n # 0 => n \in 1..MaxPairs
    OBVIOUS
  <2>4. \A n \in 0..MaxPairs : g[n] = IF n = 0 THEN w ELSE Turn(g[n - 1], k, interval, now)
    BY <2>1, <2>3 DEF Turns
  <2>5. g = [n \in 0..MaxPairs |-> IF n = 0 THEN w ELSE Turn(g[n - 1], k, interval, now)]
    BY <2>1, <2>4 DEF Turns
  <2>6. g = Size(g)
    BY <2>2, <2>5
  <2> QED
    BY <2>6
<1>4. drop = Size(drop)
  BY <1>3
<1> HIDE DEF drop
<1>5. Size(drop) = [n \in 0..MaxPairs |-> IF n = 0 THEN w ELSE Turn(drop[n - 1], k, interval, now)]
  BY DEF Turn
<1> HIDE DEF Size
<1>6. drop = [n \in 0..MaxPairs |-> drop[n]]
      /\ \A n \in 0..MaxPairs : drop[n] = IF n = 0 THEN w ELSE Turn(drop[n - 1], k, interval, now)
  BY <1>4, <1>5
<1>7. 0 \in 0..MaxPairs /\ \A n \in 1..MaxPairs : n \in 0..MaxPairs /\ n # 0
  BY <1>2
<1>8. Turns(drop, w, k, interval, now, MaxPairs)
  BY <1>6, <1>7 DEF Turns
<1> QED
  BY <1>1, <1>8

LEMMA DropTailKeeps ==
    ASSUME ConnectionsAssumption, NEW w, IsWorld(w), NEW k, NEW interval, NEW now
    PROVE  Kept(DropTail(w, k, interval, now), w)
<1>1. PICK g : /\ Turns(g, w, k, interval, now, MaxPairs)
               /\ DropTail(w, k, interval, now) = g[MaxPairs]
  BY DropTailTurns
<1> DEFINE T == {n \in Nat : n <= MaxPairs /\ ~Kept(g[n], w)}
<1>2. T = {}
  <2> SUFFICES ASSUME T # {}
               PROVE  FALSE
    OBVIOUS
  <2>1. T \in SUBSET Nat
    OBVIOUS
  <2>2. PICK n \in T : \A i \in T : n <= i
    <3> HIDE DEF T
    <3> QED
      BY <2>1, Least
  <2>3. n \in Nat /\ n <= MaxPairs /\ ~Kept(g[n], w)
    OBVIOUS
  <2>4. n # 0
    <3>1. Kept(w, w)
      BY KeptAll
    <3> QED
      BY <1>1, <2>3, <3>1 DEF Turns
  <2>5. n - 1 \in Nat /\ n - 1 <= MaxPairs /\ ~(n <= n - 1) /\ n \in 1..MaxPairs
    BY <2>3, <2>4 DEF ConnectionsAssumption
  <2> DEFINE v == g[n - 1]
  <2>6. Kept(v, w)
    BY <2>2, <2>5
  <2>7. g[n] = Turn(v, k, interval, now)
    BY <1>1, <2>5 DEF Turns
  <2> HIDE DEF v
  <2>8. IsWorld(v)
    BY <2>6, KeptWorld
  <2>9. Kept(RemoveLast(v, k), v)
    BY <2>8, RemoveLastKeeps
  <2>10. Kept(RemoveLast(v, k), w) /\ Kept(Fault(v), w)
    BY <2>6, <2>8, <2>9, KeptTwice, FaultKeeps
  <2>11. Kept(g[n], w)
    BY <2>6, <2>7, <2>10 DEF Turn
  <2> QED
    BY <2>3, <2>11
<1>3. MaxPairs \in Nat /\ MaxPairs <= MaxPairs
  BY DEF ConnectionsAssumption
<1>4. Kept(g[MaxPairs], w)
  BY <1>2, <1>3
<1> QED
  BY <1>1, <1>4

LEMMA RemoveOldKeeps ==
    ASSUME ConnectionsAssumption, NEW w, IsWorld(w), NEW k, NEW interval, NEW now
    PROVE  Kept(RemoveOldConns(w, k, interval, now), w)
<1> DEFINE v == DropTail(w, k, interval, now)
           l == [v.l EXCEPT !.head[k] = Null, !.tail[k] = Null, !.count[k] = @ - 1]
           u == [v EXCEPT !.l = l]
<1>1. Kept(w, w)
  BY KeptAll
<1>2. Kept(v, w)
  BY DropTailKeeps
<1>3. IsWorld(v)
  BY <1>2, KeptWorld
<1>4. DropHead(v, k, interval, now) =
        IF Broken(v.l, v.l.head[k]) THEN Fault(v)
        ELSE IF Old(v, v.l.head[k], interval, now) THEN RemoveConn(u, v.l.tail[k]) ELSE v
  <2> HIDE DEF v
  <2>1. [v EXCEPT !.l.head[k] = Null, !.l.tail[k] = Null, !.l.count[k] = @ - 1] = u
    BY ZenonT(60), <1>3 DEF IsWorld
  <2> QED
    BY <2>1 DEF DropHead
<1>5. RemoveOldConns(w, k, interval, now) =
        IF w.l.tail[k] = Null THEN w ELSE DropHead(v, k, interval, now)
  BY DEF RemoveOldConns
<1> HIDE DEF v, l
<1>6. Kept(u, v)
  <2>1. /\ DOMAIN u = DOMAIN v /\ u.s = v.s /\ u.found = v.found /\ u.t \in SUBSET v.t
        /\ u.pr = v.pr
    BY <1>3 DEF IsWorld
  <2> HIDE DEF u
  <2> QED
    BY <1>3, <2>1, KeptAll
<1> HIDE DEF u
<1> DEFINE p == v.l.tail[k]
<1> HIDE DEF p
<1>7. IsWorld(u)
  BY <1>3, <1>6, KeptWorld
<1>8. Kept(RemoveConn(u, p), u)
  BY <1>7, RemoveConnKeeps
<1>9. Kept(RemoveConn(u, p), w)
  BY <1>2, <1>6, <1>8, KeptTwice
<1>10. Kept(Fault(v), w)
  BY <1>2, <1>3, FaultKeeps, KeptTwice
<1> QED
  BY <1>1, <1>2, <1>4, <1>5, <1>9, <1>10 DEF p

LEMMA CloseKeeps ==
    ASSUME NEW w, IsWorld(w), NEW p \in 1..Len(w.pr)
    PROVE  Kept(Close(w, p), w)
<1> DEFINE c == [w.pr[p] EXCEPT !.inactive = TRUE]
           pr == [w.pr EXCEPT ![p] = c]
           out == UpdateConnList(w.l, "live", p, FALSE)
           count == [live |-> out.count.live - 1, closed |-> out.count.closed + 1]
           lc == [out EXCEPT !.count = count]
           left == [w EXCEPT !.l = lc, !.pr = pr]
           room == MakeRoom(left, "closed")
           lp == Push(room.l, "closed", p)
           v == [room EXCEPT !.l = lp]
<1>1. w.pr \in Seq(PairType) /\ w.pr[p] \in PairType
  BY DEF IsWorld
<1>2. Close(w, p) = v
  <2> HIDE DEF lc
  <2>1. [w EXCEPT !.l = lc, !.pr[p].inactive = TRUE] = left
    BY DEF IsWorld
  <2> HIDE DEF left
  <2>2. Close(w, p) = [room EXCEPT !.l = Push(@, "closed", p)]
    BY <2>1 DEF Close, lc
  <2> HIDE DEF room
  <2> QED
    BY <2>2
<1> HIDE DEF lc
<1>3. c \in PairType /\ SameRecord(c, w.pr[p])
  BY <1>1 DEF PairType, SameRecord
<1> HIDE DEF c
<1>4. /\ pr \in Seq(PairType) /\ Len(pr) = Len(w.pr) /\ pr[p] = c
      /\ \A q \in 1..Len(w.pr) : q # p => pr[q] = w.pr[q]
  BY <1>1, <1>3, Replaced
<1>5. \A q \in 1..Len(w.pr) : SameRecord(pr[q], w.pr[q])
  <2> TAKE q \in 1..Len(w.pr)
  <2>1. w.pr[q] \in PairType
    BY <1>1
  <2> QED
    BY <1>3, <1>4, <2>1 DEF SameRecord
<1> HIDE DEF pr
<1>6. Kept(left, w)
  <2>1. DOMAIN left = DOMAIN w /\ left.s = w.s /\ left.found = w.found /\ left.t = w.t /\ left.pr = pr
    BY DEF IsWorld
  <2> HIDE DEF left
  <2> QED
    BY <1>4, <1>5, <2>1 DEF Kept
<1> HIDE DEF left
<1>7. Kept(room, left)
  <2>1. IsWorld(left)
    BY <1>6, KeptWorld
  <2> QED
    BY <2>1, MakeRoomKeeps
<1>8. Kept(room, w)
  BY <1>6, <1>7, KeptTwice
<1> HIDE DEF room, lp
<1>9. Kept(v, w)
  <2>1. IsWorld(room)
    BY <1>8, KeptWorld
  <2>2. DOMAIN v = DOMAIN room /\ v.s = room.s /\ v.found = room.found /\ v.t = room.t /\ v.pr = room.pr
    BY <2>1 DEF IsWorld
  <2> HIDE DEF v
  <2>3. Kept(v, room)
    BY <2>1, <2>2, KeptAll
  <2> QED
    BY <1>8, <2>3, KeptTwice
<1> QED
  BY <1>2, <1>9

LEMMA UpdateConnListsKeeps ==
    ASSUME ConnectionsAssumption, NEW w, IsWorld(w), NEW p \in 1..Len(w.pr), NEW now, NEW last
    PROVE  Kept(UpdateConnLists(w, p, now, last), w)
<1> DEFINE placed == Place(w, p)
           live == RemoveOldConns(placed, "live", LiveInterval, now)
           closed == RemoveOldConns(live, "closed", ClosedInterval, now)
<1>1. Kept(placed, w)
  <2> DEFINE ended == HasEnded(w.pr[p].block)
             l == UpdateConnList(w.l, IF ended THEN "closed" ELSE "live", p, TRUE)
             v == [w EXCEPT !.l = l]
  <2>1. placed = IF ended /\ ~w.pr[p].inactive THEN Close(w, p) ELSE v
    BY DEF Place, IsWorld
  <2> HIDE DEF placed, ended, l
  <2>2. DOMAIN v = DOMAIN w /\ v.s = w.s /\ v.found = w.found /\ v.t = w.t /\ v.pr = w.pr
    BY DEF IsWorld
  <2> HIDE DEF v
  <2>3. Kept(v, w)
    BY <2>2, KeptAll
  <2> QED
    BY <2>1, <2>3, CloseKeeps
<1> HIDE DEF placed
<1>2. IsWorld(placed)
  BY <1>1, KeptWorld
<1>3. Kept(live, placed)
  BY <1>2, RemoveOldKeeps
<1> HIDE DEF live
<1>4. IsWorld(live)
  BY <1>2, <1>3, KeptWorld
<1>5. Kept(closed, live)
  BY <1>4, RemoveOldKeeps
<1> HIDE DEF closed
<1>6. Kept(closed, w)
  BY <1>1, <1>3, <1>5, KeptTwice
<1>7. UpdateConnLists(w, p, now, last) = IF now - last < UpdateInterval THEN placed ELSE closed
  BY DEF UpdateConnLists, placed, live, closed
<1> QED
  BY <1>1, <1>6, <1>7

\* What a packet of ends e makes of the pairs in continuous mode.
Followed(v, w, e) ==
    /\ IsWorld(v) /\ v.s = w.s /\ v.t \in SUBSET (1..Len(v.pr))
    /\ v.found \in 1..Len(v.pr) /\ v.pr[v.found].ends = e
    /\ \A q \in 1..Len(w.pr) : v.pr[q].ends = w.pr[q].ends
    /\ \/ Len(v.pr) = Len(w.pr)
       \/ Len(v.pr) = Len(w.pr) + 1 /\ v.found = Len(w.pr) + 1

LEMMA NewInContinuous ==
    ASSUME Continuous, NEW w, IsWorld(w), w.t \in SUBSET (1..Len(w.pr)),
           NEW e \in Ends, NEW from \in 1..2
    PROVE  Followed(NewTTP(w, e, from), w, e)
<1> DEFINE n == Len(w.pr) + 1
           c == NewPair(e, from, FALSE)
           longer == Append(w.pr, c)
           made == [w EXCEPT !.pr = longer, !.found = n]
           l == [Push(w.l, "live", n) EXCEPT !.count.live = @ + 1]
           listed == [made EXCEPT !.l = l]
           room == MakeRoom(listed, "live")
           t == room.t \cup {n}
           v == [room EXCEPT !.t = t]
<1>1. Len(w.pr) \in Nat /\ n \in Nat /\ w.pr \in Seq(PairType) /\ IsSelect(w.s)
  BY DEF IsWorld
<1>2. NewTTP(w, e, from) = v
  <2>1. ~Batch
    BY DEF Batch, Continuous
  <2> HIDE DEF room
  <2>2. [w EXCEPT !.s = w.s, !.pr = Append(@, NewPair(e, from, Batch /\ w.s.ignore[n])), !.found = n] = made
    <3>1. (Batch /\ w.s.ignore[n]) = FALSE
      BY <2>1
    <3> HIDE DEF n
    <3>2. [w EXCEPT !.s = w.s, !.pr = Append(@, NewPair(e, from, Batch /\ w.s.ignore[n])), !.found = n]
           = [w EXCEPT !.s = w.s, !.pr = Append(w.pr, c), !.found = n]
      BY <3>1 DEF IsWorld
    <3> QED
      BY <3>2 DEF IsWorld
  <2> HIDE DEF made
  <2>4. NewTTP(w, e, from) = [room EXCEPT !.t = @ \cup {n}]
    BY <2>1, <2>2 DEF NewTTP, room
  <2> QED
    BY <2>4
<1>3. IsFirst(c, e, from)
  BY NewPairShape, Zenon
<1>4. c \in PairType /\ c.ends = e
  BY <1>3 DEF IsFirst
<1> HIDE DEF c
<1>5. /\ longer \in Seq(PairType) /\ Len(longer) = n /\ longer[n] = c
      /\ \A q \in 1..Len(w.pr) : longer[q] = w.pr[q]
  BY <1>1, <1>4, Appended
<1> HIDE DEF longer, l
<1>6. /\ listed.pr = longer /\ listed.s = w.s /\ listed.t = w.t /\ listed.found = n
      /\ DOMAIN listed = DOMAIN w
  BY DEF IsWorld
<1> HIDE DEF listed
<1>7. IsWorld(listed)
  BY <1>1, <1>5, <1>6 DEF IsWorld
<1>8. Kept(room, listed)
  BY <1>7, MakeRoomKeeps
<1>9. IsWorld(room)
  BY <1>7, <1>8, KeptWorld
<1> HIDE DEF room
<1>10. /\ v.pr = room.pr /\ v.s = room.s /\ v.found = room.found /\ v.t = t
       /\ DOMAIN v = DOMAIN room
  BY <1>9 DEF IsWorld
<1> HIDE DEF v
<1>11. IsWorld(v) /\ v.s = w.s /\ v.found = n /\ Len(v.pr) = n
  BY <1>5, <1>6, <1>8, <1>9, <1>10 DEF IsWorld, Kept
<1>12. \A q \in 1..n : v.pr[q].ends = longer[q].ends
  BY <1>5, <1>6, <1>8, <1>10 DEF Kept, SameRecord
<1>13. v.t \in SUBSET (1..n)
  <2>1. room.t \in SUBSET (1..Len(w.pr))
    BY <1>6, <1>8 DEF Kept
  <2> QED
    BY <1>1, <1>10, <2>1
<1>14. n \in 1..n /\ \A q \in 1..Len(w.pr) : q \in 1..n
  BY <1>1
<1> HIDE DEF n
<1>15. Followed(v, w, e)
  BY <1>4, <1>5, <1>11, <1>12, <1>13, <1>14 DEF Followed, n
<1> QED
  BY <1>2, <1>15

LEMMA TracedInContinuous ==
    ASSUME ConnectionsAssumption, Continuous, NEW w, IsWorld(w), w.t \in SUBSET (1..Len(w.pr)),
           NEW e \in Ends, NEW from \in 1..2, NEW p \in PacketType, NEW now \in Nat, NEW last
    PROVE  Followed(dotraceTTP(w, e, from, p, now, last), w, e)
<1> DEFINE x == FindTTP(w, e, from, p, now)
           y == CountFound(x, from, p, now)
           f == y.found
           v == UpdateConnLists(y, f, now, last)
<1>1. dotraceTTP(w, e, from, p, now, last) = v
  BY DEF dotraceTTP, Listed
<1>2. Followed(x, w, e)
  <2>1. CASE Known(w, e) = {}
    <3>1. x = NewTTP(w, e, from)
      BY <2>1 DEF FindTTP
    <3> QED
      BY <3>1, NewInContinuous
  <2>2. CASE Known(w, e) # {}
    <3> DEFINE k == CHOOSE q \in Known(w, e) : TRUE
    <3>1. k \in Known(w, e)
      BY <2>2
    <3>2. x = [w EXCEPT !.found = k]
      BY <2>2 DEF FindTTP
    <3> HIDE DEF k, x
    <3>3. IsWorld(x) /\ x.s = w.s /\ x.t = w.t /\ x.found = k /\ x.pr = w.pr
      BY <3>2 DEF IsWorld
    <3> QED
      BY <3>1, <3>3 DEF Followed, Known
  <2> QED
    BY <2>1, <2>2
<1> HIDE DEF x
<1>3. IsWorld(x) /\ x.found \in 1..Len(x.pr)
  BY <1>2 DEF Followed
<1>4. CountedWorld(y, x, from, p, now)
  BY <1>3, CountFoundShape
<1> HIDE DEF y
<1>5. IsWorld(y) /\ f \in 1..Len(y.pr)
  BY <1>3, <1>4 DEF CountedWorld
<1> HIDE DEF f
<1>6. Kept(v, y)
  BY <1>5, UpdateConnListsKeeps
<1>7. IsWorld(v)
  BY <1>5, <1>6, KeptWorld
<1> HIDE DEF v
<1>8. \A q \in 1..Len(x.pr) : v.pr[q].ends = x.pr[q].ends
  <2> TAKE q \in 1..Len(x.pr)
  <2>1. v.pr[q].ends = y.pr[q].ends
    BY <1>4, <1>6 DEF Kept, SameRecord, CountedWorld
  <2>2. CASE q = x.found
    BY <1>4, <2>1, <2>2 DEF CountedWorld, Counted, SameConnection
  <2>3. CASE q # x.found
    BY <1>4, <2>1, <2>3 DEF CountedWorld
  <2> QED
    BY <2>2, <2>3
<1>9. v.s = x.s /\ v.t \in SUBSET x.t /\ Len(v.pr) = Len(x.pr) /\ v.found = x.found
  BY <1>4, <1>6 DEF Kept, CountedWorld
<1>10. Len(w.pr) \in Nat /\ \A q \in 1..Len(w.pr) : q \in 1..Len(x.pr)
  BY <1>2 DEF Followed, IsWorld
<1>11. Followed(v, w, e)
  BY <1>2, <1>7, <1>8, <1>9, <1>10 DEF Followed
<1> QED
  BY <1>1, <1>11

-----------------------------------------------------------------------------
(* The invariant.                                                          *)

IncarnationType == [number : Nat, isn : Nat, opener : 1..2, synced : BOOLEAN,
                    answered : BOOLEAN, ended : BOOLEAN, at : Nat]

ConnectionTypes ==
    /\ way \in {"batch", "continuous", "limited", "udp"}
    /\ pairs \in Seq(PairType) /\ IsSelect(select)
    /\ IF way = "udp" THEN Bucket(table, Len(pairs)) ELSE table \in SUBSET (1..Len(pairs))
    /\ time.now \in Nat
    /\ incarnation \in [Ends -> IncarnationType]
    /\ asked \in [ignore : SUBSET (Nat \ {0}), only : SUBSET (Nat \ {0})]
    /\ DOMAIN members = 1..Len(pairs)

\* What the user asked for, and that the arrays say it of every connection.
Unwanted(ix) == IF asked.only # {} THEN ix \notin asked.only ELSE ix \in asked.ignore

SelectionInv ==
    /\ asked.only = {} \/ asked.ignore = {}
    /\ select.more = (asked.only # {}) /\ select.cleared = (asked.only # {})
    /\ \A ix \in Nat \ {0} : Ignored(select, ix) = Unwanted(ix)
    /\ way \in {"batch", "udp"} => \A p \in 1..Len(pairs) : pairs[p].ignored = Unwanted(p)

LEMMA WorldIsWorld ==
    ASSUME ConnectionTypes
    PROVE  /\ IsWorld(World) /\ World.pr = pairs /\ World.t = table /\ World.s = select
           /\ World.l = lists
BY DEF World, IsWorld, ConnectionTypes

\* The types of what a packet leaves, apart from the world that is found.
LEMMA BecomesTypes ==
    ASSUME ConnectionTypes, NEW w, IsWorld(w),
           IF way = "udp" THEN Bucket(w.t, Len(w.pr)) ELSE w.t \in SUBSET (1..Len(w.pr)),
           NEW e \in Ends, NEW now \in Nat, NEW inc \in IncarnationType, Becomes(w, e, now, inc)
    PROVE  ConnectionTypes'
<1>1. /\ pairs' = w.pr /\ table' = w.t /\ select' = w.s /\ way' = way /\ asked' = asked
      /\ incarnation' = [incarnation EXCEPT ![e] = [inc EXCEPT !.at = now]]
  BY DEF Becomes
<1>2. time'.now = now
  BY DEF Becomes
<1>3. DOMAIN members' = 1..Len(pairs')
  <2>1. DOMAIN w.pr = 1..Len(w.pr)
    BY DEF IsWorld
  <2>2. DOMAIN members' = DOMAIN w.pr
    BY DEF Becomes
  <2> QED
    BY <1>1, <2>1, <2>2
<1>4. incarnation' \in [Ends -> IncarnationType]
  <2>1. [inc EXCEPT !.at = now] \in IncarnationType
    BY DEF IncarnationType
  <2>2. incarnation \in [Ends -> IncarnationType]
    BY DEF ConnectionTypes
  <2> HIDE DEF IncarnationType
  <2> QED
    BY <1>1, <2>1, <2>2
<1> QED
  BY <1>1, <1>2, <1>3, <1>4 DEF ConnectionTypes, IsWorld

\* A packet keeps the selection when the arrays and the records do.
LEMMA BecomesSelection ==
    ASSUME ConnectionTypes, SelectionInv, NEW w, SameSelect(w.s, select),
           NEW e \in Ends, NEW now \in Nat, NEW inc, Becomes(w, e, now, inc),
           way \in {"batch", "udp"} =>
             \A p \in 1..Len(w.pr) : w.pr[p].ignored =
                IF p \in 1..Len(pairs) THEN pairs[p].ignored ELSE Ignored(select, p)
    PROVE  SelectionInv'
<1>1. /\ pairs' = w.pr /\ select' = w.s /\ way' = way /\ asked' = asked
  BY DEF Becomes
<1>2. \A ix : Unwanted(ix)' = Unwanted(ix)
  BY <1>1 DEF Unwanted
<1>3. ASSUME way \in {"batch", "udp"}, NEW p \in 1..Len(w.pr)
      PROVE  w.pr[p].ignored = Unwanted(p)
  <2>1. p \in Nat \ {0}
    OBVIOUS
  <2> QED
    BY <1>3, <2>1 DEF SelectionInv
<1> QED
  BY <1>1, <1>2, <1>3 DEF SelectionInv, SameSelect, Ignored

\* Without incarnations, the packets of a pair are those of its endpoints; for
\* UDP there is one pair per endpoints.
PlainInv ==
    way # "batch" =>
        /\ \A e \in Ends : incarnation[e].number = 0
        /\ \A p \in 1..Len(pairs) : members[p] = {<<pairs[p].ends, 0>>}
        /\ way = "udp" =>
             \A p, q \in 1..Len(pairs) : pairs[p].ends = pairs[q].ends => p = q

LEMMA MembersGrow ==
    ASSUME ConnectionTypes, NEW w, IsWorld(w), NEW e, NEW now, NEW inc, Becomes(w, e, now, inc)
    PROVE  \A k \in 1..Len(w.pr) :
              members'[k] = (IF k \in 1..Len(pairs) THEN members[k] ELSE {})
                              \cup (IF k = w.found THEN {<<e, inc.number>>} ELSE {})
<1>1. DOMAIN w.pr = 1..Len(w.pr) /\ DOMAIN members = 1..Len(pairs)
  BY DEF IsWorld, ConnectionTypes
<1>2. members' = [k \in DOMAIN w.pr |->
          (IF k \in DOMAIN members THEN members[k] ELSE {})
            \cup (IF k = w.found THEN {<<e, inc.number>>} ELSE {})]
  BY DEF Becomes
<1> QED
  BY <1>1, <1>2

\* The number of the current incarnation changes only where the packet says.
Renumbered(e, number) ==
    /\ \A f \in Ends : f # e => incarnation'[f] = incarnation[f]
    /\ incarnation'[e].number = number

LEMMA NumbersChange ==
    ASSUME ConnectionTypes, NEW w, NEW e \in Ends, NEW now, NEW inc \in IncarnationType,
           Becomes(w, e, now, inc)
    PROVE  Renumbered(e, inc.number) /\ incarnation'[e] = [inc EXCEPT !.at = now]
<1>1. incarnation' = [incarnation EXCEPT ![e] = [inc EXCEPT !.at = now]]
  BY DEF Becomes
<1>2. DOMAIN incarnation = Ends
  BY DEF ConnectionTypes
<1>3. [inc EXCEPT !.at = now].number = inc.number
  BY DEF IncarnationType
<1> QED
  BY <1>1, <1>2, <1>3 DEF Renumbered

\* A packet in continuous mode.
LEMMA FollowedStep ==
    ASSUME ConnectionTypes, SelectionInv, PlainInv, Continuous, NEW w, NEW e \in Ends,
           Followed(w, World, e), NEW now \in Nat, Becomes(w, e, now, incarnation[e])
    PROVE  ConnectionTypes' /\ SelectionInv' /\ PlainInv'
<1>1. IsWorld(World) /\ World.pr = pairs /\ World.s = select
  BY WorldIsWorld
<1>2. way \notin {"batch", "udp"}
  BY DEF Continuous
<1>3. incarnation[e] \in IncarnationType /\ incarnation[e].number = 0
  BY <1>2 DEF ConnectionTypes, PlainInv
<1>4. IsWorld(w) /\ w.s = select /\ w.t \in SUBSET (1..Len(w.pr))
  BY <1>1 DEF Followed
<1>5. ConnectionTypes'
  BY <1>2, <1>3, <1>4, BecomesTypes
<1>6. SelectionInv'
  <2>1. SameSelect(w.s, select)
    BY <1>4 DEF SameSelect, IsWorld
  <2> QED
    BY <1>2, <2>1, BecomesSelection
<1>7. PlainInv'
  <2>1. /\ \A f \in Ends : f # e => incarnation'[f] = incarnation[f]
        /\ incarnation'[e].number = 0
    <3> DEFINE inc == incarnation[e]
    <3>1. inc \in IncarnationType /\ inc.number = 0 /\ Becomes(w, e, now, inc)
      BY <1>3
    <3> HIDE DEF inc
    <3>2. Renumbered(e, inc.number)
      BY <3>1, NumbersChange
    <3> QED
      BY <3>1, <3>2 DEF Renumbered
  <2>2. \A f \in Ends : incarnation'[f].number = 0
    BY <1>2, <2>1 DEF PlainInv
  <2>3. pairs' = w.pr /\ way' = way
    BY DEF Becomes
  <2>4. ASSUME NEW p \in 1..Len(w.pr)
        PROVE  members'[p] = {<<w.pr[p].ends, 0>>}
    <3>1. members'[p] = (IF p \in 1..Len(pairs) THEN members[p] ELSE {})
                          \cup (IF p = w.found THEN {<<e, incarnation[e].number>>} ELSE {})
      BY <1>4, MembersGrow
    <3>2. CASE p \in 1..Len(pairs)
      <4>1. w.pr[p].ends = pairs[p].ends /\ members[p] = {<<pairs[p].ends, 0>>}
        BY <1>1, <1>2, <3>2 DEF Followed, PlainInv
      <4>2. p = w.found => w.pr[p].ends = e
        BY DEF Followed
      <4> QED
        BY <1>3, <3>1, <3>2, <4>1, <4>2
    <3>3. CASE p \notin 1..Len(pairs)
      <4>1. p = w.found
        BY <1>1, <1>4, <3>3 DEF Followed, IsWorld
      <4>2. w.pr[p].ends = e
        BY <4>1 DEF Followed
      <4> QED
        BY <1>3, <3>1, <3>3, <4>1, <4>2
    <3> QED
      BY <3>2, <3>3
  <2> QED
    BY <1>2, <2>2, <2>3, <2>4 DEF PlainInv
<1> QED
  BY <1>5, <1>6, <1>7

\* A packet of UDP.
LEMMA BucketStep ==
    ASSUME ConnectionTypes, SelectionInv, PlainInv, way = "udp", NEW e \in Ends, NEW from \in 1..2,
           NEW now \in Nat, Becomes(FindUTP(World, e, from), e, now, incarnation[e])
    PROVE  ConnectionTypes' /\ SelectionInv' /\ PlainInv'
<1> DEFINE w == FindUTP(World, e, from)
           n == Len(pairs) + 1
<1>1. IsWorld(World) /\ World.pr = pairs /\ World.s = select /\ World.t = table
  BY WorldIsWorld
<1>2. /\ Bucket(World.t, Len(World.pr)) /\ Len(pairs) \in Nat /\ IsSelect(select)
      /\ incarnation[e] \in IncarnationType /\ incarnation[e].number = 0
      /\ \A p \in 1..Len(pairs) : pairs[p] \in PairType
  BY <1>1 DEF ConnectionTypes, PlainInv
<1>3. IF \E q \in 1..Len(pairs) : pairs[q].ends = e
      THEN /\ IsWorld(w) /\ w.pr = pairs /\ w.s = select /\ Bucket(w.t, Len(pairs))
           /\ w.found \in 1..Len(pairs) /\ pairs[w.found].ends = e
      ELSE /\ IsLonger(w, World, n) /\ IsFirst(w.pr[n], e, from)
           /\ w.pr[n].ignored = Ignored(select, n) /\ Bucket(w.t, n)
  <2>1. InBucket(w, World, Len(World.pr) + 1, e, from)
    BY <1>1, <1>2, FoundInBucket
  <2> HIDE DEF w
  <2> QED
    BY <1>1, <2>1 DEF InBucket
<1>4. Becomes(w, e, now, incarnation[e])
  OBVIOUS
<1> HIDE DEF w
<1>5. /\ IsWorld(w) /\ SameSelect(w.s, select) /\ Bucket(w.t, Len(w.pr))
      /\ w.found \in 1..Len(w.pr) /\ w.pr[w.found].ends = e
      /\ \A q \in 1..Len(pairs) : w.pr[q] = pairs[q]
      /\ \/ Len(w.pr) = Len(pairs)
         \/ /\ Len(w.pr) = n /\ w.found = n /\ w.pr[n].ignored = Ignored(select, n)
            /\ \A q \in 1..Len(pairs) : pairs[q].ends # e
  <2>1. CASE \E q \in 1..Len(pairs) : pairs[q].ends = e
    BY <1>2, <1>3, <2>1 DEF SameSelect
  <2>2. CASE ~ \E q \in 1..Len(pairs) : pairs[q].ends = e
    <3>1. /\ IsLonger(w, World, n) /\ IsFirst(w.pr[n], e, from)
          /\ w.pr[n].ignored = Ignored(select, n) /\ Bucket(w.t, n)
      BY <1>3, <2>2
    <3>2. IsWorld(w) /\ SameSelect(w.s, select) /\ w.found = n /\ Len(w.pr) = n
          /\ \A q \in 1..Len(pairs) : w.pr[q] = pairs[q]
      BY <1>1, <3>1 DEF IsLonger
    <3>3. w.pr[n].ends = e /\ n \in 1..n
      BY <1>2, <3>1 DEF IsFirst
    <3> HIDE DEF n
    <3> QED
      BY <2>2, <3>1, <3>2, <3>3
  <2> QED
    BY <2>1, <2>2
<1>6. ConnectionTypes'
  BY <1>2, <1>4, <1>5, BecomesTypes
<1>7. SelectionInv'
  <2>1. \A p \in 1..Len(w.pr) : w.pr[p].ignored =
                IF p \in 1..Len(pairs) THEN pairs[p].ignored ELSE Ignored(select, p)
    <3> TAKE p \in 1..Len(w.pr)
    <3>1. CASE p \in 1..Len(pairs)
      BY <1>5, <3>1
    <3>2. CASE p \notin 1..Len(pairs)
      <4>1. p = n /\ w.pr[n].ignored = Ignored(select, n)
        BY <1>2, <1>5, <3>2
      <4> QED
        BY <3>2, <4>1
    <3> QED
      BY <3>1, <3>2
  <2> QED
    BY <1>4, <1>5, <2>1, BecomesSelection
<1>8. PlainInv'
  <2>1. /\ \A f \in Ends : f # e => incarnation'[f] = incarnation[f]
        /\ incarnation'[e].number = 0
    <3> DEFINE inc == incarnation[e]
    <3>1. inc \in IncarnationType /\ inc.number = 0 /\ Becomes(w, e, now, inc)
      BY <1>2, <1>4
    <3> HIDE DEF inc
    <3>2. Renumbered(e, inc.number)
      BY <3>1, NumbersChange
    <3> QED
      BY <3>1, <3>2 DEF Renumbered
  <2>2. \A f \in Ends : incarnation'[f].number = 0
    BY <2>1 DEF PlainInv
  <2>3. pairs' = w.pr /\ way' = way
    BY <1>4 DEF Becomes
  <2>4. ASSUME NEW p \in 1..Len(w.pr)
        PROVE  members'[p] = {<<w.pr[p].ends, 0>>}
    <3>1. members'[p] = (IF p \in 1..Len(pairs) THEN members[p] ELSE {})
                          \cup (IF p = w.found THEN {<<e, incarnation[e].number>>} ELSE {})
      BY <1>4, <1>5, MembersGrow
    <3>2. CASE p \in 1..Len(pairs)
      <4>1. w.pr[p] = pairs[p] /\ members[p] = {<<pairs[p].ends, 0>>}
        BY <1>5, <3>2 DEF PlainInv
      <4> QED
        BY <1>2, <1>5, <3>1, <3>2, <4>1
    <3>3. CASE p \notin 1..Len(pairs)
      <4>1. p = w.found
        BY <1>2, <1>5, <3>3
      <4> QED
        BY <1>2, <1>5, <3>1, <3>3, <4>1
    <3> QED
      BY <3>2, <3>3
  <2>5. ASSUME NEW p \in 1..Len(w.pr), NEW q \in 1..Len(w.pr), w.pr[p].ends = w.pr[q].ends
        PROVE  p = q
    <3>1. \A i \in 1..Len(w.pr) : i \in 1..Len(pairs) \/ i = n
      BY <1>2, <1>5
    <3>2. \A i, j \in 1..Len(pairs) : pairs[i].ends = pairs[j].ends => i = j
      BY DEF PlainInv
    <3>3. n \in 1..Len(w.pr) => w.pr[n].ends = e /\ \A i \in 1..Len(pairs) : pairs[i].ends # e
      BY <1>2, <1>5
    <3> HIDE DEF n
    <3> QED
      BY <1>5, <2>5, <3>1, <3>2, <3>3
  <2> QED
    BY <2>2, <2>3, <2>4, <2>5 DEF PlainInv
<1> QED
  BY <1>6, <1>7, <1>8

-----------------------------------------------------------------------------
(* Batch mode: incarnations of the endpoints.                              *)

LEMMA FinIsCounted ==
    ASSUME NEW b
    PROVE  FinCount(b) > 0 <=> \E d \in 1..2 : b[d].fin_count > 0
<1> DEFINE S == {d \in 1..2 : b[d].fin_count > 0}
<1>1. IsFiniteSet(S)
  <2>1. S \subseteq 1..2
    OBVIOUS
  <2>2. IsFiniteSet(1..2)
    <3> DEFINE i == 2
    <3>1. i \in Nat /\ 1..i = 1..2
      OBVIOUS
    <3> HIDE DEF i
    <3>2. IsFiniteSet(1..i)
      BY <3>1, FS_Interval
    <3> QED
      BY <3>1, <3>2, Zenon
  <2> HIDE DEF S
  <2> QED
    BY <2>1, <2>2, FS_Subset
<1>2. FinCount(b) = Cardinality(S)
  BY DEF FinCount
<1>3. S # {} <=> \E d \in 1..2 : b[d].fin_count > 0
  OBVIOUS
<1> HIDE DEF S
<1>4. Cardinality(S) \in Nat /\ (Cardinality(S) = 0 <=> S = {})
  BY <1>1, FS_CardinalityType, FS_EmptySet
<1> QED
  BY <1>2, <1>3, <1>4

EndCount(pair) ==
    pair.block[1].fin_count + pair.block[2].fin_count
      + pair.block[1].reset_count + pair.block[2].reset_count

\* What UpdateConnLists calls ended is that anything was counted.
LEMMA EndedIsCounted ==
    ASSUME NEW pair \in PairType
    PROVE  HasEnded(pair.block) <=> EndCount(pair) > 0
<1> DEFINE b == pair.block
<1>1. b \in [1..2 -> BlockType] /\ \A x \in BlockType : x.fin_count \in Nat /\ x.reset_count \in Nat
  BY DEF PairType, BlockType, UChar
<1>2. /\ b[1].fin_count \in Nat /\ b[2].fin_count \in Nat
      /\ b[1].reset_count \in Nat /\ b[2].reset_count \in Nat
  BY <1>1
<1>3. EndCount(pair) = b[1].fin_count + b[2].fin_count + b[1].reset_count + b[2].reset_count
  BY DEF EndCount
<1> HIDE DEF b
<1>4. FinCount(b) > 0 <=> b[1].fin_count > 0 \/ b[2].fin_count > 0
  <2>1. FinCount(b) > 0 <=> \E d \in 1..2 : b[d].fin_count > 0
    BY FinIsCounted
  <2> QED
    BY <2>1
<1>5. HasEnded(b) <=> FinCount(b) > 0 \/ b[1].reset_count + b[2].reset_count # 0
  BY DEF HasEnded, ConnReset
<1> DEFINE i == b[1].fin_count
           j == b[2].fin_count
           x == b[1].reset_count
           y == b[2].reset_count
<1>6. i \in Nat /\ j \in Nat /\ x \in Nat /\ y \in Nat
  BY <1>2
<1>7. HasEnded(b) <=> i > 0 \/ j > 0 \/ x + y # 0
  BY <1>4, <1>5
<1>8. EndCount(pair) = i + j + x + y
  BY <1>3
<1> HIDE DEF i, j, x, y
<1>9. HasEnded(b) <=> EndCount(pair) > 0
  BY <1>6, <1>7, <1>8
<1> QED
  BY <1>9 DEF b

\* The pair that the table has for endpoints whose incarnation is i: FindTTP
\* takes no packet of this incarnation for one of another, and the first packet
\* of the next incarnation for none of this.
Current(pair, i) ==
    /\ pair.a = i.opener /\ pair.last_time = i.at /\ i.isn > 0
    /\ pair.block[1].syn = i.isn /\ pair.block[1].windowend = 0
    /\ pair.block[2].syn_count > 0 => pair.block[2].syn = i.isn
    /\ pair.block[2].windowend <= i.isn + 1 + AnswerWindow
    /\ i.answered => pair.block[2].windowend >= i.isn + 1
    /\ i.ended <=> EndCount(pair) > 0

\* The packets of the pair p are those of the incarnation number m.
Numbered(p, m) ==
    /\ members[p] = {<<pairs[p].ends, m>>} /\ m <= incarnation[pairs[p].ends].number
    /\ m = incarnation[pairs[p].ends].number <=> p \in table

\* The pairs of the endpoints e are one per incarnation, and the table has the
\* one of the current incarnation.
EndsInv(e) ==
    /\ \A p \in 1..Len(pairs) : pairs[p].ends = e => \E m \in Nat \ {0} : Numbered(p, m)
    /\ \A p, q \in 1..Len(pairs) :
         pairs[p].ends = e /\ pairs[q].ends = e /\ members[p] = members[q] => p = q
    /\ IF incarnation[e].number = 0
       THEN ~incarnation[e].synced /\ ~incarnation[e].answered
       ELSE /\ incarnation[e].synced
            /\ \E p \in table : pairs[p].ends = e /\ Current(pairs[p], incarnation[e])

\* So it is until an end is forgotten; other endpoints do not suffer from that.
BatchInv == way = "batch" => \A e \in Ends \ forgotten : EndsInv(e)

\* The pair of endpoints in the table is the only one.
LEMMA OnePairKnown ==
    ASSUME ConnectionTypes, way = "batch", NEW e, EndsInv(e),
           NEW p \in table, NEW q \in table, pairs[p].ends = e, pairs[q].ends = e
    PROVE  p = q
<1>1. p \in 1..Len(pairs) /\ q \in 1..Len(pairs)
  BY DEF ConnectionTypes
<1>2. PICK m \in Nat \ {0} : Numbered(p, m)
  BY <1>1 DEF EndsInv
<1>3. PICK l \in Nat \ {0} : Numbered(q, l)
  BY <1>1 DEF EndsInv
<1>4. members[p] = members[q]
  BY <1>2, <1>3 DEF Numbered
<1> QED
  BY <1>1, <1>4 DEF EndsInv

\* Endpoints that are unknown have no incarnation yet, and the other way round.
LEMMA KnownOrNew ==
    ASSUME ConnectionTypes, way = "batch", NEW e \in Ends, EndsInv(e)
    PROVE  IF incarnation[e].number = 0 THEN Known(World, e) = {}
           ELSE \E k \in 1..Len(pairs) : /\ Known(World, e) = {k} /\ k \in table
                                         /\ pairs[k].ends = e /\ Current(pairs[k], incarnation[e])
<1>1. Known(World, e) = {p \in table : pairs[p].ends = e}
  BY WorldIsWorld DEF Known
<1>2. CASE incarnation[e].number = 0
  <2>1. ASSUME NEW p \in table, pairs[p].ends = e
        PROVE  FALSE
    <3>1. p \in 1..Len(pairs)
      BY DEF ConnectionTypes
    <3>2. PICK m \in Nat \ {0} : Numbered(p, m)
      BY <2>1, <3>1 DEF EndsInv
    <3> QED
      BY <1>2, <2>1, <3>2 DEF Numbered
  <2> QED
    BY <1>1, <1>2, <2>1
<1>3. CASE incarnation[e].number # 0
  <2>1. PICK k \in table : pairs[k].ends = e /\ Current(pairs[k], incarnation[e])
    BY <1>3 DEF EndsInv
  <2>2. k \in 1..Len(pairs)
    BY DEF ConnectionTypes
  <2>3. \A p \in table : pairs[p].ends = e => p = k
    BY <2>1, OnePairKnown
  <2>4. Known(World, e) = {k}
    BY <1>1, <2>1, <2>3
  <2> QED
    BY <1>3, <2>1, <2>2, <2>4
<1> QED
  BY <1>2, <1>3

\* A packet of e changes nothing of other endpoints.
Apart(w, e) ==
    /\ Len(pairs) <= Len(w.pr)
    /\ \A q \in 1..Len(w.pr) :
         IF q \in 1..Len(pairs)
         THEN /\ w.pr[q].ends = pairs[q].ends
              /\ pairs[q].ends # e => /\ SameRecord(w.pr[q], pairs[q]) /\ q # w.found
                                      /\ q \in w.t <=> q \in table
         ELSE w.pr[q].ends = e

LEMMA OthersKept ==
    ASSUME ConnectionTypes, way = "batch", NEW w, IsWorld(w), NEW e \in Ends, NEW now, NEW inc \in IncarnationType,
           Becomes(w, e, now, inc), Apart(w, e), NEW f \in Ends, f # e, EndsInv(f)
    PROVE  EndsInv(f)'
<1>1. /\ pairs' = w.pr /\ table' = w.t /\ incarnation'[f] = incarnation[f]
  BY NumbersChange DEF Becomes, Renumbered
<1>2. ASSUME NEW q \in 1..Len(w.pr), w.pr[q].ends = f
      PROVE  /\ q \in 1..Len(pairs) /\ pairs[q].ends = f /\ members'[q] = members[q]
             /\ q \in table' <=> q \in table
             /\ SameRecord(pairs'[q], pairs[q])
  <2>1. q \in 1..Len(pairs) /\ pairs[q].ends = f
    BY <1>2 DEF Apart
  <2>2. q # w.found /\ (q \in w.t <=> q \in table) /\ SameRecord(w.pr[q], pairs[q])
    BY <2>1 DEF Apart
  <2>3. members'[q] = members[q] \cup {}
    BY <2>1, <2>2, MembersGrow
  <2>4. members'[q] = members[q]
    BY <2>3, Zenon
  <2> QED
    BY <1>1, <2>1, <2>2, <2>4
<1>3. ASSUME NEW q \in 1..Len(w.pr), w.pr[q].ends = f
      PROVE  \E m \in Nat \ {0} : Numbered(q, m)'
  <2>1. q \in 1..Len(pairs) /\ pairs[q].ends = f /\ pairs'[q].ends = f
    BY <1>1, <1>2, <1>3
  <2>2. PICK m \in Nat \ {0} : Numbered(q, m)
    BY <2>1 DEF EndsInv
  <2>3. Numbered(q, m)'
    BY <1>1, <1>2, <1>3, <2>1, <2>2 DEF Numbered
  <2> QED
    BY <2>3
<1>4. ASSUME NEW i \in 1..Len(w.pr), NEW j \in 1..Len(w.pr), w.pr[i].ends = f, w.pr[j].ends = f,
             members'[i] = members'[j]
      PROVE  i = j
  <2>1. /\ i \in 1..Len(pairs) /\ j \in 1..Len(pairs) /\ pairs[i].ends = f /\ pairs[j].ends = f
        /\ members[i] = members[j]
    BY <1>2, <1>4
  <2> QED
    BY <2>1 DEF EndsInv
<1>5. ASSUME NEW q \in table, pairs[q].ends = f, Current(pairs[q], incarnation[f])
      PROVE  q \in table' /\ pairs'[q].ends = f /\ Current(pairs'[q], incarnation[f])
  <2>1. q \in 1..Len(pairs) /\ Len(pairs) \in Nat /\ Len(w.pr) \in Nat
    BY DEF ConnectionTypes, IsWorld
  <2>2. q \in 1..Len(w.pr)
    BY <2>1 DEF Apart
  <2>3. w.pr[q].ends = f
    BY <1>5, <2>1, <2>2 DEF Apart
  <2>4. q \in table' /\ SameRecord(pairs'[q], pairs[q])
    BY <1>2, <2>2, <2>3
  <2> QED
    BY <1>5, <2>4 DEF SameRecord, Current, EndCount
<1> QED
  BY <1>1, <1>3, <1>4, <1>5 DEF EndsInv

\* The first packet of a new incarnation: a new pair.
LEMMA StartedStep ==
    ASSUME ConnectionTypes, way = "batch",
           NEW e \in Ends, EndsInv(e), NEW from \in 1..2, NEW p \in PacketType, NEW now \in Nat, NEW w,
           NEW inc \in IncarnationType, inc.number = incarnation[e].number + 1, inc.synced,
           NEW old, \A q \in table : q \in old <=> pairs[q].ends = e,
           Started(w, World, e, from, p, now, old), Becomes(w, e, now, inc),
           \A pair, c : IsFirst(c, e, from) /\ Counted(pair, c, 1, p, now)
                          => Current(pair, [inc EXCEPT !.at = now])
    PROVE  EndsInv(e)'
<1>1. /\ IsWorld(World) /\ World.pr = pairs /\ World.s = select /\ World.t = table
      /\ Len(pairs) \in Nat /\ table \in SUBSET (1..Len(pairs))
  BY WorldIsWorld DEF ConnectionTypes
<1>2. PICK n \in Nat :
        /\ n = Len(pairs) + 1 /\ w.found = n /\ Len(w.pr) = n
        /\ IsWorld(w) /\ SameSelect(w.s, select) /\ w.t = (table \ old) \cup {n}
        /\ \A q \in 1..Len(pairs) : SameRecord(w.pr[q], pairs[q])
        /\ w.pr[n].ignored = Ignored(select, n)
        /\ \E c : IsFirst(c, e, from) /\ Counted(w.pr[n], c, 1, p, now)
  BY <1>1 DEF Started
<1>3. /\ n \in 1..n /\ \A q \in 1..n : q \in 1..Len(pairs) \/ q = n
      /\ \A q \in 1..Len(pairs) : q \in 1..n /\ q # n
  BY <1>1, <1>2
<1>4. w.pr[n].ends = e /\ Current(w.pr[n], [inc EXCEPT !.at = now])
  BY <1>2 DEF IsFirst, Counted, SameConnection
<1>7. /\ pairs' = w.pr /\ table' = w.t /\ way' = way
      /\ Renumbered(e, incarnation[e].number + 1) /\ incarnation'[e] = [inc EXCEPT !.at = now]
  <2>1. Renumbered(e, inc.number) /\ incarnation'[e] = [inc EXCEPT !.at = now]
    BY NumbersChange
  <2> QED
    BY <2>1 DEF Becomes
<1>8. incarnation[e].number \in Nat /\ \A f \in Ends : incarnation[f].number \in Nat
  BY DEF ConnectionTypes, IncarnationType
<1>9. /\ \A q \in 1..Len(pairs) : members'[q] = members[q]
      /\ members'[n] = {<<e, incarnation[e].number + 1>>}
  <2>1. \A q \in 1..Len(w.pr) :
              members'[q] = (IF q \in 1..Len(pairs) THEN members[q] ELSE {})
                              \cup (IF q = w.found THEN {<<e, inc.number>>} ELSE {})
    BY <1>2, MembersGrow
  <2>2. n \notin 1..Len(pairs)
    BY <1>3
  <2>3. ASSUME NEW q \in 1..Len(pairs)
        PROVE  members'[q] = members[q]
    <3>1. q \in 1..Len(w.pr) /\ q # w.found
      BY <1>2, <1>3
    <3>2. members'[q] = members[q] \cup {}
      BY <2>1, <3>1
    <3> QED
      BY <3>2, Zenon
  <2>4. members'[n] = {<<e, inc.number>>}
    <3>1. n \in 1..Len(w.pr) /\ n = w.found
      BY <1>2, <1>3
    <3>2. members'[n] = {} \cup {<<e, inc.number>>}
      BY <2>1, <2>2, <3>1
    <3> QED
      BY <3>2, Zenon
  <2> QED
    BY <2>3, <2>4
<1>10. \A q \in 1..Len(pairs) : pairs'[q].ends = pairs[q].ends /\ pairs[q].ends \in Ends
  <2>1. \A q \in 1..Len(pairs) : pairs[q] \in PairType
    BY DEF ConnectionTypes
  <2> QED
    BY <1>2, <1>7, <2>1 DEF SameRecord, PairType
<1>11. ASSUME NEW q \in 1..Len(pairs), pairs[q].ends = e
       PROVE  \E m \in Nat \ {0} : Numbered(q, m)' /\ Numbered(q, m)
  <2>1. PICK m \in Nat \ {0} : Numbered(q, m)
    BY <1>11 DEF EndsInv
  <2>2. Numbered(q, m)'
    <3>1. q \notin table'
      BY <1>2, <1>3, <1>7, <1>11
    <3>2. incarnation'[e].number = incarnation[e].number + 1 /\ m <= incarnation[e].number
      BY <1>7, <1>11, <2>1 DEF Renumbered, Numbered
    <3>3. m <= incarnation'[e].number /\ m # incarnation'[e].number
      BY <1>8, <3>2
    <3> QED
      BY <1>9, <1>10, <1>11, <2>1, <3>1, <3>3 DEF Numbered
  <2> QED
    BY <2>1, <2>2
<1>12. ASSUME NEW m \in Nat, m = incarnation[e].number + 1
       PROVE  Numbered(n, m)'
  <2>1. pairs'[n].ends = e /\ n \in table'
    BY <1>2, <1>4, <1>7
  <2>2. members'[n] = {<<e, m>>} /\ incarnation'[e].number = m
    BY <1>7, <1>9, <1>12 DEF Renumbered
  <2> QED
    BY <2>1, <2>2 DEF Numbered
<1>13. ASSUME NEW q \in 1..Len(pairs), pairs[q].ends = e
       PROVE  members'[q] # members'[n]
  <2>1. PICK m \in Nat \ {0} : Numbered(q, m)
    BY <1>11, <1>13
  <2>2. members'[q] = {<<pairs[q].ends, m>>} /\ m <= incarnation[pairs[q].ends].number
    BY <1>9, <2>1 DEF Numbered
  <2>3. <<pairs[q].ends, m>> # <<e, incarnation[e].number + 1>>
    BY <1>8, <2>2
  <2> QED
    BY <1>9, <2>2, <2>3
<1>14. /\ incarnation'[e].number # 0 /\ incarnation'[e].synced
       /\ n \in table' /\ pairs'[n].ends = e /\ Current(pairs'[n], incarnation'[e])
  <2>1. incarnation'[e].number # 0 /\ incarnation'[e].synced
    BY <1>7, <1>8 DEF Renumbered, IncarnationType
  <2>2. n \in table' /\ pairs'[n].ends = e /\ Current(pairs'[n], incarnation'[e])
    BY <1>2, <1>4, <1>7
  <2> QED
    BY <2>1, <2>2
<1>15. Len(pairs') = n
  BY <1>2, <1>7
<1>16. ASSUME NEW q \in 1..n, pairs'[q].ends = e
       PROVE  \E m \in Nat \ {0} : Numbered(q, m)'
  <2>1. \E m \in Nat \ {0} : Numbered(n, m)'
    BY <1>8, <1>12
  <2>2. ASSUME q \in 1..Len(pairs)
        PROVE  \E m \in Nat \ {0} : Numbered(q, m)'
    BY <1>10, <1>11, <1>16, <2>2
  <2> QED
    BY <1>3, <2>1, <2>2
<1>17. ASSUME NEW i \in 1..n, NEW j \in 1..n, pairs'[i].ends = e, pairs'[j].ends = e,
              members'[i] = members'[j]
       PROVE  i = j
  <2>1. ASSUME i \in 1..Len(pairs), j \in 1..Len(pairs)
        PROVE  i = j
    <3>1. pairs[i].ends = e /\ pairs[j].ends = e /\ members[i] = members[j]
      BY <1>9, <1>10, <1>17, <2>1
    <3> QED
      BY <2>1, <3>1 DEF EndsInv
  <2> QED
    BY <1>3, <1>10, <1>13, <1>17, <2>1
<1> QED
  BY <1>14, <1>15, <1>16, <1>17 DEF EndsInv

\* A packet of the current incarnation: the pair stays its pair.
LEMMA RecordedStep ==
    ASSUME ConnectionTypes, way = "batch", NEW e \in Ends, EndsInv(e),
           NEW from \in 1..2, NEW p \in PacketType, NEW now \in Nat, NEW w,
           NEW inc \in IncarnationType, inc.number = incarnation[e].number, inc.synced,
           NEW k \in table, pairs[k].ends = e, inc.number # 0,
           Recorded(w, World, k, from, p, now), Becomes(w, e, now, inc),
           Current(w.pr[k], [inc EXCEPT !.at = now])
    PROVE  EndsInv(e)'
<1>1. /\ IsWorld(World) /\ World.pr = pairs /\ World.s = select /\ World.t = table
      /\ Len(pairs) \in Nat /\ table \in SUBSET (1..Len(pairs)) /\ k \in 1..Len(pairs)
  BY WorldIsWorld DEF ConnectionTypes
<1>2. /\ IsWorld(w) /\ SameSelect(w.s, select) /\ w.t = table
      /\ w.found = k /\ Len(w.pr) = Len(pairs)
      /\ \A q \in 1..Len(pairs) : q # k => w.pr[q] = pairs[q]
      /\ SameConnection(w.pr[k], pairs[k])
  BY <1>1 DEF Recorded, Counted
<1>5. /\ pairs' = w.pr /\ table' = w.t /\ way' = way
      /\ Renumbered(e, incarnation[e].number) /\ incarnation'[e] = [inc EXCEPT !.at = now]
  <2>1. Renumbered(e, inc.number) /\ incarnation'[e] = [inc EXCEPT !.at = now]
    BY NumbersChange
  <2> QED
    BY <2>1 DEF Becomes
<1>6. \A q \in 1..Len(pairs) : pairs'[q].ends = pairs[q].ends /\ pairs[q].ends \in Ends
  <2>1. \A q \in 1..Len(pairs) : pairs[q] \in PairType
    BY DEF ConnectionTypes
  <2> QED
    BY <1>2, <1>5, <2>1 DEF SameConnection, PairType
<1>7. \A f \in Ends : incarnation'[f].number = incarnation[f].number
  BY <1>5 DEF Renumbered
<1>8. ASSUME NEW q \in 1..Len(pairs)
      PROVE  members'[q] = members[q]
  <2>1. members'[q] = members[q] \cup (IF q = k THEN {<<e, inc.number>>} ELSE {})
    BY <1>2, MembersGrow
  <2>2. CASE q = k
    <3>1. PICK m \in Nat \ {0} : Numbered(k, m)
      BY <1>1 DEF EndsInv
    <3>2. members[k] = {<<e, inc.number>>}
      BY <3>1 DEF Numbered
    <3> QED
      BY <2>1, <2>2, <3>2
  <2>3. CASE q # k
    BY <2>1, <2>3
  <2> QED
    BY <2>2, <2>3
<1>9. ASSUME NEW q \in 1..Len(pairs), pairs'[q].ends = e
      PROVE  \E m \in Nat \ {0} : Numbered(q, m)'
  <2>1. PICK m \in Nat \ {0} : Numbered(q, m)
    BY <1>6, <1>9 DEF EndsInv
  <2>2. Numbered(q, m)'
    BY <1>2, <1>5, <1>6, <1>7, <1>8, <2>1 DEF Numbered
  <2> QED
    BY <2>2
<1>10. /\ incarnation'[e].number # 0 /\ incarnation'[e].synced
       /\ k \in table' /\ pairs'[k].ends = e /\ Current(pairs'[k], incarnation'[e])
  <2>1. incarnation'[e].number # 0 /\ incarnation'[e].synced
    BY <1>5, <1>7 DEF IncarnationType
  <2>2. k \in table' /\ pairs'[k].ends = e /\ Current(pairs'[k], incarnation'[e])
    BY <1>1, <1>2, <1>5, <1>6
  <2> QED
    BY <2>1, <2>2
<1>11. ASSUME NEW i \in 1..Len(pairs), NEW j \in 1..Len(pairs), pairs'[i].ends = e, pairs'[j].ends = e,
              members'[i] = members'[j]
       PROVE  i = j
  <2>1. pairs[i].ends = e /\ pairs[j].ends = e /\ members[i] = members[j]
    BY <1>6, <1>8, <1>11
  <2> QED
    BY <2>1 DEF EndsInv
<1> QED
  BY <1>2, <1>5, <1>9, <1>10, <1>11 DEF EndsInv

\* The first packet of the next incarnation is not taken for one of the last.
LEMMA OpenIsReused ==
    ASSUME ConnectionsAssumption, NEW pair \in PairType, NEW i \in IncarnationType, Current(pair, i), i.ended,
           NEW isn \in Nat \ {0}, isn > i.isn + AnswerWindow + 1 \/ isn < i.isn,
           NEW from \in 1..2, NEW now
    PROVE  Reused(pair, WhichDir(pair, from), Packet(TRUE, FALSE, FALSE, isn, Null), now)
<1> DEFINE p == Packet(TRUE, FALSE, FALSE, isn, Null)
           dir == WhichDir(pair, from)
<1>1. dir \in {1, 2} /\ 3 - 1 = 2 /\ 3 - 2 = 1
  BY DEF WhichDir
<1>2. p.syn = TRUE /\ p.seq = isn
  BY DEF Packet
<1>3. pair.block[1] \in BlockType /\ pair.block[2] \in BlockType
  BY DEF PairType
<1>4. \A b \in BlockType : b.fin_count \in Nat /\ b.reset_count \in Nat /\ b.windowend \in Nat
  BY DEF BlockType, UChar
<1>5. EndCount(pair) > 0
  BY DEF Current
<1>6. i.isn \in Nat /\ AnswerWindow \in Nat
  BY DEF IncarnationType, ConnectionsAssumption
<1> HIDE DEF p, dir
<1> DEFINE b1 == pair.block[1]
           b2 == pair.block[2]
<1>7. CASE dir = 1
  <2>1. isn > b2.windowend \/ isn < b1.syn
    BY <1>3, <1>4, <1>6 DEF Current
  <2>2. b1.fin_count + b2.fin_count + b1.reset_count + b2.reset_count > 0
    BY <1>3, <1>4, <1>5 DEF EndCount
  <2>3. pair.block[dir] = b1 /\ pair.block[3 - dir] = b2
    BY <1>7, <1>1
  <2> HIDE DEF b1, b2
  <2> QED
    BY <1>2, <2>1, <2>2, <2>3, Zenon DEF Reused, p, dir
<1>8. CASE dir = 2
  <2>1. isn > b1.windowend
    BY DEF Current
  <2>2. b2.fin_count + b1.fin_count + b2.reset_count + b1.reset_count > 0
    BY <1>3, <1>4, <1>5 DEF EndCount
  <2>3. pair.block[dir] = b2 /\ pair.block[3 - dir] = b1
    BY <1>8, <1>1
  <2> HIDE DEF b1, b2
  <2> QED
    BY <1>2, <2>1, <2>2, <2>3, Zenon DEF Reused, p, dir
<1> QED
  BY <1>1, <1>7, <1>8

LEMMA OpenIsCurrent ==
    ASSUME ConnectionsAssumption, NEW isn \in Nat \ {0}, NEW e \in Ends, NEW from \in 1..2, NEW now \in Nat,
           NEW i \in IncarnationType, i.isn = isn, i.opener = from, ~i.answered, ~i.ended,
           i.at = now, NEW pair, NEW c, IsFirst(c, e, from),
           Counted(pair, c, 1, Packet(TRUE, FALSE, FALSE, isn, Null), now)
    PROVE  Current(pair, i)
<1> DEFINE p == Packet(TRUE, FALSE, FALSE, isn, Null)
<1>1. /\ p.syn = TRUE /\ p.fin = FALSE /\ p.rst = FALSE /\ p.seq = isn /\ p.wend = 0
  BY DEF Packet, Null
<1> HIDE DEF p
<1>2. CountedBlock(pair.block[1], NoBlock, p) /\ pair.block[2] = NoBlock /\ pair.a = from /\ pair.last_time = now
  <2>1. /\ CountedBlock(pair.block[1], c.block[1], p) /\ pair.block[3 - 1] = c.block[3 - 1]
        /\ pair.a = c.a /\ pair.last_time = now
    BY DEF Counted, SameConnection, p
  <2>2. 3 - 1 = 2
    OBVIOUS
  <2> QED
    BY <2>1, <2>2 DEF IsFirst
<1> HIDE DEF p
<1>3. /\ pair.block[1].syn = isn /\ pair.block[1].windowend = 0
      /\ pair.block[1].fin_count = 0 /\ pair.block[1].reset_count = 0
      /\ pair.block[2].syn_count = 0 /\ pair.block[2].windowend = 0
      /\ pair.block[2].fin_count = 0 /\ pair.block[2].reset_count = 0
  <2>1. 0 \in UChar
    BY DEF ConnectionsAssumption, UChar
  <2>2. Bumped(0, p.fin) = 0 /\ Bumped(0, p.rst) = 0
    BY <1>1, <2>1, BumpedShape
  <2> QED
    BY <1>1, <1>2, <2>2 DEF CountedBlock, NoBlock
<1>4. AnswerWindow \in Nat
  BY DEF ConnectionsAssumption
<1> QED
  BY <1>2, <1>3, <1>4 DEF Current, EndCount

\* What a packet of batch mode finds or starts.
BatchOutcome(w, e, from, p, now, inc) ==
    /\ Becomes(w, e, now, inc)
    /\ IF Known(World, e) = {} THEN Started(w, World, e, from, p, now, {})
       ELSE FoundOrStarted(w, World, e, from, p, now)

LEMMA TracedOutcome ==
    ASSUME ConnectionsAssumption, ConnectionTypes, way = "batch", NEW e \in Ends, NEW from \in 1..2,
           NEW p \in PacketType, NEW gap \in Gaps, NEW inc, Traced(e, from, p, gap, inc)
    PROVE  time.now + gap \in Nat /\ \E w : BatchOutcome(w, e, from, p, time.now + gap, inc)
<1> DEFINE now == time.now + gap
           w == dotraceTTP(World, e, from, p, now, time.updated)
<1>1. now \in Nat
  <2>1. time.now \in Nat
    BY DEF ConnectionTypes
  <2>2. gap \in Nat
    BY DEF ConnectionsAssumption
  <2> QED
    BY <2>1, <2>2
<1>2. IsWorld(World) /\ World.t \in SUBSET (1..Len(World.pr))
  BY WorldIsWorld DEF ConnectionTypes
<1>3. Becomes(w, e, now, inc)
  BY DEF Traced
<1> DEFINE last == time.updated
<1> HIDE DEF now, last
<1>4. IF Known(World, e) = {} THEN Started(w, World, e, from, p, now, {})
      ELSE FoundOrStarted(w, World, e, from, p, now)
  <2>1. w = dotraceTTP(World, e, from, p, now, last)
    BY DEF last
  <2> HIDE DEF w
  <2> QED
    BY <1>1, <1>2, <2>1, TracedInBatch
<1>5. BatchOutcome(w, e, from, p, now, inc)
  BY <1>3, <1>4 DEF BatchOutcome
<1> HIDE DEF w
<1>6. \E u : BatchOutcome(u, e, from, p, now, inc)
  BY <1>5
<1> QED
  BY <1>1, <1>6 DEF now

\* What a packet of e leaves alone, whatever is known of e.
LEMMA OutcomeApart ==
    ASSUME ConnectionTypes, SelectionInv, way = "batch", NEW e \in Ends, NEW from \in 1..2,
           NEW p \in PacketType, NEW now \in Nat, NEW inc \in IncarnationType, NEW w,
           BatchOutcome(w, e, from, p, now, inc)
    PROVE  ConnectionTypes' /\ SelectionInv' /\ IsWorld(w) /\ Apart(w, e)
<1>1. /\ IsWorld(World) /\ World.pr = pairs /\ World.s = select /\ World.t = table
      /\ Len(pairs) \in Nat /\ table \in SUBSET (1..Len(pairs)) /\ pairs \in Seq(PairType)
  BY WorldIsWorld DEF ConnectionTypes
<1>2. Known(World, e) = {q \in table : pairs[q].ends = e} /\ Becomes(w, e, now, inc)
  BY <1>1 DEF Known, BatchOutcome
<1>3. ASSUME NEW old \in SUBSET Known(World, e), Started(w, World, e, from, p, now, old)
      PROVE  /\ IsWorld(w) /\ w.t \in SUBSET (1..Len(w.pr)) /\ SameSelect(w.s, select) /\ Apart(w, e)
             /\ \A q \in 1..Len(w.pr) : w.pr[q].ignored =
                   IF q \in 1..Len(pairs) THEN pairs[q].ignored ELSE Ignored(select, q)
  <2>1. PICK n \in Nat :
        /\ n = Len(pairs) + 1 /\ w.found = n /\ Len(w.pr) = n
        /\ IsWorld(w) /\ SameSelect(w.s, select) /\ w.t = (table \ old) \cup {n}
        /\ \A q \in 1..Len(pairs) : SameRecord(w.pr[q], pairs[q])
        /\ w.pr[n].ignored = Ignored(select, n)
        /\ \E c : IsFirst(c, e, from) /\ Counted(w.pr[n], c, 1, p, now)
    BY <1>1, <1>3 DEF Started
  <2>2. /\ n \in 1..n /\ \A q \in 1..n : q \in 1..Len(pairs) \/ q = n
        /\ \A q \in 1..Len(pairs) : q \in 1..n /\ q # n
        /\ n \notin 1..Len(pairs) /\ Len(pairs) <= Len(w.pr)
    BY <1>1, <2>1
  <2>3. w.pr[n].ends = e
    BY <2>1 DEF IsFirst, Counted, SameConnection
  <2>4. w.t \in SUBSET (1..Len(w.pr))
    BY <1>1, <2>1, <2>2
  <2>5. \A q \in 1..Len(pairs) : pairs[q].ends # e => (q \in w.t <=> q \in table)
    BY <1>2, <2>1, <2>2
  <2>6. Apart(w, e)
    BY <2>1, <2>2, <2>3, <2>5 DEF Apart, SameRecord
  <2>7. \A q \in 1..Len(w.pr) : w.pr[q].ignored =
                   IF q \in 1..Len(pairs) THEN pairs[q].ignored ELSE Ignored(select, q)
    BY <2>1, <2>2 DEF SameRecord
  <2> QED
    BY <2>1, <2>4, <2>6, <2>7
<1>4. ASSUME NEW k \in Known(World, e), Recorded(w, World, k, from, p, now)
      PROVE  /\ IsWorld(w) /\ w.t \in SUBSET (1..Len(w.pr)) /\ SameSelect(w.s, select) /\ Apart(w, e)
             /\ \A q \in 1..Len(w.pr) : w.pr[q].ignored =
                   IF q \in 1..Len(pairs) THEN pairs[q].ignored ELSE Ignored(select, q)
  <2>1. /\ IsWorld(w) /\ SameSelect(w.s, select) /\ w.t = table
        /\ w.found = k /\ Len(w.pr) = Len(pairs) /\ k \in 1..Len(pairs) /\ pairs[k].ends = e
        /\ \A q \in 1..Len(pairs) : q # k => w.pr[q] = pairs[q]
        /\ SameConnection(w.pr[k], pairs[k])
    BY <1>1, <1>2, <1>4 DEF Recorded, Counted
  <2>2. \A q \in 1..Len(pairs) : pairs[q] \in PairType
    BY <1>1
  <2>3. \A q \in 1..Len(pairs) : q # k => SameRecord(w.pr[q], pairs[q])
    BY <2>1, <2>2 DEF SameRecord
  <2>4. Apart(w, e)
    BY <1>1, <2>1, <2>3 DEF Apart, SameConnection
  <2>5. \A q \in 1..Len(w.pr) : w.pr[q].ignored =
                   IF q \in 1..Len(pairs) THEN pairs[q].ignored ELSE Ignored(select, q)
    BY <2>1 DEF SameConnection
  <2> QED
    BY <1>1, <2>1, <2>4, <2>5
<1>5. \/ \E old \in SUBSET Known(World, e) : Started(w, World, e, from, p, now, old)
      \/ \E k \in Known(World, e) : Recorded(w, World, k, from, p, now)
  <2>1. CASE Known(World, e) = {}
    BY <2>1 DEF BatchOutcome
  <2>2. CASE Known(World, e) # {}
    <3>1. FoundOrStarted(w, World, e, from, p, now)
      BY <2>2 DEF BatchOutcome
    <3>2. PICK k \in Known(World, e) :
            \/ Started(w, World, e, from, p, now, {k}) \/ Recorded(w, World, k, from, p, now)
      BY <3>1 DEF FoundOrStarted
    <3>3. {k} \in SUBSET Known(World, e)
      OBVIOUS
    <3> QED
      BY <3>2, <3>3
  <2> QED
    BY <2>1, <2>2
<1>6. /\ IsWorld(w) /\ w.t \in SUBSET (1..Len(w.pr)) /\ SameSelect(w.s, select) /\ Apart(w, e)
      /\ \A q \in 1..Len(w.pr) : w.pr[q].ignored =
             IF q \in 1..Len(pairs) THEN pairs[q].ignored ELSE Ignored(select, q)
  BY <1>3, <1>4, <1>5
<1>7. ConnectionTypes'
  BY <1>2, <1>6, BecomesTypes
<1>8. SelectionInv'
  BY <1>2, <1>6, BecomesSelection
<1> QED
  BY <1>6, <1>7, <1>8

\* The other endpoints keep what they have; it is left to say of e.
LEMMA BatchStep ==
    ASSUME ConnectionsAssumption, ConnectionTypes, SelectionInv, BatchInv, way = "batch",
           NEW e \in Ends, NEW from \in 1..2, NEW p \in PacketType, NEW gap \in Gaps,
           NEW inc \in IncarnationType, Traced(e, from, p, gap, inc),
           e \notin forgotten' => EndsInv(e)'
    PROVE  ConnectionTypes' /\ SelectionInv' /\ BatchInv'
<1> DEFINE now == time.now + gap
<1>1. now \in Nat /\ \E w : BatchOutcome(w, e, from, p, now, inc)
  BY TracedOutcome
<1> HIDE DEF now
<1>2. PICK w : BatchOutcome(w, e, from, p, now, inc)
  BY <1>1
<1>3. ConnectionTypes' /\ SelectionInv' /\ IsWorld(w) /\ Apart(w, e)
  BY <1>1, <1>2, OutcomeApart
<1>4. Becomes(w, e, now, inc)
  BY <1>2 DEF BatchOutcome
<1>5. forgotten \subseteq forgotten'
  BY <1>4 DEF Becomes
<1>6. ASSUME NEW f \in Ends \ forgotten'
      PROVE  EndsInv(f)'
  <2>1. CASE f = e
    BY <1>6, <2>1
  <2>2. CASE f # e
    <3>1. f \in Ends /\ EndsInv(f)
      BY <1>5 DEF BatchInv
    <3> QED
      BY <1>3, <1>4, <2>2, <3>1, OthersKept
  <2> QED
    BY <2>1, <2>2
<1> QED
  BY <1>3, <1>6 DEF BatchInv

LEMMA OpenStep ==
    ASSUME ConnectionsAssumption, ConnectionTypes, SelectionInv, BatchInv,
           NEW e \in Ends, NEW from \in 1..2, NEW gap \in Gaps, NEW isn \in Nat \ {0},
           Open(e, from, isn, gap)
    PROVE  ConnectionTypes' /\ SelectionInv' /\ BatchInv'
<1> DEFINE i == incarnation[e]
           p == Packet(TRUE, FALSE, FALSE, isn, Null)
           inc == [number |-> i.number + 1, isn |-> isn, opener |-> from, synced |-> TRUE,
                   answered |-> FALSE, ended |-> FALSE, at |-> 0]
           now == time.now + gap
           last == [inc EXCEPT !.at = now]
<1>1. way = "batch" /\ i \in IncarnationType /\ i.number \in Nat
  BY DEF Open, Batch, ConnectionTypes, IncarnationType
<1>2. /\ i.number = 0 \/ i.ended
      /\ isn > i.isn + AnswerWindow + 1 \/ isn < i.isn \/ i.number = 0
      /\ Traced(e, from, p, gap, inc)
  BY DEF Open
<1>3. p \in PacketType
  BY DEF Packet, PacketType, Null
<1>4. inc \in IncarnationType /\ inc.number = i.number + 1 /\ inc.synced
  BY <1>1 DEF IncarnationType
<1> SUFFICES ASSUME e \notin forgotten'
             PROVE  EndsInv(e)'
  <2> HIDE DEF p, inc
  <2> QED
    BY <1>1, <1>2, <1>3, <1>4, BatchStep
<1>5. now \in Nat /\ \E w : BatchOutcome(w, e, from, p, now, inc)
  <2> HIDE DEF p, inc
  <2> QED
    BY <1>1, <1>2, <1>3, TracedOutcome
<1>6. /\ last \in IncarnationType /\ last.isn = isn /\ last.opener = from /\ last.at = now
      /\ ~last.answered /\ ~last.ended
  <2>1. inc.isn = isn /\ inc.opener = from /\ ~inc.answered /\ ~inc.ended
    OBVIOUS
  <2> HIDE DEF now, inc
  <2> QED
    BY <1>4, <1>5, <2>1 DEF IncarnationType
<1> HIDE DEF now, last
<1>7. \A pair, c : IsFirst(c, e, from) /\ Counted(pair, c, 1, p, now) => Current(pair, last)
  BY <1>5, <1>6, OpenIsCurrent
<1> DEFINE known == {q \in table : pairs[q].ends = e}
<1>8. Known(World, e) = known
  BY WorldIsWorld DEF Known
<1>9. PICK w : BatchOutcome(w, e, from, p, now, inc)
  BY <1>5
<1>10. EndsInv(e)
  <2>1. forgotten \subseteq forgotten'
    BY <1>9 DEF BatchOutcome, Becomes
  <2> QED
    BY <1>1, <2>1 DEF BatchInv
<1>11. Started(w, World, e, from, p, now, known)
  <2>1. CASE Known(World, e) = {}
    BY <1>8, <1>9, <2>1 DEF BatchOutcome
  <2>2. CASE Known(World, e) # {}
    <3>1. PICK k \in 1..Len(pairs) : known = {k} /\ Current(pairs[k], i) /\ i.number # 0
      BY <1>1, <1>8, <1>10, <2>2, KnownOrNew
    <3>2. pairs[k] \in PairType /\ World.pr = pairs
      BY WorldIsWorld DEF ConnectionTypes
    <3>3. i.ended /\ (isn > i.isn + AnswerWindow + 1 \/ isn < i.isn)
      BY <1>2, <3>1
    <3> HIDE DEF i
    <3>4. Reused(pairs[k], WhichDir(pairs[k], from), p, now)
      BY <1>1, <1>5, <3>1, <3>2, <3>3, OpenIsReused
    <3>5. FoundOrStarted(w, World, e, from, p, now)
      BY <1>9, <2>2 DEF BatchOutcome
    <3> HIDE DEF p, inc
    <3> QED
      BY <1>8, <3>1, <3>2, <3>4, <3>5 DEF FoundOrStarted
  <2> QED
    BY <2>1, <2>2
<1>12. \A q \in table : q \in known <=> pairs[q].ends = e
  OBVIOUS
<1> HIDE DEF known, p, inc, i
<1>13. Becomes(w, e, now, inc)
  BY <1>9 DEF BatchOutcome
<1>14. inc.number = incarnation[e].number + 1 /\ inc.synced
  BY <1>4 DEF i
<1>15. \A pair, c : IsFirst(c, e, from) /\ Counted(pair, c, 1, p, now)
                     => Current(pair, [inc EXCEPT !.at = now])
  BY <1>7 DEF last
<1> QED
  BY <1>1, <1>3, <1>4, <1>5, <1>11, <1>12, <1>13, <1>14, <1>15, <1>10, StartedStep

\* A packet of an incarnation is not taken for one of the next.
SameIncarnation(dir, p, i) ==
    \/ ~p.syn
    \/ p.seq = i.isn /\ IF dir = 1 THEN i.ended => i.answered ELSE ~i.ended

LEMMA SameIsNotReused ==
    ASSUME ConnectionsAssumption, NEW pair \in PairType, NEW i \in IncarnationType,
           Current(pair, i), NEW now \in Nat, ~(now - i.at > LiveInterval), NEW p \in PacketType,
           NEW dir \in 1..2, SameIncarnation(dir, p, i)
    PROVE  ~Reused(pair, dir, p, now)
<1> DEFINE b1 == pair.block[1]
           b2 == pair.block[2]
<1>1. b1 \in BlockType /\ b2 \in BlockType
  BY DEF PairType
<1>2. \A b \in BlockType : /\ b.fin_count \in Nat /\ b.reset_count \in Nat /\ b.windowend \in Nat
                           /\ b.syn_count \in Nat /\ b.syn \in Nat
  BY DEF BlockType, UChar
<1>3. /\ i.isn \in Nat /\ b1.syn = i.isn /\ (b2.syn_count > 0 => b2.syn = i.isn)
      /\ pair.last_time = i.at /\ (i.answered => b2.windowend >= i.isn + 1)
      /\ (i.ended <=> EndCount(pair) > 0)
  BY DEF Current, IncarnationType
<1>4. ~(now - pair.last_time > LiveInterval)
  BY <1>3
<1>5. CASE ~p.syn
  BY <1>4, <1>5 DEF Reused
<1>6. CASE p.seq = i.isn /\ dir = 1 /\ (i.ended => i.answered)
  <2>1. pair.block[dir] = b1 /\ pair.block[3 - dir] = b2
    BY <1>6
  <2>2. b1.fin_count + b2.fin_count + b1.reset_count + b2.reset_count > 0 => i.ended
    BY <1>1, <1>2, <1>3 DEF EndCount
  <2> HIDE DEF b1, b2
  <2>3. b1.fin_count + b2.fin_count + b1.reset_count + b2.reset_count > 0
          => ~(p.seq > b2.windowend \/ p.seq < b1.syn)
    BY <1>1, <1>2, <1>3, <1>6, <2>2
  <2>4. ~(b1.syn # p.seq)
    BY <1>3, <1>6
  <2> QED
    BY <1>4, <2>1, <2>3, <2>4 DEF Reused
<1>7. CASE p.seq = i.isn /\ dir = 2 /\ ~i.ended
  <2>1. pair.block[dir] = b2 /\ pair.block[3 - dir] = b1
    BY <1>7
  <2>2. ~(b2.fin_count + b1.fin_count + b2.reset_count + b1.reset_count > 0)
    BY <1>1, <1>2, <1>3, <1>7 DEF EndCount
  <2> HIDE DEF b1, b2
  <2>3. b2.syn_count > 1 => ~(b2.syn # p.seq)
    BY <1>1, <1>2, <1>3, <1>7
  <2> QED
    BY <1>4, <2>1, <2>2, <2>3 DEF Reused
<1> QED
  BY <1>5, <1>6, <1>7 DEF SameIncarnation

\* A packet of an incarnation that keeps its pair current keeps everything.
LEMMA SameStep ==
    ASSUME ConnectionsAssumption, ConnectionTypes, SelectionInv, BatchInv, way = "batch",
           NEW e \in Ends, NEW from \in 1..2, NEW gap \in Gaps, NEW p \in PacketType,
           NEW i, i = incarnation[e], i.synced \/ i.answered,
           ~(time.now + gap - i.at > LiveInterval),
           NEW inc \in IncarnationType, inc.number = i.number, i.synced => inc.synced,
           Traced(e, from, p, gap, inc),
           NEW dir \in 1..2, dir = (IF i.opener = from THEN 1 ELSE 2), SameIncarnation(dir, p, i),
           \A new \in PairType, old \in PairType :
              /\ Current(old, i) /\ Counted(new, old, dir, p, time.now + gap)
              /\ EndCount(old) > 0 => EndCount(new) > 0
              => Current(new, [inc EXCEPT !.at = time.now + gap])
    PROVE  ConnectionTypes' /\ SelectionInv' /\ BatchInv'
<1> DEFINE now == time.now + gap
           known == Known(World, e)
<1> SUFFICES ASSUME e \notin forgotten'
             PROVE  EndsInv(e)'
  BY BatchStep
<1>1. now \in Nat /\ \E w : BatchOutcome(w, e, from, p, now, inc)
  BY TracedOutcome
<1>2. ~(now - i.at > LiveInterval)
  <2>1. time.now \in Nat /\ gap \in Nat /\ LiveInterval \in Nat
    BY DEF ConnectionTypes, ConnectionsAssumption
  <2>2. i.at \in Nat
    BY DEF ConnectionTypes, IncarnationType
  <2> QED
    BY <2>1, <2>2
<1>3. \A new \in PairType, old \in PairType :
         /\ Current(old, i) /\ Counted(new, old, dir, p, now)
         /\ EndCount(old) > 0 => EndCount(new) > 0
         => Current(new, [inc EXCEPT !.at = now])
  OBVIOUS
<1> HIDE DEF now
<1>4. PICK w : BatchOutcome(w, e, from, p, now, inc)
  BY <1>1
<1>5. EndsInv(e)
  <2>1. forgotten \subseteq forgotten'
    BY <1>4 DEF BatchOutcome, Becomes
  <2> QED
    BY <2>1 DEF BatchInv
<1>6. i.number # 0 /\ i \in IncarnationType /\ inc.synced
  BY <1>5 DEF EndsInv, ConnectionTypes
<1>7. PICK k \in 1..Len(pairs) : /\ known = {k} /\ k \in table
                                 /\ pairs[k].ends = e /\ Current(pairs[k], i)
  BY <1>5, <1>6, KnownOrNew
<1>8. pairs[k] \in PairType /\ World.pr = pairs /\ DOMAIN pairs = 1..Len(pairs)
  BY WorldIsWorld DEF ConnectionTypes
<1>9. WhichDir(pairs[k], from) = dir
  BY <1>7 DEF WhichDir, Current
<1>10. ~Reused(pairs[k], dir, p, now)
  BY <1>1, <1>2, <1>6, <1>7, <1>8, SameIsNotReused
<1>11. Recorded(w, World, k, from, p, now)
  <2>1. FoundOrStarted(w, World, e, from, p, now)
    BY <1>4, <1>7 DEF BatchOutcome
  <2> QED
    BY <1>7, <1>8, <1>9, <1>10, <2>1 DEF FoundOrStarted
<1>12. Becomes(w, e, now, inc)
  BY <1>4 DEF BatchOutcome
<1>13. Current(w.pr[k], [inc EXCEPT !.at = now])
  <2>1. Counted(w.pr[k], pairs[k], dir, p, now)
    BY <1>8, <1>9, <1>11 DEF Recorded
  <2>2. w.pr[k] \in PairType
    BY <2>1 DEF Counted
  <2>3. HasEnded(pairs[k].block) => HasEnded(w.pr[k].block)
    BY <1>7, <1>8, <1>12 DEF Becomes
  <2>4. EndCount(pairs[k]) > 0 => EndCount(w.pr[k]) > 0
    BY <1>8, <2>2, <2>3, EndedIsCounted
  <2> QED
    BY <1>3, <1>7, <1>8, <2>1, <2>2, <2>4
<1>14. inc.number # 0 /\ inc.number = incarnation[e].number
  BY <1>6
<1> QED
  BY <1>1, <1>5, <1>6, <1>7, <1>11, <1>12, <1>13, <1>14, RecordedStep

\* The SYN again.
LEMMA AgainStep ==
    ASSUME ConnectionsAssumption, ConnectionTypes, SelectionInv, BatchInv,
           NEW e \in Ends, NEW gap \in Gaps, Again(e, gap)
    PROVE  ConnectionTypes' /\ SelectionInv' /\ BatchInv'
<1> DEFINE i == incarnation[e]
           p == Packet(TRUE, FALSE, FALSE, i.isn, Null)
           now == time.now + gap
           from == i.opener
           last == [i EXCEPT !.at = now]
<1>1. /\ way = "batch" /\ i.synced /\ (i.ended => i.answered) /\ ~(time.now + gap - i.at > LiveInterval)
      /\ Traced(e, from, p, gap, i) /\ i \in IncarnationType
  BY DEF Again, Batch, ConnectionTypes, Idle
<1>2. from \in 1..2 /\ i.isn \in Nat
  BY <1>1 DEF IncarnationType
<1>3. p \in PacketType /\ p.syn = TRUE /\ p.fin = FALSE /\ p.rst = FALSE /\ p.seq = i.isn /\ p.wend = 0
  BY <1>2 DEF Packet, PacketType, Null
<1> HIDE DEF p
<1>4. SameIncarnation(1, p, i)
  BY <1>1, <1>3 DEF SameIncarnation
<1>5. ASSUME NEW new \in PairType, NEW old \in PairType, Current(old, i), Counted(new, old, 1, p, now)
      PROVE  Current(new, last)
  <2>1. /\ last.isn = i.isn /\ last.opener = i.opener /\ last.at = now
        /\ last.answered = i.answered /\ last.ended = i.ended
    BY <1>1 DEF IncarnationType
  <2> HIDE DEF last, now, i
  <2>2. CountedBlock(new.block[1], old.block[1], p) /\ new.block[2] = old.block[2]
        /\ new.a = old.a /\ new.last_time = now
    <3>1. 3 - 1 = 2
      OBVIOUS
    <3> QED
      BY <1>5, <3>1 DEF Counted, SameConnection
  <2>3. old.block[1] \in BlockType /\ old.block[2] \in BlockType
    BY DEF PairType
  <2>4. EndCount(new) = EndCount(old) /\ new.block[1].syn = i.isn
        /\ new.block[1].windowend = old.block[1].windowend
    <3>1. old.block[1].fin_count \in UChar /\ old.block[1].reset_count \in UChar
      BY <2>3 DEF BlockType
    <3>2. /\ new.block[1].fin_count = Bumped(old.block[1].fin_count, FALSE)
          /\ new.block[1].reset_count = Bumped(old.block[1].reset_count, FALSE)
      BY <1>3, <2>2 DEF CountedBlock
    <3>3. /\ new.block[1].fin_count = old.block[1].fin_count
          /\ new.block[1].reset_count = old.block[1].reset_count
      BY <3>1, <3>2, BumpedShape
    <3> QED
      BY <1>3, <2>2, <3>3 DEF CountedBlock, EndCount
  <2> QED
    BY <1>5, <2>1, <2>2, <2>4 DEF Current
<1>6. i = incarnation[e] /\ i.number = i.number /\ 1 \in 1..2
      /\ 1 = (IF i.opener = from THEN 1 ELSE 2)
  OBVIOUS
<1>7. \A new \in PairType, old \in PairType :
              /\ Current(old, i) /\ Counted(new, old, 1, p, time.now + gap)
              /\ EndCount(old) > 0 => EndCount(new) > 0
              => Current(new, [i EXCEPT !.at = time.now + gap])
  BY <1>5
<1> HIDE DEF i, from, now, last
<1> QED
  BY <1>1, <1>2, <1>3, <1>4, <1>6, <1>7, SameStep

LEMMA NoneCounted ==
    \A a, b, c, d \in Nat : a + b + c + d > 0 \/ (a = 0 /\ b = 0 /\ c = 0 /\ d = 0)
OBVIOUS

\* The answer to the SYN, which may be a reset.
LEMMA ReplyStep ==
    ASSUME ConnectionsAssumption, ConnectionTypes, SelectionInv, BatchInv,
           NEW e \in Ends, NEW rst \in BOOLEAN, NEW gap \in Gaps, Reply(e, rst, gap)
    PROVE  ConnectionTypes' /\ SelectionInv' /\ BatchInv'
<1> DEFINE i == incarnation[e]
           wend == i.isn + 1 + (IF rst THEN 0 ELSE AnswerWindow)
           p == Packet(~rst, FALSE, rst, i.isn, wend)
           now == time.now + gap
           from == 3 - i.opener
           inc == [i EXCEPT !.answered = TRUE, !.ended = rst]
           last == [inc EXCEPT !.at = now]
<1>1. /\ way = "batch" /\ i.synced /\ ~i.ended /\ ~(time.now + gap - i.at > LiveInterval)
      /\ Traced(e, from, p, gap, inc) /\ i \in IncarnationType
  BY DEF Reply, Batch, ConnectionTypes, Idle
<1>2. from \in 1..2 /\ from # i.opener /\ i.isn \in Nat /\ AnswerWindow \in Nat
      /\ wend \in Nat /\ wend >= i.isn + 1 /\ wend <= i.isn + 1 + AnswerWindow
  BY <1>1 DEF IncarnationType, ConnectionsAssumption
<1> HIDE DEF wend
<1>3. /\ p \in PacketType /\ p.syn = ~rst /\ p.fin = FALSE /\ p.rst = rst /\ p.seq = i.isn
      /\ p.wend = wend /\ wend # 0
  BY <1>2 DEF Packet, PacketType
<1>4. /\ inc \in IncarnationType /\ inc.number = i.number /\ inc.synced /\ inc.isn = i.isn
      /\ inc.opener = i.opener /\ inc.answered /\ inc.ended = rst
  BY <1>1 DEF IncarnationType
<1> HIDE DEF p, inc
<1>5. SameIncarnation(2, p, i)
  BY <1>1, <1>3 DEF SameIncarnation
<1>6. ASSUME NEW new \in PairType, NEW old \in PairType, Current(old, i), Counted(new, old, 2, p, now)
      PROVE  Current(new, last)
  <2>1. /\ last.isn = i.isn /\ last.opener = i.opener /\ last.at = now
        /\ last.answered /\ last.ended = rst
    BY <1>4 DEF IncarnationType
  <2> HIDE DEF last, now
  <2>2. CountedBlock(new.block[2], old.block[2], p) /\ new.block[1] = old.block[1]
        /\ new.a = old.a /\ new.last_time = now
    <3>1. 3 - 2 = 1
      OBVIOUS
    <3> QED
      BY <1>6, <3>1 DEF Counted, SameConnection
  <2>3. /\ old.block[1] \in BlockType /\ old.block[2] \in BlockType
    BY DEF PairType
  <2>4. /\ old.block[1].fin_count = 0 /\ old.block[2].fin_count = 0
        /\ old.block[1].reset_count = 0 /\ old.block[2].reset_count = 0
    <3>1. ~(EndCount(old) > 0)
      BY <1>1, <1>6 DEF Current
    <3>2. \A b \in BlockType : b.fin_count \in Nat /\ b.reset_count \in Nat
      BY DEF BlockType, UChar
    <3> HIDE DEF i
    <3>3. /\ old.block[1].fin_count \in Nat /\ old.block[2].fin_count \in Nat
          /\ old.block[1].reset_count \in Nat /\ old.block[2].reset_count \in Nat
      BY <2>3, <3>2
    <3> DEFINE a == old.block[1].fin_count
               b == old.block[2].fin_count
               c == old.block[1].reset_count
               d == old.block[2].reset_count
    <3>4. ~(a + b + c + d > 0)
      BY <3>1 DEF EndCount
    <3>5. a \in Nat /\ b \in Nat /\ c \in Nat /\ d \in Nat
      BY <3>3
    <3> HIDE DEF a, b, c, d
    <3>6. a = 0 /\ b = 0 /\ c = 0 /\ d = 0
      BY <3>4, <3>5, NoneCounted
    <3> QED
      BY <3>6 DEF a, b, c, d
  <2> HIDE DEF i
  <2>5. EndCount(new) = IF rst THEN 1 ELSE 0
    <3>1. new.block[2].fin_count = 0 /\ new.block[2].reset_count = IF rst THEN 1 ELSE 0
      <4>1. 0 \in UChar
        BY DEF ConnectionsAssumption, UChar
      <4>2. Bumped(0, p.fin) = 0 /\ Bumped(0, p.rst) = IF rst THEN 1 ELSE 0
        BY <1>3, <4>1, BumpedShape
      <4> QED
        BY <2>2, <2>4, <4>2 DEF CountedBlock
    <3> QED
      BY <2>2, <2>4, <3>1 DEF EndCount
  <2>6. new.block[2].windowend = wend
    BY <1>3, <2>2 DEF CountedBlock
  <2>7. new.block[2].syn_count > 0 => new.block[2].syn = i.isn
    <3>1. CASE rst
      <4>1. old.block[2].syn_count \in UChar
        BY <2>3 DEF BlockType
      <4>2. Bumped(old.block[2].syn_count, p.syn) = old.block[2].syn_count
        BY <1>3, <3>1, <4>1, BumpedShape
      <4> QED
        BY <1>3, <1>6, <2>2, <3>1, <4>2 DEF CountedBlock, Current
    <3>2. CASE ~rst
      BY <1>3, <2>2, <3>2 DEF CountedBlock
    <3> QED
      BY <3>1, <3>2
  <2> QED
    BY <1>2, <1>6, <2>1, <2>2, <2>5, <2>6, <2>7 DEF Current
<1>7. i = incarnation[e] /\ 2 \in 1..2 /\ 2 = (IF i.opener = from THEN 1 ELSE 2)
  BY <1>2
<1>8. \A new \in PairType, old \in PairType :
              /\ Current(old, i) /\ Counted(new, old, 2, p, time.now + gap)
              /\ EndCount(old) > 0 => EndCount(new) > 0
              => Current(new, [inc EXCEPT !.at = time.now + gap])
  BY <1>6
<1> HIDE DEF i, from, now, last
<1> QED
  BY <1>1, <1>2, <1>3, <1>4, <1>5, <1>7, <1>8, SameStep

\* A FIN of either end.
LEMMA EndStep ==
    ASSUME ConnectionsAssumption, ConnectionTypes, SelectionInv, BatchInv,
           NEW e \in Ends, NEW from \in 1..2, NEW gap \in Gaps, End(e, from, gap)
    PROVE  ConnectionTypes' /\ SelectionInv' /\ BatchInv'
<1> DEFINE i == incarnation[e]
           p == Packet(FALSE, TRUE, FALSE, i.isn + 1, Null)
           now == time.now + gap
           inc == [i EXCEPT !.ended = TRUE]
           last == [inc EXCEPT !.at = now]
           dir == IF i.opener = from THEN 1 ELSE 2
<1>1. /\ way = "batch" /\ i.answered /\ ~(time.now + gap - i.at > LiveInterval)
      /\ Traced(e, from, p, gap, inc) /\ i \in IncarnationType
  BY DEF End, Batch, ConnectionTypes, Idle
<1>2. dir \in 1..2 /\ dir \in {1, 2} /\ i.isn \in Nat /\ 3 - 1 = 2 /\ 3 - 2 = 1
  BY <1>1 DEF IncarnationType
<1>3. /\ p \in PacketType /\ p.syn = FALSE /\ p.fin = TRUE /\ p.rst = FALSE
      /\ p.wend = 0
  BY <1>2 DEF Packet, PacketType, Null
<1>4. /\ inc \in IncarnationType /\ inc.number = i.number /\ inc.synced = i.synced
      /\ inc.isn = i.isn /\ inc.opener = i.opener /\ inc.answered = i.answered /\ inc.ended
  BY <1>1 DEF IncarnationType
<1> HIDE DEF p, inc
<1>5. SameIncarnation(dir, p, i)
  BY <1>3 DEF SameIncarnation
<1> HIDE DEF dir
<1>6. ASSUME NEW new \in PairType, NEW old \in PairType, Current(old, i), Counted(new, old, dir, p, now),
             EndCount(old) > 0 => EndCount(new) > 0
      PROVE  Current(new, last)
  <2>1. /\ last.isn = i.isn /\ last.opener = i.opener /\ last.at = now
        /\ last.answered = i.answered /\ last.ended
    BY <1>4 DEF IncarnationType
  <2> HIDE DEF last, now, i
  <2>2. CountedBlock(new.block[dir], old.block[dir], p) /\ new.block[3 - dir] = old.block[3 - dir]
        /\ new.a = old.a /\ new.last_time = now
    BY <1>6 DEF Counted, SameConnection
  <2>3. /\ old.block[1] \in BlockType /\ old.block[2] \in BlockType
    BY DEF PairType
  <2>4. \A b \in BlockType : b.fin_count \in UChar /\ b.reset_count \in UChar /\ b.syn_count \in UChar
    BY DEF BlockType
  <2>5. ASSUME NEW d \in {1, 2}
        PROVE  /\ new.block[d].syn = old.block[d].syn
               /\ new.block[d].windowend = old.block[d].windowend
               /\ new.block[d].syn_count = old.block[d].syn_count
               /\ d = dir => new.block[d].fin_count = Bumped(old.block[d].fin_count, TRUE)
    <3>1. CASE d = dir
      <4>1. Bumped(old.block[d].syn_count, FALSE) = old.block[d].syn_count
        BY <2>3, <2>4, BumpedShape
      <4> QED
        BY <1>3, <2>2, <3>1, <4>1 DEF CountedBlock
    <3>2. CASE d # dir
      <4>1. d = 3 - dir
        BY <1>2, <3>2
      <4>2. new.block[d] = old.block[d]
        BY <2>2, <4>1
      <4> QED
        BY <3>2, <4>2
    <3> QED
      BY <3>1, <3>2
  <2>6. EndCount(new) > 0
    <3>1. \A b \in BlockType : b.fin_count \in Nat /\ b.reset_count \in Nat
      BY <2>4 DEF UChar
    <3>2. CASE EndCount(old) > 0
      BY <1>6, <3>2
    <3>3. CASE ~(EndCount(old) > 0)
      <4>1. old.block[dir].fin_count = 0
        <5> DEFINE a == old.block[1].fin_count
                   b == old.block[2].fin_count
                   c == old.block[1].reset_count
                   d == old.block[2].reset_count
        <5>1. ~(a + b + c + d > 0)
          BY <3>3 DEF EndCount
        <5>2. a \in Nat /\ b \in Nat /\ c \in Nat /\ d \in Nat
          BY <2>3, <3>1
        <5> HIDE DEF a, b, c, d
        <5>3. a = 0 /\ b = 0
          BY <5>1, <5>2, NoneCounted
        <5> QED
          BY <1>2, <5>3 DEF a, b
      <4>2. new.block[dir].fin_count = 1
        <5>1. old.block[dir].fin_count \in UChar
          BY <1>2, <2>3, <2>4
        <5>2. Bumped(old.block[dir].fin_count, TRUE) = 1
          BY <4>1, <5>1, BumpedShape
        <5> QED
          BY <1>2, <2>5, <5>2
      <4>3. /\ new.block[1].fin_count \in Nat /\ new.block[2].fin_count \in Nat
            /\ new.block[1].reset_count \in Nat /\ new.block[2].reset_count \in Nat
        <5>1. new.block[1] \in BlockType /\ new.block[2] \in BlockType
          BY DEF PairType
        <5> QED
          BY <3>1, <5>1
      <4> DEFINE a == new.block[1].fin_count
                 b == new.block[2].fin_count
                 c == new.block[1].reset_count
                 d == new.block[2].reset_count
      <4>4. a = 1 \/ b = 1
        BY <1>2, <4>2
      <4>5. EndCount(new) = a + b + c + d
        BY DEF EndCount
      <4>6. a \in Nat /\ b \in Nat /\ c \in Nat /\ d \in Nat
        BY <4>3
      <4> HIDE DEF a, b, c, d
      <4> QED
        BY <4>4, <4>5, <4>6
    <3> QED
      BY <3>2, <3>3
  <2> QED
    BY <1>6, <2>1, <2>2, <2>5, <2>6 DEF Current
<1>7. i = incarnation[e] /\ dir = (IF i.opener = from THEN 1 ELSE 2)
  BY DEF dir
<1>8. \A new \in PairType, old \in PairType :
              /\ Current(old, i) /\ Counted(new, old, dir, p, time.now + gap)
              /\ EndCount(old) > 0 => EndCount(new) > 0
              => Current(new, [inc EXCEPT !.at = time.now + gap])
  BY <1>6
<1> HIDE DEF i, now, last
<1> QED
  BY <1>1, <1>2, <1>3, <1>4, <1>5, <1>7, <1>8, SameStep

-----------------------------------------------------------------------------
(* The other actions, and the theorems.                                    *)

ConnectionsInv == ConnectionTypes /\ SelectionInv /\ PlainInv /\ BatchInv

\* The options -i and -o.
LEMMA AskStep ==
    ASSUME ConnectionsAssumption, ConnectionsInv, NEW ix \in 1..MaxPairs, NEW only \in BOOLEAN,
           Ask(ix, only)
    PROVE  ConnectionsInv'
<1>1. /\ pairs = <<>> /\ Len(pairs) = 0 /\ pairs' = pairs /\ way' = way /\ table' = table
      /\ time' = time /\ incarnation' = incarnation /\ members' = members
      /\ IF only THEN asked.ignore = {} ELSE asked.only = {}
      /\ ix <= MoreTcpPairs(select, ix - 1).max
      /\ select' = IF only THEN OnlyConn(select, ix) ELSE IgnoreConn(select, ix)
      /\ asked' = IF only THEN [asked EXCEPT !.only = @ \cup {ix}]
                  ELSE [asked EXCEPT !.ignore = @ \cup {ix}]
  BY DEF Ask
<1>2. ix \in Nat \ {0}
  OBVIOUS
<1>3. /\ IsSelect(select) /\ asked \in [ignore : SUBSET (Nat \ {0}), only : SUBSET (Nat \ {0})]
      /\ select.more = (asked.only # {}) /\ select.cleared = (asked.only # {})
      /\ \A j \in Nat \ {0} : Ignored(select, j) = Unwanted(j)
  BY DEF ConnectionsInv, ConnectionTypes, SelectionInv
<1>4. /\ IsSelect(select') /\ asked' \in [ignore : SUBSET (Nat \ {0}), only : SUBSET (Nat \ {0})]
      /\ SelectionInv'
  <2>1. CASE only
    <3>1. /\ asked.ignore = {} /\ select' = OnlyConn(select, ix)
          /\ asked' = [asked EXCEPT !.only = @ \cup {ix}]
      BY <1>1, <2>1
    <3>2. /\ asked'.ignore = {} /\ asked'.only = asked.only \cup {ix}
          /\ asked' \in [ignore : SUBSET (Nat \ {0}), only : SUBSET (Nat \ {0})]
      BY <1>2, <1>3, <3>1
    <3>3. select.cleared => select.more
      BY <1>3
    <3>4. /\ IsSelect(select') /\ select'.more = TRUE /\ select'.cleared = TRUE
          /\ \A j \in Nat \ {0} :
                Ignored(select', j) = (j # ix /\ (select.cleared => Ignored(select, j)))
      <4>1. SaysOnly(OnlyConn(select, ix), select, ix)
        BY <1>1, <1>2, <1>3, <3>3, OnlySays
      <4> QED
        BY <3>1, <3>3, <4>1 DEF SaysOnly
    <3>5. ASSUME NEW j \in Nat \ {0}
          PROVE  Ignored(select', j) = Unwanted(j)'
      <4>1. Unwanted(j)' = (j \notin asked.only /\ j # ix)
        BY <3>2 DEF Unwanted
      <4>2. CASE asked.only # {}
        <5>1. Ignored(select, j) = (j \notin asked.only) /\ select.cleared = TRUE
          BY <1>3, <4>2 DEF Unwanted
        <5>2. Ignored(select', j) = (j # ix /\ (select.cleared => Ignored(select, j)))
          BY <3>4
        <5> QED
          BY <4>1, <5>1, <5>2
      <4>3. CASE asked.only = {}
        <5>1. select.cleared = FALSE
          BY <1>3, <4>3
        <5>2. Ignored(select', j) = (j # ix /\ (select.cleared => Ignored(select, j)))
          BY <3>4
        <5> QED
          BY <4>1, <4>3, <5>1, <5>2
      <4> QED
        BY <4>2, <4>3
    <3>6. asked'.only # {}
      BY <3>2
    <3>7. \A j \in Nat \ {0} : Ignored(select, j)' = Unwanted(j)'
      BY <3>5 DEF Ignored
    <3>8. Len(pairs') = 0
      BY <1>1
    <3>9. /\ select'.more = (asked'.only # {}) /\ select'.cleared = (asked'.only # {})
          /\ \A p \in 1..Len(pairs') : pairs'[p].ignored = Unwanted(p)'
      <4>1. select'.more = (asked'.only # {})
        BY <3>4, <3>6
      <4>2. select'.cleared = (asked'.only # {})
        BY <3>4, <3>6
      <4>3. ASSUME NEW p \in 1..Len(pairs')
            PROVE  FALSE
        BY <3>8
      <4> QED
        BY <4>1, <4>2, <4>3, Zenon
    <3> QED
      BY <3>2, <3>4, <3>7, <3>9 DEF SelectionInv
  <2>2. CASE ~only
    <3>1. /\ asked.only = {} /\ select' = IgnoreConn(select, ix)
          /\ asked' = [asked EXCEPT !.ignore = @ \cup {ix}]
      BY <1>1, <2>2
    <3>2. /\ asked'.only = {} /\ asked'.ignore = asked.ignore \cup {ix}
          /\ asked' \in [ignore : SUBSET (Nat \ {0}), only : SUBSET (Nat \ {0})]
      BY <1>2, <1>3, <3>1
    <3>3. select.more = FALSE /\ select.cleared = FALSE
      BY <1>3, <3>1
    <3>4. /\ IsSelect(select') /\ select'.more = FALSE /\ select'.cleared = FALSE
          /\ \A j \in Nat \ {0} : Ignored(select', j) = (j = ix \/ Ignored(select, j))
      <4>1. SaysIgnore(IgnoreConn(select, ix), select, ix)
        BY <1>1, <1>2, <1>3, <3>3, IgnoreSays
      <4> QED
        BY <3>1, <3>3, <4>1 DEF SaysIgnore
    <3>5. ASSUME NEW j \in Nat \ {0}
          PROVE  Ignored(select', j) = Unwanted(j)'
      <4>1. Unwanted(j)' = (j \in asked.ignore \/ j = ix)
        BY <3>2 DEF Unwanted
      <4>2. Ignored(select, j) = (j \in asked.ignore)
        BY <1>3, <3>1 DEF Unwanted
      <4>3. Ignored(select', j) = (j = ix \/ Ignored(select, j))
        BY <3>4
      <4> QED
        BY <4>1, <4>2, <4>3
    <3>6. \A j \in Nat \ {0} : Ignored(select, j)' = Unwanted(j)'
      BY <3>5 DEF Ignored
    <3>7. Len(pairs') = 0
      BY <1>1
    <3>8. /\ select'.more = (asked'.only # {}) /\ select'.cleared = (asked'.only # {})
          /\ \A p \in 1..Len(pairs') : pairs'[p].ignored = Unwanted(p)'
      <4>1. select'.more = (asked'.only # {})
        BY <3>2, <3>4
      <4>2. select'.cleared = (asked'.only # {})
        BY <3>2, <3>4
      <4>3. ASSUME NEW p \in 1..Len(pairs')
            PROVE  FALSE
        BY <3>7
      <4> QED
        BY <4>1, <4>2, <4>3, Zenon
    <3> QED
      BY <3>2, <3>4, <3>6, <3>8 DEF SelectionInv
  <2> QED
    BY <2>1, <2>2
<1>5. ConnectionTypes'
  BY <1>1, <1>4 DEF ConnectionsInv, ConnectionTypes
<1>6. PlainInv'
  BY <1>1 DEF ConnectionsInv, PlainInv
<1>7. BatchInv'
  <2>1. \A p, m : Numbered(p, m)' = Numbered(p, m)
    BY <1>1 DEF Numbered
  <2>2. \A f : EndsInv(f)' = EndsInv(f)
    BY <1>1, <2>1 DEF EndsInv
  <2>3. forgotten' = forgotten
    BY DEF Ask
  <2> QED
    BY <1>1, <2>2, <2>3 DEF ConnectionsInv, BatchInv
<1> QED
  BY <1>4, <1>5, <1>6, <1>7 DEF ConnectionsInv

\* Any packet, without incarnations.
LEMMA AnyPacketStep ==
    ASSUME ConnectionsAssumption, ConnectionsInv, NEW e \in Ends, NEW from \in 1..2,
           NEW fin \in BOOLEAN, NEW gap \in Gaps, AnyPacket(e, from, fin, gap)
    PROVE  ConnectionsInv'
<1> DEFINE p == Packet(FALSE, fin, FALSE, 1, Null)
           now == time.now + gap
           last == time.updated
           w == dotraceTTP(World, e, from, p, now, last)
<1>1. /\ way # "batch" /\ ConnectionTypes /\ SelectionInv /\ PlainInv
      /\ Becomes(IF way = "udp" THEN FindUTP(World, e, from) ELSE w, e, now, incarnation[e])
  BY DEF AnyPacket, Batch, ConnectionsInv, Traced
<1>2. p \in PacketType
  BY DEF Packet, PacketType, Null
<1>3. now \in Nat
  BY <1>1 DEF ConnectionTypes, ConnectionsAssumption
<1> HIDE DEF p, now, last
<1>4. way' = way
  BY <1>1 DEF Becomes
<1>5. ConnectionTypes' /\ SelectionInv' /\ PlainInv'
  <2>1. CASE way = "udp"
    BY <1>1, <1>3, <2>1, BucketStep
  <2>2. CASE way # "udp"
    <3>1. Continuous
      BY <1>1, <2>2 DEF Continuous, ConnectionTypes
    <3>2. IsWorld(World) /\ World.t \in SUBSET (1..Len(World.pr))
      BY <1>1, <2>2, WorldIsWorld DEF ConnectionTypes
    <3>3. Followed(w, World, e)
      BY <1>2, <1>3, <3>1, <3>2, TracedInContinuous
    <3>4. Becomes(w, e, now, incarnation[e])
      BY <1>1, <2>2
    <3> HIDE DEF w
    <3> QED
      BY <1>1, <1>3, <3>1, <3>3, <3>4, FollowedStep
  <2> QED
    BY <2>1, <2>2
<1>6. BatchInv'
  BY <1>1, <1>4 DEF BatchInv
<1> QED
  BY <1>5, <1>6 DEF ConnectionsInv

LEMMA ConnectionsInitInv ==
    ASSUME ConnectionsAssumption, ConnectionsInit
    PROVE  ConnectionsInv
<1>1. /\ pairs = <<>> /\ members = <<>> /\ select = NewSelect /\ asked = [ignore |-> {}, only |-> {}]
      /\ way \in {"batch", "continuous", "limited", "udp"}
      /\ table = (IF way = "udp" THEN <<>> ELSE {})
      /\ time.now = UpdateInterval /\ UpdateInterval \in Nat /\ FirstMax \in Nat \ {0}
      /\ incarnation = [e \in Ends |-> Fresh]
  BY DEF ConnectionsInit, ConnectionsAssumption
<1>2. Len(pairs) = 0 /\ 1..0 = {} /\ pairs \in Seq(PairType)
  BY <1>1
<1>3. IsSelect(select)
  BY <1>1 DEF IsSelect, NewSelect
<1>4. incarnation \in [Ends -> IncarnationType] /\ \A e \in Ends : incarnation[e] = Fresh
  BY <1>1 DEF Fresh, IncarnationType
<1>5. ConnectionTypes
  <2>1. DOMAIN members = 1..0
    BY <1>1
  <2>2. Bucket(<<>>, 0)
    BY DEF Bucket
  <2> QED
    BY <1>1, <1>2, <1>3, <1>4, <2>1, <2>2 DEF ConnectionTypes
<1>6. SelectionInv
  <2>1. \A ix \in Nat \ {0} : Ignored(select, ix) = FALSE
    BY <1>1 DEF Ignored, NewSelect
  <2>2. \A ix \in Nat \ {0} : Unwanted(ix) = FALSE
    BY <1>1 DEF Unwanted
  <2>3. select.more = FALSE /\ select.cleared = FALSE
    BY <1>1 DEF NewSelect
  <2> QED
    BY <1>1, <1>2, <2>1, <2>2, <2>3 DEF SelectionInv
<1>7. PlainInv
  BY <1>2, <1>4 DEF PlainInv, Fresh
<1>8. BatchInv
  <2>1. ASSUME NEW e \in Ends
        PROVE  EndsInv(e)
    BY <1>2, <1>4 DEF EndsInv, Fresh
  <2> QED
    BY <2>1 DEF BatchInv
<1> QED
  BY <1>5, <1>6, <1>7, <1>8 DEF ConnectionsInv

LEMMA ConnectionsNextInv ==
    ASSUME ConnectionsAssumption, ConnectionsInv, [ConnectionsNext]_connectionsVars
    PROVE  ConnectionsInv'
<1>1. ConnectionTypes /\ SelectionInv /\ PlainInv /\ BatchInv
  BY DEF ConnectionsInv
<1>2. ASSUME way = "batch", way' = way, ConnectionTypes' /\ SelectionInv' /\ BatchInv'
      PROVE  ConnectionsInv'
  BY <1>2 DEF ConnectionsInv, PlainInv
<1>3. \A e, from, p, gap, inc : Traced(e, from, p, gap, inc) => way' = way
  BY DEF Traced, Becomes
<1>4. ASSUME NEW ix \in 1..MaxPairs, NEW only \in BOOLEAN, Ask(ix, only)
      PROVE  ConnectionsInv'
  BY <1>4, AskStep
<1>5. ASSUME NEW e \in Ends, NEW from \in 1..2, NEW gap \in Gaps,
             NEW isn \in {1, AnswerWindow + 3}, Open(e, from, isn, gap)
      PROVE  ConnectionsInv'
  <2>1. isn \in Nat \ {0}
    BY DEF ConnectionsAssumption
  <2>2. way = "batch" /\ way' = way
    BY <1>3, <1>5 DEF Open, Batch
  <2> QED
    BY <1>1, <1>2, <1>5, <2>1, <2>2, OpenStep
<1>6. ASSUME NEW e \in Ends, NEW from \in 1..2, NEW gap \in Gaps, End(e, from, gap)
      PROVE  ConnectionsInv'
  <2>1. way = "batch" /\ way' = way
    BY <1>3, <1>6 DEF End, Batch
  <2> QED
    BY <1>1, <1>2, <1>6, <2>1, EndStep
<1>7. ASSUME NEW e \in Ends, NEW gap \in Gaps, Again(e, gap)
      PROVE  ConnectionsInv'
  <2>1. way = "batch" /\ way' = way
    BY <1>3, <1>7 DEF Again, Batch
  <2> QED
    BY <1>1, <1>2, <1>7, <2>1, AgainStep
<1>8. ASSUME NEW e \in Ends, NEW gap \in Gaps, NEW rst \in BOOLEAN, Reply(e, rst, gap)
      PROVE  ConnectionsInv'
  <2>1. way = "batch" /\ way' = way
    BY <1>3, <1>8 DEF Reply, Batch
  <2> QED
    BY <1>1, <1>2, <1>8, <2>1, ReplyStep
<1>9. ASSUME NEW e \in Ends, NEW from \in 1..2, NEW gap \in Gaps, NEW fin \in BOOLEAN,
             AnyPacket(e, from, fin, gap)
      PROVE  ConnectionsInv'
  BY <1>9, AnyPacketStep
<1>10. CASE UNCHANGED connectionsVars
  <2>1. \A p, m : Numbered(p, m)' = Numbered(p, m)
    BY <1>10 DEF connectionsVars, Numbered
  <2>2. \A ix : Unwanted(ix)' = Unwanted(ix)
    BY <1>10 DEF connectionsVars, Unwanted
  <2>3. \A e : EndsInv(e)' = EndsInv(e)
    BY <1>10, <2>1 DEF connectionsVars, EndsInv
  <2> QED
    BY <1>1, <1>10, <2>2, <2>3
       DEF connectionsVars, ConnectionsInv, ConnectionTypes, SelectionInv, PlainInv, BatchInv
<1> QED
  BY <1>4, <1>5, <1>6, <1>7, <1>8, <1>9, <1>10 DEF ConnectionsNext

\* ConnectionsInv is kept by every option and every packet that FindTTP, FindUTP
\* and UpdateConnLists treat, in all four ways.
THEOREM ConnectionsKeep == ConnectionsSpec => []ConnectionsInv
<1>1. ConnectionsInit => ConnectionsInv
  BY ConnectionsAssumption, ConnectionsInitInv
<1>2. ConnectionsInv /\ [ConnectionsNext]_connectionsVars => ConnectionsInv'
  BY ConnectionsAssumption, ConnectionsNextInv
<1> QED
  BY <1>1, <1>2, PTL DEF ConnectionsSpec

\* Options -i and -o: a connection is ignored exactly when the user asked for
\* it, however often the arrays had to grow (IgnoreConn, OnlyConn, MoreTcpPairs).
THEOREM OptionsAreHonoured == ConnectionsSpec => []SelectionIsKept
<1>1. ConnectionsInv => SelectionIsKept
  <2> SUFFICES ASSUME ConnectionsInv, way \in {"batch", "udp"}, NEW p \in DOMAIN pairs
               PROVE  pairs[p].ignored = IF asked.only # {} THEN p \notin asked.only
                                         ELSE p \in asked.ignore
    BY DEF SelectionIsKept
  <2>1. p \in 1..Len(pairs)
    BY DEF ConnectionsInv, ConnectionTypes
  <2> QED
    BY <2>1 DEF ConnectionsInv, SelectionInv, Unwanted
<1> QED
  BY <1>1, ConnectionsKeep, PTL

\* FindTTP and FindUTP: no pair mixes the packets of two connections, and in
\* batch mode no connection has two, however the endpoints are used again: save
\* of the endpoints whose counts of FIN and reset went back to 0 (forgotten).
THEOREM PairsAreNotMixed == ConnectionsSpec => []PairsAreConnections
<1>1. ConnectionsInv => PairsAreConnections
  <2> SUFFICES ASSUME ConnectionsInv
               PROVE  PairsAreConnections
    OBVIOUS
  <2> DEFINE kept == {p \in DOMAIN members : Batch => pairs[p].ends \notin forgotten}
  <2>1. /\ DOMAIN members = 1..Len(pairs) /\ kept \subseteq 1..Len(pairs)
        /\ \A p \in 1..Len(pairs) : pairs[p].ends \in Ends
    <3>1. DOMAIN members = 1..Len(pairs) /\ pairs \in Seq(PairType)
      BY DEF ConnectionsInv, ConnectionTypes
    <3>2. \A p \in 1..Len(pairs) : pairs[p] \in PairType
      BY <3>1
    <3>3. \A r \in PairType : r.ends \in Ends
      BY DEF PairType
    <3> QED
      BY <3>1, <3>2, <3>3
  <2>2. ASSUME NEW p \in kept, way = "batch"
        PROVE  EndsInv(pairs[p].ends)
    BY <2>1, <2>2 DEF ConnectionsInv, BatchInv, Batch
  <2>3. ASSUME NEW p \in kept
        PROVE  \E m : members[p] = {<<pairs[p].ends, m>>}
    <3>1. CASE way = "batch"
      <4>1. PICK m \in Nat \ {0} : Numbered(p, m)
        BY <2>1, <2>2, <3>1 DEF EndsInv
      <4> QED
        BY <4>1 DEF Numbered
    <3>2. CASE way # "batch"
      BY <2>1, <3>2 DEF ConnectionsInv, PlainInv
    <3> QED
      BY <3>1, <3>2
  <2>4. \A p \in kept : Cardinality(members[p]) = 1
    BY <2>3, FS_Singleton
  <2>5. ASSUME ~Continuous, NEW p \in kept, NEW q \in kept, members[p] \cap members[q] # {}
        PROVE  p = q
    <3>1. PICK m : members[p] = {<<pairs[p].ends, m>>}
      BY <2>3
    <3>2. PICK n : members[q] = {<<pairs[q].ends, n>>}
      BY <2>3
    <3>3. <<pairs[p].ends, m>> = <<pairs[q].ends, n>>
      BY <2>5, <3>1, <3>2, Zenon
    <3>4. pairs[p].ends = pairs[q].ends /\ m = n
      BY <3>3
    <3>5. CASE way = "batch"
      <4>1. EndsInv(pairs[p].ends)
        BY <2>2, <3>5
      <4>2. members[p] = members[q]
        BY <3>1, <3>2, <3>4
      <4> HIDE DEF kept
      <4> QED
        BY <2>1, <3>4, <4>1, <4>2 DEF EndsInv
    <3>6. CASE way = "udp"
      BY <2>1, <3>4, <3>6 DEF ConnectionsInv, PlainInv
    <3> QED
      BY <2>5, <3>5, <3>6 DEF Continuous, ConnectionsInv, ConnectionTypes
  <2> HIDE DEF kept
  <2>6. /\ \A p \in kept : Cardinality(members[p]) = 1
        /\ ~Continuous => \A p, q \in kept : members[p] \cap members[q] # {} => p = q
    BY <2>4, <2>5
  <2> QED
    BY <2>6 DEF PairsAreConnections, kept
<1> QED
  BY <1>1, ConnectionsKeep, PTL

-----------------------------------------------------------------------------
(* The lists of continuous mode, one operation after the other.            *)

Kinds == {"live", "closed"}

IsLists(l) ==
    /\ DOMAIN l = {"head", "tail", "count", "next", "prev", "gone", "fault"}
    /\ l.head \in [Kinds -> Nat] /\ l.tail \in [Kinds -> Nat] /\ l.count \in [Kinds -> Int]
    /\ l.next \in [Places -> Nat] /\ l.prev \in [Places -> Nat] /\ l.fault = FALSE

\* List k is s, and no connection of it has been freed.
Chain(l, k, n, s) ==
    /\ n \in Nat /\ s \in [1..n -> Places] /\ Linked(l, k, n, s)
    /\ \A j \in 1..n : s[j] \notin l.gone

\* From l to m only list k and the pointers of Q change.
OnlyList(m, l, k, Q) ==
    /\ IsLists(m) /\ m.count = l.count /\ m.gone = l.gone
    /\ \A j \in Kinds : j # k => m.head[j] = l.head[j] /\ m.tail[j] = l.tail[j]
    /\ \A q \in Places : q \notin Q => m.next[q] = l.next[q] /\ m.prev[q] = l.prev[q]

NextSet(m, l, p, q) ==
    /\ IsLists(m) /\ m.head = l.head /\ m.tail = l.tail /\ m.count = l.count
    /\ m.gone = l.gone /\ m.prev = l.prev /\ m.next[p] = q
    /\ \A r \in Places : r # p => m.next[r] = l.next[r]

PrevSet(m, l, p, q) ==
    /\ IsLists(m) /\ m.head = l.head /\ m.tail = l.tail /\ m.count = l.count
    /\ m.gone = l.gone /\ m.next = l.next /\ m.prev[p] = q
    /\ \A r \in Places : r # p => m.prev[r] = l.prev[r]

EndsSet(m, l, k, first, last) ==
    /\ IsLists(m) /\ m.count = l.count /\ m.gone = l.gone
    /\ m.next = l.next /\ m.prev = l.prev
    /\ m.head[k] = first /\ m.tail[k] = last
    /\ \A j \in Kinds : j # k => m.head[j] = l.head[j] /\ m.tail[j] = l.tail[j]

LEMMA SetNextShape ==
    ASSUME NEW l, IsLists(l), NEW p \in Places, p # Null, p \notin l.gone, NEW q \in Nat
    PROVE  NextSet(SetNext(l, p, q), l, p, q)
<1> DEFINE next == [l.next EXCEPT ![p] = q]
           m == [l EXCEPT !.next = next]
<1>1. SetNext(l, p, q) = m
  BY DEF SetNext, Broken, IsLists
<1>2. next \in [Places -> Nat] /\ next[p] = q /\ \A r \in Places : r # p => next[r] = l.next[r]
  BY DEF IsLists
<1> HIDE DEF next
<1>3. NextSet(m, l, p, q)
  BY <1>2 DEF NextSet, IsLists
<1> QED
  BY <1>1, <1>3

LEMMA SetPrevShape ==
    ASSUME NEW l, IsLists(l), NEW p \in Places, p # Null, p \notin l.gone, NEW q \in Nat
    PROVE  PrevSet(SetPrev(l, p, q), l, p, q)
<1> DEFINE prev == [l.prev EXCEPT ![p] = q]
           m == [l EXCEPT !.prev = prev]
<1>1. SetPrev(l, p, q) = m
  BY DEF SetPrev, Broken, IsLists
<1>2. prev \in [Places -> Nat] /\ prev[p] = q /\ \A r \in Places : r # p => prev[r] = l.prev[r]
  BY DEF IsLists
<1> HIDE DEF prev
<1>3. PrevSet(m, l, p, q)
  BY <1>2 DEF PrevSet, IsLists
<1> QED
  BY <1>1, <1>3

LEMMA HeadShape ==
    ASSUME NEW l, IsLists(l), NEW k \in Kinds, NEW p \in Nat
    PROVE  EndsSet([l EXCEPT !.head[k] = p], l, k, p, l.tail[k])
<1> DEFINE head == [l.head EXCEPT ![k] = p]
           m == [l EXCEPT !.head = head]
<1>1. [l EXCEPT !.head[k] = p] = m
  BY DEF IsLists
<1>2. head \in [Kinds -> Nat] /\ head[k] = p /\ \A j \in Kinds : j # k => head[j] = l.head[j]
  BY DEF IsLists
<1> HIDE DEF head
<1>3. EndsSet(m, l, k, p, l.tail[k])
  BY <1>2 DEF EndsSet, IsLists
<1> QED
  BY <1>1, <1>3

LEMMA TailShape ==
    ASSUME NEW l, IsLists(l), NEW k \in Kinds, NEW p \in Nat
    PROVE  EndsSet([l EXCEPT !.tail[k] = p], l, k, l.head[k], p)
<1> DEFINE tail == [l.tail EXCEPT ![k] = p]
           m == [l EXCEPT !.tail = tail]
<1>1. [l EXCEPT !.tail[k] = p] = m
  BY DEF IsLists
<1>2. tail \in [Kinds -> Nat] /\ tail[k] = p /\ \A j \in Kinds : j # k => tail[j] = l.tail[j]
  BY DEF IsLists
<1> HIDE DEF tail
<1>3. EndsSet(m, l, k, l.head[k], p)
  BY <1>2 DEF EndsSet, IsLists
<1> QED
  BY <1>1, <1>3

\* p before a sequence of n, and a sequence without its place i.
Before(p, s, n) == [j \in 1..(n + 1) |-> IF j = 1 THEN p ELSE s[j - 1]]
Without(s, n, i) == [j \in 1..(n - 1) |-> IF j < i THEN s[j] ELSE s[j + 1]]
Elements(s, n) == {s[j] : j \in 1..n}

LEMMA PushShape ==
    ASSUME ConnectionsAssumption, NEW l, IsLists(l), NEW k \in Kinds, NEW n, NEW s, Chain(l, k, n, s),
           NEW p \in Places, p \notin l.gone, \A j \in 1..n : s[j] # p
    PROVE  /\ Chain(Push(l, k, p), k, n + 1, Before(p, s, n))
           /\ OnlyList(Push(l, k, p), l, k, Elements(s, n) \cup {p})
<1> DEFINE old == l.head[k]
           linked == IF old = Null THEN [l EXCEPT !.tail[k] = p] ELSE SetPrev(l, old, p)
           a == SetNext(linked, p, old)
           b == SetPrev(a, p, Null)
           m == [b EXCEPT !.head[k] = p]
<1>1. Push(l, k, p) = m
  BY DEF Push
<1>2. n \in Nat /\ s \in [1..n -> Places] /\ Linked(l, k, n, s) /\ \A j \in 1..n : s[j] \notin l.gone
  BY DEF Chain
<1>3. Places \in SUBSET (Nat \ {0}) /\ Null = 0 /\ p \in Nat /\ p # Null
  BY DEF Places, ConnectionsAssumption, Null
<1>4. /\ old = (IF n = 0 THEN Null ELSE s[1]) /\ old \in Nat
      /\ l.tail[k] = IF n = 0 THEN Null ELSE s[n]
  BY <1>2 DEF Linked, IsLists
<1>5. n # 0 => 1 \in 1..n /\ n \in 1..n /\ s[1] \in Places /\ s[1] \notin l.gone
  BY <1>2
<1> HIDE DEF old
<1>6. CASE n = 0
  <2>1. linked = [l EXCEPT !.tail[k] = p]
    BY <1>4, <1>6
  <2>2. EndsSet(linked, l, k, l.head[k], p)
    BY <1>3, <2>1, TailShape
  <2> HIDE DEF linked
  <2>3. NextSet(a, linked, p, old)
    BY <1>3, <1>4, <2>2, SetNextShape DEF EndsSet
  <2> HIDE DEF a
  <2>4. PrevSet(b, a, p, Null)
    <3>1. IsLists(a) /\ p \notin a.gone /\ Null \in Nat
      BY <1>3, <2>2, <2>3 DEF EndsSet, NextSet
    <3> QED
      BY <1>3, <3>1, SetPrevShape
  <2> HIDE DEF b
  <2>5. EndsSet(m, b, k, p, b.tail[k])
    BY <1>3, <2>4, HeadShape DEF PrevSet
  <2> HIDE DEF m
  <2>6. /\ m.head[k] = p /\ m.tail[k] = p /\ m.next[p] = Null /\ m.prev[p] = Null
        /\ m.gone = l.gone
    BY <1>4, <1>6, <2>2, <2>3, <2>4, <2>5 DEF EndsSet, NextSet, PrevSet
  <2>7. OnlyList(m, l, k, Elements(s, n) \cup {p})
    BY <2>2, <2>3, <2>4, <2>5 DEF EndsSet, NextSet, PrevSet, OnlyList
  <2> DEFINE t == Before(p, s, n)
  <2>8. t \in [1..1 -> Places] /\ t[1] = p /\ 1..1 = {1} /\ n + 1 = 1
    BY <1>6 DEF Before
  <2> HIDE DEF t
  <2>9. Chain(m, k, 1, t)
    BY <2>6, <2>8 DEF Chain, Linked
  <2> QED
    BY <1>1, <2>7, <2>8, <2>9 DEF t
<1>7. CASE n # 0
  <2>1. linked = SetPrev(l, old, p) /\ old \in Places /\ old \notin l.gone /\ old # Null /\ old # p
    BY <1>3, <1>4, <1>5, <1>7
  <2>2. PrevSet(linked, l, old, p)
    BY <1>3, <2>1, SetPrevShape
  <2> HIDE DEF linked
  <2>3. NextSet(a, linked, p, old)
    BY <1>3, <1>4, <2>2, SetNextShape DEF PrevSet
  <2> HIDE DEF a
  <2>4. PrevSet(b, a, p, Null)
    <3>1. IsLists(a) /\ p \notin a.gone /\ Null \in Nat
      BY <1>3, <2>2, <2>3 DEF PrevSet, NextSet
    <3> QED
      BY <1>3, <3>1, SetPrevShape
  <2> HIDE DEF b
  <2>5. EndsSet(m, b, k, p, b.tail[k])
    BY <1>3, <2>4, HeadShape DEF PrevSet
  <2> HIDE DEF m
  <2>6. /\ m.head[k] = p /\ m.tail[k] = s[n] /\ m.next[p] = s[1] /\ m.prev[p] = Null
        /\ m.prev[s[1]] = p /\ m.gone = l.gone
    BY <1>4, <1>5, <1>7, <2>1, <2>2, <2>3, <2>4, <2>5 DEF EndsSet, NextSet, PrevSet
  <2>7. /\ \A q \in Places : q # p => m.next[q] = l.next[q]
        /\ \A q \in Places : q # p /\ q # s[1] => m.prev[q] = l.prev[q]
    BY <1>4, <1>7, <2>2, <2>3, <2>4, <2>5 DEF EndsSet, NextSet, PrevSet
  <2>8. s[1] \in Elements(s, n)
    BY <1>5, <1>7 DEF Elements
  <2>9. OnlyList(m, l, k, Elements(s, n) \cup {p})
    <3>1. IsLists(m) /\ m.count = l.count /\ m.gone = l.gone
      BY <2>2, <2>3, <2>4, <2>5 DEF EndsSet, NextSet, PrevSet
    <3>2. \A j \in Kinds : j # k => m.head[j] = l.head[j] /\ m.tail[j] = l.tail[j]
      BY <2>2, <2>3, <2>4, <2>5 DEF EndsSet, NextSet, PrevSet
    <3> QED
      BY <2>7, <2>8, <3>1, <3>2 DEF OnlyList
  <2> DEFINE t == Before(p, s, n)
  <2>10. /\ t \in [1..(n + 1) -> Places] /\ t[1] = p
         /\ \A j \in 2..(n + 1) : t[j] = s[j - 1] /\ j - 1 \in 1..n
    BY <1>2 DEF Before
  <2> HIDE DEF t
  <2>11. \A j \in 1..(n + 1) : j = 1 \/ j \in 2..(n + 1)
    BY <1>2
  <2>12. \A i, j \in 1..(n + 1) : t[i] = t[j] => i = j
    BY SMTT(20), <1>2, <2>10, <2>11 DEF Linked
  <2>13. \A j \in 1..(n + 1) : m.next[t[j]] = IF j = n + 1 THEN Null ELSE t[j + 1]
    <3> TAKE j \in 1..(n + 1)
    <3>1. CASE j = 1
      <4>1. t[2] = s[1] /\ j # n + 1
        BY <1>2, <1>7, <2>10, <3>1
      <4> QED
        BY <2>6, <2>10, <3>1, <4>1
    <3>2. CASE j # 1
      <4>1. t[j] = s[j - 1] /\ j - 1 \in 1..n /\ s[j - 1] \in Places /\ s[j - 1] # p
        BY <1>2, <2>10, <2>11, <3>2
      <4>2. l.next[s[j - 1]] = IF j - 1 = n THEN Null ELSE s[j - 1 + 1]
        BY <1>2, <4>1 DEF Linked
      <4>3. j # n + 1 => t[j + 1] = s[j] /\ j - 1 # n /\ j - 1 + 1 = j
        BY <1>2, <2>10, <3>2
      <4>4. j = n + 1 => j - 1 = n
        BY <1>2
      <4> QED
        BY <2>7, <4>1, <4>2, <4>3, <4>4
    <3> QED
      BY <3>1, <3>2
  <2>14. \A j \in 1..(n + 1) : m.prev[t[j]] = IF j = 1 THEN Null ELSE t[j - 1]
    <3> TAKE j \in 1..(n + 1)
    <3>1. CASE j = 1
      BY <2>6, <2>10, <3>1
    <3>2. CASE j = 2
      BY <1>2, <1>7, <2>6, <2>10, <3>2
    <3>3. CASE j # 1 /\ j # 2
      <4>1. /\ t[j] = s[j - 1] /\ j - 1 \in 1..n /\ s[j - 1] \in Places /\ s[j - 1] # p
            /\ t[j - 1] = s[j - 1 - 1] /\ j - 1 # 1 /\ j - 1 - 1 \in 1..n
        BY <1>2, <2>10, <2>11, <3>3
      <4>2. l.prev[s[j - 1]] = s[j - 1 - 1] /\ s[j - 1] # s[1]
        BY <1>2, <1>5, <1>7, <4>1 DEF Linked
      <4> QED
        BY <2>7, <3>3, <4>1, <4>2
    <3> QED
      BY <3>1, <3>2, <3>3
  <2>15. t[n + 1] = s[n] /\ n + 1 \in Nat /\ n + 1 # 0
    BY <1>2, <1>7, <2>10
  <2>16. \A j \in 1..(n + 1) : t[j] \notin m.gone
    BY <1>2, <2>6, <2>10, <2>11
  <2>17. Linked(m, k, n + 1, t)
    BY <2>6, <2>10, <2>12, <2>13, <2>14, <2>15 DEF Linked
  <2>18. Chain(m, k, n + 1, t)
    BY <2>10, <2>15, <2>16, <2>17 DEF Chain
  <2> QED
    BY <1>1, <2>9, <2>18 DEF t
<1> QED
  BY <1>6, <1>7

\* Place i of list k is passed over in m, from both sides.
PassedOver(m, l, k, n, s, i) ==
    /\ OnlyList(m, l, k, Elements(s, n))
    /\ m.head[k] = IF i = 1 THEN l.next[s[1]] ELSE l.head[k]
    /\ m.tail[k] = IF i = n THEN l.prev[s[n]] ELSE l.tail[k]
    /\ i # 1 => m.next[s[i - 1]] = l.next[s[i]]
    /\ i # n => m.prev[s[i + 1]] = l.prev[s[i]]
    /\ \A q \in Places : i = 1 \/ q # s[i - 1] => m.next[q] = l.next[q]
    /\ \A q \in Places : i = n \/ q # s[i + 1] => m.prev[q] = l.prev[q]

LEMMA PassedOverShape ==
    ASSUME NEW l, NEW k, NEW n, NEW s, Chain(l, k, n, s),
           NEW i \in 1..n, NEW m, PassedOver(m, l, k, n, s, i)
    PROVE  Chain(m, k, n - 1, Without(s, n, i))
<1> DEFINE t == Without(s, n, i)
<1>1. n \in Nat /\ s \in [1..n -> Places] /\ Linked(l, k, n, s) /\ \A j \in 1..n : s[j] \notin l.gone
  BY DEF Chain
<1>2. /\ n - 1 \in Nat /\ t \in [1..(n - 1) -> Places]
      /\ \A j \in 1..(n - 1) : j < i => j \in 1..n /\ t[j] = s[j]
      /\ \A j \in 1..(n - 1) : ~(j < i) => j + 1 \in 1..n /\ t[j] = s[j + 1]
  BY <1>1 DEF Without
<1> HIDE DEF t
<1>3. m.gone = l.gone
  BY DEF PassedOver, OnlyList
<1>4. \A j \in 1..(n - 1) : t[j] \notin m.gone
  BY <1>1, <1>2, <1>3
<1>5. \A j, h \in 1..(n - 1) : t[j] = t[h] => j = h
  <2> TAKE j, h \in 1..(n - 1)
  <2> HAVE t[j] = t[h]
  <2>1. \A x, y \in 1..n : s[x] = s[y] => x = y
    BY <1>1 DEF Linked
  <2> QED
    BY <1>1, <1>2, <2>1
<1>6. m.head[k] = IF n - 1 = 0 THEN Null ELSE t[1]
  <2>1. /\ l.head[k] = s[1] /\ 1 \in 1..n
        /\ l.next[s[1]] = IF 1 = n THEN Null ELSE s[2]
    BY <1>1 DEF Linked
  <2>2. n - 1 # 0 => 1 \in 1..(n - 1) /\ t[1] = IF 1 < i THEN s[1] ELSE s[2]
    BY <1>1, <1>2
  <2>3. n - 1 = 0 => i = 1 /\ n = 1
    BY <1>1
  <2> QED
    BY <1>1, <2>1, <2>2, <2>3 DEF PassedOver
<1>7. m.tail[k] = IF n - 1 = 0 THEN Null ELSE t[n - 1]
  <2>1. /\ l.tail[k] = s[n] /\ n \in 1..n
        /\ l.prev[s[n]] = IF n = 1 THEN Null ELSE s[n - 1]
    BY <1>1 DEF Linked
  <2>2. n - 1 # 0 => n - 1 \in 1..(n - 1) /\ t[n - 1] = IF n - 1 < i THEN s[n - 1] ELSE s[n - 1 + 1]
    BY <1>1, <1>2
  <2>3. n - 1 = 0 => i = n /\ n = 1
    BY <1>1
  <2>4. n - 1 + 1 = n /\ (n - 1 < i <=> i = n)
    BY <1>1
  <2> QED
    BY <1>1, <2>1, <2>2, <2>3, <2>4 DEF PassedOver
<1>8. ASSUME NEW j \in 1..(n - 1)
      PROVE  m.next[t[j]] = IF j = n - 1 THEN Null ELSE t[j + 1]
  <2>1. CASE j < i - 1
    <3>1. /\ t[j] = s[j] /\ j \in 1..n /\ j # n /\ j # n - 1
          /\ j + 1 \in 1..(n - 1) /\ t[j + 1] = s[j + 1]
      BY <1>1, <1>2, <2>1
    <3>2. l.next[s[j]] = s[j + 1] /\ s[j] \in Places
      BY <1>1, <3>1 DEF Linked
    <3>3. i # 1 /\ i - 1 \in 1..n /\ s[j] # s[i - 1]
      BY <1>1, <2>1, <3>1 DEF Linked
    <3> QED
      BY <3>1, <3>2, <3>3 DEF PassedOver
  <2>2. CASE j = i - 1
    <3>1. t[j] = s[i - 1] /\ i # 1 /\ m.next[s[i - 1]] = l.next[s[i]]
      BY <1>1, <1>2, <2>2 DEF PassedOver
    <3>2. l.next[s[i]] = IF i = n THEN Null ELSE s[i + 1]
      BY <1>1 DEF Linked
    <3>3. (j = n - 1) = (i = n) /\ (i # n => t[j + 1] = s[i + 1])
      BY <1>1, <1>2, <2>2
    <3> QED
      BY <3>1, <3>2, <3>3
  <2>3. CASE ~(j < i)
    <3>1. t[j] = s[j + 1] /\ j + 1 \in 1..n /\ (j + 1 = n <=> j = n - 1)
          /\ (j # n - 1 => t[j + 1] = s[j + 1 + 1])
      BY <1>1, <1>2, <2>3
    <3>2. l.next[s[j + 1]] = (IF j + 1 = n THEN Null ELSE s[j + 1 + 1]) /\ s[j + 1] \in Places
      BY <1>1, <3>1 DEF Linked
    <3>3. i # 1 => i - 1 \in 1..n /\ s[j + 1] # s[i - 1]
      <4>1. i # 1 => i - 1 \in 1..n /\ j + 1 # i - 1
        BY <1>1, <2>3
      <4> QED
        BY <1>1, <3>1, <4>1 DEF Linked
    <3> QED
      BY <3>1, <3>2, <3>3 DEF PassedOver
  <2> QED
    BY <1>1, <2>1, <2>2, <2>3
<1>9. ASSUME NEW j \in 1..(n - 1)
      PROVE  m.prev[t[j]] = IF j = 1 THEN Null ELSE t[j - 1]
  <2>1. CASE j < i
    <3>1. /\ t[j] = s[j] /\ j \in 1..n /\ (j # 1 => t[j - 1] = s[j - 1])
      BY <1>1, <1>2, <2>1
    <3>2. l.prev[s[j]] = (IF j = 1 THEN Null ELSE s[j - 1]) /\ s[j] \in Places
      BY <1>1, <3>1 DEF Linked
    <3>3. i # n => s[j] # s[i + 1]
      <4>1. i # n => i + 1 \in 1..n /\ j # i + 1
        BY <1>1, <2>1
      <4> QED
        BY <1>1, <3>1, <4>1 DEF Linked
    <3> QED
      BY <3>1, <3>2, <3>3 DEF PassedOver
  <2>2. CASE j = i
    <3>1. t[j] = s[i + 1] /\ i # n /\ m.prev[s[i + 1]] = l.prev[s[i]]
      BY <1>1, <1>2, <2>2 DEF PassedOver
    <3>2. l.prev[s[i]] = IF i = 1 THEN Null ELSE s[i - 1]
      BY <1>1 DEF Linked
    <3>3. i # 1 => t[j - 1] = s[i - 1]
      BY <1>1, <1>2, <2>2
    <3> QED
      BY <2>2, <3>1, <3>2, <3>3
  <2>3. CASE j > i
    <3>1. t[j] = s[j + 1] /\ j + 1 \in 1..n /\ j + 1 # 1 /\ j # 1 /\ t[j - 1] = s[j] /\ j + 1 - 1 = j
      BY <1>1, <1>2, <2>3
    <3>2. l.prev[s[j + 1]] = s[j] /\ s[j + 1] \in Places
      BY <1>1, <3>1 DEF Linked
    <3>3. i # n => s[j + 1] # s[i + 1]
      <4>1. i # n => i + 1 \in 1..n /\ j + 1 # i + 1
        BY <1>1, <2>3
      <4> QED
        BY <1>1, <3>1, <4>1 DEF Linked
    <3> QED
      BY <3>1, <3>2, <3>3 DEF PassedOver
  <2> QED
    BY <1>1, <2>1, <2>2, <2>3
<1>10. Linked(m, k, n - 1, t)
  BY <1>5, <1>6, <1>7, <1>8, <1>9 DEF Linked
<1>11. Chain(m, k, n - 1, t)
  BY <1>2, <1>4, <1>10 DEF Chain
<1> QED
  BY <1>11 DEF t

LEMMA HeadLeavesShape ==
    ASSUME ConnectionsAssumption, NEW l, IsLists(l), NEW k \in Kinds, NEW n, NEW s, Chain(l, k, n, s),
           1 \in 1..n
    PROVE  PassedOver(HeadLeaves(l, k, s[1]), l, k, n, s, 1)
<1> DEFINE p == s[1]
           next == l.next[p]
           out == [l EXCEPT !.head[k] = next]
           m == IF l.tail[k] = p THEN [out EXCEPT !.tail[k] = Null] ELSE SetPrev(out, next, Null)
<1>1. HeadLeaves(l, k, p) = m
  BY DEF HeadLeaves
<1>2. n \in Nat /\ s \in [1..n -> Places] /\ Linked(l, k, n, s) /\ \A j \in 1..n : s[j] \notin l.gone
  BY DEF Chain
<1>3. /\ p \in Places /\ s[n] \in Places /\ n \in 1..n
      /\ l.tail[k] = s[n] /\ l.prev[p] = Null /\ (s[n] = p <=> n = 1)
      /\ next = IF n = 1 THEN Null ELSE s[2]
  BY <1>2 DEF Linked
<1>4. n # 1 => /\ next \in Places /\ next \in Elements(s, n) /\ next = s[1 + 1]
               /\ next # Null /\ next \notin l.gone
  BY <1>2, <1>3 DEF Elements, Places, Null, ConnectionsAssumption
<1>5. Null \in Nat /\ next \in Nat
  BY <1>3 DEF Null, IsLists
<1>6. EndsSet(out, l, k, next, l.tail[k])
  BY <1>5, HeadShape
<1>7. CASE n = 1
  <2>1. m = [out EXCEPT !.tail[k] = Null]
    BY <1>3, <1>7
  <2> HIDE DEF out
  <2>2. IsLists(out)
    BY <1>6 DEF EndsSet
  <2>3. EndsSet(m, out, k, out.head[k], Null)
    BY <1>5, <2>1, <2>2, TailShape
  <2> HIDE DEF m, next
  <2>4. /\ IsLists(m) /\ m.count = l.count /\ m.gone = l.gone /\ m.next = l.next /\ m.prev = l.prev
        /\ m.head[k] = next /\ m.tail[k] = Null
        /\ \A j \in Kinds : j # k => m.head[j] = l.head[j] /\ m.tail[j] = l.tail[j]
    BY <1>6, <2>3 DEF EndsSet
  <2>5. OnlyList(m, l, k, Elements(s, n))
    BY <2>4 DEF OnlyList
  <2>6. m.head[k] = l.next[s[1]] /\ m.tail[k] = l.prev[s[n]] /\ 1 = n
    BY <1>3, <1>7, <2>4 DEF next
  <2> QED
    BY <1>1, <2>4, <2>5, <2>6 DEF PassedOver
<1>8. CASE n # 1
  <2>1. m = SetPrev(out, next, Null)
    BY <1>3, <1>8
  <2> HIDE DEF out
  <2>2. IsLists(out) /\ next \notin out.gone
    BY <1>4, <1>6, <1>8 DEF EndsSet
  <2>3. PrevSet(m, out, next, Null)
    BY <1>4, <1>5, <1>8, <2>1, <2>2, SetPrevShape
  <2> HIDE DEF m, next
  <2>4. /\ IsLists(m) /\ m.count = l.count /\ m.gone = l.gone /\ m.next = l.next
        /\ m.head[k] = next /\ m.tail[k] = l.tail[k] /\ m.prev[next] = Null
        /\ \A j \in Kinds : j # k => m.head[j] = l.head[j] /\ m.tail[j] = l.tail[j]
        /\ \A q \in Places : q # next => m.prev[q] = l.prev[q]
    BY <1>6, <2>3 DEF EndsSet, PrevSet
  <2>5. OnlyList(m, l, k, Elements(s, n))
    BY <1>4, <1>8, <2>4 DEF OnlyList
  <2>6. m.head[k] = l.next[s[1]] /\ m.prev[s[1 + 1]] = l.prev[s[1]] /\ 1 # n
    BY <1>3, <1>4, <1>8, <2>4 DEF next
  <2>7. \A q \in Places : q # s[1 + 1] => m.prev[q] = l.prev[q]
    BY <1>4, <1>8, <2>4
  <2> QED
    BY <1>1, <2>4, <2>5, <2>6, <2>7 DEF PassedOver
<1> QED
  BY <1>7, <1>8

LEMMA DetachedShape ==
    ASSUME ConnectionsAssumption, NEW l, IsLists(l), NEW k \in Kinds, NEW n, NEW s, Chain(l, k, n, s),
           NEW i \in 2..n
    PROVE  PassedOver(Detached(l, k, s[i]), l, k, n, s, i)
<1> DEFINE p == s[i]
           a == l.prev[p]
           b == l.next[p]
           x == SetNext(l, a, b)
           y == Joined(l, a, b)
           last == IF y.tail[k] = p THEN a ELSE y.tail[k]
           m == [y EXCEPT !.tail[k] = last]
<1>1. Detached(l, k, p) = m
  BY DEF Detached
<1>2. n \in Nat /\ s \in [1..n -> Places] /\ Linked(l, k, n, s) /\ \A j \in 1..n : s[j] \notin l.gone
  BY DEF Chain
<1>3. i \in 1..n /\ i - 1 \in 1..n /\ n \in 1..n /\ i # 1 /\ (i # n => i + 1 \in 1..n)
  BY <1>2
<1>4. /\ p \in Places /\ a = s[i - 1] /\ b = (IF i = n THEN Null ELSE s[i + 1])
      /\ l.tail[k] = s[n] /\ (s[n] = p <=> i = n)
  BY <1>2, <1>3 DEF Linked
<1>5. Places \in SUBSET (Nat \ {0}) /\ Null = 0
  BY DEF Places, ConnectionsAssumption, Null
<1>6. /\ a \in Places /\ a # Null /\ a \notin l.gone /\ a \in Elements(s, n) /\ a \in Nat /\ b \in Nat
      /\ i # n => b \in Places /\ b # Null /\ b \notin l.gone /\ b \in Elements(s, n)
  <2>1. \A j \in 1..n : s[j] \in Places /\ s[j] \notin l.gone /\ s[j] \in Elements(s, n)
    BY <1>2 DEF Elements
  <2>2. a \in Places /\ a \notin l.gone /\ a \in Elements(s, n)
    BY <1>3, <1>4, <2>1
  <2>3. i # n => b \in Places /\ b \notin l.gone /\ b \in Elements(s, n)
    BY <1>3, <1>4, <2>1
  <2>4. b \in Nat
    BY <1>4 DEF IsLists
  <2> HIDE DEF a, b
  <2> QED
    BY <1>5, <2>2, <2>3, <2>4
<1> HIDE DEF a, b
<1>7. NextSet(x, l, a, b)
  BY <1>6, SetNextShape
<1> HIDE DEF x
<1>8. /\ IsLists(y) /\ y.head = l.head /\ y.tail = l.tail /\ y.count = l.count /\ y.gone = l.gone
      /\ y.next = x.next /\ (i # n => y.prev[b] = a)
      /\ \A q \in Places : i = n \/ q # b => y.prev[q] = l.prev[q]
  <2>1. CASE i = n
    <3>1. y = x
      BY <1>4, <2>1 DEF Joined, x
    <3> HIDE DEF y
    <3> QED
      BY <1>7, <2>1, <3>1 DEF NextSet
  <2>2. CASE i # n
    <3>1. y = SetPrev(x, b, a)
      BY <1>4, <1>6, <2>2 DEF Joined, x
    <3> HIDE DEF y
    <3>2. PrevSet(y, x, b, a)
      <4>1. IsLists(x) /\ b \notin x.gone
        BY <1>6, <1>7, <2>2 DEF NextSet
      <4> QED
        BY <1>6, <2>2, <3>1, <4>1, SetPrevShape
    <3> QED
      BY <1>7, <2>2, <3>2 DEF NextSet, PrevSet
  <2> QED
    BY <2>1, <2>2
<1> HIDE DEF y
<1>9. last = (IF i = n THEN a ELSE l.tail[k]) /\ last \in Nat
  BY <1>4, <1>6, <1>8 DEF IsLists
<1> HIDE DEF last
<1>10. EndsSet(m, y, k, y.head[k], last)
  BY <1>8, <1>9, TailShape
<1> HIDE DEF m
<1>11. OnlyList(m, l, k, Elements(s, n))
  <2>1. /\ IsLists(m) /\ m.count = l.count /\ m.gone = l.gone
        /\ \A j \in Kinds : j # k => m.head[j] = l.head[j] /\ m.tail[j] = l.tail[j]
    BY <1>8, <1>10 DEF EndsSet
  <2>2. \A q \in Places : q \notin Elements(s, n) => m.next[q] = l.next[q] /\ m.prev[q] = l.prev[q]
    BY <1>6, <1>7, <1>8, <1>10 DEF EndsSet, NextSet
  <2> QED
    BY <2>1, <2>2 DEF OnlyList
<1>12. /\ m.head[k] = l.head[k] /\ m.tail[k] = last /\ m.next[a] = b
       /\ \A q \in Places : q # a => m.next[q] = l.next[q]
       /\ i # n => m.prev[b] = a
       /\ \A q \in Places : i = n \/ q # b => m.prev[q] = l.prev[q]
  BY <1>7, <1>8, <1>10 DEF EndsSet, NextSet
<1>13. l.next[s[i]] = b /\ l.prev[s[i]] = a
  BY DEF a, b
<1>14. PassedOver(m, l, k, n, s, i)
  BY <1>3, <1>4, <1>9, <1>11, <1>12, <1>13 DEF PassedOver
<1> QED
  BY <1>1, <1>14

\* The last of at least two is cut off.
LEMMA CutShape ==
    ASSUME ConnectionsAssumption, NEW l, IsLists(l), NEW k \in Kinds, NEW n, NEW s, Chain(l, k, n, s),
           2 \in 1..n
    PROVE  LET before == l.prev[s[n]]
           IN  PassedOver(SetNext([l EXCEPT !.tail[k] = before], before, Null), l, k, n, s, n)
<1> DEFINE a == l.prev[s[n]]
           x == [l EXCEPT !.tail[k] = a]
           m == SetNext(x, a, Null)
<1>1. n \in Nat /\ s \in [1..n -> Places] /\ Linked(l, k, n, s) /\ \A j \in 1..n : s[j] \notin l.gone
  BY DEF Chain
<1>2. n \in 1..n /\ n - 1 \in 1..n /\ n # 1
  BY <1>1
<1>3. a = s[n - 1] /\ l.next[s[n]] = Null
  BY <1>1, <1>2 DEF Linked
<1>4. Places \in SUBSET (Nat \ {0}) /\ Null = 0
  BY DEF Places, ConnectionsAssumption, Null
<1>5. a \in Places /\ a # Null /\ a \notin l.gone /\ a \in Elements(s, n) /\ a \in Nat /\ Null \in Nat
  <2>1. \A j \in 1..n : s[j] \in Places /\ s[j] \notin l.gone /\ s[j] \in Elements(s, n)
    BY <1>1 DEF Elements
  <2>2. a \in Places /\ a \notin l.gone /\ a \in Elements(s, n)
    BY <1>2, <1>3, <2>1
  <2> HIDE DEF a
  <2> QED
    BY <1>4, <2>2
<1>6. l.prev[s[n]] = a
  OBVIOUS
<1> HIDE DEF a
<1>7. EndsSet(x, l, k, l.head[k], a)
  BY <1>5, TailShape
<1> HIDE DEF x
<1>8. NextSet(m, x, a, Null)
  BY <1>5, <1>7, SetNextShape DEF EndsSet
<1> HIDE DEF m
<1>9. OnlyList(m, l, k, Elements(s, n))
  BY <1>5, <1>7, <1>8 DEF EndsSet, NextSet, OnlyList
<1>10. PassedOver(m, l, k, n, s, n)
  BY <1>2, <1>3, <1>6, <1>7, <1>8, <1>9 DEF PassedOver, EndsSet, NextSet
<1> QED
  BY <1>6, <1>10 DEF m, x

\* s lists the set S, later ones first by the records pr, but for f.
Listing(pr, S, n, s, f) ==
    /\ \A j \in 1..n : s[j] \in S
    /\ \A q \in S : \E j \in 1..n : s[j] = q
    /\ \A i, j \in 1..n : i < j /\ s[i] # f /\ s[j] # f =>
                            pr[s[j]].last_time <= pr[s[i]].last_time

\* List k holds the n connections of S.
ListOf(l, k, pr, S, n, f) ==
    \E s : Chain(l, k, n, s) /\ Listing(pr, S, n, s, f)

LEMMA WithoutLists ==
    ASSUME NEW l, NEW k, NEW n, NEW s, Chain(l, k, n, s), NEW pr, NEW S, NEW f,
           Listing(pr, S, n, s, f), NEW i \in 1..n
    PROVE  Listing(pr, S \ {s[i]}, n - 1, Without(s, n, i), f)
<1> DEFINE t == Without(s, n, i)
<1>1. n \in Nat /\ \A x, y \in 1..n : s[x] = s[y] => x = y
  BY DEF Chain, Linked
<1>2. /\ \A j \in 1..(n - 1) : j < i => j \in 1..n /\ t[j] = s[j]
      /\ \A j \in 1..(n - 1) : ~(j < i) => j + 1 \in 1..n /\ t[j] = s[j + 1]
  BY <1>1 DEF Without
<1> HIDE DEF t
<1>3. ASSUME NEW j \in 1..(n - 1)
      PROVE  t[j] \in S \ {s[i]}
  <2>1. CASE j < i
    <3>1. j \in 1..n /\ t[j] = s[j] /\ j # i
      BY <1>1, <1>2, <2>1
    <3> QED
      BY <1>1, <3>1 DEF Listing
  <2>2. CASE ~(j < i)
    <3>1. j + 1 \in 1..n /\ t[j] = s[j + 1] /\ j + 1 # i
      BY <1>1, <1>2, <2>2
    <3> QED
      BY <1>1, <3>1 DEF Listing
  <2> QED
    BY <2>1, <2>2
<1>4. ASSUME NEW q \in S \ {s[i]}
      PROVE  \E j \in 1..(n - 1) : t[j] = q
  <2>1. PICK j \in 1..n : s[j] = q
    BY DEF Listing
  <2>2. CASE j < i
    <3>1. j \in 1..(n - 1) /\ t[j] = s[j]
      BY <1>1, <1>2, <2>2
    <3> QED
      BY <2>1, <3>1
  <2>3. CASE ~(j < i)
    <3>1. j > i
      BY <1>1, <2>1, <2>3
    <3>2. j - 1 \in 1..(n - 1) /\ ~(j - 1 < i) /\ j - 1 + 1 = j
      BY <1>1, <3>1
    <3>3. t[j - 1] = s[j]
      BY <1>2, <3>2
    <3> QED
      BY <2>1, <3>2, <3>3
  <2> QED
    BY <2>2, <2>3
<1>5. ASSUME NEW g \in 1..(n - 1), NEW j \in 1..(n - 1), g < j, t[g] # f, t[j] # f
      PROVE  pr[t[j]].last_time <= pr[t[g]].last_time
  <2> DEFINE x == IF g < i THEN g ELSE g + 1
             y == IF j < i THEN j ELSE j + 1
  <2>1. x \in 1..n /\ y \in 1..n /\ x < y
    BY <1>1, <1>5
  <2>2. t[g] = s[x] /\ t[j] = s[y]
    BY <1>2
  <2> HIDE DEF x, y
  <2> QED
    BY <1>5, <2>1, <2>2 DEF Listing
<1>6. Listing(pr, S \ {s[i]}, n - 1, t, f)
  BY <1>3, <1>4, <1>5 DEF Listing
<1> QED
  BY <1>6 DEF t

LEMMA BeforeLists ==
    ASSUME NEW n \in Nat, NEW s, NEW pr, NEW S, NEW f, Listing(pr, S, n, s, f), NEW p, NEW g,
           \A q \in S : q # g => q # f /\ (p # g => pr[q].last_time <= pr[p].last_time)
    PROVE  Listing(pr, S \cup {p}, n + 1, Before(p, s, n), g)
<1> DEFINE t == Before(p, s, n)
<1>1. /\ t[1] = p /\ 1 \in 1..(n + 1)
      /\ \A j \in 1..(n + 1) : j # 1 => t[j] = s[j - 1] /\ j - 1 \in 1..n
      /\ \A j \in 1..n : j + 1 \in 1..(n + 1) /\ t[j + 1] = s[j]
  BY DEF Before
<1> HIDE DEF t
<1>2. \A j \in 1..(n + 1) : t[j] \in S \cup {p}
  BY <1>1 DEF Listing
<1>3. ASSUME NEW q \in S \cup {p}
      PROVE  \E j \in 1..(n + 1) : t[j] = q
  <2>1. CASE q = p
    BY <1>1, <2>1
  <2>2. CASE q # p
    <3>1. PICK j \in 1..n : s[j] = q
      BY <2>2 DEF Listing
    <3> QED
      BY <1>1, <3>1
  <2> QED
    BY <2>1, <2>2
<1>4. ASSUME NEW i \in 1..(n + 1), NEW j \in 1..(n + 1), i < j, t[i] # g, t[j] # g
      PROVE  pr[t[j]].last_time <= pr[t[i]].last_time
  <2>1. j # 1 /\ t[j] = s[j - 1] /\ j - 1 \in 1..n /\ s[j - 1] \in S
    BY <1>1, <1>4 DEF Listing
  <2>2. CASE i = 1
    BY <1>1, <1>4, <2>1, <2>2
  <2>3. CASE i # 1
    <3>1. t[i] = s[i - 1] /\ i - 1 \in 1..n /\ s[i - 1] \in S /\ i - 1 < j - 1
      BY <1>1, <1>4, <2>3 DEF Listing
    <3>2. s[i - 1] # f /\ s[j - 1] # f
      BY <1>4, <2>1, <3>1
    <3> QED
      BY <2>1, <3>1, <3>2 DEF Listing
  <2> QED
    BY <2>2, <2>3
<1>5. Listing(pr, S \cup {p}, n + 1, t, g)
  BY <1>2, <1>3, <1>4 DEF Listing
<1> QED
  BY <1>5 DEF t

LEMMA ElementsAre ==
    ASSUME NEW pr, NEW S, NEW n, NEW s, NEW f, Listing(pr, S, n, s, f)
    PROVE  Elements(s, n) = S
BY DEF Listing, Elements

\* A list whose pointers, or whose records, another operation leaves alone.
LEMMA ListFrame ==
    ASSUME NEW l, NEW k, NEW pr, NEW S, NEW n, NEW f, ListOf(l, k, pr, S, n, f),
           NEW m, m.head[k] = l.head[k], m.tail[k] = l.tail[k],
           \A q \in S : q \notin m.gone /\ m.next[q] = l.next[q] /\ m.prev[q] = l.prev[q],
           NEW pq, NEW g,
           \A q \in S : q # g => q # f /\ pq[q].last_time = pr[q].last_time
    PROVE  ListOf(m, k, pq, S, n, g)
<1>1. PICK s : Chain(l, k, n, s) /\ Listing(pr, S, n, s, f)
  BY DEF ListOf
<1>2. \A j \in 1..n : s[j] \in S
  BY <1>1 DEF Listing
<1>3. Chain(m, k, n, s)
  BY <1>1, <1>2 DEF Chain, Linked
<1>4. Listing(pq, S, n, s, g)
  BY <1>1, <1>2 DEF Listing
<1> QED
  BY <1>3, <1>4 DEF ListOf

LEMMA ListPlaces ==
    ASSUME NEW l, NEW k, NEW pr, NEW S, NEW n, NEW f, ListOf(l, k, pr, S, n, f)
    PROVE  n \in Nat /\ S \in SUBSET Places /\ \A q \in S : q \notin l.gone
BY DEF ListOf, Chain, Listing

LEMMA OnlyTwice ==
    ASSUME NEW l, NEW m, NEW h, NEW k, NEW Q, NEW R, OnlyList(m, l, k, Q), OnlyList(h, m, k, R),
           R \in SUBSET Q
    PROVE  OnlyList(h, l, k, Q)
BY DEF OnlyList

\* p is no earlier than the others of S, for lists in order but for f, then g.
Newest(pr, S, p, f, g) ==
    \A q \in S : q # g => q # f /\ (p # g => pr[q].last_time <= pr[p].last_time)

LEMMA PushList ==
    ASSUME ConnectionsAssumption, NEW l, IsLists(l), NEW k \in Kinds,
           NEW pr, NEW S, NEW n, NEW f, ListOf(l, k, pr, S, n, f),
           NEW p \in Places, p \notin l.gone, p \notin S, NEW g, Newest(pr, S, p, f, g)
    PROVE  /\ Push(l, k, p).head[k] = p
           /\ ListOf(Push(l, k, p), k, pr, S \cup {p}, n + 1, g)
           /\ OnlyList(Push(l, k, p), l, k, S \cup {p})
<1>1. PICK s : Chain(l, k, n, s) /\ Listing(pr, S, n, s, f)
  BY DEF ListOf
<1>2. n \in Nat /\ Elements(s, n) = S /\ \A j \in 1..n : s[j] # p
  <2>1. Elements(s, n) = S
    BY <1>1, ElementsAre
  <2>2. n \in Nat /\ \A j \in 1..n : s[j] # p
    BY <1>1 DEF Chain, Listing
  <2> QED
    BY <2>1, <2>2
<1> DEFINE m == Push(l, k, p)
<1>3. Chain(m, k, n + 1, Before(p, s, n)) /\ OnlyList(m, l, k, Elements(s, n) \cup {p})
  BY <1>1, <1>2, PushShape
<1>4. Listing(pr, S \cup {p}, n + 1, Before(p, s, n), g)
  BY <1>1, <1>2, BeforeLists DEF Newest
<1> HIDE DEF m
<1>5. ListOf(m, k, pr, S \cup {p}, n + 1, g) /\ OnlyList(m, l, k, S \cup {p})
  BY <1>2, <1>3, <1>4 DEF ListOf
<1>6. m.head[k] = p
  BY <1>2, <1>3 DEF Chain, Linked, Before
<1> QED
  BY <1>5, <1>6 DEF m

LEMMA LeaveList ==
    ASSUME ConnectionsAssumption, NEW l, IsLists(l), NEW k \in Kinds,
           NEW pr, NEW S, NEW n, NEW f, ListOf(l, k, pr, S, n, f), NEW p \in S
    PROVE  /\ ListOf(UpdateConnList(l, k, p, FALSE), k, pr, S \ {p}, n - 1, f)
           /\ OnlyList(UpdateConnList(l, k, p, FALSE), l, k, S)
<1>1. PICK s : Chain(l, k, n, s) /\ Listing(pr, S, n, s, f)
  BY DEF ListOf
<1>2. PICK i \in 1..n : s[i] = p
  BY <1>1 DEF Listing
<1>3. n \in Nat /\ Elements(s, n) = S
  BY <1>1, ElementsAre DEF Chain
<1>4. 1 \in 1..n /\ l.head[k] = s[1] /\ (s[i] = s[1] => i = 1) /\ (i # 1 => i \in 2..n)
  BY <1>1, <1>2, <1>3 DEF Chain, Linked
<1> DEFINE m == UpdateConnList(l, k, p, FALSE)
<1>5. PassedOver(m, l, k, n, s, i)
  <2>1. CASE i = 1
    <3>1. m = HeadLeaves(l, k, s[1])
      BY <1>2, <1>4, <2>1 DEF UpdateConnList
    <3> QED
      BY <1>1, <1>4, <2>1, <3>1, HeadLeavesShape
  <2>2. CASE i # 1
    <3>1. m = Detached(l, k, s[i])
      BY <1>2, <1>4, <2>2 DEF UpdateConnList
    <3> QED
      BY <1>1, <1>4, <2>2, <3>1, DetachedShape
  <2> QED
    BY <2>1, <2>2
<1> HIDE DEF m
<1>6. Chain(m, k, n - 1, Without(s, n, i))
  BY <1>1, <1>5, PassedOverShape
<1>7. Listing(pr, S \ {p}, n - 1, Without(s, n, i), f)
  BY <1>1, <1>2, WithoutLists
<1>8. ListOf(m, k, pr, S \ {p}, n - 1, f) /\ OnlyList(m, l, k, S)
  BY <1>3, <1>5, <1>6, <1>7 DEF ListOf, PassedOver
<1> QED
  BY <1>8 DEF m

LEMMA ToFrontIsPush ==
    ASSUME ConnectionsAssumption, NEW l, IsLists(l), NEW k \in Kinds, NEW p \in Places,
           p \notin l.gone, l.head[k] \in Places, l.head[k] \notin l.gone
    PROVE  ToFront(l, k, p) = Push(l, k, p)
<1> DEFINE old == l.head[k]
           x == SetPrev(l, old, p)
           y == SetNext(x, p, old)
           z == SetPrev(y, p, Null)
<1>1. Places \in SUBSET (Nat \ {0}) /\ Null = 0
  BY DEF Places, ConnectionsAssumption, Null
<1>2. Push(l, k, p) = [z EXCEPT !.head[k] = p]
  BY <1>1 DEF Push
<1>3. ToFront(l, k, p) = [x EXCEPT !.next[p] = old, !.prev[p] = Null, !.head[k] = p]
  BY DEF ToFront
<1>4. old \in Places /\ old \notin l.gone
  OBVIOUS
<1> HIDE DEF old
<1>5. PrevSet(x, l, old, p)
  BY <1>1, <1>4, SetPrevShape
<1> HIDE DEF x
<1>6. IsLists(x) /\ ~Broken(x, p)
  BY <1>1, <1>5 DEF PrevSet, Broken
<1>7. y = [x EXCEPT !.next[p] = old] /\ ~Broken(y, p)
  BY <1>6 DEF SetNext, IsLists, Broken
<1>8. z = [y EXCEPT !.prev[p] = Null]
  BY <1>7 DEF SetPrev
<1> HIDE DEF y, z
<1> QED
  BY <1>2, <1>3, <1>6, <1>7, <1>8 DEF IsLists

LEMMA FrontList ==
    ASSUME ConnectionsAssumption, NEW l, IsLists(l), NEW k \in Kinds,
           NEW pr, NEW S, NEW n, NEW f, ListOf(l, k, pr, S, n, f), NEW p \in S, NEW g,
           Newest(pr, S \ {p}, p, f, g)
    PROVE  /\ ListOf(UpdateConnList(l, k, p, TRUE), k, pr, S, n, g)
           /\ OnlyList(UpdateConnList(l, k, p, TRUE), l, k, S)
<1>1. PICK s : Chain(l, k, n, s) /\ Listing(pr, S, n, s, f)
  BY DEF ListOf
<1>2. PICK i \in 1..n : s[i] = p
  BY <1>1 DEF Listing
<1>3. n \in Nat /\ Elements(s, n) = S /\ s \in [1..n -> Places] /\ \A j \in 1..n : s[j] \notin l.gone
  BY <1>1, ElementsAre DEF Chain
<1>4. /\ 1 \in 1..n /\ l.head[k] = s[1] /\ (s[i] = s[1] => i = 1) /\ (i # 1 => i \in 2..n)
      /\ \A j \in 1..n : s[j] = p => j = i
  <2>1. /\ \A x, y \in 1..n : s[x] = s[y] => x = y
        /\ l.head[k] = IF n = 0 THEN Null ELSE s[1]
    BY <1>1 DEF Chain, Linked
  <2>2. 1 \in 1..n /\ n # 0 /\ (i # 1 => i \in 2..n)
    BY <1>3
  <2> QED
    BY <1>2, <2>1, <2>2
<1>5. CASE i = 1
  <2>1. UpdateConnList(l, k, p, TRUE) = l
    BY <1>2, <1>4, <1>5 DEF UpdateConnList
  <2>2. OnlyList(l, l, k, S)
    BY DEF OnlyList
  <2>3. ASSUME NEW x \in 1..n, NEW y \in 1..n, x < y, s[x] # g, s[y] # g
        PROVE  pr[s[y]].last_time <= pr[s[x]].last_time
    <3>1. s[x] \in S /\ s[y] \in S /\ s[y] # p
      BY <1>1, <1>4, <1>5, <2>3 DEF Listing
    <3>2. CASE s[x] = p
      BY <2>3, <3>1, <3>2 DEF Newest
    <3>3. CASE s[x] # p
      BY <1>1, <2>3, <3>1, <3>3 DEF Listing, Newest
    <3> QED
      BY <3>2, <3>3
  <2>4. Listing(pr, S, n, s, g)
    BY <1>1, <2>3 DEF Listing
  <2>5. ListOf(l, k, pr, S, n, g)
    BY <1>1, <2>4 DEF ListOf
  <2> QED
    BY <2>1, <2>2, <2>5
<1>6. CASE i # 1
  <2> DEFINE x == Detached(l, k, s[i])
  <2>1. UpdateConnList(l, k, p, TRUE) = ToFront(x, k, p)
    BY <1>2, <1>4, <1>6 DEF UpdateConnList
  <2>2. PassedOver(x, l, k, n, s, i)
    BY <1>1, <1>4, <1>6, DetachedShape
  <2> HIDE DEF x
  <2>3. Chain(x, k, n - 1, Without(s, n, i))
    BY <1>1, <2>2, PassedOverShape
  <2>4. Listing(pr, S \ {p}, n - 1, Without(s, n, i), f)
    BY <1>1, <1>2, WithoutLists
  <2>5. ListOf(x, k, pr, S \ {p}, n - 1, f)
    BY <2>3, <2>4 DEF ListOf
  <2>6. /\ OnlyList(x, l, k, S) /\ IsLists(x) /\ x.gone = l.gone /\ x.head[k] = s[1]
    BY <1>3, <1>4, <1>6, <2>2 DEF PassedOver, OnlyList
  <2>7. /\ p \in Places /\ p \notin x.gone /\ x.head[k] \in Places /\ x.head[k] \notin x.gone
    BY <1>2, <1>3, <1>4, <2>6
  <2>8. ToFront(x, k, p) = Push(x, k, p)
    BY <2>6, <2>7, ToFrontIsPush
  <2>9. p \notin S \ {p} /\ (S \ {p}) \cup {p} = S /\ n - 1 + 1 = n
    BY <1>3
  <2> DEFINE R == S \ {p}
  <2> HIDE DEF R
  <2>10. /\ ListOf(Push(x, k, p), k, pr, R \cup {p}, n - 1 + 1, g)
         /\ OnlyList(Push(x, k, p), x, k, R \cup {p})
    <3>1. /\ ListOf(x, k, pr, R, n - 1, f) /\ p \notin R
          /\ Newest(pr, R, p, f, g)
      BY <2>5, <2>9 DEF R
    <3> QED
      BY <2>6, <2>7, <3>1, PushList
  <2>11. R \cup {p} = S
    BY <2>9 DEF R
  <2>12. ListOf(Push(x, k, p), k, pr, S, n, g) /\ OnlyList(Push(x, k, p), l, k, S)
    BY <2>6, <2>9, <2>10, <2>11, OnlyTwice
  <2> QED
    BY <2>1, <2>8, <2>12
<1> QED
  BY <1>5, <1>6

\* The ends of a list.
LEMMA ListEnds ==
    ASSUME ConnectionsAssumption, NEW l, NEW k, NEW pr, NEW S, NEW n, NEW f, ListOf(l, k, pr, S, n, f)
    PROVE  /\ n \in Nat /\ (l.tail[k] = Null <=> n = 0) /\ (n = 0 <=> S = {})
           /\ n # 0 => /\ l.tail[k] \in S /\ l.head[k] \in S
                       /\ l.prev[l.tail[k]] = Null <=> n = 1
                       /\ l.head[k] = l.tail[k] <=> n = 1
                       /\ n = 1 => S = {l.tail[k]}
           /\ f \notin S /\ n > 1 => pr[l.tail[k]].last_time <= pr[l.head[k]].last_time
<1>1. PICK s : Chain(l, k, n, s) /\ Listing(pr, S, n, s, f)
  BY DEF ListOf
<1>2. n \in Nat /\ s \in [1..n -> Places] /\ Linked(l, k, n, s)
  BY <1>1 DEF Chain
<1>3. Places \in SUBSET (Nat \ {0}) /\ Null = 0
  BY DEF Places, ConnectionsAssumption, Null
<1>4. CASE n = 0
  <2>1. 1..n = {}
    BY <1>4
  <2>2. S = {}
    BY <1>1, <2>1 DEF Listing
  <2> QED
    BY <1>2, <1>4, <2>2 DEF Linked
<1>5. CASE n # 0
  <2>1. /\ 1 \in 1..n /\ n \in 1..n /\ l.head[k] = s[1] /\ l.tail[k] = s[n]
        /\ s[1] \in S /\ s[n] \in S /\ s[n] \in Places
        /\ (s[1] = s[n] <=> n = 1)
    BY <1>1, <1>2, <1>5 DEF Linked, Listing
  <2>2. l.prev[s[n]] = IF n = 1 THEN Null ELSE s[n - 1]
    BY <1>2, <2>1 DEF Linked
  <2>3. n # 1 => n - 1 \in 1..n /\ s[n - 1] # Null
    BY <1>2, <1>3, <1>5
  <2>4. n = 1 => S = {s[n]}
    <3>1. n = 1 => \A j \in 1..n : j = n
      BY <1>2
    <3> QED
      BY <1>1, <2>1, <3>1 DEF Listing
  <2>5. f \notin S /\ n > 1 => pr[s[n]].last_time <= pr[s[1]].last_time
    BY <1>1, <1>2, <2>1 DEF Listing
  <2>6. S # {} /\ s[n] # Null
    BY <1>3, <2>1
  <2> QED
    BY <1>2, <1>5, <2>1, <2>2, <2>3, <2>4, <2>5, <2>6
<1> QED
  BY <1>4, <1>5

\* The head and the tail of a list that is not empty can be followed.
LEMMA EndsAreSound ==
    ASSUME ConnectionsAssumption, NEW l, NEW k, NEW pr, NEW S, NEW n, NEW f,
           ListOf(l, k, pr, S, n, f), n # 0
    PROVE  ~Broken(l, l.tail[k]) /\ ~Broken(l, l.head[k])
<1>1. l.tail[k] \in S /\ l.head[k] \in S
  BY ListEnds
<1>2. S \in SUBSET Places /\ \A q \in S : q \notin l.gone
  BY ListPlaces
<1>3. Null \notin Places
  BY DEF Places, Null, ConnectionsAssumption
<1> QED
  BY <1>1, <1>2, <1>3 DEF Broken

LEMMA CutList ==
    ASSUME ConnectionsAssumption, NEW l, IsLists(l), NEW k \in Kinds,
           NEW pr, NEW S, NEW n, NEW f, ListOf(l, k, pr, S, n, f), n > 1
    PROVE  LET last == l.tail[k]
               before == l.prev[last]
               m == SetNext([l EXCEPT !.tail[k] = before], before, Null)
           IN  /\ ListOf(m, k, pr, S \ {last}, n - 1, f) /\ OnlyList(m, l, k, S)
               /\ m.head[k] = l.head[k]
<1>1. PICK s : Chain(l, k, n, s) /\ Listing(pr, S, n, s, f)
  BY DEF ListOf
<1>2. n \in Nat /\ Elements(s, n) = S
  BY <1>1, ElementsAre DEF Chain
<1>3. l.tail[k] = s[n] /\ n \in 1..n /\ 2 \in 1..n /\ n # 1
  BY <1>1, <1>2 DEF Chain, Linked
<1> DEFINE before == l.prev[s[n]]
           m == SetNext([l EXCEPT !.tail[k] = before], before, Null)
<1>4. PassedOver(m, l, k, n, s, n)
  BY <1>1, <1>3, CutShape
<1> HIDE DEF m
<1>5. Chain(m, k, n - 1, Without(s, n, n))
  BY <1>1, <1>3, <1>4, PassedOverShape
<1>6. Listing(pr, S \ {s[n]}, n - 1, Without(s, n, n), f)
  BY <1>1, <1>3, WithoutLists
<1>7. /\ ListOf(m, k, pr, S \ {s[n]}, n - 1, f) /\ OnlyList(m, l, k, S)
      /\ m.head[k] = l.head[k]
  BY <1>2, <1>3, <1>4, <1>5, <1>6 DEF ListOf, PassedOver
<1> QED
  BY <1>3, <1>7 DEF m

\* There are no more connections in a list than there are places for them.
LEMMA ListIsShort ==
    ASSUME NEW l, NEW k, NEW pr, NEW S, NEW n, NEW f, ListOf(l, k, pr, S, n, f),
           NEW m \in Nat, S \in SUBSET (1..m)
    PROVE  n <= m
<1>1. PICK s : Chain(l, k, n, s) /\ Listing(pr, S, n, s, f)
  BY DEF ListOf
<1>2. n \in Nat /\ s \in [1..n -> Places] /\ \A i, j \in 1..n : s[i] = s[j] => i = j
  BY <1>1 DEF Chain, Linked
<1>3. s \in [1..n -> 1..m]
  BY <1>1, <1>2 DEF Listing
<1>4. s \in Injection(1..n, 1..m)
  BY <1>2, <1>3 DEF Injection, IsInjective
<1>5. IsFiniteSet(1..m) /\ Cardinality(1..m) = m /\ Cardinality(1..n) = n
  <2>1. Cardinality(1..m) = (IF 1 > m THEN 0 ELSE m - 1 + 1) /\ IsFiniteSet(1..m)
    BY FS_Interval
  <2>2. Cardinality(1..n) = (IF 1 > n THEN 0 ELSE n - 1 + 1)
    BY <1>2, FS_Interval
  <2> QED
    BY <1>2, <2>1, <2>2
<1>6. Cardinality(1..n) <= Cardinality(1..m)
  BY <1>4, <1>5, FS_Injection
<1> QED
  BY <1>5, <1>6

\* The connections of T that belong to list k.
Of(pr, T, k) == {q \in T : pr[q].inactive = (k = "closed")}

\* Length n of list k, which x says is about to get one more.
Counts(l, k, n, x) == Limited => l.count[k] = n + (IF k = x THEN 1 ELSE 0)

ListKept(w, T, f, x, k, n) == ListOf(w.l, k, w.pr, Of(w.pr, T, k), n, f) /\ Counts(w.l, k, n, x)

TableKept(w, T) ==
    /\ T \in SUBSET (1..Len(w.pr)) /\ w.t \in SUBSET (1..Len(w.pr))
    /\ \A p, q \in T \cup w.t : w.pr[p].ends = w.pr[q].ends => p = q
    /\ \A q \in T \cup w.t : q \notin w.l.gone
    /\ w.l.gone \in SUBSET (1..Len(w.pr))

\* The lists hold the connections of T, in order but for f.
Layout(w, T, f, x) ==
    /\ IsWorld(w) /\ IsLists(w.l) /\ TableKept(w, T)
    /\ \A k \in Kinds : \E n : ListKept(w, T, f, x, k, n)

\* p leaves the table and is freed.
Freed(v, w, p) ==
    /\ IsWorld(v) /\ v.pr = w.pr /\ v.s = w.s /\ v.found = w.found
    /\ v.t = {q \in w.t : w.pr[q].ends # w.pr[p].ends}
    /\ IsLists(v.l) /\ v.l.head = w.l.head /\ v.l.tail = w.l.tail /\ v.l.count = w.l.count
    /\ v.l.next = w.l.next /\ v.l.prev = w.l.prev /\ v.l.gone = w.l.gone \cup {p}

LEMMA RemoveConnShape ==
    ASSUME NEW w, IsWorld(w), IsLists(w.l), NEW p, p # Null, p \notin w.l.gone
    PROVE  Freed(RemoveConn(w, p), w, p)
<1> DEFINE t == {q \in w.t : w.pr[q].ends # w.pr[p].ends}
           l == [w.l EXCEPT !.gone = w.l.gone \cup {p}]
           v == [w EXCEPT !.l = l, !.t = t]
<1>1. RemoveConn(w, p) = v
  <2> HIDE DEF t
  <2>1. RemoveConn(w, p) = [w EXCEPT !.l.gone = @ \cup {p}, !.t = t]
    BY DEF RemoveConn, Broken, t
  <2> QED
    BY <2>1 DEF IsWorld
<1>2. /\ IsLists(l) /\ l.head = w.l.head /\ l.tail = w.l.tail /\ l.count = w.l.count
      /\ l.next = w.l.next /\ l.prev = w.l.prev /\ l.gone = w.l.gone \cup {p}
  BY DEF IsLists
<1>3. t = {q \in w.t : w.pr[q].ends # w.pr[p].ends}
  OBVIOUS
<1> HIDE DEF l, t
<1>4. /\ DOMAIN v = DOMAIN w /\ v.pr = w.pr /\ v.s = w.s /\ v.found = w.found /\ v.t = t /\ v.l = l
  BY DEF IsWorld
<1> HIDE DEF v
<1>5. Freed(v, w, p)
  BY <1>2, <1>3, <1>4 DEF Freed, IsWorld
<1> QED
  BY <1>1, <1>5

CountSet(m, l, k, c) ==
    /\ IsLists(m) /\ m.head = l.head /\ m.tail = l.tail /\ m.gone = l.gone
    /\ m.next = l.next /\ m.prev = l.prev /\ m.count[k] = c
    /\ \A j \in Kinds : j # k => m.count[j] = l.count[j]

LEMMA CountSetShape ==
    ASSUME NEW l, IsLists(l), NEW k \in Kinds, NEW c \in Int
    PROVE  CountSet([l EXCEPT !.count[k] = c], l, k, c)
<1> DEFINE count == [l.count EXCEPT ![k] = c]
           m == [l EXCEPT !.count = count]
<1>1. [l EXCEPT !.count[k] = c] = m
  BY DEF IsLists
<1>2. count \in [Kinds -> Int] /\ count[k] = c /\ \A j \in Kinds : j # k => count[j] = l.count[j]
  BY DEF IsLists
<1> HIDE DEF count
<1>3. CountSet(m, l, k, c)
  BY <1>2 DEF CountSet, IsLists
<1> QED
  BY <1>1, <1>3

\* List j and the pointers outside Q stay, and last is freed.
OtherKept(v, w, Q, j, last) ==
    /\ v.pr = w.pr /\ v.l.gone = w.l.gone \cup {last} /\ v.l.count[j] = w.l.count[j]
    /\ v.l.head[j] = w.l.head[j] /\ v.l.tail[j] = w.l.tail[j]
    /\ \A q \in Places : q \notin Q => v.l.next[q] = w.l.next[q] /\ v.l.prev[q] = w.l.prev[q]

\* What happens to one list when the last of the other, k, is dropped.
LEMMA OtherList ==
    ASSUME NEW w, NEW T, NEW f, NEW x, NEW j \in Kinds, NEW m, ListKept(w, T, f, x, j, m),
           NEW k \in Kinds, j # k, NEW last \in Of(w.pr, T, k),
           NEW v, OtherKept(v, w, Of(w.pr, T, k), j, last)
    PROVE  ListKept(v, T \ {last}, f, x, j, m)
<1> DEFINE R == Of(w.pr, T, j)
           S == Of(w.pr, T, k)
           U == T \ {last}
<1>1. ListOf(w.l, j, w.pr, R, m, f) /\ Counts(w.l, j, m, x)
  BY DEF ListKept
<1>2. R = Of(v.pr, U, j) /\ (\A q \in R : q \notin S) /\ last \in S
  <2>1. \A q \in T : q \in R => q \notin S
    BY DEF Of, Kinds
  <2>2. R \in SUBSET T /\ last \in T
    BY DEF Of
  <2>3. last \notin R
    BY <2>1, <2>2
  <2>4. Of(v.pr, U, j) = R \ {last}
    BY DEF Of, OtherKept
  <2>5. last \in S
    OBVIOUS
  <2> HIDE DEF R, S
  <2> QED
    BY <2>1, <2>2, <2>3, <2>4, <2>5
<1>3. OtherKept(v, w, S, j, last)
  OBVIOUS
<1> HIDE DEF R, S, U
<1>4. \A q \in R : q \in Places /\ q \notin w.l.gone
  BY <1>1, ListPlaces
<1>5. \A q \in R : q \notin v.l.gone /\ v.l.next[q] = w.l.next[q] /\ v.l.prev[q] = w.l.prev[q]
  BY <1>2, <1>3, <1>4 DEF OtherKept
<1>6. ListOf(v.l, j, v.pr, R, m, f)
  BY <1>1, <1>3, <1>5, ListFrame DEF OtherKept
<1>7. Counts(v.l, j, m, x)
  BY <1>1, <1>3 DEF Counts, OtherKept
<1> QED
  BY <1>2, <1>3, <1>6, <1>7 DEF ListKept, OtherKept, U

\* The last of list k, of at least two, is dropped.
Dropped(v, w, k, last) ==
    /\ v.pr = w.pr /\ v.s = w.s /\ v.found = w.found /\ v.t = w.t \ {last}
    /\ v.l.head[k] = w.l.head[k] /\ v.l.gone = w.l.gone \cup {last}
    /\ v.l.count[k] = w.l.count[k] - 1
    /\ \A j \in Kinds : j # k => v.l.count[j] = w.l.count[j]

LEMMA RemoveLastLayout ==
    ASSUME ConnectionsAssumption, NEW w, NEW T, NEW f, NEW x, Layout(w, T, f, x),
           NEW k \in Kinds, NEW n, ListKept(w, T, f, x, k, n), n > 1
    PROVE  LET last == w.l.tail[k]
               v == RemoveLast(w, k)
           IN  /\ Dropped(v, w, k, last) /\ last \in T /\ last # w.l.head[k]
               /\ Layout(v, T \ {last}, f, x) /\ ListKept(v, T \ {last}, f, x, k, n - 1)
<1> DEFINE last == w.l.tail[k]
           before == w.l.prev[last]
           cut == SetNext([w.l EXCEPT !.tail[k] = before], before, Null)
           less == [cut EXCEPT !.count[k] = cut.count[k] - 1]
           u == [w EXCEPT !.l = less]
           v == RemoveConn(u, last)
           S == Of(w.pr, T, k)
<1>1. RemoveLast(w, k) = v
  <2> HIDE DEF cut
  <2>1. [cut EXCEPT !.count[k] = @ - 1] = less
    OBVIOUS
  <2>2. ~Broken(w.l, last)
    <3>1. ListOf(w.l, k, w.pr, S, n, f) /\ n # 0
      BY DEF ListKept
    <3> QED
      BY <3>1, EndsAreSound
  <2> HIDE DEF less
  <2>3. RemoveLast(w, k) = RemoveConn([w EXCEPT !.l = [cut EXCEPT !.count[k] = @ - 1]], last)
    BY <2>2 DEF RemoveLast, cut
  <2> QED
    BY <2>1, <2>3
<1>2. IsWorld(w) /\ IsLists(w.l) /\ TableKept(w, T)
  BY DEF Layout
<1>3. ListOf(w.l, k, w.pr, S, n, f) /\ Counts(w.l, k, n, x)
  BY DEF ListKept
<1> HIDE DEF S
<1>4. n \in Nat /\ last \in S /\ last # w.l.head[k]
  BY <1>3, ListEnds
<1>5. last \in T /\ S \in SUBSET T /\ S \in SUBSET Places /\ \A q \in S : q \notin w.l.gone
  BY <1>3, <1>4, ListPlaces DEF S, Of
<1>6. /\ ListOf(cut, k, w.pr, S \ {last}, n - 1, f) /\ OnlyList(cut, w.l, k, S)
      /\ cut.head[k] = w.l.head[k]
  BY <1>2, <1>3, CutList
<1> HIDE DEF cut, last
<1>7. CountSet(less, cut, k, cut.count[k] - 1)
  <2>1. IsLists(cut) /\ cut.count[k] - 1 \in Int
    BY <1>6 DEF OnlyList, IsLists
  <2> QED
    BY <2>1, CountSetShape
<1> HIDE DEF less
<1>8. IsWorld(u) /\ u.l = less /\ u.pr = w.pr /\ u.t = w.t /\ u.s = w.s /\ u.found = w.found
  BY <1>2 DEF IsWorld
<1> HIDE DEF u
<1>9. last # Null /\ last \notin less.gone
  <2>1. last \in Places /\ last \notin w.l.gone
    BY <1>4, <1>5
  <2>2. last # Null
    BY <2>1 DEF Places, ConnectionsAssumption, Null
  <2> QED
    BY <1>6, <1>7, <2>1, <2>2 DEF OnlyList, CountSet
<1>10. Freed(v, u, last)
  BY <1>7, <1>8, <1>9, RemoveConnShape DEF CountSet
<1> HIDE DEF v
<1>11. /\ IsWorld(v) /\ IsLists(v.l) /\ v.pr = w.pr /\ v.s = w.s /\ v.found = w.found
       /\ v.t = {q \in w.t : w.pr[q].ends # w.pr[last].ends}
       /\ v.l.gone = w.l.gone \cup {last}
  BY <1>6, <1>7, <1>8, <1>10 DEF Freed, OnlyList, CountSet
<1>12. /\ v.l.next = cut.next /\ v.l.prev = cut.prev /\ v.l.head = cut.head /\ v.l.tail = cut.tail
       /\ v.l.count[k] = w.l.count[k] - 1
       /\ \A j \in Kinds : j # k => v.l.count[j] = w.l.count[j]
  BY <1>6, <1>7, <1>8, <1>10 DEF Freed, OnlyList, CountSet
<1>13. v.t = w.t \ {last}
  <2>1. \A q \in w.t : w.pr[q].ends = w.pr[last].ends <=> q = last
    BY <1>2, <1>5 DEF TableKept
  <2> QED
    BY <1>11, <2>1
<1>14. Dropped(v, w, k, last)
  BY <1>6, <1>11, <1>12, <1>13 DEF Dropped
<1> DEFINE U == T \ {last}
<1>15. TableKept(v, U)
  <2>1. U \in SUBSET T /\ v.t \in SUBSET w.t /\ last \notin U /\ last \notin v.t
    BY <1>13
  <2> QED
    BY <1>2, <1>5, <1>11, <2>1 DEF TableKept
<1>16. ListKept(v, U, f, x, k, n - 1)
  <2>1. Of(v.pr, U, k) = S \ {last}
    BY <1>11 DEF Of, S
  <2>2. ListOf(v.l, k, v.pr, S \ {last}, n - 1, f)
    <3>1. \A q \in S \ {last} : q \notin v.l.gone /\ v.l.next[q] = cut.next[q] /\ v.l.prev[q] = cut.prev[q]
      BY <1>5, <1>11, <1>12
    <3> QED
      BY <1>6, <1>11, <1>12, <3>1, ListFrame
  <2>3. Counts(v.l, k, n - 1, x)
    <3>1. Limited => w.l.count[k] = n + (IF k = x THEN 1 ELSE 0)
      BY <1>3 DEF Counts
    <3>2. Limited => v.l.count[k] = n - 1 + (IF k = x THEN 1 ELSE 0)
      BY <1>4, <1>12, <3>1
    <3> QED
      BY <3>2 DEF Counts
  <2> QED
    BY <2>1, <2>2, <2>3 DEF ListKept
<1>17. ASSUME NEW j \in Kinds
       PROVE  \E m : ListKept(v, U, f, x, j, m)
  <2>1. CASE j = k
    BY <1>16, <2>1
  <2>2. CASE j # k
    <3>1. PICK m : ListKept(w, T, f, x, j, m)
      BY DEF Layout
    <3>2. OtherKept(v, w, S, j, last)
      BY <1>6, <1>11, <1>12, <2>2 DEF OnlyList, OtherKept
    <3>3. last \in Of(w.pr, T, k) /\ S = Of(w.pr, T, k)
      BY <1>4 DEF S
    <3>4. ListKept(v, T \ {last}, f, x, j, m)
      BY <2>2, <3>1, <3>2, <3>3, OtherList
    <3> QED
      BY <3>4
  <2> QED
    BY <2>1, <2>2
<1>18. Layout(v, U, f, x)
  BY <1>11, <1>15, <1>17 DEF Layout
<1> HIDE DEF U
<1>19. /\ Dropped(v, w, k, last) /\ last \in T /\ last # w.l.head[k]
       /\ Layout(v, U, f, x) /\ ListKept(v, U, f, x, k, n - 1)
  BY <1>4, <1>5, <1>14, <1>16, <1>18
<1> QED
  BY <1>1, <1>19 DEF last, U

LEMMA EmptyList ==
    ASSUME NEW l, NEW k, l.head[k] = Null, l.tail[k] = Null, NEW pr, NEW f
    PROVE  ListOf(l, k, pr, {}, 0, f)
<1> DEFINE s == [j \in 1..0 |-> Null]
<1>1. 1..0 = {} /\ s \in [1..0 -> Places]
  OBVIOUS
<1> HIDE DEF s
<1>2. Chain(l, k, 0, s) /\ Listing(pr, {}, 0, s, f)
  BY <1>1 DEF Chain, Linked, Listing
<1> QED
  BY <1>2 DEF ListOf

\* The only one of list k is dropped.
LEMMA DropHeadLayout ==
    ASSUME ConnectionsAssumption, NEW w, NEW T, NEW f, NEW x, Layout(w, T, f, x),
           NEW k \in Kinds, ListKept(w, T, f, x, k, 1)
    PROVE  LET last == w.l.tail[k]
               v == RemoveConn([w EXCEPT !.l.head[k] = Null, !.l.tail[k] = Null,
                                         !.l.count[k] = @ - 1], last)
           IN  /\ v.pr = w.pr /\ v.t = w.t \ {last} /\ last \in T /\ Layout(v, T \ {last}, f, x)
               /\ \A j \in Kinds : v.l.count[j] <= w.l.count[j]
<1> DEFINE last == w.l.tail[k]
           a == [w.l EXCEPT !.head[k] = Null]
           b == [a EXCEPT !.tail[k] = Null]
           c == [b EXCEPT !.count[k] = b.count[k] - 1]
           u == [w EXCEPT !.l = c]
           v == RemoveConn(u, last)
           S == Of(w.pr, T, k)
<1>1. IsWorld(w) /\ IsLists(w.l) /\ TableKept(w, T)
  BY DEF Layout
<1>2. [w EXCEPT !.l.head[k] = Null, !.l.tail[k] = Null, !.l.count[k] = @ - 1] = u
  BY <1>1 DEF IsWorld, IsLists
<1>3. ListOf(w.l, k, w.pr, S, 1, f) /\ Counts(w.l, k, 1, x)
  BY DEF ListKept
<1> HIDE DEF S
<1>4. S = {last}
  BY <1>3, ListEnds
<1>5. last \in T /\ last \in Places /\ last \notin w.l.gone
  BY <1>3, <1>4, ListPlaces DEF S, Of
<1>6. last # Null /\ Null \in Nat
  BY <1>5 DEF Places, ConnectionsAssumption, Null
<1> HIDE DEF last
<1>7. EndsSet(a, w.l, k, Null, w.l.tail[k])
  BY <1>1, <1>6, HeadShape
<1> HIDE DEF a
<1>8. EndsSet(b, a, k, a.head[k], Null)
  BY <1>6, <1>7, TailShape DEF EndsSet
<1> HIDE DEF b
<1>9. CountSet(c, b, k, b.count[k] - 1)
  <2>1. IsLists(b) /\ b.count[k] - 1 \in Int
    BY <1>8 DEF EndsSet, IsLists
  <2> QED
    BY <2>1, CountSetShape
<1> HIDE DEF c
<1>10. IsWorld(u) /\ u.l = c /\ u.pr = w.pr /\ u.t = w.t
  BY <1>1 DEF IsWorld
<1> HIDE DEF u
<1>11. Freed(v, u, last)
  <2>1. IsLists(u.l) /\ last \notin u.l.gone
    BY <1>5, <1>7, <1>8, <1>9, <1>10 DEF EndsSet, CountSet
  <2> QED
    BY <1>6, <1>10, <2>1, RemoveConnShape
<1> HIDE DEF v
<1>12. /\ IsWorld(v) /\ IsLists(v.l) /\ v.pr = w.pr
       /\ v.t = {q \in w.t : w.pr[q].ends # w.pr[last].ends}
       /\ v.l.gone = w.l.gone \cup {last}
       /\ v.l.head[k] = Null /\ v.l.tail[k] = Null /\ v.l.count[k] = w.l.count[k] - 1
       /\ \A j \in Kinds : j # k => v.l.count[j] = w.l.count[j]
  BY <1>7, <1>8, <1>9, <1>10, <1>11 DEF Freed, EndsSet, CountSet
<1>13. \A j \in Kinds : j # k => OtherKept(v, w, S, j, last)
  BY <1>7, <1>8, <1>9, <1>10, <1>11 DEF Freed, EndsSet, CountSet, OtherKept
<1>14. v.t = w.t \ {last}
  <2>1. \A q \in w.t : w.pr[q].ends = w.pr[last].ends <=> q = last
    BY <1>1, <1>5 DEF TableKept
  <2> QED
    BY <1>12, <2>1
<1> DEFINE U == T \ {last}
<1>15. TableKept(v, U)
  <2>1. U \in SUBSET T /\ v.t \in SUBSET w.t /\ last \notin U /\ last \notin v.t
    BY <1>14
  <2> HIDE DEF U
  <2> QED
    BY <1>1, <1>5, <1>12, <2>1 DEF TableKept
<1>16. ListKept(v, U, f, x, k, 0)
  <2>1. Of(v.pr, U, k) = {}
    BY <1>4, <1>12 DEF Of, S
  <2>2. ListOf(v.l, k, v.pr, {}, 0, f)
    BY <1>12, EmptyList
  <2>3. Counts(v.l, k, 0, x)
    BY <1>3, <1>12 DEF Counts
  <2> HIDE DEF U
  <2> QED
    BY <2>1, <2>2, <2>3 DEF ListKept
<1>17. ASSUME NEW j \in Kinds
       PROVE  \E m : ListKept(v, U, f, x, j, m)
  <2>1. CASE j = k
    BY <1>16, <2>1
  <2>2. CASE j # k
    <3>1. PICK m : ListKept(w, T, f, x, j, m)
      BY DEF Layout
    <3>2. last \in Of(w.pr, T, k) /\ OtherKept(v, w, Of(w.pr, T, k), j, last)
      BY <1>4, <1>13, <2>2 DEF S
    <3>3. ListKept(v, T \ {last}, f, x, j, m)
      BY <2>2, <3>1, <3>2, OtherList
    <3> QED
      BY <3>3
  <2> QED
    BY <2>1, <2>2
<1>18. Layout(v, U, f, x)
  BY <1>12, <1>15, <1>17 DEF Layout
<1> HIDE DEF U
<1>19. \A j \in Kinds : v.l.count[j] <= w.l.count[j]
  <2>1. \A j \in Kinds : w.l.count[j] \in Int
    BY <1>1 DEF IsLists
  <2> QED
    BY <1>12, <2>1
<1>20. v.pr = w.pr /\ v.t = w.t \ {last} /\ last \in T /\ Layout(v, U, f, x)
  BY <1>5, <1>12, <1>14, <1>18
<1>21. RemoveConn([w EXCEPT !.l.head[k] = Null, !.l.tail[k] = Null, !.l.count[k] = @ - 1], last) = v
  BY <1>2 DEF v
<1> QED
  BY <1>19, <1>20, <1>21 DEF last, U

Sound(w) == Layout(w, w.t, Null, "none")
Long(w, k, n) == ListKept(w, w.t, Null, "none", k, n)

Smaller(v, w) ==
    /\ v.pr = w.pr /\ v.t \in SUBSET w.t
    /\ \A j \in Kinds : v.l.count[j] <= w.l.count[j]

LEMMA SmallerSelf ==
    ASSUME NEW w, Sound(w)
    PROVE  Smaller(w, w)
<1>1. \A j \in Kinds : w.l.count[j] \in Int
  BY DEF Sound, Layout, IsLists
<1> QED
  BY <1>1 DEF Smaller

LEMMA SmallerTwice ==
    ASSUME NEW u, NEW v, NEW w, Sound(u), Sound(v), Sound(w), Smaller(u, v), Smaller(v, w)
    PROVE  Smaller(u, w)
<1>1. \A j \in Kinds : u.l.count[j] \in Int /\ v.l.count[j] \in Int /\ w.l.count[j] \in Int
  BY DEF Sound, Layout, IsLists
<1> QED
  BY <1>1 DEF Smaller

\* The loop of RemoveOldConns ends here.
Done(v, k, interval, now) ==
    LET last == v.l.tail[k]
    IN  v.l.prev[last] = Null \/ ~Old(v, last, interval, now)

LEMMA TurnLayout ==
    ASSUME ConnectionsAssumption, NEW v, Sound(v), NEW k \in Kinds, NEW n \in Nat \ {0}, Long(v, k, n),
           NEW interval, NEW now
    PROVE  LET u == Turn(v, k, interval, now)
           IN  /\ Sound(u) /\ Smaller(u, v)
               /\ IF Done(v, k, interval, now) THEN u = v ELSE n > 1 /\ Long(u, k, n - 1)
<1> DEFINE u == Turn(v, k, interval, now)
<1>1. ~Broken(v.l, v.l.tail[k])
  <2>1. ListOf(v.l, k, v.pr, Of(v.pr, v.t, k), n, Null) /\ n # 0
    BY DEF Long, ListKept
  <2> QED
    BY <2>1, EndsAreSound
<1>2. CASE Done(v, k, interval, now)
  <2>1. u = v
    BY <1>1, <1>2 DEF Turn, Done
  <2> QED
    BY <1>2, <2>1, SmallerSelf
<1>3. CASE ~Done(v, k, interval, now)
  <2>1. u = RemoveLast(v, k) /\ v.l.prev[v.l.tail[k]] # Null
    BY <1>1, <1>3 DEF Turn, Done
  <2>2. n > 1
    <3>1. ListOf(v.l, k, v.pr, Of(v.pr, v.t, k), n, Null)
      BY DEF Long, ListKept
    <3> QED
      BY <2>1, <3>1, ListEnds
  <2> DEFINE last == v.l.tail[k]
             U == v.t \ {last}
  <2>3. /\ Dropped(u, v, k, last) /\ last \in v.t
        /\ Layout(u, U, Null, "none") /\ ListKept(u, U, Null, "none", k, n - 1)
    <3>1. Layout(v, v.t, Null, "none") /\ ListKept(v, v.t, Null, "none", k, n)
      BY DEF Sound, Long
    <3> DEFINE x == RemoveLast(v, k)
    <3>2. /\ Dropped(x, v, k, last) /\ last \in v.t
          /\ Layout(x, U, Null, "none") /\ ListKept(x, U, Null, "none", k, n - 1)
      BY <2>2, <3>1, RemoveLastLayout
    <3> QED
      BY <2>1, <3>2
  <2> HIDE DEF u, last
  <2>4. u.t = U
    BY <2>3 DEF Dropped
  <2>5. Sound(u) /\ Long(u, k, n - 1)
    BY <2>3, <2>4 DEF Sound, Long
  <2>6. Smaller(u, v)
    <3>1. \A j \in Kinds : v.l.count[j] \in Int
      BY DEF Sound, Layout, IsLists
    <3>2. \A j \in Kinds : u.l.count[j] <= v.l.count[j]
      BY <2>3, <3>1 DEF Dropped
    <3> QED
      BY <2>3, <2>4, <3>2 DEF Smaller, Dropped
  <2> QED
    BY <1>3, <2>2, <2>5, <2>6 DEF u
<1> QED
  BY <1>2, <1>3

\* After i turns the list is as it should be, or i shorter.
AfterTurns(v, w, k, interval, now, i) ==
    /\ Sound(v) /\ Smaller(v, w)
    /\ \E n \in Nat \ {0} : /\ Long(v, k, n)
                            /\ Done(v, k, interval, now) \/ n + i <= MaxPairs

LEMMA DropTailLayout ==
    ASSUME ConnectionsAssumption, NEW w, Sound(w), Len(w.pr) <= MaxPairs, NEW k \in Kinds,
           w.l.tail[k] # Null, NEW interval, NEW now
    PROVE  LET v == DropTail(w, k, interval, now)
           IN  /\ Sound(v) /\ Smaller(v, w) /\ Done(v, k, interval, now)
               /\ \E n \in Nat \ {0} : Long(v, k, n)
<1>1. PICK g : /\ Turns(g, w, k, interval, now, MaxPairs)
               /\ DropTail(w, k, interval, now) = g[MaxPairs]
  BY DropTailTurns
<1> DEFINE T == {i \in Nat : i <= MaxPairs /\ ~AfterTurns(g[i], w, k, interval, now, i)}
<1>2. AfterTurns(w, w, k, interval, now, 0)
  <2>1. PICK n : Long(w, k, n)
    BY DEF Sound, Layout, Long
  <2> DEFINE S == Of(w.pr, w.t, k)
  <2>2. ListOf(w.l, k, w.pr, S, n, Null)
    BY <2>1 DEF Long, ListKept
  <2>3. S \in SUBSET (1..MaxPairs) /\ MaxPairs \in Nat
    <3>1. w.t \in SUBSET (1..Len(w.pr)) /\ Len(w.pr) \in Nat
      BY DEF Sound, Layout, TableKept, IsWorld
    <3> QED
      BY <3>1 DEF Of, ConnectionsAssumption
  <2> HIDE DEF S
  <2>4. n <= MaxPairs
    BY <2>2, <2>3, ListIsShort
  <2>5. n \in Nat \ {0}
    BY <2>2, ListEnds
  <2>6. n + 0 <= MaxPairs
    BY <2>4, <2>5
  <2> QED
    BY <2>1, <2>5, <2>6, SmallerSelf DEF AfterTurns
<1>3. T = {}
  <2> SUFFICES ASSUME T # {}
               PROVE  FALSE
    OBVIOUS
  <2>1. T \in SUBSET Nat
    OBVIOUS
  <2>2. PICK i \in T : \A j \in T : i <= j
    <3> HIDE DEF T
    <3> QED
      BY <2>1, Least
  <2>3. i \in Nat /\ i <= MaxPairs /\ ~AfterTurns(g[i], w, k, interval, now, i)
    OBVIOUS
  <2>4. i # 0
    BY <1>1, <1>2, <2>3 DEF Turns
  <2>5. i - 1 \in Nat /\ i - 1 <= MaxPairs /\ ~(i <= i - 1) /\ i \in 1..MaxPairs
    BY <2>3, <2>4 DEF ConnectionsAssumption
  <2> DEFINE v == g[i - 1]
             u == g[i]
  <2>6. AfterTurns(v, w, k, interval, now, i - 1)
    BY <2>2, <2>5
  <2>7. u = Turn(v, k, interval, now)
    BY <1>1, <2>5 DEF Turns
  <2> HIDE DEF v, u, T
  <2>8. PICK n \in Nat \ {0} :
          Long(v, k, n) /\ (Done(v, k, interval, now) \/ n + (i - 1) <= MaxPairs)
    BY <2>6 DEF AfterTurns
  <2>9. Sound(v) /\ Smaller(v, w)
    BY <2>6 DEF AfterTurns
  <2>10. /\ Sound(u) /\ Smaller(u, v)
         /\ IF Done(v, k, interval, now) THEN u = v ELSE n > 1 /\ Long(u, k, n - 1)
    BY <2>7, <2>8, <2>9, TurnLayout
  <2>11. Smaller(u, w)
    BY <2>9, <2>10, SmallerTwice
  <2>12. CASE Done(v, k, interval, now)
    <3>1. AfterTurns(u, w, k, interval, now, i)
      BY <2>8, <2>10, <2>11, <2>12 DEF AfterTurns
    <3> QED
      BY <2>3, <3>1 DEF u
  <2>13. CASE ~Done(v, k, interval, now)
    <3>1. n - 1 \in Nat \ {0} /\ n - 1 + i <= MaxPairs /\ Long(u, k, n - 1)
      <4>1. n > 1 /\ Long(u, k, n - 1) /\ n + (i - 1) <= MaxPairs /\ MaxPairs \in Nat
        BY <2>8, <2>10, <2>13 DEF ConnectionsAssumption
      <4> QED
        BY <2>3, <4>1
    <3>2. AfterTurns(u, w, k, interval, now, i)
      BY <2>10, <2>11, <3>1 DEF AfterTurns
    <3> QED
      BY <2>3, <3>2 DEF u
  <2> QED
    BY <2>12, <2>13
<1> DEFINE v == g[MaxPairs]
<1>4. AfterTurns(v, w, k, interval, now, MaxPairs)
  <2>1. MaxPairs \in Nat /\ MaxPairs <= MaxPairs
    BY DEF ConnectionsAssumption
  <2> QED
    BY <1>3, <2>1
<1> HIDE DEF v, T
<1>5. PICK n \in Nat \ {0} :
        Long(v, k, n) /\ (Done(v, k, interval, now) \/ n + MaxPairs <= MaxPairs)
  BY <1>4 DEF AfterTurns
<1>6. ~(n + MaxPairs <= MaxPairs)
  BY DEF ConnectionsAssumption
<1>7. /\ Sound(v) /\ Smaller(v, w) /\ Done(v, k, interval, now)
      /\ \E m \in Nat \ {0} : Long(v, k, m)
  BY <1>4, <1>5, <1>6 DEF AfterTurns
<1>8. DropTail(w, k, interval, now) = v
  BY <1>1 DEF v
<1> QED
  BY <1>7, <1>8

LEMMA RemoveOldLayout ==
    ASSUME ConnectionsAssumption, NEW w, Sound(w), Len(w.pr) <= MaxPairs, NEW k \in Kinds,
           NEW interval \in Nat, NEW now \in Nat
    PROVE  LET v == RemoveOldConns(w, k, interval, now)
           IN  Sound(v) /\ Smaller(v, w)
<1> DEFINE d == DropTail(w, k, interval, now)
           v == RemoveOldConns(w, k, interval, now)
<1>1. CASE w.l.tail[k] = Null
  <2>1. v = w
    BY <1>1 DEF RemoveOldConns
  <2> QED
    BY <2>1, SmallerSelf
<1>2. CASE w.l.tail[k] # Null
  <2>1. v = DropHead(d, k, interval, now)
    BY <1>2 DEF RemoveOldConns
  <2>2. /\ Sound(d) /\ Smaller(d, w) /\ Done(d, k, interval, now)
        /\ \E n \in Nat \ {0} : Long(d, k, n)
    BY <1>2, DropTailLayout
  <2> HIDE DEF d
  <2>3. PICK n \in Nat \ {0} : Long(d, k, n)
    BY <2>2
  <2>4. ~Broken(d.l, d.l.head[k])
    <3>1. ListOf(d.l, k, d.pr, Of(d.pr, d.t, k), n, Null) /\ n # 0
      BY <2>3 DEF Long, ListKept
    <3> QED
      BY <3>1, EndsAreSound
  <2>5. CASE ~Old(d, d.l.head[k], interval, now)
    <3>1. v = d
      BY <2>1, <2>5, <2>4 DEF DropHead
    <3> QED
      BY <2>2, <3>1
  <2>6. CASE Old(d, d.l.head[k], interval, now)
    <3> DEFINE S == Of(d.pr, d.t, k)
    <3>1. ListOf(d.l, k, d.pr, S, n, Null) /\ S \in SUBSET d.t
      BY <2>3 DEF Long, ListKept, Of
    <3>2. Null \notin S
      BY <3>1, ListPlaces DEF Places, ConnectionsAssumption, Null
    <3> HIDE DEF S
    <3>3. n = 1
      <4> SUFFICES ASSUME n # 1
                   PROVE  FALSE
        OBVIOUS
      <4>1. /\ d.l.tail[k] \in S /\ d.l.head[k] \in S /\ d.l.prev[d.l.tail[k]] # Null
            /\ d.pr[d.l.tail[k]].last_time <= d.pr[d.l.head[k]].last_time
        BY <3>1, <3>2, ListEnds
      <4>2. ~Old(d, d.l.tail[k], interval, now)
        BY <2>2, <4>1 DEF Done
      <4>3. \A q \in S : d.pr[q].last_time \in Nat
        <5>1. \A q \in d.t : d.pr[q] \in PairType
          BY <2>2 DEF Sound, Layout, TableKept, IsWorld
        <5> QED
          BY <3>1, <5>1 DEF PairType
      <4> DEFINE a == d.pr[d.l.tail[k]].last_time
                 b == d.pr[d.l.head[k]].last_time
      <4>4. a \in Nat /\ b \in Nat /\ a <= b /\ now - b >= interval /\ ~(now - a >= interval)
        BY <2>6, <4>1, <4>2, <4>3 DEF Old
      <4> HIDE DEF a, b
      <4> QED
        BY <4>4
    <3> DEFINE last == d.l.tail[k]
               u == RemoveConn([d EXCEPT !.l.head[k] = Null, !.l.tail[k] = Null,
                                         !.l.count[k] = @ - 1], last)
               U == d.t \ {last}
    <3>4. v = u
      BY <2>1, <2>6, <2>4 DEF DropHead
    <3>5. /\ u.pr = d.pr /\ u.t = U /\ last \in d.t /\ Layout(u, U, Null, "none")
          /\ \A j \in Kinds : u.l.count[j] <= d.l.count[j]
      <4>1. Layout(d, d.t, Null, "none") /\ ListKept(d, d.t, Null, "none", k, 1)
        BY <2>2, <2>3, <3>3 DEF Sound, Long
      <4> QED
        BY <4>1, DropHeadLayout
    <3> HIDE DEF u
    <3>6. Sound(u) /\ Smaller(u, d)
      BY <3>5 DEF Sound, Smaller
    <3>7. Smaller(u, w)
      BY <2>2, <3>6, SmallerTwice
    <3> QED
      BY <3>4, <3>6, <3>7
  <2> QED
    BY <2>5, <2>6
<1> QED
  BY <1>1, <1>2

\* The records change, but not where a list would notice, except for g.
LEMMA RecordsLayout ==
    ASSUME NEW w, NEW T, NEW f, NEW x, Layout(w, T, f, x), NEW v, IsWorld(v), v.l = w.l, v.t = w.t,
           Len(w.pr) <= Len(v.pr), \A q \in T \cup w.t : v.pr[q].ends = w.pr[q].ends,
           \A q \in T : v.pr[q].inactive = w.pr[q].inactive,
           NEW g, \A q \in T : q # g => q # f /\ v.pr[q].last_time = w.pr[q].last_time
    PROVE  Layout(v, T, g, x)
<1>1. TableKept(v, T)
  <2>1. \A q \in 1..Len(w.pr) : q \in 1..Len(v.pr)
    BY DEF Layout, IsWorld
  <2> QED
    BY <2>1 DEF Layout, TableKept
<1>2. ASSUME NEW k \in Kinds
      PROVE  \E n : ListKept(v, T, g, x, k, n)
  <2>1. PICK n : ListKept(w, T, f, x, k, n)
    BY DEF Layout
  <2> DEFINE S == Of(w.pr, T, k)
  <2>2. ListOf(w.l, k, w.pr, S, n, f) /\ Counts(w.l, k, n, x)
    BY <2>1 DEF ListKept
  <2>3. S \in SUBSET T /\ Of(v.pr, T, k) = S
    BY DEF Of
  <2> HIDE DEF S
  <2>4. \A q \in S : q \notin w.l.gone
    BY <2>2, ListPlaces
  <2>5. ListOf(v.l, k, v.pr, S, n, g)
    BY <2>2, <2>3, <2>4, ListFrame
  <2> QED
    BY <2>2, <2>3, <2>5 DEF ListKept
<1> QED
  BY <1>1, <1>2 DEF Layout

\* v.l is the list after a push, with the count that goes with it.
Pushed(v, w, k, p, x, y) ==
    /\ IsWorld(v) /\ v.pr = w.pr /\ v.t = w.t
    /\ LET m == Push(w.l, k, p)
       IN  IsLists(m) /\ m.count = w.l.count =>
             /\ IsLists(v.l) /\ v.l.head = m.head /\ v.l.tail = m.tail /\ v.l.next = m.next
             /\ v.l.prev = m.prev /\ v.l.gone = m.gone
             /\ \A j \in Kinds : \A n \in Nat :
                   Counts(w.l, j, n, x) => Counts(v.l, j, IF j = k THEN n + 1 ELSE n, y)

\* What PushList asks and gives, under one name.
MayPush(l, k, pr, S, n, f, p, g) ==
    /\ IsLists(l) /\ k \in Kinds /\ ListOf(l, k, pr, S, n, f)
    /\ p \in Places /\ p \notin l.gone /\ p \notin S /\ Newest(pr, S, p, f, g)

IsPushed(m, l, k, pr, S, n, p, g) ==
    /\ ListOf(m, k, pr, S \cup {p}, n + 1, g) /\ OnlyList(m, l, k, S \cup {p})
    /\ m.head[k] = p

LEMMA PushIsSound ==
    ASSUME ConnectionsAssumption, NEW l, NEW k, NEW pr, NEW S, NEW n, NEW f, NEW p, NEW g,
           MayPush(l, k, pr, S, n, f, p, g)
    PROVE  IsPushed(Push(l, k, p), l, k, pr, S, n, p, g)
BY PushList DEF MayPush, IsPushed

\* What the lists must be for p to become the head of list k, and v with it.
MayAdd(w, T, f, x, p, k, g, v, y) ==
    /\ Layout(w, T, f, x) /\ Len(w.pr) \in 1..(MaxPairs + 1) /\ p \in 1..Len(w.pr)
    /\ p \notin T /\ p \notin w.l.gone /\ k \in Kinds /\ w.pr[p].inactive = (k = "closed")
    /\ \A q \in T \cup w.t : w.pr[q].ends = w.pr[p].ends => q = p
    /\ Newest(w.pr, T, p, f, g) /\ Pushed(v, w, k, p, x, y)

LEMMA AddLayout ==
    ASSUME ConnectionsAssumption, NEW w, NEW T, NEW f, NEW x, NEW p, NEW k, NEW g, NEW v, NEW y,
           MayAdd(w, T, f, x, p, k, g, v, y)
    PROVE  /\ Layout(v, T \cup {p}, g, y) /\ v.l.head[k] = p /\ v.l.gone = w.l.gone
           /\ IsLists(Push(w.l, k, p)) /\ Push(w.l, k, p).count = w.l.count
<1>1. /\ Layout(w, T, f, x) /\ Len(w.pr) \in 1..(MaxPairs + 1) /\ p \in 1..Len(w.pr)
      /\ p \notin T /\ p \notin w.l.gone /\ k \in Kinds /\ w.pr[p].inactive = (k = "closed")
      /\ \A q \in T \cup w.t : w.pr[q].ends = w.pr[p].ends => q = p
      /\ Newest(w.pr, T, p, f, g) /\ Pushed(v, w, k, p, x, y)
  BY DEF MayAdd
<1> DEFINE m == Push(w.l, k, p)
           U == T \cup {p}
           S == Of(w.pr, T, k)
<1>2. IsWorld(w) /\ IsLists(w.l) /\ TableKept(w, T) /\ p \in Places
  BY <1>1 DEF Layout, Places, ConnectionsAssumption
<1>3. PICK n : ListKept(w, T, f, x, k, n)
  BY <1>1 DEF Layout
<1>4. ListOf(w.l, k, w.pr, S, n, f) /\ Counts(w.l, k, n, x)
  BY <1>3 DEF ListKept
<1>5. S \in SUBSET T /\ Of(w.pr, U, k) = S \cup {p}
  BY <1>1 DEF Of
<1>6. \A j \in Kinds : j # k => Of(w.pr, U, j) = Of(w.pr, T, j)
                             /\ \A q \in Of(w.pr, T, j) : q \in T /\ q \notin S
  BY <1>1 DEF Of, Kinds
<1> HIDE DEF S, U
<1>7. /\ ListOf(m, k, w.pr, S \cup {p}, n + 1, g) /\ OnlyList(m, w.l, k, S \cup {p})
      /\ m.head[k] = p
  <2>1. p \notin S /\ Newest(w.pr, S, p, f, g)
    BY <1>1, <1>5 DEF Newest
  <2>2. MayPush(w.l, k, w.pr, S, n, f, p, g)
    BY <1>1, <1>2, <1>4, <2>1 DEF MayPush
  <2>3. IsPushed(m, w.l, k, w.pr, S, n, p, g)
    BY <2>2, PushIsSound DEF m
  <2> QED
    BY <2>3 DEF IsPushed
<1>8. IsLists(m) /\ m.count = w.l.count
  BY <1>7 DEF OnlyList
<1>9. \A j \in Kinds : \A i \in Nat :
        Counts(w.l, j, i, x) => Counts(v.l, j, IF j = k THEN i + 1 ELSE i, y)
  BY <1>1, <1>7 DEF Pushed, OnlyList
<1> HIDE DEF m
<1>10. /\ v.l.head = m.head /\ v.l.tail = m.tail /\ v.l.next = m.next /\ v.l.prev = m.prev
      /\ v.l.gone = w.l.gone /\ v.pr = w.pr /\ v.t = w.t /\ IsWorld(v) /\ IsLists(v.l)
  BY <1>1, <1>7 DEF Pushed, OnlyList, m
<1>11. ASSUME NEW j \in Kinds
      PROVE  \E i : ListKept(v, U, g, y, j, i)
  <2>1. CASE j = k
    <3>1. \A q \in S \cup {p} : q \notin v.l.gone
      BY <1>1, <1>4, <1>10, ListPlaces
    <3>2. \A q \in S \cup {p} : q # g => q # g /\ v.pr[q].last_time = w.pr[q].last_time
      BY <1>10
    <3>3. ListOf(v.l, k, v.pr, S \cup {p}, n + 1, g)
      <4> DEFINE R == S \cup {p}
      <4>1. ListOf(m, k, w.pr, R, n + 1, g) /\ \A q \in R : q \notin v.l.gone
        BY <1>7, <3>1
      <4> HIDE DEF R
      <4>2. ListOf(v.l, k, v.pr, R, n + 1, g)
        BY <1>10, <4>1, ListFrame
      <4> QED
        BY <4>2 DEF R
    <3>4. n \in Nat
      BY <1>4, ListPlaces
    <3>5. Counts(v.l, k, n + 1, y)
      BY <1>1, <1>4, <1>9, <3>4
    <3> QED
      BY <1>5, <1>10, <2>1, <3>3, <3>5 DEF ListKept
  <2>2. CASE j # k
    <3>1. PICK i : ListKept(w, T, f, x, j, i)
      BY <1>1 DEF Layout
    <3> DEFINE R == Of(w.pr, T, j)
    <3>2. ListOf(w.l, j, w.pr, R, i, f) /\ Counts(w.l, j, i, x)
      BY <3>1 DEF ListKept
    <3>3. R = Of(v.pr, U, j) /\ \A q \in R : q \in T /\ q \notin S /\ q # p
      BY <1>1, <1>6, <1>10, <2>2
    <3> HIDE DEF R
    <3>4. i \in Nat /\ \A q \in R : q \in Places /\ q \notin w.l.gone
      BY <3>2, ListPlaces
    <3>5. /\ m.head[j] = w.l.head[j] /\ m.tail[j] = w.l.tail[j]
          /\ \A q \in Places : q \notin S \cup {p} => m.next[q] = w.l.next[q] /\ m.prev[q] = w.l.prev[q]
      BY <1>7, <2>2 DEF OnlyList
    <3>6. \A q \in R : q \notin v.l.gone /\ v.l.next[q] = w.l.next[q] /\ v.l.prev[q] = w.l.prev[q]
      BY <1>10, <3>3, <3>4, <3>5
    <3>7. v.l.head[j] = w.l.head[j] /\ v.l.tail[j] = w.l.tail[j]
      BY <1>10, <3>5
    <3>8. \A q \in R : q # g => q # f /\ v.pr[q].last_time = w.pr[q].last_time
      BY <1>1, <1>10, <3>3 DEF Newest
    <3>9. ListOf(v.l, j, v.pr, R, i, g)
      BY <3>2, <3>6, <3>7, <3>8, ListFrame
    <3>10. Counts(v.l, j, i, y)
      BY <1>9, <2>2, <3>2, <3>4
    <3> QED
      BY <3>3, <3>9, <3>10 DEF ListKept
  <2> QED
    BY <2>1, <2>2
<1>12. TableKept(v, U)
  BY <1>1, <1>2, <1>10 DEF TableKept, U
<1>13. Layout(v, U, g, y)
  BY <1>10, <1>11, <1>12 DEF Layout
<1> QED
  BY <1>7, <1>10, <1>13, <1>8 DEF U, m

\* A list that is too long loses its last.
RoomMade(v, w, T, k, Q) ==
    /\ v.pr = w.pr /\ v.s = w.s /\ v.found = w.found /\ v.t = w.t \ Q /\ Q \in SUBSET T
    /\ w.l.head[k] \notin Q /\ v.l.head[k] = w.l.head[k] /\ v.l.gone = w.l.gone \cup Q
    /\ \A j \in Kinds : j # k => v.l.count[j] = w.l.count[j]
    /\ Limited /\ w.l.count[k] <= MaxConn + 1 => v.l.count[k] <= MaxConn

LEMMA MakeRoomLayout ==
    ASSUME ConnectionsAssumption, NEW w, NEW T, NEW f, NEW x, Layout(w, T, f, x), NEW k \in Kinds
    PROVE  \E Q : /\ RoomMade(MakeRoom(w, k), w, T, k, Q)
                  /\ Layout(MakeRoom(w, k), T \ Q, f, x)
<1>1. MaxConn \in Nat /\ MaxConn > 1 /\ w.l.count[k] \in Int
  BY DEF ConnectionsAssumption, Layout, IsLists
<1>2. CASE ~(Limited /\ w.l.count[k] > MaxConn)
  <2>1. MakeRoom(w, k) = w
    BY <1>2 DEF MakeRoom
  <2>2. Limited => w.l.count[k] <= MaxConn
    BY <1>1, <1>2
  <2>3. RoomMade(w, w, T, k, {}) /\ T \ {} = T
    BY <2>2 DEF RoomMade
  <2> QED
    BY <2>1, <2>3
<1>3. CASE Limited /\ w.l.count[k] > MaxConn
  <2> DEFINE v == RemoveLast(w, k)
             last == w.l.tail[k]
  <2>1. MakeRoom(w, k) = v
    BY <1>3 DEF MakeRoom
  <2>2. PICK n : ListKept(w, T, f, x, k, n)
    BY DEF Layout
  <2>3. n \in Nat
    BY <2>2, ListPlaces DEF ListKept
  <2>4. n > 1
    BY <1>1, <1>3, <2>2, <2>3 DEF ListKept, Counts
  <2>5. /\ Dropped(v, w, k, last) /\ last \in T /\ last # w.l.head[k]
        /\ Layout(v, T \ {last}, f, x)
    BY <2>2, <2>4, RemoveLastLayout
  <2> HIDE DEF v, last
  <2>6. RoomMade(v, w, T, k, {last})
    BY <1>1, <2>5 DEF RoomMade, Dropped
  <2> QED
    BY <2>1, <2>5, <2>6
<1> QED
  BY <1>2, <1>3

-----------------------------------------------------------------------------
(* Every packet leaves the lists sound.                                    *)

Room(w) == Limited => \A k \in Kinds : w.l.count[k] <= MaxConn

\* What the invariant says of the lists, the table and the records.
Settled(w) ==
    /\ Sound(w) /\ Room(w) /\ Len(w.pr) <= MaxPairs
    /\ \A q \in w.t : w.pr[q].inactive => HasEnded(w.pr[q].block)

\* The same with p counted but not yet moved: no connection is later.
Ready(w, p) ==
    /\ Layout(w, w.t, p, "none") /\ Room(w) /\ Len(w.pr) <= MaxPairs
    /\ \A q \in w.t : w.pr[q].inactive => HasEnded(w.pr[q].block)
    /\ p \in w.t /\ \A q \in w.t : w.pr[q].last_time <= w.pr[p].last_time

\* left is w with p out of the live list, on its way to the closed one.
IsLeft(left, w, p, out) ==
    /\ IsWorld(left) /\ left.t = w.t /\ Len(left.pr) = Len(w.pr)
    /\ \A q \in 1..Len(w.pr) : SameRecord(left.pr[q], w.pr[q])
                            /\ left.pr[q].inactive = (w.pr[q].inactive \/ q = p)
    /\ IsLists(left.l) /\ left.l.head = out.head /\ left.l.tail = out.tail
    /\ left.l.next = out.next /\ left.l.prev = out.prev /\ left.l.gone = out.gone
    /\ left.l.count["live"] = out.count["live"] - 1
    /\ left.l.count["closed"] = out.count["closed"] + 1

LEMMA LeftLayout ==
    ASSUME ConnectionsAssumption, NEW w, NEW p, Ready(w, p), ~w.pr[p].inactive,
           NEW left, IsLeft(left, w, p, UpdateConnList(w.l, "live", p, FALSE))
    PROVE  Layout(left, w.t \ {p}, p, "closed") /\ left.l.gone = w.l.gone
           /\ left.l.count["live"] = w.l.count["live"] - 1
           /\ left.l.count["closed"] = w.l.count["closed"] + 1
<1> DEFINE out == UpdateConnList(w.l, "live", p, FALSE)
           U == w.t \ {p}
           S == Of(w.pr, w.t, "live")
           R == Of(w.pr, w.t, "closed")
<1>1. /\ IsWorld(w) /\ IsLists(w.l) /\ TableKept(w, w.t) /\ p \in w.t
      /\ w.t \in SUBSET (1..Len(w.pr))
  BY DEF Ready, Layout, TableKept
<1>2. PICK n : ListKept(w, w.t, p, "none", "live", n)
  BY DEF Ready, Layout, Kinds
<1>3. PICK m : ListKept(w, w.t, p, "none", "closed", m)
  BY DEF Ready, Layout, Kinds
<1>4. /\ ListOf(w.l, "live", w.pr, S, n, p) /\ ListOf(w.l, "closed", w.pr, R, m, p)
      /\ Counts(w.l, "live", n, "none") /\ Counts(w.l, "closed", m, "none")
  BY <1>2, <1>3 DEF ListKept
<1>5. \A q \in w.t : /\ (q \in S) = ~w.pr[q].inactive
                     /\ (q \in R) = w.pr[q].inactive
                     /\ q # p => left.pr[q].inactive = w.pr[q].inactive
  <2> TAKE q \in w.t
  <2>1. w.pr[q].inactive \in BOOLEAN /\ q \in 1..Len(w.pr)
    <3>1. q \in 1..Len(w.pr)
      BY <1>1
    <3>2. w.pr[q] \in PairType
      BY <1>1, <3>1 DEF IsWorld
    <3> QED
      BY <3>1, <3>2 DEF PairType
  <2>2. left.pr[q].inactive = (w.pr[q].inactive \/ q = p)
    BY <2>1 DEF IsLeft
  <2>3. q \in S <=> w.pr[q].inactive = FALSE
    BY DEF Of
  <2>4. q \in R <=> w.pr[q].inactive = TRUE
    BY DEF Of
  <2> HIDE DEF S, R
  <2> QED
    BY <2>1, <2>2, <2>3, <2>4
<1>6. S \in SUBSET w.t /\ R \in SUBSET w.t
  BY DEF Of
<1> HIDE DEF S, R
<1>7. p \in S /\ p \notin R /\ \A q \in R : q \notin S
  BY <1>1, <1>5, <1>6
<1>8. Of(left.pr, U, "live") = S \ {p} /\ Of(left.pr, U, "closed") = R
  <2>1. \A q : q \in Of(left.pr, U, "live") <=> q \in U /\ left.pr[q].inactive = FALSE
    BY DEF Of
  <2>2. \A q : q \in Of(left.pr, U, "closed") <=> q \in U /\ left.pr[q].inactive = TRUE
    BY DEF Of
  <2>3. \A q : q \in U <=> q \in w.t /\ q # p
    OBVIOUS
  <2> HIDE DEF S, R, U
  <2> QED
    BY <1>5, <1>6, <1>7, <2>1, <2>2, <2>3
<1> HIDE DEF S, R
<1>9. ListOf(out, "live", w.pr, S \ {p}, n - 1, p) /\ OnlyList(out, w.l, "live", S)
  BY <1>1, <1>4, <1>7, LeaveList DEF Kinds
<1> HIDE DEF out
<1>10. IsLeft(left, w, p, out)
  BY DEF out
<1>11. /\ left.l.count["live"] = w.l.count["live"] - 1 /\ w.l.count["live"] \in Int
       /\ left.l.count["closed"] = w.l.count["closed"] + 1 /\ w.l.count["closed"] \in Int
  <2>1. out.count = w.l.count
    BY <1>9 DEF OnlyList
  <2>2. w.l.count["live"] \in Int /\ w.l.count["closed"] \in Int
    BY <1>1 DEF IsLists, Kinds
  <2> QED
    BY <1>10, <2>1, <2>2 DEF IsLeft
<1>12. TableKept(left, U)
  <2>1. \A q \in 1..Len(w.pr) : left.pr[q].ends = w.pr[q].ends
    BY <1>10 DEF IsLeft, SameRecord
  <2>2. left.l.gone = w.l.gone /\ left.t = w.t /\ Len(left.pr) = Len(w.pr) /\ U \in SUBSET w.t
    BY <1>9, <1>10 DEF IsLeft, OnlyList
  <2> HIDE DEF U
  <2> QED
    BY <1>1, <2>1, <2>2 DEF TableKept
<1>13. \A q \in w.t : left.pr[q].last_time = w.pr[q].last_time
  BY <1>1, <1>10 DEF IsLeft, SameRecord
<1>14. ListKept(left, U, p, "closed", "live", n - 1)
  <2> DEFINE Q == S \ {p}
  <2>1. \A q \in Q : q \in w.t /\ q # p /\ q \notin w.l.gone
    BY <1>4, <1>6, ListPlaces
  <2> HIDE DEF Q
  <2>2. ListOf(out, "live", w.pr, Q, n - 1, p)
    BY <1>9 DEF Q
  <2>3. \A q \in Q : q # p => q # p /\ left.pr[q].last_time = w.pr[q].last_time
    BY <1>13, <2>1
  <2>4. /\ left.l.head["live"] = out.head["live"] /\ left.l.tail["live"] = out.tail["live"]
        /\ \A q \in Q : q \notin left.l.gone /\ left.l.next[q] = out.next[q]
                                             /\ left.l.prev[q] = out.prev[q]
    BY <1>9, <1>10, <2>1 DEF IsLeft, OnlyList
  <2>5. ListOf(left.l, "live", left.pr, Q, n - 1, p)
    BY <2>2, <2>3, <2>4, ListFrame
  <2>6. Counts(left.l, "live", n - 1, "closed")
    <3>1. n \in Nat
      BY <1>4, ListPlaces
    <3>2. Limited => left.l.count["live"] = n - 1
      BY <1>4, <1>11, <3>1 DEF Counts
    <3> QED
      BY <3>1, <3>2 DEF Counts
  <2> QED
    BY <1>8, <2>5, <2>6 DEF ListKept, Q
<1>15. ListKept(left, U, p, "closed", "closed", m)
  <2>1. \A q \in R : q \in Places /\ q \notin w.l.gone
    BY <1>4, ListPlaces
  <2>2. \A q \in R : q # p => q # p /\ left.pr[q].last_time = w.pr[q].last_time
    BY <1>6, <1>7, <1>13
  <2>3. left.l.head["closed"] = w.l.head["closed"] /\ left.l.tail["closed"] = w.l.tail["closed"]
    BY <1>9, <1>10 DEF IsLeft, OnlyList, Kinds
  <2>4. \A q \in R : q \notin left.l.gone /\ left.l.next[q] = w.l.next[q]
                                          /\ left.l.prev[q] = w.l.prev[q]
    BY <1>7, <1>9, <1>10, <2>1, ZenonT(60) DEF IsLeft, OnlyList
  <2>5. ListOf(left.l, "closed", left.pr, R, m, p)
    BY <1>4, <2>2, <2>3, <2>4, ListFrame
  <2>6. Counts(left.l, "closed", m, "closed")
    <3>1. m \in Nat
      BY <1>4, ListPlaces
    <3>2. Limited => left.l.count["closed"] = m + 1
      BY <1>4, <1>11, <3>1 DEF Counts
    <3> QED
      BY <3>1, <3>2 DEF Counts
  <2> QED
    BY <1>8, <2>5, <2>6 DEF ListKept
<1>16. \A k \in Kinds : \E i : ListKept(left, U, p, "closed", k, i)
  BY <1>14, <1>15 DEF Kinds
<1>17. IsWorld(left) /\ IsLists(left.l)
  BY <1>10 DEF IsLeft
<1> HIDE DEF U
<1>18. Layout(left, U, p, "closed")
  BY <1>12, <1>16, <1>17 DEF Layout
<1>19. /\ left.l.gone = w.l.gone /\ left.l.count["live"] = w.l.count["live"] - 1
       /\ left.l.count["closed"] = w.l.count["closed"] + 1
  BY <1>9, <1>10, <1>11 DEF IsLeft, OnlyList
<1> QED
  BY <1>18, <1>19 DEF U

LEMMA CloseLayout ==
    ASSUME ConnectionsAssumption, NEW w, NEW p, Ready(w, p), ~w.pr[p].inactive,
           HasEnded(w.pr[p].block)
    PROVE  Settled(Close(w, p))
<1> DEFINE c == [w.pr[p] EXCEPT !.inactive = TRUE]
           pr == [w.pr EXCEPT ![p] = c]
           out == UpdateConnList(w.l, "live", p, FALSE)
           count == [live |-> out.count.live - 1, closed |-> out.count.closed + 1]
           lc == [out EXCEPT !.count = count]
           left == [w EXCEPT !.l = lc, !.pr = pr]
           room == MakeRoom(left, "closed")
           lp == Push(room.l, "closed", p)
           v == [room EXCEPT !.l = lp]
           U == w.t \ {p}
<1>1. /\ IsWorld(w) /\ IsLists(w.l) /\ TableKept(w, w.t) /\ p \in w.t
      /\ w.t \in SUBSET (1..Len(w.pr)) /\ p \in 1..Len(w.pr) /\ p \notin w.l.gone
  BY DEF Ready, Layout, TableKept
<1>2. Close(w, p) = v
  <2> HIDE DEF lc
  <2>1. [w EXCEPT !.l = lc, !.pr[p].inactive = TRUE] = left
    BY <1>1 DEF IsWorld
  <2> HIDE DEF left
  <2>2. Close(w, p) = [room EXCEPT !.l = Push(@, "closed", p)]
    BY <2>1 DEF Close, lc
  <2> HIDE DEF room
  <2> QED
    BY <2>2
<1>3. w.pr \in Seq(PairType) /\ w.pr[p] \in PairType
  BY <1>1 DEF IsWorld
<1>4. c \in PairType /\ SameRecord(c, w.pr[p]) /\ c.inactive = TRUE
  BY <1>3 DEF PairType, SameRecord
<1> HIDE DEF c
<1>5. /\ pr \in Seq(PairType) /\ Len(pr) = Len(w.pr) /\ pr[p] = c
      /\ \A q \in 1..Len(w.pr) : q # p => pr[q] = w.pr[q]
  BY <1>1, <1>3, <1>4, Replaced
<1> HIDE DEF pr
<1>6. IsLists(out)
  <2>1. PICK n : ListKept(w, w.t, p, "none", "live", n)
    BY DEF Ready, Layout, Kinds
  <2> DEFINE S == Of(w.pr, w.t, "live")
  <2>2. ListOf(w.l, "live", w.pr, S, n, p)
    BY <2>1 DEF ListKept
  <2>3. p \in S
    BY <1>1, <1>3 DEF Of, PairType
  <2> HIDE DEF S
  <2>4. OnlyList(out, w.l, "live", S)
    BY <1>1, <2>2, <2>3, LeaveList DEF Kinds
  <2> QED
    BY <2>4 DEF OnlyList
<1> HIDE DEF out
<1>7. /\ IsLists(lc) /\ lc.head = out.head /\ lc.tail = out.tail
      /\ lc.next = out.next /\ lc.prev = out.prev /\ lc.gone = out.gone
      /\ lc.count["live"] = out.count["live"] - 1
      /\ lc.count["closed"] = out.count["closed"] + 1
  <2>1. count \in [Kinds -> Int] /\ count["live"] = out.count["live"] - 1
        /\ count["closed"] = out.count["closed"] + 1
    BY <1>6 DEF IsLists, Kinds
  <2> HIDE DEF count
  <2> QED
    BY <1>6, <2>1 DEF IsLists
<1> HIDE DEF lc
<1>8. /\ left.l = lc /\ left.pr = pr /\ left.t = w.t /\ left.s = w.s
      /\ left.found = w.found /\ DOMAIN left = DOMAIN w
  BY <1>1 DEF IsWorld
<1> HIDE DEF left
<1>9. IsLeft(left, w, p, out)
  <2>1. IsWorld(left)
    BY <1>1, <1>5, <1>8 DEF IsWorld
  <2>2. ASSUME NEW q \in 1..Len(w.pr)
        PROVE  SameRecord(left.pr[q], w.pr[q])
               /\ left.pr[q].inactive = (w.pr[q].inactive \/ q = p)
    <3>1. w.pr[q].inactive \in BOOLEAN
      <4>1. w.pr[q] \in PairType
        BY <1>3
      <4> QED
        BY <4>1 DEF PairType
    <3>2. CASE q = p
      BY <1>4, <1>5, <1>8, <3>2
    <3>3. CASE q # p
      BY <1>5, <1>8, <3>1, <3>3 DEF SameRecord
    <3> QED
      BY <3>2, <3>3
  <2> QED
    BY <1>5, <1>7, <1>8, <2>1, <2>2 DEF IsLeft
<1>10. /\ Layout(left, U, p, "closed") /\ left.l.gone = w.l.gone
       /\ left.l.count["live"] = w.l.count["live"] - 1
       /\ left.l.count["closed"] = w.l.count["closed"] + 1
  BY <1>9, LeftLayout DEF out
<1>11. PICK Q : RoomMade(room, left, U, "closed", Q) /\ Layout(room, U \ Q, p, "closed")
  BY <1>10, MakeRoomLayout DEF Kinds
<1>12. IsWorld(room)
  BY <1>11 DEF Layout
<1> HIDE DEF room
<1>13. /\ room.pr = pr /\ room.t = w.t \ Q /\ Q \in SUBSET U /\ room.l.gone = w.l.gone \cup Q
       /\ room.l.count["live"] = left.l.count["live"]
       /\ Limited /\ left.l.count["closed"] <= MaxConn + 1 => room.l.count["closed"] <= MaxConn
  BY <1>8, <1>10, <1>11 DEF RoomMade, Kinds
<1>14. v.l = lp /\ v.pr = room.pr /\ v.t = room.t /\ IsWorld(v)
  BY <1>12 DEF IsWorld
<1> HIDE DEF v
<1> DEFINE T == U \ Q
<1>15. /\ p \notin T /\ p \notin Q /\ (T \cup {p}) = v.t /\ T \in SUBSET w.t /\ room.t \in SUBSET w.t
  BY <1>1, <1>13, <1>14
<1>16. Layout(room, T, p, "closed")
  BY <1>11
<1> HIDE DEF T, U
<1>17. Layout(v, T \cup {p}, Null, "none") /\ lp.count = room.l.count
  <2>1. Len(room.pr) \in 1..(MaxPairs + 1) /\ p \in 1..Len(room.pr)
    BY <1>1, <1>3, <1>5, <1>13 DEF Ready, ConnectionsAssumption
  <2>2. p \notin room.l.gone
    BY <1>1, <1>13, <1>15
  <2>3. room.pr[p].inactive = ("closed" = "closed")
    BY <1>4, <1>5, <1>13
  <2>4. \A q \in w.t : room.pr[q].ends = w.pr[q].ends /\ room.pr[q].last_time = w.pr[q].last_time
    BY <1>1, <1>4, <1>5, <1>13 DEF SameRecord
  <2>5. \A q \in T \cup room.t : room.pr[q].ends = room.pr[p].ends => q = p
    BY <1>1, <1>15, <2>4 DEF TableKept
  <2>6. Newest(room.pr, T, p, p, Null)
    <3>1. ASSUME NEW q \in T
          PROVE  q # p /\ room.pr[q].last_time <= room.pr[p].last_time
      BY <1>1, <1>15, <2>4, <3>1 DEF Ready
    <3> QED
      BY <3>1 DEF Newest
  <2>7. Pushed(v, room, "closed", p, "closed", "none")
    <3>1. ASSUME lp.count = room.l.count, NEW j \in Kinds, NEW n \in Nat,
                 Counts(room.l, j, n, "closed")
          PROVE  Counts(v.l, j, IF j = "closed" THEN n + 1 ELSE n, "none")
      BY <1>14, <3>1 DEF Counts, Kinds
    <3> QED
      BY <1>14, <3>1 DEF Pushed
  <2> DEFINE k == "closed"
  <2>8. k \in Kinds
    BY DEF Kinds
  <2>9. /\ Layout(room, T, p, k) /\ room.pr[p].inactive = (k = "closed")
        /\ Pushed(v, room, k, p, k, "none")
    BY <1>16, <2>3, <2>7
  <2> HIDE DEF k
  <2>10. Layout(v, T \cup {p}, Null, "none") /\ Push(room.l, k, p).count = room.l.count
    <3>1. MayAdd(room, T, p, k, p, k, Null, v, "none")
      BY <1>15, <2>1, <2>2, <2>5, <2>6, <2>8, <2>9 DEF MayAdd
    <3> QED
      BY <3>1, AddLayout
  <2> QED
    BY <2>10 DEF k
<1>18. Sound(v)
  BY <1>15, <1>17 DEF Sound
<1>19. Room(v)
  <2>1. w.l.count["live"] \in Int /\ w.l.count["closed"] \in Int /\ MaxConn \in Nat
    BY <1>1 DEF IsLists, Kinds, ConnectionsAssumption
  <2>2. Limited => w.l.count["live"] <= MaxConn /\ w.l.count["closed"] <= MaxConn
    BY DEF Ready, Room, Kinds
  <2>3. v.l.count = room.l.count
    BY <1>14, <1>17
  <2>4. Limited => v.l.count["live"] <= MaxConn /\ v.l.count["closed"] <= MaxConn
    BY <1>10, <1>13, <2>1, <2>2, <2>3
  <2> QED
    BY <2>4 DEF Room, Kinds
<1>20. Len(v.pr) <= MaxPairs
  BY <1>5, <1>13, <1>14 DEF Ready
<1>21. ASSUME NEW q \in v.t, v.pr[q].inactive
       PROVE  HasEnded(v.pr[q].block)
  <2>1. q \in w.t /\ q \in 1..Len(w.pr)
    BY <1>1, <1>13, <1>14
  <2>2. CASE q = p
    BY <1>4, <1>5, <1>13, <1>14, <2>2 DEF SameRecord
  <2>3. CASE q # p
    BY <1>5, <1>13, <1>14, <1>21, <2>1, <2>3 DEF Ready
  <2> QED
    BY <2>2, <2>3
<1>22. Settled(v)
  BY <1>18, <1>19, <1>20, <1>21 DEF Settled
<1> QED
  BY <1>2, <1>22

\* What FrontList asks and gives, under one name.
MayFront(l, k, pr, S, n, f, p, g) ==
    /\ IsLists(l) /\ k \in Kinds /\ ListOf(l, k, pr, S, n, f)
    /\ p \in S /\ Newest(pr, S \ {p}, p, f, g)

IsFronted(m, l, k, pr, S, n, g) == ListOf(m, k, pr, S, n, g) /\ OnlyList(m, l, k, S)

LEMMA FrontIsSound ==
    ASSUME ConnectionsAssumption, NEW l, NEW k, NEW pr, NEW S, NEW n, NEW f, NEW p, NEW g,
           MayFront(l, k, pr, S, n, f, p, g)
    PROVE  IsFronted(UpdateConnList(l, k, p, TRUE), l, k, pr, S, n, g)
BY FrontList DEF MayFront, IsFronted

\* p stays in its list and becomes its head.
LEMMA FrontLayout ==
    ASSUME ConnectionsAssumption, NEW w, NEW p, Ready(w, p), NEW k \in Kinds,
           w.pr[p].inactive = (k = "closed"),
           NEW v, IsWorld(v), v.pr = w.pr, v.t = w.t, v.l = UpdateConnList(w.l, k, p, TRUE)
    PROVE  Settled(v)
<1> DEFINE S == Of(w.pr, w.t, k)
<1>1. IsWorld(w) /\ IsLists(w.l) /\ TableKept(w, w.t) /\ p \in w.t
  BY DEF Ready, Layout
<1>2. PICK n : ListKept(w, w.t, p, "none", k, n)
  BY DEF Ready, Layout
<1>3. ListOf(w.l, k, w.pr, S, n, p) /\ Counts(w.l, k, n, "none")
  BY <1>2 DEF ListKept
<1>4. p \in S /\ S \in SUBSET w.t
  BY <1>1 DEF Of
<1>5. \A j \in Kinds : j # k => \A q \in Of(w.pr, w.t, j) : q \in w.t /\ q \notin S /\ q # p
  BY DEF Of, Kinds
<1> HIDE DEF S
<1>6. ListOf(v.l, k, w.pr, S, n, Null) /\ OnlyList(v.l, w.l, k, S)
  <2>1. Newest(w.pr, S \ {p}, p, p, Null)
    BY <1>1, <1>4 DEF Ready, Newest
  <2>2. MayFront(w.l, k, w.pr, S, n, p, p, Null)
    BY <1>1, <1>3, <1>4, <2>1 DEF MayFront
  <2> QED
    BY <2>2, FrontIsSound DEF IsFronted
<1>7. ListKept(v, w.t, Null, "none", k, n)
  <2>1. Counts(v.l, k, n, "none")
    BY <1>3, <1>6 DEF Counts, OnlyList
  <2> QED
    BY <1>6, <2>1 DEF ListKept, S
<1>8. ASSUME NEW j \in Kinds, j # k
      PROVE  \E i : ListKept(v, w.t, Null, "none", j, i)
  <2>1. PICK i : ListKept(w, w.t, p, "none", j, i)
    BY DEF Ready, Layout
  <2> DEFINE R == Of(w.pr, w.t, j)
  <2>2. ListOf(w.l, j, w.pr, R, i, p) /\ Counts(w.l, j, i, "none")
    BY <2>1 DEF ListKept
  <2>3. \A q \in R : q \notin S /\ q # p /\ q \in w.t
    BY <1>5, <1>8
  <2> HIDE DEF R
  <2>4. \A q \in R : q \in Places /\ q \notin w.l.gone
    BY <2>2, ListPlaces
  <2>5. v.l.head[j] = w.l.head[j] /\ v.l.tail[j] = w.l.tail[j]
    BY <1>6, <1>8 DEF OnlyList
  <2>6. \A q \in R : q \notin v.l.gone /\ v.l.next[q] = w.l.next[q] /\ v.l.prev[q] = w.l.prev[q]
    BY <1>6, <2>3, <2>4 DEF OnlyList
  <2> DEFINE pr == v.pr
             m == v.l
             l == w.l
             g == Null
  <2>7. /\ \A q \in R : q # g => q # p /\ pr[q].last_time = w.pr[q].last_time
        /\ m.head[j] = l.head[j] /\ m.tail[j] = l.tail[j] /\ ListOf(l, j, w.pr, R, i, p)
        /\ \A q \in R : q \notin m.gone /\ m.next[q] = l.next[q] /\ m.prev[q] = l.prev[q]
    BY <2>2, <2>3, <2>5, <2>6
  <2> HIDE DEF pr, m, l, g
  <2>9. ListOf(m, j, pr, R, i, g)
    BY <2>7, ListFrame
  <2>10. ListOf(v.l, j, w.pr, R, i, Null)
    BY <2>9 DEF pr, m, g
  <2>8. Counts(v.l, j, i, "none")
    BY <1>6, <2>2 DEF Counts, OnlyList
  <2> QED
    BY <2>8, <2>10 DEF ListKept, R
<1>9. TableKept(v, v.t) /\ IsLists(v.l) /\ v.l.count = w.l.count
  BY <1>1, <1>6 DEF TableKept, OnlyList
<1>10. Sound(v)
  BY <1>7, <1>8, <1>9 DEF Sound, Layout
<1>11. Room(v)
  BY <1>9 DEF Ready, Room
<1> QED
  BY <1>10, <1>11 DEF Settled, Ready

LEMMA PlaceLayout ==
    ASSUME ConnectionsAssumption, NEW w, NEW p, Ready(w, p)
    PROVE  Settled(Place(w, p))
<1> DEFINE ended == HasEnded(w.pr[p].block)
<1>1. IsWorld(w) /\ p \in w.t /\ w.pr[p].inactive \in BOOLEAN
  <2>1. IsWorld(w) /\ p \in w.t /\ p \in 1..Len(w.pr)
    BY DEF Ready, Layout, TableKept
  <2>2. w.pr[p] \in PairType
    BY <2>1 DEF IsWorld
  <2> QED
    BY <2>1, <2>2 DEF PairType
<1>2. CASE ended /\ ~w.pr[p].inactive
  <2>1. Place(w, p) = Close(w, p)
    BY <1>2 DEF Place
  <2> QED
    BY <1>2, <2>1, CloseLayout
<1>3. CASE ~(ended /\ ~w.pr[p].inactive)
  <2> DEFINE k == IF ended THEN "closed" ELSE "live"
             l == UpdateConnList(w.l, k, p, TRUE)
             v == [w EXCEPT !.l = l]
  <2>1. Place(w, p) = v
    BY <1>1, <1>3 DEF Place, IsWorld
  <2>2. k \in Kinds /\ w.pr[p].inactive = (k = "closed")
    BY <1>1, <1>3 DEF Ready, Kinds
  <2> HIDE DEF k, l
  <2>3. IsWorld(v) /\ v.pr = w.pr /\ v.t = w.t /\ v.l = l
    BY <1>1 DEF IsWorld
  <2> HIDE DEF v
  <2>4. Settled(v)
    BY <2>2, <2>3, FrontLayout DEF l
  <2> QED
    BY <2>1, <2>4
<1> QED
  BY <1>2, <1>3

\* UpdateConnLists, with or without a look at what is old.
LEMMA UpdateLayout ==
    ASSUME ConnectionsAssumption, NEW w, NEW p, Ready(w, p), NEW now \in Nat, NEW last
    PROVE  Settled(UpdateConnLists(w, p, now, last))
<1> DEFINE placed == Place(w, p)
           live == RemoveOldConns(placed, "live", LiveInterval, now)
           closed == RemoveOldConns(live, "closed", ClosedInterval, now)
<1>1. Settled(placed)
  BY PlaceLayout
<1> HIDE DEF placed
<1>2. LiveInterval \in Nat /\ ClosedInterval \in Nat
  BY DEF ConnectionsAssumption
<1>3. Sound(live) /\ Smaller(live, placed)
  BY <1>1, <1>2, RemoveOldLayout DEF Settled, Kinds
<1> HIDE DEF live
<1>4. Sound(closed) /\ Smaller(closed, live)
  <2>1. Len(live.pr) <= MaxPairs
    BY <1>1, <1>3 DEF Settled, Smaller
  <2> QED
    BY <1>2, <1>3, <2>1, RemoveOldLayout DEF Kinds
<1> HIDE DEF closed
<1>5. Smaller(closed, placed)
  BY <1>1, <1>3, <1>4, SmallerTwice DEF Settled
<1>6. Settled(closed)
  <2>1. closed.pr = placed.pr /\ closed.t \in SUBSET placed.t
    BY <1>5 DEF Smaller
  <2>2. Room(closed)
    <3>1. ASSUME Limited, NEW k \in Kinds
          PROVE  closed.l.count[k] <= MaxConn
      <4>1. closed.l.count[k] <= placed.l.count[k] /\ placed.l.count[k] <= MaxConn
        BY <1>1, <1>5, <3>1 DEF Smaller, Settled, Room
      <4>2. closed.l.count[k] \in Int /\ placed.l.count[k] \in Int /\ MaxConn \in Int
        BY SMTT(20), <1>1, <1>4 DEF Settled, Sound, Layout, IsLists, ConnectionsAssumption
      <4> QED
        BY <4>1, <4>2
    <3> QED
      BY <3>1 DEF Room
  <2> QED
    BY <1>1, <1>4, <2>1, <2>2 DEF Settled
<1>7. UpdateConnLists(w, p, now, last) = IF now - last < UpdateInterval THEN placed ELSE closed
  BY DEF UpdateConnLists, placed, live, closed
<1> QED
  BY <1>1, <1>6, <1>7

\* A new connection of ends e is found: it is at the head, and not old.
NewFound(v, w, e) ==
    LET n == Len(w.pr) + 1
    IN  /\ IsWorld(v) /\ v.found = n /\ Len(v.pr) = n /\ n \in v.t
        /\ \A q \in 1..Len(w.pr) : v.pr[q] = w.pr[q]
        /\ v.pr[n] = NewPair(e, v.pr[n].a, FALSE)
        /\ v.t \in SUBSET (w.t \cup {n})
        /\ Layout(v, v.t, n, "none") /\ Room(v)

LEMMA NewLayout ==
    ASSUME ConnectionsAssumption, Continuous, NEW w, Settled(w), NEW e \in Ends, NEW from \in 1..2,
           Known(w, e) = {}
    PROVE  NewFound(NewTTP(w, e, from), w, e)
<1> DEFINE n == Len(w.pr) + 1
           c == NewPair(e, from, FALSE)
           longer == Append(w.pr, c)
           made == [w EXCEPT !.pr = longer, !.found = n]
           pushed == Push(w.l, "live", n)
           l == [pushed EXCEPT !.count.live = @ + 1]
           listed == [made EXCEPT !.l = l]
           room == MakeRoom(listed, "live")
           t == room.t \cup {n}
           v == [room EXCEPT !.t = t]
<1>1. /\ IsWorld(w) /\ IsLists(w.l) /\ TableKept(w, w.t) /\ Layout(w, w.t, Null, "none")
      /\ Len(w.pr) \in Nat /\ n \in Nat /\ w.pr \in Seq(PairType) /\ Len(w.pr) <= MaxPairs
  BY DEF Settled, Sound, Layout, IsWorld
<1>2. NewTTP(w, e, from) = v
  <2>1. ~Batch
    BY DEF Batch, Continuous
  <2> HIDE DEF room
  <2>2. [w EXCEPT !.s = w.s, !.pr = Append(@, NewPair(e, from, Batch /\ w.s.ignore[n])), !.found = n] = made
    <3>1. (Batch /\ w.s.ignore[n]) = FALSE
      BY <2>1
    <3> HIDE DEF n
    <3>2. [w EXCEPT !.s = w.s, !.pr = Append(@, NewPair(e, from, Batch /\ w.s.ignore[n])), !.found = n]
           = [w EXCEPT !.s = w.s, !.pr = Append(w.pr, c), !.found = n]
      BY <1>1, <3>1 DEF IsWorld
    <3> QED
      BY <1>1, <3>2 DEF IsWorld
  <2> HIDE DEF made
  <2>4. NewTTP(w, e, from) = [room EXCEPT !.t = @ \cup {n}]
    BY <2>1, <2>2 DEF NewTTP, room
  <2> QED
    BY <2>4
<1>3. IsFirst(c, e, from)
  BY NewPairShape, Zenon
<1>4. c \in PairType /\ c.ends = e /\ c.inactive = FALSE /\ c = NewPair(e, c.a, FALSE)
  <2>1. c.inactive = FALSE /\ c.a = from
    BY DEF NewPair
  <2> QED
    BY <1>3, <2>1 DEF IsFirst
<1> HIDE DEF c
<1>5. /\ longer \in Seq(PairType) /\ Len(longer) = n /\ longer[n] = c
      /\ \A q \in 1..Len(w.pr) : longer[q] = w.pr[q]
  BY <1>1, <1>4, Appended
<1>6. n \in 1..n /\ n \notin 1..Len(w.pr) /\ n \in Places /\ 1..Len(w.pr) \in SUBSET (1..n)
      /\ n # Null
  BY <1>1 DEF Places, Null
<1> HIDE DEF longer, n
<1>7. /\ made.pr = longer /\ made.s = w.s /\ made.t = w.t /\ made.found = n /\ made.l = w.l
      /\ DOMAIN made = DOMAIN w
  BY <1>1 DEF IsWorld
<1> HIDE DEF made
<1>8. IsWorld(made)
  BY <1>1, <1>5, <1>7 DEF IsWorld
<1> DEFINE T == w.t
<1>9. Layout(made, T, Null, "none")
  <2>1. T \in SUBSET (1..Len(w.pr)) /\ Layout(w, T, Null, "none") /\ made.l = w.l /\ made.t = w.t
    BY <1>1, <1>7 DEF TableKept
  <2>2. \A q \in T \cup w.t : made.pr[q].ends = w.pr[q].ends
    BY <1>5, <1>7, <2>1
  <2>3. \A q \in T : made.pr[q].inactive = w.pr[q].inactive
    BY <1>5, <1>7, <2>1
  <2> DEFINE g == Null
  <2>4. \A q \in T : q # g => q # Null /\ made.pr[q].last_time = w.pr[q].last_time
    BY <1>5, <1>7, <2>1
  <2>5. Len(w.pr) <= Len(made.pr)
    BY <1>1, <1>5, <1>7 DEF n
  <2> HIDE DEF T, g
  <2>6. Layout(made, T, g, "none")
    BY <1>8, <2>1, <2>2, <2>3, <2>4, <2>5, RecordsLayout
  <2> QED
    BY <2>6 DEF g
<1>10. listed.l = l /\ listed.pr = longer /\ listed.t = w.t /\ listed.found = n /\ IsWorld(listed)
  <2> HIDE DEF l
  <2> QED
    BY <1>7, <1>8 DEF IsWorld
<1> HIDE DEF listed
<1>11. ASSUME IsLists(pushed), pushed.count = w.l.count
      PROVE  /\ IsLists(l) /\ l.head = pushed.head /\ l.tail = pushed.tail /\ l.next = pushed.next
             /\ l.prev = pushed.prev /\ l.gone = pushed.gone
             /\ l.count["live"] = w.l.count["live"] + 1 /\ l.count["closed"] = w.l.count["closed"]
  <2> DEFINE k == "live"
             m == [pushed EXCEPT !.count[k] = pushed.count[k] + 1]
  <2>1. m = l
    OBVIOUS
  <2>2. k \in Kinds /\ "closed" \in Kinds /\ "closed" # k
    BY DEF Kinds
  <2> HIDE DEF l, pushed
  <2>3. pushed.count[k] \in Int
    BY <1>11, <2>2 DEF IsLists
  <2> HIDE DEF k
  <2> DEFINE z == pushed.count[k] + 1
  <2>4. z \in Int
    BY <2>3
  <2>5. CountSet(m, pushed, k, z)
    <4> HIDE DEF z
    <4>1. CountSet([pushed EXCEPT !.count[k] = z], pushed, k, z)
      BY <1>11, <2>2, <2>4, CountSetShape
    <4> QED
      BY <4>1 DEF z
  <2> HIDE DEF m
  <2> QED
    BY <1>11, <2>1, <2>2, <2>5 DEF CountSet, k
<1>12. Pushed(listed, made, "live", n, "none", "none")
  <2>1. ASSUME IsLists(pushed), pushed.count = w.l.count, NEW j \in Kinds, NEW i \in Nat,
               Counts(w.l, j, i, "none")
        PROVE  Counts(l, j, IF j = "live" THEN i + 1 ELSE i, "none")
    <3>1. l.count["live"] = w.l.count["live"] + 1 /\ l.count["closed"] = w.l.count["closed"]
      BY <1>11, <2>1
    <3> HIDE DEF l
    <3> QED
      BY <2>1, <3>1 DEF Counts, Kinds
  <2> HIDE DEF l
  <2> QED
    BY <1>7, <1>10, <1>11, <2>1 DEF Pushed
<1> HIDE DEF l
<1>13. MayAdd(made, T, Null, "none", n, "live", n, listed, "none")
  <2>1. Len(made.pr) \in 1..(MaxPairs + 1) /\ n \in 1..Len(made.pr)
    BY <1>1, <1>5, <1>6, <1>7 DEF n, ConnectionsAssumption
  <2>2. T \in SUBSET (1..Len(w.pr)) /\ n \notin T /\ n \notin made.l.gone
    BY <1>1, <1>6, <1>7 DEF TableKept
  <2>3. made.pr[n].inactive = ("live" = "closed")
    BY <1>4, <1>5, <1>7
  <2>4. \A q \in T \cup made.t : made.pr[q].ends = made.pr[n].ends => q = n
    <3>1. \A q \in w.t : w.pr[q].ends # e
      BY DEF Known
    <3> QED
      BY <1>4, <1>5, <1>7, <2>2, <3>1
  <2>5. Newest(made.pr, T, n, Null, n)
    <3>1. \A q \in T : q # Null
      BY <1>1, <2>2 DEF Null
    <3> QED
      BY <3>1 DEF Newest
  <2>6. "live" \in Kinds
    BY DEF Kinds
  <2> HIDE DEF T
  <2> QED
    BY <1>9, <1>12, <2>1, <2>2, <2>3, <2>4, <2>5, <2>6 DEF MayAdd
<1>14. /\ Layout(listed, T \cup {n}, n, "none") /\ listed.l.head["live"] = n
       /\ IsLists(pushed) /\ pushed.count = w.l.count
  <2> HIDE DEF T
  <2>1. /\ Layout(listed, T \cup {n}, n, "none") /\ listed.l.head["live"] = n
        /\ IsLists(Push(made.l, "live", n)) /\ Push(made.l, "live", n).count = made.l.count
    BY <1>13, AddLayout
  <2> QED
    BY <1>7, <2>1
<1> DEFINE U == T \cup {n}
<1>15. /\ listed.l.count["live"] = w.l.count["live"] + 1
       /\ listed.l.count["closed"] = w.l.count["closed"]
  BY <1>10, <1>11, <1>14
<1> HIDE DEF pushed
<1>16. PICK Q : RoomMade(room, listed, U, "live", Q) /\ Layout(room, U \ Q, n, "none")
  <2>1. Layout(listed, U, n, "none")
    BY <1>14
  <2> HIDE DEF U
  <2> QED
    BY <2>1, MakeRoomLayout DEF Kinds
<1> HIDE DEF room
<1>17. /\ room.pr = longer /\ room.t = w.t \ Q /\ room.found = n /\ n \notin Q
       /\ room.l.count["closed"] = listed.l.count["closed"]
       /\ Limited /\ listed.l.count["live"] <= MaxConn + 1 => room.l.count["live"] <= MaxConn
  BY <1>10, <1>14, <1>16 DEF RoomMade, Kinds
<1>18. v.pr = room.pr /\ v.t = t /\ v.found = room.found /\ v.l = room.l /\ IsWorld(v)
  BY <1>16 DEF Layout, IsWorld
<1> HIDE DEF v
<1>19. v.t = U \ Q /\ n \in v.t /\ v.t \in SUBSET (w.t \cup {n})
  BY <1>17, <1>18
<1>20. Layout(v, v.t, n, "none")
  <2> DEFINE R == U \ Q
  <2>1. Layout(room, R, n, "none") /\ v.t = R /\ room.t \in SUBSET R
    BY <1>16, <1>17, <1>19
  <2> HIDE DEF R
  <2>2. \A k \in Kinds : \A i : ListKept(room, R, n, "none", k, i) => ListKept(v, R, n, "none", k, i)
    BY <1>18 DEF ListKept
  <2>3. TableKept(v, R)
    BY <1>18, <2>1 DEF Layout, TableKept
  <2> QED
    BY <1>18, <2>1, <2>2, <2>3 DEF Layout
<1>21. Room(v)
  <2>1. w.l.count["live"] \in Int /\ w.l.count["closed"] \in Int /\ MaxConn \in Nat
    BY <1>1 DEF IsLists, Kinds, ConnectionsAssumption
  <2>2. Limited => w.l.count["live"] <= MaxConn /\ w.l.count["closed"] <= MaxConn
    BY DEF Settled, Room, Kinds
  <2>3. Limited => v.l.count["live"] <= MaxConn /\ v.l.count["closed"] <= MaxConn
    BY <1>15, <1>17, <1>18, <2>1, <2>2
  <2> QED
    BY <2>3 DEF Room, Kinds
<1>22. NewFound(v, w, e)
  <2>1. v.pr[n] = NewPair(e, v.pr[n].a, FALSE) /\ Len(v.pr) = n
    BY <1>4, <1>5, <1>17, <1>18
  <2>2. \A q \in 1..Len(w.pr) : v.pr[q] = w.pr[q]
    BY <1>5, <1>17, <1>18
  <2> QED
    BY <1>17, <1>18, <1>19, <1>20, <1>21, <2>1, <2>2 DEF NewFound, n
<1> QED
  BY <1>2, <1>22

\* Found, before the packet is counted: only what was found may be out of order.
FoundLayout(x, f, now) ==
    /\ Layout(x, x.t, f, "none") /\ f \in {Null, x.found} /\ Room(x) /\ x.found \in x.t
    /\ \A q \in x.t : x.pr[q].inactive => HasEnded(x.pr[q].block)
    /\ \A q \in x.t : q # x.found => x.pr[q].last_time <= now

LEMMA FindLayout ==
    ASSUME ConnectionsAssumption, Continuous, NEW w, Settled(w), NEW e \in Ends, NEW from \in 1..2,
           NEW p, NEW now \in Nat, \A q \in w.t : w.pr[q].last_time <= now
    PROVE  \E f : FoundLayout(FindTTP(w, e, from, p, now), f, now)
<1> DEFINE x == FindTTP(w, e, from, p, now)
<1>1. IsWorld(w) /\ Layout(w, w.t, Null, "none") /\ w.t \in SUBSET (1..Len(w.pr)) /\ Len(w.pr) \in Nat
  BY DEF Settled, Sound, Layout, TableKept, IsWorld
<1>2. CASE Known(w, e) = {}
  <2>1. x = NewTTP(w, e, from)
    BY <1>2 DEF FindTTP
  <2>2. NewFound(x, w, e)
    BY <1>2, <2>1, NewLayout
  <2> HIDE DEF x
  <2> DEFINE n == Len(w.pr) + 1
  <2>3. /\ x.found = n /\ n \in x.t /\ x.t \in SUBSET (w.t \cup {n}) /\ Layout(x, x.t, n, "none")
        /\ Room(x) /\ x.pr[n].inactive = FALSE /\ \A q \in 1..Len(w.pr) : x.pr[q] = w.pr[q]
    BY <2>2 DEF NewFound, NewPair
  <2> HIDE DEF n
  <2>4. ASSUME NEW q \in x.t, q # n
        PROVE  x.pr[q].last_time <= now /\ (x.pr[q].inactive => HasEnded(x.pr[q].block))
    <3>1. q \in w.t /\ x.pr[q] = w.pr[q]
      BY <1>1, <2>3, <2>4
    <3> QED
      BY <3>1 DEF Settled
  <2>5. FoundLayout(x, n, now)
    BY <2>3, <2>4 DEF FoundLayout
  <2> QED
    BY <2>5 DEF x
<1>3. CASE Known(w, e) # {}
  <2> DEFINE k == CHOOSE q \in Known(w, e) : TRUE
  <2>1. k \in Known(w, e)
    BY <1>3
  <2>2. x = [w EXCEPT !.found = k]
    BY <1>3 DEF FindTTP
  <2> HIDE DEF k, x
  <2>3. IsWorld(x) /\ x.t = w.t /\ x.found = k /\ x.pr = w.pr /\ x.l = w.l /\ k \in w.t
    BY <1>1, <2>1, <2>2 DEF IsWorld, Known
  <2>4. Layout(x, x.t, Null, "none")
    <3>1. \A j \in Kinds : \A i : ListKept(w, w.t, Null, "none", j, i) => ListKept(x, w.t, Null, "none", j, i)
      BY <2>3 DEF ListKept
    <3>2. TableKept(x, w.t)
      BY <1>1, <2>3 DEF Layout, TableKept
    <3> QED
      BY <1>1, <2>3, <3>1, <3>2 DEF Layout
  <2>5. FoundLayout(x, Null, now)
    BY <2>3, <2>4 DEF FoundLayout, Settled, Room
  <2> QED
    BY <2>5 DEF x
<1> QED
  BY <1>2, <1>3

\* A pair that has ended before it gets the packet is no new one.
LEMMA FoundEnded ==
    ASSUME ConnectionsAssumption, Continuous, NEW w, Settled(w), NEW e \in Ends, NEW from \in 1..2,
           NEW p, NEW now \in Nat
    PROVE  LET x == FindTTP(w, e, from, p, now)
           IN  HasEnded(x.pr[x.found].block) =>
                 x.found \in 1..Len(w.pr) /\ x.pr[x.found] = w.pr[x.found]
<1> DEFINE x == FindTTP(w, e, from, p, now)
<1>1. CASE Known(w, e) = {}
  <2> DEFINE n == Len(w.pr) + 1
  <2>1. x = NewTTP(w, e, from)
    BY <1>1 DEF FindTTP
  <2> HIDE DEF x
  <2>2. NewFound(x, w, e)
    BY <1>1, <2>1, NewLayout
  <2>3. x.found = n /\ x.pr[n] \in PairType /\ x.pr[n].block = <<NoBlock, NoBlock>>
    BY <2>2 DEF NewFound, IsWorld, NewPair
  <2> HIDE DEF n
  <2>4. EndCount(x.pr[n]) = 0
    BY <2>3 DEF EndCount, NoBlock
  <2>5. ~HasEnded(x.pr[n].block)
    BY <2>3, <2>4, EndedIsCounted
  <2> QED
    BY <2>3, <2>5 DEF x
<1>2. CASE Known(w, e) # {}
  <2> DEFINE k == CHOOSE q \in Known(w, e) : TRUE
  <2>1. k \in Known(w, e)
    BY <1>2
  <2>2. x = [w EXCEPT !.found = k]
    BY <1>2 DEF FindTTP
  <2> HIDE DEF k, x
  <2>3. IsWorld(w) /\ w.t \in SUBSET (1..Len(w.pr))
    BY DEF Settled, Sound, Layout, TableKept
  <2>4. x.found = k /\ x.pr = w.pr /\ k \in 1..Len(w.pr)
    BY <2>1, <2>2, <2>3 DEF IsWorld, Known
  <2> QED
    BY <2>4 DEF x
<1> QED
  BY <1>1, <1>2

LEMMA CountLayout ==
    ASSUME ConnectionsAssumption, NEW x, NEW f, NEW now \in Nat, FoundLayout(x, f, now),
           NEW from \in 1..2, NEW p \in PacketType, Len(x.pr) <= MaxPairs,
           HasEnded(x.pr[x.found].block) =>
             HasEnded(CountFound(x, from, p, now).pr[x.found].block)
    PROVE  LET y == CountFound(x, from, p, now)
           IN  Ready(y, y.found) /\ y.pr[y.found].last_time = now /\ y.found = x.found
<1> DEFINE y == CountFound(x, from, p, now)
           k == x.found
           dir == WhichDir(x.pr[k], from)
<1>1. /\ Layout(x, x.t, f, "none") /\ IsWorld(x) /\ TableKept(x, x.t) /\ k \in x.t
      /\ k \in 1..Len(x.pr) /\ x.t \in SUBSET (1..Len(x.pr)) /\ Len(x.pr) \in Nat
  BY DEF FoundLayout, Layout, TableKept, IsWorld
<1>2. CountedWorld(y, x, from, p, now)
  BY <1>1, CountFoundShape
<1>5. HasEnded(x.pr[k].block) => HasEnded(y.pr[k].block)
  OBVIOUS
<1> HIDE DEF y
<1>3. /\ IsWorld(y) /\ y.t = x.t /\ y.l = x.l /\ y.found = k /\ Len(y.pr) = Len(x.pr)
      /\ \A q \in 1..Len(x.pr) : q # k => y.pr[q] = x.pr[q]
      /\ Counted(y.pr[k], x.pr[k], dir, p, now)
  BY <1>2 DEF CountedWorld
<1>6. /\ y.pr[k].last_time = now /\ y.pr[k].ends = x.pr[k].ends
      /\ y.pr[k].inactive = x.pr[k].inactive
  BY <1>3 DEF Counted, SameConnection
<1> HIDE DEF k, dir
<1>7. \A q \in 1..Len(x.pr) : y.pr[q].ends = x.pr[q].ends /\ y.pr[q].inactive = x.pr[q].inactive
  BY <1>3, <1>6
<1>8. Layout(y, y.t, k, "none")
  <2> DEFINE T == x.t
  <2>1. Layout(x, T, f, "none") /\ \A q \in T \cup x.t : q \in 1..Len(x.pr)
    BY <1>1
  <2>2. ASSUME NEW q \in T, q # k
        PROVE  q # f /\ y.pr[q].last_time = x.pr[q].last_time
    <3>1. q # Null
      BY <2>1 DEF Null
    <3>2. f = Null \/ f = k
      BY DEF FoundLayout, k
    <3> QED
      BY <1>3, <2>1, <2>2, <3>1, <3>2
  <2>3. Len(x.pr) <= Len(y.pr)
    BY <1>1, <1>3
  <2> HIDE DEF T
  <2>4. \A q \in T \cup x.t : y.pr[q].ends = x.pr[q].ends
    BY <1>7, <2>1
  <2>5. \A q \in T : y.pr[q].inactive = x.pr[q].inactive
    BY <1>7, <2>1
  <2>6. Layout(y, T, k, "none")
    BY <1>3, <2>1, <2>2, <2>3, <2>4, <2>5, RecordsLayout
  <2> QED
    BY <1>3, <2>6 DEF T
<1>9. ASSUME NEW q \in y.t
      PROVE  y.pr[q].last_time <= now /\ (y.pr[q].inactive => HasEnded(y.pr[q].block))
  <2>1. q \in x.t /\ q \in 1..Len(x.pr)
    BY <1>1, <1>3
  <2>2. CASE q = k
    BY <1>5, <1>6, <2>1, <2>2 DEF FoundLayout
  <2>3. CASE q # k
    BY <1>3, <2>1, <2>3 DEF FoundLayout, k
  <2> QED
    BY <2>2, <2>3
<1>10. Ready(y, k)
  BY <1>1, <1>3, <1>6, <1>8, <1>9 DEF Ready, Room, FoundLayout
<1> QED
  BY <1>3, <1>6, <1>10 DEF y, k

-----------------------------------------------------------------------------
(* The invariant of the lists.                                             *)

\* In continuous mode the world is settled, and no packet came later than now:
\* until the end of a connection is forgotten.
ListInv ==
    Continuous /\ forgotten = {} =>
        /\ \E w : w.pr = pairs /\ w.t = table /\ w.l = lists /\ Settled(w)
        /\ \A q \in table : pairs[q].last_time <= time.now

LEMMA SettledSame ==
    ASSUME NEW w, Settled(w), NEW v, IsWorld(v), v.pr = w.pr, v.t = w.t, v.l = w.l
    PROVE  Settled(v)
<1>1. \A k, i : ListKept(w, w.t, Null, "none", k, i) => ListKept(v, w.t, Null, "none", k, i)
  BY DEF ListKept
<1>2. TableKept(v, w.t) /\ IsLists(v.l) /\ Room(v)
  BY DEF Settled, Sound, Layout, TableKept, Room
<1>3. Sound(v)
  BY <1>1, <1>2 DEF Settled, Sound, Layout
<1> QED
  BY <1>2, <1>3 DEF Settled

LEMMA SettledStays ==
    ASSUME way' = way, NEW w, Settled(w)
    PROVE  Settled(w)'
<1>1. \A k, i : ListKept(w, w.t, Null, "none", k, i) => ListKept(w, w.t, Null, "none", k, i)'
  BY DEF ListKept, Counts, Limited
<1>2. Layout(w, w.t, Null, "none")'
  BY <1>1 DEF Settled, Sound, Layout
<1>3. Room(w)'
  BY DEF Settled, Room, Limited
<1> QED
  BY <1>2, <1>3 DEF Settled, Sound

\* The whole treatment of a packet, from the search to the lists.
LEMMA TracedLayout ==
    ASSUME ConnectionsAssumption, Continuous, NEW w, Settled(w), NEW e \in Ends,
           NEW from \in 1..2, NEW p \in PacketType, NEW now \in Nat, NEW last,
           \A q \in w.t : w.pr[q].last_time <= now,
           Len(dotraceTTP(w, e, from, p, now, last).pr) <= MaxPairs,
           \A q \in 1..Len(w.pr) :
             HasEnded(w.pr[q].block) => HasEnded(dotraceTTP(w, e, from, p, now, last).pr[q].block)
    PROVE  LET v == dotraceTTP(w, e, from, p, now, last)
           IN  Settled(v) /\ \A q \in v.t : v.pr[q].last_time <= now
<1> DEFINE x == FindTTP(w, e, from, p, now)
           y == CountFound(x, from, p, now)
           f == y.found
           v == UpdateConnLists(y, f, now, last)
<1>1. dotraceTTP(w, e, from, p, now, last) = v
  BY DEF dotraceTTP, Listed
<1>2. PICK g : FoundLayout(x, g, now)
  BY FindLayout
<1>3. HasEnded(x.pr[x.found].block) =>
         x.found \in 1..Len(w.pr) /\ x.pr[x.found] = w.pr[x.found]
  BY FoundEnded
<1>4. \A q \in 1..Len(w.pr) : HasEnded(w.pr[q].block) => HasEnded(v.pr[q].block)
  BY <1>1
<1> HIDE DEF x
<1>5. IsWorld(x) /\ x.found \in 1..Len(x.pr)
  BY <1>2 DEF FoundLayout, Layout, TableKept
<1>6. CountedWorld(y, x, from, p, now)
  BY <1>5, CountFoundShape
<1>7. IsWorld(y) /\ f \in 1..Len(y.pr) /\ Len(y.pr) = Len(x.pr)
  BY <1>5, <1>6 DEF CountedWorld
<1>8. Kept(v, y)
  <2> HIDE DEF y, f
  <2> QED
    BY <1>7, UpdateConnListsKeeps
<1>9. Len(x.pr) <= MaxPairs
  BY <1>1, <1>7, <1>8 DEF Kept
<1>10. HasEnded(x.pr[x.found].block) => HasEnded(y.pr[x.found].block)
  <2>1. f = x.found
    BY <1>6 DEF CountedWorld
  <2>2. v.pr[f].block = y.pr[f].block
    BY <1>7, <1>8 DEF Kept, SameRecord
  <2> HIDE DEF y, f, v
  <2> QED
    BY <1>3, <1>4, <2>1, <2>2
<1>11. Ready(y, f) /\ y.pr[f].last_time = now
  <2>1. LET z == CountFound(x, from, p, now)
        IN  Ready(z, z.found) /\ z.pr[z.found].last_time = now /\ z.found = x.found
    BY <1>2, <1>9, <1>10, CountLayout
  <2> QED
    BY <2>1
<1> HIDE DEF y, f
<1>12. Settled(v)
  BY <1>11, UpdateLayout
<1> HIDE DEF v
<1>13. ASSUME NEW q \in v.t
       PROVE  v.pr[q].last_time <= now
  <2>1. q \in y.t /\ q \in 1..Len(y.pr)
    BY <1>8, <1>11 DEF Kept, Ready, Layout, TableKept
  <2> QED
    BY <1>8, <1>11, <2>1 DEF Kept, SameRecord, Ready
<1> QED
  BY <1>1, <1>12, <1>13

LEMMA ListInvStep ==
    ASSUME ConnectionsAssumption, ConnectionsInv, ListInv, [ConnectionsNext]_connectionsVars
    PROVE  ListInv'
<1>1. SUFFICES ASSUME Continuous', forgotten' = {}
               PROVE  ListInv'
  BY DEF ListInv
<1>2. \A e, from, p, gap, inc : Traced(e, from, p, gap, inc) => way' = way
  BY DEF Traced, Becomes
<1>3. CASE UNCHANGED connectionsVars
  <2>1. way' = way /\ pairs' = pairs /\ table' = table /\ lists' = lists /\ time' = time
    BY <1>3 DEF connectionsVars
  <2>2. Continuous /\ forgotten = {}
    BY <1>1, <1>3, <2>1 DEF Continuous, connectionsVars
  <2>3. PICK w : w.pr = pairs /\ w.t = table /\ w.l = lists /\ Settled(w)
    BY <2>2 DEF ListInv
  <2>4. Settled(w)'
    BY <2>1, <2>3, SettledStays
  <2>5. \A q \in table : pairs[q].last_time <= time.now
    BY <2>2 DEF ListInv
  <2> QED
    BY <2>1, <2>3, <2>4, <2>5 DEF ListInv
<1>4. ASSUME way \in {"batch", "udp"}, way' = way
      PROVE  FALSE
  BY <1>1, <1>4 DEF Continuous
<1>5. ASSUME NEW e \in Ends, NEW from \in 1..2, NEW gap \in Gaps, NEW fin \in BOOLEAN,
             AnyPacket(e, from, fin, gap)
      PROVE  ListInv'
  <2> DEFINE p == Packet(FALSE, fin, FALSE, 1, Null)
             now == time.now + gap
             last == time.updated
             v == dotraceTTP(World, e, from, p, now, last)
  <2>1. way' = way /\ Continuous
    BY <1>1, <1>2, <1>5 DEF AnyPacket, Continuous
  <2>2. Becomes(v, e, now, incarnation[e])
    BY <1>5, <2>1 DEF AnyPacket, Traced, Continuous
  <2>3. /\ forgotten = {}
         /\ \A q \in DOMAIN pairs : HasEnded(pairs[q].block) => HasEnded(v.pr[q].block)
    <3> HIDE DEF v, now
    <3> QED
      BY <1>1, <2>2 DEF Becomes
  <2>4. p \in PacketType
    BY DEF Packet, PacketType, Null
  <2>5. now \in Nat /\ time.now \in Nat /\ gap \in Nat
    <3>1. time.now \in Nat
      BY DEF ConnectionsInv, ConnectionTypes
    <3>2. gap \in Nat
      BY DEF ConnectionsAssumption
    <3> QED
      BY <3>1, <3>2
  <2>6. IsWorld(World) /\ World.pr = pairs /\ World.t = table /\ World.l = lists
    BY WorldIsWorld DEF ConnectionsInv
  <2>7. PICK w : w.pr = pairs /\ w.t = table /\ w.l = lists /\ Settled(w)
    BY <2>1, <2>3 DEF ListInv
  <2>8. Settled(World)
    BY <2>6, <2>7, SettledSame
  <2>9. \A q \in World.t : World.pr[q].last_time <= now
    <3> SUFFICES ASSUME NEW q \in table
                 PROVE  pairs[q].last_time <= now
      BY <2>6
    <3>1. q \in 1..Len(pairs)
      BY <2>7 DEF Settled, Sound, Layout, TableKept
    <3>2. pairs[q] \in PairType
      BY <3>1 DEF ConnectionsInv, ConnectionTypes
    <3>3. pairs[q].last_time \in Nat
      BY <3>2 DEF PairType
    <3>4. pairs[q].last_time <= time.now
      BY <2>1, <2>3 DEF ListInv
    <3> QED
      BY <2>5, <3>3, <3>4
  <2>10. /\ pairs' = v.pr /\ table' = v.t /\ lists' = v.l /\ time'.now = now
        /\ Len(v.pr) <= MaxPairs
    BY <2>2 DEF Becomes
  <2>11. \A q \in 1..Len(World.pr) : HasEnded(World.pr[q].block) => HasEnded(v.pr[q].block)
    <3>1. DOMAIN pairs = 1..Len(pairs)
      BY DEF ConnectionsInv, ConnectionTypes
    <3> HIDE DEF v
    <3> QED
      BY <2>6, <2>3, <3>1
  <2> HIDE DEF p, now, last
  <2>12. Settled(v) /\ \A q \in v.t : v.pr[q].last_time <= now
    BY <2>1, <2>4, <2>5, <2>8, <2>9, <2>10, <2>11, TracedLayout
  <2> HIDE DEF v
  <2>13. PICK u : u = v
    OBVIOUS
  <2>14. Settled(u)'
    BY <2>1, <2>12, <2>13, SettledStays
  <2>15. \A q \in table' : pairs'[q].last_time <= time'.now
    BY <2>10, <2>12
  <2>16. u.pr = pairs' /\ u.t = table' /\ u.l = lists'
    BY <2>10, <2>13
  <2> QED
    BY <2>14, <2>15, <2>16 DEF ListInv
<1>6. ASSUME NEW ix, NEW only, Ask(ix, only)
      PROVE  FALSE
  BY <1>4, <1>6 DEF Ask
<1>7. ASSUME NEW e, NEW from, NEW gap, NEW isn, Open(e, from, isn, gap)
      PROVE  FALSE
  BY <1>2, <1>4, <1>7 DEF Open, Batch
<1>8. ASSUME NEW e, NEW from, NEW gap, End(e, from, gap)
      PROVE  FALSE
  BY <1>2, <1>4, <1>8 DEF End, Batch
<1>9. ASSUME NEW e, NEW gap, Again(e, gap)
      PROVE  FALSE
  BY <1>2, <1>4, <1>9 DEF Again, Batch
<1>10. ASSUME NEW e, NEW gap, NEW rst, Reply(e, rst, gap)
       PROVE  FALSE
  BY <1>2, <1>4, <1>10 DEF Reply, Batch
<1> QED
  BY <1>3, <1>5, <1>6, <1>7, <1>8, <1>9, <1>10 DEF ConnectionsNext

LEMMA ListInvInit ==
    ASSUME ConnectionsAssumption, ConnectionsInit, Continuous
    PROVE  ListInv
<1>1. ConnectionsInv
  BY ConnectionsInitInv
<1>2. pairs = <<>> /\ table = {} /\ lists = NewLists
  BY DEF ConnectionsInit, Continuous
<1>3. IsWorld(World) /\ World.pr = pairs /\ World.t = table /\ World.l = lists
  BY <1>1, WorldIsWorld DEF ConnectionsInv
<1>4. IsLists(lists) /\ lists.gone = {}
  BY <1>2 DEF IsLists, NewLists, Kinds, Null
<1>5. ASSUME NEW k \in Kinds
      PROVE  ListKept(World, {}, Null, "none", k, 0) /\ lists.count[k] = 0
  <2>1. lists.head[k] = Null /\ lists.tail[k] = Null /\ lists.count[k] = 0
    BY <1>2 DEF NewLists, Kinds
  <2>2. ListOf(lists, k, pairs, {}, 0, Null)
    BY <2>1, EmptyList
  <2>3. Of(pairs, {}, k) = {} /\ k # "none"
    BY DEF Of, Kinds
  <2>4. Counts(lists, k, 0, "none")
    BY <2>1, <2>3 DEF Counts
  <2> QED
    BY <1>3, <2>1, <2>2, <2>3, <2>4 DEF ListKept
<1>6. TableKept(World, {})
  BY <1>2, <1>3, <1>4 DEF TableKept
<1>7. Sound(World)
  BY <1>2, <1>3, <1>4, <1>5, <1>6 DEF Sound, Layout
<1>8. Settled(World)
  BY <1>2, <1>3, <1>5, <1>7 DEF Settled, Room, ConnectionsAssumption
<1> QED
  BY <1>2, <1>3, <1>8 DEF ListInv

\* The lists of continuous mode (trace.c): after every packet the live and the
\* closed list hold the connections of the hash table, each once, linked both
\* ways, in the order of their last packets, as many as are counted and no more
\* than the limit; no null or freed pointer was used on the way.  It is so as
\* long as no connection that ended was forgotten, its counts back at 0.
THEOREM ListsHoldTheTable == ConnectionsSpec => []ListsAreSound
<1>1. ConnectionsInit => ListInv
  BY ConnectionsAssumption, ListInvInit DEF ListInv
<1>2. ConnectionsInv /\ ListInv /\ [ConnectionsNext]_connectionsVars => ListInv'
  BY ConnectionsAssumption, ListInvStep
<1>3. ListInv => ListsAreSound
  <2> SUFFICES ASSUME ListInv, Continuous, forgotten = {}
               PROVE  /\ ~lists.fault
                      /\ \A k \in {"live", "closed"} :
                           \E n \in 0..MaxPairs : \E s \in [1..n -> Of(pairs, table, k)] :
                             /\ Linked(lists, k, n, s)
                             /\ \A p \in Of(pairs, table, k) : \E j \in 1..n : s[j] = p
                             /\ \A j \in 2..n : pairs[s[j]].last_time <= pairs[s[j - 1]].last_time
                             /\ Limited => lists.count[k] = n /\ n <= MaxConn
    BY DEF ListsAreSound, Of
  <2>1. PICK w : w.pr = pairs /\ w.t = table /\ w.l = lists /\ Settled(w)
    BY DEF ListInv
  <2>2. /\ IsLists(lists) /\ Len(pairs) <= MaxPairs /\ Len(pairs) \in Nat
        /\ table \in SUBSET (1..Len(pairs)) /\ Room(w)
    BY <2>1 DEF Settled, Sound, Layout, TableKept, IsWorld
  <2>3. ASSUME NEW k \in Kinds
        PROVE  \E n \in 0..MaxPairs : \E s \in [1..n -> Of(pairs, table, k)] :
                 /\ Linked(lists, k, n, s)
                 /\ \A p \in Of(pairs, table, k) : \E j \in 1..n : s[j] = p
                 /\ \A j \in 2..n : pairs[s[j]].last_time <= pairs[s[j - 1]].last_time
                 /\ Limited => lists.count[k] = n /\ n <= MaxConn
    <3> DEFINE S == Of(pairs, table, k)
    <3>1. PICK n : ListKept(w, table, Null, "none", k, n)
      BY <2>1 DEF Settled, Sound, Layout
    <3>2. ListOf(lists, k, pairs, S, n, Null) /\ Counts(lists, k, n, "none")
      BY <2>1, <3>1 DEF ListKept
    <3>3. S \in SUBSET (1..Len(pairs))
      BY <2>2 DEF Of
    <3> HIDE DEF S
    <3>4. PICK s : Chain(lists, k, n, s) /\ Listing(pairs, S, n, s, Null)
      BY <3>2 DEF ListOf
    <3>5. n <= Len(pairs)
      BY <2>2, <3>2, <3>3, ListIsShort
    <3>6. n \in Nat /\ s \in [1..n -> Places] /\ Linked(lists, k, n, s)
      BY <3>4 DEF Chain
    <3>7. n \in 0..MaxPairs
      <4>1. MaxPairs \in Nat
        BY ConnectionsAssumption
      <4> QED
        BY <2>2, <3>5, <3>6, <4>1
    <3>8. s \in [1..n -> S] /\ \A p \in S : \E j \in 1..n : s[j] = p
      BY <3>4, <3>6 DEF Listing
    <3>9. ASSUME NEW j \in 2..n
          PROVE  pairs[s[j]].last_time <= pairs[s[j - 1]].last_time
      <4>1. j \in 1..n /\ j - 1 \in 1..n /\ j - 1 < j
        BY <3>6
      <4>2. s[j] # Null /\ s[j - 1] # Null
        BY <3>3, <3>8, <4>1 DEF Null
      <4> QED
        BY <3>4, <4>1, <4>2 DEF Listing
    <3>10. Limited => lists.count[k] = n /\ n <= MaxConn
      <4>1. k # "none"
        BY DEF Kinds
      <4> QED
        BY <2>1, <2>2, <3>2, <3>6, <4>1 DEF Counts, Room
    <3> QED
      BY <3>6, <3>7, <3>8, <3>9, <3>10 DEF S
  <2> QED
    BY <2>2, <2>3 DEF IsLists, Kinds
<1> QED
  BY <1>1, <1>2, <1>3, ConnectionsKeep, PTL DEF ConnectionsSpec

=============================================================================
