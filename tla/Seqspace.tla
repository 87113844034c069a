------------------------------ MODULE Seqspace ------------------------------
(***************************************************************************)
(* The sequence space of one direction of a TCP connection, as             *)
(* tcptrace-src/rexmit.c keeps it: which bytes have been sent, how often,  *)
(* when, and how often they have been acknowledged.  The space of 4 times  *)
(* QuadSize sequence numbers is a ring of four quadrants, of which at most *)
(* three in a row exist; the segments of a quadrant, a sorted linked list  *)
(* in the code, are a set of records here.                                 *)
(*                                                                         *)
(* Everything is an operator on the control block of the direction (tcb):  *)
(* a record of which this module uses ss, the quadrants, and the counters  *)
(* named in RttFields.  Sums and sums of squares are left out.             *)
(***************************************************************************)
EXTENDS Integers, FiniteSets, FiniteSetsExt

CONSTANTS
    QuadSize,     \* QUADSIZE, 2^30 in the code
    CountLimit    \* a retransmission count is a u_char: 256 in the code

ASSUME SeqspaceAssumption == QuadSize \in Nat \ {0} /\ CountLimit \in Nat \ {0}

SeqSize == 4 * QuadSize
Seqnum == 0..(SeqSize - 1)
Index == 0..3

\* Microseconds from one packet to another; 0 when they are out of order.
Elapsed(from, to) == IF to < from THEN 0 ELSE to - from

QUADNUM(seq) == seq \div QuadSize
LAST_SEQ(i) == QuadSize * (i + 1) - 1
Before(i) == (i + 3) % 4
After(i) == (i + 1) % 4
Opposite(i) == (i + 2) % 4

Segment(first, last, now) ==
    [first |-> first, last |-> last, time |-> now, retrans |-> 0, acked |-> 0]

NoQuad == [segs |-> {}, prev |-> FALSE, next |-> FALSE, there |-> FALSE]
NewQuad == [NoQuad EXCEPT !.there = TRUE]

\* prev and next say whether the pointer to the neighbour is set.
RttFields ==
    [rtt_last |-> 0, rtt_min |-> 0, rtt_max |-> 0, rtt_count |-> 0,
     rtt_full_size |-> 0, rtt_full_count |-> 0, rtt_amback |-> 0,
     rtt_cumack |-> 0, rtt_nosample |-> 0, rtt_dupack |-> 0,
     rtt_triple_dupack |-> 0, retr_max |-> 0, retr_min_tm |-> 0,
     retr_max_tm |-> 0, retr_tm_count |-> 0]

NewSeqspace == [i \in Index |-> NoQuad]

Bytes(s) == s.first..s.last
Recorded(segs) == UNION {Bytes(s) : s \in segs}

-----------------------------------------------------------------------------
(* The quadrants.                                                          *)

Present(q) == IF q.there THEN q ELSE NewQuad

\* Faulty variant of whichquad: the opposite quadrant is kept.
whichquadKeeping(ss, i) ==
    IF ss[i].there /\ ss[i].prev /\ ss[i].next
    THEN ss
    ELSE [ss EXCEPT ![i] = [Present(@) EXCEPT !.prev = TRUE, !.next = TRUE],
                    ![After(i)] = [Present(@) EXCEPT !.prev = TRUE],
                    ![Before(i)] = [Present(@) EXCEPT !.next = TRUE]]

\* The ring with quadrant i and both its neighbours; the opposite one is freed.
whichquad(ss, i) ==
    IF ss[i].there /\ ss[i].prev /\ ss[i].next
    THEN ss
    ELSE [ss EXCEPT ![i] = [Present(@) EXCEPT !.prev = TRUE, !.next = TRUE],
                    ![After(i)] = [Present(@) EXCEPT !.prev = TRUE, !.next = FALSE],
                    ![Before(i)] = [Present(@) EXCEPT !.prev = FALSE, !.next = TRUE],
                    ![Opposite(i)] = NoQuad]

-----------------------------------------------------------------------------
(* Data.                                                                   *)

\* The bytes of a..b that no segment has.
Missing(segs, a, b) == (a..b) \ Recorded(segs)

\* A piece of a..b between two recorded segments becomes a segment.
Pieces(segs, a, b, now) ==
    LET new == Missing(segs, a, b)
        ends == {x \in new : x + 1 \notin new}
    IN  {Segment(Max({y \in new : y <= x /\ y - 1 \notin new}), x, now) : x \in ends}

\* The data ends inside or before a segment in front of which bytes were missing.
OutOfOrder(segs, a, b) ==
    \E s \in segs, x \in Missing(segs, a, b) :
        /\ x < s.first /\ b < s.last
        /\ \A u \in segs : ~(x < u.first /\ u.first < s.first)

rtt_retrans(t, s, now) ==
    IF s.acked > 0 THEN t
    ELSE LET etime == Elapsed(s.time, now)
         IN  [t EXCEPT !.retr_max = Max({@, s.retrans}),
                       !.retr_max_tm = Max({@, etime}),
                       !.retr_min_tm = IF @ = 0 \/ etime < @ THEN etime ELSE @,
                       !.retr_tm_count = @ + 1]

\* Bytes a..b of quadrant i are sent.  Every overlapped segment counts a
\* retransmission, the first one takes the time of the packet.
addseg(t, i, a, b, now) ==
    LET segs == t.ss[i].segs
        touched == {s \in segs : s.last >= a /\ s.first <= b}
        again == {[s EXCEPT !.retrans = (@ + 1) % CountLimit] : s \in touched}
        lowest == CHOOSE s \in again : \A u \in again : s.first <= u.first
        timed == IF again = {} THEN {}
                 ELSE (again \ {lowest}) \cup {[lowest EXCEPT !.time = now]}
    IN  [tcb |-> [(IF again = {} THEN t ELSE rtt_retrans(t, lowest, now))
                  EXCEPT !.ss[i].segs =
                            (@ \ touched) \cup timed \cup Pieces(segs, a, b, now)],
         rexlen |-> Cardinality((a..b) \cap Recorded(segs)),
         out_order |-> OutOfOrder(segs, a, b)]

\* Faulty variant of rexmit: the second part goes to the first quadrant.
rexmitUnsplit(t, seq, len, now) ==
    LET i == QUADNUM(seq)
    IN  addseg([t EXCEPT !.ss = whichquad(@, i)], i, seq,
               IF seq + len - 1 > LAST_SEQ(i) THEN LAST_SEQ(i) ELSE seq + len - 1, now)

\* Data that crosses into the next quadrant is recorded in two parts.
rexmit(t, seq, len, now) ==
    LET i == QUADNUM(seq)
        ready == [t EXCEPT !.ss = whichquad(@, i)]
        last == (seq + len - 1) % SeqSize
        head == addseg(ready, i, seq, LAST_SEQ(i), now)
        tail == addseg(head.tcb, After(i), QuadSize * After(i), last, now)
    IN  IF QUADNUM(last) = i THEN addseg(ready, i, seq, last, now)
        ELSE [tcb |-> tail.tcb, rexlen |-> head.rexlen + tail.rexlen,
              out_order |-> head.out_order \/ tail.out_order]

-----------------------------------------------------------------------------
(* Acknowledgements.                                                       *)

\* Acknowledged segments that fit together become one, up to the first
\* segment that is not acknowledged.
collapse_quad(segs) ==
    LET front == {s \in segs : \A u \in segs : u.first <= s.first => u.acked > 0}
        Run(s) == {u \in front : u.first >= s.first
                                 /\ s.first..u.last \subseteq Recorded(front)}
        starts == {s \in front : \A u \in front : u.last + 1 # s.first}
        Joined(s) ==
            LET last == CHOOSE u \in Run(s) : \A v \in Run(s) : v.last <= u.last
            IN  [s EXCEPT !.last = last.last, !.acked = last.acked,
                          !.time = Max({u.time : u \in Run(s)})]
    IN  (segs \ front) \cup {Joined(s) : s \in starts}

\* The size of a segment; MAX_32, without the byte itself, when first = last.
current_size(s) ==
    IF s.last > s.first THEN s.last - s.first + 1 ELSE (SeqSize - s.first) + s.last

\* Statistics of segments of full size, which start again with a larger one.
FullSize(t, s) ==
    LET size == current_size(s)
    IN  IF t.rtt_full_size < size
        THEN [t EXCEPT !.rtt_full_size = size, !.rtt_full_count = 1]
        ELSE IF t.rtt_full_size = size THEN [t EXCEPT !.rtt_full_count = @ + 1] ELSE t

\* Faulty variant of rtt_ackin: a retransmitted segment gives a sample.
rtt_ackinAmbiguous(t, s, rexmit_prev, now) ==
    LET etime == Elapsed(s.time, now)
    IN  IF rexmit_prev
        THEN [tcb |-> [t EXCEPT !.rtt_last = 0, !.rtt_nosample = @ + 1], ret |-> "NOSAMP"]
        ELSE [tcb |-> FullSize([t EXCEPT !.rtt_last = etime, !.rtt_count = @ + 1], s),
              ret |-> "NORMAL"]

\* The round trip of a segment that the acknowledgement ends with: no sample
\* if something before it was sent later, or if it was itself sent again.
rtt_ackin(t, s, rexmit_prev, now) ==
    LET etime == Elapsed(s.time, now)
    IN  CASE rexmit_prev ->
               [tcb |-> [t EXCEPT !.rtt_last = 0, !.rtt_nosample = @ + 1],
                ret |-> "NOSAMP"]
          [] ~rexmit_prev /\ s.retrans = 0 ->
               [tcb |-> FullSize([t EXCEPT !.rtt_last = etime, !.rtt_count = @ + 1,
                            !.rtt_min = IF @ = 0 \/ @ > etime THEN etime ELSE @,
                            !.rtt_max = Max({@, etime})], s),
                ret |-> "NORMAL"]
          [] OTHER ->
               [tcb |-> [t EXCEPT !.rtt_last = 0, !.rtt_amback = @ + 1], ret |-> "AMBIG"]

\* Everything in the quadrant before the acknowledgement is acknowledged.
AckBehind(t, i) ==
    LET segs == t.ss[Before(i)].segs
        fresh == {s \in segs : s.acked = 0}
        acked == {[s EXCEPT !.acked = IF @ = 0 THEN 1 ELSE @] : s \in segs}
    IN  IF fresh = {} THEN t
        ELSE [t EXCEPT !.ss[Before(i)].segs = collapse_quad(acked),
                       !.rtt_cumack = @ + Cardinality(fresh)]

\* A duplicate for BSD: the largest acknowledgement, without data, with the
\* window of the one before, while data is outstanding.
IsDuplicate(t, twin, ack, len, win) ==
    ack = twin.ack /\ len = 0 /\ win = twin.win_last /\ t.owin_tot > 0

\* Acknowledgement of everything before ack; twin is the block of its sender.
\* An acknowledged segment counts duplicates, other acknowledgements reset it.
ack_in(t, twin, ack, len, win, now) ==
    LET i == QUADNUM(ack)
        ring == [t EXCEPT !.ss = whichquad(@, i)]
        behind == AckBehind(ring, i)
        segs == ring.ss[i].segs
        covered == {s \in segs : s.first < ack}
        fresh == {s \in covered : s.acked = 0}
        tops == {s \in covered : s.last + 1 = ack}
        dup == IsDuplicate(t, twin, ack, len, win)
        Acked(s) == IF s.acked = 0 THEN 1
                    ELSE IF s \in tops /\ dup THEN s.acked + 1 ELSE 1
        marked == (segs \ covered) \cup {[s EXCEPT !.acked = Acked(s)] : s \in covered}
        earlier == {u.time : u \in {v \in ring.ss[Before(i)].segs : v.acked = 0}
                                  \cup covered}
        counted == [behind EXCEPT
                      !.ss[i].segs = IF fresh = {} THEN marked ELSE collapse_quad(marked),
                      !.rtt_cumack = @ + Cardinality(fresh \ tops)]
        top == CHOOSE s \in tops : TRUE
    IN  CASE fresh \cap tops # {} ->
               rtt_ackin(counted, top, \E x \in earlier : x > top.time, now)
          [] fresh \cap tops = {} /\ tops # {} /\ dup ->
               [tcb |-> [counted EXCEPT !.rtt_dupack = @ + 1,
                            !.rtt_triple_dupack = @ + (IF top.acked = 3 THEN 1 ELSE 0)],
                ret |-> IF top.acked = 3 THEN "TRIPLE" ELSE "CUMUL"]
          [] OTHER -> [tcb |-> counted, ret |-> IF fresh = {} THEN "none" ELSE "CUMUL"]

\* Whether a retransmission at seq follows a time out: fewer than four
\* acknowledgements of what is before it.
IsRTO(ss, seq) ==
    \A s \in whichquad(ss, QUADNUM(seq))[QUADNUM(seq)].segs :
        s.last + 1 = seq => s.acked < 4
=============================================================================
