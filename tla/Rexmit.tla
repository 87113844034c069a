------------------------------- MODULE Rexmit -------------------------------
(***************************************************************************)
(* One direction of a TCP connection as dotrace feeds it to rexmit.c: data *)
(* in any order a window allows, with holes, repetitions and late packets, *)
(* and acknowledgements, late and duplicate ones too.                      *)
(*                                                                         *)
(* The environment counts the bytes of the stream from 0, the first at     *)
(* sequence number Isn; the code sees them modulo SeqSize.                 *)
(***************************************************************************)
EXTENDS Seqspace

CONSTANTS
    Isn,         \* the first sequence number of the stream
    Window,      \* bytes a sender has outstanding at most
    Late,        \* bytes a late packet lies behind the window at most
    MaxStream,   \* bound: bytes of the stream
    MaxLen,      \* bound: bytes of a packet
    MaxPackets   \* bound: packets of the capture

\* What of the stream can still show up fits into one quadrant.
ASSUME RexmitAssumption ==
    /\ Isn \in Seqnum /\ {Window, MaxStream, MaxLen, MaxPackets} \subseteq Nat
    /\ Late \in Nat /\ Window + Late <= QuadSize

VARIABLES
    tcb,       \* the control block of the direction
    una,       \* environment: the bytes acknowledged so far
    nxt,       \* environment: the end of the data sent so far
    sends,     \* history: how often each byte of the stream was sent
    packets,   \* packets so far, and the time of the last one
    verdict    \* history: what the last packet was found to be

rexmitVars == <<tcb, una, nxt, sends, packets, verdict>>

Stream == 0..(MaxStream - 1)
NumberOf(x) == (Isn + x) % SeqSize
NoVerdict == [bytes |-> {}, before |-> {}, rexlen |-> 0, sample |-> {}]

\* The block of the direction, with data outstanding for IsDuplicate.
EmptyTcb ==
    [f \in DOMAIN RttFields \cup {"ss", "owin_tot"} |->
        CASE f = "ss" -> NewSeqspace [] f = "owin_tot" -> 1 [] OTHER -> 0]

RexmitInit ==
    /\ tcb = EmptyTcb
    /\ una = 0 /\ nxt = 0 /\ sends = [x \in Stream |-> 0]
    /\ packets = 0 /\ verdict = NoVerdict

\* The bytes from x on: new ones, with or without a hole, or old ones.
Send(x, len) ==
    LET bytes == x..(x + len - 1)
        r == rexmit(tcb, NumberOf(x), len, packets + 1)
    IN  /\ packets < MaxPackets /\ x + Late >= una /\ x + len <= una + Window
        /\ bytes \subseteq Stream
        /\ tcb' = r.tcb
        /\ packets' = packets + 1
        /\ nxt' = Max({nxt, x + len})
        /\ sends' = [y \in Stream |-> sends[y] + (IF y \in bytes THEN 1 ELSE 0)]
        /\ verdict' = [bytes |-> bytes, before |-> {y \in bytes : sends[y] > 0},
                       rexlen |-> r.rexlen, sample |-> {}]
        /\ UNCHANGED una

\* The segment an acknowledgement of everything before x ends with, as bytes:
\* those of the stream's last QuadSize before x.
Sampled(x) ==
    LET tops == {s \in tcb.ss[QUADNUM(NumberOf(x))].segs : s.last + 1 = NumberOf(x)}
    IN  {y \in Stream : \E s \in tops : NumberOf(y) \in Bytes(s) /\ y < x /\ x <= y + QuadSize}

Acknowledge(x) ==
    LET twin == [ack |-> NumberOf(una), win_last |-> 0]
        r == ack_in(tcb, twin, NumberOf(x), 0, 0, packets + 1)
        sample == IF r.ret = "NORMAL" THEN Sampled(x) ELSE {}
    IN  /\ packets < MaxPackets /\ x + Late >= una /\ x <= nxt
        /\ tcb' = r.tcb
        /\ packets' = packets + 1
        /\ una' = Max({una, x})
        /\ verdict' = [NoVerdict EXCEPT !.sample = sample]
        /\ UNCHANGED <<nxt, sends>>

RexmitNext ==
    \/ \E x \in Stream, len \in 1..MaxLen : Send(x, len)
    \/ \E x \in 0..MaxStream : Acknowledge(x)

RexmitSpec == RexmitInit /\ [][RexmitNext]_rexmitVars

-----------------------------------------------------------------------------
(* Three quadrants in a row exist, linked to each other and to nothing     *)
(* else: whichquad never leaves a pointer to a quadrant it has freed.      *)
RingIsWhole ==
    \A i \in Index :
        /\ tcb.ss[i].next => tcb.ss[After(i)].there /\ tcb.ss[After(i)].prev
        /\ tcb.ss[i].prev => tcb.ss[Before(i)].there /\ tcb.ss[Before(i)].next
        /\ ~(tcb.ss[i].there /\ tcb.ss[Opposite(i)].there
             /\ tcb.ss[After(i)].there /\ tcb.ss[Before(i)].there)

\* Every byte sent and not acknowledged is in exactly one segment, across
\* the boundaries of quadrants and the wrap of the sequence space.
OutstandingIsRecorded ==
    \A x \in una..(nxt - 1) :
        Cardinality({s \in UNION {tcb.ss[i].segs : i \in Index} : NumberOf(x) \in Bytes(s)})
          = IF sends[x] > 0 THEN 1 ELSE 0

(* Nothing that was sent is forgotten, in no hole and across no wrap of the *)
(* sequence space, so rexmit can say how many bytes of a packet were sent   *)
(* before, and does so exactly (rexmit.c, 72-79).                           *)
RexmitIsExact ==
    OutstandingIsRecorded /\ verdict.rexlen = Cardinality(verdict.before)

(***************************************************************************)
(* Karn: a round trip is sampled only from bytes that were sent once, as   *)
(* long as no count of retransmissions can have wrapped (tcptrace.h, the   *)
(* u_char retrans; rexmit.c, 460-500).                                     *)
(***************************************************************************)
SamplesAreUnambiguous ==
    packets <= CountLimit => \A x \in verdict.sample : sends[x] = 1

-----------------------------------------------------------------------------
(* The inductive invariant behind the proofs.                              *)

SegmentType == [first : Nat, last : Nat, time : Nat, retrans : Nat, acked : Nat]

\* The segments of quadrant i lie in it and do not overlap.
SegmentsInv(segs, i) ==
    /\ segs \subseteq SegmentType
    /\ \A s \in segs : QuadSize * i <= s.first /\ s.first <= s.last /\ s.last <= LAST_SEQ(i)
    /\ \A s, u \in segs : s # u => s.last < u.first \/ u.last < s.first

SeqspaceInv(ss) ==
    /\ ss \in [Index -> [segs : SUBSET SegmentType, prev : BOOLEAN, next : BOOLEAN, there : BOOLEAN]]
    /\ \A i \in Index : SegmentsInv(ss[i].segs, i)

\* The quadrants around c, the one whichquad was asked for last.
Ring(ss, c) ==
    /\ ss[c].there /\ ss[c].prev /\ ss[c].next
    /\ ss[After(c)].there /\ ss[After(c)].prev /\ ~ss[After(c)].next
    /\ ss[Before(c)].there /\ ~ss[Before(c)].prev /\ ss[Before(c)].next
    /\ ss[Opposite(c)] = NoQuad

\* The quadrant of byte y, counted over all turns of the sequence space.
QuadOf(y) == (Isn + y) \div QuadSize
Near(y, p) == QuadOf(y) \in {QuadOf(p) - 1, QuadOf(p), QuadOf(p) + 1}

(***************************************************************************)
(* What is recorded around byte p after k packets: every byte that can     *)
(* still show up and was sent, and nothing that was not sent; a segment    *)
(* neither repeated nor acknowledged has bytes that were sent once.        *)
(***************************************************************************)
RecordInv(ss, snd, low, p, k) ==
    /\ \A i \in Index : \A s \in ss[i].segs : \A n \in Bytes(s) :
           \E y \in Stream :
               /\ NumberOf(y) = n /\ Near(y, p) /\ snd[y] > 0
               /\ k <= CountLimit /\ s.retrans = 0 /\ s.acked = 0 => snd[y] = 1
    /\ \A y \in Stream : snd[y] > 0 /\ y + Late >= low =>
           NumberOf(y) \in Recorded(ss[QuadOf(y) % 4].segs)

WindowInv ==
    /\ una \in Nat /\ nxt \in Nat /\ packets \in Nat /\ sends \in [Stream -> Nat]
    /\ una <= nxt /\ nxt <= MaxStream /\ nxt <= una + Window
    /\ \A y \in Stream : sends[y] > 0 => y < nxt

\* Before the first packet there is no ring; after it, p is where the last one
\* was, and so within the window.
RecordsInv ==
    \/ tcb.ss = NewSeqspace /\ \A y \in Stream : sends[y] = 0
    \/ \E p \in 0..MaxStream :
           /\ p + Late >= una /\ p <= una + Window
           /\ Ring(tcb.ss, QuadOf(p) % 4)
           /\ RecordInv(tcb.ss, sends, una, p, packets)

CountsInv ==
    packets <= CountLimit => \A i \in Index : \A s \in tcb.ss[i].segs : s.retrans < packets

VerdictInv ==
    /\ verdict.rexlen = Cardinality(verdict.before)
    /\ SamplesAreUnambiguous

RexmitInv ==
    "ss" \in DOMAIN tcb /\ SeqspaceInv(tcb.ss) /\ WindowInv /\ RecordsInv /\ CountsInv /\ VerdictInv
=============================================================================
