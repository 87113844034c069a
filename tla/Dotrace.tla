------------------------------ MODULE Dotrace ------------------------------
(***************************************************************************)
(* What tcptrace makes of one packet of a TCP connection: dotrace of       *)
(* tcptrace-src/trace.c and DoThru of thruput.c, with the options          *)
(* python-src/main.py gives (-nlj: long output and the time series).       *)
(*                                                                         *)
(* A stage of dotrace is an operator on a record d: the control block of   *)
(* the sender (me), that of its twin (peer), what the packet was found to  *)
(* be, and the rows written to the series.  Plots, sums of squares, IPv6   *)
(* and urgent data are left out.  Sequence numbers (tcp_seq, seqnum) are   *)
(* modulo SeqSize; start and end are u_long and do not wrap.               *)
(***************************************************************************)
EXTENDS Seqspace, Sequences, TLC

CONSTANTS
    LongSize,     \* an unsigned long is modulo this
    Second,       \* ticks of a second
    Remembered    \* SEGS_TO_REMEMBER, 8 in the code

ASSUME DotraceAssumption ==
    /\ LongSize \in Nat \ {0} /\ Second \in Nat \ {0} /\ Remembered \in Nat \ {0}

Long(n) == n % LongSize
U32(n) == n % SeqSize
Least(a, b) == IF a < b THEN a ELSE b

\* Counters of throughput: the second that is being filled, and the mean.
NewThru == [begun |-> FALSE, bin |-> 0, bin_bytes |-> 0, first |-> 0, bytes |-> 0,
            min |-> 0, max |-> 0, sum |-> 0, count |-> 0]

NoTime == -1
None == -1

\* NewTTP: the control block of a direction nothing was seen of, all counters 0
\* and all flags FALSE.
TcbFlags == {"bad_behavior", "f1323_ws", "fsack_req", "scaled", "in_rto", "data_acked"}

TcbCounters ==
    {"syn_count", "fin_count", "reset_count", "syn", "fin", "ack", "seq", "windowend",
     "idle_max", "seq_wrap_count", "window_scale", "sacks_sent", "data_pkts", "data_bytes",
     "max_seg_size", "min_seg_size", "packets", "win_scaled_pkts", "min_seq", "max_seq",
     "latest_seq", "num_hardware_dups", "trunc_bytes", "trunc_segs", "out_order_pkts",
     "unique_bytes", "rexmit_pkts", "rexmit_bytes", "num_zwnd_probes", "zwnd_probe_bytes",
     "rtt_3WHS", "lastackno", "LEAST", "recovered", "recovered_orig", "rto_segment",
     "event_retrans", "event_dupacks", "win_last", "win_max", "win_min", "win_tot",
     "win_zero_ct", "ack_pkts", "pureack_pkts", "num_sacks", "max_sack_blocks", "num_dsacks",
     "initialwin_bytes", "initialwin_segs", "owin_max", "owin_min", "owin_tot", "owin_count"}

NewTcb ==
    [f \in DOMAIN RttFields \cup TcbCounters \cup TcbFlags
             \cup {"ss", "time", "last_time", "visited", "tcp_strain", "thru", "dups"} |->
        CASE f = "ss" -> NewSeqspace
          [] f \in {"time", "last_time"} -> NoTime
          [] f = "visited" -> {}
          [] f = "tcp_strain" -> "RENO"
          [] f = "thru" -> NewThru
          [] f = "dups" -> <<>>
          [] f \in TcbFlags -> FALSE
          [] OTHER -> 0]

Bump(n) == (n + 1) % CountLimit
If(b, n) == IF b THEN n ELSE 0

\* The range of the data; end is not reduced.
start(p) == p.seq
end(p) == p.seq + p.len

-----------------------------------------------------------------------------
(* The header.                                                             *)

\* The advertised window, scaled if both sides asked for it, never in a SYN.
eff_win(d, p) ==
    IF ~(p.ack \/ p.syn) THEN 0
    ELSE IF d.me.f1323_ws /\ d.peer.f1323_ws /\ ~p.syn
         THEN p.win * 2 ^ d.me.window_scale ELSE p.win

\* Flags and idle time are counted even for a connection that is ignored.
Meta(d, p, now) ==
    [d EXCEPT !.win = eff_win(d, p),
              !.me.syn_count = IF p.syn THEN Bump(@) ELSE @,
              !.me.reset_count = IF p.rst THEN Bump(@) ELSE @,
              !.me.fin_count = IF p.fin THEN Bump(@) ELSE @,
              !.me.idle_max = IF d.me.last_time = NoTime THEN @
                              ELSE Max({@, Elapsed(d.me.last_time, now)}),
              !.me.last_time = now]

Quarters(p) == {QUADNUM(start(p)), QUADNUM(end(p))} \cap Index

\* The space wraps when, all quarters visited, data ends past the SYN again.
Wraps(d, p) ==
    LET wraps == /\ d.me.visited = Index /\ QUADNUM(d.me.syn) = QUADNUM(end(p))
                 /\ end(p) >= d.me.syn
    IN  [d EXCEPT !.me.seq_wrap_count = @ + If(wraps, 1),
                  !.me.visited = (IF wraps THEN {} ELSE @) \cup Quarters(p)]

\* A SYN also tells what its sender expects to be acknowledged; a SYN or a FIN
\* that comes again elsewhere is bad behaviour, and so is a FIN whose data
\* crosses the end of the space: what is kept has 32 bits, end has not.
SequenceLimits(d, p) ==
    LET fin == U32(end(p))
        bad == \/ p.syn /\ d.me.syn_count > 1 /\ d.me.syn # start(p)
               \/ p.fin /\ d.me.fin_count > 1 /\ d.me.fin # end(p)
    IN  [d EXCEPT !.me.bad_behavior = @ \/ bad,
                  !.me.syn = IF p.syn THEN start(p) ELSE @,
                  !.peer.ack = IF p.syn THEN start(p) ELSE @,
                  !.me.fin = IF p.fin THEN fin ELSE @,
                  !.me.windowend = IF p.ack THEN U32(p.ackno + d.win) ELSE @]

\* Options: without both SYNs asking for it there is no scaling; with both
\* asking for selective acknowledgements, TCP is not Reno.
Options(d, p) ==
    LET me == [d.me EXCEPT !.window_scale = IF p.ws # None THEN p.ws ELSE @,
                           !.f1323_ws = @ \/ p.ws # None,
                           !.fsack_req = @ \/ p.sackok,
                           !.sacks_sent = @ + If(Len(p.sacks) > 0, 1)]
        unscaled == ~p.syn /\ ~(me.f1323_ws /\ d.peer.f1323_ws)
        sack == ~p.syn /\ me.fsack_req /\ d.peer.fsack_req
    IN  [d EXCEPT !.me = [me EXCEPT !.window_scale = IF unscaled THEN 0 ELSE @,
                                    !.tcp_strain = IF sack THEN "SACK" ELSE @],
                  !.peer.window_scale = IF unscaled THEN 0 ELSE @,
                  !.peer.tcp_strain = IF sack THEN "SACK" ELSE @]

-----------------------------------------------------------------------------
(* DoThru: bytes per second, per direction.                                *)

\* The second that ends with this packet is written, then forgotten.
Bin(th, now, len) ==
    IF now \div Second >= th.bin + 1
    THEN [th EXCEPT !.bin = now \div Second, !.bin_bytes = len]
    ELSE [th EXCEPT !.bin_bytes = @ + len]

\* The running statistic counts seconds from the first packet; seconds
\* without a packet have a minimum of 1.
Stat(th, now, len) ==
    LET gap == (now - th.first) \div Second
        low == IF th.min = 0 \/ th.min > th.bytes THEN th.bytes ELSE th.min
    IN  IF now < th.first + Second THEN [th EXCEPT !.bytes = @ + len]
        ELSE [th EXCEPT !.min = IF gap < 2 THEN low ELSE 1, !.max = Max({@, th.bytes}),
                        !.sum = @ + th.bytes, !.bytes = len, !.count = @ + gap,
                        !.first = @ + gap * Second]

DoThru(d, len, now) ==
    LET th == d.me.thru
    IN  IF ~th.begun
        THEN [d EXCEPT !.me.thru = [NewThru EXCEPT !.begun = TRUE, !.bytes = len,
                  !.bin = now \div Second, !.bin_bytes = len, !.first = now]]
        ELSE [d EXCEPT !.me.thru = Stat(Bin(th, now, len), now, len),
                       !.bin = IF now \div Second >= th.bin + 1 THEN th.bin_bytes ELSE None]

-----------------------------------------------------------------------------
(* Data.                                                                   *)

DataStats(d, p, now) ==
    LET data == p.len > 0
        counted == [d EXCEPT
            !.me.data_pkts = @ + If(data, 1), !.me.data_bytes = @ + p.len,
            !.me.max_seg_size = Max({@, p.len}),
            !.me.min_seg_size = IF data /\ (@ = 0 \/ p.len < @) THEN p.len ELSE @,
            !.me.packets = @ + 1,
            !.me.win_scaled_pkts = @ + If(d.me.scaled, 1)]
    IN  DoThru(counted, p.len, now)

\* The same sequence number with the same IP id, among the last Remembered;
\* a duplicate is not remembered again.
check_hw_dups(d, p) ==
    LET entry == <<p.seq, p.id>>
        dup == p.seq # 0 /\ p.id # 0 /\ entry \in {d.me.dups[k] : k \in DOMAIN d.me.dups}
        longer == Append(d.me.dups, entry)
    IN  [d EXCEPT !.hw_dup = dup,
                  !.me.num_hardware_dups = @ + If(dup, 1),
                  !.me.dups = IF dup THEN @
                              ELSE IF Len(longer) > Remembered THEN Tail(longer) ELSE longer]

\* max_seq follows SEQ_GREATERTHAN, a comparison of longs.  A truncated
\* packet lacks bytes.
SequenceStats(d, p) ==
    LET first == d.me.min_seq = 0 /\ start(p) # 0
    IN  [d EXCEPT !.me.min_seq = IF first THEN start(p) ELSE @,
                  !.me.max_seq = IF first \/ end(p) > @ THEN U32(end(p)) ELSE @,
                  !.me.latest_seq = U32(end(p)),
                  !.me.trunc_bytes = @ + (p.len - p.saved),
                  !.me.trunc_segs = @ + If(p.len > p.saved, 1)]

\* Faulty variant of unique: the SYN and the FIN count as data.
uniqueWithFlags(d, p, rexlen) == Max({0, p.len + If(p.syn, 1) + If(p.fin, 1) - rexlen})

\* What of the data was not sent before; a repeated SYN or FIN is not data.
unique(d, p, rexlen) ==
    LET again == rexlen - If(p.syn /\ d.me.syn_count > 1, 1)
                        - If(p.fin /\ d.me.fin_count > 1, 1)
    IN  Max({0, p.len - again})

\* What rexmit found of the packet, in its answer r.
Recording(d, p, r) ==
    [d EXCEPT !.rexlen = r.rexlen, !.out_order = r.out_order,
              !.me = [r.tcb EXCEPT !.out_order_pkts = @ + If(r.out_order, 1),
                                   !.unique_bytes = @ + unique(d, p, r.rexlen)]]

\* A packet into a closed window is a probe and is not recorded.
Retransmissions(d, p, now) ==
    LET len == p.len + If(p.syn, 1) + If(p.fin, 1)
        probe == d.peer.win_last = 0 /\ d.peer.packets > 0 /\ ~p.syn
    IN  CASE len = 0 -> d
          [] len > 0 /\ probe ->
               [d EXCEPT !.probe = TRUE, !.me.num_zwnd_probes = @ + 1,
                         !.me.zwnd_probe_bytes = @ + p.len]
          [] OTHER -> Recording(d, p, rexmit(d.me, start(p), len, now))

\* Faulty variant of Acknowledging: any acknowledgement gives the sample.
AcknowledgingLate(d, p, r) ==
    [d EXCEPT !.ack_type = r.ret,
              !.peer = [r.tcb EXCEPT !.lastackno = p.ackno,
                          !.rtt_3WHS = IF r.tcb.syn_count = 1 THEN r.tcb.rtt_last ELSE @]]

\* What ack_in found, in its answer r, and the round trip of the handshake.
Acknowledging(d, p, r) ==
    LET handshake == p.ackno = U32(r.tcb.syn + 1) /\ r.tcb.syn_count = 1
    IN  [d EXCEPT !.ack_type = r.ret,
                  !.peer = [r.tcb EXCEPT !.lastackno = p.ackno,
                              !.rtt_3WHS = IF handshake THEN r.tcb.rtt_last ELSE @]]

RoundTrips(d, p, now) ==
    IF p.ack THEN Acknowledging(d, p, ack_in(d.peer, d.me, p.ackno, p.len, d.win, now)) ELSE d

-----------------------------------------------------------------------------
(* LEAST, the estimate of the retransmissions that were needed.            *)

\* The sender of the packet is recovering from a time out.
LeastSender(d, p) ==
    LET m == d.me
        counted == [m EXCEPT !.event_retrans = @ + If(d.rexlen > 0 /\ p.seq < m.recovered, 1)]
        restarted == IF IsRTO(m.ss, p.seq)
                     THEN [counted EXCEPT !.ss = whichquad(@, QUADNUM(p.seq)),
                              !.recovered = m.seq, !.recovered_orig = m.seq,
                              !.rto_segment = p.seq]
                     ELSE [counted EXCEPT !.ss = whichquad(@, QUADNUM(p.seq))]
    IN  IF ~(m.tcp_strain = "RENO" /\ m.in_rto /\ p.len > 0) THEN d
        ELSE [d EXCEPT !.me = [restarted EXCEPT
                !.recovered = IF d.rexlen = 0 /\ m.ack <= restarted.recovered_orig
                              THEN p.seq ELSE @]]

\* The receiver of the acknowledgement is; lastackno is already this one.
LeastReceiver(d, p) ==
    LET o == d.peer
        spurious == Least(o.event_dupacks, o.event_retrans)
    IN  CASE ~(d.me.tcp_strain = "RENO" /\ o.in_rto /\ p.ack) -> d
          [] d.me.tcp_strain = "RENO" /\ o.in_rto /\ p.ack /\ p.ackno > o.recovered ->
               [d EXCEPT !.peer.LEAST = Long(@ - spurious), !.peer.in_rto = FALSE]
          [] OTHER ->
               [d EXCEPT !.peer.event_dupacks =
                    @ + If(p.ackno = o.lastackno /\ p.ackno >= o.rto_segment, 1)]

\* A retransmission of a Reno sender may begin a recovery.
RexmitStats(d, p) ==
    LET m == d.me
        begins == m.tcp_strain = "RENO" /\ ~m.in_rto /\ IsRTO(m.ss, p.seq)
        begun == [m EXCEPT !.in_rto = TRUE, !.recovered = m.seq, !.recovered_orig = m.seq,
                           !.rto_segment = p.seq, !.event_retrans = 1, !.event_dupacks = 0]
    IN  IF d.rexlen = 0 THEN [d EXCEPT !.me.seq = U32(end(p))]
        ELSE [d EXCEPT !.me = [(IF begins THEN begun ELSE m) EXCEPT
                 !.rexmit_pkts = @ + 1, !.LEAST = @ + 1, !.rexmit_bytes = @ + d.rexlen]]

-----------------------------------------------------------------------------
(* Windows and acknowledgements; none of it for a packet with RST.         *)

\* The first scaled window starts the statistics again.
WindowStats(d, p) ==
    LET m == [d.me EXCEPT !.win_last = d.win, !.win_max = Max({@, d.win})]
        both == d.win > 0 /\ m.f1323_ws /\ d.peer.f1323_ws /\ ~p.syn
        first == both /\ ~m.scaled
    IN  IF ~(p.ack \/ p.syn) THEN [d EXCEPT !.me.win_last = d.win]
        ELSE IF first
        THEN [d EXCEPT !.me = [m EXCEPT !.scaled = TRUE, !.win_min = d.win,
                !.win_max = d.win, !.win_tot = d.win, !.win_scaled_pkts = 1]]
        ELSE [d EXCEPT !.me = [m EXCEPT !.win_tot = @ + d.win,
                !.win_min = IF d.win > 0 /\ (@ = 0 \/ d.win < @) THEN d.win ELSE @]]

\* A selective acknowledgement of what is acknowledged or reported already.
IsDsack(p) ==
    LET a == p.sacks[1]
        b == p.sacks[2]
    IN  \/ a.right <= p.ackno
        \/ Len(p.sacks) > 1 /\ a.right <= b.right /\ a.left >= b.left
        \/ Len(p.sacks) > 1 /\ a.left <= b.left /\ a.right > b.left
        \/ Len(p.sacks) > 1 /\ a.right >= b.right /\ a.left < b.right

Sacks(d, p) ==
    LET dsack == IsDsack(p)
        n == d.me.num_dsacks + If(dsack, 1)
    IN  IF Len(p.sacks) = 0 THEN d
        ELSE [d EXCEPT !.me.num_sacks = @ + 1,
                       !.me.max_sack_blocks = Max({@, Len(p.sacks)}),
                       !.me.num_dsacks = n,
                       !.peer.LEAST = IF dsack /\ @ > 0 THEN @ - 1 ELSE @,
                       !.me.tcp_strain = IF n > 0 THEN "DSACK" ELSE @]

AckStats(d, p, now) ==
    LET pure == p.len = 0 /\ ~p.syn /\ ~p.fin
        counted == [d EXCEPT !.me.win_zero_ct = @ + If(d.win = 0, 1),
                             !.me.ack_pkts = @ + 1,
                             !.me.pureack_pkts = @ + If(pure, 1)]
    IN  IF ~p.ack THEN d
        ELSE [Sacks(counted, p) EXCEPT !.me.time = now, !.me.ack = p.ackno]

\* The initial window: data before anything but the SYN is acknowledged.
InitialWindow(d, p) ==
    LET counts == p.len > 0 /\ ~d.me.data_acked /\ d.rexlen = 0
    IN  [d EXCEPT !.peer.data_acked = @ \/ (p.ack /\ U32(d.peer.syn + 1) # p.ackno),
                  !.me.initialwin_bytes = @ + If(counts, p.len),
                  !.me.initialwin_segs = @ + If(counts, 1)]

\* The congestion window is estimated as what is outstanding, one more with
\* an acknowledgement seen; the difference is that of unsigned longs.
OutstandingWindow(d, p) ==
    LET owin == IF d.peer.ack = 0 THEN p.len ELSE Long(end(p) - (d.peer.ack - 1))
    IN  IF p.syn \/ d.out_order \/ d.rexlen > 0 THEN d
        ELSE [d EXCEPT !.me.owin_max = Max({@, owin}),
                       !.me.owin_min = IF owin > 0 /\ (@ = 0 \/ owin < @) THEN owin ELSE @,
                       !.me.owin_tot = @ + owin, !.me.owin_count = @ + 1]

(* The rows of the events series, as tags; the rest of the row is who and   *)
(* when.  They are written before the acknowledgement is remembered.        *)
Rows(d, p) ==
    LET flag == IF p.syn THEN "SYN" ELSE "FIN"
        same == p.ack /\ ~p.rst /\ d.me.time # NoTime /\ d.me.ack = p.ackno
    IN  {r \in {"OOO", "R", "P", "R SYN", "SYN", "R FIN", "FIN", "RST", "double ACK",
               "triple double ACK"} :
           CASE r = "OOO" -> d.out_order
             [] r = "R" -> d.rexlen > 0 /\ ~p.syn /\ ~p.fin /\ ~d.hw_dup
             [] r = "P" -> d.probe
             [] r = flag -> (p.syn \/ p.fin) /\ ~d.hw_dup /\ d.rexlen = 0
             [] r = "R " \o flag -> (p.syn \/ p.fin) /\ ~d.hw_dup /\ d.rexlen > 0
             [] r = "RST" -> p.rst
             [] r = "double ACK" -> same
             [] r = "triple double ACK" -> same /\ d.ack_type = "TRIPLE"
             [] OTHER -> FALSE}

-----------------------------------------------------------------------------
Header(d, p, now) == Options(SequenceLimits(Wraps(Meta(d, p, now), p), p), p)

Payload(d, p, now) ==
    Retransmissions(SequenceStats(check_hw_dups(DataStats(d, p, now), p), p), p, now)

Estimate(d, p) == RexmitStats(LeastReceiver(LeastSender(d, p), p), p)

Told(d, p) == [d EXCEPT !.rows = Rows(d, p)]

\* The windows and acknowledgements, unless the packet has RST.
Finish(d, p, now) ==
    IF p.rst THEN [d EXCEPT !.me.ack_pkts = @ + If(p.ack, 1)]
    ELSE OutstandingWindow(InitialWindow(AckStats(WindowStats(d, p), p, now), p), p)

\* dotrace: packet p of the direction of me at time now.
dotrace(me, peer, p, now) ==
    LET d == [me |-> me, peer |-> peer, win |-> 0, hw_dup |-> FALSE, probe |-> FALSE,
              rexlen |-> 0, out_order |-> FALSE, ack_type |-> "none", bin |-> None,
              rows |-> {}]
    IN  Finish(Told(Estimate(RoundTrips(Payload(Header(d, p, now), p, now), p, now), p), p),
               p, now)

\* MissingData: the length of a stream from its SYN and its FIN, or from the
\* last data when it was reset.
StreamLength(t) ==
    LET last == IF t.reset_count > 0 THEN t.latest_seq ELSE t.fin
        turns == t.seq_wrap_count + If(last <= t.syn, 1)
    IN  IF t.syn_count > 0 /\ t.fin_count > 0
        THEN last + SeqSize * turns - t.syn - 1 ELSE 0

=============================================================================
