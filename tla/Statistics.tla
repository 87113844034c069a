----------------------------- MODULE Statistics -----------------------------
(***************************************************************************)
(* The modules of tcptrace that count while it reads: traffic (counters    *)
(* per port and interval, mod_traffic.c), slice (a row per interval,       *)
(* mod_slice.c) and realtime (open connections, mod_realtime.c).  Each     *)
(* hears of a connection at its first packet, then of every packet, and    *)
(* realtime of connections that are removed.                               *)
(***************************************************************************)
EXTENDS Integers, Sequences, FiniteSets, SequencesExt, FiniteSetsExt, TLC

CONSTANTS
    Pairs,          \* bound: the connections, each <<a_port, b_port>>; port 0 is none
    Excluded,       \* the ports that are excluded with -p
    AgeInterval,    \* age_interval of traffic
    LongDuration,   \* longconn_duration
    SliceInterval,  \* slice_interval
    Update,         \* realtime_update_interval
    Gaps,           \* bound: the times between packets
    MaxPackets      \* bound: packets of a capture

Conns == DOMAIN Pairs
PortNumbers == UNION {{Pairs[c][1], Pairs[c][2]} : c \in Conns}
Total == 0

ASSUME StatisticsAssumption ==
    /\ Total \notin PortNumbers /\ Excluded \subseteq PortNumbers
    /\ {AgeInterval, SliceInterval, Update} \subseteq Nat \ {0} /\ Gaps \subseteq Nat

VARIABLES
    clock,      \* current_time, the time of the last packet
    ptp,        \* per connection, what dotrace has counted; removed ones stay in log
    traffic,    \* the ports, the conn_info and the totals of traffic
    slice,      \* the counters of this slice, its end, and the rows that were written
    realtime,   \* the list of connections and the counters of realtime
    log,        \* history: the packets
    aged        \* history: the counters AgeTraffic plotted, and since when they count

statisticsVars == <<clock, ptp, traffic, slice, realtime, log, aged>>

Add(n, yes) == IF yes THEN n + 1 ELSE n
Both(f) == f[1] > 0 /\ f[2] > 0

-----------------------------------------------------------------------------
(* mod_traffic.c.                                                          *)

MakeTrafficRec ==
    [nbytes |-> 0, ttlbytes |-> 0, npackets |-> 0, nactive |-> 0, ttlactive |-> 0,
     nidle |-> 0, nopen |-> 0, nlong |-> 0, n_i_open |-> 0]
MakeConnRec ==
    [wasactive |-> FALSE, wasopen |-> FALSE, isopen |-> FALSE, islong |-> FALSE,
     halfopen |-> FALSE, last_rexmits |-> 0]

TrafficInit ==
    [ports |-> [p \in {Total} \cup PortNumbers |-> MakeTrafficRec], conns |-> <<>>,
     aged |-> 0, last_time |-> 0, num_opens |-> 0, num_closes |-> 0, open_conns |-> 0,
     num_halfopens |-> 0, rexmits |-> 0, data_all |-> 0, data_nonrexmit |-> 0, crashed |-> FALSE]

\* The counters a port of a connection goes to; an excluded one has none.
FindPort(p) == IF p \in Excluded THEN {} ELSE {p}
Included(c) == \E i \in {1, 2} : FindPort(Pairs[c][i]) # {}

\* How often a port is named by the ports of a connection that are not excluded.
Named(c, p) ==
    IF p = Total THEN 1
    ELSE Cardinality({i \in {1, 2} : Pairs[c][i] = p /\ FindPort(p) # {}})

Count(t, c, field, n) ==
    [t EXCEPT !.ports = [p \in DOMAIN @ |-> [@[p] EXCEPT ![field] = @ + n * Named(c, p)]]]

\* Instantaneous opens and closes.
DoplotIOpen(t, c, fopen) == Count(t, c, "n_i_open", IF fopen THEN 1 ELSE -1)

\* Bidirectional: it is open.
Opened(t, c, p) ==
    IF t.conns[c].wasopen \/ ~Both(p.packets) THEN t
    ELSE DoplotIOpen([t EXCEPT !.conns[c].wasopen = TRUE, !.conns[c].isopen = TRUE,
                               !.num_opens = @ + 1, !.open_conns = @ + 1], c, TRUE)

Closed(t, c, p, k) ==
    IF ~(k.rst \/ (k.fin /\ Both(p.fins))) \/ ~t.conns[c].isopen THEN t
    ELSE DoplotIOpen([t EXCEPT !.conns[c].isopen = FALSE, !.num_closes = @ + 1,
                               !.open_conns = @ - 1], c, FALSE)

\* A reset does not end that a connection is half open.
HalfOpen(t, c, p, k) ==
    LET half == t.conns[c].halfopen
    IN  CASE k.fin /\ Both(p.fins) /\ half ->
               [t EXCEPT !.conns[c].halfopen = FALSE, !.num_halfopens = @ - 1]
          [] k.fin /\ ~Both(p.fins) /\ ~half ->
               [t EXCEPT !.conns[c].halfopen = TRUE, !.num_halfopens = @ + 1]
          [] OTHER -> t

Losses(t, c, p, k) ==
    LET again == t.conns[c].last_rexmits # p.rexmits
    IN  [t EXCEPT !.conns[c].last_rexmits = p.rexmits,
                  !.rexmits = Add(@, again), !.data_all = @ + k.bytes,
                  !.data_nonrexmit = @ + (IF again THEN 0 ELSE k.bytes)]

\* The open, active and long connections go to their ports.  An open one counts
\* as idle, active or not: wasactive has been reset when it is looked at.
Roll(t, c) ==
    LET i == t.conns[c]
        active == IF i.wasactive THEN Count(t, c, "nactive", 1) ELSE t
        open == IF ~i.isopen THEN active
                ELSE LET long == IF i.islong THEN Count(active, c, "nlong", 1) ELSE active
                     IN  Count(Count(long, c, "nopen", 1), c, "nidle", 1)
    IN  [open EXCEPT !.conns[c].wasactive = FALSE]

RollAll(t) == FoldLeft(Roll, t, [k \in DOMAIN t.conns |-> k])

\* The first time does not count, nor does one at the same time.
AgeTraffic(t, now) ==
    IF t.aged \in {0, now} THEN [t EXCEPT !.aged = now]
    ELSE LET rolled == RollAll(t)
         IN  [rolled EXCEPT
                !.aged = now,
                !.ports = [p \in DOMAIN @ |->
                    [@[p] EXCEPT !.ttlbytes = @ + rolled.ports[p].nbytes, !.nbytes = 0,
                                 !.npackets = 0, !.nactive = 0, !.nidle = 0, !.nopen = 0,
                                 !.nlong = 0]]]

\* The part of traffic_read before the samples are aged.
traffic_read(t, c, p, k, now) ==
    IF ~Included(c) THEN t
    ELSE LET opened == Opened([t EXCEPT !.conns[c].wasactive = TRUE], c, p)
             counted == Count(Count(opened, c, "nbytes", k.bytes), c, "npackets", 1)
             closed == HalfOpen(Closed(counted, c, p, k), c, p, k)
         IN  [Losses(closed, c, p, k) EXCEPT
                !.conns[c].islong = @ \/ now - p.first_time > LongDuration]

\* With a capture of less than a second the report divides by zero.
traffic_done(t, now) ==
    LET active == FoldLeft(LAMBDA u, c : Count(u, c, "ttlactive", 1), t,
                           [k \in DOMAIN t.conns |-> k])
        start == IF log = <<>> THEN now ELSE log[1].time
    IN  [AgeTraffic(active, now) EXCEPT !.crashed = now = start]

-----------------------------------------------------------------------------
(* mod_slice.c.                                                            *)

NoCounters == [n_active |-> 0, n_opens |-> 0, n_bytes |-> 0, n_segs |-> 0,
               n_rexmit_bytes |-> 0, n_rexmit_segs |-> 0]
SliceInit == [info |-> NoCounters, conns |-> <<>>, number |-> 1, next_time |-> 0, rows |-> <<>>]

AgeSlice(s, now) ==
    [s EXCEPT !.rows = Append(@, s.info @@ [until |-> now]),
              !.info = NoCounters, !.number = @ + 1]

\* Faulty variant: after a silence one row is written for all of it.
CatchUpOnce(s, now) ==
    IF now < s.next_time THEN s
    ELSE [AgeSlice(s, s.next_time) EXCEPT !.next_time = @ + SliceInterval]

\* A row for each interval that is over.
CatchUp(s, now) ==
    LET over == IF now < s.next_time THEN 0 ELSE (now - s.next_time) \div SliceInterval + 1
    IN  FoldLeft(LAMBDA u, k : [AgeSlice(u, u.next_time) EXCEPT !.next_time = @ + SliceInterval],
                 s, [k \in 1..over |-> k])

slice_read(s, c, p, k, now) ==
    LET begun == IF s.next_time = 0 THEN [s EXCEPT !.next_time = now + SliceInterval] ELSE s
        u == CatchUp(begun, now)
        again == u.conns[c].last_rexmits # p.rexmits
        new == u.conns[c].last_active_slice # u.number
        i == u.info
    IN  [u EXCEPT
          !.conns[c] = [last_rexmits |-> p.rexmits, last_active_slice |-> u.number],
          !.info = [i EXCEPT !.n_segs = @ + 1, !.n_bytes = @ + k.bytes,
                             !.n_rexmit_segs = Add(@, again),
                             !.n_rexmit_bytes = @ + (IF again THEN k.bytes ELSE 0),
                             !.n_active = Add(@, new)]]

slice_newconn(s) ==
    [s EXCEPT !.info.n_opens = @ + 1,
              !.conns = Append(@, [last_rexmits |-> 0, last_active_slice |-> 0])]

-----------------------------------------------------------------------------
(* mod_realtime.c.                                                         *)

RealtimeInit == [list |-> <<>>, closed |-> {}, open_conns |-> 0, total_conns |-> 0,
                 scheduled |-> 0, reports |-> <<>>]

realtime_newconn(r, c, now) ==
    [r EXCEPT !.list = Append(@, c), !.open_conns = @ + 1, !.total_conns = @ + 1,
              !.scheduled = IF @ = 0 THEN now ELSE @]

realtime_deleteconn(r, c) ==
    [r EXCEPT !.list = SelectSeq(@, LAMBDA d : d # c),
              !.open_conns = IF c \in r.closed THEN @ ELSE @ - 1]

\* One FIN closes it here.  A report is due every Update, and each packet gives
\* at most one.
realtime_read(r, c, p, now) ==
    LET closes == c \notin r.closed /\ (p.fins # <<0, 0>> \/ p.resets > 0)
        open == IF closes THEN r.open_conns - 1 ELSE r.open_conns
        due == now - r.scheduled >= Update
    IN  [r EXCEPT !.closed = IF closes THEN @ \cup {c} ELSE @, !.open_conns = open,
                  !.scheduled = IF due THEN @ + Update ELSE @,
                  !.reports = IF due THEN Append(@, [time |-> now, open |-> open]) ELSE @]

-----------------------------------------------------------------------------
(* The packets.                                                            *)

NewPtp(now) == [packets |-> <<0, 0>>, fins |-> <<0, 0>>, resets |-> 0, rexmits |-> 0,
                first_time |-> now, last_time |-> now, removed |-> FALSE]

StatisticsInit ==
    /\ clock = 1 /\ ptp = <<>> /\ log = <<>> /\ aged = [since |-> 0, rows |-> <<>>]
    /\ traffic = TrafficInit /\ slice = SliceInit /\ realtime = RealtimeInit

\* Data, data again, the end of a stream, or a reset.  Only one of the ends resets or
\* repeats, which of them does not matter here, but either may be heard first.
Plain == [bytes |-> 2, again |-> FALSE, fin |-> FALSE, rst |-> FALSE]
Fin == [Plain EXCEPT !.bytes = 1, !.fin = TRUE]
PacketKinds(from) ==
    {Plain, Fin} \cup IF from = 1 THEN {[Plain EXCEPT !.again = TRUE],
                                        [Plain EXCEPT !.bytes = 1, !.rst = TRUE]} ELSE {}

Packet(c, from, k, gap) ==
    LET now == clock + gap
        new == c = Len(ptp) + 1
        known == IF new THEN Append(ptp, NewPtp(now)) ELSE ptp
        p == [known[c] EXCEPT !.packets[from] = @ + 1, !.fins[from] = Add(@, k.fin),
                              !.resets = Add(@, k.rst), !.rexmits = Add(@, k.again), !.last_time = now]
        t0 == IF new THEN [traffic EXCEPT !.conns = Append(@, MakeConnRec)] ELSE traffic
        t1 == traffic_read(t0, c, p, k, now)
        ages == Included(c) /\ now - t1.last_time > AgeInterval
        rolled == RollAll(t1)
    IN  /\ ~traffic.crashed
        /\ Len(log) < MaxPackets
        /\ c \in Conns /\ ((c \in DOMAIN ptp /\ ~ptp[c].removed) \/ (new /\ k = Plain))
        /\ clock' = now
        /\ ptp' = [known EXCEPT ![c] = p]
        /\ log' = Append(log, [conn |-> c, from |-> from, kind |-> k, time |-> now])
        /\ traffic' = IF ages THEN [AgeTraffic(t1, now) EXCEPT !.last_time = now] ELSE t1
        /\ aged' = IF ~ages \/ t1.aged = 0 THEN aged
                   ELSE [since |-> Len(log) + 1,
                         rows |-> Append(aged.rows,
                             [ports |-> rolled.ports, log |-> <<aged.since + 1, Len(log) + 1>>,
                              isopen |-> {d \in DOMAIN rolled.conns : rolled.conns[d].isopen}])]
        /\ slice' = slice_read(IF new THEN slice_newconn(slice) ELSE slice, c, p, k, now)
        /\ realtime' = realtime_read(IF new THEN realtime_newconn(realtime, c, now) ELSE realtime,
                                     c, p, now)

\* FindTTP removes a connection that is closed or idle: only realtime hears of it.
RemoveOld(c) ==
    /\ c \in DOMAIN ptp /\ ~ptp[c].removed /\ Len(log) < MaxPackets
    /\ ptp[c].fins # <<0, 0>> \/ ptp[c].resets > 0 \/ ptp[c].last_time < clock
    /\ ptp' = [ptp EXCEPT ![c].removed = TRUE]
    /\ realtime' = realtime_deleteconn(realtime, c)
    /\ UNCHANGED <<clock, traffic, slice, log, aged>>

\* The capture is over.
FinishModules ==
    /\ Len(log) = MaxPackets /\ traffic.aged # -1
    /\ traffic' = [traffic_done(traffic, clock) EXCEPT !.aged = -1]
    /\ slice' = AgeSlice(slice, clock)
    /\ UNCHANGED <<clock, ptp, realtime, log, aged>>

StatisticsNext ==
    \/ \E c \in Conns, from \in {1, 2}, gap \in Gaps : \E k \in PacketKinds(from) : Packet(c, from, k, gap)
    \/ \E c \in Conns : RemoveOld(c)
    \/ FinishModules

StatisticsSpec == StatisticsInit /\ [][StatisticsNext]_statisticsVars

-----------------------------------------------------------------------------
(* What the counters should be, from the packets.                          *)

SumOver(S, f(_)) == FoldSet(LAMBDA x, n : n + f(x), 0, S)
Read == {i \in DOMAIN log : Included(log[i].conn)}

\* A connection is open from when both ends have been heard until it is reset or
\* both have closed, and never again after.
IsOpen(c) ==
    LET mine == {i \in DOMAIN log : log[i].conn = c}
        fins(i) == {log[j].from : j \in {j \in mine : j <= i /\ log[j].kind.fin}}
        both == {i \in mine : {log[j].from : j \in {j \in mine : j <= i}} = {1, 2}}
        closes == {i \in both : log[i].kind.rst \/ (log[i].kind.fin /\ fins(i) = {1, 2})}
    IN  Included(c) /\ both # {} /\ closes = {}

\* The counters of traffic are those of the packets: bytes of each port and in
\* total; the connections that are open, in all and per port, however they were
\* closed; and where AgeTraffic draws them, active are the connections that had a
\* packet since it last did.  Drawn as idle are all open ones (918-937).
TrafficAddsUp ==
    /\ \A p \in DOMAIN traffic.ports :
         LET port == traffic.ports[p]
         IN  /\ ~traffic.crashed =>
                  port.ttlbytes + port.nbytes =
                    SumOver(Read, LAMBDA i : log[i].kind.bytes * Named(log[i].conn, p))
             /\ port.n_i_open = SumOver({c \in DOMAIN ptp : IsOpen(c)}, LAMBDA c : Named(c, p))
    /\ traffic.open_conns = Cardinality({c \in DOMAIN ptp : IsOpen(c)})
    /\ traffic.num_opens - traffic.num_closes = traffic.open_conns
    /\ \A k \in DOMAIN aged.rows :
         LET row == aged.rows[k]
             active == {log[i].conn : i \in {i \in Read : i \in row.log[1]..row.log[2]}}
         IN  \A p \in DOMAIN row.ports :
               /\ row.ports[p].nactive = SumOver(active, LAMBDA c : Named(c, p))
               /\ row.ports[p].nidle = SumOver(row.isopen, LAMBDA c : Named(c, p))

\* Each row of slice has the packets, the retransmitted ones and the connections
\* of its interval, also when nothing came for several, or a connection was
\* active in some and not in others.  A new connection whose first packet begins
\* a slice counts in the one before it (its opening is heard first).
SlicesAddUp ==
    LET start == IF log = <<>> THEN 0 ELSE log[1].time
    IN  /\ \A n \in DOMAIN slice.rows :
             LET row == slice.rows[n]
                 from == start + (n - 1) * SliceInterval
                 mine == {i \in DOMAIN log : log[i].time \in from..(from + SliceInterval - 1)}
                 again == {i \in mine : log[i].kind.again}
             IN  /\ row.until <= from + SliceInterval
                 /\ row.n_segs = Cardinality(mine)
                 /\ row.n_bytes = SumOver(mine, LAMBDA i : log[i].kind.bytes)
                 /\ row.n_rexmit_segs = Cardinality(again)
                 /\ row.n_rexmit_bytes = SumOver(again, LAMBDA i : log[i].kind.bytes)
                 /\ row.n_active = Cardinality({log[i].conn : i \in mine})
        /\ SumOver(DOMAIN slice.rows, LAMBDA n : slice.rows[n].n_opens) + slice.info.n_opens
             = Len(ptp)

\* realtime's list is the connections that were not removed, in the order they
\* came; the number it reports as open is that of those without a FIN or a reset,
\* whichever of closing and removal comes first.
OpenConnsAreOpen ==
    /\ realtime.list = SelectSeq([c \in DOMAIN ptp |-> c], LAMBDA c : ~ptp[c].removed)
    /\ realtime.open_conns =
         Cardinality({c \in DOMAIN ptp : /\ ~ptp[c].removed /\ ptp[c].resets = 0
                                         /\ ptp[c].fins = <<0, 0>>})
    /\ realtime.total_conns = Len(ptp)

StatisticsAddUp == TrafficAddsUp /\ SlicesAddUp /\ OpenConnsAreOpen
=============================================================================
