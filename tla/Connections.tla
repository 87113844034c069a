---------------------------- MODULE Connections ----------------------------
(***************************************************************************)
(* How a packet finds its connection: FindTTP and the lists of live and    *)
(* closed connections of tcptrace-src/trace.c, FindUTP of udp.c, and which *)
(* connections the user asked for.                                         *)
(*                                                                         *)
(* A connection is a number, in order of creation; 0 is the null pointer.  *)
(* The hash table is the set of connections that can be found (the tree of *)
(* a bucket is in module Avl).  The lists keep their pointers, as that is  *)
(* where they can break; using a null pointer or one that was freed sets   *)
(* fault.                                                                  *)
(***************************************************************************)
EXTENDS Integers, Sequences, FiniteSets, SequencesExt

CONSTANTS
    Ends,             \* pairs of endpoints
    LiveInterval,     \* remove_live_conn_interval, and the nonreal one
    ClosedInterval,   \* remove_closed_conn_interval
    UpdateInterval,   \* update_interval
    MaxConn,          \* max_conn_num
    FirstMax,         \* the first size of the arrays, 64 in the code
    CountSize,        \* the values of a u_char: flags are counted up to 256
    AnswerWindow,         \* bound: how far the window of an answer reaches
    MaxPairs,         \* bound: connections created
    Bounds,           \* bounds: per mode, the ends, packets and options that are used
    Gaps              \* bound: seconds between packets

ASSUME ConnectionsAssumption ==
    /\ {LiveInterval, ClosedInterval, UpdateInterval, FirstMax, MaxPairs} \subseteq Nat \ {0}
    /\ MaxConn \in Nat /\ MaxConn > 1
    /\ CountSize \in Nat /\ CountSize > 1
    /\ AnswerWindow \in Nat /\ Gaps \subseteq Nat

VARIABLES
    way,       \* "batch", "continuous", "limited" (continuous, limit_conn_num) or "udp"
    pairs,     \* the tcp_pair or udp_pair records
    table,     \* the connections in the hash table; for UDP the bucket, a sequence
    lists,     \* pointers of the live and the closed list, and their counts
    select,    \* the arrays that say which connections to ignore
    asked,     \* what the user asked for: connections to ignore or the only ones
    time,      \* time of the last packet, and of the last update of the lists
    incarnation,  \* environment: per ends, its current connection and its state
    members,   \* history: per pair, the incarnations whose packets it got
    forgotten  \* history: the ends of pairs that ended, until their counts wrapped to 0

connectionsVars ==
    <<way, pairs, table, lists, select, asked, time, incarnation, members, forgotten>>

Null == 0
Continuous == way \in {"continuous", "limited"}
Limited == way = "limited"
Batch == way = "batch"

NoBlock == [syn_count |-> 0, fin_count |-> 0, reset_count |-> 0, syn |-> 0, windowend |-> 0]
NewPair(e, a, ignored) ==
    [ends |-> e, a |-> a, block |-> <<NoBlock, NoBlock>>, last_time |-> 0,
     inactive |-> FALSE, ignored |-> ignored]

-----------------------------------------------------------------------------
(* Which connections to ignore.                                            *)

\* Four times the size, until it is no less than what is needed.
Enlarged(max, needed) ==
    LET size[n \in 0..needed] ==
          IF n = 0 THEN 4 * max ELSE IF size[n - 1] < needed THEN 4 * size[n - 1] ELSE size[n - 1]
    IN  size[needed]

\* Faulty variant of MoreTcpPairs: the new places are not set.
MoreTcpPairsPlain(s, needed) ==
    IF needed < s.max THEN s
    ELSE [s EXCEPT !.max = Enlarged(s.max, needed),
                   !.ignore = [k \in 1..Enlarged(s.max, needed) |-> k <= s.max /\ @[k]]]

\* Once only some connections are wanted, the places that are new are ignored.
MoreTcpPairs(s, needed) ==
    IF needed < s.max THEN s
    ELSE [s EXCEPT !.max = Enlarged(s.max, needed),
                   !.ignore = [k \in 1..Enlarged(s.max, needed) |->
                                 IF k <= s.max THEN @[k] ELSE s.more]]

\* Option -i and option -o; ix counts from 1.  Only the first -o clears.
IgnoreConn(s, ix) == [MoreTcpPairs(s, ix - 1) EXCEPT !.more = FALSE, !.ignore[ix] = TRUE]

OnlyConn(s, ix) ==
    LET big == MoreTcpPairs(s, ix - 1)
        all == IF s.cleared THEN big.ignore ELSE [k \in 1..big.max |-> TRUE]
    IN  [max |-> big.max, ignore |-> [all EXCEPT ![ix] = FALSE], more |-> TRUE, cleared |-> TRUE]

NewSelect == [max |-> FirstMax, ignore |-> [k \in 1..FirstMax |-> FALSE], more |-> FALSE,
              cleared |-> FALSE]

-----------------------------------------------------------------------------
(* The two lists, most recent first.                                       *)

Places == 1..(MaxPairs + 1)

NewLists ==
    [head |-> [live |-> Null, closed |-> Null], tail |-> [live |-> Null, closed |-> Null],
     count |-> [live |-> 0, closed |-> 0], next |-> [p \in Places |-> Null],
     prev |-> [p \in Places |-> Null], gone |-> {}, fault |-> FALSE]

Broken(l, p) == p = Null \/ p \in l.gone
SetNext(l, p, q) ==
    IF Broken(l, p) THEN [l EXCEPT !.fault = TRUE] ELSE [l EXCEPT !.next[p] = q]
SetPrev(l, p, q) ==
    IF Broken(l, p) THEN [l EXCEPT !.fault = TRUE] ELSE [l EXCEPT !.prev[p] = q]

\* A connection becomes the head of a list.
Push(l, k, p) ==
    LET old == l.head[k]
        linked == IF old = Null THEN [l EXCEPT !.tail[k] = p] ELSE SetPrev(l, old, p)
    IN  [SetPrev(SetNext(linked, p, old), p, Null) EXCEPT !.head[k] = p]

\* The neighbours a and b become neighbours of each other.
Joined(l, a, b) ==
    IF b = Null THEN SetNext(l, a, b) ELSE SetPrev(SetNext(l, a, b), b, a)

\* Faulty variant of Detached: the tail stays.
DetachedTail(l, k, p) == Joined(l, l.prev[p], l.next[p])

\* A connection that is not the head is taken out.
Detached(l, k, p) ==
    [Joined(l, l.prev[p], l.next[p]) EXCEPT !.tail[k] = IF @ = p THEN l.prev[p] ELSE @]

ToFront(l, k, p) ==
    [SetPrev(l, l.head[k], p) EXCEPT
        !.next[p] = l.head[k], !.prev[p] = Null, !.head[k] = p]

HeadLeaves(l, k, p) ==
    LET out == [l EXCEPT !.head[k] = l.next[p]]
    IN  IF l.tail[k] = p THEN [out EXCEPT !.tail[k] = Null] ELSE SetPrev(out, l.next[p], Null)

\* The connection moves to the front (valid), or leaves the list.
UpdateConnList(l, k, p, valid) ==
    CASE p = l.head[k] /\ valid -> l
      [] p = l.head[k] /\ ~valid -> HeadLeaves(l, k, p)
      [] p # l.head[k] /\ valid -> ToFront(Detached(l, k, p), k, p)
      [] OTHER -> Detached(l, k, p)

Fault(w) == [w EXCEPT !.l.fault = TRUE]

\* A connection leaves the hash table and its record is freed.
RemoveConn(w, p) ==
    IF Broken(w.l, p) THEN Fault(w)
    ELSE [w EXCEPT !.l.gone = @ \cup {p},
                   !.t = {q \in @ : w.pr[q].ends # w.pr[p].ends}]

\* The last of a list makes room.
RemoveLast(w, k) ==
    LET last == w.l.tail[k]
        before == w.l.prev[last]
        cut == SetNext([w.l EXCEPT !.tail[k] = before], before, Null)
    IN  IF Broken(w.l, last) THEN Fault(w)
        ELSE RemoveConn([w EXCEPT !.l = [cut EXCEPT !.count[k] = @ - 1]], last)

MakeRoom(w, k) == IF Limited /\ w.l.count[k] > MaxConn THEN RemoveLast(w, k) ELSE w

Old(w, p, interval, now) == now - w.pr[p].last_time >= interval

\* The last of a list is dropped while it is old and not the first; there are
\* never more turns than connections.
DropTail(w, k, interval, now) ==
    LET drop[n \in 0..MaxPairs] ==
          IF n = 0 THEN w
          ELSE LET v == drop[n - 1]
                   last == v.l.tail[k]
               IN  IF Broken(v.l, last) THEN Fault(v)
                   ELSE IF v.l.prev[last] = Null \/ ~Old(v, last, interval, now) THEN v
                   ELSE RemoveLast(v, k)
    IN  drop[MaxPairs]

DropHead(w, k, interval, now) ==
    IF Broken(w.l, w.l.head[k]) THEN Fault(w)
    ELSE IF Old(w, w.l.head[k], interval, now)
    THEN RemoveConn([w EXCEPT !.l.head[k] = Null, !.l.tail[k] = Null, !.l.count[k] = @ - 1],
                    w.l.tail[k])
    ELSE w

\* What was idle for the interval is dropped from the tail on, then perhaps
\* the head.  Without a limit nothing is counted.
RemoveOldConns(w, k, interval, now) ==
    IF w.l.tail[k] = Null THEN w
    ELSE DropHead(DropTail(w, k, interval, now), k, interval, now)

FinCount(b) == Cardinality({d \in 1..2 : b[d].fin_count > 0})
ConnReset(b) == b[1].reset_count + b[2].reset_count # 0
HasEnded(b) == FinCount(b) > 0 \/ ConnReset(b)

\* From the live list to the front of the closed one, where there must be room.
Close(w, p) ==
    LET out == UpdateConnList(w.l, "live", p, FALSE)
        count == [live |-> out.count.live - 1, closed |-> out.count.closed + 1]
        left == [w EXCEPT !.l = [out EXCEPT !.count = count], !.pr[p].inactive = TRUE]
    IN  [MakeRoom(left, "closed") EXCEPT !.l = Push(@, "closed", p)]

\* A FIN or a reset closes the connection; else it moves to the front.
Place(w, p) ==
    LET ended == HasEnded(w.pr[p].block)
    IN  IF ended /\ ~w.pr[p].inactive THEN Close(w, p)
        ELSE [w EXCEPT !.l = UpdateConnList(@, IF ended THEN "closed" ELSE "live", p, TRUE)]

\* After every packet; after the interval, what is old is removed.
UpdateConnLists(w, p, now, last) ==
    IF now - last < UpdateInterval THEN Place(w, p)
    ELSE RemoveOldConns(RemoveOldConns(Place(w, p), "live", LiveInterval, now),
                        "closed", ClosedInterval, now)

-----------------------------------------------------------------------------
(* Finding the connection of a packet.                                     *)

\* A packet of ends e: from is 1 when it comes from the end the environment
\* calls first.  Direction 1 is a2b, that of the first packet of the pair.
WhichDir(pair, from) == IF pair.a = from THEN 1 ELSE 2
Known(w, e) == {p \in w.t : w.pr[p].ends = e}

\* Faulty variant of Reused: a SYN of the same connection starts a new one.
ReusedEager(pair, dir, p, now) ==
    \/ now - pair.last_time > LiveInterval
    \/ p.syn /\ HasEnded(pair.block)

\* The endpoints are used again: after a long time, or with a SYN outside
\* the window of an ended connection, or with a third, different SYN.
Reused(pair, dir, p, now) ==
    LET this == pair.block[dir]
        other == pair.block[3 - dir]
    IN  \/ now - pair.last_time > LiveInterval
        \/ /\ p.syn
           /\ this.fin_count + other.fin_count + this.reset_count + other.reset_count > 0
           /\ p.seq > other.windowend \/ p.seq < this.syn
        \/ p.syn /\ this.syn_count > 1 /\ this.syn # p.seq

\* A new pair goes into the table, and to the front of the live list; when
\* there are too many, the last of the list is removed.
NewTTP(w, e, from) ==
    LET n == Len(w.pr) + 1
        s == IF Batch THEN MoreTcpPairs(w.s, n) ELSE w.s
        made == [w EXCEPT !.s = s, !.pr = Append(@, NewPair(e, from, Batch /\ s.ignore[n])),
                          !.found = n]
        pushed == Push(w.l, "live", n)
        listed == [made EXCEPT !.l = [pushed EXCEPT !.count.live = @ + 1]]
    IN  [(IF Continuous THEN MakeRoom(listed, "live") ELSE made) EXCEPT !.t = @ \cup {n}]

FindTTP(w, e, from, p, now) ==
    LET known == Known(w, e)
        k == CHOOSE q \in known : TRUE
    IN  IF known = {} THEN NewTTP(w, e, from)
        ELSE IF Continuous \/ ~Reused(w.pr[k], WhichDir(w.pr[k], from), p, now)
             THEN [w EXCEPT !.found = k]
             ELSE NewTTP([w EXCEPT !.pr[k].inactive = TRUE, !.t = @ \ {k}], e, from)

\* The direction of an inactive pair is left unset in continuous mode: it is
\* any, as is the end that a packet comes from there.
\* Flags are counted even for a connection that is ignored, in a u_char.
Bumped(count, flag) == (count + (IF flag THEN 1 ELSE 0)) % CountSize

Count(pair, dir, p, now) ==
    LET old == pair.block[dir]
    IN  [pair EXCEPT !.last_time = now,
                     !.block[dir] = [
                        syn_count |-> Bumped(old.syn_count, p.syn),
                        fin_count |-> Bumped(old.fin_count, p.fin),
                        reset_count |-> Bumped(old.reset_count, p.rst),
                        syn |-> IF p.syn THEN p.seq ELSE old.syn,
                        windowend |-> IF p.wend # Null THEN p.wend ELSE old.windowend]]

\* The pair is found, counted and moved.
CountFound(w, from, p, now) ==
    [w EXCEPT !.pr[w.found] = Count(@, WhichDir(@, from), p, now)]

Listed(w, now, last) == IF Continuous THEN UpdateConnLists(w, w.found, now, last) ELSE w

dotraceTTP(w, e, from, p, now, last) ==
    Listed(CountFound(FindTTP(w, e, from, p, now), from, p, now), now, last)

\* UDP: the bucket is a list, what was found moves to its front.
FindUTP(w, e, from) ==
    LET hits == {k \in DOMAIN w.t : w.pr[w.t[k]].ends = e}
        k == CHOOSE i \in hits : \A j \in hits : i <= j
        n == Len(w.pr) + 1
        s == MoreTcpPairs(w.s, n)
    IN  IF hits # {}
        THEN [w EXCEPT !.found = w.t[k], !.t = <<w.t[k]>> \o RemoveAt(@, k)]
        ELSE [w EXCEPT !.s = s, !.pr = Append(@, NewPair(e, from, s.ignore[n])),
                       !.t = <<n>> \o @, !.found = n]

-----------------------------------------------------------------------------
(* The capture: connections that open, close and open again.               *)

Fresh == [number |-> 0, isn |-> 0, opener |-> 1, synced |-> FALSE, answered |-> FALSE,
          ended |-> FALSE, at |-> 0]

ConnectionsInit ==
    /\ way \in {"batch", "continuous", "limited", "udp"}
    /\ pairs = <<>> /\ table = IF way = "udp" THEN <<>> ELSE {}
    /\ lists = NewLists /\ select = NewSelect /\ asked = [ignore |-> {}, only |-> {}]
    /\ time = [now |-> UpdateInterval, updated |-> 0, packets |-> 0]
    /\ incarnation = [e \in Ends |-> Fresh] /\ members = <<>> /\ forgotten = {}

World == [pr |-> pairs, t |-> table, l |-> lists, s |-> select, found |-> Null]

\* Options -i and -o, one kind of them, before the first packet.  An array that
\* is enlarged to just as many places as are needed lacks the one that is asked.
Ask(ix, only) ==
    /\ way \in {"batch", "udp"} /\ pairs = <<>> /\ ix \in 1..MaxPairs
    /\ ix <= MoreTcpPairs(select, ix - 1).max
    /\ IF only THEN asked.ignore = {} ELSE asked.only = {}
    /\ Cardinality(asked.ignore \cup asked.only) < Bounds[way].options
    /\ select' = IF only THEN OnlyConn(select, ix) ELSE IgnoreConn(select, ix)
    /\ asked' = IF only THEN [asked EXCEPT !.only = @ \cup {ix}]
                ELSE [asked EXCEPT !.ignore = @ \cup {ix}]
    /\ UNCHANGED <<way, pairs, table, lists, time, incarnation, members, forgotten>>

\* What a packet of the incarnation inc of e made of the world: w.
Becomes(w, e, now, inc) ==
    /\ Len(w.pr) <= MaxPairs
    /\ pairs' = w.pr /\ table' = w.t /\ lists' = w.l /\ select' = w.s
    /\ time' = [now |-> now, packets |-> time.packets + 1,
                updated |-> IF Continuous /\ now - time.updated >= UpdateInterval
                            THEN now ELSE time.updated]
    /\ incarnation' = [incarnation EXCEPT ![e] = [inc EXCEPT !.at = now]]
    /\ members' = [k \in DOMAIN w.pr |->
          (IF k \in DOMAIN members THEN members[k] ELSE {})
            \cup (IF k = w.found THEN {<<e, inc.number>>} ELSE {})]
    /\ forgotten' = forgotten \cup
          {pairs[k].ends : k \in {q \in DOMAIN pairs :
                                    HasEnded(pairs[q].block) /\ ~HasEnded(w.pr[q].block)}}
    /\ UNCHANGED <<way, asked>>

\* A packet of the current incarnation of e is traced.
Traced(e, from, p, gap, inc) ==
    LET now == time.now + gap
    IN  /\ time.packets < Bounds[way].packets
        /\ Cardinality({pairs[q].ends : q \in DOMAIN pairs} \cup {e}) <= Bounds[way].ends
        /\ ~lists.fault
        /\ Becomes(IF way = "udp" THEN FindUTP(World, e, from)
                   ELSE dotraceTTP(World, e, from, p, now, time.updated), e, now, inc)

Packet(syn, fin, rst, seq, wend) ==
    [syn |-> syn, fin |-> fin, rst |-> rst, seq |-> seq, wend |-> wend]

\* A connection is opened anew when the last one has ended, with a number
\* outside its window, by either end.  It is nowhere idle for long.
Idle(e, gap) == time.now + gap - incarnation[e].at > LiveInterval

Open(e, from, isn, gap) ==
    LET i == incarnation[e]
    IN  /\ Batch /\ (i.number = 0 \/ i.ended)
        /\ isn > i.isn + AnswerWindow + 1 \/ isn < i.isn \/ i.number = 0
        /\ Traced(e, from, Packet(TRUE, FALSE, FALSE, isn, Null), gap,
                  [number |-> i.number + 1, isn |-> isn, opener |-> from, synced |-> TRUE,
                   answered |-> FALSE, ended |-> FALSE, at |-> 0])

\* A SYN again, its answer, or anything else of a connection.
Again(e, gap) ==
    LET i == incarnation[e]
    IN  /\ Batch /\ i.synced /\ (i.ended => i.answered) /\ ~Idle(e, gap)
        /\ Traced(e, i.opener, Packet(TRUE, FALSE, FALSE, i.isn, Null), gap, i)

Reply(e, rst, gap) ==
    LET i == incarnation[e]
    IN  /\ Batch /\ i.synced /\ ~i.ended /\ ~Idle(e, gap)
        /\ Traced(e, 3 - i.opener,
                  Packet(~rst, FALSE, rst, i.isn, i.isn + 1 + (IF rst THEN 0 ELSE AnswerWindow)),
                  gap, [i EXCEPT !.answered = TRUE, !.ended = rst])

End(e, from, gap) ==
    LET i == incarnation[e]
    IN  /\ Batch /\ i.answered /\ ~Idle(e, gap)
        /\ Traced(e, from, Packet(FALSE, TRUE, FALSE, i.isn + 1, Null), gap,
                  [i EXCEPT !.ended = TRUE])

\* Without incarnations: any packet of any connection.  The other end is tried
\* where the direction is unset, as nothing else depends on the end here.
AnyPacket(e, from, fin, gap) ==
    /\ ~Batch /\ (way = "udp" => ~fin /\ gap = 1)
    /\ from = 2 => Continuous /\ \E k \in Known(World, e) : pairs[k].inactive
    /\ Traced(e, from, Packet(FALSE, fin, FALSE, 1, Null), gap, incarnation[e])

ConnectionsNext ==
    \/ \E ix \in 1..MaxPairs, only \in BOOLEAN : Ask(ix, only)
    \/ \E e \in Ends, from \in 1..2, gap \in Gaps :
         \/ \E isn \in {1, AnswerWindow + 3} : Open(e, from, isn, gap)
         \/ End(e, from, gap)
         \/ \E fin \in BOOLEAN : AnyPacket(e, from, fin, gap)
    \/ \E e \in Ends, gap \in Gaps :
         Again(e, gap) \/ (\E rst \in BOOLEAN : Reply(e, rst, gap))

ConnectionsSpec == ConnectionsInit /\ [][ConnectionsNext]_connectionsVars

-----------------------------------------------------------------------------
\* List k is s of length n, linked both ways.
Linked(l, k, n, s) ==
    /\ \A i, j \in 1..n : s[i] = s[j] => i = j
    /\ l.head[k] = IF n = 0 THEN Null ELSE s[1]
    /\ l.tail[k] = IF n = 0 THEN Null ELSE s[n]
    /\ \A j \in 1..n : /\ l.next[s[j]] = IF j = n THEN Null ELSE s[j + 1]
                       /\ l.prev[s[j]] = IF j = 1 THEN Null ELSE s[j - 1]

(* As long as no pair that ended was forgotten, its counts back at 0, the  *)
(* two lists hold the connections of the table, each once: the live ones   *)
(* and the closed ones, linked both ways, most recent first, as many as    *)
(* are counted and never more than the limit.                              *)
ListsAreSound ==
    Continuous /\ forgotten = {} =>
        /\ ~lists.fault
        /\ \A k \in {"live", "closed"} :
             LET listed == {p \in table : pairs[p].inactive = (k = "closed")}
             IN  \E n \in 0..MaxPairs : \E s \in [1..n -> listed] :
                   /\ Linked(lists, k, n, s)
                   /\ \A p \in listed : \E j \in 1..n : s[j] = p
                   /\ \A j \in 2..n : pairs[s[j]].last_time <= pairs[s[j - 1]].last_time
                   /\ Limited => lists.count[k] = n /\ n <= MaxConn

(* The packets of one connection are one pair, and no pair mixes two       *)
(* connections, however the endpoints are used again: unless the end of a  *)
(* connection of these endpoints was forgotten, its counts back at 0.      *)
PairsAreConnections ==
    LET kept == {p \in DOMAIN members : Batch => pairs[p].ends \notin forgotten}
    IN  /\ \A p \in kept : Cardinality(members[p]) = 1
        /\ ~Continuous =>
             \A p, q \in kept : members[p] \cap members[q] # {} => p = q

(* A connection is ignored exactly when the user asked for it, also when   *)
(* the arrays had to grow for it.                                          *)
SelectionIsKept ==
    way \in {"batch", "udp"} => \A p \in DOMAIN pairs :
        pairs[p].ignored = IF asked.only # {} THEN p \notin asked.only
                           ELSE p \in asked.ignore
=============================================================================
