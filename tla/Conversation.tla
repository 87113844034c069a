---------------------------- MODULE Conversation ----------------------------
(***************************************************************************)
(* A capture of one TCP connection, fed to dotrace packet by packet.  The  *)
(* environment is two hosts, each with a stream: position 0 is its SYN,    *)
(* then its data, then its FIN.  Packets are seen late and again, and the  *)
(* capture may begin in the middle, or see one direction only.             *)
(***************************************************************************)
EXTENDS Dotrace

CONSTANTS
    IsnOf,        \* per host, its first sequence number
    Outstanding,  \* positions a host has outstanding at most
    Lag,          \* positions a late packet lies behind them at most
    Lens,         \* bound: lengths of data packets
    Windows,      \* bound: advertised windows
    PacketsOf     \* bound: per mode, packets of a capture

Hosts == {1, 2}
Other(h) == 3 - h

\* What of the stream can still show up fits into one quadrant.
ASSUME ConversationAssumption ==
    /\ {Outstanding, Lag} \subseteq Nat /\ Outstanding + Lag <= QuadSize
    /\ IsnOf \in [Hosts -> Seqnum] /\ Lens \subseteq Nat /\ Windows \subseteq Nat

VARIABLES
    mode,      \* "talk", "middle" (without the handshake) or "flow" (one way)
    block,     \* per host, the control block of its direction
    pos,       \* environment: per host, the end of what it has sent
    acked,     \* environment: per host, what of it is acknowledged
    finAt,     \* environment: per host, the position of its FIN, or None
    clock,     \* the number of packets, and the time of the last
    seen,      \* history: per host, the data of packets that were no probes
    told,      \* history: what the last packet was, and the rows it wrote
    synTime    \* history: per host, when its first SYN was sent and acknowledged

conversationVars == <<mode, block, pos, acked, finAt, clock, seen, told, synTime>>

Both(v) == [h \in Hosts |-> v]
SeqAt(h, x) == (IsnOf[h] + x) % SeqSize
FirstPos == IF mode = "middle" THEN 1 ELSE 0

ConversationInit ==
    /\ mode \in {"talk", "middle", "flow"}
    /\ block = Both(NewTcb)
    /\ pos = Both(FirstPos) /\ acked = Both(FirstPos) /\ finAt = Both(None)
    /\ clock = 0 /\ seen = Both({})
    /\ told = [again |-> FALSE, rows |-> {}]
    /\ synTime = Both([sent |-> None, acked |-> None])

Plain == [syn |-> FALSE, fin |-> FALSE, rst |-> FALSE, ack |-> FALSE, seq |-> 0,
          len |-> 0, ackno |-> 0, win |-> 1, ws |-> None, sackok |-> FALSE,
          sacks |-> <<>>, id |-> 0, saved |-> 0]

\* Host h has sent p, whose data begins at position x, and dotrace made d of it.
Kept(h, p, x, d, now) ==
    LET o == Other(h)
        bytes == x..(x + p.len - 1)
    IN  /\ clock' = now
        /\ block' = [block EXCEPT ![h] = d.me, ![o] = d.peer]
        /\ pos' = [pos EXCEPT ![h] = Max({@, x + p.len + If(p.syn, 1) + If(p.fin, 1)})]
        /\ finAt' = IF p.fin THEN [finAt EXCEPT ![h] = x + p.len] ELSE finAt
        /\ seen' = IF d.probe THEN seen ELSE [seen EXCEPT ![h] = @ \cup bytes]
        /\ told' = [again |-> ~d.probe /\ ~p.fin /\ bytes \cap seen[h] # {}, rows |-> d.rows]
        /\ synTime' = [synTime EXCEPT
              ![h].sent = IF p.syn /\ @ = None THEN now ELSE @,
              ![o].acked = IF p.ack /\ acked[o] = 0 /\ p.ackno = SeqAt(o, 1) THEN now ELSE @]

Trace(h, p, x) ==
    /\ clock < PacketsOf[mode]
    /\ Kept(h, p, x, dotrace(block[h], block[Other(h)], p, clock + 1), clock + 1)

\* Sent acknowledgements cover a position y of the other host.
Covering(h, p, y) ==
    IF pos[Other(h)] = 0 \/ mode = "flow" THEN p
    ELSE [p EXCEPT !.ack = TRUE, !.ackno = SeqAt(Other(h), y)]

Acks(h) == {acked[Other(h)], pos[Other(h)]}
Acked(h, y) == acked' = [acked EXCEPT ![Other(h)] = Max({@, y})]

Syn(h, y, ws) ==
    /\ mode # "middle" /\ (h = 1 \/ (mode = "talk" /\ pos[1] > 0))
    /\ pos[h] <= 1 /\ (pos[h] = 1 => acked[h] = 0)
    /\ Trace(h, Covering(h, [Plain EXCEPT !.syn = TRUE, !.seq = SeqAt(h, 0), !.ws = ws], y), 0)
    /\ Acked(h, IF pos[Other(h)] = 0 THEN 0 ELSE y)
    /\ UNCHANGED mode

\* Data from position x, new, late or again, with or without a FIN.
Data(h, x, len, y, fin) ==
    /\ h = 1 /\ pos[h] > 0 /\ (mode = "flow" \/ pos[Other(h)] > 0)
    /\ x >= 1 /\ x <= pos[h] /\ (finAt[h] # None => x + len <= finAt[h])
    /\ x + Lag >= (IF mode = "flow" THEN pos[h] ELSE acked[h])
    /\ mode = "flow" \/ x + len + If(fin, 1) <= acked[h] + Outstanding
    /\ fin => IF finAt[h] = None THEN x + len >= pos[h] ELSE x + len = finAt[h]
    /\ Trace(h, Covering(h, [Plain EXCEPT !.fin = fin, !.seq = SeqAt(h, x), !.len = len,
                                          !.saved = len, !.id = If(fin, 1)], y), x)
    /\ Acked(h, y) /\ UNCHANGED mode

\* An acknowledgement without data: with a window, a block of a selective
\* acknowledgement, or a reset.
Answers ==
    {[Plain EXCEPT !.win = w] : w \in Windows}
      \cup {[Plain EXCEPT !.rst = TRUE],
            [Plain EXCEPT !.sacks = <<[left |-> SeqAt(1, 1), right |-> SeqAt(1, 2)]>>]}

Answer(h, y, p) ==
    /\ mode # "flow" /\ h = 2 /\ pos[h] > 0 /\ pos[1] > 0
    /\ Trace(h, Covering(h, [p EXCEPT !.seq = SeqAt(h, pos[h])], y), pos[h])
    /\ Acked(h, y) /\ UNCHANGED mode

ConversationNext ==
    \/ \E h \in Hosts, y \in {0, 1}, ws \in {None, 1} : y \in Acks(h) /\ Syn(h, y, ws)
    \/ \E h \in Hosts, len \in Lens, fin \in BOOLEAN :
         \E x \in 1..pos[h], y \in Acks(h) : Data(h, x, len, y, fin)
    \/ \E h \in Hosts, p \in Answers : \E y \in Acks(h) : Answer(h, y, p)

ConversationSpec == ConversationInit /\ [][ConversationNext]_conversationVars

-----------------------------------------------------------------------------
(* The bytes counted as unique are the different bytes of the stream, in   *)
(* whatever pieces, order and repetition they came; SYN and FIN are none.  *)
(* Not so when a FIN that was a window probe is sent again (1815-1823): it *)
(* was not recorded, but the second one is taken off the repetition.       *)
UniqueBytesAreDistinct ==
    \A h \in Hosts :
        /\ ~block[h].bad_behavior
        /\ block[h].fin_count > 1 => block[h].num_zwnd_probes = 0
        => block[h].unique_bytes = Cardinality(seen[h])

(* A packet is reported as a retransmission exactly when it repeats a byte *)
(* of the stream, whatever was acknowledged, joined or wrapped since.      *)
RepeatIsReported == ("R" \in told.rows) = told.again

(* The average window, over the packets since scaling began or over all,   *)
(* is at most the largest window (output.c divides the total so).          *)
AverageWindowIsBounded ==
    \A h \in Hosts :
        LET t == block[h]
        IN  t.win_tot <= t.win_max * (IF t.scaled THEN t.win_scaled_pkts ELSE t.packets)

(* The round trip of the handshake is the time from the only SYN to its    *)
(* acknowledgement, or no sample.  Not so when the count of SYNs, a u_char, *)
(* may have wrapped to 1, or when a stream is so long that its bytes have   *)
(* the number of its SYN again: dotrace then takes any round trip.          *)
HandshakeIsTheSyn ==
    \A h \in Hosts : mode = "talk" /\ clock <= CountLimit /\ pos[h] <= SeqSize =>
        block[h].rtt_3WHS \in {0, synTime[h].acked - synTime[h].sent}

(* The length of a stream, from its SYN, its FIN and the number of wraps,  *)
(* is the number of its data bytes, also when it is longer than the        *)
(* sequence space.  Two streams are counted wrong: one whose FIN has the   *)
(* number of its SYN, and one whose SYN leaves less of its quadrant than a *)
(* packet holds, where no packet need end (1523-1525).                     *)
StreamLengthIsExact ==
    \A h \in Hosts :
        LET t == block[h]
        IN  /\ t.syn_count > 0 /\ t.fin_count > 0 /\ t.reset_count = 0
            /\ ~t.bad_behavior /\ t.fin # t.syn
            /\ (IsnOf[h] % QuadSize) + Max(Lens) <= QuadSize
            => StreamLength(t) = finAt[h] - 1

(* What dotrace counts of a stream agrees with the stream: its unique      *)
(* bytes, its repetitions and its length.                                  *)
BytesAreAccountedFor ==
    UniqueBytesAreDistinct /\ RepeatIsReported /\ StreamLengthIsExact

(* What it measures is of this connection: the round trip of its handshake *)
(* and the average of its windows.                                         *)
MeasuresAreOfTheConnection == HandshakeIsTheSyn /\ AverageWindowIsBounded
=============================================================================
