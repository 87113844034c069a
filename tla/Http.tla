-------------------------------- MODULE Http --------------------------------
(***************************************************************************)
(* What tcptrace tells of HTTP: tcptrace-src/mod_http.c.  While a capture  *)
(* is read it keeps when each position of the two streams was first sent   *)
(* and acknowledged; at the end it finds the requests and the replies in   *)
(* the extracted contents, pairs them by their order, and looks up when    *)
(* they were sent.                                                         *)
(*                                                                         *)
(* Contents are sequences of cells, one position each: the first word of a *)
(* message, a header with a length, the empty line that ends the head, a   *)
(* part of a body, or a hole where a packet is missing from the capture.   *)
(***************************************************************************)
EXTENDS Integers, Sequences, FiniteSets, FiniteSetsExt, TLC

CONSTANTS
    Talks,        \* bound: what the two hosts say, see Segments
    MaxExtra    \* bound: packets that are not the first of their segment

Ends == {"client", "server"}
Isn == [client |-> 7, server |-> 3]

VARIABLES
    talk,      \* environment: the contents of the streams and their segments
    sent,      \* environment: per end, segments sent; the server's acknowledged cells
    extra,     \* environment: packets that repeat a segment or are missing
    now,       \* current_time, counted in packets
    tcb,       \* what dotrace keeps of the two directions
    ph,        \* http_info of the connection
    contents,  \* the files of ExtractContents
    output,    \* what http_done prints
    first      \* history: per end and cell, when it was captured first; and per
               \* number of the server's cells, when they were acknowledged

httpVars == <<talk, sent, extra, now, tcb, ph, contents, output, first>>

-----------------------------------------------------------------------------
(* While packets are read.                                                 *)

\* The first byte is position 1; without a SYN syn is 0.
DataOffset(t, seq) == IF seq > t.syn THEN seq - t.syn ELSE t.syn - seq

\* A chain of time stamps by position; duplicates are ignored, and so is
\* position 0, that of the head of the chain.
AddTS(chain, position) ==
    IF position = 0 \/ \E ts \in chain : ts.position = position THEN chain
    ELSE chain \cup {[position |-> position, thetime |-> now']}

MakeHttpRec ==
    [get |-> {}, data |-> {}, ack |-> {}, syn_time |-> [e \in Ends |-> 0],
     fin_time |-> [e \in Ends |-> 0]]

\* p: from, seq, len, ack (0 if it is not set), syn, fin.
http_read(h, t, p) ==
    LET client == p.from = "client"
        at == DataOffset(t[p.from], p.seq)
    IN  [h EXCEPT
          !.get = IF client /\ p.len > 0 THEN AddTS(@, at) ELSE @,
          !.ack = IF client /\ p.ack > 0 THEN AddTS(@, DataOffset(t["server"], p.ack)) ELSE @,
          !.data = IF ~client /\ p.len > 0 THEN AddTS(@, at) ELSE @,
          !.fin_time[p.from] = IF p.fin /\ @ = 0 THEN now' ELSE @,
          !.syn_time[p.from] = IF p.syn /\ @ = 0 THEN now' ELSE @]

-----------------------------------------------------------------------------
(* At the end.                                                             *)

\* The time of the largest position up to the given one, or 0.
WhenSent(chain, position) ==
    LET up == {ts \in chain : ts.position <= position}
    IN  IF up = {} THEN 0
        ELSE (CHOOSE ts \in up : \A other \in up : other.position <= ts.position).thetime

\* The time of the smallest position from the given one on, or 0.
WhenAcked(chain, position) ==
    LET from == {ts \in chain : ts.position >= position}
    IN  IF from = {} THEN 0
        ELSE (CHOOSE ts \in from : \A other \in from : ts.position <= other.position).thetime

\* The next cell of a kind, from p on; behind the file if there is none.
NextOf(file, of, p) ==
    Min({q \in p..Len(file) : file[q].of = of} \cup {Len(file) + 1})

\* The last length in a head, 0 if there is none.
LengthIn(file, from, to) ==
    LET lengths == {q \in from..(to - 1) : file[q].of = "length"}
    IN  IF lengths = {} THEN 0 ELSE file[Max(lengths)].n

\* Requests: the methods in the client's contents, bodies skipped by their length.
FindGets(h, file) ==
    LET gets[p \in Nat] ==
          LET start == NextOf(file, "method", p)
              end == NextOf(file, "end", start)
          IN  IF start > Len(file) THEN <<>>
              ELSE <<[method |-> file[start].n, request_position |-> start,
                      reply_position |-> 0, get_time |-> WhenSent(h.get, start),
                      send_time |-> 0, lastbyte_time |-> 0, ack_time |-> 0,
                      response_code |-> 0, content_length |-> 0]>>
                   \o gets[end + 1 + LengthIn(file, start, end)]
    IN  gets[1]

NoBody(get, code) == get.method = "HEAD" \/ code \in {204, 205, 304}

\* Replies: each belongs to the next request.  A body without a length goes up to
\* the next end of a head (905), or to the end of the file.
FindContent(h, file, gets) ==
    LET answer[p \in Nat, k \in Nat] ==
          LET start == NextOf(file, "http", p)
              end == NextOf(file, "end", start)
              code == file[start].n
              length == LengthIn(file, start, end)
              none == NoBody(gets[k], code)
              search == NextOf(file, "end", end + 1)
              past == IF none THEN end + 1
                      ELSE IF length > 0 THEN end + 1 + length
                      ELSE Min({search + 1, Len(file) + 1})
              found == [gets[k] EXCEPT
                          !.reply_position = start, !.response_code = code,
                          !.content_length = IF none THEN 0
                              ELSE IF end <= Len(file) THEN past - end - 1 ELSE length]
          IN  IF k > Len(gets) THEN <<>>
              ELSE IF start > Len(file) THEN SubSeq(gets, k, Len(gets))
              ELSE IF end > Len(file) THEN <<found>> \o SubSeq(gets, k + 1, Len(gets))
              ELSE <<[found EXCEPT !.send_time = WhenSent(h.data, start),
                                   !.lastbyte_time = WhenSent(h.data, past),
                                   !.ack_time = WhenAcked(h.ack, past)]>>
                   \o answer[past, k + 1]
    IN  answer[1, 1]

HttpGather(h, files) ==
    IF files["client"] = <<>> \/ files["server"] = <<>> THEN <<>>
    ELSE FindContent(h, files["server"], FindGets(h, files["client"]))

\* Faulty variant: of a stream that was reset nothing is said to be missing.
MissingOfFin(t) == IF t.fin_count > 0 THEN t.fin - t.syn - 1 - t.unique_bytes ELSE 0

\* Bytes of a stream that are not in the capture, as far as FIN or RST tell.
MissingOf(t) ==
    IF t.fin_count > 0 THEN t.fin - t.syn - 1 - t.unique_bytes
    ELSE IF t.reset_count > 0 /\ t.latest_seq # t.syn
    THEN t.latest_seq - t.syn - 1 - t.unique_bytes
    ELSE 0

\* The lengths that are printed of request k; positions count from 1, totals are
\* one less than the length of the file.
Lengths(gets, k, files) ==
    LET replied == gets[k].reply_position # 0
        next == k < Len(gets)
    IN  [request |-> IF ~replied THEN 0
                     ELSE (IF next THEN gets[k + 1].request_position
                           ELSE Len(files["client"]) - 1) - gets[k].request_position,
         reply |-> IF ~replied THEN 0
                   ELSE (IF next /\ gets[k + 1].reply_position > 0
                         THEN gets[k + 1].reply_position
                         ELSE Len(files["server"]) - 1) - gets[k].reply_position]

HttpPrintone(h, t, files) ==
    LET gets == HttpGather(h, files)
        any(count) == t["client"][count] > 0 \/ t["server"][count] > 0
    IN  IF \E e \in Ends : t[e].syn_count = 0 THEN [of |-> "no beginning"]
        ELSE IF ~any("reset_count") /\ ~any("fin_count") THEN [of |-> "no end"]
        ELSE [of |-> "rows", missing |-> MissingOf(t["client"]) + MissingOf(t["server"]),
              rows |-> [k \in DOMAIN gets |-> gets[k] @@ Lengths(gets, k, files)]]

-----------------------------------------------------------------------------
(* The environment: two hosts that talk, and what is captured of it.  A    *)
(* talk has per end its contents, and its segments <<from, to, after>>:    *)
(* the cells, and how many segments of the other end come before.          *)

NewTcb == [syn_count |-> 0, fin_count |-> 0, reset_count |-> 0, syn |-> 0, fin |-> 0,
           latest_seq |-> 0, unique_bytes |-> 0]
NoPacket == [from |-> "client", seq |-> 0, len |-> 0, ack |-> 0, syn |-> FALSE, fin |-> FALSE]
Other(e) == IF e = "client" THEN "server" ELSE "client"
Missed == [of |-> "hole"]

HttpInit ==
    /\ talk \in Talks
    /\ sent = [client |-> 0, server |-> 0, acked |-> 0]
    /\ extra = 0 /\ now = 0
    /\ tcb = [e \in Ends |-> NewTcb] /\ ph = MakeHttpRec
    /\ contents = [e \in Ends |-> <<>>] /\ output = [of |-> "none"]
    /\ first = [cells |-> [e \in Ends |-> [c \in DOMAIN talk[e].cells |-> 0]],
                acks |-> [n \in 0..Len(talk.server.cells) |-> 0]]

Syn(e) ==
    /\ output.of = "none" /\ tcb[e].syn_count = 0 /\ sent.client = 0
    /\ (e = "server" => tcb["client"].syn_count = 1)
    /\ now' = now + 1
    /\ tcb' = [tcb EXCEPT ![e].syn_count = 1, ![e].syn = Isn[e], ![e].latest_seq = Isn[e]]
    /\ ph' = http_read(ph, tcb', [NoPacket EXCEPT !.from = e, !.seq = Isn[e], !.syn = TRUE])
    /\ UNCHANGED <<talk, sent, extra, contents, output, first>>

\* What is written of segment cells from..to: holes in front of it are filled up.
Extract(file, cells, from, to) ==
    [c \in 1..Max({Len(file), to}) |->
        IF c \in from..to THEN cells[c] ELSE IF c <= Len(file) THEN file[c] ELSE Missed]

\* A packet with data of segment k and an acknowledgement of all there is, or of
\* no more than before.
DataPacket(e, k, all, lost) ==
    LET segment == talk[e].segments[k]
        cells == segment[1]..segment[2]
        new == k = sent[e] + 1
        there == IF sent.server = 0 THEN 0 ELSE talk.server.segments[sent.server][2]
        acked == IF e = "client" /\ all THEN there ELSE sent.acked
        packet == [NoPacket EXCEPT
                     !.from = e, !.seq = Isn[e] + segment[1], !.len = Cardinality(cells),
                     !.ack = IF e = "client" THEN Isn["server"] + 1 + acked ELSE 1]
    IN  /\ output.of = "none" /\ tcb["client"].syn_count = 1
        /\ tcb[e].fin_count = 0 /\ tcb[e].reset_count = 0
        /\ k <= sent[e] + 1 /\ sent[Other(e)] >= segment[3]
        /\ (new /\ ~lost) \/ extra < MaxExtra
        /\ extra' = IF new /\ ~lost THEN extra ELSE extra + 1
        /\ now' = now + 1
        /\ sent' = [sent EXCEPT ![e] = Max({@, k}), !.acked = acked]
        /\ IF lost THEN UNCHANGED <<tcb, ph, contents, first>>
           ELSE /\ contents' = [contents EXCEPT
                     ![e] = Extract(@, talk[e].cells, segment[1], segment[2])]
                /\ tcb' = [tcb EXCEPT
                     ![e].latest_seq = Isn[e] + segment[2] + 1,
                     ![e].unique_bytes = @ + Cardinality({c \in cells : first.cells[e][c] = 0})]
                /\ ph' = http_read(ph, tcb', packet)
                /\ first' = [first EXCEPT
                     !.cells[e] = [c \in DOMAIN @ |-> IF c \in cells /\ @[c] = 0 THEN now' ELSE @[c]],
                     !.acks = [n \in DOMAIN @ |->
                        IF e = "client" /\ @[n] = 0 /\ n <= acked THEN now' ELSE @[n]]]
        /\ UNCHANGED <<talk, output>>

\* An end is closed or reset; the client acknowledges everything.
Close(e, reset) ==
    LET there == IF sent.server = 0 THEN 0 ELSE talk.server.segments[sent.server][2]
        length == IF sent[e] = 0 THEN 0 ELSE talk[e].segments[sent[e]][2]
        packet == [NoPacket EXCEPT
                     !.from = e, !.seq = Isn[e] + length + 1, !.fin = ~reset,
                     !.ack = IF e = "client" THEN Isn["server"] + 1 + there ELSE 1]
    IN  /\ output.of = "none" /\ tcb["client"].syn_count = 1
        /\ tcb[e].fin_count = 0 /\ tcb[e].reset_count = 0
        /\ ~reset => sent[e] = Len(talk[e].segments)
        /\ now' = now + 1
        /\ tcb' = [tcb EXCEPT
              ![e] = IF reset THEN [@ EXCEPT !.reset_count = 1, !.latest_seq = packet.seq]
                     ELSE [@ EXCEPT !.fin_count = 1, !.fin = packet.seq,
                                    !.latest_seq = packet.seq + 1]]
        /\ ph' = http_read(ph, tcb', packet)
        /\ sent' = IF e = "client" THEN [sent EXCEPT !.acked = there] ELSE sent
        /\ first' = IF e = "server" THEN first
                    ELSE [first EXCEPT !.acks = [n \in DOMAIN @ |->
                             IF @[n] = 0 /\ n <= there THEN now' ELSE @[n]]]
        /\ UNCHANGED <<talk, extra, contents, output>>

http_done ==
    /\ output.of = "none" /\ now > 0
    /\ output' = HttpPrintone(ph, tcb, contents)
    /\ UNCHANGED <<talk, sent, extra, now, tcb, ph, contents, first>>

HttpNext ==
    \/ \E e \in Ends : Syn(e) \/ (\E reset \in BOOLEAN : Close(e, reset))
    \/ \E e \in Ends, all, lost \in BOOLEAN :
         \E k \in DOMAIN talk[e].segments : DataPacket(e, k, all, lost)
    \/ http_done

HttpSpec == HttpInit /\ [][HttpNext]_httpVars

-----------------------------------------------------------------------------
(* What the rows should be: talk.exchanges lists <<request, reply, code,   *)
(* cells of the reply>> of the talk.  The last byte of a reply is looked   *)
(* up one too far (921, 927): with a reply that follows on the connection, *)
(* lastbyte_time is when that one began, so it is no part of the property. *)

RowIsRight(row, x) ==
    /\ row.request_position = x.request /\ row.reply_position = x.reply
    /\ row.response_code = x.code
    /\ row.get_time = first.cells["client"][x.request]
    /\ row.send_time = first.cells["server"][x.reply]
    /\ row.ack_time = first.acks[x.last]

Captured(e, from, to) == \A c \in from..to : first.cells[e][c] > 0

\* If the capture holds both ends of a connection, closed or reset, and no warning
\* is printed that bytes are missing, then there is a row for each request, and
\* the rows of whole replies are right: each request with its own reply, when
\* both were first sent and when the reply was acknowledged, also where packets
\* were repeated, bodies hold what looks like a message, and replies have no body
\* or none of its length.
RowsAreRightOrWarned ==
    /\ output.of = "rows" /\ output.missing = 0
    /\ \A e \in Ends : tcb[e].fin_count + tcb[e].reset_count > 0 /\ contents[e] # <<>>
    => LET asked == {k \in DOMAIN talk.exchanges :
                        Captured("client", talk.exchanges[k].request, talk.exchanges[k].request)}
       IN  /\ Len(output.rows) = Cardinality(asked)
           /\ \A k \in DOMAIN output.rows :
                LET x == talk.exchanges[k]
                IN  Captured("server", x.reply, x.last) => RowIsRight(output.rows[k], x)
=============================================================================
