------------------------------ MODULE Capture ------------------------------
(***************************************************************************)
(* How tcptrace reads captures: main, ProcessFile and QuitSig of           *)
(* tcptrace-src/tcptrace.c, the decompression of compress.c, and the       *)
(* readers of the file formats: tcpdump.c, snoop.c, etherpeek.c, netm.c,   *)
(* ns.c, nlanr.c, netscout.c and erf.c.                                    *)
(*                                                                         *)
(* A file is a sequence of cells <<frame, part, index>>: bytes, or lines   *)
(* for the two formats that are text.  A reader finds its way by lengths   *)
(* alone; what it takes for a record header and is not one sets fault.     *)
(***************************************************************************)
EXTENDS Integers, Sequences, SequencesExt, TLC

CONSTANTS
    Jobs,             \* bound: the command lines, each a sequence of captures
    Ranges,           \* bound: <<beginpnum, endpnum>> of the command lines
    HeadSize,         \* COMP_HDR_SIZE, what is saved of a compressed file
    NetmOffset,       \* NETM_DUMP_OFFSET
    MaxPacket,        \* IP_MAXPACKET
    Interval          \* packets between two windows for a signal, 1000 in the code

ASSUME CaptureAssumption ==
    /\ {HeadSize, NetmOffset, MaxPacket, Interval} \subseteq Nat \ {0}
    /\ NetmOffset <= HeadSize

VARIABLES
    job,        \* the captures of this run, see WriteCapture
    range,      \* <<beginpnum, endpnum>>
    file,       \* the number of the capture that is read
    step,       \* where main is
    stream,     \* stdin: its data, its position, and what a helper adds to it
    buffer,     \* the reader's static buffers: packet, its last byte
    pnum,       \* packets seen
    fpnum,      \* packets seen of this file
    traced,     \* history: per packet handed on, its file and its cells
    told,       \* history: what the modules were told, a file, a connection, a packet
    signals,    \* SIGINT: its handler, whether it is blocked or waits, and whether
                \* this file has had a window for it
    fault       \* data was taken for a header

captureVars ==
    <<job, range, file, step, stream, buffer, pnum, fpnum, traced, told, signals, fault>>

-----------------------------------------------------------------------------
(* What capture programs write: the frames of a capture in its format,     *)
(* padded as the format wants, possibly cut where the program was killed.  *)

Cells(i, part, n) == [k \in 1..n |-> <<i, part, k>>]

IsIp(f) == f.kind \in {"ip", "vlan", "pppoe"}
IsTcp(f) == IsIp(f) /\ f.conn # "none"

\* The bytes of the file header, of a record header and of the link header.
TopSize(format) ==
    CASE format \in {"snoop", "atm"} -> 16
      [] format \in {"EP6", "EP7"} -> 50
      [] format = "netm" -> NetmOffset
      [] format \in {"eth", "ppp", "sll"} -> 24
      [] format = "netscout" -> 3
      [] OTHER -> 0

RecordSize(format) ==
    CASE format \in {"snoop", "atm"} -> 24
      [] format = "EP6" -> 26
      [] format = "netm" -> 32
      [] format = "nlanr" -> 8
      [] format \in {"ns", "nsfull", "netscout"} -> 1
      [] OTHER -> 16

LinkSize(format, f) ==
    CASE format = "atm" -> 12
      [] format \in {"snoop", "EP6", "EP7", "netm", "eth"} ->
           14 + (CASE f.kind \in {"vlan", "vlanarp"} -> 4 [] f.kind = "pppoe" -> 8 [] OTHER -> 0)
      [] format = "erfeth" -> 16
      [] format \in {"erfpos", "ppp"} -> 4
      [] format = "sll" -> 16
      [] OTHER -> 0

\* The bytes of IP that were captured; two formats always have the same.
Saved(format, f) ==
    CASE format = "nlanr" -> 36
      [] format = "netscout" -> 3
      [] format \in {"ns", "nsfull"} -> 0
      [] OTHER -> f.size

RoundUp(n, unit) == ((n + unit - 1) \div unit) * unit
Padding(format, f) ==
    LET n == Saved(format, f) + LinkSize(format, f)
    IN  CASE format \in {"snoop", "atm", "netm"} -> RoundUp(n, 4) - n
          [] format = "EP7" -> RoundUp(n, 2) - n
          [] format = "erfeth" -> 4
          [] OTHER -> 0

Record(c, i) ==
    LET f == c.frames[i]
    IN  Cells(i, "head", RecordSize(c.format)) \o Cells(i, "link", LinkSize(c.format, f))
          \o Cells(i, "ip", Saved(c.format, f)) \o Cells(i, "pad", Padding(c.format, f))

WriteCapture(c) ==
    LET all == Cells(0, "top", TopSize(c.format))
                 \o FlattenSeq([i \in DOMAIN c.frames |-> Record(c, i)])
    IN  SubSeq(all, 1, Len(all) - c.cut)

-----------------------------------------------------------------------------
(* Streams.                                                                *)

Stream(data) == [data |-> data, pos |-> 0]
Smaller(a, b) == IF a < b THEN a ELSE b
Head1(data) == SubSeq(data, 1, Smaller(HeadSize, Len(data)))

\* fread: n cells, or less at the end of the file.
Peek(s, skip, n) == SubSeq(s.data, s.pos + skip + 1, Smaller(s.pos + skip + n, Len(s.data)))

\* New cells go to the front of a static buffer; what was behind them stays.
Over(buf, new) ==
    [k \in 1..(IF Len(new) > Len(buf) THEN Len(new) ELSE Len(buf)) |->
        IF k <= Len(new) THEN new[k] ELSE buf[k]]

\* CompOpenHeader: the file, or the first part of what is decompressed, or of
\* standard input, saved in a file so that the tests can rewind it.
CompOpenHeader(way, data) ==
    IF way = "file" THEN Stream(data) ELSE Stream(Head1(data))

\* CompReopenFile: decompress again, and skip to where the test has read to.
CompReopenFile(s, data) == [Stream(data) EXCEPT !.pos = s.pos]

\* What the pipe still holds when the head of it has been saved.
BehindHead(data) == SubSeq(data, HeadSize + 1, Len(data))

\* Faulty variant of PipeHelper: the header file from its front.
PipeHelperFromFront(s, data) == Stream(s.data \o BehindHead(data))

\* PipeHelper: a process that writes the rest of the header file and then the
\* rest of standard input to a pipe.
PipeHelper(s, data) == Stream(SubSeq(s.data, s.pos + 1, Len(s.data)) \o BehindHead(data))

CompOpenFile(way, s, data) ==
    IF way = "file" \/ Len(s.data) < HeadSize THEN s
    ELSE IF way = "stdin" THEN PipeHelper(s, data) ELSE CompReopenFile(s, data)

-----------------------------------------------------------------------------
(* The tests of the formats: whether enough is there to recognise it, and  *)
(* the position after the test, NoMatch if it is not recognised.           *)

NoMatch == -1

is_snoop(s) == IF Len(s.data) >= 16 THEN 16 ELSE NoMatch
is_EP(s) == IF Len(s.data) >= 50 THEN 50 ELSE NoMatch
is_netm(s) == IF Len(s.data) >= 8 THEN NetmOffset ELSE NoMatch
is_tcpdump(s) == IF Len(s.data) >= 24 THEN 24 ELSE NoMatch
is_netscout(s) == IF s.data # <<>> THEN Smaller(3, Len(s.data)) ELSE NoMatch

\* A full frame with all of the TCP header, which the format does not keep.
is_nlanr(s) == IF Len(s.data) >= 48 THEN 0 ELSE NoMatch

\* A second line has to be there.  Only the format with TCP headers is rewound.
is_ns(s, format) ==
    CASE Len(s.data) < 2 -> NoMatch
      [] Len(s.data) >= 2 /\ format = "nsfull" -> 0
      [] OTHER -> 1

\* Three whole records have to be there, or all there are.
is_erf(s, c) ==
    LET ends == [i \in 0..Len(c.frames) |->
                    Len(FlattenSeq([j \in 1..i |-> Record(c, j)]))]
        wanted == Smaller(3, Len(c.frames))
    IN  IF Len(s.data) >= ends[wanted] \/ \E i \in 0..wanted : Len(s.data) = ends[i]
        THEN 0 ELSE NoMatch

TestFormat(s, c) ==
    CASE c.format \in {"snoop", "atm"} -> is_snoop(s)
      [] c.format \in {"EP6", "EP7"} -> is_EP(s)
      [] c.format = "netm" -> is_netm(s)
      [] c.format \in {"ns", "nsfull"} -> is_ns(s, c.format)
      [] c.format = "nlanr" -> is_nlanr(s)
      [] c.format = "netscout" -> is_netscout(s)
      [] c.format \in {"erfeth", "erfpos"} -> is_erf(s, c)
      [] c.format \in {"eth", "ppp", "sll"} -> is_tcpdump(s)

-----------------------------------------------------------------------------
(* The readers: one turn of the loop of each.  A turn ends the file, skips *)
(* a frame that is not IP, or returns a packet: what is in the buffer up   *)
(* to the last byte.                                                       *)

Turn(ret, s, packet, last) ==
    [ret |-> ret, stream |-> s, buffer |-> [packet |-> packet, last |-> last]]
Eof(s, buf) == Turn("eof", s, buf.packet, buf.last)

\* The next record header is whole, and it is one.
HasHeader(s, size) == Len(Peek(s, 0, size)) = size
IsHeader(s) == LET first == s.data[s.pos + 1] IN first[2] = "head" /\ first[3] = 1
FrameAt(s, c) == c.frames[s.data[s.pos + 1][1]]

\* What all readers of binary formats do with a record: its header, the link
\* header, the rest into the packet buffer.
ReadRecord(s, buf, size, link, rest, sane, last, ip) ==
    LET got == Peek(s, size + link, rest)
    IN  IF Len(Peek(s, size, link)) < link \/ ~sane \/ Len(got) < rest
        THEN Eof(s, buf)
        ELSE Turn(IF ip THEN "packet" ELSE "skip",
                  [s EXCEPT !.pos = @ + size + link + rest], Over(buf.packet, got), last)

\* Ethernet of snoop, with or without a VLAN header, which it removes; and ATM.
\* The rest is what the record says, with its padding, and the last byte comes
\* from the length of the frame less an ethernet header, whatever was removed.
pread_snoop(s, buf, c) ==
    LET f == FrameAt(s, c)
        link == IF c.format = "atm" THEN 12
                ELSE IF f.kind \in {"vlan", "vlanarp"} THEN 14 + 4 ELSE 14
        data == LinkSize(c.format, f) + f.size       \* tlen
        len == data + Padding(c.format, f)           \* blen less the record header
    IN  ReadRecord(s, buf, 24, link, len - link, len - Smaller(link, 14) < MaxPacket,
                   data - 14, f.kind \in {"ip", "vlan"})

\* The length is rounded up to 4 bytes.
pread_netm(s, buf, c) ==
    LET f == FrameAt(s, c)
        packlen == LinkSize("netm", f) + f.size
        len == RoundUp(packlen, 4) - 14
    IN  ReadRecord(s, buf, 32, 14, len, len < MaxPacket, packlen - 14, f.kind = "ip")

\* A slice length of 0 means all of the packet: packlen is what is in the file.
\* Version 7 skips a byte after an odd length, as standard input cannot seek.
pread_EP(s, buf, c) ==
    LET f == FrameAt(s, c)
        len == LinkSize(c.format, f) + f.size - 14
        turn == ReadRecord(s, buf, RecordSize(c.format), 14, len, len < MaxPacket, len,
                           f.kind = "ip")
        odd == c.format = "EP7" /\ len % 2 # 0
    IN  IF turn.ret = "eof" \/ ~odd THEN turn
        ELSE [turn EXCEPT !.stream.pos = Smaller(@ + 1, Len(s.data))]

\* The IP header and the first 16 bytes of TCP; 4 more are left at zero.
pread_nlanr(s, buf, c) == ReadRecord(s, buf, 8, 0, 36, TRUE, 40, TRUE)

\* The record says its length; the packet ends with the shorter of the frame on
\* the wire, without its checksum, and of the record.
pread_erf(s, buf, c) ==
    LET f == FrameAt(s, c)
        link == LinkSize(c.format, f)
        psize == link + f.size + Padding(c.format, f)       \* rlen - ERF_HEADER_LEN
        ether == IF c.format = "erfeth" THEN 14 ELSE 4
        slen == Smaller(ether + f.size, psize - (IF c.format = "erfeth" THEN 2 ELSE 0))
    IN  ReadRecord(s, buf, 16, link, psize - link, TRUE, slen - ether, f.kind = "ip")

\* A line of the simulator; only tcp and ack lines are packets.
pread_ns(s, buf, c) ==
    Turn(IF FrameAt(s, c).kind = "ip" THEN "packet" ELSE "skip",
         [s EXCEPT !.pos = @ + 1], <<s.data[s.pos + 1]>>, 1)
pread_ns_fulltcp(s, buf, c) == pread_ns(s, buf, c)

\* The line of a frame, and the three rows of data that follow it.
pread_netscout(s, buf, c) ==
    LET rows == Peek(s, 1, 3)
    IN  IF Len(rows) < 3 THEN Eof(s, buf)
        ELSE Turn("packet", [s EXCEPT !.pos = @ + 4], rows, 3)

\* Where the IP packet is in an ethernet frame or a PPP frame, -1 if there is none.
find_ip_eth(f) == CASE f.kind = "ip" -> 14 [] f.kind = "pppoe" -> 22 [] OTHER -> -1
find_ip_ppp(f) == IF f.kind = "ip" THEN 4 ELSE -1

\* The callback of libpcap.  Its result is ignored: of an ethernet frame that is
\* not IP the type was saved, of a PPP frame nothing was, and the packet before
\* it is returned once more.
callback(f, format) ==
    CASE format = "eth" /\ f.kind = "vlan" -> [offset |-> 14 + 4, ip |-> TRUE]
      [] format = "eth" /\ f.kind # "vlan" ->
           [offset |-> find_ip_eth(f), ip |-> find_ip_eth(f) >= 0]
      [] format = "ppp" -> [offset |-> find_ip_ppp(f), ip |-> TRUE]
      [] OTHER -> [offset |-> 16, ip |-> TRUE]

pread_tcpdump(s, buf, c) ==
    LET f == FrameAt(s, c)
        caplen == LinkSize(c.format, f) + f.size
        frame == Peek(s, 16, caplen)
        found == callback(f, c.format)
        next == [s EXCEPT !.pos = @ + 16 + caplen]
        iplen == Smaller(caplen, MaxPacket) - found.offset
    IN  CASE Len(frame) < caplen -> Eof(s, buf)
          [] Len(frame) = caplen /\ ~found.ip -> Turn("skip", next, buf.packet, buf.last)
          [] Len(frame) = caplen /\ found.ip /\ found.offset < 0 ->
               Turn("packet", next, buf.packet, buf.last)
          [] OTHER -> Turn("packet", next,
                           Over(buf.packet, SubSeq(frame, found.offset + 1, found.offset + iplen)),
                           iplen)

ppread(s, buf, c) ==
    CASE c.format \in {"snoop", "atm"} -> pread_snoop(s, buf, c)
      [] c.format \in {"EP6", "EP7"} -> pread_EP(s, buf, c)
      [] c.format = "netm" -> pread_netm(s, buf, c)
      [] c.format = "ns" -> pread_ns(s, buf, c)
      [] c.format = "nsfull" -> pread_ns_fulltcp(s, buf, c)
      [] c.format = "nlanr" -> pread_nlanr(s, buf, c)
      [] c.format = "netscout" -> pread_netscout(s, buf, c)
      [] c.format \in {"erfeth", "erfpos"} -> pread_erf(s, buf, c)
      [] OTHER -> pread_tcpdump(s, buf, c)

-----------------------------------------------------------------------------
(* main and ProcessFile.                                                   *)

ModulesPerFile == Append(told, [of |-> "file", what |-> file])
ModulesPerConn(conn) ==
    LET event == [of |-> "conn", what |-> conn]
    IN  IF event \in ToSet(told) THEN told ELSE Append(told, event)
ModulesPerPacket(conn) == Append(ModulesPerConn(conn), [of |-> "packet", what |-> conn])

\* The handler reports what there is and exits.
QuitSig == "report"

Now == job[file]
Quiet == [handler |-> "default", blocked |-> FALSE, pending |-> FALSE, window |-> FALSE]
NoBuffer == [packet |-> <<>>, last |-> 0]

CaptureInit ==
    /\ job \in Jobs
    /\ range \in Ranges
    /\ file = 1 /\ step = "open"
    /\ stream = Stream(<<>>) /\ buffer = NoBuffer
    /\ pnum = 0 /\ fpnum = 0
    /\ traced = <<>> /\ told = <<>>
    /\ signals = Quiet
    /\ fault = FALSE

\* Open the header, find the format, open the file, and tell the modules.  A
\* file of no known format ends the program.
OpenFile ==
    /\ step = "open"
    /\ LET data == WriteCapture(Now)
           header == CompOpenHeader(Now.way, data)
           pos == TestFormat(header, Now)
       IN  IF data = <<>> \/ pos = NoMatch
           THEN step' = "exit" /\ UNCHANGED <<stream, buffer, fpnum, told>>
           ELSE /\ stream' = CompOpenFile(Now.way, [header EXCEPT !.pos = pos], data)
                /\ buffer' = NoBuffer
                /\ fpnum' = 0
                /\ told' = ModulesPerFile
                /\ step' = "read"
    /\ UNCHANGED <<job, range, file, pnum, traced, signals, fault>>

\* The end of a file: a signal that waits is let through, ^C is back to its
\* default, and the next file is opened.
EndFile ==
    /\ signals' = IF signals.pending THEN signals ELSE Quiet
    /\ IF signals.pending
       THEN step' = QuitSig /\ UNCHANGED file
       ELSE IF file < Len(job)
       THEN step' = "open" /\ file' = file + 1
       ELSE step' = "done" /\ UNCHANGED file

Bytes(buf) ==
    [k \in 1..buf.last |-> IF k <= Len(buf.packet) THEN buf.packet[k] ELSE <<0, "zero", 0>>]

\* The frame whose cells the packet starts with; 0 where the buffer is empty.
FrameOf(bytes) == IF bytes = <<>> THEN 0 ELSE bytes[1][1]

\* A packet in the range asked for: the first one of a file installs the handler
\* of ^C, and what is IP and TCP goes to dotrace.
InRange(bytes) ==
    /\ signals' = [signals EXCEPT !.handler = IF fpnum = 0 THEN "QuitSig" ELSE @]
    /\ IF FrameOf(bytes) # 0 /\ IsTcp(Now.frames[FrameOf(bytes)])
       THEN /\ traced' = Append(traced, [file |-> file, n |-> pnum + 1, bytes |-> bytes])
            /\ step' = "dotrace"
       ELSE UNCHANGED <<step, traced>>

\* One turn of the loop: a packet is read and counted.
ReadPacket ==
    /\ step = "read"
    /\ UNCHANGED <<job, range, told>>
    /\ IF ~HasHeader(stream, RecordSize(Now.format))
       THEN EndFile /\ UNCHANGED <<stream, buffer, pnum, fpnum, traced, fault>>
       ELSE IF ~IsHeader(stream)
       THEN /\ fault' = TRUE /\ step' = "exit"
            /\ UNCHANGED <<file, stream, buffer, pnum, fpnum, traced, signals>>
       ELSE LET turn == ppread(stream, buffer, Now)
                count == IF turn.ret = "packet" THEN 1 ELSE 0
                after == range[2] # 0 /\ pnum + 1 > range[2] /\ turn.ret = "packet"
            IN  /\ stream' = turn.stream
                /\ buffer' = turn.buffer
                /\ UNCHANGED fault
                /\ IF turn.ret = "eof" \/ after
                   THEN EndFile /\ UNCHANGED <<pnum, fpnum, traced>>
                   ELSE /\ pnum' = pnum + count /\ fpnum' = fpnum + count
                        /\ UNCHANGED file
                        /\ IF turn.ret = "skip" \/ pnum + 1 < range[1]
                           THEN UNCHANGED <<step, traced, signals>>
                           ELSE InRange(Bytes(turn.buffer))

Conn == Now.frames[FrameOf(Last(traced).bytes)].conn

\* dotrace is over.  The modules hear of a connection at its first packet, and
\* of the packet.  Once in Interval packets a signal is let through, and from
\* the first time on it waits for the next.
Traced ==
    /\ step = "dotrace"
    /\ told' = ModulesPerPacket(Conn)
    /\ IF pnum % Interval = 0 /\ signals.pending
       THEN step' = QuitSig /\ UNCHANGED signals
       ELSE /\ step' = "read"
            /\ signals' = IF pnum % Interval = 0
                          THEN [signals EXCEPT !.blocked = TRUE, !.window = TRUE]
                          ELSE signals
    /\ UNCHANGED <<job, range, file, stream, buffer, pnum, fpnum, traced, fault>>

\* Somebody hits ^C.
Interrupt ==
    /\ step \in {"open", "read", "dotrace"} /\ ~signals.pending
    /\ IF signals.blocked
       THEN signals' = [signals EXCEPT !.pending = TRUE] /\ UNCHANGED step
       ELSE /\ step' = IF signals.handler = "default" THEN "exit" ELSE QuitSig
            /\ UNCHANGED signals
    /\ UNCHANGED <<job, range, file, stream, buffer, pnum, fpnum, traced, told, fault>>

CaptureNext == OpenFile \/ ReadPacket \/ Traced \/ Interrupt
CaptureSpec == CaptureInit /\ [][CaptureNext]_captureVars

-----------------------------------------------------------------------------
(* Properties.                                                             *)

\* The frames of a capture a packet is returned for: those of IP, as far as the
\* reader knows of them.  The simulator's first line is lost to the test of its
\* format, where libpcap has no ethernet type every frame is a packet, and some
\* readers take a frame that is too large for the end of the file.
Returned(c) ==
    LET whole == 1..(Len(c.frames) - (IF c.cut = 0 THEN 0 ELSE 1))
        checked == c.format \in {"snoop", "atm", "EP6", "EP7", "netm"}
        first == IF c.format = "ns" THEN 2 ELSE 1
        known == CASE c.format \in {"ppp", "sll", "nlanr", "netscout"} -> {"ip", "arp"}
                   [] c.format \in {"snoop", "atm"} -> {"ip", "vlan"}
                   [] c.format = "eth" -> {"ip", "vlan", "pppoe"}
                   [] OTHER -> {"ip"}
    IN  SelectSeq([i \in whole |-> i],
                  LAMBDA i : /\ i >= first /\ c.frames[i].kind \in known
                             /\ checked => \A j \in 1..i : c.frames[j].size < MaxPacket)

\* A frame of PPP that is not IP gives the packet before it once more.
Meant(c, i) ==
    IF c.format # "ppp" THEN i
    ELSE LET ip == {j \in 1..i : IsIp(c.frames[j])}
         IN  IF ip = {} THEN 0 ELSE CHOOSE j \in ip : \A k \in ip : k <= j

\* The packets that have to be traced, in order: frames of TCP in the range.
Wanted ==
    LET all == FlattenSeq([k \in DOMAIN job |->
                   [n \in DOMAIN Returned(job[k]) |->
                       [file |-> k, frame |-> Meant(job[k], Returned(job[k])[n])]]])
        numbered == [n \in DOMAIN all |-> all[n] @@ [n |-> n]]
    IN  SelectSeq(numbered, LAMBDA p :
            /\ p.n >= range[1] /\ (range[2] = 0 \/ p.n <= range[2])
            /\ p.frame # 0 /\ IsTcp(job[p.file].frames[p.frame]))

\* The bytes of IP that are handed on: what was saved.  Three formats are known to
\* be off: ATM loses 2, the TCP header of NLANR is filled up with 4 zeros, and
\* after a VLAN header of snoop 4 more are claimed.
WholeLength(c, f) ==
    CASE c.format = "atm" -> f.size - 2
      [] c.format = "nlanr" -> 40
      [] c.format = "snoop" /\ f.kind = "vlan" -> f.size + 4
      [] c.format \in {"eth", "ppp", "sll"} ->
           Smaller(f.size, MaxPacket - LinkSize(c.format, f))
      [] c.format \in {"ns", "nsfull"} -> 1
      [] OTHER -> Saved(c.format, f)

IsWhole(c, i, bytes) ==
    LET length == WholeLength(c, c.frames[i])
        saved == IF c.format \in {"ns", "nsfull"} THEN Cells(i, "head", 1)
                 ELSE Cells(i, "ip", Saved(c.format, c.frames[i]))
    IN  /\ Len(bytes) = length
        /\ LET n == Smaller(length, Len(saved)) IN SubSeq(bytes, 1, n) = SubSeq(saved, 1, n)

\* Whatever the format, and whether the capture is a file, compressed, or comes
\* through standard input and a helper process: the packets that reach dotrace
\* are those of the capture, in their order, none lost or repeated where the file
\* was cut or its head had been saved, each with its own bytes; and no reader
\* takes data for a header.
PacketsAreTheCapture ==
    /\ ~fault
    /\ Len(traced) <= Len(Wanted)
    /\ \A k \in DOMAIN traced :
          /\ traced[k].file = Wanted[k].file /\ traced[k].n = Wanted[k].n
          /\ IsWhole(job[traced[k].file], Wanted[k].frame, traced[k].bytes)
    /\ step = "done" => Len(traced) = Len(Wanted)

\* Where the report of ^C starts after the first window of a file, it finds a
\* consistent state: the modules know of every packet that was traced, and of
\* its connection before it.
ReportIsConsistent ==
    LET heard == SelectSeq(told, LAMBDA e : e.of = "packet")
    IN  step = "report" /\ signals.window =>
          /\ Len(heard) = Len(traced)
          /\ \A k \in DOMAIN told : told[k].of = "packet" =>
                \E j \in 1..(k - 1) : told[j] = [of |-> "conn", what |-> told[k].what]

\* What is traced is the capture, and what is said of it agrees with what is traced.
CaptureIsTraced == PacketsAreTheCapture /\ ReportIsConsistent
=============================================================================
