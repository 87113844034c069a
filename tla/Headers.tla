------------------------------ MODULE Headers ------------------------------
(* From a packet to its segment: ProcessFile checks the packet, findheader   *)
(* looks for the TCP or the UDP header, dotrace and udpdotrace refuse what   *)
(* was cut too short, and ParseOptions reads the options.  A packet is       *)
(*   [version, ether, hl: bytes of the IP header, heads: what follows it,    *)
(*    offset, more: the fragment, iplen: the length it claims, caplen: the   *)
(*    bytes captured, ulen: the length in a UDP header, summed: has a UDP    *)
(*    checksum, ipintact, intact: what is summed comes out right, opts,      *)
(*    behind: what the bytes read as where the code goes on from the first   *)
(*    IPv6 fragment header, which is FragSize bytes from its beginning]      *)
(* where a header is [kind, size] and an option [kind, len, said], said its  *)
(* length byte.  Positions count from the first byte of the IP header.       *)
EXTENDS Integers, Sequences, FiniteSets, FiniteSetsExt

CONSTANTS
    Arriving,  \* the packets of a capture
    FragSize,  \* sizeof(struct ipv6_ext_frag): 16 where a u_long has 8 bytes
    MaxArrived \* bound: packets read

VARIABLES
    pkt,     \* the packet, or << >> before the next read
    plast,   \* position of its last byte, as far as the code knows
    tally,   \* the counters of packets
    verdict, \* [of, fate, at, taken, sacks] of the last packet
    checks   \* verify_checksums, do_udp

headersVars == <<pkt, plast, tally, verdict, checks>>

NoVerdict == [of |-> << >>, fate |-> "none", at |-> 0, taken |-> << >>, sacks |-> -1]
HeadersInit ==
    /\ pkt = << >> /\ plast = 0 /\ verdict = NoVerdict
    /\ tally = [pnum |-> 0, ctrunc |-> 0, bad |-> 0, tcp |-> 0, udp |-> 0, cut |-> 0]
    /\ checks \in [verify : BOOLEAN, udp : BOOLEAN]

TcpHeader == 20
UdpHeader == 8

-----------------------------------------------------------------------------
(* findheader: found at a position, right protocol but no use, or another. *)

\* Where each of the parts of these sizes begins, the first at x; and where they end.
Laid(x, sizes) ==
    LET at[k \in 1..(Len(sizes) + 1)] == IF k = 1 THEN x ELSE at[k - 1] + sizes[k - 1]
    IN at

\* Where the header number i of these begins, when a fragment header has frag bytes.
Begins(x, heads, i, frag) ==
    Laid(x, [j \in DOMAIN heads |-> IF heads[j].kind = "FRAGMENT" THEN frag
                                    ELSE heads[j].size])[i]

HasA(p, kind) == \E i \in DOMAIN p.heads : p.heads[i].kind = kind

\* A fragment header has 8 bytes.  The code steps over FragSize: the kind of the next
\* header is in the fragment header and is right, the header is read at another place.
Misread(p) == p.version = 6 /\ FragSize # 8 /\ HasA(p, "FRAGMENT")
FirstFragment(p) == Min({i \in DOMAIN p.heads : p.heads[i].kind = "FRAGMENT"})
Walked(p) == IF Misread(p) THEN SubSeq(p.heads, 1, FirstFragment(p)) \o p.behind ELSE p.heads

\* After these, nothing is left to walk to.
LastKinds == {"TCP", "UDP", "NONE", "ICMPV6"}

\* The code leaves the chain of the headers: the first that is read at another place
\* says what comes next.
GoesAstray(p) == Misread(p) /\ p.heads[FirstFragment(p) + 1].kind \notin LastKinds

\* The test of the offset of an IPv6 fragment sees the high byte of 16 bits that
\* hold it in units of 8 bytes, 3 bits from the right, without its two low bits.
LaterFragment(p) == ((p.offset \div 8) \div 32) \div 4 # 0

\* LATER is what reads as a fragment header with an offset that is not there.
findheader(p, want, from) ==
    LET heads == Walked(p)
        at(i) == Begins(p.hl, heads, i, FragSize)
        kind(i) == heads[i].kind
        stops == {i \in DOMAIN heads :
                    \/ at(i) > from
                    \/ kind(i) \in {want, "LATER"} \cup LastKinds
                    \/ kind(i) = "FRAGMENT" /\ LaterFragment(p)}
        i == IF p.version = 6 THEN Min(stops) ELSE 1
        late == IF p.version = 6 THEN at(i) > from \/ kind(i) \notin {want} \cup LastKinds
                                 ELSE kind(i) = want /\ p.offset # 0
    IN CASE late -> [ret |-> 1, at |-> 0, size |-> 0]
         [] ~late /\ kind(i) = want -> [ret |-> 0, at |-> at(i), size |-> heads[i].size]
         [] OTHER -> [ret |-> -1, at |-> 0, size |-> 0]

\* Found in an IPv4 packet, what lies behind its length is cut off, but for a byte.
Cut(p, from) == IF p.version = 4 /\ p.iplen - 1 < from THEN p.iplen ELSE from

\* gethdrlength comes to an end: it steps over the headers it knows only, a fragment
\* header with its 8 bytes, and sees that it has left the packet when it steps on.
gethdrlength(p, from) ==
    \/ p.version = 4
    \/ \A i \in DOMAIN p.heads :
          p.heads[i].kind \in {"OTHER", "ICMPV6"} => Begins(p.hl, p.heads, i, 8) > from

-----------------------------------------------------------------------------
(* Checksums: what is cut, or a fragment, is taken for valid. *)

ip_cksum_valid(p, from) == p.version = 6 \/ from < p.hl - 1 \/ p.ipintact

\* The pseudo header of IPv6: only a routing header that is long enough has the
\* address, and then the bytes of a pointer are summed in its place.
RoutingHeader(p, from) == findheader(p, "ROUTING", from)
PseudoHeader(p, want, from) ==
    p.version = 4 \/ p.heads[1].kind = want \/ RoutingHeader(p, from).ret # 0

SwapBytes(n) == (n % 256) * 256 + n \div 256

\* Each header but a fragment header takes the place of the sum so far; a header of
\* TCP makes it 0, and what is not known refuses the packet.
total_length_ext_headers(p) ==
    LET n == Len(p.heads)
        total[i \in 0..n] == CASE i = 0 -> 0
                               [] i > 0 /\ p.heads[i].kind = "FRAGMENT" -> total[i - 1] + 8
                               [] OTHER -> p.heads[i].size
    IN CASE HasA(p, "OTHER") \/ p.heads[n].kind \in {"UDP", "ICMPV6"} -> -1
         [] ~HasA(p, "OTHER") /\ p.heads[n].kind = "NONE" -> total[n - 1]
         [] OTHER -> 0

\* Where the packet begins its segment.
Transport(p) == CHOOSE i \in DOMAIN p.heads : p.heads[i].kind \in LastKinds
TrueAt(p) == Begins(p.hl, p.heads, Transport(p), 8)

\* A length below 0 is a huge one, unsigned.  A segment that is found where it is
\* is summed right only with its right length.
tcp_cksum_valid(p, at, from) ==
    IF p.version = 4
    THEN \/ p.offset # 0 \/ p.more
         \/ from < at + (p.iplen - p.hl) - 1
         \/ p.intact
    ELSE LET total == total_length_ext_headers(p)
             length == SwapBytes(p.iplen - p.hl) - total
         IN /\ total >= 0
            /\ PseudoHeader(p, "TCP", from) \/ RoutingHeader(p, from).size >= 24
            /\ \/ length < 0 \/ from < at + length - 1
               \/ /\ p.intact /\ PseudoHeader(p, "TCP", from)
                  /\ at = TrueAt(p) => length = p.iplen - at

udp_cksum_valid(p, at, from) ==
    \/ ~p.summed
    \/ PseudoHeader(p, "UDP", from) /\ (from < at + p.ulen - 1 \/ p.intact)
    \/ RoutingHeader(p, from).size >= 24 /\ from < at + p.ulen - 1

-----------------------------------------------------------------------------
(* ParseOptions. *)

OptionAt(p, at, i) == Laid(at + TcpHeader, [j \in DOMAIN p.opts |-> p.opts[j].len])[i]
OneByte(o) == o.kind \in {"EOL", "NOP"}

\* Faulty variant: only the beginning of an option has to be there.
ParseOptionsLoosely(p, at, from, stray) ==
    [taken |-> SelectSeq([i \in 1..Len(p.opts) |-> i], LAMBDA i : OptionAt(p, at, i) <= from),
     sacks |-> -1, trunc |-> 0]

\* Reads on to the first option that does not fit; stray is what a length byte behind
\* the capture reads as, and with 1 the option is taken all the same.  CHECK_O_LEN
\* leaves the options at a length of 0, and counts what does not fit.
ParseOptions(p, at, from, stray) ==
    LET pos(i) == OptionAt(p, at, i)
        plen(i) == IF pos(i) + 1 > from THEN stray ELSE p.opts[i].said
        fits(i) == /\ pos(i) <= from
                   /\ OneByte(p.opts[i]) \/ (plen(i) > 0 /\ pos(i) + plen(i) - 1 <= from)
        half(i) == fits(i) /\ ~OneByte(p.opts[i]) /\ pos(i) = from
        stop == Min({i \in DOMAIN p.opts : ~fits(i) \/ half(i)} \cup {Len(p.opts) + 1})
        taken == IF stop <= Len(p.opts) /\ half(stop) THEN stop ELSE stop - 1
        sacks == {i \in 1..taken : p.opts[i].kind = "SACK"}
        said(i) == IF half(i) \/ plen(i) < 2 THEN 0 ELSE (plen(i) - 2) \div 8
        over(i) == pos(i) <= from /\ ~OneByte(p.opts[i]) /\ plen(i) = 0
    IN [taken |-> [i \in 1..taken |-> i],
        sacks |-> IF sacks = {} THEN -1 ELSE said(Max(sacks)),
        trunc |-> IF stop <= Len(p.opts) /\ ~over(stop) THEN 1 ELSE 0]

-----------------------------------------------------------------------------
(* A packet as it was sent: its headers end with that of its protocol, in IPv4 *)
(* the length covers the headers, and options have their lengths, but for one  *)
(* whose length byte may be 0.  It may be damaged, and cut anywhere; nothing   *)
(* is asked of the options of one that is read at the wrong place.             *)

HeaderKinds == LastKinds \cup {"HOPOPTS", "ROUTING", "DSTOPTS", "FRAGMENT", "OTHER"}

\* A chain of headers ends with the first that nothing comes after.
IsChain(heads, kinds, last) ==
    /\ heads \in Seq([kind : kinds, size : Nat]) /\ heads # << >>
    /\ \A i \in DOMAIN heads : heads[i].kind \in last <=> i = Len(heads)

\* What is behind a fragment header that is stepped over wrongly may be anything, but
\* for the kind of its first header; of that, too, the offset may be misread.
BehindFits(p) ==
    LET next == p.heads[FirstFragment(p) + 1].kind IN
    /\ IsChain(p.behind, HeaderKinds \cup {"LATER"}, LastKinds \cup {"LATER"})
    /\ p.behind[1].kind = next \/ (next = "FRAGMENT" /\ p.behind[1].kind = "LATER")

\* No header has more than 1024 bytes: gethdrlength reads a length byte with a sign.
HeadersFit(p) ==
    /\ IsChain(p.heads, HeaderKinds, LastKinds)
    /\ \A i \in DOMAIN p.heads : p.heads[i].size <= 1024
    /\ Misread(p) => BehindFits(p)
    /\ p.version = 4 => Len(p.heads) = 1 /\ p.hl <= p.iplen
    /\ (p.version = 4 /\ p.heads[1].kind = "TCP") =>
            OptionAt(p, p.hl, Len(p.opts) + 1) <= p.iplen
    /\ (p.version = 4 /\ p.heads[1].kind = "UDP") => p.hl + p.ulen <= p.iplen
    /\ (p.version = 6 /\ p.offset # 0) => \E i \in DOMAIN p.heads : p.heads[i].kind = "FRAGMENT"

OptionsHaveLengths(p) ==
    /\ OptionAt(p, 0, Len(p.opts) + 1) <= 60    \* the longest TCP header
    /\ \A i \in DOMAIN p.opts :
         LET o == p.opts[i] IN
         /\ OneByte(o) => o.len = 1
         /\ ~OneByte(o) => o.len >= 2 /\ o.said \in {0, o.len}
         /\ o.kind = "SACK" => o.len % 8 = 2
    /\ \A i, j \in DOMAIN p.opts : p.opts[i].kind = "SACK" /\ p.opts[j].kind = "SACK" => i = j

OptionsFit(p) ==
    /\ p.opts \in Seq([kind : STRING, len : Nat, said : Nat])
    /\ Misread(p) \/ OptionsHaveLengths(p)

WellFormed(p) ==
    /\ {p.hl, p.iplen, p.ulen, p.offset, p.caplen} \subseteq Nat
    /\ {p.ether, p.more, p.summed, p.ipintact, p.intact} \subseteq BOOLEAN
    /\ HeadersFit(p) /\ OptionsFit(p)

ASSUME HeadersAssumption ==
    FragSize \in Nat /\ MaxArrived \in Nat /\ \A p \in Arriving : WellFormed(p)

-----------------------------------------------------------------------------
(* ProcessFile, one packet. *)

Judge(fate, at, taken, sacks) ==
    /\ verdict' = [of |-> pkt, fate |-> fate, at |-> at, taken |-> taken, sacks |-> sacks]
    /\ pkt' = << >>

\* pread: a packet with at least its IP header (the formats' readers see to that).
ArrivingPacket ==
    /\ pkt = << >> /\ tally.pnum < MaxArrived /\ verdict.fate # "hung"
    /\ \E p \in Arriving : pkt' = p /\ plast' = p.caplen - 1
    /\ tally' = [tally EXCEPT !.pnum = @ + 1]
    /\ verdict' = NoVerdict
    /\ UNCHANGED checks

Understood == pkt # << >> /\ pkt.version \in {4, 6} /\ pkt.ether
Verified == Understood /\ (~checks.verify \/ ip_cksum_valid(pkt, plast))
Tcp == findheader(pkt, "TCP", plast)
Udp == findheader(pkt, "UDP", plast)

SkipStrange ==
    /\ pkt # << >> /\ ~Understood
    /\ Judge("skipped", 0, << >>, -1)
    /\ UNCHANGED <<plast, tally, checks>>

BadIpChecksum ==
    /\ Understood /\ ~Verified
    /\ Judge("bad", 0, << >>, -1)
    /\ tally' = [tally EXCEPT !.bad = @ + 1]
    /\ UNCHANGED <<plast, checks>>

\* A fragment without the header, or a header behind what was captured.
NoHeader ==
    /\ Verified
    /\ Tcp.ret > 0 \/ (Tcp.ret < 0 /\ Udp.ret > 0) \/ (Tcp.ret < 0 /\ Udp.ret = 0 /\ ~checks.udp)
    /\ Judge("no header", 0, << >>, -1)
    /\ UNCHANGED <<plast, tally, checks>>

\* ModulesPerNonTCPUDP.
NeitherTcpNorUdp ==
    /\ Verified /\ Tcp.ret < 0 /\ Udp.ret < 0
    /\ Judge("other", 0, << >>, -1)
    /\ UNCHANGED <<plast, tally, checks>>

TruncatedSegment ==
    /\ Verified /\ Tcp.ret = 0
    /\ plast' = Cut(pkt, plast)
    /\ IF checks.verify /\ ~tcp_cksum_valid(pkt, Tcp.at, plast')
       THEN Judge("bad", 0, << >>, -1) /\ tally' = [tally EXCEPT !.bad = @ + 1]
       ELSE /\ Tcp.at + TcpHeader - 1 > plast'
            /\ Judge("truncated", Tcp.at, << >>, -1)
            /\ tally' = [tally EXCEPT !.ctrunc = @ + 1, !.cut = @ + 1]
    /\ UNCHANGED checks

\* dotrace: the segment is counted and its options are read; gethdrlength may not
\* return.  cut counts the packets whose TCP header the capture really cuts, and
\* whatever is counted of a packet that is misread.
TraceSegment ==
    /\ Verified /\ Tcp.ret = 0
    /\ plast' = Cut(pkt, plast)
    /\ checks.verify => tcp_cksum_valid(pkt, Tcp.at, plast')
    /\ Tcp.at + TcpHeader - 1 <= plast'
    /\ \E stray \in 0..2 :
         LET parsed == ParseOptions(pkt, Tcp.at, plast', stray) IN
         /\ IF gethdrlength(pkt, plast') THEN Judge("tcp", Tcp.at, parsed.taken, parsed.sacks)
                                         ELSE Judge("hung", Tcp.at, << >>, -1)
         /\ tally' = [tally EXCEPT !.tcp = IF gethdrlength(pkt, plast') THEN @ + 1 ELSE @,
                                   !.ctrunc = @ + parsed.trunc,
                                   !.cut = IF Misread(pkt) THEN @ + parsed.trunc
                                           ELSE IF OptionAt(pkt, Tcp.at, Len(pkt.opts) + 1) > pkt.caplen
                                                THEN @ + 1 ELSE @]
    /\ UNCHANGED checks

\* udpdotrace comes first, the checksum after it: it only keeps the packet from
\* the modules.
TraceUdp ==
    /\ Verified /\ Tcp.ret < 0 /\ Udp.ret = 0 /\ checks.udp
    /\ plast' = Cut(pkt, plast)
    /\ LET short == Udp.at + UdpHeader - 1 > plast'
           bad == checks.verify /\ ~udp_cksum_valid(pkt, Udp.at, plast')
       IN /\ tally' = [tally EXCEPT !.ctrunc = IF short THEN @ + 1 ELSE @,
                                    !.cut = IF short THEN @ + 1 ELSE @,
                                    !.udp = IF short THEN @ ELSE @ + 1,
                                    !.bad = IF bad THEN @ + 1 ELSE @]
          /\ Judge(IF short THEN "truncated" ELSE IF bad THEN "udp, kept from modules" ELSE "udp",
                   Udp.at, << >>, -1)
    /\ UNCHANGED checks

HeadersNext ==
    \/ ArrivingPacket \/ SkipStrange \/ BadIpChecksum \/ NoHeader \/ NeitherTcpNorUdp
    \/ TruncatedSegment \/ TraceSegment \/ TraceUdp

HeadersSpec == HeadersInit /\ [][HeadersNext]_headersVars

-----------------------------------------------------------------------------
(* What must hold of the last packet. *)

CarriesTcp(p) == p.version \in {4, 6} /\ p.ether /\ HasA(p, "TCP")

\* Captured whole, up to the first option that says it has no length.
WholeOptions(p) ==
    Max({n \in 0..Len(p.opts) :
           /\ OptionAt(p, TrueAt(p), n + 1) <= p.caplen
           /\ \A i \in 1..n : p.opts[i].said # 0 \/ OneByte(p.opts[i])})

\* Every segment that is analysed is the first of its fragments (an IPv6 fragment
\* only if its offset is seen), was captured with all of its fixed header, and is
\* TCP and read where it is, unless an IPv6 fragment header precedes it: then it is
\* read at another place, and is TCP unless a further header is misread; a first
\* fragment that is not misread and whose header was captured is analysed, unless
\* its checksum speaks against it.
AnalysedAreWhole ==
    LET p == verdict.of IN
    /\ verdict.fate = "tcp" =>
         /\ p.version \in {4, 6} /\ p.ether /\ verdict.at + TcpHeader <= p.caplen
         /\ CarriesTcp(p) \/ GoesAstray(p)
         /\ p.offset = 0 \/ (p.version = 6 /\ ~LaterFragment(p))
         /\ verdict.at = TrueAt(p) \/ Misread(p)
    /\ (p # << >> /\ CarriesTcp(p) /\ p.offset = 0 /\ ~Misread(p)
                   /\ TrueAt(p) + TcpHeader <= p.caplen) => verdict.fate \in {"tcp", "bad", "hung"}
    /\ verdict.fate = "hung" => HasA(p, "OTHER") \/ (GoesAstray(p) /\ HasA(p, "ICMPV6"))

\* The options of an analysed segment are exactly those that were captured whole,
\* in their order, but for one of which only the first byte was; SACK blocks are
\* counted right; and no packet is counted as truncated that was neither cut nor
\* misread behind an IPv6 fragment header.
OptionsAreWhole ==
    LET p == verdict.of
        n == WholeOptions(p)
    IN /\ (verdict.fate = "tcp" /\ ~Misread(p)) =>
            \/ /\ verdict.taken = [i \in 1..n |-> i]
               /\ \A i \in 1..n : p.opts[i].kind = "SACK" => verdict.sacks * 8 + 2 = p.opts[i].len
            \/ /\ verdict.taken = [i \in 1..(n + 1) |-> i]
               /\ OptionAt(p, TrueAt(p), n + 1) = p.caplen - 1
       /\ tally.ctrunc <= tally.cut

\* In IPv4, verification keeps every damaged segment that could be verified from
\* the analysis, and no other; of a damaged UDP packet it only keeps the modules.
DamagedAreRefused ==
    LET p == verdict.of
        seen == p.caplen >= p.iplen /\ p.offset = 0 /\ ~p.more
    IN (p # << >> /\ p.version = 4) =>
         /\ verdict.fate = "bad" => checks.verify /\ ~(p.ipintact /\ p.intact)
         /\ (checks.verify /\ seen /\ ~(p.ipintact /\ p.intact)) => verdict.fate \notin {"tcp", "udp"}
                                                                     \/ ~p.summed

\* The conjunction of the three: what tcptrace takes from the headers of a packet
\* is what was captured of them.
HeadersAreTrue == AnalysedAreWhole /\ OptionsAreWhole /\ DamagedAreRefused
=============================================================================
