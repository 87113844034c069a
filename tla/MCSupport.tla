------------------------------ MODULE MCSupport ------------------------------
(* A small instance, for TLC, of what surrounds the analysis of packets in     *)
(* tcptrace: what it is told, how it reads captures and headers, the memory,   *)
(* trees, names and files it keeps, its filter and its modules.  No two of     *)
(* these parts share a variable that is modelled, so a behaviour is one of     *)
(* the part that is chosen at its beginning.                                   *)
EXTENDS Avl, Capture, Plotting, Http, Statistics, Filter, Names, Pool, Options, Headers, TcptraceScript

VARIABLE part

supportVars ==
    <<part, avlVars, captureVars, plottingVars, httpVars, statisticsVars, filterVars,
      namesVars, poolVars, optionsVars, headersVars, scriptVars>>

-----------------------------------------------------------------------------
(* Avl: addresses and ports that differ in one place, and whole ends swapped; *)
(* connections of a host with itself, whose ports add up to the same; and some *)
(* of both versions of IP.                                                     *)

V4(number) == [version |-> 4, number |-> number]
V6(number) == [version |-> 6, number |-> number]
Firsts == {<<V4(f[1]), f[2], V4(f[3]), f[4]>> :
             f \in {<<1, 1, 2, 1>>, <<2, 2, 1, 1>>, <<1, 2, 2, 1>>, <<2, 2, 1, 2>>,
                    <<1, 1, 3, 1>>, <<3, 2, 1, 1>>, <<2, 1, 3, 2>>, <<3, 2, 2, 2>>}}
Loopback == {<<V4(1), sport, V4(1), 7 - sport>> : sport \in 1..6}
Mixed == {<<V4(1), 1, V4(2), 2>>, <<V6(1), 1, V6(2), 2>>, <<V4(3), 1, V4(4), 2>>}
MCBuckets == {Firsts, Loopback, Mixed}

(* Capture: each format, as a file, compressed and on the standard input, whole *)
(* or cut off; a file that was cut is followed by another with a large frame.   *)

Frame(kind, size, conn) == [kind |-> kind, size |-> size, conn |-> conn]
PlainFrames == <<Frame("ip", 6, "a"), Frame("arp", 5, "none"), Frame("ip", 9, "b"),
                 Frame("ip", 7, "none"), Frame("ip", 6, "a")>>
TaggedFrames == <<Frame("vlan", 6, "a"), Frame("pppoe", 9, "b"), Frame("ip", 7, "b"),
                  Frame("vlanarp", 5, "none"), Frame("ip", 8, "a")>>
LargeFrames == <<Frame("ip", 6, "a"), Frame("ip", 48, "b"), Frame("ip", 5, "b")>>
MCFormats == {"snoop", "atm", "EP6", "EP7", "netm", "ns", "nsfull", "nlanr", "netscout",
              "erfeth", "erfpos", "eth", "ppp", "sll"}
Ways == {"file", "gz", "stdin"}
CaptureOf(format, w, frames, cut) == [format |-> format, way |-> w, frames |-> frames, cut |-> cut]
CutOf(format) == IF format \in {"ns", "nsfull", "netscout"} THEN 1 ELSE 5
MCJobs ==
    {<<CaptureOf(fm, w, PlainFrames, 0)>> : fm \in MCFormats, w \in Ways}
    \cup {<<CaptureOf(fm, w, PlainFrames, CutOf(fm)), CaptureOf(fm, "file", LargeFrames, 0)>> :
             fm \in MCFormats, w \in Ways}
    \cup {<<CaptureOf(fm, w, TaggedFrames, cut)>> :
             fm \in {"snoop", "EP7", "netm", "eth"}, w \in Ways, cut \in {0, 5}}
MCRanges == {<<0, 0>>, <<2, 3>>}

(* Plotting: a plot of an incomplete connection, a time line of a complete one, a   *)
(* plot of no connection; the numbers of c1 pass the end of their space.           *)
MCIsns == [c \in {"c1", "c2"} |-> IF c = "c1" THEN 3 ELSE -1]

(* Http: a HEAD and a GET whose length is announced, and replies without one. *)

Cell(of, n) == [of |-> of, n |-> n]
Request(method) == <<Cell("method", method), Cell("end", 0)>>
Status(code, length) == <<Cell("http", code), Cell("length", length), Cell("end", 0)>>
Bare(code) == <<Cell("http", code), Cell("end", 0)>>
Exchange(rq, rp, code, last) == [request |-> rq, reply |-> rp, code |-> code, last |-> last]
Announced ==
    [client |-> [cells |-> Request("HEAD") \o Request("GET"),
                 segments |-> <<<<1, 2, 0>>, <<3, 4, 0>>>>],
     server |-> [cells |-> Status(200, 4) \o Status(200, 2) \o <<Cell("body", 0), Cell("http", 500)>>,
                 segments |-> <<<<1, 3, 1>>, <<4, 7, 2>>, <<8, 8, 2>>>>],
     exchanges |-> <<Exchange(1, 1, 200, 3), Exchange(3, 4, 200, 8)>>]
Unannounced ==
    [client |-> [cells |-> <<Cell("method", "POST"), Cell("length", 2), Cell("end", 0),
                             Cell("body", 0), Cell("method", "GET")>> \o Request("GET"),
                 segments |-> <<<<1, 3, 0>>, <<4, 7, 0>>>>],
     server |-> [cells |-> Bare(204) \o Bare(200) \o <<Cell("body", 0)>>,
                 segments |-> <<<<1, 2, 2>>, <<3, 5, 2>>>>],
     exchanges |-> <<Exchange(1, 1, 204, 2), Exchange(6, 3, 200, 5)>>]
MCTalks == {Announced, Unannounced}

(* Statistics: two connections, one of them to the port that is excluded. *)
MCPairs == <<<<1, 2>>, <<3, 3>>>>

(* Filter: one expression of each shape over variables of each type. *)

Variable(prefix, name) == [kind |-> "var", prefix |-> prefix, name |-> name]
Constant(type, value) == [kind |-> "const", type |-> type, value |-> value]
Op(op, left, right) == [kind |-> "op", op |-> op, left |-> left, right |-> right]
Not(e) == [kind |-> "not", arg |-> e]
NumericExprs == {Variable("c", "segs"), Variable("b", "segs"), Variable("e", "segs"),
                 Variable("e", "acks"), Constant("ULLONG", 2)}
Arithmetics == {Op("+", Variable("b", "segs"), Variable("e", "acks")),
                Op("-", Variable("e", "segs"), Variable("s", "acks")),
                Op("*", Variable("s", "segs"), Variable("b", "acks")),
                Op("/", Variable("e", "segs"), Variable("e", "acks")),
                Op("&", Variable("b", "segs"), Variable("e", "acks"))}
SignedExprs == {Variable("e", "mss"), Variable("b", "mss"), Constant("LLONG", -1),
                Op("|", Variable("b", "mss"), Constant("LLONG", -3))}
Relations ==
    {Op(">", l, r) : l \in NumericExprs \cup Arithmetics, r \in NumericExprs}
    \cup {Op("<=", l, r) : l \in SignedExprs, r \in SignedExprs \cup {Constant("ULLONG", 2)}}
    \cup {Op("!=", Variable(p, "hostaddr"), Constant("IPADDR", <<4, 1>>)) : p \in {"b", "e"}}
    \cup {Op("=", Variable("e", "hostname"), Constant("STRING", 1))}
Operands == {Op(">", Variable("b", "segs"), Variable("e", "acks")),
             Op(">=", Variable("e", "segs"), Constant("ULLONG", 2)),
             Variable("b", "sack"), Variable("e", "sack"), Variable("e", "ws")}
MCExpressions ==
    Relations \cup {Not(r) : r \in Relations}
    \cup {Op(op, l, r) : op \in {"AND", "OR"}, l, r \in Operands}
    \cup {v \in Operands : v.kind = "var"} \cup {Not(v) : v \in {w \in Operands : w.kind = "var"}}
    \cup {Op("AND", Variable("c", "segs"), Variable("e", "sack")), Variable("e", "segs"),
          Op("+", Variable("e", "ws"), Variable("e", "acks"))}
MCTypes == [segs |-> "ULLONG", acks |-> "ULONG", mss |-> "INT", sack |-> "BOOL", ws |-> "BOOL",
            hostaddr |-> "IPADDR", hostname |-> "STRING"]
TwoSides(c, s) == [c |-> c, s |-> s]
ConnectionOf(segs, acks, mss, sack, ws, addr, name) ==
    [segs |-> segs, acks |-> acks, mss |-> mss, sack |-> sack, ws |-> ws,
     hostaddr |-> addr, hostname |-> name]
MCConnections ==
    <<ConnectionOf(TwoSides(1, 3), TwoSides(2, 0), TwoSides(-1, 3), TwoSides(1, 0), TwoSides(7, 1),
                   TwoSides(<<4, 1>>, <<6, 1>>), TwoSides(1, 2)),
      ConnectionOf(TwoSides(3, 2), TwoSides(1, 1), TwoSides(3, 3), TwoSides(1, 1), TwoSides(0, 7),
                   TwoSides(<<4, 2>>, <<4, 3>>), TwoSides(0, 2)),
      ConnectionOf(TwoSides(15, 0), TwoSides(0, 1), TwoSides(-2, -1), TwoSides(0, 0), TwoSides(1, 1),
                   TwoSides(<<4, 1>>, <<4, 1>>), TwoSides(0, 0))>>

(* Names: results of every length the buffers tell apart, hashes that collide. *)
MCResolver == [h1 |-> "one", h2 |-> "two", h3 |-> "long", h4 |-> "huge", p1 |-> "http", p2 |-> "1022"]
MCLength == [n \in {"one", "two", "long", "huge", "http", "1022"} |->
               CASE n \in {"one", "two"} -> 4 [] n = "long" -> 101 [] n = "huge" -> 501 [] OTHER -> 5]
MCHash == [h1 |-> 0, h2 |-> 1, h3 |-> 2, h4 |-> 1, p1 |-> 0, p2 |-> 1]

(* Pool: a record bigger than half a page, and one of which two fit. *)
MCPerPage == [tcp_pair |-> 1, ptp_snap |-> 2]
MCPerBuffer == [tcp_pair |-> 2, ptp_snap |-> 3]

(* Options: words in the file, the environment and on the command line. *)

Flag(sign, letters) == [of |-> "flags", sign |-> sign, letters |-> letters, value |-> Missing]
FlagOf(sign, letters, v) == [of |-> "flags", sign |-> sign, letters |-> letters, value |-> v]
OnOff(no, text) == [of |-> "bool", no |-> no, text |-> text]
Setting(text, v) == [of |-> "var", text |-> text, value |-> v]
Selecting(opt, v) == [of |-> "select", opt |-> opt, value |-> v]
Module(name, args) == [of |-> "module", name |-> name, args |-> args]
FileName(name) == [of |-> "file", name |-> name]
PortRange(sign, a, b) == [sign |-> sign, first |-> a, last |-> b]
MCBeginningOf ==
    [t \in {"warn_o", "warn_", "res_p", "csv", "continuous", "turn", "max", "output_dir",
            "update_interval"} |->
        CASE t = "warn_o" -> {"warn_ooo"}
          [] t = "warn_" -> {"warn_ooo", "warn_printtrunc"}
          [] t = "res_p" -> {"res_port"}
          [] t = "turn" -> {"turn_off_BSD_dupack"}
          [] t = "max" -> {"max_conn_num"}
          [] OTHER -> {t}]
InFile == {<< >>, <<Flag("-", <<"n", "t">>)>>, <<Flag("+", <<"w">>), OnOff(FALSE, "res_p")>>,
           <<OnOff(TRUE, "turn"), Flag("-", <<"G", "C">>)>>,
           <<FlagOf("-", <<"q", "z">>, [name |-> "xy"]), Setting("max", [number |-> 3])>>}
InEnvironment == {<< >>, <<Flag("+", <<"n", "y", "G">>)>>,
                  <<Flag("+", <<"n", "t", "w">>), OnOff(TRUE, "csv")>>, <<FileName("f0")>>}
OnLine ==
    {Flag("-", <<"w", "e">>), Flag("+", <<"z">>), Flag("-", <<"l", "k", "C">>),
     OnOff(FALSE, "warn_"), OnOff(TRUE, "warn_o"), Setting("update_interval", Bad),
     FlagOf("-", <<"u", "i">>, [list |-> <<<<2, 4>>, <<6>>>>]), FlagOf("-", <<"o">>, [list |-> <<<<3, 2>>>>]),
     FlagOf("-", <<"o">>, [list |-> <<<<1>>, <<2, 3>>>>]), Selecting("oUDP", [list |-> <<<<1, 2>>>>]),
     Module("http", << >>), Module("realtime", << >>),
     Module("traffic", <<[arg |-> "i", value |-> [number |-> 2]],
                         [arg |-> "p", value |-> [list |-> <<PortRange("+", 1, 3), PortRange("-", 2, 2)>>]]>>),
     Module("collie", <<[arg |-> "l", value |-> Missing]>>),
     FlagOf("-", <<"B">>, [number |-> 3]), FlagOf("-", <<"A">>, [number |-> 0])}
Behind == {<<FileName("f1")>>, <<FileName("f1"), FileName("f2")>>, << >>,
           <<FileName("f1"), Module("traffic", <<[arg |-> "p", value |-> [list |-> <<PortRange("-", 2, 2)>>]]>>)>>}
Invocation(rc, env, words, emacs) == [rc |-> rc, env |-> env, line |-> words, emacs |-> emacs]
MCInvocations ==
    {Invocation(rc, env, <<w>> \o b, TRUE) :
        rc \in InFile, env \in InEnvironment, w \in OnLine, b \in Behind}
    \cup {Invocation(<< >>, << >>, <<w, v, FileName("f1")>>, FALSE) : w, v \in OnLine}

(* Headers: segments with options, damaged, fragmented, and cut at every place *)
(* the code asks for; chains of IPv6 headers.                                  *)

Header(kind, size) == [kind |-> kind, size |-> size]
TcpOption(kind, len) == [kind |-> kind, len |-> len, said |-> len]
SizeOf(sized(_), n) == MapThenSumSet(sized, 1..n)
PacketOf(version, hl, heads, opts, caplen) ==
    LET iplen == hl + SizeOf(LAMBDA i : heads[i].size, Len(heads))
                    + SizeOf(LAMBDA i : opts[i].len, Len(opts))
    IN  [version |-> version, ether |-> TRUE, hl |-> hl, heads |-> heads, offset |-> 0,
         more |-> FALSE, iplen |-> iplen, caplen |-> caplen, ulen |-> UdpHeader, summed |-> TRUE,
         ipintact |-> TRUE, intact |-> TRUE, opts |-> opts,
         behind |-> << >>]
OptionLists ==
    {<< >>,
     <<TcpOption("MSS", 4), TcpOption("SACK_PERM", 2), TcpOption("NOP", 1), TcpOption("WS", 3)>>,
     <<TcpOption("NOP", 1), TcpOption("NOP", 1), TcpOption("SACK", 10)>>,
     <<TcpOption("MSS", 4), [kind |-> "X", len |-> 4, said |-> 0], TcpOption("TS", 10)>>}
Segments4 == {PacketOf(4, hl, <<Header("TCP", TcpHeader)>>, opts, hl + n) :
                 hl \in {20, 24}, opts \in OptionLists,
                 n \in {0, 19, 20, 21, 24, 25, 26, 30, 31, 32, 36, 38, 46}}
CutOnes == {p \in Segments4 : p.caplen <= p.iplen \/ p.opts = << >>}
WholeOnes == {p \in Segments4 : p.caplen = p.iplen}
Damaged == {[p EXCEPT !.intact = i, !.ipintact = j, !.more = more] :
               p \in WholeOnes, i, j, more \in BOOLEAN}
LaterOnes == {[p EXCEPT !.offset = n] : p \in WholeOnes, n \in {8, 1480}}
Datagrams4 == {[PacketOf(4, 20, <<Header("UDP", UdpHeader)>>, << >>, 20 + n)
                  EXCEPT !.intact = i, !.summed = s] : n \in {7, 8}, i, s \in BOOLEAN}
ChainsOf6 == {<< >>, <<Header("HOPOPTS", 8)>>, <<Header("ROUTING", 24), Header("DSTOPTS", 16)>>,
              <<Header("ROUTING", 8)>>, <<Header("OTHER", 8)>>,
              <<Header("DSTOPTS", 8), Header("FRAGMENT", 8)>>,
              <<Header("FRAGMENT", 8), Header("DSTOPTS", 8)>>}
Last6 == {Header("TCP", TcpHeader), Header("UDP", UdpHeader), Header("NONE", 0), Header("ICMPV6", 8)}
\* The segment after a fragment header reads as itself; a header between the two is
\* read in the middle of what is sent, and what comes next is what is there by chance.
AsItIs(c, h) == IF c[Len(c)].kind = "FRAGMENT" THEN {<<h>>}
                ELSE {<<c[Len(c)], g>> : g \in Last6 \cup {Header("LATER", 8)}}
BehindOf(c, h) == IF \E k \in DOMAIN c : c[k].kind = "FRAGMENT" THEN AsItIs(c, h) ELSE {<< >>}
Packets6 == UNION {{[PacketOf(6, 40, c \o <<h>>, << >>, 0) EXCEPT
                       !.caplen = 40 + SizeOf(LAMBDA k : c[k].size, Len(c)) + n, !.intact = i,
                       !.behind = b] :
                       n \in {-9, 0, 8, 19, 20, 28, 36}, i \in BOOLEAN, b \in BehindOf(c, h)} :
                     c \in ChainsOf6, h \in Last6}
Fragments6 == {[p EXCEPT !.offset = n] :
                 p \in {q \in Packets6 : HasA(q, "FRAGMENT")}, n \in {8, 1232}}
\* What is read for the options of a misread segment are any bytes.
StrangeOnes == {[PacketOf(6, 40, <<Header("FRAGMENT", 8), Header("TCP", TcpHeader)>>,
                          <<TcpOption("X", 1), TcpOption("SACK", 5), TcpOption("SACK", 3)>>, 40 + n)
                   EXCEPT !.behind = <<Header("TCP", TcpHeader)>>] : n \in 36..48}
OtherOnes == LET p == PacketOf(4, 20, <<Header("TCP", TcpHeader)>>, << >>, 40)
             IN {[p EXCEPT !.version = 5], [p EXCEPT !.ether = FALSE],
                 PacketOf(4, 20, <<Header("ICMPV6", 8)>>, << >>, 28)}
MCArriving == CutOnes \cup Damaged \cup LaterOnes \cup Datagrams4 \cup Packets6 \cup Fragments6
                \cup StrangeOnes \cup OtherOnes

(* TcptraceScript: two captures of one session, alone or together. *)
MCSessionOf == [c \in Captures |-> "s1"]
MCBegun == {[t1 |-> 0, t2 |-> 2], [t1 |-> 1, t2 |-> 1]}

-----------------------------------------------------------------------------
(* A part that is not chosen stays in one of its initial states. *)

Among(S) == CHOOSE x \in S : TRUE
SomeJob == Among(Jobs)
SomeRange == Among(Ranges)
SomeTalk == Among(Talks)
SomeExpression == Among(Expressions)
SomeInvocation == Among(Invocations)

Init ==
    /\ part \in {"avl", "capture", "plotting", "http", "statistics", "filter", "names", "pool",
                 "options", "headers", "script"}
    /\ part = "avl" \/ (part # "avl" /\ firsts = Firsts)
    /\ AvlInit
    /\ part = "capture" \/ (part # "capture" /\ job = SomeJob /\ range = SomeRange)
    /\ CaptureInit
    /\ \/ part = "plotting"
       \/ part # "plotting" /\ options = [graph_time_zero |-> FALSE, ignore_non_comp |-> FALSE]
    /\ PlottingInit
    /\ part = "http" \/ (part # "http" /\ talk = SomeTalk)
    /\ HttpInit
    /\ StatisticsInit
    /\ part = "filter" \/ (part # "filter" /\ expr = SomeExpression)
    /\ FilterInit
    /\ NamesInit /\ PoolInit
    /\ part = "options" \/ (part # "options" /\ asked = SomeInvocation)
    /\ OptionsInit
    /\ part = "headers" \/ (part # "headers" /\ checks = [verify |-> FALSE, udp |-> FALSE])
    /\ HeadersInit
    /\ \/ part = "script"
       \/ part # "script" /\ folder = [s \in Sessions |-> FALSE] /\ tries = Among(Begun)
    /\ ScriptInit

\* Only the variables of the part that was chosen change.
Next ==
    /\ UNCHANGED part
    /\ IF part = "avl" THEN AvlNext ELSE UNCHANGED avlVars
    /\ IF part = "capture" THEN CaptureNext ELSE UNCHANGED captureVars
    /\ IF part = "plotting" THEN PlottingNext ELSE UNCHANGED plottingVars
    /\ IF part = "http" THEN HttpNext ELSE UNCHANGED httpVars
    /\ IF part = "statistics" THEN StatisticsNext ELSE UNCHANGED statisticsVars
    /\ IF part = "filter" THEN FilterNext ELSE UNCHANGED filterVars
    /\ IF part = "names" THEN NamesNext ELSE UNCHANGED namesVars
    /\ IF part = "pool" THEN PoolNext ELSE UNCHANGED poolVars
    /\ IF part = "options" THEN OptionsNext ELSE UNCHANGED optionsVars
    /\ IF part = "headers" THEN HeadersNext ELSE UNCHANGED headersVars
    /\ IF part = "script" THEN ScriptNext ELSE UNCHANGED scriptVars

Spec == Init /\ [][Next]_supportVars
=============================================================================
