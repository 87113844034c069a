------------------------------- MODULE Options -------------------------------
(* How tcptrace is told what to do: LoadModules lets every module take its   *)
(* words from the whole command line, then CheckArguments parses the file    *)
(* ~/.tcptracerc, the variable TCPTRACEOPTS and the command line, each with  *)
(* ParseArgs, up to the first word that is no option: the files begin there. *)
(* A word is a record:                                                       *)
(*   [of |-> "module", name, args]    -xname with the words inside its text  *)
(*   [of |-> "flags", sign, letters, value]    the letters of one word; the  *)
(*        rest of the word is the value of a letter that takes one           *)
(*   [of |-> "bool", no, text]        --text or --notext                     *)
(*   [of |-> "var", text, value]      --text=value                           *)
(*   [of |-> "select", opt, value]    --iTCP and its like                    *)
(*   [of |-> "file", name]                                                   *)
(* A value is Missing, [number |-> n], [list |-> ranges <<first, last>> and  *)
(* single numbers <<n>>], [name |-> text], or Bad if it is not well formed.  *)
EXTENDS Integers, Sequences, FiniteSets, SequencesExt, TLC

CONSTANTS
    Invocations,  \* [rc, env, line : Seq(words), emacs : BOOLEAN]
    BeginningOf,     \* [text of an option -> the names in the tables it begins]
    LastPort,     \* NUM_PORTS - 1
    Missing, Bad  \* values that are not there, or not well formed

VARIABLES
    asked,     \* the invocation
    line,      \* argv: the words of the command line that are left
    source,      \* the source that is parsed, and then "run" or "exit"
    at,        \* its words that have been parsed
    settings,  \* the globals
    calls,     \* history: the calls of IgnoreConn, OnlyConn and their like
    inuse,     \* module_inuse
    filenames  \* <<the source, its words from the first file on>>, << >> for NULL

optionsVars == <<asked, line, source, at, settings, calls, inuse, filenames>>

Flags(on, off) == [f \in on \cup off |-> f \in on]
Taken == [of |-> "NULL"]
Modules == <<"http", "traffic", "slice", "rttgraph", "collie", "realtime">>

-----------------------------------------------------------------------------
(* The tables.                                                             *)

Warnings == {"warn_printtrunc", "warn_printbadmbz", "warn_printhwdups",
             "warn_printbadcsum", "warn_ooo"}
Graphs == {"graph_tput", "graph_tsg", "graph_rtt", "graph_owin", "graph_segsize", "graph_tline"}
Resolving == {"resolve_ipaddresses", "resolve_ports"}

FlagDefaults ==
    Flags({"colorplot", "hex", "printbrief", "plot_tput_instant", "dup_ack_handling",
           "show_sacks", "ns_hdrs"} \cup Resolving,
          {"print_owin", "dump_rtt", "timeseries", "ignore_non_comp", "save_tcp_data", "printem",
           "filter_output", "printallofem", "printsuppress", "print_rtt", "use_short_names",
           "printticks", "do_udp", "graph_time_zero", "graph_seq_zero", "csv", "tsv",
           "warn_printbad_syn_fin_seq", "run_continuously", "conn_num_threshold", "print_labels"}
          \cup Warnings \cup Graphs)
Defaults ==
    FlagDefaults @@
       [thru_interval |-> 10, beginpnum |-> 0, endpnum |-> 0, output_filename |-> "",
        filter |-> "", output_file_dir |-> "", update_interval |-> 30, max_conn_num |-> 50000,
        age_interval |-> 15, slice_interval |-> 15, included |-> 1..LastPort]

\* What the letters of a word with "-" set.
Minus ==
    [C |-> Flags({"colorplot"}, {}), M |-> Flags({}, {"colorplot"}), D |-> Flags({}, {"hex"}),
     X |-> Flags({"hex"}, {}), F |-> Flags({"graph_segsize"}, {}), G |-> Flags(Graphs, {}),
     L |-> Flags({"graph_tline"}, {}), N |-> Flags({"graph_owin"}, {}),
     R |-> Flags({"graph_rtt"}, {}), S |-> Flags({"graph_tsg"}, {}),
     T |-> Flags({"graph_tput"}, {}), P |-> Flags({"printem"}, {}),
     W |-> Flags({"print_owin"}, {}), Z |-> Flags({"dump_rtt"}, {}),
     j |-> Flags({"timeseries"}, {}), b |-> Flags({"printbrief"}, {}),
     l |-> Flags({}, {"printbrief"}), c |-> Flags({"ignore_non_comp"}, {}),
     e |-> Flags({"save_tcp_data"}, {}), n |-> Flags({}, Resolving),
     p |-> Flags({"printallofem"}, {}), q |-> Flags({"printsuppress"}, {}),
     r |-> Flags({"print_rtt"}, {}), s |-> Flags({"use_short_names"}, {}),
     t |-> Flags({"printticks"}, {}), u |-> Flags({"do_udp"}, {}),
     w |-> Flags(Warnings \cup {"warn_printbad_syn_fin_seq"}, {}),
     y |-> Flags({}, {"plot_tput_instant"})]

\* With "+" they reverse it, but for one warning; -y is toggled (see Letter).
Plus ==
    [l \in DOMAIN Minus \ {"G", "y"} |->
        [f \in DOMAIN Minus[l] \ (IF l = "w" THEN {"warn_printbad_syn_fin_seq"} ELSE {}) |->
            ~Minus[l][f]]]

Zero == [x |-> {"graph_time_zero"}, y |-> {"graph_seq_zero"},
         xy |-> {"graph_time_zero", "graph_seq_zero"}]

\* extended_bools: the flag and its bool_default.
ExtendedBools ==
    [showsacks |-> <<"show_sacks", TRUE>>, res_addr |-> <<"resolve_ipaddresses", TRUE>>,
     res_port |-> <<"resolve_ports", TRUE>>, warn_ooo |-> <<"warn_ooo", TRUE>>,
     warn_printtrunc |-> <<"warn_printtrunc", TRUE>>, continuous |-> <<"run_continuously", TRUE>>,
     limit_conn_num |-> <<"conn_num_threshold", TRUE>>, ns_hdrs |-> <<"ns_hdrs", TRUE>>,
     csv |-> <<"csv", TRUE>>, tsv |-> <<"tsv", TRUE>>,
     turn_off_BSD_dupack |-> <<"dup_ack_handling", FALSE>>]

\* extended_vars; the checked ones want a number above 0.
ExtendedVars ==
    [output_dir |-> "output_file_dir", update_interval |-> "update_interval",
     max_conn_num |-> "max_conn_num"]
Checked == {"update_interval", "max_conn_num"}

\* extended_options, and the letters -i and -o.
ExtendedOpts ==
    [iTCP |-> <<"IgnoreConn", "TCP">>, oTCP |-> <<"OnlyConn", "TCP">>,
     iUDP |-> <<"IgnoreConn", "UDP">>, oUDP |-> <<"OnlyConn", "UDP">>]

-----------------------------------------------------------------------------
(* One word.  A result is [settings, calls, ok]: not ok is BadArg or Usage. *)

Globals == [settings |-> settings, calls |-> calls, ok |-> TRUE]
BadArg(g) == [g EXCEPT !.ok = FALSE]
Set(g, flags) == [g EXCEPT !.settings = flags @@ @]

\* Ignore, GrabOnly, IgnoreUDP, GrabOnlyUDP: the list in the word, or in the file
\* it names, which FileToBuf reads; the calls before a range that is not one stay.
Ignore(g, opt, value) ==
    LET bad == SelectInSeq(value.list, LAMBDA r : Len(r) = 2 /\ r[1] >= r[2])
        good == IF bad = 0 THEN value.list ELSE SubSeq(value.list, 1, bad - 1)
        Run(r) == [k \in 1..(r[Len(r)] - r[1] + 1) |-> ExtendedOpts[opt] \o <<r[1] + k - 1>>]
    IN  IF value \in {Missing, Bad} THEN BadArg(g)
        ELSE [g EXCEPT !.calls = @ \o FlattenSeq([k \in DOMAIN good |-> Run(good[k])]),
                       !.ok = bad = 0]

VerifyNumber(g, name, value, least) ==
    IF value \in {Missing, Bad} THEN BadArg(g)
    ELSE IF value.number < least THEN BadArg(g) ELSE Set(g, name :> value.number)

\* The letters of "-" that take the rest of the word.
Valued(g, l, value) ==
    CASE l = "A" -> VerifyNumber(g, "thru_interval", value, 1)
      [] l = "B" -> VerifyNumber(g, "beginpnum", value, 0)
      [] l = "E" -> VerifyNumber(g, "endpnum", value, 0)
      [] l = "O" -> IF value = Missing THEN BadArg(g) ELSE Set(g, "output_filename" :> value.name)
      [] l = "f" -> IF value = Missing THEN BadArg(g)
                    ELSE Set(g, [filter_output |-> TRUE, filter |-> value.name])
      [] l = "i" -> Ignore(g, "iTCP", value)
      [] l = "o" -> IF g.settings.run_continuously THEN g ELSE Ignore(g, "oTCP", value)

Letter(g, sign, l, value) ==
    CASE l = "z" -> IF value = Bad THEN BadArg(g)
                    ELSE Set(g, [f \in Zero[IF value = Missing THEN "x" ELSE value.name] |-> sign = "-"])
      [] sign = "+" /\ l = "y" ->
           [g EXCEPT !.settings.plot_tput_instant = ~@]
      [] sign = "-" /\ l \in DOMAIN Minus -> Set(g, Minus[l])
      [] sign = "+" /\ l \in DOMAIN Plus -> Set(g, Plus[l])
      [] sign = "-" /\ l \in {"A", "B", "E", "O", "f", "i", "o"} -> Valued(g, l, value)
      [] OTHER -> BadArg(g)

\* The name that a text stands for: the text itself, or the only one it begins.
Name(text, table) ==
    LET prefixes == BeginningOf[text] \cap DOMAIN table
    IN  IF text \in DOMAIN table THEN text
        ELSE IF Cardinality(prefixes) = 1 THEN CHOOSE n \in prefixes : TRUE
        ELSE "none"

ParseExtendedBool(g, w) ==
    LET name == Name(w.text, ExtendedBools)
    IN  IF name = "none" THEN BadArg(g)
        ELSE LET op == ExtendedBools[name]
             IN  Set(g, op[1] :> (IF w.no THEN ~op[2] ELSE op[2]))

\* A number of connections also turns their limit on.
ParseExtendedVar(g, w) ==
    LET name == Name(w.text, ExtendedVars)
    IN  IF name = "none" THEN BadArg(g)
        ELSE IF name \notin Checked THEN Set(g, ExtendedVars[name] :> w.value.name)
        ELSE VerifyNumber(IF name = "max_conn_num" THEN Set(g, Flags({"conn_num_threshold"}, {})) ELSE g,
                    ExtendedVars[name], w.value, 1)

ParseFlags(g, w) ==
    FoldLeft(LAMBDA h, l : IF h.ok THEN Letter(h, w.sign, l, w.value) ELSE h, g, w.letters)

Parsed(g, w) ==
    CASE w.of = "NULL" -> g
      [] w.of = "select" -> Ignore(g, w.opt, w.value)
      [] w.of = "bool" -> ParseExtendedBool(g, w)
      [] w.of = "var" -> ParseExtendedVar(g, w)
      [] w.of = "flags" -> ParseFlags(g, w)
      [] w.of = "module" -> BadArg(g)

-----------------------------------------------------------------------------
(* The modules.                                                            *)

\* ParseArgs of mod_traffic: the first list of ports excludes all of them.
PortList(g, list, excluded) ==
    LET start == IF excluded THEN g.settings.included ELSE {}
        Next(ports, spec) == IF spec.sign = "-" THEN ports \ (spec.first..spec.last)
                             ELSE ports \cup (spec.first..spec.last)
    IN  IF \E k \in DOMAIN list : {list[k].first, list[k].last} \ (0..LastPort) # {} THEN BadArg(g)
        ELSE Set(g, "included" :> FoldLeft(Next, start, list))

TrafficArgs(g, args) ==
    LET Lists(k) == \E j \in 1..(k - 1) : args[j].arg = "p"
        Arg(h, k) == CASE args[k].arg = "i" -> Set(h, "age_interval" :> args[k].value.number)
                       [] args[k].arg = "p" -> PortList(h, args[k].value.list, Lists(k))
                       [] OTHER -> BadArg(h)
    IN  FoldLeft(Arg, g, [k \in DOMAIN args |-> k])

SliceArgs(g, args) ==
    FoldLeft(LAMBDA h, a : IF a.arg = "i" THEN Set(h, "slice_interval" :> a.value.number) ELSE BadArg(h),
             g, args)

CollieArgs(g, args) ==
    FoldLeft(LAMBDA h, a : IF a.arg \in {"l", "n"} THEN Set(h, "print_labels" :> (a.arg = "l"))
                           ELSE BadArg(h), g, args)

\* What the init routine of a module that is asked for does to the globals.
ModuleInit(g, name, args) ==
    CASE name = "http" -> Set(g, Flags({"save_tcp_data"}, {}))
      [] name = "traffic" -> Set(TrafficArgs(g, args), Flags({"printsuppress"}, {}))
      [] name = "slice" -> SliceArgs(g, args)
      [] name = "collie" -> Set(CollieArgs(g, args), Flags({"printsuppress", "do_udp"}, {}))
      [] name = "realtime" -> Set(g, Flags({"run_continuously", "do_udp"}, Resolving))
      [] OTHER -> g

IsOf(w, name) == w.of = "module" /\ w.name = name

-----------------------------------------------------------------------------
OptionsInit ==
    /\ asked \in Invocations
    /\ line = asked.line
    /\ source = "modules" /\ at = 0
    /\ settings = Defaults /\ calls = <<>>
    /\ inuse = {} /\ filenames = <<>>

\* Two words for one module: the arguments of the last count.
LoadModule ==
    /\ source = "modules" /\ at < Len(Modules)
    /\ LET name == Modules[at + 1]
           mine == SelectSeq(line, LAMBDA w : IsOf(w, name))
           g == IF mine = <<>> THEN Globals ELSE ModuleInit(Globals, name, Last(mine).args)
       IN  /\ settings' = g.settings
           /\ source' = IF g.ok THEN source ELSE "exit"
           /\ inuse' = IF mine = <<>> THEN inuse ELSE inuse \cup {name}
           /\ line' = [k \in DOMAIN line |-> IF IsOf(line[k], name) THEN Taken ELSE line[k]]
    /\ at' = at + 1
    /\ UNCHANGED <<asked, calls, filenames>>

SourceWords == IF source = "rc" THEN asked.rc ELSE IF source = "env" THEN asked.env ELSE line

\* Faulty variant: the environment before the file.
AfterSwapped ==
    [modules |-> "env", env |-> "rc", rc |-> "line", line |-> "start"]

After == [modules |-> "rc", rc |-> "env", env |-> "line", line |-> "start"]

\* ParseArgs, a word at a time.
ParseWord ==
    /\ source \in {"rc", "env", "line"} /\ at < Len(SourceWords)
    /\ LET w == SourceWords[at + 1]
       IN  IF w.of = "file"
           THEN /\ filenames' = <<source, SubSeq(SourceWords, at + 1, Len(SourceWords))>>
                /\ source' = After[source] /\ at' = 0
                /\ UNCHANGED <<settings, calls>>
           ELSE LET g == Parsed(Globals, w)
                IN  /\ settings' = g.settings /\ calls' = g.calls
                    /\ source' = IF g.ok THEN source ELSE "exit"
                    /\ at' = at + 1
                    /\ UNCHANGED filenames
    /\ UNCHANGED <<asked, line, inuse>>

NextSource ==
    /\ source \in {"modules", "rc", "env", "line"}
    /\ at = IF source = "modules" THEN Len(Modules) ELSE Len(SourceWords)
    /\ source' = After[source] /\ at' = 0
    /\ UNCHANGED <<asked, line, settings, calls, inuse, filenames>>

\* The end of CheckArguments: a file is needed, and no ticks in a shell of emacs.
Start ==
    /\ source = "start"
    /\ source' = IF filenames = <<>> THEN "exit" ELSE "run"
    /\ settings' = IF asked.emacs THEN [settings EXCEPT !.printticks = FALSE] ELSE settings
    /\ UNCHANGED <<asked, line, at, calls, inuse, filenames>>

OptionsNext == LoadModule \/ ParseWord \/ NextSource \/ Start
OptionsSpec == OptionsInit /\ [][OptionsNext]_optionsVars

-----------------------------------------------------------------------------
(* What was asked, read off all the words at once.                         *)

\* The options of a source are its words before the first that is a file.
Options(words) ==
    LET files == SelectInSeq(words, LAMBDA w : w.of = "file")
    IN  SelectSeq(IF files = 0 THEN words ELSE SubSeq(words, 1, files - 1),
                  LAMBDA w : w.of # "module")
Said == Options(asked.rc) \o Options(asked.env) \o Options(asked.line)

\* The letters of all words, in their order.
Letters ==
    FlattenSeq([k \in DOMAIN Said |->
        IF Said[k].of # "flags" THEN <<[word |-> Said[k], letter |-> ""]>>
        ELSE [j \in DOMAIN Said[k].letters |->
                 [word |-> Said[k], letter |-> Said[k].letters[j]]]])

\* What a letter or a long word says of a flag; {} if it does not mention it.
Says(x, flag) ==
    LET w == x.word
        Unambiguous(table) == {n \in DOMAIN table : n = w.text \/ BeginningOf[w.text] = {n}}
    IN  CASE w.of = "bool" -> {ExtendedBools[n][2] # w.no :
                                  n \in {m \in Unambiguous(ExtendedBools) : ExtendedBools[m][1] = flag}}
          [] w.of = "var" -> IF flag = "conn_num_threshold" /\ Unambiguous(ExtendedVars) = {"max_conn_num"}
                             THEN {TRUE} ELSE {}
          [] w.of = "flags" /\ x.letter = "z" ->
               IF flag \in Zero[IF w.value = Missing THEN "x" ELSE w.value.name] THEN {w.sign = "-"} ELSE {}
          [] w.of = "flags" /\ x.letter = "f" -> IF flag = "filter_output" THEN {TRUE} ELSE {}
          [] w.of = "flags" /\ x.letter \in DOMAIN Minus ->
               IF \/ flag \notin DOMAIN Minus[x.letter]
                  \/ (w.sign = "+" /\ flag = "warn_printbad_syn_fin_seq") THEN {}
               ELSE {Minus[x.letter][flag] = (w.sign = "-")}
          [] OTHER -> {}

\* The modules in use, before any word is parsed.
OfModules(flag) ==
    CASE flag = "save_tcp_data" /\ "http" \in inuse -> TRUE
      [] flag = "printsuppress" /\ inuse \cap {"traffic", "collie"} # {} -> TRUE
      [] flag = "do_udp" /\ inuse \cap {"collie", "realtime"} # {} -> TRUE
      [] flag = "run_continuously" /\ "realtime" \in inuse -> TRUE
      [] flag \in Resolving /\ "realtime" \in inuse -> FALSE
      [] OTHER -> FlagDefaults[flag]

Asked(flag) ==
    LET letters == Letters
        mentions == {k \in DOMAIN letters : Says(letters[k], flag) # {}}
        last == CHOOSE k \in mentions : \A j \in mentions : j <= k
    IN  IF mentions = {} THEN OfModules(flag) ELSE CHOOSE v \in Says(letters[last], flag) : TRUE

BooleanFlags == DOMAIN FlagDefaults \ {"plot_tput_instant", "print_labels"}

\* The program runs with what it was asked, whatever the order in which words were
\* split over the file, the environment, the command line and bundles of letters:
\* every flag has the value of the last mention of it, no connection is selected
\* but by a list, each number once per mention, and the files read are the words
\* that end the command line.  A range of ports gives what a reader of the
\* specification includes (tcptrace.c:1652-2366, mod_traffic.c:1298-1334).
OptionsAreAsked ==
    source = "run" =>
        /\ \A f \in BooleanFlags :
               settings[f] = (Asked(f) /\ ~(f = "printticks" /\ asked.emacs))
        /\ LET lists == SelectSeq(Letters, LAMBDA x :
                           x.word.of = "select" \/ x.letter \in {"i", "o"})
               opt(x) == IF x.word.of = "select" THEN x.word.opt
                         ELSE IF x.letter = "i" THEN "iTCP" ELSE "oTCP"
               numbers == UNION {{<<k, r, n>> : n \in lists[k].word.value.list[r][1]
                                                      ..Last(lists[k].word.value.list[r])} :
                              <<k, r>> \in {q \in (DOMAIN lists) \X (1..3) :
                                               q[2] \in DOMAIN lists[q[1]].word.value.list}}
               obeyed == {q \in numbers : opt(lists[q[1]]) # "oTCP"
                             \/ lists[q[1]].word.of = "select" \/ ~settings.run_continuously}
           IN  "continuous" \notin {x.word.text : x \in {y \in ToSet(Letters) : y.word.of = "bool"}} =>
               /\ Len(calls) = Cardinality(obeyed)
               /\ ToSet(calls) = {ExtendedOpts[opt(lists[q[1]])] \o <<q[3]>> : q \in obeyed}
        /\ LET names == SelectInSeq(asked.line, LAMBDA w : w.of = "file")
           IN  names # 0 => filenames = <<"line", SubSeq(line, names, Len(line))>>
        /\ "traffic" \in inuse =>
               LET mine == SelectSeq(asked.line, LAMBDA w : IsOf(w, "traffic"))
                   lists == SelectSeq(Last(mine).args, LAMBDA a : a.arg = "p")
                   specs == FlattenSeq([k \in DOMAIN lists |-> lists[k].value.list])
                   of(p) == {k \in DOMAIN specs : p \in specs[k].first..specs[k].last}
               IN  settings.included = {p \in 1..LastPort :
                       IF of(p) = {} THEN lists = <<>>
                       ELSE specs[CHOOSE k \in of(p) : \A j \in of(p) : j <= k].sign = "+"}
        /\ inuse = {w.name : w \in {v \in ToSet(asked.line) : v.of = "module"}}
=============================================================================
