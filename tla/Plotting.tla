------------------------------ MODULE Plotting ------------------------------
(***************************************************************************)
(* What tcptrace writes while it reads and after: plots (plotter.c), the   *)
(* contents of streams (ExtractContents of trace.c) and the reports of the *)
(* modules, all of them through Mfiles.                                    *)
(***************************************************************************)
EXTENDS Mfiles

CONSTANTS
    Plots, Contents, Reports,   \* the files of each kind
    TimeLines,        \* the plots with switched axes
    Incomplete,       \* the plots of connections that are not complete
    Unconnected,      \* the plots of no connection, as those of mod_traffic
    Times,            \* bound: the times of the packets
    Isns,             \* per file of Contents: the sequence number of its SYN, or Unseen
    Sequence,         \* bound: the sequence numbers of segments
    ModSeq,           \* 2^32: the sequence numbers there are
    MaxCommands       \* bound: the commands and segments with data of a run

Unseen == -1

ASSUME PlottingAssumption ==
    /\ TimeLines \cup Incomplete \cup Unconnected \subseteq Plots
    /\ Files = Plots \cup Contents \cup Reports
    /\ Plots \cap Contents = {} /\ Reports \cap (Plots \cup Contents) = {}
    /\ ModSeq \in Nat \ {0}
    /\ Times \subseteq Nat \ {0} /\ Sequence \subseteq 0..(ModSeq - 1)
    /\ Isns \in [Contents -> {Unseen} \cup 0..(ModSeq - 1)]
    /\ MaxCommands \in Nat

VARIABLES
    files,      \* what Mfiles keeps
    plotter,    \* the plotters, see new_plotter
    extracted,  \* per stream: the first sequence number of its file and the last written
    data_bytes, \* per stream: the bytes of data seen, saved or not
    phase,      \* "read", "modules", "done", "exit", "crash": where main is
    options,    \* the switches of the command line
    commands,      \* history: per file of Plots, what it has to hold
    stored      \* history: per file of Contents, the sequence numbers written

plottingVars == <<files, plotter, extracted, data_bytes, phase, options, commands, stored>>

-----------------------------------------------------------------------------
(* plotter.c.                                                              *)

NoPlotter == [open |-> FALSE, header_done |-> FALSE, axis_switched |-> FALSE,
              zerotime |-> 0]

xp_zerotime(p, t) ==
    IF (options.graph_time_zero \/ p.axis_switched) /\ p.zerotime = 0 THEN t ELSE p.zerotime

\* The time of a command: since the first of its plot, 0 if it is before that.
xp_timestamp(p, t) ==
    LET zero == xp_zerotime(p, t)
    IN  IF zero = 0 THEN t ELSE IF t < zero THEN 0 ELSE t - zero

WritePlotHeader(m, f, p) ==
    IF p.header_done THEN m
    ELSE Mfprintf(m, f, <<"header", IF p.axis_switched THEN "dtime axis" ELSE "time axis">>)

\* A command, behind the header.
DoPlot(f, command, time) ==
    LET p == plotter[f]
        line == <<command, xp_timestamp(p, time)>>
    IN  /\ files' = Mfprintf(WritePlotHeader(files, f, p), f, line)
        /\ plotter' = [plotter EXCEPT ![f].header_done = TRUE, ![f].zerotime = xp_zerotime(p, time)]
        /\ commands' = [commands EXCEPT ![f] = Append(@, line)]

new_plotter(f, time) ==
    /\ phase = "read" /\ ~plotter[f].open
    /\ files' = Mfopen(files, f)
    /\ LET p == [NoPlotter EXCEPT !.open = TRUE, !.axis_switched = f \in TimeLines]
       IN  plotter' = [plotter EXCEPT ![f] = [p EXCEPT !.zerotime = xp_zerotime(p, time)]]
    /\ UNCHANGED <<extracted, data_bytes, phase, options, commands, stored>>

Commands == FoldSet(LAMBDA f, n : n + Len(commands[f]), 0, Plots)
           + FoldSet(LAMBDA f, n : n + data_bytes[f], 0, Contents)

\* plotter_and the command it is for.
Plot(f, command, time) ==
    /\ phase = "read" /\ plotter[f].open /\ Commands < MaxCommands
    /\ DoPlot(f, command, time)
    /\ UNCHANGED <<extracted, data_bytes, phase, options, stored>>

-----------------------------------------------------------------------------
(* ExtractContents.                                                        *)

SEQCMP(a, b) == a - b          \* of two 64-bit integers

\* A segment of one byte: the position in the file moves by the distance to the
\* segment before, and goes back to where this one starts.  A byte before the first
\* is refused in a stream of less than half the sequence space; in a longer one its
\* place is before the file: the seek fails and ends the process.  A byte that is
\* not in the capture is not saved.
ExtractContents(f, seq, saved) ==
    /\ phase = "read" /\ Commands < MaxCommands
    /\ data_bytes' = [data_bytes EXCEPT ![f] = @ + 1]
    /\ LET first == extracted[f].initseq = Unseen
           init == IF ~first THEN extracted[f].initseq
                   ELSE IF Isns[f] = Unseen THEN seq ELSE (Isns[f] + 1) % ModSeq
           last == IF first THEN init ELSE extracted[f].lastseq
           opened == IF first THEN Mfopen(files, f) ELSE files
           fptr == Mftell(opened, f) + SEQCMP(seq, last)
           refused == SEQCMP(seq, init) < 0 /\ data_bytes[f] + 1 < (ModSeq - 1) \div 2
       IN  \/ /\ ~saved
              /\ UNCHANGED <<files, extracted, phase, stored>>
           \/ /\ saved /\ (refused \/ fptr < 0)
              /\ files' = opened
              /\ extracted' = [extracted EXCEPT ![f] = [initseq |-> init, lastseq |-> last]]
              /\ phase' = IF refused THEN phase ELSE "exit"
              /\ UNCHANGED stored
           \/ /\ saved /\ ~refused /\ fptr >= 0
              /\ files' = Mfseek(Mfprintf(Mfseek(opened, f, fptr), f, seq), f, fptr)
              /\ extracted' = [extracted EXCEPT ![f] = [initseq |-> init, lastseq |-> seq]]
              /\ stored' = [stored EXCEPT ![f] = Append(@, seq)]
              /\ UNCHANGED phase
    /\ UNCHANGED <<plotter, options, commands>>

-----------------------------------------------------------------------------
(* The end: FinishModules, plotter_done.                                   *)

FinishReading ==
    /\ phase = "read"
    /\ phase' = "modules"
    /\ UNCHANGED <<files, plotter, extracted, data_bytes, options, commands, stored>>

\* A module writes its report and closes it.
Report(f) ==
    /\ phase = "modules" /\ files.disk[f] = <<>>
    /\ files' = Mfclose(Mfprintf(Mfopen(files, f), f, <<"report">>), f)
    /\ UNCHANGED <<plotter, extracted, data_bytes, phase, options, commands, stored>>

\* One turn of the loop: a plot of a connection that is not complete is left as
\* it is, as the name of the file to remove is set nowhere.
Finish(m, f) ==
    LET headed == WritePlotHeader(m, f, plotter[f])
    IN  Mfclose(IF options.ignore_non_comp /\ f \in Incomplete THEN headed
                ELSE Mfprintf(headed, f, <<"go">>), f)
InTurn(f, m) == IF plotter[f].open THEN Finish(m, f) ELSE m

\* With -c the connection of each plot is asked for the name of its file, also where
\* there is no connection: the process ends there, and what is in its buffers is lost.
plotter_done ==
    /\ phase = "modules"
    /\ IF options.ignore_non_comp /\ \E f \in Unconnected : plotter[f].open
       THEN phase' = "crash" /\ UNCHANGED files
       ELSE phase' = "done" /\ files' = FoldSet(InTurn, files, Plots)
    /\ UNCHANGED <<plotter, extracted, data_bytes, options, commands, stored>>

PlottingInit ==
    /\ files = Minit
    /\ plotter = [f \in Plots |-> NoPlotter]
    /\ extracted = [f \in Contents |-> [initseq |-> Unseen, lastseq |-> Unseen]]
    /\ data_bytes = [f \in Contents |-> 0]
    /\ phase = "read"
    /\ options \in [graph_time_zero : BOOLEAN, ignore_non_comp : BOOLEAN]
    /\ commands = [f \in Plots |-> <<>>] /\ stored = [f \in Contents |-> <<>>]

PlottingNext ==
    \/ \E f \in Plots, t \in Times : new_plotter(f, t) \/ Plot(f, "dot", t)
    \/ \E f \in Contents, seq \in Sequence, saved \in BOOLEAN : ExtractContents(f, seq, saved)
    \/ FinishReading
    \/ \E f \in Reports : Report(f)
    \/ plotter_done

PlottingSpec == PlottingInit /\ [][PlottingNext]_plottingVars

-----------------------------------------------------------------------------
(* Properties.                                                             *)

\* However few descriptors there are and in whatever order files are written,
\* closed and opened again: a plot holds its header once, then the commands it
\* was given, in order, and nothing else; after plotter_done the plots of complete
\* connections end with "go".  No file without a stream is ever closed.
PlotsAreWhole ==
    /\ ~files.crashed
    /\ \A f \in Plots : plotter[f].open =>
          LET p == plotter[f]
              header == <<"header", IF p.axis_switched THEN "dtime axis" ELSE "time axis">>
              last == IF options.ignore_non_comp /\ f \in Incomplete THEN <<>> ELSE <<<<"go">>>>
          IN  files.disk[f] = CASE phase = "done" -> <<header>> \o commands[f] \o last
                                [] phase # "done" /\ p.header_done -> <<header>> \o commands[f]
                                [] OTHER -> <<>>

\* A file of contents holds each byte of the stream that was written at its own
\* place, and nothing else: segments out of order, sent again or missing do not
\* move the others, nor does it if the file was closed between them.
ContentsAreTheStream ==
    \A f \in Contents :
        LET data == files.disk[f]
            init == extracted[f].initseq
        IN  /\ \A k \in DOMAIN data : data[k] \in {Hole, init + k - 1}
            /\ \A k \in DOMAIN stored[f] : data[stored[f][k] - init + 1] = stored[f][k]

\* Plots and contents alike are what was written to them, whatever was closed, as long
\* as the process lives or ends by itself.
FilesAreWhole == phase # "crash" => PlotsAreWhole /\ ContentsAreTheStream
=============================================================================
