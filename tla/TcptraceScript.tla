--------------------------- MODULE TcptraceScript ---------------------------
(***************************************************************************)
(* The scripts that store what tcptrace measures (python-src/main.py), run *)
(* by process_pcap.js, one per complete capture.  The captures of one      *)
(* session share the folder the script calls outdir, so that scripts that  *)
(* run together share the files tcptrace writes there and those PostgreSQL *)
(* copies from.                                                            *)
(*                                                                         *)
(* Of a row only its capture (pcap_id) and the capture it was measured in  *)
(* are kept.  An interrupted script may have left a folder behind; the     *)
(* rows in its files are of the capture LeftOver, which has no row.        *)
(***************************************************************************)
EXTENDS Naturals, FiniteSets

CONSTANTS
    Captures,
    SessionOf,   \* [Captures -> sessions]
    LeftOver,    \* the capture of an interrupted script
    Attempts,    \* attempts the queue gives a capture
    Begun,       \* the attempts [Captures -> 0..Attempts] that may be behind it
    MaxFaults    \* bound: commands and statements that fail without a reason

ASSUME ScriptAssumption == LeftOver \notin Captures

Sessions == {SessionOf[c] : c \in Captures}
Tables == {"flow", "tput", "rtt"}
Dat == [tput |-> "ts_tput.dat", rtt |-> "ts_rtt.dat"]
Csv == [flow |-> "flow.csv", tput |-> "ts_tput.csv", rtt |-> "ts_rtt.csv"]
Dats == {"ts_tput.dat", "ts_rtt.dat"}
Outputs == Dats \cup {"flow.csv", "ts_tput.csv", "ts_rtt.csv"}

VARIABLES
    script,    \* per capture, where its script is
    filling,   \* per capture, the table its script fills
    saw,       \* per capture, whose measurements its script will write
    tries,     \* per capture, the attempts begun
    row,       \* per capture, the status of its row of table "pcap"
    rowsOf,    \* per table, how often a row <<pcap_id, measured in>> is there
    folder,    \* per session, whether outdir is there
    disk,      \* per session, the files in it
    excuse,    \* history: what may disturb the attempt of a capture
    faults

scriptVars == <<script, filling, saw, tries, row, rowsOf, folder, disk, excuse, faults>>

NoFile == [there |-> FALSE, has |-> {}, locked |-> FALSE, open |-> {}]
EmptyFolder == [f \in Outputs |-> NoFile]
LeftFolder == [f \in Outputs |-> [there |-> TRUE, has |-> {<<LeftOver, LeftOver>>},
                                locked |-> f \notin Dats, open |-> {}]]
Rows == Captures \X (Captures \cup {LeftOver})

\* Rows there twice or more often are not told apart.
Once(n) == IF n = 0 THEN 1 ELSE 2

ScriptInit ==
    /\ script = [c \in Captures |-> "waiting"]
    /\ filling = [c \in Captures |-> "flow"]
    /\ saw = [c \in Captures |-> {}]
    /\ tries \in Begun
    /\ row = [c \in Captures |-> "none"]
    /\ rowsOf = [k \in Tables |-> [r \in Rows |-> 0]]
    /\ folder \in [Sessions -> BOOLEAN]
    /\ disk = [s \in Sessions |-> IF folder[s] THEN LeftFolder ELSE EmptyFolder]
    /\ excuse = [c \in Captures |-> {}]
    /\ faults = 0

Running(c) == script[c] \notin {"waiting", "done", "failed"}
Rivals(c) == {d \in Captures \ {c} : SessionOf[d] = SessionOf[c] /\ Running(d)}

Goto(c, next) == script' = [script EXCEPT ![c] = next]
Here(c) == disk[SessionOf[c]]
Write(c, f, content) == disk' = [disk EXCEPT ![SessionOf[c]][f] = content]
Blame(c, why) == excuse' = [excuse EXCEPT ![c] = @ \cup {why}]
scriptRest == <<tries, row>>

(* Something fails without a reason that is modelled. *)
Fault(c) ==
    /\ faults < MaxFaults
    /\ faults' = faults + 1
    /\ Blame(c, "fault")

(* The exception handler of process (main.py:184) begins to remove outdir. *)
Raise(c) == Goto(c, "clear1")

-----------------------------------------------------------------------------
(* process_pcap.js inserts the row, if the connection of the capture has been  *)
(* imported, and calls the script.                                             *)
Call(c) ==
    /\ script[c] = "waiting" /\ tries[c] < Attempts
    /\ Goto(c, "exists")
    /\ filling' = [filling EXCEPT ![c] = "flow"]
    /\ tries' = [tries EXCEPT ![c] = @ + 1]
    /\ \E status \in {"none", "processing"} :
         /\ row' = [row EXCEPT ![c] = status]
         /\ excuse' = [d \in Captures |->
               IF d = c THEN {why \in {"left", "rival", "row"} :
                                \/ why = "left" /\ folder[SessionOf[c]]
                                \/ why = "rival" /\ Rivals(c) # {}
                                \/ why = "row" /\ status = "none"}
               ELSE IF d \in Rivals(c) THEN excuse[d] \cup {"rival"} ELSE excuse[d]]
    /\ UNCHANGED <<saw, rowsOf, folder, disk, faults>>

(* os.path.exists and os.mkdir are two calls, before the try block. *)
Exists(c) ==
    /\ script[c] = "exists"
    /\ Goto(c, IF folder[SessionOf[c]] THEN "select" ELSE "mkdir")
    /\ UNCHANGED <<filling, saw, rowsOf, folder, disk, excuse, faults, scriptRest>>

MakeDir(c) ==
    /\ script[c] = "mkdir"
    /\ IF folder[SessionOf[c]]
       THEN Goto(c, "exit1") /\ UNCHANGED folder
       ELSE Goto(c, "select") /\ folder' = [folder EXCEPT ![SessionOf[c]] = TRUE]
    /\ UNCHANGED <<filling, saw, rowsOf, disk, excuse, faults, scriptRest>>

(* A select that finds nothing, or fails, returns None, which has no id.  The  *)
(* update to 'processing' changes nothing.                                     *)
SelectPcap(c) ==
    /\ script[c] = "select"
    /\ IF row[c] = "none" THEN Raise(c) ELSE Goto(c, "trace")
    /\ UNCHANGED <<filling, saw, rowsOf, folder, disk, excuse, faults, scriptRest>>

(* tcptrace opens its files in outdir when it starts: they are emptied.  When  *)
(* there is no outdir it dies writing its first line, or has none to write.    *)
CallTCPTrace(c) ==
    /\ script[c] = "trace"
    /\ IF folder[SessionOf[c]]
       THEN /\ Goto(c, "tracing")
            /\ disk' = [disk EXCEPT ![SessionOf[c]] = [f \in Outputs |->
                  IF f \in Dats
                  THEN [there |-> TRUE, has |-> {}, locked |-> FALSE, open |-> @[f].open \cup {c}]
                  ELSE @[f]]]
       ELSE (Raise(c) \/ Goto(c, "tracing")) /\ UNCHANGED disk
    /\ UNCHANGED <<filling, saw, rowsOf, folder, excuse, faults, scriptRest>>

(* A tcptrace ends: what it has written is in the files it still holds.        *)
Flush(files, c, lines) ==
    [f \in Outputs |->
        IF f \in Dats /\ c \in files[f].open
        THEN [files[f] EXCEPT !.has = @ \cup lines, !.open = @ \ {c}]
        ELSE files[f]]

(* It has measured its capture.                                                *)
EndTrace(c) ==
    /\ script[c] = "tracing"
    /\ Goto(c, "open")
    /\ saw' = [saw EXCEPT ![c] = {c}]
    /\ disk' = [disk EXCEPT ![SessionOf[c]] = Flush(@, c, {<<c, c>>})]
    /\ UNCHANGED <<filling, rowsOf, folder, excuse, faults, scriptRest>>

(* readFromTCPTrace: the lines that are there, those another tcptrace has      *)
(* written so far included.                                                    *)
ReadDat(c) ==
    /\ script[c] = "read"
    /\ LET f == Here(c)[Dat[filling[c]]]
       IN  IF f.there
           THEN /\ Goto(c, "open")
                /\ \E more \in SUBSET f.open :
                     saw' = [saw EXCEPT ![c] = {r[2] : r \in f.has} \cup more]
           ELSE Raise(c) /\ UNCHANGED saw
    /\ UNCHANGED <<filling, rowsOf, folder, disk, excuse, faults, scriptRest>>

(* dbCopy opens the csv file, which may not be written any more when a script  *)
(* has closed one of its name before (os.chmod takes the right away).          *)
OpenCsv(c) ==
    /\ script[c] = "open"
    /\ LET f == Here(c)[Csv[filling[c]]]
       IN  IF folder[SessionOf[c]] /\ ~f.locked
           THEN /\ Goto(c, "close")
                /\ Write(c, Csv[filling[c]], [f EXCEPT !.there = TRUE, !.has = {}, !.open = @ \cup {c}])
           ELSE Raise(c) /\ UNCHANGED disk
    /\ UNCHANGED <<filling, saw, rowsOf, folder, excuse, faults, scriptRest>>

(* What was written is in the file that was opened; os.chmod is by name. *)
CloseCsv(c) ==
    /\ script[c] = "close"
    /\ LET f == Here(c)[Csv[filling[c]]]
           written == IF c \in f.open THEN {<<c, d>> : d \in saw[c]} ELSE {}
       IN  IF f.there
           THEN /\ Goto(c, "copy")
                /\ Write(c, Csv[filling[c]],
                       [f EXCEPT !.has = @ \cup written, !.locked = TRUE, !.open = @ \ {c}])
           ELSE Raise(c) /\ UNCHANGED disk
    /\ saw' = [saw EXCEPT ![c] = {}]
    /\ UNCHANGED <<filling, rowsOf, folder, excuse, faults, scriptRest>>

(* COPY takes whatever the file holds by then, all of it or, when a row names  *)
(* a capture that has none, nothing.  Then the flows are loaded again, or the  *)
(* next file is read, or the script is done.                                   *)
Copy(c) ==
    /\ script[c] = "copy"
    /\ LET f == Here(c)[Csv[filling[c]]]
       IN  IF f.there /\ \A r \in f.has : r \in Rows /\ row[r[1]] # "none"
           THEN /\ rowsOf' = [rowsOf EXCEPT ![filling[c]] =
                       [r \in Rows |-> IF r \in f.has THEN Once(@[r]) ELSE @[r]]]
                /\ Goto(c, CASE filling[c] = "flow" -> "read"
                             [] filling[c] = "tput" -> "read"
                             [] filling[c] = "rtt" -> "update")
                /\ filling' = [filling EXCEPT ![c] = IF @ = "flow" THEN "tput" ELSE "rtt"]
           ELSE Raise(c) /\ UNCHANGED <<rowsOf, filling>>
    /\ UNCHANGED <<saw, folder, disk, excuse, faults, scriptRest>>

(* The last update of the row, of a script that is done or of one that failed  *)
(* and has cleared outdir; update_by swallows the errors of the database.      *)
SetStatus(c) ==
    /\ script[c] \in {"update", "report"}
    /\ Goto(c, IF script[c] = "update" THEN "clear0" ELSE "exit1")
    /\ \/ /\ row' = [row EXCEPT ![c] = IF @ = "none" THEN @
                                       ELSE IF script[c] = "update" THEN "success" ELSE "failed"]
          /\ UNCHANGED <<excuse, faults>>
       \/ Fault(c) /\ UNCHANGED row
    /\ UNCHANGED <<filling, saw, tries, rowsOf, folder, disk>>

(* A command fails, perhaps after it has written something, a select returns   *)
(* None, or COPY is refused.                                                   *)
Break(c) ==
    /\ script[c] \in {"select", "tracing", "copy", "read"}
    /\ Raise(c)
    /\ Fault(c)
    /\ \E part \in SUBSET {<<c, c>>} :
         disk' = [disk EXCEPT ![SessionOf[c]] = Flush(@, c, part)]
    /\ UNCHANGED <<filling, saw, rowsOf, folder, scriptRest>>

-----------------------------------------------------------------------------
(* shutil.rmtree on either way out: it removes the files it finds, unless      *)
(* another script has just removed one, and then the folder, unless there is a *)
(* file in it again.  Its exceptions end the script.                           *)

Clearing == {"clear0", "clear1", "rmdir0", "rmdir1"}

\* An exception handler that leaves outdir as it is.
ClearOnSuccess(c) ==
    /\ script[c] \in {"clear0", "clear1"}
    /\ IF script[c] = "clear1" \/ ~folder[SessionOf[c]]
       THEN Goto(c, IF script[c] = "clear0" THEN "exit0" ELSE "report") /\ UNCHANGED disk
       ELSE Goto(c, "rmdir0") /\ disk' = [disk EXCEPT ![SessionOf[c]] = EmptyFolder]
    /\ UNCHANGED <<filling, saw, rowsOf, folder, excuse, faults, scriptRest>>

Clear(c) ==
    /\ script[c] \in {"clear0", "clear1"}
    /\ \/ /\ ~folder[SessionOf[c]]
          /\ Goto(c, IF script[c] = "clear0" THEN "exit0" ELSE "report")
          /\ UNCHANGED disk
       \/ /\ folder[SessionOf[c]]
          /\ Goto(c, IF script[c] = "clear0" THEN "rmdir0" ELSE "rmdir1")
          /\ disk' = [disk EXCEPT ![SessionOf[c]] = EmptyFolder]
       \/ /\ \E d \in Rivals(c) : script[d] \in Clearing
          /\ Goto(c, "exit1")
          /\ UNCHANGED disk
    /\ UNCHANGED <<filling, saw, rowsOf, folder, excuse, faults, scriptRest>>

RemoveDir(c) ==
    /\ script[c] \in {"rmdir0", "rmdir1"}
    /\ IF folder[SessionOf[c]] /\ disk[SessionOf[c]] = EmptyFolder
       THEN /\ folder' = [folder EXCEPT ![SessionOf[c]] = FALSE]
            /\ Goto(c, IF script[c] = "rmdir0" THEN "exit0" ELSE "report")
       ELSE Goto(c, "exit1") /\ UNCHANGED folder
    /\ UNCHANGED <<filling, saw, rowsOf, disk, excuse, faults, scriptRest>>

(* process_pcap.js deletes the row after an error, and by cascade what refers  *)
(* to it; the queue calls again while it has attempts left.                    *)
Answer(c) ==
    /\ \/ /\ script[c] = "exit0"
          /\ Goto(c, "done")
          /\ UNCHANGED <<row, rowsOf>>
       \/ /\ script[c] = "exit1"
          /\ Goto(c, IF tries[c] < Attempts THEN "waiting" ELSE "failed")
          /\ row' = [row EXCEPT ![c] = "none"]
          /\ rowsOf' = [k \in Tables |-> [r \in Rows |-> IF r[1] = c THEN 0 ELSE rowsOf[k][r]]]
    /\ UNCHANGED <<filling, saw, tries, folder, disk, excuse, faults>>

ScriptNext == \E c \in Captures :
    \/ Call(c) \/ Exists(c) \/ MakeDir(c) \/ SelectPcap(c) \/ CallTCPTrace(c) \/ EndTrace(c)
    \/ ReadDat(c) \/ OpenCsv(c) \/ CloseCsv(c) \/ Copy(c) \/ SetStatus(c) \/ Break(c)
    \/ Clear(c) \/ RemoveDir(c) \/ Answer(c)

-----------------------------------------------------------------------------
(***************************************************************************)
(* What no other script of the session has disturbed is right, whatever an *)
(* interrupted one has left behind: a capture has no rows but those        *)
(* measured in it, none of them twice, and all of them when its script     *)
(* ended well (main.py:162-182); an attempt fails only for a reason that   *)
(* is not its own (main.py:184-208); and no attempt leaves a folder behind *)
(* for the next to stumble over (main.py:186-187, 211-213).                *)
(***************************************************************************)
CapturesAreKeptApart ==
    \A c \in Captures : "rival" \notin excuse[c] =>
        /\ \A k \in Tables, r \in Rows : r[1] = c /\ rowsOf[k][r] > 0 =>
              r[2] = c /\ rowsOf[k][r] = 1
        /\ script[c] = "done" =>
              /\ \A k \in Tables : rowsOf[k][<<c, c>>] = 1
              /\ row[c] = "success" \/ "fault" \in excuse[c]
        /\ script[c] = "exit1" => excuse[c] # {}
        /\ script[c] \in {"exit0", "exit1"} => ~folder[SessionOf[c]]

ScriptSpec == ScriptInit /\ [][ScriptNext]_scriptVars
=============================================================================
