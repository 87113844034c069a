----------------------------- MODULE PcapImport -----------------------------
(***************************************************************************)
(* The import of one packet capture: app/lib/process_pcap.js, called once  *)
(* per uploaded part by the jobs of the queue.  A capture comes in parts,  *)
(* numbered from 0, the last one marked as such.  Every call uncompresses  *)
(* its part into a work folder all calls share; the one that finds all     *)
(* parts there merges them, adds the capture to table "pcap" and its parts *)
(* to "pcap_file", and runs the tcptrace script.                           *)
(*                                                                         *)
(* dtrx, glob, tracemerge, the queue and PostgreSQL are external.  The     *)
(* script (python-src/main.py) is modelled by what it does to table        *)
(* "pcap"; a job is named by the number of its part.                       *)
(***************************************************************************)
EXTENDS Naturals, FiniteSets

CONSTANTS
    MaxLast,    \* bound: the number of the last part
    Slots,      \* jobs the workers handle at a time
    Retry,      \* attempts given to a job (config.retry)
    MaxRows,    \* bound: the rows of "pcap" are numbered 1..MaxRows
    MaxFaults,  \* bound: commands and statements that fail without a reason
    MaxCrashes  \* bound: stops of the cluster

ASSUME CaptureAssumption ==
    /\ MaxLast \in Nat /\ Slots \in Nat \ {0} /\ Retry \in Nat \ {0}
    /\ MaxRows \in Nat /\ MaxFaults \in Nat /\ MaxCrashes \in Nat

VARIABLES
    last,        \* the number of the last part; it never changes
    step,        \* per job, where its call is
    seen,        \* per job, the parts its glob found ("files")
    todo,        \* per job, the parts still to be linked ("fileinfos")
    mine,        \* per job, the row its script works on, 0 for none
    attempts,    \* per job, the attempts used up
    workdir,     \* the uncompressed parts in the work folder
    merged,      \* whether the merged file is in the work folder
    connection,  \* whether the connection of the capture has been imported
    row,         \* the status of the rows of table "pcap"
    link,        \* table "pcap_file": <<row of "pcap", part>>
    data,        \* per row, how often the script has imported its flows
    imported,    \* history: whether a script has ended with success
    crossed,     \* history: whether two jobs took the capture up together
    faults, crashes

jobVars == <<step, seen, todo, mine, attempts>>
folderVars == <<workdir, merged>>
dbVars == <<connection, row, link, data>>
historyVars == <<imported, crossed>>
vars == <<last, jobVars, folderVars, dbVars, historyVars, faults, crashes>>

AllParts == 0..MaxLast
Parts == 0..last
Rows == 1..MaxRows

\* The steps of a call that has found all parts.
Handling == {"merge", "merging", "insert", "link", "script", "scripting", "remove",
             "clean", "unlink"}
Running == {"uncompress", "glob"} \cup Handling
Live == {r \in Rows : row[r] \in {"processing", "success", "failed"}}

TypeOK ==
    /\ last \in AllParts
    /\ step \in [AllParts -> {"queued", "complete", "failed"} \cup Running]
    /\ seen \in [AllParts -> SUBSET Parts] /\ todo \in [AllParts -> SUBSET Parts]
    /\ mine \in [AllParts -> Rows \cup {0}]
    /\ attempts \in [AllParts -> 0..Retry]
    /\ workdir \subseteq Parts /\ merged \in BOOLEAN /\ connection \in BOOLEAN
    /\ row \in [Rows -> {"none", "processing", "success", "failed", "deleted"}]
    /\ link \subseteq Live \X Parts
    /\ data \in [Rows -> Nat]
    /\ imported \in BOOLEAN /\ crossed \in BOOLEAN
    /\ faults \in 0..MaxFaults /\ crashes \in 0..MaxCrashes

Init ==
    /\ last \in AllParts
    /\ step = [i \in AllParts |-> "queued"]
    /\ seen = [i \in AllParts |-> {}] /\ todo = [i \in AllParts |-> {}]
    /\ mine = [i \in AllParts |-> 0] /\ attempts = [i \in AllParts |-> 0]
    /\ workdir = {} /\ merged = FALSE /\ connection \in BOOLEAN
    /\ row = [r \in Rows |-> "none"] /\ link = {} /\ data = [r \in Rows |-> 0]
    /\ imported = FALSE /\ crossed = FALSE
    /\ faults = 0 /\ crashes = 0

Goto(i, s) == step' = [step EXCEPT ![i] = s]
Fault == faults < MaxFaults /\ faults' = faults + 1

-----------------------------------------------------------------------------
(* The job of a part, up to the test for a complete capture.               *)

\* A job with attempts left waits for the next one.
Start(i) ==
    /\ step[i] = "queued"
    /\ Cardinality({j \in Parts : step[j] \in Running}) < Slots
    /\ Goto(i, "uncompress")
    /\ UNCHANGED <<last, seen, todo, mine, attempts, folderVars, dbVars, historyVars,
                   faults, crashes>>

\* cb(err): the queue counts the attempt.
Failed(i) ==
    /\ attempts' = [attempts EXCEPT ![i] = @ + 1]
    /\ Goto(i, IF attempts[i] + 1 < Retry THEN "queued" ELSE "failed")

\* utils.uncompress; dtrx renames the part into the folder when it is whole.
Uncompress(i) ==
    /\ step[i] = "uncompress"
    /\ \/ /\ workdir' = workdir \cup {i}
          /\ Goto(i, "glob") /\ UNCHANGED <<attempts, faults>>
       \/ Fault /\ Failed(i) /\ UNCHANGED workdir
    /\ UNCHANGED <<last, seen, todo, mine, merged, dbVars, historyVars, crashes>>

\* Faulty variant of Found: the folder is listed before the part is there.
FoundBefore(i) == workdir \ {i}
Found(i) == workdir

\* Faulty variant of Complete: off by one.
CompleteEarly(files) == last \in files /\ Cardinality(files) >= last
Complete(files) == last \in files /\ Cardinality(files) >= last + 1

\* While parts are missing, the call only leaves its part in the folder.
Glob(i) ==
    /\ step[i] = "glob"
    /\ \/ /\ Complete(Found(i))
          /\ Goto(i, "merge")
          /\ seen' = [seen EXCEPT ![i] = Found(i)]
          /\ todo' = [todo EXCEPT ![i] = Found(i)]
          /\ crossed' = (crossed \/ \E j \in Parts \ {i} : step[j] \in Handling)
          /\ UNCHANGED <<attempts, faults>>
       \/ /\ ~Complete(Found(i))
          /\ Goto(i, "complete")
          /\ seen' = [seen EXCEPT ![i] = Found(i)]
          /\ UNCHANGED <<todo, crossed, attempts, faults>>
       \/ Fault /\ Failed(i) /\ UNCHANGED <<seen, todo, crossed>>
    /\ UNCHANGED <<last, mine, folderVars, dbVars, imported, crashes>>

-----------------------------------------------------------------------------
(* The waterfall of a complete capture.                                    *)

\* A single part is moved to the merged file, which must not exist; several
\* are merged by tracemerge, which needs all of them.
Merge(i) ==
    /\ step[i] = "merge"
    /\ IF seen[i] \subseteq workdir /\ (Cardinality(seen[i]) > 1 \/ ~merged)
       THEN /\ merged' = TRUE
            /\ IF Cardinality(seen[i]) > 1
               THEN Goto(i, "merging") /\ UNCHANGED workdir
               ELSE Goto(i, "insert") /\ workdir' = workdir \ seen[i]
       ELSE Goto(i, "clean") /\ UNCHANGED folderVars
    /\ UNCHANGED <<last, seen, todo, mine, attempts, dbVars, historyVars, faults, crashes>>

EndMerge(i) ==
    /\ step[i] = "merging"
    /\ \/ Goto(i, "insert") /\ UNCHANGED faults
       \/ Goto(i, "clean") /\ Fault
    /\ UNCHANGED <<last, seen, todo, mine, attempts, folderVars, dbVars, historyVars,
                   crashes>>

\* INSERT ... SELECT ... FROM connections WHERE started_at = ...: no row, and
\* no error, as long as there is no such connection.
InsertPcap(i) ==
    /\ step[i] = "insert"
    /\ \/ /\ IF connection
             THEN \E r \in Rows :
                     /\ row[r] = "none" /\ \A q \in 1..(r - 1) : row[q] # "none"
                     /\ row' = [row EXCEPT ![r] = "processing"]
             ELSE UNCHANGED row
          /\ Goto(i, "link") /\ UNCHANGED faults
       \/ Goto(i, "clean") /\ Fault /\ UNCHANGED row
    /\ UNCHANGED <<last, seen, todo, mine, attempts, folderVars, connection, link, data,
                   historyVars, crashes>>

(***************************************************************************)
(* One turn of "loop": the part is linked to every row with the basename   *)
(* of the merged file, whichever call inserted it.  The primary key of     *)
(* "pcap_file" refuses a second link of a part to a row.                   *)
(***************************************************************************)
LinkNext(i) ==
    /\ step[i] = "link" /\ todo[i] # {}
    /\ \E part \in todo[i] :
           /\ \A other \in todo[i] : part <= other
           /\ \/ /\ \A r \in Live : <<r, part>> \notin link
                 /\ link' = link \cup {<<r, part>> : r \in Live}
                 /\ todo' = [todo EXCEPT ![i] = @ \ {part}]
                 /\ UNCHANGED <<step, faults>>
              \/ /\ \E r \in Live : <<r, part>> \in link
                 /\ Goto(i, "clean") /\ UNCHANGED <<link, todo, faults>>
              \/ Goto(i, "clean") /\ Fault /\ UNCHANGED <<link, todo>>
    /\ UNCHANGED <<last, seen, mine, attempts, folderVars, connection, row, data,
                   historyVars, crashes>>

Linked(i) ==
    /\ step[i] = "link" /\ todo[i] = {}
    /\ Goto(i, "script")
    /\ UNCHANGED <<last, seen, todo, mine, attempts, folderVars, dbVars, historyVars,
                   faults, crashes>>

\* main.py takes the first row with the basename the database returns; it
\* exits with an error when there is no such row, or no merged file.
StartScript(i) ==
    /\ step[i] = "script"
    /\ IF merged /\ Live # {}
       THEN \E r \in Live : /\ mine' = [mine EXCEPT ![i] = r]
                            /\ row' = [row EXCEPT ![r] = "processing"]
                            /\ Goto(i, "scripting")
       ELSE Goto(i, "clean") /\ UNCHANGED <<mine, row>>
    /\ UNCHANGED <<last, seen, todo, attempts, folderVars, connection, link, data,
                   historyVars, faults, crashes>>

\* The flows refer to the row: their COPY fails when it has been deleted.
EndScript(i) ==
    /\ step[i] = "scripting"
    /\ LET r == mine[i]
       IN \/ /\ r \in Live
             /\ row' = [row EXCEPT ![r] = "success"]
             /\ data' = [data EXCEPT ![r] = @ + 1]
             /\ imported' = TRUE
             /\ Goto(i, "remove") /\ UNCHANGED faults
          \/ /\ r \notin Live
             /\ Goto(i, "clean") /\ UNCHANGED <<row, data, imported, faults>>
          \/ /\ Fault
             /\ row' = [row EXCEPT ![r] = IF r \in Live THEN "failed" ELSE @]
             /\ Goto(i, "clean") /\ UNCHANGED <<data, imported>>
    /\ mine' = [mine EXCEPT ![i] = 0]
    /\ UNCHANGED <<last, seen, todo, attempts, folderVars, connection, link, crossed,
                   crashes>>

(***************************************************************************)
(* The merged file stays: the version of fs-extra the application asks for *)
(* has no moveSync, and the error is caught.  The parts are removed up to  *)
(* the first that is no longer there.                                      *)
(***************************************************************************)
Remove(i) ==
    /\ step[i] = "remove"
    /\ workdir' = workdir \
           {p \in seen[i] : \A q \in seen[i] : q <= p => q \in workdir}
    /\ Goto(i, "complete")
    /\ UNCHANGED <<last, seen, todo, mine, attempts, merged, dbVars, historyVars, faults,
                   crashes>>

-----------------------------------------------------------------------------
(* The final callback with an error.                                       *)

\* Faulty variant of Clean: the rows are kept.
CleanNothing(i) ==
    /\ step[i] = "clean" /\ Goto(i, "unlink")
    /\ todo' = [todo EXCEPT ![i] = {}]
    /\ UNCHANGED <<last, seen, mine, attempts, folderVars, dbVars, historyVars,
                   faults, crashes>>

\* db.delete of every row with the basename, whichever call inserted it, with
\* all that refers to it.  Its error is not looked at.
Clean(i) ==
    /\ step[i] = "clean"
    /\ \/ /\ row' = [r \in Rows |-> IF r \in Live THEN "deleted" ELSE row[r]]
          /\ link' = {} /\ data' = [r \in Rows |-> 0] /\ UNCHANGED faults
       \/ Fault /\ UNCHANGED <<row, link, data>>
    /\ todo' = [todo EXCEPT ![i] = {}]
    /\ Goto(i, "unlink")
    /\ UNCHANGED <<last, seen, mine, attempts, folderVars, connection, historyVars,
                   crashes>>

\* Faulty variant of Unlink: the parts are removed with the merged file.
UnlinkAll(i) ==
    /\ step[i] = "unlink"
    /\ merged' = FALSE /\ workdir' = workdir \ seen[i]
    /\ Failed(i)
    /\ UNCHANGED <<last, seen, todo, mine, dbVars, historyVars, faults, crashes>>

Unlink(i) ==
    /\ step[i] = "unlink"
    /\ merged' = FALSE
    /\ Failed(i)
    /\ UNCHANGED <<last, seen, todo, mine, workdir, dbVars, historyVars, faults, crashes>>

-----------------------------------------------------------------------------
(* The rest of the system.                                                 *)

\* The import of the session's sqlite file stores the connection.
ImportConnection ==
    /\ ~connection /\ connection' = TRUE
    /\ UNCHANGED <<last, jobVars, folderVars, row, link, data, historyVars, faults, crashes>>

\* The cluster stops: its next start queues the files of the interrupted jobs
\* again.  The work folder and the tables stay as they are.
Crash ==
    /\ crashes < MaxCrashes /\ crashes' = crashes + 1
    /\ step' = [i \in AllParts |-> IF step[i] \in Running THEN "queued" ELSE step[i]]
    /\ attempts' = [i \in AllParts |-> IF step[i] \in Running THEN 0 ELSE attempts[i]]
    /\ todo' = [i \in AllParts |-> {}] /\ mine' = [i \in AllParts |-> 0]
    /\ UNCHANGED <<last, seen, folderVars, dbVars, historyVars, faults>>

Step(i) ==
    \/ Uncompress(i) \/ Glob(i)
    \/ Merge(i) \/ EndMerge(i) \/ InsertPcap(i) \/ LinkNext(i) \/ Linked(i)
    \/ StartScript(i) \/ EndScript(i) \/ Remove(i)
    \/ Clean(i) \/ Unlink(i)

Next ==
    \/ \E i \in Parts : Start(i) \/ Step(i)
    \/ ImportConnection
    \/ Crash

Spec == Init /\ [][Next]_vars

\* The callbacks run and the commands end; the queue starts a waiting job when
\* a slot is free.  Nothing is assumed of the connection.
FairSpec == Spec /\ \A i \in AllParts : WF_vars(i \in Parts /\ Step(i))
                                        /\ WF_vars(i \in Parts /\ Start(i))

-----------------------------------------------------------------------------
(* Properties.                                                             *)

(***************************************************************************)
(* The parts arrive in any order and their jobs interleave at will, yet    *)
(* the capture is not left lying in the folder: once every job has done    *)
(* the test of process_pcap.js:71, one of them has found all parts.        *)
(***************************************************************************)
SomeoneFindsAll ==
    (\A i \in Parts : step[i] \in Handling \cup {"complete"}) =>
        imported \/ \E i \in Parts : seen[i] = Parts

(***************************************************************************)
(* As long as no script has imported the capture, a part whose job was     *)
(* answered, and whose file is therefore gone from incoming/, is in the    *)
(* work folder, for the call that will find all parts                      *)
(* (process_pcap.js:12-15, 186-196, and the note of line 207).             *)
(***************************************************************************)
PartsAreKept ==
    ~imported => \A i \in Parts : step[i] = "complete" => i \in workdir

(***************************************************************************)
(* If no two jobs took the capture up together, the answers of all its     *)
(* jobs mean what they say: one row says "success", has each part once and *)
(* the flows once; without a crash there is no other row.                  *)
(***************************************************************************)
IsImported(r) == row[r] = "success" /\ data[r] = 1 /\ \A p \in Parts : <<r, p>> \in link
AllComplete == \A i \in Parts : step[i] = "complete"

AnswersMeanImported ==
    AllComplete /\ ~crossed =>
        /\ \E r \in Rows : IsImported(r)
        /\ crashes = 0 /\ faults = 0 => Cardinality(Live) = 1

(***************************************************************************)
(* The error cleanup lets a later attempt succeed: with more attempts than *)
(* faults and crashes, a capture whose connection is known is imported in  *)
(* the end, unless two jobs take it up together.                           *)
(***************************************************************************)
CaptureGetsImported ==
    Retry > MaxFaults + MaxCrashes /\ []connection /\ []~crossed => <>imported

(***************************************************************************)
(* process_pcap.js:13-15: "Once all parts have been received, the actual   *)
(* pcap processing (tcptrace) is done": when the jobs of all parts have    *)
(* been answered without an error, the capture is in the database.         *)
(***************************************************************************)
CaptureIsImported == AllComplete => \E r \in Rows : row[r] = "success"

-----------------------------------------------------------------------------
(* The inductive invariant behind TypeOK, SomeoneFindsAll and PartsAreKept *)
(* (module PcapImportProofs).                                              *)

\* A job that still runs or waits has an attempt left.
AttemptsInv ==
    \A i \in AllParts : step[i] \in {"queued"} \cup Running => attempts[i] < Retry

\* Only a call that has found all parts goes beyond the test.
HandlingInv == \A i \in Parts : step[i] \in Handling => seen[i] = Parts

\* Nothing is removed before the first import.
KeptInv ==
    ~imported => \A i \in Parts : /\ step[i] \in {"glob", "complete"} => i \in workdir
                                  /\ step[i] # "remove"

\* Some job is never done with a capture that has not been imported.
NotOverInv == ~imported => \E i \in Parts : step[i] # "complete"

CaptureInv == TypeOK /\ AttemptsInv /\ HandlingInv /\ KeptInv /\ NotOverInv

(***************************************************************************)
(* What has to be added for AnswersMeanImported, as long as no two jobs    *)
(* took the capture up together.                                           *)
(***************************************************************************)
OneHandler == \A i, j \in Parts : step[i] \in Handling /\ step[j] \in Handling => i = j

\* A job that has imported the capture has taken its own part away with the
\* others, and so nobody finds all parts again.
Taken == \E i \in Parts : step[i] = "complete" /\ i \notin workdir

FolderInv ==
    /\ last > 0 => \A i \in Parts : step[i] \in Handling => workdir = Parts
    /\ Taken => \A i \in Parts : step[i] \notin Handling
    /\ ~Taken => /\ \E i \in Parts : step[i] # "complete"
                 /\ \A i \in Parts : step[i] = "glob" => i \in workdir

\* A row that has the flows has everything else, and its links stop the next
\* call at its first part: the rows a script may find have no flows.
NoFlows == \A r \in Rows : data[r] = 0
AreLinked(parts) == \A r \in Live, p \in parts : <<r, p>> \in link

RowsInv ==
    /\ \A r \in Rows : data[r] # 0 => IsImported(r)
    /\ Taken \/ (\E i \in Parts : step[i] = "remove") => \E r \in Rows : IsImported(r)
    /\ \A i \in Parts :
           /\ step[i] \in {"merge", "merging", "insert"} => todo[i] = Parts
           /\ step[i] = "link" => AreLinked(Parts \ todo[i]) /\ (todo[i] # Parts => NoFlows)
           /\ step[i] \in {"script", "scripting"} => AreLinked(Parts) /\ NoFlows
           /\ step[i] = "scripting" => mine[i] \in Live

\* Without faults and crashes a call that gives up leaves no row behind.
SingleRowInv ==
    faults = 0 /\ crashes = 0 =>
        /\ \A q, r \in Live : q = r
        /\ \/ Taken \/ Live = {}
           \/ \E i \in Parts : step[i] \in {"link", "script", "scripting", "remove", "clean"}

AloneInv == ~crossed => OneHandler /\ FolderInv /\ RowsInv /\ SingleRowInv

ImportInv == CaptureInv /\ AloneInv
=============================================================================
