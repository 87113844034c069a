---------------------------- MODULE SupportProofs ----------------------------
(***************************************************************************)
(* Proofs about what stands around tcptrace's tables: the script that runs *)
(* it, its pools of memory, and the headers of a packet.                   *)
(***************************************************************************)
EXTENDS TcptraceScript, Pool, Headers, FiniteSetTheorems, SequenceTheorems,
        WellFoundedInduction, TLAPS

-----------------------------------------------------------------------------
(* The script: what it keeps apart, for any number of captures, sessions,  *)
(* attempts and faults, and any interleaving.  A capture is alone when its *)
(* script runs and no other one of its session has run since it was called.*)
(* Nobody else touches its folder then, so what its files and its rows     *)
(* hold follows from where its script is.                                  *)

Sources == Captures \cup {LeftOver}
Opening == {"exists", "mkdir", "select", "trace", "tracing"}
Filling == {"read", "open", "close", "copy"}
Ending == {"update", "clear0", "rmdir0", "exit0"}
Raised == {"clear1", "rmdir1", "report", "exit1"}
Places == {"waiting", "done", "failed"} \cup Opening \cup Filling \cup Ending \cup Raised
Closed == {"exit0", "exit1", "report"}

FileType == [there : BOOLEAN, has : SUBSET (Sources \X Sources), locked : BOOLEAN,
             open : SUBSET Captures]

TypeInv ==
    /\ script \in [Captures -> Places]
    /\ filling \in [Captures -> Tables]
    /\ saw \in [Captures -> SUBSET Sources]
    /\ row \in [Captures -> {"none", "processing", "success", "failed"}]
    /\ rowsOf \in [Tables -> [Rows -> Nat]]
    /\ folder \in [Sessions -> BOOLEAN]
    /\ disk \in [Sessions -> [Outputs -> FileType]]
    /\ excuse \in [Captures -> SUBSET {"left", "rival", "row", "fault"}]
    /\ \A c \in Captures : script[c] = "read" => filling[c] # "flow"

\* Two scripts of a session that run at the same time know of it.
RivalInv ==
    \A c, d \in Captures :
        c # d /\ SessionOf[c] = SessionOf[d] /\ Running(c) /\ Running(d) => "rival" \in excuse[c]

\* A folder that is not there has no files; tcptrace alone holds a .dat file, and
\* what is in a file comes from its session.
DiskInv ==
    \A s \in Sessions :
        /\ ~folder[s] => disk[s] = EmptyFolder
        /\ \A f \in Dats, d \in Captures :
              d \in disk[s][f].open => SessionOf[d] = s /\ script[d] = "tracing"
        /\ \A f \in Outputs, c \in Captures, x \in Sources :
              <<c, x>> \in disk[s][f].has => SessionOf[c] = s

\* The tables that are filled before table k.
Earlier(k) == CASE k = "flow" -> {} [] k = "tput" -> {"flow"} [] OTHER -> {"flow", "tput"}
Copied(c) == IF script[c] \in Opening THEN {}
             ELSE IF script[c] \in Filling THEN Earlier(filling[c]) ELSE Tables
Written(c) == IF script[c] = "copy" THEN Earlier(filling[c]) \cup {filling[c]} ELSE Copied(c)

\* The capture has rows of its own and no others, and each only once.
OwnRows(c) ==
    \A k \in Tables, x \in Sources :
        rowsOf[k][<<c, x>>] > 0 => x = c /\ rowsOf[k][<<c, x>>] = 1

\* Where the script is and what its folder, its row and its excuses are.
PlaceInv(c) ==
    /\ script[c] = "mkdir" => ~folder[SessionOf[c]]
    /\ script[c] \in Closed => ~folder[SessionOf[c]]
    /\ script[c] \notin {"exists", "mkdir"} \cup Closed => folder[SessionOf[c]]
    /\ script[c] \in {"rmdir0", "rmdir1"} => Here(c) = EmptyFolder
    /\ script[c] \in Opening => filling[c] = "flow"
    /\ row[c] = "none" =>
          "row" \in excuse[c] /\ script[c] \notin {"trace", "tracing"} \cup Filling \cup Ending
    /\ script[c] \in Raised => excuse[c] # {}
    /\ script[c] \in Ending \ {"update"} => row[c] = "success" \/ "fault" \in excuse[c]

\* Its files hold what it has measured.
FileInv(c) ==
    /\ script[c] = "tracing" =>
          \A f \in Dats : Here(c)[f].there /\ Here(c)[f].has = {} /\ c \in Here(c)[f].open
    /\ script[c] \in Filling => \A f \in Dats : Here(c)[f].there /\ Here(c)[f].has = {<<c, c>>}
    /\ script[c] \in {"open", "close"} => saw[c] = {c}
    /\ script[c] = "close" =>
          LET f == Here(c)[Csv[filling[c]]] IN f.there /\ f.has = {} /\ c \in f.open
    /\ script[c] = "copy" =>
          LET f == Here(c)[Csv[filling[c]]] IN f.there /\ f.has = {<<c, c>>}
    /\ "left" \notin excuse[c] /\ script[c] \in Opening \cup Filling =>
          \A k \in Tables \ Written(c) : ~Here(c)[Csv[k]].locked

RowsInv(c) ==
    /\ OwnRows(c)
    /\ script[c] \in Opening \cup Filling \cup Ending =>
          \A k \in Tables : rowsOf[k][<<c, c>>] = IF k \in Copied(c) THEN 1 ELSE 0

AloneInv(c) == PlaceInv(c) /\ FileInv(c) /\ RowsInv(c)

\* A capture whose script does not run: no row of it can appear.
IdleInv(c) ==
    /\ row[c] = "none"
    /\ \A k \in Tables, x \in Sources : rowsOf[k][<<c, x>>] = 0

DoneInv(c) ==
    /\ OwnRows(c)
    /\ \A k \in Tables : rowsOf[k][<<c, c>>] = 1
    /\ row[c] = "success" \/ "fault" \in excuse[c]
    /\ \A f \in Outputs, x \in Sources : <<c, x>> \notin Here(c)[f].has

CaptureInv(c) ==
    /\ script[c] \in {"waiting", "failed"} => IdleInv(c)
    /\ script[c] = "done" /\ "rival" \notin excuse[c] => DoneInv(c)
    /\ Running(c) /\ "rival" \notin excuse[c] => AloneInv(c)

ScriptInv == TypeInv /\ RivalInv /\ DiskInv /\ \A c \in Captures : CaptureInv(c)

-----------------------------------------------------------------------------
(* What a step of one script leaves of the other captures.                 *)

OthersKept(c) ==
    \A d \in Captures \ {c} :
        /\ script'[d] = script[d] /\ filling'[d] = filling[d] /\ saw'[d] = saw[d]
        /\ row'[d] = row[d]
        /\ excuse[d] \subseteq excuse'[d]
        /\ excuse'[d] # excuse[d] => d \in Rivals(c)
        /\ SessionOf[d] # SessionOf[c] =>
              folder'[SessionOf[d]] = folder[SessionOf[d]] /\ disk'[SessionOf[d]] = disk[SessionOf[d]]
        /\ \A f \in Outputs, x \in Sources :
              <<d, x>> \in disk'[SessionOf[d]][f].has => <<d, x>> \in disk[SessionOf[d]][f].has
        /\ \A k \in Tables, x \in Sources :
              rowsOf'[k][<<d, x>>] # rowsOf[k][<<d, x>>] =>
                 row[d] # "none" /\ \E f \in Outputs : <<d, x>> \in Here(c)[f].has

LEMMA SameSession ==
    ASSUME NEW c \in Captures
    PROVE  SessionOf[c] \in Sessions
  BY DEF Sessions

\* Nothing of capture d has changed.
Same(d) ==
    /\ script'[d] = script[d] /\ filling'[d] = filling[d] /\ saw'[d] = saw[d]
    /\ row'[d] = row[d] /\ excuse'[d] = excuse[d]
    /\ folder'[SessionOf[d]] = folder[SessionOf[d]] /\ disk'[SessionOf[d]] = disk[SessionOf[d]]
    /\ \A k \in Tables, x \in Sources : rowsOf'[k][<<d, x>>] = rowsOf[k][<<d, x>>]

LEMMA SameKept ==
    ASSUME NEW d \in Captures, Same(d), CaptureInv(d)
    PROVE  CaptureInv(d)'
<1> USE DEF Same
<1>1. d \in Sources
  BY DEF Sources
<1>2. IdleInv(d) => IdleInv(d)'
  BY DEF IdleInv
<1>3. OwnRows(d) => OwnRows(d)'
  BY DEF OwnRows
<1>4. DoneInv(d) => DoneInv(d)'
  BY <1>1, <1>3 DEF DoneInv, Here
<1>5. PlaceInv(d) => PlaceInv(d)'
  BY DEF PlaceInv, Here
<1>6. Written(d)' = Written(d) /\ Copied(d)' = Copied(d)
  BY DEF Written, Copied
<1>7. FileInv(d) => FileInv(d)'
  BY <1>6 DEF FileInv, Here
<1>8. RowsInv(d) => RowsInv(d)'
  BY <1>1, <1>3, <1>6 DEF RowsInv
<1> QED
  BY <1>2, <1>4, <1>5, <1>7, <1>8 DEF CaptureInv, AloneInv, Running

LEMMA OtherCaptures ==
    ASSUME ScriptInv, RivalInv', NEW c \in Captures, Running(c) \/ Running(c)',
           OthersKept(c), NEW d \in Captures, d # c
    PROVE  CaptureInv(d)'
<1>1. CaptureInv(d)
  BY DEF ScriptInv
<1>2. /\ script'[d] = script[d] /\ filling'[d] = filling[d] /\ saw'[d] = saw[d]
      /\ row'[d] = row[d]
      /\ excuse[d] \subseteq excuse'[d]
      /\ excuse'[d] # excuse[d] => d \in Rivals(c)
      /\ SessionOf[d] # SessionOf[c] =>
            folder'[SessionOf[d]] = folder[SessionOf[d]] /\ disk'[SessionOf[d]] = disk[SessionOf[d]]
      /\ \A f \in Outputs, x \in Sources :
            <<d, x>> \in disk'[SessionOf[d]][f].has => <<d, x>> \in disk[SessionOf[d]][f].has
      /\ \A k \in Tables, x \in Sources :
            rowsOf'[k][<<d, x>>] # rowsOf[k][<<d, x>>] =>
               row[d] # "none" /\ \E f \in Outputs : <<d, x>> \in Here(c)[f].has
  BY DEF OthersKept
<1>3. CASE SessionOf[d] # SessionOf[c]
  <2>1. excuse'[d] = excuse[d]
    BY <1>2, <1>3 DEF Rivals
  <2>2. ASSUME NEW k \in Tables, NEW x \in Sources
        PROVE  rowsOf'[k][<<d, x>>] = rowsOf[k][<<d, x>>]
    <3>1. \A f \in Outputs : <<d, x>> \notin Here(c)[f].has
      BY <1>3, SameSession DEF ScriptInv, DiskInv, Here
    <3> QED
      BY <1>2, <3>1
  <2>3. Same(d)
    BY <1>2, <1>3, <2>1, <2>2 DEF Same
  <2> QED
    BY <1>1, <2>3, SameKept
<1>4. CASE SessionOf[d] = SessionOf[c]
  <2>1. CASE script[d] \in {"waiting", "failed"}
    <3>1. IdleInv(d)
      BY <1>1, <2>1 DEF CaptureInv
    <3>2. IdleInv(d)'
      BY <1>2, <3>1 DEF IdleInv
    <3> QED
      BY <1>2, <2>1, <3>2 DEF CaptureInv, Running
  <2>2. CASE script[d] = "done"
    <3>1. ASSUME "rival" \notin excuse'[d] PROVE DoneInv(d)'
      <4>1. DoneInv(d) /\ excuse'[d] = excuse[d]
        BY <1>1, <1>2, <2>2, <3>1 DEF CaptureInv, Rivals, Running
      <4>2. \A k \in Tables, x \in Sources : rowsOf'[k][<<d, x>>] = rowsOf[k][<<d, x>>]
        BY <1>2, <1>4, <4>1 DEF DoneInv, Here
      <4>3. d \in Sources
        BY DEF Sources
      <4> QED
        BY <1>2, <4>1, <4>2, <4>3 DEF DoneInv, OwnRows, Here
    <3> QED
      BY <1>2, <2>2, <3>1 DEF CaptureInv, Running
  <2>3. CASE Running(d)
    <3>1. Running(d)'
      BY <1>2, <2>3 DEF Running
    <3>2. "rival" \in excuse'[d]
      <4>1. CASE Running(c)
        BY <1>2, <1>4, <2>3, <4>1 DEF ScriptInv, RivalInv
      <4>2. CASE Running(c)'
        BY <1>4, <3>1, <4>2 DEF RivalInv
      <4> QED
        BY <4>1, <4>2
    <3> QED
      BY <1>2, <2>3, <3>2 DEF CaptureInv, Running
  <2> QED
    BY <2>1, <2>2, <2>3 DEF Running
<1> QED
  BY <1>3, <1>4

\* A script that runs takes a step: what is left to show is about its own capture.
LEMMA StepKeeps ==
    ASSUME ScriptInv, NEW c \in Captures, Running(c), TypeInv', DiskInv', OthersKept(c),
           excuse[c] \subseteq excuse'[c], CaptureInv(c)'
    PROVE  ScriptInv'
<1>1. RivalInv'
  <2> SUFFICES ASSUME NEW d \in Captures, NEW e \in Captures, d # e, SessionOf[d] = SessionOf[e],
                      Running(d)', Running(e)'
               PROVE  "rival" \in excuse'[d]
    BY DEF RivalInv
  <2>1. Running(d) /\ Running(e) /\ excuse[d] \subseteq excuse'[d]
    BY DEF OthersKept, Running
  <2> QED
    BY <2>1 DEF ScriptInv, RivalInv
<1>2. \A d \in Captures : CaptureInv(d)'
  BY <1>1, OtherCaptures
<1> QED
  BY <1>1, <1>2 DEF ScriptInv

\* A capture that is alone: what its script finds in its folder.
LEMMA AloneShape ==
    ASSUME ScriptInv, NEW c \in Captures, Running(c), "rival" \notin excuse[c]
    PROVE  /\ AloneInv(c) /\ Rivals(c) = {} /\ SessionOf[c] \in Sessions
           /\ \A f \in Dats : Here(c)[f].open \subseteq {c}
           /\ script[c] # "tracing" => \A f \in Dats : Here(c)[f].open = {}
<1>1. AloneInv(c) /\ SessionOf[c] \in Sessions
  BY SameSession DEF ScriptInv, CaptureInv
<1>2. Rivals(c) = {}
  BY DEF ScriptInv, RivalInv, Rivals
<1>3. ASSUME NEW f \in Dats, NEW d \in Here(c)[f].open
      PROVE  d = c /\ script[c] = "tracing"
  <2>1. d \in Captures /\ SessionOf[d] = SessionOf[c] /\ script[d] = "tracing"
    <3>1. f \in Outputs
      BY DEF Outputs, Dats
    <3>2. Here(c)[f] \in FileType
      BY <1>1, <3>1 DEF ScriptInv, TypeInv, Here
    <3>3. d \in Captures
      BY <3>2 DEF FileType
    <3> QED
      BY <1>1, <3>3 DEF ScriptInv, DiskInv, Here
  <2>2. Running(d)
    BY <2>1 DEF Running
  <2> QED
    BY <1>2, <2>1, <2>2 DEF Rivals
<1> QED
  BY <1>1, <1>2, <1>3

-----------------------------------------------------------------------------
(* The steps of a script.                                                  *)

\* A script goes on and leaves the folder and the files as they are.
LEMMA DiskSame ==
    ASSUME TypeInv, DiskInv, NEW c \in Captures, script[c] # "tracing",
           \A d \in Captures \ {c} : script'[d] = script[d], UNCHANGED <<folder, disk>>
    PROVE  DiskInv'
  BY DEF DiskInv

LEMMA CallKeeps ==
    ASSUME ScriptInv, NEW c \in Captures, Call(c)
    PROVE  ScriptInv'
<1>1. TypeInv /\ RivalInv /\ DiskInv /\ CaptureInv(c)
  BY DEF ScriptInv
<1>2. /\ script[c] = "waiting" /\ script' = [script EXCEPT ![c] = "exists"]
      /\ filling' = [filling EXCEPT ![c] = "flow"]
      /\ UNCHANGED <<saw, rowsOf, folder, disk>>
      /\ excuse' \in [Captures -> SUBSET {"left", "rival", "row", "fault"}]
      /\ \E status \in {"none", "processing"} :
            /\ row' = [row EXCEPT ![c] = status]
            /\ status = "none" => "row" \in excuse'[c]
      /\ folder[SessionOf[c]] => "left" \in excuse'[c]
      /\ Rivals(c) # {} => "rival" \in excuse'[c]
      /\ \A d \in Captures \ {c} :
            excuse'[d] = IF d \in Rivals(c) THEN excuse[d] \cup {"rival"} ELSE excuse[d]
  <2>1. PICK status \in {"none", "processing"} :
            /\ row' = [row EXCEPT ![c] = status]
            /\ excuse' = [d \in Captures |->
                 IF d = c THEN {why \in {"left", "rival", "row"} :
                                  \/ why = "left" /\ folder[SessionOf[c]]
                                  \/ why = "rival" /\ Rivals(c) # {}
                                  \/ why = "row" /\ status = "none"}
                 ELSE IF d \in Rivals(c) THEN excuse[d] \cup {"rival"} ELSE excuse[d]]
    BY DEF Call
  <2>2. excuse \in [Captures -> SUBSET {"left", "rival", "row", "fault"}]
    BY <1>1 DEF TypeInv
  <2>3. excuse' \in [Captures -> SUBSET {"left", "rival", "row", "fault"}]
    BY <2>1, <2>2
  <2>4. /\ status = "none" => "row" \in excuse'[c]
        /\ folder[SessionOf[c]] => "left" \in excuse'[c]
        /\ Rivals(c) # {} => "rival" \in excuse'[c]
    BY <2>1
  <2>5. \A d \in Captures \ {c} :
            excuse'[d] = IF d \in Rivals(c) THEN excuse[d] \cup {"rival"} ELSE excuse[d]
    BY <2>1
  <2> QED
    BY <2>1, <2>3, <2>4, <2>5 DEF Call, Goto
<1>3. TypeInv'
  BY <1>1, <1>2 DEF TypeInv, Places, Opening, Tables
<1>4. OthersKept(c)
  BY <1>1, <1>2 DEF OthersKept, TypeInv
<1>5. DiskInv'
  BY <1>1, <1>2, DiskSame DEF TypeInv
<1>6. RivalInv'
  <2> SUFFICES ASSUME NEW d \in Captures, NEW e \in Captures, d # e, SessionOf[d] = SessionOf[e],
                      Running(d)', Running(e)'
               PROVE  "rival" \in excuse'[d]
    BY DEF RivalInv
  <2>1. \A b \in Captures \ {c} : Running(b)' => Running(b)
    BY <1>1, <1>2 DEF TypeInv, Running
  <2>2. CASE d = c
    BY <1>2, <2>1, <2>2 DEF Rivals
  <2>3. CASE e = c
    BY <1>2, <2>1, <2>3 DEF Rivals
  <2>4. CASE d # c /\ e # c
    BY <1>1, <1>2, <2>1, <2>4 DEF RivalInv
  <2> QED
    BY <2>2, <2>3, <2>4
<1>7. script'[c] = "exists" /\ filling'[c] = "flow" /\ Running(c)'
  BY <1>1, <1>2 DEF TypeInv, Running
<1>8. CaptureInv(c)'
  <2>1. PlaceInv(c)'
    BY <1>1, <1>2, <1>7 DEF TypeInv, PlaceInv, Closed, Opening, Filling, Ending, Raised
  <2>2. FileInv(c)'
    <3>1. ASSUME "left" \notin excuse'[c], NEW k \in Tables PROVE ~Here(c)'[Csv[k]].locked
      <4>1. Here(c) = EmptyFolder
        BY <1>1, <1>2, <3>1, SameSession DEF DiskInv, Here
      <4>2. Csv[k] \in Outputs
        BY DEF Csv, Outputs, Dats, Tables
      <4> QED
        BY <1>2, <4>1, <4>2 DEF EmptyFolder, NoFile, Here
    <3> QED
      BY <1>7, <3>1 DEF FileInv, Filling
  <2>3. RowsInv(c)'
    <3>1. IdleInv(c) /\ c \in Sources
      BY <1>1, <1>2 DEF CaptureInv, Sources
    <3> QED
      BY <1>2, <1>7, <3>1 DEF RowsInv, OwnRows, IdleInv, Copied, Opening
  <2> QED
    BY <1>7, <2>1, <2>2, <2>3 DEF CaptureInv, AloneInv, Running
<1>9. \A d \in Captures : CaptureInv(d)'
  BY <1>4, <1>6, <1>7, <1>8, OtherCaptures
<1> QED
  BY <1>3, <1>5, <1>6, <1>9 DEF ScriptInv

LEMMA ExistsKeeps ==
    ASSUME ScriptInv, NEW c \in Captures, Exists(c)
    PROVE  ScriptInv'
<1>1. TypeInv /\ RivalInv /\ DiskInv /\ CaptureInv(c)
  BY DEF ScriptInv
<1>2. /\ script[c] = "exists"
      /\ script' = [script EXCEPT ![c] = IF folder[SessionOf[c]] THEN "select" ELSE "mkdir"]
      /\ UNCHANGED <<filling, saw, rowsOf, folder, disk, excuse, row>>
  BY DEF Exists, Goto, scriptRest
<1>3. TypeInv'
  BY <1>1, <1>2 DEF TypeInv, Places, Opening
<1>4. OthersKept(c)
  BY <1>1, <1>2 DEF OthersKept, TypeInv
<1>5. DiskInv'
  BY <1>1, <1>2, DiskSame DEF TypeInv
<1>6. /\ script'[c] = IF folder[SessionOf[c]] THEN "select" ELSE "mkdir"
      /\ Running(c) /\ Running(c)'
  BY <1>1, <1>2 DEF TypeInv, Running
<1>7. ASSUME AloneInv(c)
      PROVE  AloneInv(c)'
  <2>1. PlaceInv(c)'
    BY <1>2, <1>6, <1>7 DEF AloneInv, PlaceInv, Closed, Opening, Filling, Ending, Raised, Here
  <2>2. FileInv(c)'
    BY <1>2, <1>6, <1>7 DEF AloneInv, FileInv, Opening, Filling, Here, Written, Copied
  <2>3. RowsInv(c)'
    BY <1>2, <1>6, <1>7 DEF AloneInv, RowsInv, OwnRows, Copied, Opening, Filling, Ending
  <2> QED
    BY <2>1, <2>2, <2>3 DEF AloneInv
<1>8. CaptureInv(c)'
  BY <1>1, <1>2, <1>6, <1>7 DEF CaptureInv, Running
<1> QED
  BY <1>2, <1>3, <1>4, <1>5, <1>6, <1>8, StepKeeps

LEMMA MakeDirKeeps ==
    ASSUME ScriptInv, NEW c \in Captures, MakeDir(c)
    PROVE  ScriptInv'
<1>1. TypeInv /\ RivalInv /\ DiskInv /\ CaptureInv(c) /\ SessionOf[c] \in Sessions
  BY SameSession DEF ScriptInv
<1>2. /\ script[c] = "mkdir"
      /\ script' = [script EXCEPT ![c] = IF folder[SessionOf[c]] THEN "exit1" ELSE "select"]
      /\ folder' \in [Sessions -> BOOLEAN] /\ folder'[SessionOf[c]]
      /\ \A s \in Sessions \ {SessionOf[c]} : folder'[s] = folder[s]
      /\ UNCHANGED <<filling, saw, rowsOf, disk, excuse, row>>
  BY <1>1 DEF MakeDir, Goto, scriptRest, TypeInv
<1>3. TypeInv'
  BY <1>1, <1>2 DEF TypeInv, Places, Opening, Raised
<1>4. OthersKept(c)
  BY <1>1, <1>2 DEF OthersKept, TypeInv, Sessions
<1>5. DiskInv'
  <2>1. \A s \in Sessions : ~folder'[s] => ~folder[s]
    BY <1>2
  <2>2. \A d \in Captures : script[d] = "tracing" => script'[d] = "tracing"
    BY <1>1, <1>2 DEF TypeInv
  <2> QED
    BY <1>1, <1>2, <2>1, <2>2 DEF DiskInv
<1>6. /\ script'[c] = IF folder[SessionOf[c]] THEN "exit1" ELSE "select"
      /\ Running(c) /\ Running(c)'
  BY <1>1, <1>2 DEF TypeInv, Running
<1>7. ASSUME AloneInv(c)
      PROVE  AloneInv(c)'
  <2>0. script'[c] = "select"
    BY <1>2, <1>6, <1>7 DEF AloneInv, PlaceInv
  <2>1. PlaceInv(c)'
    BY <1>2, <1>6, <1>7, <2>0 DEF AloneInv, PlaceInv, Closed, Opening, Filling, Ending, Raised, Here
  <2>2. FileInv(c)'
    BY <1>2, <1>7, <2>0 DEF AloneInv, FileInv, Opening, Filling, Here, Written, Copied
  <2>3. RowsInv(c)'
    BY <1>2, <1>7, <2>0 DEF AloneInv, RowsInv, OwnRows, Copied, Opening, Filling, Ending
  <2> QED
    BY <2>1, <2>2, <2>3 DEF AloneInv
<1>8. CaptureInv(c)'
  BY <1>1, <1>2, <1>6, <1>7 DEF CaptureInv, Running
<1> QED
  BY <1>2, <1>3, <1>4, <1>5, <1>6, <1>8, StepKeeps

LEMMA SelectPcapKeeps ==
    ASSUME ScriptInv, NEW c \in Captures, SelectPcap(c)
    PROVE  ScriptInv'
<1>1. TypeInv /\ RivalInv /\ DiskInv /\ CaptureInv(c)
  BY DEF ScriptInv
<1>2. /\ script[c] = "select"
      /\ script' = [script EXCEPT ![c] = IF row[c] = "none" THEN "clear1" ELSE "trace"]
      /\ UNCHANGED <<filling, saw, rowsOf, folder, disk, excuse, row>>
  BY DEF SelectPcap, Goto, Raise, scriptRest
<1>3. TypeInv'
  BY <1>1, <1>2 DEF TypeInv, Places, Opening, Raised
<1>4. OthersKept(c)
  BY <1>1, <1>2 DEF OthersKept, TypeInv
<1>5. DiskInv'
  BY <1>1, <1>2, DiskSame DEF TypeInv
<1>6. /\ script'[c] = IF row[c] = "none" THEN "clear1" ELSE "trace"
      /\ Running(c) /\ Running(c)'
  BY <1>1, <1>2 DEF TypeInv, Running
<1>7. ASSUME AloneInv(c)
      PROVE  AloneInv(c)'
  <2>1. PlaceInv(c)'
    BY <1>2, <1>6, <1>7 DEF AloneInv, PlaceInv, Closed, Opening, Filling, Ending, Raised, Here
  <2>2. FileInv(c)'
    BY <1>2, <1>6, <1>7 DEF AloneInv, FileInv, Opening, Filling, Here, Written, Copied
  <2>3. RowsInv(c)'
    BY <1>2, <1>6, <1>7 DEF AloneInv, RowsInv, OwnRows, Copied, Opening, Filling, Ending
  <2> QED
    BY <2>1, <2>2, <2>3 DEF AloneInv
<1>8. CaptureInv(c)'
  BY <1>1, <1>2, <1>6, <1>7 DEF CaptureInv, Running
<1> QED
  BY <1>2, <1>3, <1>4, <1>5, <1>6, <1>8, StepKeeps

\* The two files of tcptrace and the three of the script.
LEMMA NamesShape ==
    /\ Dats \subseteq Outputs
    /\ \A k \in Tables : Csv[k] \in Outputs /\ Csv[k] \notin Dats
    /\ \A k, m \in Tables : k # m => Csv[k] # Csv[m]
  BY DEF Dats, Outputs, Csv, Tables

\* A step that writes files of the capture's own session, and no line of another.
OwnDisk(c) ==
    /\ disk' \in [Sessions -> [Outputs -> FileType]]
    /\ \A s \in Sessions \ {SessionOf[c]} : disk'[s] = disk[s]
    /\ \A f \in Outputs, d \in Captures \ {c}, x \in Sources :
          <<d, x>> \in disk'[SessionOf[c]][f].has => <<d, x>> \in disk[SessionOf[c]][f].has

LEMMA OwnDiskKept ==
    ASSUME TypeInv, DiskInv, NEW c \in Captures, OwnDisk(c), UNCHANGED folder,
           \A d \in Captures \ {c} : script'[d] = script[d],
           ~folder[SessionOf[c]] => disk'[SessionOf[c]] = disk[SessionOf[c]],
           \A f \in Dats, d \in Captures :
              d \in disk'[SessionOf[c]][f].open =>
                 SessionOf[d] = SessionOf[c] /\ script'[d] = "tracing"
    PROVE  DiskInv'
<1> SUFFICES ASSUME NEW s \in Sessions
             PROVE  /\ ~folder'[s] => disk'[s] = EmptyFolder
                    /\ \A f \in Dats, d \in Captures :
                          d \in disk'[s][f].open => SessionOf[d] = s /\ script'[d] = "tracing"
                    /\ \A f \in Outputs, d \in Captures, x \in Sources :
                          <<d, x>> \in disk'[s][f].has => SessionOf[d] = s
  BY DEF DiskInv
<1>1. CASE s = SessionOf[c]
  BY <1>1 DEF OwnDisk, DiskInv
<1>2. CASE s # SessionOf[c]
  BY <1>2 DEF OwnDisk, DiskInv
<1> QED
  BY <1>1, <1>2

LEMMA OwnDiskOthers ==
    ASSUME NEW c \in Captures, OwnDisk(c), UNCHANGED <<rowsOf, folder, excuse, row>>,
           \A d \in Captures \ {c} :
              script'[d] = script[d] /\ filling'[d] = filling[d] /\ saw'[d] = saw[d]
    PROVE  OthersKept(c)
<1> SUFFICES ASSUME NEW d \in Captures \ {c}
             PROVE  /\ SessionOf[d] # SessionOf[c] =>
                          /\ folder'[SessionOf[d]] = folder[SessionOf[d]]
                          /\ disk'[SessionOf[d]] = disk[SessionOf[d]]
                    /\ \A f \in Outputs, x \in Sources :
                          <<d, x>> \in disk'[SessionOf[d]][f].has =>
                             <<d, x>> \in disk[SessionOf[d]][f].has
  BY DEF OthersKept
<1>1. CASE SessionOf[d] = SessionOf[c]
  BY <1>1 DEF OwnDisk
<1>2. CASE SessionOf[d] # SessionOf[c]
  BY <1>2, SameSession DEF OwnDisk
<1> QED
  BY <1>1, <1>2

LEMMA CallTCPTraceKeeps ==
    ASSUME ScriptInv, NEW c \in Captures, CallTCPTrace(c)
    PROVE  ScriptInv'
<1>1. TypeInv /\ RivalInv /\ DiskInv /\ CaptureInv(c) /\ SessionOf[c] \in Sessions
  BY SameSession DEF ScriptInv
<1> DEFINE s == SessionOf[c]
           traced == [f \in Outputs |->
              IF f \in Dats
              THEN [there |-> TRUE, has |-> {}, locked |-> FALSE, open |-> disk[s][f].open \cup {c}]
              ELSE disk[s][f]]
<1>2. /\ script[c] = "trace" /\ UNCHANGED <<filling, saw, rowsOf, folder, excuse, row>>
      /\ \E x \in {"tracing", "clear1"} :
            /\ script' = [script EXCEPT ![c] = x]
            /\ folder[s] => x = "tracing" /\ disk' = [disk EXCEPT ![s] = traced]
            /\ ~folder[s] => disk' = disk
  BY DEF CallTCPTrace, Goto, Raise, scriptRest
<1>3. traced \in [Outputs -> FileType]
  BY <1>1 DEF TypeInv, FileType
<1>4. OwnDisk(c)
  <2>1. CASE folder[s]
    <3>1. disk' = [disk EXCEPT ![s] = traced]
      BY <1>2, <2>1
    <3>2. \A f \in Outputs : traced[f].has \subseteq disk[s][f].has
      OBVIOUS
    <3> HIDE DEF traced
    <3> QED
      BY <1>1, <1>3, <3>1, <3>2 DEF OwnDisk, TypeInv
  <2>2. CASE ~folder[s]
    BY <1>1, <1>2, <2>2 DEF OwnDisk, TypeInv
  <2> QED
    BY <2>1, <2>2
<1>5. TypeInv'
  BY <1>1, <1>2, <1>4 DEF TypeInv, OwnDisk, Places, Opening, Raised
<1>6. OthersKept(c)
  BY <1>1, <1>2, <1>4 DEF OthersKept, OwnDisk, TypeInv, Sessions
<1>7. Running(c) /\ Running(c)'
  BY <1>1, <1>2 DEF TypeInv, Running
<1>8. DiskInv'
  <2>1. ASSUME NEW f \in Dats, NEW d \in Captures, d \in disk'[s][f].open
        PROVE  SessionOf[d] = s /\ script'[d] = "tracing"
    <3>1. CASE folder[s]
      <4>1. disk'[s] = traced /\ script' = [script EXCEPT ![c] = "tracing"]
        BY <1>1, <1>2, <3>1 DEF TypeInv
      <4>2. d = c \/ d \in disk[s][f].open
        BY <2>1, <4>1, NamesShape
      <4> QED
        BY <1>1, <1>2, <4>1, <4>2 DEF TypeInv, DiskInv
    <3>2. CASE ~folder[s]
      BY <1>1, <1>2, <2>1, <3>2 DEF TypeInv, DiskInv
    <3> QED
      BY <3>1, <3>2
  <2>2. ~folder[s] => disk'[s] = disk[s]
    BY <1>2
  <2>3. \A d \in Captures \ {c} : script'[d] = script[d]
    BY <1>1, <1>2 DEF TypeInv
  <2> QED
    BY <1>1, <1>2, <1>4, <2>1, <2>2, <2>3, OwnDiskKept
<1>9. ASSUME AloneInv(c)
      PROVE  AloneInv(c)'
  <2>0. /\ folder[s] /\ script'[c] = "tracing" /\ disk'[s] = traced
    BY <1>1, <1>2, <1>9 DEF AloneInv, PlaceInv, TypeInv, Closed
  <2>1. PlaceInv(c)'
    BY <1>2, <1>9, <2>0 DEF AloneInv, PlaceInv, Closed, Opening, Filling, Ending, Raised, Here
  <2>2. FileInv(c)'
    <3>1. \A f \in Dats : traced[f].there /\ traced[f].has = {} /\ c \in traced[f].open
      BY NamesShape
    <3>2. \A k \in Tables : traced[Csv[k]] = disk[s][Csv[k]]
      BY NamesShape
    <3> HIDE DEF traced
    <3> QED
      BY <1>2, <1>9, <2>0, <3>1, <3>2 DEF AloneInv, FileInv, Opening, Filling, Here, Written, Copied
  <2>3. RowsInv(c)'
    BY <1>2, <1>9, <2>0 DEF AloneInv, RowsInv, OwnRows, Copied, Opening, Filling, Ending
  <2> QED
    BY <2>1, <2>2, <2>3 DEF AloneInv
<1>10. CaptureInv(c)'
  BY <1>1, <1>2, <1>7, <1>9 DEF CaptureInv, Running
<1> QED
  BY <1>2, <1>5, <1>6, <1>7, <1>8, <1>10, StepKeeps

\* The files of tcptrace take its last lines.
LEMMA FlushShape ==
    ASSUME NEW files \in [Outputs -> FileType], NEW c, NEW lines \in SUBSET (Sources \X Sources)
    PROVE  LET ended == Flush(files, c, lines)
           IN  /\ ended \in [Outputs -> FileType]
               /\ \A f \in Outputs :
                     /\ f \in Dats /\ c \in files[f].open =>
                           /\ ended[f].there = files[f].there
                           /\ ended[f].has = files[f].has \cup lines
                           /\ ended[f].open = files[f].open \ {c}
                     /\ ~(f \in Dats /\ c \in files[f].open) => ended[f] = files[f]
<1> DEFINE ended == Flush(files, c, lines)
           F == FileType
<1>1. ASSUME NEW f \in Outputs, f \in Dats, c \in files[f].open
      PROVE  /\ ended[f] \in FileType
             /\ ended[f].there = files[f].there
             /\ ended[f].has = files[f].has \cup lines
             /\ ended[f].open = files[f].open \ {c}
  <2> DEFINE q == files[f]
             has == q.has \cup lines
             open == q.open \ {c}
             z == ended[f]
  <2>1. q \in FileType
    OBVIOUS
  <2>2. has \in SUBSET (Sources \X Sources) /\ open \in SUBSET Captures
    BY <2>1 DEF FileType
  <2>3. z = [files[f] EXCEPT !.has = @ \cup lines, !.open = @ \ {c}]
    BY <1>1 DEF Flush
  <2>4. z = [q EXCEPT !.has = has, !.open = open]
    BY <2>3
  <2> HIDE DEF q, has, open, z
  <2>5. z \in FileType /\ z.there = q.there /\ z.has = has /\ z.open = open
    BY ONLY <2>1, <2>2, <2>4 DEF FileType
  <2> QED
    BY <2>5 DEF q, has, open, z
<1>2. ASSUME NEW f \in Outputs, ~(f \in Dats /\ c \in files[f].open)
      PROVE  ended[f] = files[f]
  BY <1>2 DEF Flush
<1>3. \A f \in Outputs : ended[f] \in F
  BY <1>1, <1>2
<1>4. ended \in [Outputs -> F]
  <2>1. ended = [f \in Outputs |-> ended[f]]
    BY DEF Flush
  <2> HIDE DEF F, ended
  <2> QED
    BY <1>3, <2>1
<1> HIDE DEF ended
<1> QED
  BY <1>1, <1>2, <1>4 DEF ended

LEMMA EndTraceKeeps ==
    ASSUME ScriptInv, NEW c \in Captures, EndTrace(c)
    PROVE  ScriptInv'
<1>1. TypeInv /\ RivalInv /\ DiskInv /\ CaptureInv(c) /\ SessionOf[c] \in Sessions /\ c \in Sources
  BY SameSession DEF ScriptInv, Sources
<1> DEFINE s == SessionOf[c]
           ended == Flush(disk[s], c, {<<c, c>>})
<1>2. /\ script[c] = "tracing" /\ UNCHANGED <<filling, rowsOf, folder, excuse, row>>
      /\ script' = [script EXCEPT ![c] = "open"]
      /\ saw' = [saw EXCEPT ![c] = {c}]
      /\ disk' = [disk EXCEPT ![s] = ended]
  BY DEF EndTrace, Goto, scriptRest
<1>3. /\ ended \in [Outputs -> FileType]
      /\ \A f \in Outputs :
            /\ f \in Dats /\ c \in disk[s][f].open =>
                  /\ ended[f].there = disk[s][f].there
                  /\ ended[f].has = disk[s][f].has \cup {<<c, c>>}
                  /\ ended[f].open = disk[s][f].open \ {c}
            /\ ~(f \in Dats /\ c \in disk[s][f].open) => ended[f] = disk[s][f]
  <2>1. disk[s] \in [Outputs -> FileType] /\ {<<c, c>>} \in SUBSET (Sources \X Sources)
    BY <1>1 DEF TypeInv
  <2> QED
    BY ONLY <2>1, FlushShape
<1> HIDE DEF ended
<1>4. OwnDisk(c)
  <2>1. \A f \in Outputs, d \in Captures \ {c}, x \in Sources :
           <<d, x>> \in ended[f].has => <<d, x>> \in disk[s][f].has
    <3>1. \A f \in Outputs : ended[f].has \subseteq disk[s][f].has \cup {<<c, c>>}
      BY <1>3
    <3> QED
      BY <3>1
  <2> QED
    BY <1>1, <1>2, <1>3, <2>1 DEF OwnDisk, TypeInv
<1>5. TypeInv'
  BY <1>1, <1>2, <1>4 DEF TypeInv, OwnDisk, Places, Filling
<1>6. OthersKept(c)
  BY <1>1, <1>2, <1>4 DEF OthersKept, OwnDisk, TypeInv, Sessions
<1>7. Running(c) /\ Running(c)' /\ script'[c] = "open" /\ saw'[c] = {c} /\ disk'[s] = ended
  BY <1>1, <1>2 DEF TypeInv, Running
<1>8. DiskInv'
  <2>1. ASSUME NEW f \in Dats, NEW d \in Captures, d \in disk'[s][f].open
        PROVE  SessionOf[d] = s /\ script'[d] = "tracing"
    <3>1. f \in Outputs
      BY NamesShape
    <3>2. d # c /\ d \in disk[s][f].open
      BY <1>3, <1>7, <2>1, <3>1
    <3> QED
      BY <1>1, <1>2, <3>2 DEF TypeInv, DiskInv
  <2>2. ~folder[s] => disk'[s] = disk[s]
    <3>1. ASSUME ~folder[s] PROVE ended = disk[s]
      <4>1. disk[s] = EmptyFolder
        BY <1>1, <3>1 DEF DiskInv
      <4>2. \A f \in Outputs : disk[s][f].open = {}
        BY <4>1 DEF EmptyFolder, NoFile
      <4>3. \A f \in Outputs : ended[f] = disk[s][f]
        BY <1>3, <4>2
      <4>4. disk[s] \in [Outputs -> FileType]
        BY <1>1 DEF TypeInv
      <4> QED
        BY <1>3, <4>3, <4>4
    <3> QED
      BY <1>7, <3>1
  <2>3. \A d \in Captures \ {c} : script'[d] = script[d]
    BY <1>1, <1>2 DEF TypeInv
  <2> QED
    BY <1>1, <1>2, <1>4, <2>1, <2>2, <2>3, OwnDiskKept
<1>9. ASSUME AloneInv(c)
      PROVE  AloneInv(c)'
  <2>1. PlaceInv(c)'
    BY <1>2, <1>7, <1>9 DEF AloneInv, PlaceInv, Closed, Opening, Filling, Ending, Raised, Here
  <2>2. FileInv(c)'
    <3>1. ASSUME NEW f \in Dats PROVE ended[f].there /\ ended[f].has = {<<c, c>>}
      <4>1. f \in Outputs
        BY NamesShape
      <4>2. disk[s][f].there /\ disk[s][f].has = {} /\ c \in disk[s][f].open
        BY <1>2, <1>9 DEF AloneInv, FileInv, Here
      <4> QED
        BY <1>3, <4>1, <4>2
    <3>2. \A k \in Tables : ended[Csv[k]] = disk[s][Csv[k]]
      BY <1>3, NamesShape
    <3>3. Written(c) = {} /\ Written(c)' = Earlier(filling[c]) /\ filling[c] = "flow"
      BY <1>2, <1>7, <1>9 DEF Written, Copied, Opening, Filling, AloneInv, PlaceInv
    <3> QED
      BY <1>2, <1>7, <1>9, <3>1, <3>2, <3>3 DEF AloneInv, FileInv, Opening, Filling, Here
  <2>3. RowsInv(c)'
    <3>1. Copied(c) = {} /\ Copied(c)' = {}
      BY <1>2, <1>7, <1>9 DEF Copied, Opening, Filling, Earlier, AloneInv, PlaceInv
    <3> QED
      BY <1>2, <1>7, <1>9, <3>1 DEF AloneInv, RowsInv, OwnRows, Opening, Filling
  <2> QED
    BY <2>1, <2>2, <2>3 DEF AloneInv
<1>10. CaptureInv(c)'
  BY <1>1, <1>2, <1>7, <1>9 DEF CaptureInv, Running
<1> QED
  BY <1>2, <1>5, <1>6, <1>7, <1>8, <1>10, StepKeeps

LEMMA ReadDatKeeps ==
    ASSUME ScriptInv, NEW c \in Captures, ReadDat(c)
    PROVE  ScriptInv'
<1>1. TypeInv /\ RivalInv /\ DiskInv /\ CaptureInv(c) /\ SessionOf[c] \in Sessions
  BY SameSession DEF ScriptInv
<1> DEFINE f == Here(c)[Dat[filling[c]]]
<1>2. /\ script[c] = "read" /\ UNCHANGED <<filling, rowsOf, folder, disk, excuse, row>>
      /\ \/ /\ f.there /\ script' = [script EXCEPT ![c] = "open"]
            /\ \E more \in SUBSET f.open : saw' = [saw EXCEPT ![c] = {r[2] : r \in f.has} \cup more]
         \/ ~f.there /\ script' = [script EXCEPT ![c] = "clear1"] /\ UNCHANGED saw
  BY DEF ReadDat, Goto, Raise, scriptRest
<1>3. Running(c) /\ Running(c)' /\ script'[c] \in {"open", "clear1"}
  BY <1>1, <1>2 DEF TypeInv, Running
<1>4. saw' \in [Captures -> SUBSET Sources] /\ \A d \in Captures \ {c} : saw'[d] = saw[d]
  <2>1. CASE UNCHANGED saw
    BY <1>1, <2>1 DEF TypeInv
  <2>2. CASE \E more \in SUBSET f.open : saw' = [saw EXCEPT ![c] = {r[2] : r \in f.has} \cup more]
    <3>1. PICK more \in SUBSET f.open : saw' = [saw EXCEPT ![c] = {r[2] : r \in f.has} \cup more]
      BY <2>2
    <3>2. Dat[filling[c]] \in Outputs
      BY <1>1, <1>2 DEF TypeInv, Dat, Outputs, Dats, Tables
    <3>3. f \in FileType
      BY <1>1, <3>2 DEF TypeInv, Here
    <3>4. f.has \in SUBSET (Sources \X Sources) /\ f.open \in SUBSET Captures
      BY <3>3 DEF FileType
    <3>5. {r[2] : r \in f.has} \cup more \in SUBSET Sources
      BY <3>4 DEF Sources
    <3> HIDE DEF f
    <3> QED
      BY <1>1, <3>1, <3>5 DEF TypeInv
  <2> QED
    BY <1>2, <2>1, <2>2
<1>5. TypeInv'
  BY <1>1, <1>2, <1>4 DEF TypeInv, Places, Filling, Raised
<1>6. OthersKept(c)
  BY <1>1, <1>2, <1>4 DEF OthersKept, TypeInv
<1>7. DiskInv'
  BY <1>1, <1>2, DiskSame DEF TypeInv
<1>8. ASSUME "rival" \notin excuse[c]
      PROVE  AloneInv(c)'
  <2>1. AloneInv(c) /\ \A g \in Dats : Here(c)[g].open = {}
    BY <1>2, <1>3, <1>8, AloneShape
  <2>2. /\ filling[c] \in {"tput", "rtt"} /\ Dat[filling[c]] \in Dats
    BY <1>1, <1>2, <2>1 DEF AloneInv, PlaceInv, TypeInv, Tables, Dat, Dats
  <2>3. f.there /\ f.has = {<<c, c>>} /\ f.open = {}
    BY <1>2, <2>1, <2>2 DEF AloneInv, FileInv, Filling
  <2>4. script'[c] = "open" /\ saw'[c] = {c}
    <3>1. \A more \in SUBSET f.open : {r[2] : r \in f.has} \cup more = {c}
      BY <2>3
    <3> HIDE DEF f
    <3> QED
      BY <1>1, <1>2, <2>3, <3>1 DEF TypeInv
  <2>5. PlaceInv(c)'
    BY <1>2, <2>1, <2>4 DEF AloneInv, PlaceInv, Closed, Opening, Filling, Ending, Raised, Here
  <2>6. FileInv(c)'
    BY <1>2, <2>1, <2>4 DEF AloneInv, FileInv, Opening, Filling, Here, Written, Copied
  <2>7. RowsInv(c)'
    BY <1>2, <2>1, <2>4 DEF AloneInv, RowsInv, OwnRows, Copied, Opening, Filling, Ending
  <2> QED
    BY <2>5, <2>6, <2>7 DEF AloneInv
<1>9. CaptureInv(c)'
  BY <1>2, <1>3, <1>8 DEF CaptureInv, Running
<1> QED
  BY <1>2, <1>3, <1>5, <1>6, <1>7, <1>9, StepKeeps

\* A script writes a csv file.
LEMMA WriteShape ==
    ASSUME TypeInv, DiskInv, NEW c \in Captures, NEW g \in Outputs \ Dats, NEW z \in FileType,
           Write(c, g, z), UNCHANGED folder, folder[SessionOf[c]], script[c] # "tracing",
           \A d \in Captures \ {c} : script'[d] = script[d],
           \A d \in Captures \ {c}, x \in Sources : <<d, x>> \in z.has => <<d, x>> \in Here(c)[g].has
    PROVE  /\ OwnDisk(c) /\ DiskInv'
           /\ Here(c)'[g] = z /\ \A f \in Outputs \ {g} : Here(c)'[f] = Here(c)[f]
<1> DEFINE s == SessionOf[c]
<1>1. /\ s \in Sessions /\ disk \in [Sessions -> [Outputs -> FileType]]
      /\ disk' = [disk EXCEPT ![s][g] = z]
  BY SameSession DEF TypeInv, Write
<1> DEFINE F == FileType
<1>2. /\ disk' \in [Sessions -> [Outputs -> F]]
      /\ disk'[s][g] = z /\ \A f \in Outputs \ {g} : disk'[s][f] = disk[s][f]
      /\ \A t \in Sessions \ {s} : disk'[t] = disk[t]
  <2> HIDE DEF F, s
  <2> QED
    BY <1>1 DEF F
<1> HIDE DEF F, s
<1>3. OwnDisk(c)
  BY <1>2 DEF F, OwnDisk, s, Here
<1>4. DiskInv'
  <2>1. ASSUME NEW f \in Dats, NEW d \in Captures, d \in disk'[s][f].open
        PROVE  SessionOf[d] = s /\ script'[d] = "tracing"
    <3>1. d \in disk[s][f].open
      BY <1>2, <2>1, NamesShape
    <3>2. SessionOf[d] = s /\ script[d] = "tracing"
      BY <1>1, <2>1, <3>1 DEF DiskInv
    <3> QED
      BY <3>2
  <2> QED
    BY <1>3, <2>1, OwnDiskKept DEF s
<1> QED
  BY <1>2, <1>3, <1>4 DEF s, Here

LEMMA OpenCsvKeeps ==
    ASSUME ScriptInv, NEW c \in Captures, OpenCsv(c)
    PROVE  ScriptInv'
<1>1. TypeInv /\ RivalInv /\ DiskInv /\ CaptureInv(c) /\ SessionOf[c] \in Sessions
  BY SameSession DEF ScriptInv
<1> DEFINE g == Csv[filling[c]]
           q == Here(c)[g]
           z == [q EXCEPT !.there = TRUE, !.has = {}, !.open = @ \cup {c}]
<1>2. /\ script[c] = "open" /\ UNCHANGED <<filling, saw, rowsOf, folder, excuse, row>>
      /\ \/ /\ folder[SessionOf[c]] /\ ~q.locked
            /\ script' = [script EXCEPT ![c] = "close"] /\ Write(c, g, z)
         \/ /\ ~(folder[SessionOf[c]] /\ ~q.locked)
            /\ script' = [script EXCEPT ![c] = "clear1"] /\ UNCHANGED disk
  BY DEF OpenCsv, Goto, Raise, scriptRest
<1>3. g \in Outputs \ Dats /\ filling[c] \in Tables
  BY <1>1, NamesShape DEF TypeInv
<1>4. /\ z \in FileType /\ z.there /\ z.has = {} /\ z.open = q.open \cup {c}
      /\ z.locked = q.locked
  <2>1. q \in FileType
    BY <1>1, <1>3 DEF TypeInv, Here
  <2> HIDE DEF q
  <2> QED
    BY <2>1 DEF FileType
<1>5. \A d \in Captures \ {c} : script'[d] = script[d]
  BY <1>1, <1>2 DEF TypeInv
<1> HIDE DEF g, q, z
<1>6. CASE /\ folder[SessionOf[c]] /\ ~q.locked
           /\ script' = [script EXCEPT ![c] = "close"] /\ Write(c, g, z)
  <2>1. /\ OwnDisk(c) /\ DiskInv'
        /\ Here(c)'[g] = z /\ \A f \in Outputs \ {g} : Here(c)'[f] = Here(c)[f]
    <3>1. \A d \in Captures \ {c}, x \in Sources : <<d, x>> \in z.has => <<d, x>> \in Here(c)[g].has
      BY <1>4
    <3> QED
      BY <1>1, <1>2, <1>3, <1>4, <1>5, <1>6, <3>1, WriteShape
  <2>2. TypeInv'
    <3>1. /\ script' \in [Captures -> Places]
          /\ \A d \in Captures : script'[d] = "read" => script[d] = "read"
      BY <1>1, <1>6 DEF TypeInv, Places, Filling
    <3> QED
      BY <1>1, <1>2, <2>1, <3>1 DEF TypeInv, OwnDisk
  <2>3. OthersKept(c)
    BY <1>2, <1>5, <2>1, OwnDiskOthers
  <2>4. Running(c) /\ Running(c)' /\ script'[c] = "close"
    BY <1>1, <1>2, <1>6 DEF TypeInv, Running
  <2>5. ASSUME AloneInv(c)
        PROVE  AloneInv(c)'
    <3>1. PlaceInv(c)'
      BY <1>2, <2>4, <2>5 DEF AloneInv, PlaceInv, Closed, Opening, Filling, Ending, Raised
    <3>2. FileInv(c)'
      <4>1. \A f \in Dats : Here(c)'[f] = Here(c)[f]
        BY <1>3, <2>1, NamesShape
      <4>2. \A k \in Tables \ Earlier(filling[c]) : ~Here(c)[Csv[k]].locked => ~Here(c)'[Csv[k]].locked
        BY <1>3, <1>4, <2>1, NamesShape DEF g, q
      <4>3. Written(c) = Earlier(filling[c]) /\ Written(c)' = Earlier(filling[c])
        BY <1>2, <2>4 DEF Written, Copied, Opening, Filling
      <4>4. Here(c)'[Csv[filling[c]]] = z /\ filling'[c] = filling[c] /\ saw'[c] = saw[c]
            /\ excuse'[c] = excuse[c]
        BY <1>2, <2>1 DEF g
      <4> QED
        BY <1>2, <1>4, <2>4, <2>5, <4>1, <4>2, <4>3, <4>4 DEF AloneInv, FileInv, Opening, Filling
    <3>3. RowsInv(c)'
      BY <1>2, <2>4, <2>5 DEF AloneInv, RowsInv, OwnRows, Copied, Opening, Filling, Ending
    <3> QED
      BY <3>1, <3>2, <3>3 DEF AloneInv
  <2>6. CaptureInv(c)'
    BY <1>1, <1>2, <2>4, <2>5 DEF CaptureInv, Running
  <2> QED
    BY <1>2, <2>1, <2>2, <2>3, <2>4, <2>6, StepKeeps
<1>7. CASE /\ ~(folder[SessionOf[c]] /\ ~q.locked)
           /\ script' = [script EXCEPT ![c] = "clear1"] /\ UNCHANGED disk
  <2>1. TypeInv'
    BY <1>1, <1>2, <1>7 DEF TypeInv, Places, Raised
  <2>2. OthersKept(c)
    BY <1>1, <1>2, <1>5, <1>7 DEF OthersKept, TypeInv
  <2>3. DiskInv'
    BY <1>1, <1>2, <1>5, <1>7, DiskSame
  <2>4. Running(c) /\ Running(c)' /\ script'[c] = "clear1"
    BY <1>1, <1>2, <1>7 DEF TypeInv, Running
  <2>5. ASSUME AloneInv(c)
        PROVE  AloneInv(c)'
    <3>1. "left" \in excuse[c]
      <4>1. folder[SessionOf[c]]
        BY <1>2, <2>5 DEF AloneInv, PlaceInv, Closed
      <4>2. filling[c] \notin Written(c)
        BY <1>1, <1>2 DEF Written, Copied, Earlier, Opening, Filling, TypeInv, Tables
      <4> QED
        BY <1>2, <1>3, <1>7, <2>5, <4>1, <4>2 DEF AloneInv, FileInv, Filling, g, q
    <3>2. PlaceInv(c)'
      BY <1>2, <2>4, <2>5, <3>1 DEF AloneInv, PlaceInv, Closed, Opening, Filling, Ending, Raised
    <3>3. FileInv(c)'
      BY <2>4 DEF FileInv, Opening, Filling
    <3>4. RowsInv(c)'
      BY <1>2, <2>4, <2>5 DEF AloneInv, RowsInv, OwnRows, Opening, Filling, Ending
    <3> QED
      BY <3>2, <3>3, <3>4 DEF AloneInv
  <2>6. CaptureInv(c)'
    BY <1>1, <1>2, <2>4, <2>5 DEF CaptureInv, Running
  <2> QED
    BY <1>2, <2>1, <2>2, <2>3, <2>4, <2>6, StepKeeps
<1> QED
  BY <1>2, <1>6, <1>7

LEMMA CloseCsvKeeps ==
    ASSUME ScriptInv, NEW c \in Captures, CloseCsv(c)
    PROVE  ScriptInv'
<1>1. TypeInv /\ RivalInv /\ DiskInv /\ CaptureInv(c) /\ SessionOf[c] \in Sessions /\ c \in Sources
  BY SameSession DEF ScriptInv, Sources
<1> DEFINE g == Csv[filling[c]]
           q == Here(c)[g]
           written == IF c \in q.open THEN {<<c, x>> : x \in saw[c]} ELSE {}
           z == [q EXCEPT !.has = @ \cup written, !.locked = TRUE, !.open = @ \ {c}]
<1>2. /\ script[c] = "close" /\ UNCHANGED <<filling, rowsOf, folder, excuse, row>>
      /\ saw' = [saw EXCEPT ![c] = {}]
      /\ \/ q.there /\ script' = [script EXCEPT ![c] = "copy"] /\ Write(c, g, z)
         \/ ~q.there /\ script' = [script EXCEPT ![c] = "clear1"] /\ UNCHANGED disk
  BY DEF CloseCsv, Goto, Raise, scriptRest
<1>3. g \in Outputs \ Dats /\ filling[c] \in Tables
  BY <1>1, NamesShape DEF TypeInv
<1>4. q \in FileType
  BY <1>1, <1>3 DEF TypeInv, Here
<1>5. written \in SUBSET (Sources \X Sources) /\ \A d \in Captures \ {c}, x \in Sources : <<d, x>> \notin written
  BY <1>1 DEF TypeInv
<1>6. c \in q.open /\ saw[c] = {c} => written = {<<c, c>>}
  OBVIOUS
<1> HIDE DEF g, q, written
<1>7. /\ z \in FileType /\ z.there = q.there /\ z.has = q.has \cup written
      /\ z.open = q.open \ {c} /\ z.locked
  BY <1>4, <1>5 DEF FileType
<1> HIDE DEF z
<1>8. /\ saw' \in [Captures -> SUBSET Sources]
      /\ \A d \in Captures \ {c} : script'[d] = script[d] /\ saw'[d] = saw[d]
  BY <1>1, <1>2 DEF TypeInv
<1>9. CASE q.there /\ script' = [script EXCEPT ![c] = "copy"] /\ Write(c, g, z)
  <2>0. folder[SessionOf[c]]
    <3>1. ASSUME ~folder[SessionOf[c]] PROVE FALSE
      <4>1. Here(c) = EmptyFolder
        BY <1>1, <3>1 DEF DiskInv, Here
      <4> QED
        BY <1>3, <1>9, <4>1 DEF EmptyFolder, NoFile, q
    <3> QED
      BY <3>1
  <2>1. /\ OwnDisk(c) /\ DiskInv'
        /\ Here(c)'[g] = z /\ \A f \in Outputs \ {g} : Here(c)'[f] = Here(c)[f]
    <3>1. \A d \in Captures \ {c}, x \in Sources : <<d, x>> \in z.has => <<d, x>> \in Here(c)[g].has
      BY <1>5, <1>7 DEF q
    <3> QED
      BY <1>1, <1>2, <1>3, <1>7, <1>8, <1>9, <2>0, <3>1, WriteShape
  <2>2. TypeInv'
    <3>1. /\ script' \in [Captures -> Places]
          /\ \A d \in Captures : script'[d] = "read" => script[d] = "read"
      BY <1>1, <1>9 DEF TypeInv, Places, Filling
    <3> QED
      BY <1>1, <1>2, <1>8, <2>1, <3>1 DEF TypeInv, OwnDisk
  <2>3. OthersKept(c)
    BY <1>2, <1>8, <2>1, OwnDiskOthers
  <2>4. Running(c) /\ Running(c)' /\ script'[c] = "copy"
    BY <1>1, <1>2, <1>9 DEF TypeInv, Running
  <2>5. ASSUME AloneInv(c)
        PROVE  AloneInv(c)'
    <3>1. PlaceInv(c)'
      BY <1>2, <2>4, <2>5 DEF AloneInv, PlaceInv, Closed, Opening, Filling, Ending, Raised
    <3>2. FileInv(c)'
      <4>1. \A f \in Dats : Here(c)'[f] = Here(c)[f]
        BY <1>3, <2>1, NamesShape
      <4>2. \A k \in Tables \ {filling[c]} : Here(c)'[Csv[k]] = Here(c)[Csv[k]]
        BY <1>3, <2>1, NamesShape DEF g
      <4>3. Written(c) = Earlier(filling[c]) /\ Written(c)' = Earlier(filling[c]) \cup {filling[c]}
        BY <1>2, <2>4 DEF Written, Copied, Opening, Filling
      <4>4. Here(c)'[Csv[filling[c]]] = z /\ filling'[c] = filling[c] /\ excuse'[c] = excuse[c]
        BY <1>2, <2>1 DEF g
      <4>5. z.there /\ z.has = {<<c, c>>}
        BY <1>2, <1>6, <1>7, <2>5 DEF AloneInv, FileInv, g, q
      <4> QED
        BY <1>2, <2>4, <2>5, <4>1, <4>2, <4>3, <4>4, <4>5 DEF AloneInv, FileInv, Opening, Filling
    <3>3. RowsInv(c)'
      BY <1>2, <2>4, <2>5 DEF AloneInv, RowsInv, OwnRows, Copied, Opening, Filling, Ending
    <3> QED
      BY <3>1, <3>2, <3>3 DEF AloneInv
  <2>6. CaptureInv(c)'
    BY <1>1, <1>2, <2>4, <2>5 DEF CaptureInv, Running
  <2> QED
    BY <1>2, <2>1, <2>2, <2>3, <2>4, <2>6, StepKeeps
<1>10. CASE ~q.there /\ script' = [script EXCEPT ![c] = "clear1"] /\ UNCHANGED disk
  <2>1. TypeInv'
    BY <1>1, <1>2, <1>8, <1>10 DEF TypeInv, Places, Raised
  <2>2. OthersKept(c)
    BY <1>1, <1>2, <1>8, <1>10 DEF OthersKept, TypeInv
  <2>3. DiskInv'
    BY <1>1, <1>2, <1>8, <1>10, DiskSame
  <2>4. Running(c) /\ Running(c)' /\ script'[c] = "clear1"
    BY <1>1, <1>2, <1>10 DEF TypeInv, Running
  <2>5. ~AloneInv(c)
    BY <1>2, <1>10 DEF AloneInv, FileInv, g, q
  <2>6. CaptureInv(c)'
    BY <1>1, <1>2, <2>4, <2>5 DEF CaptureInv, Running
  <2> QED
    BY <1>2, <2>1, <2>2, <2>3, <2>4, <2>6, StepKeeps
<1> QED
  BY <1>2, <1>9, <1>10

LEMMA CopyKeeps ==
    ASSUME ScriptInv, NEW c \in Captures, Copy(c)
    PROVE  ScriptInv'
<1>1. TypeInv /\ RivalInv /\ DiskInv /\ CaptureInv(c) /\ SessionOf[c] \in Sessions /\ c \in Sources
  BY SameSession DEF ScriptInv, Sources
<1> DEFINE k == filling[c]
           g == Csv[k]
           q == Here(c)[g]
           copied == [r \in Rows |-> IF r \in q.has THEN Once(rowsOf[k][r]) ELSE rowsOf[k][r]]
           well == q.there /\ \A r \in q.has : r \in Rows /\ row[r[1]] # "none"
<1>2. /\ script[c] = "copy" /\ UNCHANGED <<saw, folder, disk, excuse, row>>
      /\ \/ /\ well
            /\ rowsOf' = [rowsOf EXCEPT ![k] = copied]
            /\ script' = [script EXCEPT ![c] = IF k = "rtt" THEN "update" ELSE "read"]
            /\ filling' = [filling EXCEPT ![c] = IF k = "flow" THEN "tput" ELSE "rtt"]
         \/ /\ ~well
            /\ script' = [script EXCEPT ![c] = "clear1"] /\ UNCHANGED <<rowsOf, filling>>
  BY <1>1 DEF Copy, Goto, Raise, scriptRest, TypeInv, Tables
<1>3. g \in Outputs \ Dats /\ k \in Tables
  BY <1>1, NamesShape DEF TypeInv
<1>4. q \in FileType
  BY <1>1, <1>3 DEF TypeInv, Here
<1>5. copied \in [Rows -> Nat] /\ \A r \in Rows : r \notin q.has => copied[r] = rowsOf[k][r]
  <2>1. rowsOf[k] \in [Rows -> Nat]
    BY <1>1, <1>3 DEF TypeInv
  <2> HIDE DEF q, k
  <2> QED
    BY <2>1 DEF Once
<1>6. \A d \in Captures, x \in Sources : <<d, x>> \in Rows
  BY DEF Rows, Sources
<1>7. copied[<<c, c>>] = IF <<c, c>> \in q.has THEN Once(rowsOf[k][<<c, c>>]) ELSE rowsOf[k][<<c, c>>]
  BY <1>1, <1>6
<1> HIDE DEF g, q, copied
<1>8. CASE /\ well
           /\ rowsOf' = [rowsOf EXCEPT ![k] = copied]
           /\ script' = [script EXCEPT ![c] = IF k = "rtt" THEN "update" ELSE "read"]
           /\ filling' = [filling EXCEPT ![c] = IF k = "flow" THEN "tput" ELSE "rtt"]
  <2>1. /\ rowsOf' \in [Tables -> [Rows -> Nat]]
        /\ rowsOf'[k] = copied /\ \A m \in Tables \ {k} : rowsOf'[m] = rowsOf[m]
    <3> HIDE DEF k, well
    <3> QED
      BY <1>1, <1>3, <1>5, <1>8 DEF TypeInv
  <2>2. /\ script'[c] = (IF k = "rtt" THEN "update" ELSE "read")
        /\ filling'[c] = (IF k = "flow" THEN "tput" ELSE "rtt")
        /\ \A d \in Captures \ {c} : script'[d] = script[d] /\ filling'[d] = filling[d]
        /\ script' \in [Captures -> Places] /\ filling' \in [Captures -> Tables]
    BY <1>1, <1>8 DEF TypeInv, Places, Filling, Ending, Tables
  <2>3. TypeInv'
    BY <1>1, <1>2, <2>1, <2>2, SMTT(30) DEF TypeInv, Tables
  <2>4. OthersKept(c)
    <3>1. ASSUME NEW d \in Captures \ {c}, NEW m \in Tables, NEW x \in Sources,
                 rowsOf'[m][<<d, x>>] # rowsOf[m][<<d, x>>]
          PROVE  row[d] # "none" /\ \E f \in Outputs : <<d, x>> \in Here(c)[f].has
      <4>1. <<d, x>> \in q.has
        BY <1>5, <1>6, <2>1, <3>1
      <4> QED
        BY <1>3, <1>8, <4>1 DEF q
    <3> HIDE DEF k, well
    <3> QED
      BY <1>2, <2>2, <3>1 DEF OthersKept
  <2>5. DiskInv'
    BY <1>1, <1>2, <2>2, DiskSame
  <2>6. Running(c) /\ Running(c)'
    BY <1>2, <2>2 DEF Running
  <2>7. ASSUME AloneInv(c)
        PROVE  AloneInv(c)'
    <3>1. PlaceInv(c)'
      BY <1>2, <2>2, <2>7 DEF AloneInv, PlaceInv, Closed, Opening, Filling, Ending, Raised, Here
    <3>2. FileInv(c)'
      <4>1. Written(c) = Earlier(k) \cup {k}
        BY <1>2 DEF Written
      <4>2. script'[c] = "read" => Written(c)' = Earlier(k) \cup {k}
        BY <1>3, <2>2 DEF Written, Copied, Earlier, Opening, Filling, Tables
      <4> QED
        BY <1>2, <2>2, <2>7, <4>1, <4>2 DEF AloneInv, FileInv, Opening, Filling, Here
    <3>3. RowsInv(c)'
      <4>1. q.has = {<<c, c>>}
        BY <1>2, <2>7 DEF AloneInv, FileInv, g, q
      <4>2. Copied(c) = Earlier(k) /\ Copied(c)' = Earlier(k) \cup {k} /\ k \notin Earlier(k)
        BY <1>2, <1>3, <2>2 DEF Copied, Earlier, Opening, Filling, Tables
      <4>3. rowsOf[k][<<c, c>>] = 0 /\ OwnRows(c)
            /\ \A m \in Tables : rowsOf[m][<<c, c>>] = IF m \in Copied(c) THEN 1 ELSE 0
        BY <1>2, <1>3, <2>7, <4>2 DEF AloneInv, RowsInv, Filling
      <4>4. copied[<<c, c>>] = 1
        BY <1>7, <4>1, <4>3 DEF Once
      <4>5. \A x \in Sources : x # c => copied[<<c, x>>] = rowsOf[k][<<c, x>>]
        BY <1>5, <1>6, <4>1
      <4>6. OwnRows(c)'
        BY <1>3, <2>1, <4>3, <4>4, <4>5 DEF OwnRows
      <4> QED
        BY <1>3, <2>1, <4>2, <4>3, <4>4, <4>6 DEF RowsInv
    <3> QED
      BY <3>1, <3>2, <3>3 DEF AloneInv
  <2>8. CaptureInv(c)'
    BY <1>1, <1>2, <2>2, <2>6, <2>7 DEF CaptureInv, Running
  <2> QED
    BY <1>2, <2>3, <2>4, <2>5, <2>6, <2>8, StepKeeps
<1>9. CASE /\ ~well
           /\ script' = [script EXCEPT ![c] = "clear1"] /\ UNCHANGED <<rowsOf, filling>>
  <2>1. TypeInv'
    BY <1>1, <1>2, <1>9 DEF TypeInv, Places, Raised
  <2>2. OthersKept(c)
    BY <1>1, <1>2, <1>9 DEF OthersKept, TypeInv
  <2>3. DiskInv'
    BY <1>1, <1>2, <1>9, DiskSame DEF TypeInv
  <2>4. Running(c) /\ Running(c)' /\ script'[c] = "clear1"
    BY <1>1, <1>2, <1>9 DEF TypeInv, Running
  <2>5. ~AloneInv(c)
    <3>1. ASSUME AloneInv(c) PROVE FALSE
      <4>1. q.there /\ q.has = {<<c, c>>} /\ row[c] # "none"
        BY <1>2, <3>1 DEF AloneInv, FileInv, PlaceInv, Filling, g, q
      <4> QED
        BY <1>1, <1>6, <1>9, <4>1
    <3> QED
      BY <3>1
  <2>6. CaptureInv(c)'
    BY <1>1, <1>2, <2>4, <2>5 DEF CaptureInv, Running
  <2> QED
    BY <1>2, <2>1, <2>2, <2>3, <2>4, <2>6, StepKeeps
<1> QED
  BY <1>2, <1>8, <1>9

LEMMA SetStatusKeeps ==
    ASSUME ScriptInv, NEW c \in Captures, SetStatus(c)
    PROVE  ScriptInv'
<1>1. TypeInv /\ RivalInv /\ DiskInv /\ CaptureInv(c)
  BY DEF ScriptInv
<1>2. /\ script[c] \in {"update", "report"}
      /\ script' = [script EXCEPT ![c] = IF script[c] = "update" THEN "clear0" ELSE "exit1"]
      /\ UNCHANGED <<filling, saw, rowsOf, folder, disk>>
      /\ \/ /\ row' = [row EXCEPT ![c] = IF row[c] = "none" THEN row[c]
                                         ELSE IF script[c] = "update" THEN "success" ELSE "failed"]
            /\ UNCHANGED excuse
         \/ excuse' = [excuse EXCEPT ![c] = @ \cup {"fault"}] /\ UNCHANGED row
  BY DEF SetStatus, Goto, Fault, Blame
<1>3. /\ script'[c] = (IF script[c] = "update" THEN "clear0" ELSE "exit1")
      /\ excuse[c] \subseteq excuse'[c]
      /\ excuse' \in [Captures -> SUBSET {"left", "rival", "row", "fault"}]
      /\ row' \in [Captures -> {"none", "processing", "success", "failed"}]
      /\ row'[c] = "none" => row[c] = "none"
      /\ script[c] = "update" /\ row[c] # "none" => row'[c] = "success" \/ "fault" \in excuse'[c]
      /\ \A d \in Captures \ {c} : script'[d] = script[d] /\ row'[d] = row[d] /\ excuse'[d] = excuse[d]
      /\ Running(c) /\ Running(c)'
  <2>1. /\ script'[c] = (IF script[c] = "update" THEN "clear0" ELSE "exit1")
        /\ \A d \in Captures \ {c} : script'[d] = script[d]
        /\ Running(c) /\ Running(c)'
    BY <1>1, <1>2 DEF TypeInv, Running
  <2>2. CASE UNCHANGED row /\ excuse' = [excuse EXCEPT ![c] = @ \cup {"fault"}]
    <3>1. excuse' \in [Captures -> SUBSET {"left", "rival", "row", "fault"}]
      BY <1>1, <2>2 DEF TypeInv
    <3>2. excuse'[c] = excuse[c] \cup {"fault"}
      BY <1>1, <2>2 DEF TypeInv
    <3> QED
      BY <1>1, <2>1, <2>2, <3>1, <3>2 DEF TypeInv
  <2>3. CASE UNCHANGED excuse /\ row' = [row EXCEPT ![c] =
                                       IF row[c] = "none" THEN row[c]
                                       ELSE IF script[c] = "update" THEN "success" ELSE "failed"]
    <3> DEFINE status == IF row[c] = "none" THEN row[c]
                         ELSE IF script[c] = "update" THEN "success" ELSE "failed"
    <3>1. /\ row[c] = "none" => status = "none"
          /\ row[c] # "none" /\ script[c] = "update" => status = "success"
          /\ row[c] # "none" /\ script[c] # "update" => status = "failed"
      OBVIOUS
    <3>2. row' = [row EXCEPT ![c] = status]
      BY <2>3
    <3> HIDE DEF status
    <3>3. row'[c] = status /\ \A d \in Captures \ {c} : row'[d] = row[d]
      BY <1>1, <3>2 DEF TypeInv
    <3>4. row' \in [Captures -> {"none", "processing", "success", "failed"}]
      BY <1>1, <3>1, <3>2 DEF TypeInv
    <3> QED
      BY <1>1, <2>1, <2>3, <3>1, <3>3, <3>4 DEF TypeInv
  <2> QED
    BY <1>2, <2>2, <2>3
<1>4. TypeInv'
  BY <1>1, <1>2, <1>3 DEF TypeInv, Places, Ending, Raised
<1>5. OthersKept(c)
  BY <1>2, <1>3 DEF OthersKept
<1>6. DiskInv'
  BY <1>1, <1>2, <1>3, DiskSame
<1>7. ASSUME AloneInv(c)
      PROVE  AloneInv(c)'
  <2>1. PlaceInv(c)'
    BY <1>2, <1>3, <1>7 DEF AloneInv, PlaceInv, Closed, Opening, Filling, Ending, Raised, Here
  <2>2. FileInv(c)'
    BY <1>2, <1>3 DEF FileInv, Opening, Filling
  <2>3. RowsInv(c)'
    BY <1>2, <1>3, <1>7 DEF AloneInv, RowsInv, OwnRows, Copied, Opening, Filling, Ending
  <2> QED
    BY <2>1, <2>2, <2>3 DEF AloneInv
<1>8. CaptureInv(c)'
  BY <1>1, <1>2, <1>3, <1>7 DEF CaptureInv, Running
<1> QED
  BY <1>3, <1>4, <1>5, <1>6, <1>8, StepKeeps

LEMMA BreakKeeps ==
    ASSUME ScriptInv, NEW c \in Captures, Break(c)
    PROVE  ScriptInv'
<1>1. TypeInv /\ RivalInv /\ DiskInv /\ CaptureInv(c) /\ SessionOf[c] \in Sessions /\ c \in Sources
  BY SameSession DEF ScriptInv, Sources
<1> DEFINE s == SessionOf[c]
<1>2. PICK part \in SUBSET {<<c, c>>} : disk' = [disk EXCEPT ![s] = Flush(disk[s], c, part)]
  BY DEF Break
<1> DEFINE ended == Flush(disk[s], c, part)
<1>3. /\ script[c] \in {"select", "tracing", "copy", "read"}
      /\ script' = [script EXCEPT ![c] = "clear1"]
      /\ excuse' = [excuse EXCEPT ![c] = @ \cup {"fault"}]
      /\ UNCHANGED <<filling, saw, rowsOf, folder, row>>
  BY DEF Break, Raise, Goto, Fault, Blame, scriptRest
<1>4. /\ ended \in [Outputs -> FileType]
      /\ \A f \in Outputs :
            /\ f \in Dats /\ c \in disk[s][f].open =>
                  /\ ended[f].there = disk[s][f].there
                  /\ ended[f].has = disk[s][f].has \cup part
                  /\ ended[f].open = disk[s][f].open \ {c}
            /\ ~(f \in Dats /\ c \in disk[s][f].open) => ended[f] = disk[s][f]
  <2>1. disk[s] \in [Outputs -> FileType] /\ part \in SUBSET (Sources \X Sources)
    BY <1>1 DEF TypeInv
  <2> QED
    BY ONLY <2>1, FlushShape
<1> HIDE DEF ended
<1>5. disk'[s] = ended /\ disk' \in [Sessions -> [Outputs -> FileType]]
      /\ \A t \in Sessions \ {s} : disk'[t] = disk[t]
  <2> DEFINE F == [Outputs -> FileType]
  <2>1. disk \in [Sessions -> F] /\ ended \in F /\ s \in Sessions
    BY <1>1, <1>4 DEF TypeInv
  <2>2. disk' = [disk EXCEPT ![s] = ended]
    BY <1>2 DEF ended
  <2> HIDE DEF F, s
  <2> QED
    BY <2>1, <2>2 DEF F
<1>6. /\ script'[c] = "clear1" /\ Running(c) /\ Running(c)'
      /\ excuse'[c] = excuse[c] \cup {"fault"}
      /\ excuse' \in [Captures -> SUBSET {"left", "rival", "row", "fault"}]
      /\ \A d \in Captures \ {c} : script'[d] = script[d] /\ excuse'[d] = excuse[d]
  BY <1>1, <1>3 DEF TypeInv, Running
<1>7. OwnDisk(c)
  <2>1. \A f \in Outputs : ended[f].has \subseteq disk[s][f].has \cup {<<c, c>>}
    BY <1>4
  <2> QED
    BY <1>5, <2>1 DEF OwnDisk
<1>8. TypeInv'
  BY <1>1, <1>3, <1>5, <1>6 DEF TypeInv, Places, Raised
<1>9. OthersKept(c)
  <2>1. ASSUME NEW d \in Captures \ {c}
        PROVE  /\ SessionOf[d] # SessionOf[c] =>
                     /\ folder'[SessionOf[d]] = folder[SessionOf[d]]
                     /\ disk'[SessionOf[d]] = disk[SessionOf[d]]
               /\ \A f \in Outputs, x \in Sources :
                     <<d, x>> \in disk'[SessionOf[d]][f].has =>
                        <<d, x>> \in disk[SessionOf[d]][f].has
    <3>1. CASE SessionOf[d] = SessionOf[c]
      BY <1>7, <3>1 DEF OwnDisk
    <3>2. CASE SessionOf[d] # SessionOf[c]
      BY <1>3, <1>7, <3>2, SameSession DEF OwnDisk
    <3> QED
      BY <3>1, <3>2
  <2> QED
    BY <1>3, <1>6, <2>1 DEF OthersKept
<1>10. DiskInv'
  <2>1. ASSUME NEW f \in Dats, NEW d \in Captures, d \in disk'[s][f].open
        PROVE  SessionOf[d] = s /\ script'[d] = "tracing"
    <3>1. f \in Outputs
      BY NamesShape
    <3>2. d # c /\ d \in disk[s][f].open
      BY <1>4, <1>5, <2>1, <3>1
    <3> QED
      BY <1>1, <1>6, <3>2 DEF DiskInv
  <2>2. ~folder[s] => disk'[s] = disk[s]
    <3>1. ASSUME ~folder[s] PROVE ended = disk[s]
      <4>1. disk[s] = EmptyFolder
        BY <1>1, <3>1 DEF DiskInv
      <4>2. \A f \in Outputs : disk[s][f].open = {}
        BY <4>1 DEF EmptyFolder, NoFile
      <4>3. \A f \in Outputs : ended[f] = disk[s][f]
        BY <1>4, <4>2
      <4>4. disk[s] \in [Outputs -> FileType]
        BY <1>1 DEF TypeInv
      <4> QED
        BY <1>4, <4>3, <4>4
    <3> QED
      BY <1>5, <3>1
  <2> QED
    BY <1>1, <1>3, <1>6, <1>7, <2>1, <2>2, OwnDiskKept
<1>11. ASSUME AloneInv(c)
       PROVE  AloneInv(c)'
  <2>1. PlaceInv(c)'
    BY <1>3, <1>6, <1>11 DEF AloneInv, PlaceInv, Closed, Opening, Filling, Ending, Raised
  <2>2. FileInv(c)'
    BY <1>6 DEF FileInv, Opening, Filling
  <2>3. RowsInv(c)'
    BY <1>3, <1>6, <1>11 DEF AloneInv, RowsInv, OwnRows, Opening, Filling, Ending
  <2> QED
    BY <2>1, <2>2, <2>3 DEF AloneInv
<1>12. CaptureInv(c)'
  BY <1>1, <1>6, <1>11 DEF CaptureInv, Running
<1> QED
  BY <1>6, <1>8, <1>9, <1>10, <1>12, StepKeeps

LEMMA ClearKeeps ==
    ASSUME ScriptInv, NEW c \in Captures, Clear(c)
    PROVE  ScriptInv'
<1>1. TypeInv /\ RivalInv /\ DiskInv /\ CaptureInv(c) /\ SessionOf[c] \in Sessions
  BY SameSession DEF ScriptInv
<1> DEFINE s == SessionOf[c]
<1>2. /\ script[c] \in {"clear0", "clear1"}
      /\ UNCHANGED <<filling, saw, rowsOf, folder, excuse, row>>
      /\ \E x \in {"exit0", "report", "rmdir0", "rmdir1", "exit1"} :
            /\ script' = [script EXCEPT ![c] = x]
            /\ \/ /\ x = (IF script[c] = "clear0" THEN "rmdir0" ELSE "rmdir1")
                  /\ folder[s] /\ disk' = [disk EXCEPT ![s] = EmptyFolder]
               \/ /\ ~folder[s] \/ Rivals(c) # {}
                  /\ UNCHANGED disk
  BY DEF Clear, Goto, scriptRest
<1>3. EmptyFolder \in [Outputs -> FileType]
        /\ \A f \in Outputs : EmptyFolder[f].open = {} /\ EmptyFolder[f].has = {}
  BY DEF EmptyFolder, NoFile, FileType
<1>4. /\ disk' \in [Sessions -> [Outputs -> FileType]]
      /\ \A t \in Sessions \ {s} : disk'[t] = disk[t]
      /\ disk'[s] = EmptyFolder \/ disk' = disk
  <2> DEFINE F == [Outputs -> FileType]
  <2>1. disk \in [Sessions -> F] /\ EmptyFolder \in F /\ s \in Sessions
    BY <1>1, <1>3 DEF TypeInv
  <2>2. disk' = [disk EXCEPT ![s] = EmptyFolder] \/ disk' = disk
    BY <1>2
  <2> HIDE DEF F, s
  <2> QED
    BY <2>1, <2>2 DEF F
<1>5. /\ script' \in [Captures -> Places] /\ Running(c) /\ Running(c)'
      /\ script'[c] \notin {"read", "tracing"}
      /\ \A d \in Captures \ {c} : script'[d] = script[d]
  BY <1>1, <1>2 DEF TypeInv, Places, Ending, Raised, Running
<1>6. OwnDisk(c)
  BY <1>3, <1>4 DEF OwnDisk
<1>7. TypeInv'
  BY <1>1, <1>2, <1>4, <1>5 DEF TypeInv
<1>8. OthersKept(c)
  BY <1>2, <1>5, <1>6, OwnDiskOthers
<1>9. DiskInv'
  <2>1. ASSUME NEW f \in Dats, NEW d \in Captures, d \in disk'[s][f].open
        PROVE  SessionOf[d] = s /\ script'[d] = "tracing"
    <3>1. f \in Outputs
      BY NamesShape
    <3>2. disk' = disk
      BY <1>3, <1>4, <2>1, <3>1
    <3>3. SessionOf[d] = s /\ script[d] = "tracing"
      BY <1>1, <2>1, <3>2 DEF DiskInv
    <3> QED
      BY <1>2, <1>5, <3>3
  <2>2. ~folder[s] => disk'[s] = disk[s]
    BY <1>2
  <2> QED
    BY <1>1, <1>2, <1>5, <1>6, <2>1, <2>2, OwnDiskKept
<1>10. ASSUME AloneInv(c), "rival" \notin excuse[c]
       PROVE  AloneInv(c)'
  <2>0. /\ folder[s] /\ Rivals(c) = {}
    BY <1>2, <1>5, <1>10, AloneShape DEF AloneInv, PlaceInv, Closed
  <2>1. /\ script'[c] = (IF script[c] = "clear0" THEN "rmdir0" ELSE "rmdir1")
        /\ disk'[s] = EmptyFolder
    BY <1>1, <1>2, <2>0 DEF TypeInv
  <2>2. PlaceInv(c)'
    BY <1>2, <1>10, <2>0, <2>1 DEF AloneInv, PlaceInv, Closed, Opening, Filling, Ending, Raised, Here
  <2>3. FileInv(c)'
    BY <1>2, <2>1 DEF FileInv, Opening, Filling
  <2>4. RowsInv(c)'
    BY <1>2, <1>10, <2>1 DEF AloneInv, RowsInv, OwnRows, Copied, Opening, Filling, Ending
  <2> QED
    BY <2>2, <2>3, <2>4 DEF AloneInv
<1>11. CaptureInv(c)'
  BY <1>1, <1>2, <1>5, <1>10 DEF CaptureInv, Running
<1> QED
  BY <1>2, <1>5, <1>7, <1>8, <1>9, <1>11, StepKeeps

LEMMA RemoveDirKeeps ==
    ASSUME ScriptInv, NEW c \in Captures, RemoveDir(c)
    PROVE  ScriptInv'
<1>1. TypeInv /\ RivalInv /\ DiskInv /\ CaptureInv(c) /\ SessionOf[c] \in Sessions
  BY SameSession DEF ScriptInv
<1> DEFINE s == SessionOf[c]
<1>2. /\ script[c] \in {"rmdir0", "rmdir1"}
      /\ UNCHANGED <<filling, saw, rowsOf, disk, excuse, row>>
      /\ \/ /\ folder[s] /\ disk[s] = EmptyFolder
            /\ folder' = [folder EXCEPT ![s] = FALSE]
            /\ script' = [script EXCEPT ![c] = IF script[c] = "rmdir0" THEN "exit0" ELSE "report"]
         \/ /\ ~(folder[s] /\ disk[s] = EmptyFolder)
            /\ script' = [script EXCEPT ![c] = "exit1"] /\ UNCHANGED folder
  BY DEF RemoveDir, Goto, scriptRest
<1>3. /\ folder' \in [Sessions -> BOOLEAN]
      /\ \A t \in Sessions \ {s} : folder'[t] = folder[t]
      /\ ~folder'[s] => disk[s] = EmptyFolder
  <2>1. ~folder[s] => disk[s] = EmptyFolder
    BY <1>1 DEF DiskInv
  <2>2. CASE disk[s] = EmptyFolder /\ folder' = [folder EXCEPT ![s] = FALSE]
    BY <1>1, <2>2 DEF TypeInv
  <2>3. CASE UNCHANGED folder
    BY <1>1, <2>1, <2>3 DEF TypeInv
  <2> QED
    BY <1>2, <2>2, <2>3
<1>4. /\ script' \in [Captures -> Places] /\ Running(c) /\ Running(c)'
      /\ script'[c] \notin {"read", "tracing"}
      /\ \A d \in Captures \ {c} : script'[d] = script[d]
  BY <1>1, <1>2 DEF TypeInv, Places, Ending, Raised, Running
<1>5. TypeInv'
  BY <1>1, <1>2, <1>3, <1>4 DEF TypeInv
<1>6. OthersKept(c)
  BY <1>2, <1>3, <1>4, SameSession DEF OthersKept
<1>7. DiskInv'
  <2>1. \A t \in Sessions : ~folder'[t] => disk[t] = EmptyFolder
    BY <1>1, <1>3 DEF DiskInv
  <2>2. \A d \in Captures : script[d] = "tracing" => script'[d] = "tracing"
    BY <1>2, <1>4
  <2> QED
    BY <1>1, <1>2, <2>1, <2>2 DEF DiskInv
<1>8. ASSUME AloneInv(c)
      PROVE  AloneInv(c)'
  <2>1. /\ script'[c] = (IF script[c] = "rmdir0" THEN "exit0" ELSE "report")
        /\ ~folder'[s]
    BY <1>1, <1>2, <1>8 DEF AloneInv, PlaceInv, Closed, TypeInv, Here
  <2>2. PlaceInv(c)'
    BY <1>2, <1>8, <2>1 DEF AloneInv, PlaceInv, Closed, Opening, Filling, Ending, Raised, Here
  <2>3. FileInv(c)'
    BY <1>2, <2>1 DEF FileInv, Opening, Filling
  <2>4. RowsInv(c)'
    BY <1>2, <1>8, <2>1 DEF AloneInv, RowsInv, OwnRows, Copied, Opening, Filling, Ending
  <2> QED
    BY <2>2, <2>3, <2>4 DEF AloneInv
<1>9. CaptureInv(c)'
  BY <1>1, <1>2, <1>4, <1>8 DEF CaptureInv, Running
<1> QED
  BY <1>2, <1>4, <1>5, <1>6, <1>7, <1>9, StepKeeps

LEMMA AnswerKeeps ==
    ASSUME ScriptInv, NEW c \in Captures, Answer(c)
    PROVE  ScriptInv'
<1>1. TypeInv /\ RivalInv /\ DiskInv /\ CaptureInv(c) /\ SessionOf[c] \in Sessions /\ c \in Sources
  BY SameSession DEF ScriptInv, Sources
<1>2. /\ UNCHANGED <<filling, saw, folder, disk, excuse>>
      /\ \/ /\ script[c] = "exit0" /\ script' = [script EXCEPT ![c] = "done"]
            /\ UNCHANGED <<row, rowsOf>>
         \/ /\ script[c] = "exit1"
            /\ \E x \in {"waiting", "failed"} : script' = [script EXCEPT ![c] = x]
            /\ row' = [row EXCEPT ![c] = "none"]
            /\ rowsOf' = [k \in Tables |-> [r \in Rows |-> IF r[1] = c THEN 0 ELSE rowsOf[k][r]]]
  BY DEF Answer, Goto
<1>3. /\ script' \in [Captures -> Places] /\ Running(c) /\ ~Running(c)'
      /\ script[c] # "tracing" /\ script'[c] # "read"
      /\ \A d \in Captures \ {c} : script'[d] = script[d] /\ row'[d] = row[d]
      /\ row' \in [Captures -> {"none", "processing", "success", "failed"}]
  BY <1>1, <1>2 DEF TypeInv, Places, Running
<1>4. /\ rowsOf' \in [Tables -> [Rows -> Nat]]
      /\ \A d \in Captures \ {c}, k \in Tables, x \in Sources :
            rowsOf'[k][<<d, x>>] = rowsOf[k][<<d, x>>]
  <2>1. CASE UNCHANGED rowsOf
    BY <1>1, <2>1 DEF TypeInv
  <2>2. CASE rowsOf' = [k \in Tables |-> [r \in Rows |-> IF r[1] = c THEN 0 ELSE rowsOf[k][r]]]
    BY <1>1, <2>2 DEF TypeInv, Rows, Sources
  <2> QED
    BY <1>2, <2>1, <2>2
<1>5. TypeInv'
  BY <1>1, <1>2, <1>3, <1>4 DEF TypeInv
<1>6. OthersKept(c)
  BY <1>2, <1>3, <1>4 DEF OthersKept
<1>7. DiskInv'
  BY <1>1, <1>2, <1>3, DiskSame
<1>8. RivalInv'
  <2>1. \A d \in Captures : Running(d)' => Running(d)
    BY <1>3 DEF Running
  <2> QED
    BY <1>1, <1>2, <2>1 DEF RivalInv
<1>9. CaptureInv(c)'
  <2>1. CASE script[c] = "exit0"
    <3>1. script'[c] = "done" /\ UNCHANGED <<row, rowsOf>>
      BY <1>1, <1>2, <2>1 DEF TypeInv
    <3>2. ASSUME "rival" \notin excuse[c] PROVE DoneInv(c)'
      <4>1. AloneInv(c)
        BY <1>3, <3>2, AloneShape
      <4>2. OwnRows(c)' /\ \A k \in Tables : rowsOf'[k][<<c, c>>] = 1
        BY <2>1, <3>1, <4>1 DEF AloneInv, RowsInv, OwnRows, Copied, Opening, Filling, Ending
      <4>3. row'[c] = "success" \/ "fault" \in excuse'[c]
        BY <1>2, <2>1, <3>1, <4>1 DEF AloneInv, PlaceInv, Ending
      <4>4. Here(c)' = EmptyFolder
        BY <1>1, <1>2, <2>1, <4>1 DEF AloneInv, PlaceInv, Closed, DiskInv, Here
      <4> QED
        BY <4>2, <4>3, <4>4 DEF DoneInv, EmptyFolder, NoFile
    <3> QED
      BY <1>2, <3>1, <3>2 DEF CaptureInv, Running
  <2>2. CASE script[c] = "exit1"
    <3>1. script'[c] \in {"waiting", "failed"} /\ row'[c] = "none"
      BY <1>1, <1>2, <2>2 DEF TypeInv
    <3>2. \A k \in Tables, x \in Sources : rowsOf'[k][<<c, x>>] = 0
      BY <1>1, <1>2, <2>2 DEF Rows, Sources
    <3> QED
      BY <3>1, <3>2 DEF CaptureInv, IdleInv, Running
  <2> QED
    BY <1>2, <2>1, <2>2
<1>10. \A d \in Captures : CaptureInv(d)'
  BY <1>3, <1>6, <1>8, <1>9, OtherCaptures
<1> QED
  BY <1>5, <1>7, <1>8, <1>10 DEF ScriptInv

-----------------------------------------------------------------------------
(* The invariant holds of every state.                                     *)

LEMMA ScriptBegins ==
    ASSUME ScriptInit
    PROVE  ScriptInv
<1>1. LeftOver \notin Captures /\ LeftOver \in Sources /\ Captures \subseteq Sources
  BY ScriptAssumption DEF Sources
<1>2. /\ script = [c \in Captures |-> "waiting"]
      /\ filling = [c \in Captures |-> "flow"]
      /\ saw = [c \in Captures |-> {}]
      /\ row = [c \in Captures |-> "none"]
      /\ rowsOf = [k \in Tables |-> [r \in Rows |-> 0]]
      /\ folder \in [Sessions -> BOOLEAN]
      /\ disk = [s \in Sessions |-> IF folder[s] THEN LeftFolder ELSE EmptyFolder]
      /\ excuse = [c \in Captures |-> {}]
  BY DEF ScriptInit
<1>3. EmptyFolder \in [Outputs -> FileType] /\ LeftFolder \in [Outputs -> FileType]
  <2>1. NoFile \in FileType
    BY DEF NoFile, FileType
  <2>2. \A f \in Outputs :
           [there |-> TRUE, has |-> {<<LeftOver, LeftOver>>}, locked |-> f \notin Dats,
            open |-> {}] \in FileType
    <3>1. {<<LeftOver, LeftOver>>} \in SUBSET (Sources \X Sources)
      BY <1>1
    <3> QED
      BY <3>1 DEF FileType
  <2> QED
    BY <2>1, <2>2 DEF EmptyFolder, LeftFolder
<1>4. \A s \in Sessions, f \in Outputs :
         /\ disk[s][f].open = {}
         /\ disk[s][f].has \subseteq {<<LeftOver, LeftOver>>}
  <2>1. \A f \in Outputs : EmptyFolder[f].open = {} /\ EmptyFolder[f].has = {}
    BY DEF EmptyFolder, NoFile
  <2>2. \A f \in Outputs : LeftFolder[f].open = {} /\ LeftFolder[f].has = {<<LeftOver, LeftOver>>}
    BY DEF LeftFolder
  <2> QED
    BY <1>2, <2>1, <2>2
<1>5. TypeInv
  <2>1. disk \in [Sessions -> [Outputs -> FileType]]
    BY <1>2, <1>3
  <2>2. rowsOf \in [Tables -> [Rows -> Nat]]
    BY <1>2
  <2>3. "waiting" \in Places /\ "flow" \in Tables
    BY DEF Places, Tables
  <2> QED
    BY <1>2, <2>1, <2>2, <2>3 DEF TypeInv
<1>6. DiskInv
  <2>1. \A s \in Sessions : ~folder[s] => disk[s] = EmptyFolder
    BY <1>2
  <2>2. \A s \in Sessions, f \in Outputs, c \in Captures, x \in Sources :
           <<c, x>> \notin disk[s][f].has
    BY <1>1, <1>4
  <2>3. Dats \subseteq Outputs
    BY DEF Outputs
  <2> QED
    BY <1>4, <2>1, <2>2, <2>3 DEF DiskInv
<1>7. ASSUME NEW c \in Captures
      PROVE  ~Running(c) /\ CaptureInv(c)
  <2>1. script[c] = "waiting" /\ row[c] = "none"
    BY <1>2
  <2>2. \A k \in Tables, x \in Sources : rowsOf[k][<<c, x>>] = 0
    BY <1>2 DEF Rows, Sources
  <2> QED
    BY <2>1, <2>2 DEF Running, CaptureInv, IdleInv
<1> QED
  BY <1>5, <1>6, <1>7 DEF ScriptInv, RivalInv

LEMMA ScriptInvHolds == ScriptSpec => []ScriptInv
<1>1. ScriptInit => ScriptInv
  BY ScriptBegins
<1>2. ScriptInv /\ [ScriptNext]_scriptVars => ScriptInv'
  <2> SUFFICES ASSUME ScriptInv, [ScriptNext]_scriptVars
               PROVE  ScriptInv'
    OBVIOUS
  <2>1. CASE UNCHANGED scriptVars
    <3>1. TypeInv' /\ RivalInv' /\ DiskInv'
      BY <2>1 DEF scriptVars, ScriptInv, TypeInv, RivalInv, DiskInv, Running
    <3>2. \A d \in Captures : Same(d)
      BY <2>1 DEF scriptVars, Same
    <3>3. \A d \in Captures : CaptureInv(d)'
      BY <3>2, SameKept DEF ScriptInv
    <3> QED
      BY <3>1, <3>3 DEF ScriptInv
  <2>2. ASSUME NEW c \in Captures,
               \/ Call(c) \/ Exists(c) \/ MakeDir(c) \/ SelectPcap(c) \/ CallTCPTrace(c)
               \/ EndTrace(c) \/ ReadDat(c) \/ OpenCsv(c) \/ CloseCsv(c) \/ Copy(c)
               \/ SetStatus(c) \/ Break(c) \/ Clear(c) \/ RemoveDir(c) \/ Answer(c)
        PROVE  ScriptInv'
    BY <2>2, CallKeeps, ExistsKeeps, MakeDirKeeps, SelectPcapKeeps, CallTCPTraceKeeps,
       EndTraceKeeps, ReadDatKeeps, OpenCsvKeeps, CloseCsvKeeps, CopyKeeps, SetStatusKeeps,
       BreakKeeps, ClearKeeps, RemoveDirKeeps, AnswerKeeps
  <2> QED
    BY <2>1, <2>2 DEF ScriptNext
<1> QED
  BY <1>1, <1>2, PTL DEF ScriptSpec

(***************************************************************************)
(* What no other script of the session has disturbed is right, whatever an *)
(* interrupted one has left behind (main.py:162-213): a capture has its    *)
(* own rows and no others, each once, all of them when its script ended    *)
(* well; no attempt fails for a reason of its own; and none leaves a       *)
(* folder behind.                                                          *)
(***************************************************************************)
THEOREM UndisturbedCapturesAreRight == ScriptSpec => []CapturesAreKeptApart
<1>1. ScriptInv => CapturesAreKeptApart
  <2> DEFINE Apart(c) ==
        /\ \A k \in Tables, r \in Rows : r[1] = c /\ rowsOf[k][r] > 0 =>
              r[2] = c /\ rowsOf[k][r] = 1
        /\ script[c] = "done" =>
              /\ \A k \in Tables : rowsOf[k][<<c, c>>] = 1
              /\ row[c] = "success" \/ "fault" \in excuse[c]
        /\ script[c] = "exit1" => excuse[c] # {}
        /\ script[c] \in {"exit0", "exit1"} => ~folder[SessionOf[c]]
  <2>1. ASSUME ScriptInv, NEW c \in Captures, "rival" \notin excuse[c]
        PROVE  Apart(c)
    <3>1. CaptureInv(c)
      BY <2>1 DEF ScriptInv
    <3>2. OwnRows(c)
      <4>1. IdleInv(c) => OwnRows(c)
        BY DEF IdleInv, OwnRows
      <4> QED
        BY <2>1, <3>1, <4>1 DEF CaptureInv, DoneInv, AloneInv, RowsInv, Running
    <3>3. \A k \in Tables, r \in Rows : r[1] = c /\ rowsOf[k][r] > 0 => r[2] = c /\ rowsOf[k][r] = 1
      <4> SUFFICES ASSUME NEW k \in Tables, NEW r \in Rows, r[1] = c, rowsOf[k][r] > 0
                   PROVE  r[2] = c /\ rowsOf[k][r] = 1
        OBVIOUS
      <4>1. r = <<c, r[2]>> /\ r[2] \in Sources
        BY DEF Rows, Sources
      <4> QED
        BY <3>2, <4>1 DEF OwnRows
    <3>4. script[c] = "done" => DoneInv(c)
      BY <2>1, <3>1 DEF CaptureInv
    <3>5. script[c] \in {"exit0", "exit1"} => PlaceInv(c)
      BY <2>1, <3>1 DEF CaptureInv, AloneInv, Running
    <3>6. script[c] = "exit1" => excuse[c] # {}
      BY <3>5 DEF PlaceInv, Raised
    <3>7. script[c] \in {"exit0", "exit1"} => ~folder[SessionOf[c]]
      BY <3>5 DEF PlaceInv, Closed
    <3>8. script[c] = "done" =>
             /\ \A k \in Tables : rowsOf[k][<<c, c>>] = 1
             /\ row[c] = "success" \/ "fault" \in excuse[c]
      BY <3>4 DEF DoneInv
    <3> QED
      BY <3>3, <3>6, <3>7, <3>8
  <2> QED
    BY <2>1, Zenon DEF CapturesAreKeptApart
<1> QED
  BY <1>1, ScriptInvHolds, PTL

-----------------------------------------------------------------------------
(* Pools: no two records share memory, and none lies outside its buffer,    *)
(* whatever the sizes of records and pages and however many are alive.     *)

Block == (Nat \ {0}) \X (Nat \ {0})
PoolSet == [list : Seq(Block), block_no : Nat, sizes : Seq(Nat \ {0})]

Distinct(s) == \A i, j \in 1..Len(s) : s[i] = s[j] => i = j
Apart(s, t) == \A i \in 1..Len(s), j \in 1..Len(t) : s[i] # t[j]

\* The blocks of s lie in buffers the pool has.
MadeBy(pool, s) == \A i \in 1..Len(s) : s[i][1] <= Len(pool.sizes)

\* The inductive invariant of one pool and of the blocks h its users hold: a
\* block that is not whole stays behind those the count allows to hand out.
PoolInv(pool, h) ==
  /\ pool \in PoolSet /\ h \in Seq(Block)
  /\ MadeBy(pool, pool.list) /\ MadeBy(pool, h)
  /\ Distinct(pool.list) /\ Distinct(h) /\ Apart(h, pool.list)
  /\ pool.block_no <= Len(pool.list)
  /\ \A i \in 1..pool.block_no : Whole(pool, pool.list[i])
  /\ \A i \in 1..Len(h) : Whole(pool, h[i])

PoolsInv ==
  /\ pools \in [Kinds -> {<<p>> : p \in PoolSet} \cup {<< >>}]
  /\ held \in [Kinds -> Seq(Block)]
  /\ \A k \in Kinds : IF pools[k] = << >> THEN held[k] = << >>
                      ELSE PoolInv(pools[k][1], held[k])

\* Appending, prepending and removing keep the blocks of a sequence distinct.
LEMMA ConcatDistinct ==
  ASSUME NEW s \in Seq(Block), NEW t \in Seq(Block), Distinct(s), Distinct(t), Apart(s, t)
  PROVE  Distinct(s \o t)
<1> SUFFICES ASSUME NEW i \in 1..Len(s \o t), NEW j \in 1..Len(s \o t),
                    (s \o t)[i] = (s \o t)[j]
             PROVE  i = j
  BY DEF Distinct
<1>1. /\ Len(s \o t) = Len(s) + Len(t) /\ Len(s) \in Nat /\ Len(t) \in Nat
      /\ \A n \in 1..(Len(s) + Len(t)) :
             (s \o t)[n] = IF n <= Len(s) THEN s[n] ELSE t[n - Len(s)]
  BY ConcatProperties, LenProperties
<1> QED
  BY <1>1 DEF Distinct, Apart

LEMMA RemoveElements ==
  ASSUME NEW s \in Seq(Block), NEW i \in 1..Len(s)
  PROVE  /\ RemoveAt(s, i) \in Seq(Block)
         /\ Len(RemoveAt(s, i)) = Len(s) - 1
         /\ \A j \in 1..(Len(s) - 1) :
                RemoveAt(s, i)[j] = s[IF j < i THEN j ELSE j + 1]
<1> DEFINE u == SubSeq(s, 1, i - 1)
           v == SubSeq(s, i + 1, Len(s))
<1>1. /\ u \in Seq(Block) /\ Len(u) = i - 1
      /\ \A n \in 1..(i - 1) : u[n] = s[n]
  BY SubSeqProperties
<1>2. /\ v \in Seq(Block) /\ Len(v) = Len(s) - i
      /\ \A n \in 1..(Len(s) - i) : v[n] = s[n + i]
  BY SubSeqProperties
<1>3. RemoveAt(s, i) = u \o v /\ Len(s) \in Nat
  BY LenProperties DEF RemoveAt
<1> HIDE DEF u, v
<1>4. /\ u \o v \in Seq(Block) /\ Len(u \o v) = Len(u) + Len(v)
      /\ \A n \in 1..(Len(u) + Len(v)) :
             (u \o v)[n] = IF n <= Len(u) THEN u[n] ELSE v[n - Len(u)]
  BY <1>1, <1>2, ConcatProperties
<1>5. ASSUME NEW n \in 1..(Len(s) - 1)
      PROVE  (u \o v)[n] = s[IF n < i THEN n ELSE n + 1]
  <2>1. CASE n < i
    BY <1>1, <1>2, <1>3, <1>4, <2>1
  <2>2. CASE ~(n < i)
    <3>1. n - (i - 1) \in 1..(Len(s) - i)
      BY <1>3, <2>2
    <3>2. (u \o v)[n] = v[n - (i - 1)]
      BY <1>1, <1>2, <1>3, <1>4, <2>2
    <3> QED
      BY <1>2, <1>3, <2>2, <3>1, <3>2
  <2> QED
    BY <2>1, <2>2
<1> QED
  BY <1>1, <1>2, <1>3, <1>4, <1>5

\* A new buffer: its blocks are new ones, and as many as its size are whole.
LEMMA MakeListBlocks ==
  ASSUME NEW b \in Nat \ {0}, NEW n \in Nat \ {0}
  PROVE  /\ MakeList(b, n) \in Seq(Block) /\ Len(MakeList(b, n)) >= n
         /\ Distinct(MakeList(b, n))
         /\ \A i \in 1..Len(MakeList(b, n)) : MakeList(b, n)[i] = <<b, i>>
BY DEF MakeList, Block, Distinct

LEMMA VallocFields ==
  ASSUME NEW pool \in PoolSet, NEW n \in Nat \ {0}
  PROVE  /\ PoolValloc(pool, n) \in PoolSet
         /\ PoolValloc(pool, n).list = pool.list
         /\ PoolValloc(pool, n).block_no = pool.block_no + n
         /\ PoolValloc(pool, n).sizes = Append(pool.sizes, n)
<1>1. Append(pool.sizes, n) \in Seq(Nat \ {0}) /\ pool.block_no + n \in Nat
  BY AppendProperties DEF PoolSet
<1> QED
  BY <1>1 DEF PoolValloc, PoolSet

LEMMA ReallocKeeps ==
  ASSUME NEW pool, NEW h, PoolInv(pool, h), pool.block_no = 0, NEW k \in Kinds
  PROVE  /\ PoolInv(PoolRealloc(pool, k), h)
         /\ PoolRealloc(pool, k).block_no >= 1
<1> DEFINE n == PerPage[k]
           more == PoolValloc(pool, n)
           new == MakeList(Len(more.sizes), n)
           after == PoolRealloc(pool, k)
<1>1. n \in Nat \ {0} /\ pool \in PoolSet /\ h \in Seq(Block)
  BY PoolAssumption DEF PoolInv
<1>2. /\ more.list = pool.list /\ more.block_no = n
      /\ more.sizes = Append(pool.sizes, n) /\ more \in PoolSet
  <2>1. /\ more.list = pool.list /\ more.block_no = pool.block_no + n
        /\ more.sizes = Append(pool.sizes, n) /\ more \in PoolSet
    <3> HIDE DEF n
    <3> QED
      BY <1>1, VallocFields
  <2> QED
    BY <1>1, <2>1
<1>3. /\ Len(more.sizes) = Len(pool.sizes) + 1 /\ more.sizes[Len(pool.sizes) + 1] = n
      /\ \A i \in 1..Len(pool.sizes) : more.sizes[i] = pool.sizes[i]
      /\ Len(pool.sizes) \in Nat
  BY <1>1, <1>2, AppendProperties, LenProperties DEF PoolSet
<1>4. /\ after.list = new \o pool.list /\ after.block_no = n
      /\ after.sizes = more.sizes
  BY <1>2 DEF PoolRealloc, PoolInsertList, PoolSet
<1>5. /\ new \in Seq(Block) /\ Len(new) >= n /\ Distinct(new) /\ Len(new) \in Nat
      /\ \A i \in 1..Len(new) : new[i] = <<Len(pool.sizes) + 1, i>>
  <2>1. Len(more.sizes) \in Nat \ {0}
    BY <1>3
  <2>2. /\ new \in Seq(Block) /\ Len(new) >= n /\ Distinct(new)
        /\ \A i \in 1..Len(new) : new[i] = <<Len(more.sizes), i>>
    BY <1>1, <2>1, MakeListBlocks
  <2> QED
    BY <1>3, <2>2, LenProperties
<1> HIDE DEF n, new
<1>6. Apart(new, pool.list) /\ Apart(h, new)
  <2>1. \A i \in 1..Len(new) : new[i][1] = Len(pool.sizes) + 1
    BY <1>5
  <2>2. /\ \A i \in 1..Len(pool.list) : pool.list[i][1] # Len(pool.sizes) + 1
        /\ \A i \in 1..Len(h) : h[i][1] # Len(pool.sizes) + 1
    <3>1. \A i \in 1..Len(pool.list) : pool.list[i] \in Block
      BY <1>1, LenProperties DEF PoolSet
    <3>2. \A i \in 1..Len(h) : h[i] \in Block
      BY <1>1, LenProperties
    <3>3. \A b \in Block : b[1] <= Len(pool.sizes) => b[1] # Len(pool.sizes) + 1
      BY <1>3 DEF Block
    <3>4. MadeBy(pool, pool.list) /\ MadeBy(pool, h)
      BY DEF PoolInv
    <3> QED
      BY <3>1, <3>2, <3>3, <3>4 DEF MadeBy
  <2> QED
    BY <2>1, <2>2 DEF Apart
<1>7. /\ new \o pool.list \in Seq(Block) /\ Len(new \o pool.list) = Len(new) + Len(pool.list)
      /\ \A i \in 1..(Len(new) + Len(pool.list)) :
             (new \o pool.list)[i] = IF i <= Len(new) THEN new[i] ELSE pool.list[i - Len(new)]
      /\ Len(pool.list) \in Nat
  BY <1>1, <1>5, ConcatProperties, LenProperties DEF PoolSet
<1>8. Distinct(new \o pool.list) /\ Apart(h, new \o pool.list)
  <2>1. Distinct(new \o pool.list)
    BY <1>1, <1>5, <1>6, ConcatDistinct DEF PoolInv, PoolSet
  <2>2. Apart(h, new \o pool.list)
    BY <1>5, <1>6, <1>7 DEF Apart, PoolInv
  <2> QED
    BY <2>1, <2>2
<1>9. MadeBy(after, after.list) /\ MadeBy(after, h)
  <2>1. /\ \A i \in 1..Len(pool.list) : /\ pool.list[i][1] <= Len(pool.sizes)
                                         /\ pool.list[i][1] \in Nat
        /\ \A i \in 1..Len(h) : /\ h[i][1] <= Len(pool.sizes)
                                /\ h[i][1] \in Nat
    BY <1>1, LenProperties DEF PoolInv, MadeBy, PoolSet, Block
  <2>2. \A i \in 1..Len(h) : h[i][1] <= Len(pool.sizes) + 1
    BY <1>3, <2>1
  <2>3. ASSUME NEW i \in 1..(Len(new) + Len(pool.list))
        PROVE  (new \o pool.list)[i][1] <= Len(pool.sizes) + 1
    <3>1. CASE i <= Len(new)
      BY <1>3, <1>5, <1>7, <3>1
    <3>2. CASE ~(i <= Len(new))
      <4>1. i - Len(new) \in 1..Len(pool.list)
        BY <1>5, <1>7, <3>2
      <4>2. (new \o pool.list)[i] = pool.list[i - Len(new)]
        BY <1>7, <3>2
      <4> QED
        BY <1>3, <2>1, <4>1, <4>2
    <3> QED
      BY <3>1, <3>2
  <2> QED
    BY <1>3, <1>4, <1>7, <2>2, <2>3 DEF MadeBy
<1>10. \A i \in 1..n : Whole(after, after.list[i])
  BY <1>1, <1>2, <1>3, <1>4, <1>5, <1>7 DEF Whole, NullBlock
<1>11. \A i \in 1..Len(h) : Whole(after, h[i])
  BY <1>1, <1>2, <1>3, <1>4, SMTT(30) DEF Whole, PoolInv, MadeBy, Block
<1>12. after \in PoolSet
  BY <1>1, <1>2, <1>4, <1>7 DEF PoolRealloc, PoolInsertList, PoolSet, new, n
<1> QED
  BY <1>1, <1>4, <1>5, <1>7, <1>8, <1>9, <1>10, <1>11, <1>12 DEF PoolInv

\* The first free block is taken: it is whole, and nobody else's.
LEMMA TakeKeeps ==
  ASSUME NEW pool, NEW h, PoolInv(pool, h), pool.block_no >= 1
  PROVE  /\ pool.list # << >>
         /\ PoolInv([pool EXCEPT !.list = Tail(@), !.block_no = @ - 1],
                    Append(h, Head(pool.list)))
<1> DEFINE l == pool.list
           after == [pool EXCEPT !.list = Tail(@), !.block_no = @ - 1]
           g == Append(h, Head(l))
<1>1. /\ pool \in PoolSet /\ h \in Seq(Block) /\ l \in Seq(Block) /\ Len(l) >= 1
      /\ Len(l) \in Nat /\ Len(h) \in Nat /\ pool.block_no \in Nat
  BY LenProperties DEF PoolInv, PoolSet
<1>2. l # << >>
  BY <1>1, EmptySeq
<1>3. /\ Head(l) = l[1] /\ l[1] \in Block /\ Tail(l) \in Seq(Block)
      /\ Len(Tail(l)) = Len(l) - 1
      /\ \A i \in 1..(Len(l) - 1) : Tail(l)[i] = l[i + 1]
  BY <1>1, <1>2, HeadTailProperties
<1>4. /\ g \in Seq(Block) /\ Len(g) = Len(h) + 1 /\ g[Len(h) + 1] = l[1]
      /\ \A i \in 1..Len(h) : g[i] = h[i]
  BY <1>1, <1>3, AppendProperties
<1>5. /\ after.list = Tail(l) /\ after.block_no = pool.block_no - 1
      /\ after.sizes = pool.sizes /\ after \in PoolSet
  <2>1. pool.block_no - 1 \in Nat
    BY <1>1
  <2> HIDE DEF l
  <2>2. after = [pool EXCEPT !.list = Tail(l), !.block_no = pool.block_no - 1]
    BY DEF l
  <2> HIDE DEF after
  <2>3. /\ after.list = Tail(l) /\ after.block_no = pool.block_no - 1
        /\ after.sizes = pool.sizes
    BY <1>1, <2>2 DEF PoolSet
  <2>4. after \in PoolSet
    BY <1>1, <1>3, <2>1, <2>2 DEF PoolSet
  <2> QED
    BY <2>3, <2>4
<1> HIDE DEF g, after
<1>6. Distinct(Tail(l)) /\ Distinct(g) /\ Apart(g, Tail(l))
  <2>1. \A i, j \in 1..Len(l) : l[i] = l[j] => i = j
    BY DEF PoolInv, Distinct
  <2>2. \A i, j \in 1..Len(h) : h[i] = h[j] => i = j
    BY DEF PoolInv, Distinct
  <2>3. \A i \in 1..Len(h), j \in 1..Len(l) : h[i] # l[j]
    BY DEF PoolInv, Apart
  <2>4. Distinct(Tail(l))
    BY <1>1, <1>3, <2>1 DEF Distinct
  <2>5. Distinct(g)
    BY <1>1, <1>4, <2>2, <2>3 DEF Distinct
  <2>6. Apart(g, Tail(l))
    BY <1>1, <1>3, <1>4, <2>1, <2>3 DEF Apart
  <2> QED
    BY <2>4, <2>5, <2>6
<1>7. MadeBy(after, Tail(l)) /\ MadeBy(after, g)
  BY <1>1, <1>3, <1>4, <1>5, SMTT(30) DEF PoolInv, MadeBy
<1>8. /\ \A i \in 1..(pool.block_no - 1) : Whole(after, Tail(l)[i])
      /\ \A i \in 1..Len(g) : Whole(after, g[i])
  <2>1. \A i \in 1..pool.block_no : Whole(after, l[i])
    BY <1>5 DEF PoolInv, Whole
  <2>2. \A i \in 1..Len(h) : Whole(after, h[i])
    BY <1>5 DEF PoolInv, Whole
  <2>3. pool.block_no <= Len(l)
    BY DEF PoolInv
  <2>4. \A i \in 1..(pool.block_no - 1) : Tail(l)[i] = l[i + 1]
    BY <1>1, <1>3, <2>3
  <2>5. \A i \in 1..(pool.block_no - 1) : i + 1 \in 1..pool.block_no
    BY <1>1
  <2>6. ASSUME NEW i \in 1..Len(g) PROVE Whole(after, g[i])
    <3>1. CASE i = Len(h) + 1
      BY <1>1, <1>4, <2>1, <3>1
    <3>2. CASE i # Len(h) + 1
      BY <1>1, <1>4, <2>2, <3>2
    <3> QED
      BY <3>1, <3>2
  <2> QED
    BY <2>1, <2>4, <2>5, <2>6
<1>9. after.block_no <= Len(after.list)
  BY <1>1, <1>3, <1>5 DEF PoolInv
<1>10. PoolInv(after, g)
  BY <1>4, <1>5, <1>6, <1>7, <1>8, <1>9 DEF PoolInv
<1> QED
  BY <1>2, <1>10 DEF after, g

\* PoolMalloc hands out a block that is whole and nobody else's.
LEMMA MallocKeeps ==
  ASSUME NEW pool, NEW h, PoolInv(pool, h), NEW k \in Kinds
  PROVE  PoolInv(PoolMalloc(pool, k)[1], Append(h, PoolMalloc(pool, k)[2]))
<1> DEFINE ready == IF pool.block_no < 1 THEN PoolRealloc(pool, k) ELSE pool
<1>1. PoolInv(ready, h) /\ ready.block_no >= 1
  <2>1. pool.block_no \in Nat
    BY DEF PoolInv, PoolSet
  <2>2. CASE pool.block_no < 1
    BY <2>1, <2>2, ReallocKeeps
  <2>3. CASE ~(pool.block_no < 1)
    BY <2>1, <2>3
  <2> QED
    BY <2>2, <2>3
<1>2. /\ ready.list # << >>
      /\ PoolInv([ready EXCEPT !.list = Tail(@), !.block_no = @ - 1],
                 Append(h, Head(ready.list)))
  BY <1>1, TakeKeeps
<1>3. PoolMalloc(pool, k) =
        <<[ready EXCEPT !.list = Tail(@), !.block_no = @ - 1], Head(ready.list)>>
  BY <1>2 DEF PoolMalloc
<1> QED
  BY <1>2, <1>3

\* A new pool: the blocks of its first buffer, none of them held.
LEMMA MakeMemPoolKeeps ==
  ASSUME NEW k \in Kinds
  PROVE  PoolInv(MakeMemPool(k), << >>)
<1> DEFINE n == PerBuffer[k]
           empty == [list |-> << >>, block_no |-> 0, sizes |-> << >>]
           new == MakeList(1, n)
           pool == MakeMemPool(k)
<1>1. n \in Nat \ {0} /\ empty \in PoolSet /\ Append(empty.sizes, n) = <<n>>
  BY PoolAssumption, EmptySeq DEF PoolSet
<1>2. /\ PoolValloc(empty, n) \in PoolSet /\ PoolValloc(empty, n).block_no = n
      /\ PoolValloc(empty, n).sizes = <<n>>
  <2>1. empty.block_no = 0
    OBVIOUS
  <2> HIDE DEF n, empty
  <2>2. /\ PoolValloc(empty, n) \in PoolSet
        /\ PoolValloc(empty, n).block_no = empty.block_no + n
        /\ PoolValloc(empty, n).sizes = Append(empty.sizes, n)
    BY <1>1, VallocFields
  <2> QED
    BY <1>1, <2>1, <2>2
<1>3. /\ new \in Seq(Block) /\ Len(new) >= n /\ Distinct(new)
      /\ \A i \in 1..Len(new) : new[i] = <<1, i>>
  <2>1. 1 \in Nat \ {0}
    OBVIOUS
  <2> HIDE DEF n
  <2> QED
    BY <1>1, <2>1, MakeListBlocks
<1>4. /\ pool.list = new /\ pool.block_no = n /\ pool.sizes = <<n>> /\ pool \in PoolSet
  BY <1>2, <1>3 DEF MakeMemPool, PoolSet
<1> HIDE DEF n, new, pool
<1>5. Len(pool.sizes) = 1 /\ pool.sizes[1] = n
  BY <1>1, <1>4
<1>6. \A i \in 1..n : Whole(pool, new[i])
  BY <1>1, <1>3, <1>5, LenProperties DEF Whole, NullBlock
<1>7. MadeBy(pool, new)
  BY <1>3, <1>5 DEF MadeBy
<1>8. PoolInv(pool, << >>)
  BY <1>1, <1>3, <1>4, <1>6, <1>7, EmptySeq DEF PoolInv, MadeBy, Distinct, Apart
<1> QED
  BY <1>8 DEF pool

\* A freed block is the first free one, counted or not: when it is not, the
\* count is zero.
LEMMA FreeKeeps ==
  ASSUME NEW pool, NEW h, PoolInv(pool, h), NEW i \in 1..Len(h)
  PROVE  PoolInv(PoolFree(pool, h[i]), RemoveAt(h, i))
<1> DEFINE l == pool.list
           b == h[i]
           r == RemoveAt(h, i)
           after == PoolFree(pool, b)
<1>1. /\ pool \in PoolSet /\ h \in Seq(Block) /\ l \in Seq(Block) /\ b \in Block
      /\ Len(l) \in Nat /\ Len(h) \in Nat /\ pool.block_no \in Nat
  BY LenProperties DEF PoolInv, PoolSet
<1>2. /\ r \in Seq(Block) /\ Len(r) = Len(h) - 1
      /\ \A j \in 1..(Len(h) - 1) : r[j] = h[IF j < i THEN j ELSE j + 1]
  BY <1>1, RemoveElements
<1>3. /\ <<b>> \o l \in Seq(Block) /\ Len(<<b>> \o l) = Len(l) + 1
      /\ \A j \in 1..(Len(l) + 1) : (<<b>> \o l)[j] = IF j = 1 THEN b ELSE l[j - 1]
  <2> HIDE DEF b, l
  <2>1. <<b>> \in Seq(Block) /\ Len(<<b>>) = 1 /\ <<b>>[1] = b
    BY <1>1
  <2>2. /\ <<b>> \o l \in Seq(Block) /\ Len(<<b>> \o l) = Len(<<b>>) + Len(l)
        /\ \A j \in 1..(Len(<<b>>) + Len(l)) :
               (<<b>> \o l)[j] = IF j <= Len(<<b>>) THEN <<b>>[j] ELSE l[j - Len(<<b>>)]
    BY <1>1, <2>1, ConcatProperties
  <2> QED
    BY <1>1, <2>1, <2>2
<1>4. /\ after.list = <<b>> \o l /\ after.sizes = pool.sizes /\ after \in PoolSet
      /\ \/ l = << >> /\ after.block_no = pool.block_no
         \/ after.block_no = pool.block_no + 1
  <2>1. CASE l = << >>
    <3>1. <<b>> \o l = <<b>> /\ after = [pool EXCEPT !.list = <<b>>]
      BY <1>1, <2>1, ConcatEmptySeq DEF PoolFree
    <3> QED
      BY <1>1, <1>3, <2>1, <3>1 DEF PoolSet
  <2>2. CASE l # << >>
    <3> HIDE DEF b
    <3>1. after = [pool EXCEPT !.list = <<b>> \o l, !.block_no = pool.block_no + 1]
      BY <2>2 DEF PoolFree
    <3>2. pool.block_no + 1 \in Nat
      BY <1>1
    <3> HIDE DEF l, after
    <3>3. /\ after.list = <<b>> \o l /\ after.sizes = pool.sizes
          /\ after.block_no = pool.block_no + 1
      BY <1>1, <3>1 DEF PoolSet
    <3>4. after \in PoolSet
      BY <1>1, <1>3, <3>1, <3>2 DEF PoolSet
    <3> QED
      BY <3>3, <3>4
  <2> QED
    BY <2>1, <2>2
<1>5. /\ \A j, n \in 1..Len(h) : h[j] = h[n] => j = n
      /\ \A j, n \in 1..Len(l) : l[j] = l[n] => j = n
      /\ \A j \in 1..Len(h), n \in 1..Len(l) : h[j] # l[n]
  BY DEF PoolInv, Distinct, Apart
<1>6. /\ \A j \in 1..Len(h) : h[j][1] <= Len(pool.sizes) /\ Whole(pool, h[j])
      /\ \A j \in 1..Len(l) : l[j][1] <= Len(pool.sizes)
      /\ \A j \in 1..pool.block_no : Whole(pool, l[j])
      /\ pool.block_no <= Len(l)
  BY DEF PoolInv, MadeBy
<1>7. Whole(pool, b) /\ b[1] <= Len(pool.sizes)
  BY <1>6
<1>8. \A j \in 1..Len(l) : b # l[j]
  BY <1>5
<1>9. \A j \in 1..Len(r) : r[j] # b /\ \E n \in 1..Len(h) : r[j] = h[n]
  <2> SUFFICES ASSUME NEW j \in 1..(Len(h) - 1)
               PROVE  h[IF j < i THEN j ELSE j + 1] # h[i]
    BY <1>1, <1>2
  <2>1. (IF j < i THEN j ELSE j + 1) \in 1..Len(h) \ {i}
    BY <1>1
  <2> QED
    BY <1>5, <2>1
<1>10. Distinct(r)
  <2> SUFFICES ASSUME NEW j \in 1..(Len(h) - 1), NEW n \in 1..(Len(h) - 1),
                      h[IF j < i THEN j ELSE j + 1] = h[IF n < i THEN n ELSE n + 1]
               PROVE  j = n
    BY <1>1, <1>2 DEF Distinct
  <2>1. /\ (IF j < i THEN j ELSE j + 1) \in 1..Len(h)
        /\ (IF n < i THEN n ELSE n + 1) \in 1..Len(h)
    BY <1>1
  <2>2. (IF j < i THEN j ELSE j + 1) = (IF n < i THEN n ELSE n + 1)
    BY <1>5, <2>1
  <2> QED
    BY <1>1, <2>2
<1> HIDE DEF l, b, r, after
<1>11. Distinct(<<b>> \o l) /\ Apart(r, <<b>> \o l)
  <2>1. Distinct(<<b>> \o l)
    <3> DEFINE c == <<b>> \o l
    <3>1. Len(c) = 1 + Len(l) /\ c[1] = b /\ \A j \in 2..Len(c) : c[j] = l[j - 1]
      BY <1>1, <1>3
    <3> HIDE DEF c
    <3>2. SUFFICES ASSUME NEW j \in 1..Len(c), NEW n \in 1..Len(c), c[j] = c[n]
                   PROVE  j = n
      BY DEF Distinct, c
    <3>3. /\ j # 1 => j \in 2..Len(c) /\ j - 1 \in 1..Len(l)
          /\ n # 1 => n \in 2..Len(c) /\ n - 1 \in 1..Len(l)
      BY <1>1, <3>1
    <3>4. j = 1 <=> n = 1
      <4>1. ASSUME NEW k \in 1..Len(c), k # 1 PROVE c[k] # b
        <5>1. k \in 2..Len(c) /\ k - 1 \in 1..Len(l)
          BY <1>1, <3>1, <4>1
        <5> QED
          BY ONLY <1>8, <3>1, <5>1
      <4> QED
        BY ONLY <3>1, <3>2, <4>1
    <3>5. ASSUME j # 1, n # 1 PROVE j = n
      <4>1. l[j - 1] = l[n - 1] /\ j - 1 \in 1..Len(l) /\ n - 1 \in 1..Len(l)
        BY ONLY <3>1, <3>2, <3>3, <3>5
      <4>2. j - 1 = n - 1
        BY ONLY <1>5, <4>1
      <4>3. j \in Int /\ n \in Int
        OBVIOUS
      <4> QED
        BY ONLY <4>2, <4>3
    <3> QED
      BY ONLY <3>4, <3>5
  <2>2. Apart(r, <<b>> \o l)
    BY <1>1, <1>3, <1>5, <1>9 DEF Apart
  <2> QED
    BY <2>1, <2>2
<1>12. MadeBy(after, <<b>> \o l) /\ MadeBy(after, r)
  <2>1. MadeBy(after, <<b>> \o l)
    BY <1>1, <1>3, <1>4, <1>6, <1>7 DEF MadeBy
  <2>2. MadeBy(after, r)
    BY <1>4, <1>6, <1>9 DEF MadeBy
  <2> QED
    BY <2>1, <2>2
<1>13. \A j \in 1..Len(r) : Whole(after, r[j])
  BY <1>4, <1>6, <1>9 DEF Whole
<1>14. /\ after.block_no <= Len(<<b>> \o l)
       /\ \A j \in 1..after.block_no : Whole(after, (<<b>> \o l)[j])
  <2>1. Whole(after, b) /\ \A j \in 1..pool.block_no : Whole(after, l[j])
    BY <1>4, <1>6, <1>7 DEF Whole
  <2>2. CASE l = << >> /\ after.block_no = pool.block_no
    BY <1>1, <1>3, <1>6, <2>2, EmptySeq
  <2>3. CASE after.block_no = pool.block_no + 1
    BY <1>1, <1>3, <1>6, <2>1, <2>3
  <2> QED
    BY <1>4, <2>2, <2>3
<1>15. PoolInv(after, r)
  BY <1>2, <1>4, <1>10, <1>11, <1>12, <1>13, <1>14 DEF PoolInv
<1> QED
  BY <1>15 DEF after, b, r

(* The invariant of all the pools.                                           *)
LEMMA PoolsInvInit == PoolInit => PoolsInv
BY EmptySeq DEF PoolInit, PoolsInv

LEMMA PoolsInvStep == PoolsInv /\ [PoolNext]_poolVars => PoolsInv'
<1> SUFFICES ASSUME PoolsInv, [PoolNext]_poolVars PROVE PoolsInv'
  OBVIOUS
<1>1. ASSUME NEW k \in Kinds, NEW pool, NEW h, PoolInv(pool, h),
             pools' = [pools EXCEPT ![k] = <<pool>>], held' = [held EXCEPT ![k] = h]
      PROVE  PoolsInv'
  <2>1. pool \in PoolSet /\ h \in Seq(Block)
    BY <1>1 DEF PoolInv
  <2>2. /\ pools' \in [Kinds -> {<<p>> : p \in PoolSet} \cup {<< >>}]
        /\ held' \in [Kinds -> Seq(Block)]
    BY <1>1, <2>1 DEF PoolsInv
  <2>3. /\ pools'[k] = <<pool>> /\ held'[k] = h
        /\ \A i \in Kinds \ {k} : pools'[i] = pools[i] /\ held'[i] = held[i]
    BY <1>1 DEF PoolsInv
  <2>4. pools'[k] # << >> /\ pools'[k][1] = pool
    BY <2>3
  <2>5. \A i \in Kinds : IF pools'[i] = << >> THEN held'[i] = << >>
                         ELSE PoolInv(pools'[i][1], held'[i])
    BY <1>1, <2>3, <2>4 DEF PoolsInv
  <2> QED
    BY <2>2, <2>5 DEF PoolsInv, PoolInv, MadeBy, Whole
<1>2. ASSUME NEW k \in Kinds, Make(k) PROVE PoolsInv'
  <2> DEFINE pool == IF pools[k] = << >> THEN MakeMemPool(k) ELSE pools[k][1]
  <2>1. PoolInv(pool, held[k])
    BY MakeMemPoolKeeps DEF PoolsInv
  <2>2. PoolInv(PoolMalloc(pool, k)[1], Append(held[k], PoolMalloc(pool, k)[2]))
    BY <2>1, MallocKeeps
  <2>3. /\ pools' = [pools EXCEPT ![k] = <<PoolMalloc(pool, k)[1]>>]
        /\ held' = [held EXCEPT ![k] = Append(held[k], PoolMalloc(pool, k)[2])]
    BY <1>2 DEF Make, PoolsInv
  <2> QED
    BY <1>1, <2>2, <2>3
<1>3. ASSUME NEW k \in Kinds, Free(k) PROVE PoolsInv'
  <2>1. PICK i \in DOMAIN held[k] :
            /\ pools' = [pools EXCEPT ![k] = <<PoolFree(pools[k][1], held[k][i])>>]
            /\ held' = [held EXCEPT ![k] = RemoveAt(held[k], i)]
    BY <1>3 DEF Free, PoolsInv
  <2>2. i \in 1..Len(held[k])
    BY LenProperties DEF PoolsInv
  <2>3. PoolInv(pools[k][1], held[k])
    BY <2>2, EmptySeq DEF PoolsInv
  <2>4. PoolInv(PoolFree(pools[k][1], held[k][i]), RemoveAt(held[k], i))
    BY <2>2, <2>3, FreeKeeps
  <2> QED
    BY <1>1, <2>1, <2>4
<1>4. CASE UNCHANGED poolVars
  BY <1>4 DEF poolVars, PoolsInv
<1> QED
  BY <1>2, <1>3, <1>4 DEF PoolNext

\* No two records of tcptrace share memory and none lies outside its buffer:
\* PoolMalloc, PoolFree and PoolRealloc keep it so (pool.c:214-395), for every
\* size of page and record.
THEOREM PoolsHandOutWholeBlocks == PoolSpec => []BlocksAreWhole
<1>1. PoolsInv => BlocksAreWhole
  <2> SUFFICES ASSUME PoolsInv, NEW k \in Kinds, pools[k] # << >>
               PROVE  LET pool == pools[k][1]
                      IN /\ IsInjective(held[k]) /\ IsInjective(pool.list)
                         /\ Range(held[k]) \cap Range(pool.list) = {}
                         /\ \A i \in DOMAIN held[k] : Whole(pool, held[k][i])
                         /\ pool.block_no <= Len(pool.list)
                         /\ \A i \in 1..pool.block_no : Whole(pool, pool.list[i])
    BY DEF BlocksAreWhole
  <2> DEFINE pool == pools[k][1]
             h == held[k]
  <2>1. PoolInv(pool, h)
    BY DEF PoolsInv
  <2>2. DOMAIN h = 1..Len(h) /\ DOMAIN pool.list = 1..Len(pool.list)
    BY <2>1, LenProperties DEF PoolInv, PoolSet
  <2> QED
    BY <2>1, <2>2 DEF PoolInv, Distinct, Apart, IsInjective, Range
<1> QED
  BY <1>1, PoolsInvInit, PoolsInvStep, PTL DEF PoolSpec

-----------------------------------------------------------------------------
(* Headers.                                                                *)

LEMMA Least ==
    ASSUME NEW S \in SUBSET Nat, S # {}
    PROVE  \E x \in S : \A y \in S : x <= y
<1> DEFINE R == OpToRel(<, Nat)
<1>1. \E x \in S : \A y \in S : ~(<<y, x>> \in R)
  BY NatLessThanWellFounded, WFMin
<1>2. R = {p \in Nat \X Nat : p[1] < p[2]}
  BY DEF OpToRel
<1> HIDE DEF R
<1>3. \A x, y \in Nat : y < x => <<y, x>> \in R
  BY <1>2
<1>4. PICK x \in S : \A y \in S : ~(<<y, x>> \in R)
  BY <1>1
<1>5. \A y \in S : ~(y < x)
  BY <1>3, <1>4, Zenon
<1> QED
  BY <1>5

-----------------------------------------------------------------------------
(* Where the parts of a packet lie.                                        *)

\* Each of the parts begins where the one before it ends.
Adjoin(at, x, sizes) ==
  /\ at \in [1..(Len(sizes) + 1) -> Nat] /\ at[1] = x
  /\ \A k \in 1..Len(sizes) : at[k + 1] = at[k] + sizes[k]

\* Parts can be laid one behind the other, whatever their number.
LEMMA CanAdjoin ==
  ASSUME NEW x \in Nat, NEW n \in Nat, NEW sizes \in [1..n -> Nat]
  PROVE  \E g \in [1..(n + 1) -> Nat] : g[1] = x /\ \A k \in 1..n : g[k + 1] = g[k] + sizes[k]
<1> DEFINE Good(m) == \E g \in [1..(m + 1) -> Nat] :
                         g[1] = x /\ \A k \in 1..m : g[k + 1] = g[k] + sizes[k]
           T == {m \in 0..n : ~Good(m)}
<1> SUFFICES Good(n)
  OBVIOUS
<1> HIDE DEF Good
<1>1. SUFFICES ASSUME T # {}
               PROVE  FALSE
  OBVIOUS
<1>2. PICK m \in T : \A i \in T : m <= i
  <2>1. T \in SUBSET Nat
    OBVIOUS
  <2> HIDE DEF T
  <2> QED
    BY <1>1, <2>1, Least
<1>3. m \in 0..n /\ ~Good(m)
  OBVIOUS
<1>4. m # 0
  <2> DEFINE z == [i \in 1..1 |-> x]
  <2>1. z \in [1..(0 + 1) -> Nat] /\ z[1] = x /\ 1..0 = {}
    OBVIOUS
  <2> HIDE DEF z
  <2>2. Good(0)
    BY <2>1 DEF Good
  <2> QED
    BY <1>3, <2>2
<1>5. Good(m - 1)
  <2>1. m - 1 \in 0..n /\ ~(m <= m - 1)
    BY <1>3, <1>4
  <2> QED
    BY <1>2, <2>1
<1>6. PICK g \in [1..m -> Nat] : g[1] = x /\ \A k \in 1..(m - 1) : g[k + 1] = g[k] + sizes[k]
  <2>1. (m - 1) + 1 = m
    BY <1>3
  <2> QED
    BY <1>5, <2>1 DEF Good
<1> DEFINE h == [i \in 1..(m + 1) |-> IF i = m + 1 THEN g[m] + sizes[m] ELSE g[i]]
<1>7. h \in [1..(m + 1) -> Nat]
  BY <1>3, <1>4
<1>8. /\ h[1] = x /\ h[m + 1] = h[m] + sizes[m]
      /\ \A k \in 1..(m - 1) : h[k] = g[k] /\ h[k + 1] = g[k + 1]
  BY <1>3, <1>4, <1>6
<1> HIDE DEF h
<1>9. \A k \in 1..m : h[k + 1] = h[k] + sizes[k]
  BY <1>3, <1>4, <1>6, <1>8
<1>10. Good(m)
  BY <1>7, <1>8, <1>9 DEF Good
<1> QED
  BY <1>3, <1>10

LEMMA LaidIs ==
  ASSUME NEW x \in Nat, NEW sizes \in Seq(Nat)
  PROVE  Adjoin(Laid(x, sizes), x, sizes)
<1> DEFINE n == Len(sizes)
           F(at) == [k \in 1..(n + 1) |-> IF k = 1 THEN x ELSE at[k - 1] + sizes[k - 1]]
           at == CHOOSE at : at = F(at)
<1>1. n \in Nat /\ sizes \in [1..n -> Nat]
  BY LenProperties
<1>2. PICK g \in [1..(n + 1) -> Nat] :
          g[1] = x /\ \A k \in 1..n : g[k + 1] = g[k] + sizes[k]
  <2> HIDE DEF n
  <2> QED
    BY <1>1, CanAdjoin
<1>3. Laid(x, sizes) = at
  BY DEF Laid
<1> HIDE DEF n
<1>4. g = F(g)
  <2>1. \A k \in 1..(n + 1) : k # 1 => k - 1 \in 1..n /\ (k - 1) + 1 = k
    BY <1>1
  <2>2. \A k \in 1..(n + 1) : k # 1 => g[k] = g[k - 1] + sizes[k - 1]
    BY <1>2, <2>1
  <2>3. \A k \in 1..(n + 1) : g[k] = IF k = 1 THEN x ELSE g[k - 1] + sizes[k - 1]
    BY <1>2, <2>2
  <2> QED
    BY <2>3
<1>5. at = F(at)
  <2> HIDE DEF F
  <2> QED
    BY <1>4
<1> HIDE DEF at
<1>6. \A k \in 1..(n + 1) : at[k] = IF k = 1 THEN x ELSE at[k - 1] + sizes[k - 1]
  BY <1>5
<1>7. at[1] = x /\ \A k \in 1..n : at[k + 1] = at[k] + sizes[k]
  <2>1. 1 \in 1..(n + 1)
    BY <1>1
  <2>2. ASSUME NEW k \in 1..n
        PROVE  at[k + 1] = at[k] + sizes[k]
    <3>1. k + 1 \in 1..(n + 1) /\ k + 1 # 1 /\ (k + 1) - 1 = k
      BY <1>1
    <3> QED
      BY <1>6, <3>1
  <2> QED
    BY <1>6, <2>1, <2>2
<1>8. \A k \in 1..(n + 1) : at[k] \in Nat
  <2> DEFINE T == {k \in 1..(n + 1) : at[k] \notin Nat}
  <2> SUFFICES ASSUME T # {}
               PROVE  FALSE
    OBVIOUS
  <2>1. PICK k \in T : \A i \in T : k <= i
    <3>1. T \in SUBSET Nat
      BY <1>1
    <3> HIDE DEF T
    <3> QED
      BY <3>1, Least
  <2>2. k \in 1..(n + 1) /\ k # 1 /\ at[k] \notin Nat
    BY <1>7
  <2>3. k - 1 \in 1..n /\ (k - 1) + 1 = k /\ k - 1 \notin T
    BY <1>1, <2>1, <2>2
  <2>4. at[k - 1] \in Nat /\ sizes[k - 1] \in Nat
    BY <1>1, <2>3
  <2> QED
    BY <1>7, <2>2, <2>3, <2>4
<1>9. at \in [1..(n + 1) -> Nat]
  <2>1. at = [k \in 1..(n + 1) |-> at[k]]
    BY <1>5
  <2> QED
    BY <1>8, <2>1
<1> QED
  BY <1>3, <1>7, <1>9 DEF Adjoin, n

\* What comes first lies first.
LEMMA InOrder ==
  ASSUME NEW x \in Nat, NEW sizes \in Seq(Nat), NEW at, Adjoin(at, x, sizes),
         NEW i \in 1..(Len(sizes) + 1), NEW j \in 1..(Len(sizes) + 1), i <= j
  PROVE  at[i] <= at[j]
<1> DEFINE n == Len(sizes)
           T == {k \in i..(n + 1) : ~(at[i] <= at[k])}
<1>1. n \in Nat /\ sizes \in [1..n -> Nat]
  BY LenProperties
<1>2. /\ at \in [1..(n + 1) -> Nat]
      /\ \A k \in 1..n : at[k + 1] = at[k] + sizes[k]
  BY DEF Adjoin
<1> HIDE DEF n
<1> SUFFICES ASSUME j \in T
             PROVE  FALSE
  BY <1>1 DEF n
<1>3. PICK k \in T : \A m \in T : k <= m
  <2>1. T \in SUBSET Nat /\ T # {}
    BY <1>1
  <2> HIDE DEF T
  <2> QED
    BY <2>1, Least
<1>4. k \in i..(n + 1) /\ k # i /\ ~(at[i] <= at[k]) /\ i \in 1..(n + 1)
  BY <1>2, <1>3 DEF n
<1>5. k - 1 \in 1..n /\ (k - 1) + 1 = k /\ k - 1 \in i..(n + 1) /\ k - 1 \notin T
  BY <1>1, <1>3, <1>4
<1>6. at[i] <= at[k - 1] /\ at[k - 1] \in Nat /\ sizes[k - 1] \in Nat /\ at[i] \in Nat
  BY <1>1, <1>2, <1>4, <1>5
<1>7. at[k] = at[k - 1] + sizes[k - 1]
  BY <1>2, <1>5
<1> HIDE DEF T
<1> QED
  BY <1>4, <1>6, <1>7, SMTT(30)
-----------------------------------------------------------------------------
(* The headers and the options of a packet as it was sent.                 *)

\* The kind of the last header.
LastKind(p) == p.heads[Len(p.heads)].kind

LEMMA HeadsLie ==
  ASSUME NEW x \in Nat, NEW S, \A h \in S : h.size \in Nat,
         NEW heads \in Seq(S), NEW frag \in Nat
  PROVE  /\ Begins(x, heads, 1, frag) = x
         /\ \A i \in 1..(Len(heads) + 1) : Begins(x, heads, i, frag) \in Nat
         /\ \A i, j \in 1..(Len(heads) + 1) :
               i <= j => Begins(x, heads, i, frag) <= Begins(x, heads, j, frag)
<1> DEFINE sizes == [j \in DOMAIN heads |-> IF heads[j].kind = "FRAGMENT" THEN frag
                                            ELSE heads[j].size]
           at == Laid(x, sizes)
<1>1. /\ Len(heads) \in Nat /\ DOMAIN heads = 1..Len(heads)
      /\ \A j \in 1..Len(heads) : heads[j].size \in Nat
  BY LenProperties, ElementOfSeq
<1>2. sizes \in Seq(Nat) /\ Len(sizes) = Len(heads)
  <2>1. sizes \in [1..Len(heads) -> Nat]
    BY <1>1
  <2> HIDE DEF sizes
  <2> QED
    BY <1>1, <2>1, SeqDef, LenProperties
<1>4. \A i : Begins(x, heads, i, frag) = at[i]
  BY DEF Begins
<1> HIDE DEF sizes
<1>5. Adjoin(at, x, sizes)
  BY <1>2, LaidIs
<1> HIDE DEF at
<1>6. \A i, j \in 1..(Len(sizes) + 1) : i <= j => at[i] <= at[j]
  BY <1>2, <1>5, InOrder
<1>7. Begins(x, heads, 1, frag) = x
  BY <1>4, <1>5 DEF Adjoin
<1>8. ASSUME NEW i \in 1..(Len(heads) + 1)
      PROVE  Begins(x, heads, i, frag) \in Nat
  BY <1>2, <1>4, <1>5 DEF Adjoin
<1>9. ASSUME NEW i \in 1..(Len(heads) + 1), NEW j \in 1..(Len(heads) + 1), i <= j
      PROVE  Begins(x, heads, i, frag) <= Begins(x, heads, j, frag)
  <2>1. at[i] <= at[j]
    BY <1>2, <1>6, <1>9
  <2> QED
    BY <1>4, <2>1
<1> QED
  BY <1>7, <1>8, <1>9

LEMMA OptionsLie ==
  ASSUME NEW p, WellFormed(p), NEW x \in Nat
  PROVE  /\ Len(p.opts) \in Nat /\ DOMAIN p.opts = 1..Len(p.opts)
         /\ OptionAt(p, x, 1) = x + TcpHeader
         /\ \A i \in 1..(Len(p.opts) + 1) : OptionAt(p, x, i) \in Nat
         /\ \A i \in 1..Len(p.opts) : OptionAt(p, x, i + 1) = OptionAt(p, x, i) + p.opts[i].len
         /\ \A i, j \in 1..(Len(p.opts) + 1) : i <= j => OptionAt(p, x, i) <= OptionAt(p, x, j)
<1> DEFINE sizes == [j \in DOMAIN p.opts |-> p.opts[j].len]
           at == Laid(x + TcpHeader, sizes)
<1>1. /\ Len(p.opts) \in Nat /\ DOMAIN p.opts = 1..Len(p.opts)
      /\ \A j \in 1..Len(p.opts) : p.opts[j].len \in Nat
  <2> DEFINE S == [kind : STRING, len : Nat, said : Nat]
  <2>1. p.opts \in Seq(S) /\ \A o \in S : o.len \in Nat
    BY DEF WellFormed, OptionsFit
  <2> HIDE DEF S
  <2>2. /\ Len(p.opts) \in Nat /\ DOMAIN p.opts = 1..Len(p.opts)
        /\ \A j \in 1..Len(p.opts) : p.opts[j] \in S
    BY <2>1, LenProperties, ElementOfSeq
  <2> QED
    BY <2>1, <2>2
<1>2. /\ sizes \in Seq(Nat) /\ Len(sizes) = Len(p.opts)
      /\ \A i \in 1..Len(p.opts) : sizes[i] = p.opts[i].len
  <2>1. sizes \in [1..Len(p.opts) -> Nat] /\ \A i \in 1..Len(p.opts) : sizes[i] = p.opts[i].len
    BY <1>1
  <2> HIDE DEF sizes
  <2> QED
    BY <1>1, <2>1, SeqDef, LenProperties
<1>3. x + TcpHeader \in Nat
  BY DEF TcpHeader
<1>4. \A i : OptionAt(p, x, i) = at[i]
  BY DEF OptionAt
<1> HIDE DEF sizes
<1>5. Adjoin(at, x + TcpHeader, sizes)
  BY <1>2, <1>3, LaidIs
<1> HIDE DEF at
<1>6. \A i, j \in 1..(Len(sizes) + 1) : i <= j => at[i] <= at[j]
  BY <1>2, <1>3, <1>5, InOrder
<1>7. OptionAt(p, x, 1) = x + TcpHeader
  BY <1>4, <1>5 DEF Adjoin
<1>8. ASSUME NEW i \in 1..(Len(p.opts) + 1)
      PROVE  OptionAt(p, x, i) \in Nat
  BY <1>2, <1>4, <1>5 DEF Adjoin
<1>9. ASSUME NEW i \in 1..Len(p.opts)
      PROVE  OptionAt(p, x, i + 1) = OptionAt(p, x, i) + p.opts[i].len
  <2>1. at[i + 1] = at[i] + sizes[i]
    BY <1>2, <1>5 DEF Adjoin
  <2> QED
    BY <1>2, <1>4, <2>1
<1>10. ASSUME NEW i \in 1..(Len(p.opts) + 1), NEW j \in 1..(Len(p.opts) + 1), i <= j
       PROVE  OptionAt(p, x, i) <= OptionAt(p, x, j)
  <2>1. at[i] <= at[j]
    BY <1>2, <1>6, <1>10
  <2> QED
    BY <1>4, <2>1
<1> QED
  BY <1>1, <1>7, <1>8, <1>9, <1>10

\* The header of the protocol is the last one; unless a fragment header is stepped
\* over wrongly, it is where the code looks for it.
LEMMA TransportIs ==
  ASSUME NEW p, WellFormed(p)
  PROVE  /\ Len(p.heads) \in Nat \ {0} /\ DOMAIN p.heads = 1..Len(p.heads)
         /\ Transport(p) = Len(p.heads)
         /\ \A want \in LastKinds : HasA(p, want) <=> LastKind(p) = want
         /\ LastKind(p) \in LastKinds
         /\ ~Misread(p) /\ p.version \in {4, 6} =>
               TrueAt(p) = Begins(p.hl, p.heads, Len(p.heads), FragSize)
<1>1. /\ Len(p.heads) \in Nat \ {0} /\ DOMAIN p.heads = 1..Len(p.heads)
      /\ \A i \in DOMAIN p.heads : p.heads[i].kind \in LastKinds <=> i = Len(p.heads)
  BY EmptySeq, LenProperties DEF WellFormed, HeadersFit, IsChain
<1>2. Transport(p) = Len(p.heads)
  BY <1>1 DEF Transport
<1>3. \A want \in LastKinds : HasA(p, want) <=> LastKind(p) = want
  BY <1>1 DEF HasA, LastKind
<1>4. ASSUME ~Misread(p), p.version \in {4, 6}
      PROVE  TrueAt(p) = Begins(p.hl, p.heads, Len(p.heads), FragSize)
  <2> DEFINE sizes(frag) == [j \in DOMAIN p.heads |-> IF p.heads[j].kind = "FRAGMENT" THEN frag
                                                      ELSE p.heads[j].size]
  <2>1. p.version = 4 => \A i \in DOMAIN p.heads : p.heads[i].kind # "FRAGMENT"
    BY <1>1 DEF WellFormed, HeadersFit, LastKinds
  <2>2. FragSize = 8 \/ \A i \in DOMAIN p.heads : p.heads[i].kind # "FRAGMENT"
    BY <1>4, <2>1 DEF Misread, HasA
  <2>3. sizes(8) = sizes(FragSize)
    BY <2>2
  <2>4. \A frag : Begins(p.hl, p.heads, Len(p.heads), frag) = Laid(p.hl, sizes(frag))[Len(p.heads)]
    BY DEF Begins
  <2> HIDE DEF sizes
  <2> QED
    BY <1>2, <2>3, <2>4 DEF TrueAt
<1> QED
  BY <1>1, <1>2, <1>3, <1>4 DEF LastKind

\* The chain that findheader walks: that of the packet up to its first fragment header.
\* It ends, and with the same header unless it goes astray.
LEMMA WalkedIs ==
  ASSUME NEW p, WellFormed(p)
  PROVE  LET heads == Walked(p)
             n == Len(heads)
         IN /\ IsChain(heads, HeaderKinds \cup {"LATER"}, LastKinds \cup {"LATER"})
            /\ n \in Nat \ {0} /\ DOMAIN heads = 1..n
            /\ ~GoesAstray(p) => heads[n].kind = LastKind(p)
            /\ HasA(p, "FRAGMENT") => \E i \in 1..n : heads[i].kind = "FRAGMENT"
            /\ ~Misread(p) => heads = p.heads
<1> DEFINE m == Len(p.heads)
           f == FirstFragment(p)
           S == [kind : HeaderKinds, size : Nat]
           T == [kind : HeaderKinds \cup {"LATER"}, size : Nat]
<1>1. /\ p.heads \in Seq(S) /\ m \in Nat \ {0} /\ DOMAIN p.heads = 1..m
      /\ \A i \in 1..m : p.heads[i] \in S /\ (p.heads[i].kind \in LastKinds <=> i = m)
      /\ p.heads # << >>
  <2>1. p.heads \in Seq(S) /\ p.heads # << >>
        /\ \A i \in DOMAIN p.heads : p.heads[i].kind \in LastKinds <=> i = m
    BY DEF WellFormed, HeadersFit, IsChain
  <2>2. m \in Nat \ {0} /\ DOMAIN p.heads = 1..m
    BY TransportIs
  <2> HIDE DEF S
  <2>3. \A i \in 1..m : p.heads[i] \in S
    BY <2>1, ElementOfSeq
  <2> QED
    BY <2>1, <2>2, <2>3
<1>2. \A h \in S : h \in T /\ h.kind # "LATER"
  BY DEF HeaderKinds, LastKinds
<1>3. "FRAGMENT" \notin LastKinds /\ "LATER" \notin LastKinds
  BY DEF LastKinds
<1>4. CASE ~Misread(p)
  <2>1. Walked(p) = p.heads /\ ~GoesAstray(p)
    BY <1>4 DEF Walked, GoesAstray
  <2>2. p.heads \in Seq(T)
    <3> HIDE DEF S, T
    <3>1. \A i \in 1..m : p.heads[i] \in T
      BY <1>1, <1>2
    <3> QED
      BY <1>1, <3>1, LenProperties, SeqDef
  <2>3. IsChain(p.heads, HeaderKinds \cup {"LATER"}, LastKinds \cup {"LATER"})
    BY <1>1, <1>2, <2>2 DEF IsChain
  <2> QED
    BY <1>1, <2>1, <2>3 DEF HasA, LastKind
<1>5. CASE Misread(p)
  <2> DEFINE b == p.behind
             k == Len(b)
             head == SubSeq(p.heads, 1, f)
             heads == head \o b
             n == f + k
  <2>1. Walked(p) = heads
    BY <1>5 DEF Walked
  <2>2. f \in 1..m /\ p.heads[f].kind = "FRAGMENT"
    <3> DEFINE F == {i \in DOMAIN p.heads : p.heads[i].kind = "FRAGMENT"}
    <3>1. F \in SUBSET Nat /\ F # {} /\ F \in SUBSET (1..m)
      BY <1>1, <1>5 DEF Misread, HasA
    <3>2. f = Min(F)
      BY DEF FirstFragment
    <3>3. \A i \in F : p.heads[i].kind = "FRAGMENT"
      OBVIOUS
    <3> HIDE DEF F, f
    <3>4. \E x \in F : \A y \in F : x <= y
      BY <3>1, Least
    <3>5. f \in F
      BY <3>2, <3>4 DEF Min
    <3> QED
      BY <3>1, <3>3, <3>5
  <2> HIDE DEF f
  <2>3. f < m /\ f + 1 \in 1..m
    BY <1>1, <1>3, <2>2
  <2>4. /\ b \in Seq(T) /\ k \in Nat \ {0} /\ DOMAIN b = 1..k
        /\ \A i \in 1..k : b[i] \in T /\ (b[i].kind \in LastKinds \cup {"LATER"} <=> i = k)
        /\ LET next == p.heads[f + 1].kind IN
           b[1].kind = next \/ (next = "FRAGMENT" /\ b[1].kind = "LATER")
    <3>1. BehindFits(p)
      BY <1>5 DEF WellFormed, HeadersFit
    <3>2. b \in Seq(T) /\ b # << >>
          /\ \A i \in DOMAIN b : b[i].kind \in LastKinds \cup {"LATER"} <=> i = k
      BY <3>1 DEF BehindFits, IsChain
    <3>3. k \in Nat \ {0} /\ DOMAIN b = 1..k /\ \A i \in 1..k : b[i] \in T
      BY <3>2, EmptySeq, LenProperties, ElementOfSeq
    <3> QED
      BY <3>1, <3>2, <3>3 DEF BehindFits, f
  <2>12. k \in Nat \ {0} /\ m \in Nat /\ f \in 1..m /\ f < m
    BY <1>1, <2>2, <2>3, <2>4
  <2> HIDE DEF b, T, S, k
  <2>5. head \in Seq(T) /\ Len(head) = f /\ \A i \in 1..f : head[i] = p.heads[i]
    <3>1. p.heads \in Seq(T)
      <4>1. \A i \in 1..m : p.heads[i] \in T
        BY <1>1, <1>2
      <4> QED
        BY <1>1, <4>1, LenProperties, SeqDef
    <3>2. /\ Len(head) = f /\ \A i \in 1..f : head[i] = p.heads[1 + i - 1]
          /\ head \in Seq(T)
      BY <2>2, <3>1, <1>1, SubSeqProperties
    <3>3. \A i \in 1..f : 1 + i - 1 = i
      BY <1>1, <2>2
    <3> QED
      BY <3>2, <3>3
  <2> HIDE DEF head
  <2>6. /\ heads \in Seq(T) /\ Len(heads) = n /\ n \in Nat \ {0}
        /\ \A i \in 1..f : heads[i] = p.heads[i]
        /\ \A i \in 1..k : heads[f + i] = b[i]
    <3>1. /\ heads \in Seq(T) /\ Len(heads) = Len(head) + Len(b)
          /\ \A i \in 1..(Len(head) + Len(b)) :
                heads[i] = IF i <= Len(head) THEN head[i] ELSE b[i - Len(head)]
      <4>1. head \in Seq(T) /\ b \in Seq(T)
        BY <2>4, <2>5
      <4> QED
        BY <4>1, ConcatProperties
    <3>2. \A i \in 1..f : i \in 1..(f + k) /\ i <= f
      BY <2>12
    <3>3. \A i \in 1..k : f + i \in 1..(f + k) /\ ~(f + i <= f) /\ (f + i) - f = i
      BY <2>12
    <3>4. f + k \in Nat \ {0}
      BY <2>12
    <3> HIDE DEF heads
    <3>5. /\ Len(heads) = f + k
          /\ \A i \in 1..(f + k) : heads[i] = IF i <= f THEN head[i] ELSE b[i - f]
      BY <2>5, <3>1 DEF k
    <3> QED
      BY <2>5, <3>1, <3>2, <3>3, <3>4, <3>5
  <2> HIDE DEF heads
  <2>7. ASSUME NEW i \in 1..n
        PROVE  heads[i].kind \in LastKinds \cup {"LATER"} <=> i = n
    <3>1. CASE i <= f
      <4>1. i \in 1..f /\ i \in 1..m /\ i # m /\ i # n
        BY <2>12, <3>1
      <4> QED
        BY <1>1, <1>2, <2>6, <4>1
    <3>2. CASE ~(i <= f)
      <4>1. i - f \in 1..k /\ f + (i - f) = i /\ (i - f = k <=> i = n)
        BY <2>12, <3>2
      <4> QED
        BY <2>4, <2>6, <4>1
    <3> QED
      BY <3>1, <3>2
  <2>8. heads # << >> /\ DOMAIN heads = 1..n
    BY <2>6, EmptySeq, LenProperties
  <2>9. IsChain(heads, HeaderKinds \cup {"LATER"}, LastKinds \cup {"LATER"})
    BY <2>6, <2>7, <2>8 DEF IsChain, T
  <2>10. ASSUME ~GoesAstray(p)
         PROVE  heads[n].kind = LastKind(p)
    <3>1. p.heads[f + 1].kind \in LastKinds
      BY <1>5, <2>10 DEF GoesAstray, f
    <3>2. f + 1 = m /\ b[1].kind = LastKind(p)
      BY <1>1, <1>3, <2>3, <2>4, <3>1 DEF LastKind
    <3>3. 1 \in 1..k /\ b[1].kind \in LastKinds
      <4>1. 1 \in 1..k
        BY <2>12
      <4>2. b[1].kind = p.heads[f + 1].kind
        BY <3>2 DEF LastKind
      <4> QED
        BY <3>1, <4>1, <4>2
    <3>4. k = 1
      BY <2>4, <3>3
    <3> QED
      BY <2>6, <3>2, <3>3, <3>4
  <2>11. \E i \in 1..n : heads[i].kind = "FRAGMENT"
    <3>1. f \in 1..f /\ f \in 1..n
      BY <2>12
    <3> QED
      BY <2>2, <2>6, <3>1
  <2> QED
    BY <1>5, <2>1, <2>6, <2>8, <2>9, <2>10, <2>11
<1> QED
  BY <1>4, <1>5

\* What findheader says of the packet, with what it finds being where it says.
Finds(p, want, from) ==
  LET f == findheader(p, want, from)
  IN /\ f.ret = 0 => /\ LastKind(p) = want \/ GoesAstray(p)
                     /\ f.at \in Nat /\ (f.at = TrueAt(p) \/ Misread(p))
                     /\ p.version = 4 => LastKind(p) = want /\ f.at = p.hl
                     /\ p.offset = 0 \/ (p.version = 6 /\ ~LaterFragment(p))
     /\ (LastKind(p) = want /\ p.offset = 0 /\ ~Misread(p) /\ TrueAt(p) <= from) => f.ret = 0

LEMMA FindsIt ==
  ASSUME HeadersAssumption, NEW p, WellFormed(p), p.version \in {4, 6},
         NEW from \in Int, NEW want \in {"TCP", "UDP"}
  PROVE  Finds(p, want, from)
<1> DEFINE heads == Walked(p)
           n == Len(heads)
           at(i) == Begins(p.hl, heads, i, FragSize)
           kind(i) == heads[i].kind
           stops == {i \in DOMAIN heads :
                       \/ at(i) > from
                       \/ kind(i) \in {want, "LATER"} \cup LastKinds
                       \/ kind(i) = "FRAGMENT" /\ LaterFragment(p)}
           m == IF p.version = 6 THEN Min(stops) ELSE 1
           late == IF p.version = 6 THEN at(m) > from \/ kind(m) \notin {want} \cup LastKinds
                                    ELSE kind(m) = want /\ p.offset # 0
           f == findheader(p, want, from)
<1>1. /\ n \in Nat \ {0} /\ DOMAIN heads = 1..n
      /\ \A i \in 1..n : kind(i) \in LastKinds \cup {"LATER"} <=> i = n
      /\ want \in LastKinds /\ want # "LATER"
      /\ ~GoesAstray(p) => kind(n) = LastKind(p)
      /\ HasA(p, "FRAGMENT") => \E i \in 1..n : kind(i) = "FRAGMENT"
      /\ ~Misread(p) => heads = p.heads
  BY WalkedIs DEF IsChain, LastKinds
<1>2. /\ \A i \in 1..n : at(i) \in Nat /\ at(i) <= at(n)
      /\ at(1) = p.hl
  <2> DEFINE S == [kind : HeaderKinds \cup {"LATER"}, size : Nat]
  <2>1. FragSize \in Nat /\ p.hl \in Nat
    BY DEF HeadersAssumption, WellFormed
  <2>2. heads \in Seq(S) /\ \A h \in S : h.size \in Nat
    BY WalkedIs DEF IsChain
  <2> HIDE DEF S, heads
  <2>3. /\ Begins(p.hl, heads, 1, FragSize) = p.hl
        /\ \A i \in 1..(Len(heads) + 1) : Begins(p.hl, heads, i, FragSize) \in Nat
        /\ \A i, j \in 1..(Len(heads) + 1) :
              i <= j => Begins(p.hl, heads, i, FragSize) <= Begins(p.hl, heads, j, FragSize)
    BY <2>1, <2>2, HeadsLie
  <2>4. n \in Nat \ {0}
    BY <1>1
  <2> HIDE DEF n
  <2>5. \A i \in 1..n : i \in 1..(n + 1) /\ i <= n /\ n \in 1..(n + 1)
    BY <2>4
  <2> QED
    BY <2>3, <2>5 DEF n
<1>3. f = CASE late -> [ret |-> 1, at |-> 0, size |-> 0]
            [] ~late /\ kind(m) = want -> [ret |-> 0, at |-> at(m), size |-> heads[m].size]
            [] OTHER -> [ret |-> -1, at |-> 0, size |-> 0]
  BY DEF findheader
<1>4. /\ late => f.ret = 1
      /\ ~late /\ kind(m) = want => f.ret = 0 /\ f.at = at(m)
      /\ ~late /\ kind(m) # want => f.ret = -1
  <2> HIDE DEF late, m, f, at, kind, heads
  <2> QED
    BY <1>3
<1>5. ~Misread(p) => TrueAt(p) = at(n)
  BY <1>1, TransportIs
<1>6. GoesAstray(p) => Misread(p) /\ p.version = 6 /\ HasA(p, "FRAGMENT")
  BY DEF GoesAstray, Misread
<1> HIDE DEF f, at, kind, heads, n
<1>7. CASE p.version = 4
  <2>1. ~Misread(p) /\ ~GoesAstray(p)
    BY <1>7 DEF Misread, GoesAstray
  <2>2. m = 1 /\ n = 1 /\ (late <=> kind(1) = want /\ p.offset # 0)
    <3>1. n = 1
      BY <1>1, <1>7, <2>1 DEF WellFormed, HeadersFit, n
    <3>2. m = 1
      BY <1>7
    <3>3. late <=> kind(m) = want /\ p.offset # 0
      BY <1>7
    <3> HIDE DEF m, late
    <3> QED
      BY <3>1, <3>2, <3>3
  <2>3. f.ret = 0 => kind(n) = want /\ f.at = at(n) /\ p.offset = 0
    BY <1>4, <2>2
  <2>4. kind(n) = want /\ p.offset = 0 => f.ret = 0
    BY <1>4, <2>2
  <2>5. at(n) \in Nat /\ at(n) = p.hl
    BY <1>1, <1>2, <2>2
  <2> QED
    BY <1>1, <1>5, <1>7, <2>1, <2>3, <2>4, <2>5 DEF Finds, f
<1>8. CASE p.version = 6
  <2>1. stops \in SUBSET (1..n) /\ n \in stops
    <3>1. n \in 1..n /\ kind(n) \in {want, "LATER"} \cup LastKinds
      BY <1>1
    <3> QED
      BY <1>1, <3>1
  <2>2. m = Min(stops) /\ (late <=> at(m) > from \/ kind(m) \notin {want} \cup LastKinds)
    BY <1>8
  <2>3. /\ \A i \in 1..n : i \in stops <=> \/ at(i) > from
                                           \/ kind(i) \in {want, "LATER"} \cup LastKinds
                                           \/ kind(i) = "FRAGMENT" /\ LaterFragment(p)
    BY <1>1
  <2> HIDE DEF stops, m, late
  <2>4. m \in stops /\ \A i \in stops : m <= i
    <3>1. \E x \in stops : \A y \in stops : x <= y
      <4>1. stops \in SUBSET Nat /\ stops # {}
        BY <1>1, <2>1
      <4> QED
        BY <4>1, Least
    <3> QED
      BY <2>2, <3>1 DEF Min
  <2>5. m \in 1..n /\ \A i \in 1..n : i < m => i \notin stops
    BY <1>1, <2>1, <2>4
  <2>6. ASSUME f.ret = 0
        PROVE  /\ kind(n) = want /\ f.at = at(n)
               /\ p.offset = 0 \/ ~LaterFragment(p)
    <3>1. kind(m) = want /\ f.at = at(m) /\ ~late
      BY <1>4, <2>6
    <3>2. m = n
      BY <1>1, <2>5, <3>1
    <3>3. ASSUME p.offset # 0
          PROVE  ~LaterFragment(p)
      <4>1. PICK i \in 1..n : kind(i) = "FRAGMENT"
        BY <1>1, <1>8, <3>3 DEF WellFormed, HeadersFit, HasA
      <4>2. i < m
        BY <1>1, <3>2, <4>1 DEF LastKinds
      <4> QED
        BY <2>3, <2>5, <4>1, <4>2
    <3> QED
      BY <3>1, <3>2, <3>3
  <2>7. ASSUME kind(n) = want, p.offset = 0, at(n) <= from
        PROVE  f.ret = 0
    <3>1. at(m) <= from
      BY <1>1, <1>2, <2>5, <2>7
    <3>2. ~LaterFragment(p)
      BY <2>7 DEF LaterFragment
    <3>3. ~(at(m) > from)
      BY <1>2, <2>5, <3>1
    <3>4. kind(m) \in {want, "LATER"} \cup LastKinds
      BY <2>3, <2>4, <2>5, <3>2, <3>3
    <3>5. m = n
      BY <1>1, <2>5, <3>4
    <3> QED
      BY <1>1, <1>4, <2>2, <2>7, <3>3, <3>5
  <2>8. at(n) \in Nat
    BY <1>1, <1>2
  <2>9. f.ret = 0 => /\ LastKind(p) = want \/ GoesAstray(p)
                     /\ f.at \in Nat /\ (f.at = TrueAt(p) \/ Misread(p))
                     /\ p.offset = 0 \/ (p.version = 6 /\ ~LaterFragment(p))
    BY <1>1, <1>5, <1>8, <2>6, <2>8
  <2>10. LastKind(p) = want /\ p.offset = 0 /\ ~Misread(p) /\ TrueAt(p) <= from => f.ret = 0
    BY <1>1, <1>5, <1>6, <2>7
  <2> QED
    BY <1>8, <2>9, <2>10 DEF Finds, f
<1> QED
  BY <1>7, <1>8

\* The number of options that were captured whole.
Readable(p, x) ==
    Max({n \in 0..Len(p.opts) :
           /\ OptionAt(p, x, n + 1) <= p.caplen
           /\ \A i \in 1..n : p.opts[i].said # 0 \/ OneByte(p.opts[i])})

\* The last byte the code reads options up to is the last one captured, unless the
\* packet ends before it, behind its options.
EndsAt(p, x, from) ==
  /\ from \in Int /\ from <= p.caplen - 1 /\ x + TcpHeader <= p.caplen
  /\ from = p.caplen - 1 \/ OptionAt(p, x, Len(p.opts) + 1) <= from

Parsed(p, x, r) ==
  LET w == Readable(p, x) IN
  /\ \/ /\ r.taken = [i \in 1..w |-> i]
        /\ \A i \in 1..w : p.opts[i].kind = "SACK" => r.sacks * 8 + 2 = p.opts[i].len
     \/ /\ r.taken = [i \in 1..(w + 1) |-> i]
        /\ OptionAt(p, x, w + 1) = p.caplen - 1
  /\ r.trunc \in {0, 1}
  /\ r.trunc = 1 => OptionAt(p, x, Len(p.opts) + 1) > p.caplen

\* ParseOptions takes what was captured whole, at most a first byte more, and
\* calls truncated only what is.
LEMMA ParsesRight ==
  ASSUME NEW p, WellFormed(p), ~Misread(p), NEW x \in Nat, NEW from, EndsAt(p, x, from),
         NEW stray \in 0..2
  PROVE  Parsed(p, x, ParseOptions(p, x, from, stray))
<1> DEFINE n == Len(p.opts)
           pos(i) == OptionAt(p, x, i)
           plen(i) == IF pos(i) + 1 > from THEN stray ELSE p.opts[i].said
           fits(i) == /\ pos(i) <= from
                      /\ OneByte(p.opts[i]) \/ (plen(i) > 0 /\ pos(i) + plen(i) - 1 <= from)
           half(i) == fits(i) /\ ~OneByte(p.opts[i]) /\ pos(i) = from
           stops == {i \in DOMAIN p.opts : ~fits(i) \/ half(i)} \cup {n + 1}
           stop == Min(stops)
           taken == IF stop <= n /\ half(stop) THEN stop ELSE stop - 1
           sacks == {i \in 1..taken : p.opts[i].kind = "SACK"}
           said(i) == IF half(i) \/ plen(i) < 2 THEN 0 ELSE (plen(i) - 2) \div 8
           over(i) == pos(i) <= from /\ ~OneByte(p.opts[i]) /\ plen(i) = 0
           r == ParseOptions(p, x, from, stray)
           whole(i) == pos(i + 1) <= p.caplen /\ (p.opts[i].said # 0 \/ OneByte(p.opts[i]))
           ok == {m \in 0..n : pos(m + 1) <= p.caplen
                                 /\ \A i \in 1..m : p.opts[i].said # 0 \/ OneByte(p.opts[i])}
<1>1. /\ n \in Nat /\ DOMAIN p.opts = 1..n
      /\ pos(1) = x + TcpHeader
      /\ \A i \in 1..(n + 1) : pos(i) \in Nat
      /\ \A i \in 1..n : pos(i + 1) = pos(i) + p.opts[i].len
      /\ \A i, j \in 1..(n + 1) : i <= j => pos(i) <= pos(j)
  BY OptionsLie
<1>2. r.taken = [i \in 1..taken |-> i]
  BY DEF ParseOptions
<1>3. r.sacks = IF sacks = {} THEN -1 ELSE said(Max(sacks))
  BY DEF ParseOptions
<1>4. r.trunc = IF stop <= n /\ ~over(stop) THEN 1 ELSE 0
  BY DEF ParseOptions
<1>5. Readable(p, x) = Max(ok)
  BY DEF Readable
<1> HIDE DEF r, pos, n
<1>6. ASSUME NEW i \in 1..n
      PROVE  /\ p.opts[i].len \in Nat /\ p.opts[i].said \in Nat
             /\ OneByte(p.opts[i]) => p.opts[i].len = 1 /\ p.opts[i].kind # "SACK"
             /\ ~OneByte(p.opts[i]) => p.opts[i].len >= 2 /\ p.opts[i].said \in {0, p.opts[i].len}
             /\ p.opts[i].kind = "SACK" => p.opts[i].len % 8 = 2
  <2> DEFINE S == [kind : STRING, len : Nat, said : Nat]
  <2>1. p.opts \in Seq(S) /\ \A o \in S : o.len \in Nat /\ o.said \in Nat
    BY DEF WellFormed, OptionsFit
  <2> HIDE DEF S
  <2>2. p.opts[i] \in S
    BY <2>1, ElementOfSeq DEF n
  <2>3. OneByte(p.opts[i]) => p.opts[i].kind # "SACK"
    BY DEF OneByte
  <2> QED
    BY <1>1, <2>1, <2>2, <2>3 DEF WellFormed, OptionsFit, OptionsHaveLengths
<1>7. \A i, j \in 1..n : p.opts[i].kind = "SACK" /\ p.opts[j].kind = "SACK" => i = j
  BY <1>1 DEF WellFormed, OptionsFit, OptionsHaveLengths
<1>8. /\ from \in Int /\ from <= p.caplen - 1 /\ x + TcpHeader <= p.caplen /\ p.caplen \in Nat
      /\ from = p.caplen - 1 \/ pos(n + 1) <= from
  BY DEF EndsAt, pos, n, WellFormed
<1>9. ASSUME NEW i \in 1..n
      PROVE  /\ pos(i) \in Nat /\ pos(i + 1) = pos(i) + p.opts[i].len
             /\ pos(i + 1) \in Nat /\ pos(i + 1) <= pos(n + 1) /\ pos(n + 1) \in Nat
             /\ pos(i) >= pos(1)
  <2>1. i \in 1..(n + 1) /\ i + 1 \in 1..(n + 1) /\ n + 1 \in 1..(n + 1) /\ i + 1 <= n + 1
        /\ 1 \in 1..(n + 1) /\ 1 <= i
    BY <1>1
  <2> QED
    BY <1>1, <2>1
\* What is taken whole was captured whole, and nothing else.
<1>10. ASSUME NEW i \in 1..n, fits(i), ~half(i)
       PROVE  whole(i) /\ (~OneByte(p.opts[i]) => plen(i) = p.opts[i].len)
  BY <1>6, <1>8, <1>9, <1>10
<1>11. ASSUME NEW i \in 1..n, ~fits(i) \/ half(i)
       PROVE  ~whole(i)
  BY <1>6, <1>8, <1>9, <1>11
<1>12. ASSUME NEW i \in 1..n, half(i)
       PROVE  pos(i) = p.caplen - 1
  BY <1>6, <1>8, <1>9, <1>12
<1>13. ASSUME NEW i \in 1..n, ~fits(i) \/ half(i), ~over(i)
       PROVE  pos(n + 1) > p.caplen
  BY <1>6, <1>8, <1>9, <1>13
<1> HIDE DEF fits, half, over
<1>14. /\ stop \in 1..(n + 1)
       /\ stop <= n => ~fits(stop) \/ half(stop)
       /\ \A i \in 1..n : i < stop => fits(i) /\ ~half(i)
  <2>1. stops \in SUBSET Nat /\ stops # {}
    BY <1>1
  <2>2. \A i \in stops : i \in 1..(n + 1) /\ (i <= n => ~fits(i) \/ half(i))
    BY <1>1
  <2>3. \A i \in 1..n : i \notin stops => fits(i) /\ ~half(i)
    BY <1>1
  <2> HIDE DEF stops
  <2>4. stop \in stops /\ \A i \in stops : stop <= i
    <3>1. \E m \in stops : \A i \in stops : m <= i
      BY <2>1, Least
    <3> QED
      BY <3>1 DEF Min
  <2> HIDE DEF stop
  <2>5. \A i \in 1..n : i < stop => i \notin stops
    BY <2>2, <2>4
  <2> QED
    BY <2>2, <2>3, <2>4, <2>5
<1> HIDE DEF stop
<1>15. Readable(p, x) = stop - 1
  <2>1. stop - 1 \in ok
    <3>1. \A i \in 1..(stop - 1) : whole(i)
      BY <1>1, <1>10, <1>14
    <3>2. pos((stop - 1) + 1) <= p.caplen
      <4>1. CASE stop = 1
        BY <1>1, <1>8, <4>1
      <4>2. CASE stop # 1
        <5>1. stop - 1 \in 1..(stop - 1)
          BY <1>14, <4>2
        <5> QED
          BY <3>1, <5>1
      <4> QED
        BY <4>1, <4>2
    <3> QED
      BY <1>1, <1>14, <3>1, <3>2
  <2>2. ASSUME NEW m \in ok
        PROVE  stop - 1 >= m
    <3> SUFFICES ASSUME m >= stop
                 PROVE  FALSE
      BY <1>1, <1>14
    <3>1. stop \in 1..n /\ stop \in 1..m /\ m \in 0..n
      BY <1>1, <1>14
    <3>2. ~whole(stop)
      BY <1>11, <1>14, <3>1
    <3>3. pos(stop + 1) <= pos(m + 1)
      BY <1>1, <3>1
    <3>4. pos(m + 1) <= p.caplen /\ (p.opts[stop].said # 0 \/ OneByte(p.opts[stop]))
      BY <3>1
    <3>5. pos(stop + 1) \in Nat /\ pos(m + 1) \in Nat
      BY <1>1, <3>1
    <3> QED
      BY <1>8, <3>2, <3>3, <3>4, <3>5
  <2> HIDE DEF ok
  <2>3. \A m \in ok : m \in Int
    BY <1>1 DEF ok
  <2>4. Max(ok) = stop - 1
    <3>1. \A a, b \in ok : a >= b /\ b >= a => a = b
      BY <2>3
    <3> QED
      BY <2>1, <2>2, <3>1 DEF Max
  <2> QED
    BY <1>5, <2>4
<1> DEFINE w == stop - 1
<1>16. CASE stop <= n /\ half(stop)
  <2>1. taken = w + 1 /\ stop = w + 1 /\ stop \in 1..n
    BY <1>14, <1>16
  <2>2. r.taken = [i \in 1..(w + 1) |-> i]
    BY <1>2, <2>1
  <2>3. pos(w + 1) = p.caplen - 1
    BY <1>12, <1>16, <2>1
  <2>4. r.trunc \in {0, 1} /\ (r.trunc = 1 => pos(n + 1) > p.caplen)
    BY <1>4, <1>13, <1>16, <2>1
  <2> QED
    BY <1>15, <2>2, <2>3, <2>4 DEF Parsed, pos, n, r
<1>17. CASE ~(stop <= n /\ half(stop))
  <2>1. taken = w /\ w \in 0..n
    BY <1>1, <1>14, <1>17
  <2>2. r.taken = [i \in 1..w |-> i]
    BY <1>2, <2>1
  <2>3. ASSUME NEW i \in 1..w, p.opts[i].kind = "SACK"
        PROVE  r.sacks * 8 + 2 = p.opts[i].len
    <3>1. /\ i \in 1..n /\ fits(i) /\ ~half(i)
          /\ \A j \in 1..w : j \in 1..n
      <4>1. \A j \in 1..w : j \in 1..n /\ j < stop
        BY <1>1, <1>14
      <4> QED
        BY <1>14, <4>1
    <3>2. sacks = {i}
      <4>1. sacks = {j \in 1..w : p.opts[j].kind = "SACK"}
        BY <2>1
      <4>2. \A j \in 1..w : p.opts[j].kind = "SACK" => j = i
        BY <1>7, <2>3, <3>1
      <4> HIDE DEF sacks, w
      <4> QED
        BY <2>3, <4>1, <4>2
    <3>3. Max(sacks) = i
      <4>1. Max({i}) = i
        BY DEF Max
      <4> QED
        BY <3>2, <4>1
    <3>4. r.sacks = said(i)
      <4> HIDE DEF sacks, said
      <4> QED
        BY <1>3, <3>2, <3>3
    <3>5. said(i) = (p.opts[i].len - 2) \div 8
      BY <1>6, <1>10, <2>3, <3>1
    <3>6. p.opts[i].len \in Nat /\ p.opts[i].len % 8 = 2
      BY <1>6, <2>3, <3>1
    <3>7. \A l \in Nat : l % 8 = 2 => ((l - 2) \div 8) * 8 + 2 = l
      OBVIOUS
    <3> QED
      BY <3>4, <3>5, <3>6, <3>7
  <2>4. r.trunc \in {0, 1} /\ (r.trunc = 1 => pos(n + 1) > p.caplen)
    BY <1>4, <1>13, <1>14
  <2> QED
    BY <1>15, <2>2, <2>3, <2>4 DEF Parsed, pos, n, r
<1> QED
  BY <1>16, <1>17

-----------------------------------------------------------------------------
(* The inductive invariant: the verdict on the last packet is true of it, and *)
(* what is cut is counted, while the next packet is one that arrived.        *)

\* A first fragment whose TCP header was captured.
First(p) ==
  /\ p # << >> /\ CarriesTcp(p) /\ p.offset = 0 /\ ~Misread(p)
  /\ TrueAt(p) + TcpHeader <= p.caplen

TrueVerdict(v, c) ==
  LET p == v.of
      n == WholeOptions(p)
      seen == p.caplen >= p.iplen /\ p.offset = 0 /\ ~p.more
  IN /\ v.fate = "tcp" =>
          /\ p.version \in {4, 6} /\ p.ether /\ v.at + TcpHeader <= p.caplen
          /\ CarriesTcp(p) \/ GoesAstray(p)
          /\ p.offset = 0 \/ (p.version = 6 /\ ~LaterFragment(p))
          /\ v.at = TrueAt(p) \/ Misread(p)
     /\ First(p) => v.fate \in {"tcp", "bad", "hung"}
     /\ v.fate = "hung" => HasA(p, "OTHER") \/ (GoesAstray(p) /\ HasA(p, "ICMPV6"))
     /\ (v.fate = "tcp" /\ ~Misread(p)) =>
          \/ /\ v.taken = [i \in 1..n |-> i]
             /\ \A i \in 1..n : p.opts[i].kind = "SACK" => v.sacks * 8 + 2 = p.opts[i].len
          \/ /\ v.taken = [i \in 1..(n + 1) |-> i]
             /\ OptionAt(p, TrueAt(p), n + 1) = p.caplen - 1
     /\ (p # << >> /\ p.version = 4) =>
          /\ v.fate = "bad" => c.verify /\ ~(p.ipintact /\ p.intact)
          /\ (c.verify /\ seen /\ ~(p.ipintact /\ p.intact)) => v.fate \notin {"tcp", "udp"}
                                                                  \/ ~p.summed

Tallies == [pnum : Nat, ctrunc : Nat, bad : Nat, tcp : Nat, udp : Nat, cut : Nat]

HeadersInv ==
  /\ checks \in [verify : BOOLEAN, udp : BOOLEAN]
  /\ tally \in Tallies /\ tally.ctrunc <= tally.cut
  /\ pkt # << >> => pkt \in Arriving /\ plast = pkt.caplen - 1
  /\ TrueVerdict(verdict, checks)

LEMMA TrueIsTrue ==
  HeadersInv => HeadersAreTrue
<1>1. TrueVerdict(verdict, checks) => AnalysedAreWhole
  BY DEF TrueVerdict, AnalysedAreWhole, First
<1>2. TrueVerdict(verdict, checks) /\ tally.ctrunc <= tally.cut => OptionsAreWhole
  BY DEF TrueVerdict, OptionsAreWhole
<1>3. TrueVerdict(verdict, checks) => DamagedAreRefused
  BY DEF TrueVerdict, DamagedAreRefused
<1> QED
  BY <1>1, <1>2, <1>3 DEF HeadersInv, HeadersAreTrue

\* The packet that is looked at, and what findheader says of it.
LEMMA LookedAt ==
  ASSUME HeadersAssumption, HeadersInv, Understood
  PROVE  /\ pkt # << >> /\ pkt \in Arriving /\ WellFormed(pkt) /\ pkt.version \in {4, 6} /\ pkt.ether
         /\ pkt.caplen \in Nat /\ pkt.iplen \in Nat /\ plast = pkt.caplen - 1 /\ plast \in Int
         /\ Finds(pkt, "TCP", plast) /\ Finds(pkt, "UDP", plast)
<1>1. /\ pkt # << >> /\ pkt \in Arriving /\ WellFormed(pkt) /\ pkt.version \in {4, 6} /\ pkt.ether
      /\ plast = pkt.caplen - 1
  BY DEF Understood, HeadersInv, HeadersAssumption
<1>2. pkt.caplen \in Nat /\ pkt.iplen \in Nat
  BY <1>1 DEF WellFormed
<1>3. plast \in Int
  BY <1>1, <1>2
<1> QED
  BY <1>1, <1>2, <1>3, FindsIt

\* Nothing is to be said of a packet that is left out, unless it was to be analysed.
LEMMA LeftOut ==
  ASSUME NEW p, ~First(p), NEW fate, fate \notin {"tcp", "hung", "bad", "udp"},
         NEW x, NEW taken, NEW sacks, NEW c
  PROVE  TrueVerdict([of |-> p, fate |-> fate, at |-> x, taken |-> taken, sacks |-> sacks], c)
  BY DEF TrueVerdict

LEMMA FirstIsFound ==
  ASSUME HeadersAssumption, HeadersInv, Understood, First(pkt)
  PROVE  Tcp.ret = 0 /\ Tcp.at = TrueAt(pkt)
<1>1. /\ WellFormed(pkt) /\ pkt.caplen \in Nat /\ plast = pkt.caplen - 1 /\ pkt.version \in {4, 6}
      /\ Finds(pkt, "TCP", plast)
  BY LookedAt
<1>2. /\ LastKind(pkt) = "TCP" /\ TrueAt(pkt) = Begins(pkt.hl, pkt.heads, Len(pkt.heads), FragSize)
      /\ Len(pkt.heads) \in Nat \ {0}
  BY <1>1, TransportIs DEF First, CarriesTcp, LastKinds
<1>3. TrueAt(pkt) \in Nat
  <2> DEFINE S == [kind : HeaderKinds, size : Nat]
             n == Len(pkt.heads)
  <2>1. FragSize \in Nat /\ pkt.hl \in Nat /\ pkt.heads \in Seq(S) /\ \A h \in S : h.size \in Nat
    BY <1>1 DEF HeadersAssumption, WellFormed, HeadersFit, IsChain
  <2>2. n \in Nat \ {0}
    BY <1>2
  <2> HIDE DEF S
  <2>3. \A i \in 1..(n + 1) : Begins(pkt.hl, pkt.heads, i, FragSize) \in Nat
    BY <2>1, HeadsLie
  <2> HIDE DEF n
  <2>4. n \in 1..(n + 1)
    BY <2>2
  <2> QED
    BY <1>2, <2>3, <2>4 DEF n
<1>4. TrueAt(pkt) <= plast
  BY <1>1, <1>3 DEF First, TcpHeader
<1>5. Tcp.ret = 0
  BY <1>1, <1>2, <1>4 DEF Finds, Tcp, First
<1> QED
  BY <1>1, <1>5 DEF Finds, Tcp, First

\* Where the packet or its capture ends.
LEMMA CutIs ==
  ASSUME HeadersAssumption, HeadersInv, Understood, Tcp.ret = 0
  PROVE  /\ Cut(pkt, plast) \in Int /\ Cut(pkt, plast) <= pkt.caplen - 1 /\ Tcp.at \in Nat
         /\ \/ Cut(pkt, plast) = pkt.caplen - 1
            \/ OptionAt(pkt, Tcp.at, Len(pkt.opts) + 1) <= Cut(pkt, plast)
         /\ LastKind(pkt) = "TCP" \/ GoesAstray(pkt)
         /\ Tcp.at + TcpHeader <= OptionAt(pkt, Tcp.at, Len(pkt.opts) + 1)
         /\ OptionAt(pkt, Tcp.at, Len(pkt.opts) + 1) \in Nat
         /\ pkt.version = 4 => Tcp.at = pkt.hl
<1>1. /\ WellFormed(pkt) /\ pkt.caplen \in Nat /\ pkt.iplen \in Nat /\ plast = pkt.caplen - 1
      /\ Finds(pkt, "TCP", plast) /\ pkt.version \in {4, 6}
  BY LookedAt
<1>2. /\ Tcp.at \in Nat /\ (LastKind(pkt) = "TCP" \/ GoesAstray(pkt))
      /\ pkt.version = 4 => LastKind(pkt) = "TCP" /\ Tcp.at = pkt.hl
  BY <1>1 DEF Finds, Tcp
<1>3. /\ Len(pkt.opts) \in Nat /\ OptionAt(pkt, Tcp.at, 1) = Tcp.at + TcpHeader
      /\ \A i \in 1..(Len(pkt.opts) + 1) : OptionAt(pkt, Tcp.at, i) \in Nat
      /\ \A i, j \in 1..(Len(pkt.opts) + 1) :
             i <= j => OptionAt(pkt, Tcp.at, i) <= OptionAt(pkt, Tcp.at, j)
  BY <1>1, <1>2, OptionsLie
<1>4. /\ OptionAt(pkt, Tcp.at, Len(pkt.opts) + 1) \in Nat
      /\ Tcp.at + TcpHeader <= OptionAt(pkt, Tcp.at, Len(pkt.opts) + 1)
  <2>1. /\ 1 \in 1..(Len(pkt.opts) + 1) /\ Len(pkt.opts) + 1 \in 1..(Len(pkt.opts) + 1)
        /\ 1 <= Len(pkt.opts) + 1
    BY <1>3
  <2> QED
    BY <1>3, <2>1
<1>5. CASE pkt.version = 4 /\ pkt.iplen - 1 < plast
  <2>1. Cut(pkt, plast) = pkt.iplen
    BY <1>5 DEF Cut
  <2>2. OptionAt(pkt, pkt.hl, Len(pkt.opts) + 1) <= pkt.iplen
    BY <1>1, <1>2, <1>5 DEF WellFormed, HeadersFit, LastKind
  <2> QED
    BY <1>1, <1>2, <1>4, <1>5, <2>1, <2>2
<1>6. CASE ~(pkt.version = 4 /\ pkt.iplen - 1 < plast)
  <2>1. Cut(pkt, plast) = plast
    BY <1>6 DEF Cut
  <2> QED
    BY <1>1, <1>2, <1>4, <2>1
<1> QED
  BY <1>5, <1>6

-----------------------------------------------------------------------------
(* Each step keeps the invariant.                                          *)

\* What is left when the verdict of the packet is known.
LEMMA JudgedKeeps ==
  ASSUME HeadersInv, UNCHANGED checks, pkt' = << >>,
         tally' \in Tallies, tally'.ctrunc <= tally'.cut, TrueVerdict(verdict', checks)
  PROVE  HeadersInv'
<1>1. (checks \in [verify : BOOLEAN, udp : BOOLEAN])'
  BY DEF HeadersInv
<1>2. TrueVerdict(verdict, checks)'
  <2>1. TrueVerdict(verdict', checks')
    OBVIOUS
  <2> QED
    BY <2>1 DEF TrueVerdict, First, WholeOptions, OptionAt, TrueAt, Begins, Laid, Transport,
                CarriesTcp, HasA, LaterFragment, LastKinds, TcpHeader, OneByte,
                Misread, GoesAstray, FirstFragment
<1> QED
  BY <1>1, <1>2 DEF HeadersInv

LEMMA ArrivingKeeps ==
  ASSUME HeadersInv, ArrivingPacket
  PROVE  HeadersInv'
<1>1. /\ UNCHANGED checks /\ verdict' = NoVerdict
      /\ pkt' \in Arriving /\ plast' = pkt'.caplen - 1
      /\ tally' = [tally EXCEPT !.pnum = @ + 1]
  BY DEF ArrivingPacket
<1>2. tally' \in Tallies /\ tally'.ctrunc <= tally'.cut
  BY <1>1 DEF HeadersInv, Tallies
<1>3. TrueVerdict(NoVerdict, checks)
  BY DEF TrueVerdict, NoVerdict, First
<1>4. TrueVerdict(verdict, checks)'
  <2>1. TrueVerdict(verdict', checks')
    BY <1>1, <1>3
  <2> QED
    BY <2>1 DEF TrueVerdict, First, WholeOptions, OptionAt, TrueAt, Begins, Laid, Transport,
                CarriesTcp, HasA, LaterFragment, LastKinds, TcpHeader, OneByte,
                Misread, GoesAstray, FirstFragment
<1>5. (checks \in [verify : BOOLEAN, udp : BOOLEAN])'
  BY <1>1 DEF HeadersInv
<1> QED
  BY <1>1, <1>2, <1>4, <1>5 DEF HeadersInv

LEMMA SkipKeeps ==
  ASSUME HeadersAssumption, HeadersInv, SkipStrange
  PROVE  HeadersInv'
<1>1. /\ pkt # << >> /\ ~Understood /\ UNCHANGED <<tally, checks>> /\ pkt' = << >>
      /\ verdict' = [of |-> pkt, fate |-> "skipped", at |-> 0, taken |-> << >>, sacks |-> -1]
  BY DEF SkipStrange, Judge
<1>2. ~First(pkt)
  BY <1>1 DEF First, CarriesTcp, Understood
<1>3. TrueVerdict(verdict', checks)
  BY <1>1, <1>2, LeftOut
<1> QED
  BY <1>1, <1>3, JudgedKeeps DEF HeadersInv

LEMMA BadIpKeeps ==
  ASSUME HeadersAssumption, HeadersInv, BadIpChecksum
  PROVE  HeadersInv'
<1>1. /\ Understood /\ checks.verify /\ ~ip_cksum_valid(pkt, plast)
      /\ UNCHANGED checks /\ pkt' = << >> /\ tally' = [tally EXCEPT !.bad = @ + 1]
      /\ verdict' = [of |-> pkt, fate |-> "bad", at |-> 0, taken |-> << >>, sacks |-> -1]
  BY DEF BadIpChecksum, Judge, Verified, HeadersInv
<1>2. ~pkt.ipintact
  BY <1>1 DEF ip_cksum_valid
<1>3. TrueVerdict(verdict', checks)
  BY <1>1, <1>2 DEF TrueVerdict
<1>4. tally' \in Tallies /\ tally'.ctrunc <= tally'.cut
  BY <1>1 DEF HeadersInv, Tallies
<1> QED
  BY <1>1, <1>3, <1>4, JudgedKeeps

LEMMA NoHeaderKeeps ==
  ASSUME HeadersAssumption, HeadersInv, NoHeader
  PROVE  HeadersInv'
<1>1. /\ Understood /\ Tcp.ret # 0 /\ UNCHANGED <<tally, checks>> /\ pkt' = << >>
      /\ verdict' = [of |-> pkt, fate |-> "no header", at |-> 0, taken |-> << >>, sacks |-> -1]
  <2>1. Tcp.ret > 0 \/ Tcp.ret < 0
    BY DEF NoHeader
  <2>2. Tcp.ret # 0
    <3> SUFFICES ASSUME Tcp.ret = 0
                 PROVE  FALSE
      OBVIOUS
    <3>1. ~(Tcp.ret > 0) /\ ~(Tcp.ret < 0)
      OBVIOUS
    <3> QED
      BY <2>1, <3>1
  <2> QED
    BY <2>2 DEF NoHeader, Judge, Verified
<1>2. ~First(pkt)
  BY <1>1, FirstIsFound
<1>3. TrueVerdict(verdict', checks)
  BY <1>1, <1>2, LeftOut
<1> QED
  BY <1>1, <1>3, JudgedKeeps DEF HeadersInv

LEMMA NeitherKeeps ==
  ASSUME HeadersAssumption, HeadersInv, NeitherTcpNorUdp
  PROVE  HeadersInv'
<1>1. /\ Understood /\ Tcp.ret # 0 /\ UNCHANGED <<tally, checks>> /\ pkt' = << >>
      /\ verdict' = [of |-> pkt, fate |-> "other", at |-> 0, taken |-> << >>, sacks |-> -1]
  BY DEF NeitherTcpNorUdp, Judge, Verified
<1>2. ~First(pkt)
  BY <1>1, FirstIsFound
<1>3. TrueVerdict(verdict', checks)
  BY <1>1, <1>2, LeftOut
<1> QED
  BY <1>1, <1>3, JudgedKeeps DEF HeadersInv

\* What is counted as truncated is counted as cut.
LEMMA Counted ==
  ASSUME NEW t \in Tallies, NEW a \in Nat, NEW b \in Nat, a <= b
  PROVE  LET r == [t EXCEPT !.ctrunc = a, !.cut = b] IN r \in Tallies /\ r.ctrunc <= r.cut
<1> DEFINE s == [t EXCEPT !.ctrunc = a]
           r == [s EXCEPT !.cut = b]
<1>1. s \in Tallies /\ s.ctrunc = a
  BY DEF Tallies
<1>2. [t EXCEPT !.ctrunc = a, !.cut = b] = r
  OBVIOUS
<1> HIDE DEF s
<1>3. r \in Tallies /\ r.ctrunc = a /\ r.cut = b
  BY <1>1 DEF Tallies
<1> QED
  BY <1>2, <1>3

LEMMA TruncatedKeeps ==
  ASSUME HeadersAssumption, HeadersInv, TruncatedSegment
  PROVE  HeadersInv'
<1>1. /\ Understood /\ Tcp.ret = 0 /\ UNCHANGED checks /\ plast' = Cut(pkt, plast)
  BY DEF TruncatedSegment, Verified
<1>2. CASE checks.verify /\ ~tcp_cksum_valid(pkt, Tcp.at, plast')
  <2>1. /\ pkt' = << >> /\ tally' = [tally EXCEPT !.bad = @ + 1]
        /\ verdict' = [of |-> pkt, fate |-> "bad", at |-> 0, taken |-> << >>, sacks |-> -1]
    BY <1>2 DEF TruncatedSegment, Judge
  <2>2. pkt.version = 4 => ~pkt.intact
    BY <1>2 DEF tcp_cksum_valid
  <2>3. TrueVerdict(verdict', checks)
    BY <1>2, <2>1, <2>2 DEF TrueVerdict
  <2>4. tally' \in Tallies /\ tally'.ctrunc <= tally'.cut
    BY <2>1 DEF HeadersInv, Tallies
  <2> QED
    BY <1>1, <2>1, <2>3, <2>4, JudgedKeeps
<1>3. CASE ~(checks.verify /\ ~tcp_cksum_valid(pkt, Tcp.at, plast'))
  <2>1. /\ Tcp.at + TcpHeader - 1 > plast' /\ pkt' = << >>
        /\ tally' = [tally EXCEPT !.ctrunc = @ + 1, !.cut = @ + 1]
        /\ verdict' = [of |-> pkt, fate |-> "truncated", at |-> Tcp.at, taken |-> << >>, sacks |-> -1]
    BY <1>3 DEF TruncatedSegment, Judge
  <2>2. ~First(pkt)
    <3> SUFFICES ASSUME First(pkt)
                 PROVE  FALSE
      OBVIOUS
    <3>1. Tcp.at = TrueAt(pkt) /\ TrueAt(pkt) + TcpHeader <= pkt.caplen
      BY <1>1, FirstIsFound DEF First
    <3>2. /\ plast' \in Int /\ plast' <= pkt.caplen - 1 /\ Tcp.at \in Nat
          /\ \/ plast' = pkt.caplen - 1
             \/ OptionAt(pkt, Tcp.at, Len(pkt.opts) + 1) <= plast'
          /\ Tcp.at + TcpHeader <= OptionAt(pkt, Tcp.at, Len(pkt.opts) + 1)
          /\ OptionAt(pkt, Tcp.at, Len(pkt.opts) + 1) \in Nat
      BY <1>1, CutIs
    <3>3. pkt.caplen \in Nat
      BY <1>1, LookedAt
    <3> QED
      BY <2>1, <3>1, <3>2, <3>3 DEF TcpHeader
  <2>3. TrueVerdict(verdict', checks)
    BY <2>1, <2>2, LeftOut
  <2>4. tally' \in Tallies /\ tally'.ctrunc <= tally'.cut
    <3>1. tally \in Tallies /\ tally.ctrunc <= tally.cut
      BY DEF HeadersInv
    <3>2. tally.ctrunc + 1 \in Nat /\ tally.cut + 1 \in Nat /\ tally.ctrunc + 1 <= tally.cut + 1
      BY <3>1 DEF Tallies
    <3>3. tally' = [tally EXCEPT !.ctrunc = tally.ctrunc + 1, !.cut = tally.cut + 1]
      BY <2>1
    <3> QED
      BY <3>1, <3>2, <3>3, Counted
  <2> QED
    BY <1>1, <2>1, <2>3, <2>4, JudgedKeeps
<1> QED
  BY <1>2, <1>3

\* Of a damaged segment that can be verified, the checksum tells.
LEMMA VerifiedIsIntact ==
  ASSUME HeadersAssumption, HeadersInv, Verified, Tcp.ret = 0, checks.verify,
         tcp_cksum_valid(pkt, Tcp.at, Cut(pkt, plast)),
         pkt.version = 4, pkt.caplen >= pkt.iplen, pkt.offset = 0, ~pkt.more
  PROVE  pkt.ipintact /\ pkt.intact
<1>1. /\ WellFormed(pkt) /\ pkt.caplen \in Nat /\ pkt.iplen \in Nat /\ plast = pkt.caplen - 1
      /\ Understood
  BY LookedAt DEF Verified
<1>2. pkt.hl <= pkt.iplen /\ pkt.hl \in Nat
  BY <1>1 DEF WellFormed, HeadersFit
<1>3. Tcp.at = pkt.hl
  BY <1>1, CutIs
<1>4. ip_cksum_valid(pkt, plast)
  BY DEF Verified
<1>5. pkt.ipintact
  BY <1>1, <1>2, <1>4 DEF ip_cksum_valid
<1>6. Cut(pkt, plast) = IF pkt.iplen - 1 < plast THEN pkt.iplen ELSE plast
  BY DEF Cut
<1>7. \/ Cut(pkt, plast) < pkt.hl + (pkt.iplen - pkt.hl) - 1
      \/ pkt.intact
  BY <1>3 DEF tcp_cksum_valid
<1>8. pkt.intact
  BY <1>1, <1>2, <1>6, <1>7
<1> QED
  BY <1>5, <1>8

LEMMA TraceKeeps ==
  ASSUME HeadersAssumption, HeadersInv, TraceSegment
  PROVE  HeadersInv'
<1> DEFINE from == Cut(pkt, plast)
           x == Tcp.at
           end == OptionAt(pkt, x, Len(pkt.opts) + 1)
<1>1. /\ Verified /\ Understood /\ Tcp.ret = 0 /\ UNCHANGED checks
      /\ checks.verify => tcp_cksum_valid(pkt, x, from)
      /\ x + TcpHeader - 1 <= from
  BY DEF TraceSegment, Verified
<1>2. PICK stray \in 0..2 :
        /\ IF gethdrlength(pkt, from)
           THEN Judge("tcp", x, ParseOptions(pkt, x, from, stray).taken,
                      ParseOptions(pkt, x, from, stray).sacks)
           ELSE Judge("hung", x, << >>, -1)
        /\ tally' = [tally EXCEPT !.tcp = IF gethdrlength(pkt, from) THEN @ + 1 ELSE @,
                                  !.ctrunc = @ + ParseOptions(pkt, x, from, stray).trunc,
                                  !.cut = IF Misread(pkt) THEN @ + ParseOptions(pkt, x, from, stray).trunc
                                          ELSE IF end > pkt.caplen THEN @ + 1 ELSE @]
  BY DEF TraceSegment
<1> DEFINE r == ParseOptions(pkt, x, from, stray)
           w == Readable(pkt, x)
<1>3. /\ pkt # << >> /\ WellFormed(pkt) /\ pkt.version \in {4, 6} /\ pkt.ether /\ pkt.caplen \in Nat
      /\ Finds(pkt, "TCP", plast)
  BY <1>1, LookedAt
<1>4. /\ from \in Int /\ from <= pkt.caplen - 1 /\ x \in Nat
      /\ from = pkt.caplen - 1 \/ end <= from
      /\ LastKind(pkt) = "TCP" \/ GoesAstray(pkt)
      /\ end \in Nat
  BY <1>1, CutIs
<1>5. /\ pkt.offset = 0 \/ (pkt.version = 6 /\ ~LaterFragment(pkt))
      /\ x = TrueAt(pkt) \/ Misread(pkt)
  BY <1>1, <1>3 DEF Finds, Tcp
<1>6. CarriesTcp(pkt) \/ GoesAstray(pkt)
  BY <1>3, <1>4, TransportIs DEF CarriesTcp, LastKinds
<1>7. EndsAt(pkt, x, from)
  BY <1>1, <1>3, <1>4 DEF EndsAt, TcpHeader
<1>8. ~Misread(pkt) => Parsed(pkt, x, r)
  BY <1>3, <1>4, <1>7, ParsesRight
<1>13. r.trunc \in {0, 1}
  BY DEF ParseOptions
<1> HIDE DEF from, x, end, r, w
<1>9. tally' \in Tallies /\ tally'.ctrunc <= tally'.cut
  <2>1. r.trunc \in {0, 1} /\ (~Misread(pkt) /\ r.trunc = 1 => end > pkt.caplen)
    BY <1>8, <1>13 DEF Parsed, end
  <2>2. tally' = [tally EXCEPT !.tcp = IF gethdrlength(pkt, from) THEN @ + 1 ELSE @,
                               !.ctrunc = @ + r.trunc,
                               !.cut = IF Misread(pkt) THEN @ + r.trunc
                                       ELSE IF end > pkt.caplen THEN @ + 1 ELSE @]
    BY <1>2 DEF r
  <2>3. tally \in Tallies /\ tally.ctrunc <= tally.cut
    BY DEF HeadersInv
  <2> DEFINE q == IF gethdrlength(pkt, from) THEN tally.tcp + 1 ELSE tally.tcp
             a == tally.ctrunc + r.trunc
             b == IF Misread(pkt) THEN tally.cut + r.trunc
                  ELSE IF end > pkt.caplen THEN tally.cut + 1 ELSE tally.cut
  <2>4. tally' = [tally EXCEPT !.tcp = q, !.ctrunc = a, !.cut = b]
    BY <2>2
  <2>5. q \in Nat /\ a \in Nat /\ b \in Nat /\ a <= b
    BY <2>1, <2>3 DEF Tallies
  <2> HIDE DEF q, a, b
  <2> DEFINE t == [tally EXCEPT !.tcp = q]
  <2>6. t \in Tallies /\ tally' = [t EXCEPT !.ctrunc = a, !.cut = b]
    BY <2>3, <2>4, <2>5 DEF Tallies
  <2> HIDE DEF t
  <2> QED
    BY <2>5, <2>6, Counted
<1>10. pkt.version = 4 /\ checks.verify /\ pkt.caplen >= pkt.iplen /\ pkt.offset = 0 /\ ~pkt.more
          => pkt.ipintact /\ pkt.intact
  BY <1>1, VerifiedIsIntact DEF from, x
<1>11. CASE gethdrlength(pkt, from)
  <2>1. /\ pkt' = << >>
        /\ verdict' = [of |-> pkt, fate |-> "tcp", at |-> x, taken |-> r.taken, sacks |-> r.sacks]
    BY <1>2, <1>11 DEF Judge, r
  <2>2. x + TcpHeader <= pkt.caplen
    BY <1>7 DEF EndsAt
  <2>3. ASSUME ~Misread(pkt)
        PROVE  LET n == WholeOptions(pkt) IN
               \/ /\ r.taken = [i \in 1..n |-> i]
                  /\ \A i \in 1..n : pkt.opts[i].kind = "SACK" => r.sacks * 8 + 2 = pkt.opts[i].len
               \/ /\ r.taken = [i \in 1..(n + 1) |-> i]
                  /\ OptionAt(pkt, TrueAt(pkt), n + 1) = pkt.caplen - 1
    <3>1. WholeOptions(pkt) = Readable(pkt, x) /\ x = TrueAt(pkt)
      BY <1>5, <2>3 DEF WholeOptions, Readable
    <3> QED
      BY <1>8, <2>3, <3>1 DEF Parsed
  <2>4. TrueVerdict(verdict', checks)
    BY <1>3, <1>5, <1>6, <1>10, <2>1, <2>2, <2>3 DEF TrueVerdict
  <2> QED
    BY <1>1, <1>9, <2>1, <2>4, JudgedKeeps
<1>12. CASE ~gethdrlength(pkt, from)
  <2>1. /\ pkt' = << >>
        /\ verdict' = [of |-> pkt, fate |-> "hung", at |-> x, taken |-> << >>, sacks |-> -1]
    BY <1>2, <1>12 DEF Judge
  <2>2. HasA(pkt, "OTHER") \/ (GoesAstray(pkt) /\ HasA(pkt, "ICMPV6"))
    <3>1. PICK i \in DOMAIN pkt.heads : pkt.heads[i].kind \in {"OTHER", "ICMPV6"}
      BY <1>12 DEF gethdrlength
    <3>2. CASE pkt.heads[i].kind = "OTHER"
      BY <3>2 DEF HasA
    <3>3. CASE pkt.heads[i].kind = "ICMPV6"
      <4>1. HasA(pkt, "ICMPV6") /\ LastKind(pkt) = "ICMPV6"
        BY <1>3, <3>3, TransportIs DEF HasA, LastKinds
      <4> QED
        BY <1>4, <4>1
    <3> QED
      BY <3>1, <3>2, <3>3
  <2>3. TrueVerdict(verdict', checks)
    BY <2>1, <2>2 DEF TrueVerdict
  <2> QED
    BY <1>1, <1>9, <2>1, <2>3, JudgedKeeps
<1> QED
  BY <1>11, <1>12

LEMMA UdpKeeps ==
  ASSUME HeadersAssumption, HeadersInv, TraceUdp
  PROVE  HeadersInv'
<1> DEFINE from == Cut(pkt, plast)
           short == Udp.at + UdpHeader - 1 > from
           bad == checks.verify /\ ~udp_cksum_valid(pkt, Udp.at, from)
           fate == IF short THEN "truncated" ELSE IF bad THEN "udp, kept from modules" ELSE "udp"
<1>1. /\ Verified /\ Understood /\ Tcp.ret # 0 /\ Udp.ret = 0 /\ UNCHANGED checks
      /\ plast' = from
      /\ tally' = [tally EXCEPT !.ctrunc = IF short THEN @ + 1 ELSE @,
                                !.cut = IF short THEN @ + 1 ELSE @,
                                !.udp = IF short THEN @ ELSE @ + 1,
                                !.bad = IF bad THEN @ + 1 ELSE @]
      /\ pkt' = << >>
      /\ verdict' = [of |-> pkt, fate |-> fate, at |-> Udp.at, taken |-> << >>, sacks |-> -1]
  <2>1. /\ Verified /\ Understood /\ Tcp.ret < 0 /\ Udp.ret = 0 /\ UNCHANGED checks
        /\ plast' = from
    BY DEF TraceUdp, Verified
  <2>2. Tcp.ret # 0
    <3> SUFFICES ASSUME Tcp.ret = 0
                 PROVE  FALSE
      OBVIOUS
    <3>1. ~(Tcp.ret < 0)
      OBVIOUS
    <3> QED
      BY <2>1, <3>1
  <2>3. /\ tally' = [tally EXCEPT !.ctrunc = IF short THEN @ + 1 ELSE @,
                                  !.cut = IF short THEN @ + 1 ELSE @,
                                  !.udp = IF short THEN @ ELSE @ + 1,
                                  !.bad = IF bad THEN @ + 1 ELSE @]
        /\ Judge(fate, Udp.at, << >>, -1)
    BY <2>1 DEF TraceUdp
  <2> HIDE DEF fate, short, bad, from
  <2> QED
    BY <2>1, <2>2, <2>3 DEF Judge
<1>2. /\ pkt # << >> /\ WellFormed(pkt) /\ pkt.caplen \in Nat /\ pkt.iplen \in Nat
      /\ plast = pkt.caplen - 1 /\ Finds(pkt, "UDP", plast)
  BY <1>1, LookedAt
<1>3. ~First(pkt)
  BY <1>1, FirstIsFound
<1>4. pkt.version = 4 => LastKind(pkt) = "UDP" /\ Udp.at = pkt.hl
  BY <1>1, <1>2 DEF Finds, Udp
<1>5. ASSUME ~bad, pkt.version = 4, checks.verify, pkt.caplen >= pkt.iplen, pkt.summed
      PROVE  pkt.ipintact /\ pkt.intact
  <2>1. /\ pkt.hl <= pkt.iplen /\ pkt.hl \in Nat /\ pkt.ulen \in Nat /\ pkt.hl + pkt.ulen <= pkt.iplen
        /\ Len(pkt.heads) = 1 /\ pkt.heads[1].kind = "UDP" /\ DOMAIN pkt.heads = {1}
    <3>1. Len(pkt.heads) = 1 /\ DOMAIN pkt.heads = 1..1 /\ pkt.heads[1].kind = "UDP"
      BY <1>2, <1>4, <1>5, TransportIs DEF WellFormed, HeadersFit, LastKind
    <3> QED
      BY <1>2, <1>5, <3>1 DEF WellFormed, HeadersFit
  <2>2. pkt.ipintact
    BY <1>1, <1>2, <1>5, <2>1 DEF Verified, ip_cksum_valid
  <2>3. from < pkt.hl + pkt.ulen - 1 \/ pkt.intact
    BY <1>4, <1>5, <2>1 DEF udp_cksum_valid
  <2>4. from = IF pkt.iplen - 1 < plast THEN pkt.iplen ELSE plast
    BY <1>5 DEF Cut
  <2> HIDE DEF from
  <2>5. pkt.intact
    BY <1>2, <1>5, <2>1, <2>3, <2>4
  <2> QED
    BY <2>2, <2>5
<1>6. fate \notin {"tcp", "hung", "bad"} /\ (fate = "udp" => ~bad)
  OBVIOUS
<1> HIDE DEF from, short, bad, fate
<1>7. TrueVerdict(verdict', checks)
  BY <1>1, <1>3, <1>5, <1>6 DEF TrueVerdict
<1>8. tally' \in Tallies /\ tally'.ctrunc <= tally'.cut
  <2> DEFINE a == IF short THEN tally.ctrunc + 1 ELSE tally.ctrunc
             b == IF short THEN tally.cut + 1 ELSE tally.cut
             u == IF short THEN tally.udp ELSE tally.udp + 1
             d == IF bad THEN tally.bad + 1 ELSE tally.bad
             t == [tally EXCEPT !.udp = u, !.bad = d]
  <2>1. tally \in Tallies /\ tally.ctrunc <= tally.cut
    BY DEF HeadersInv
  <2>2. a \in Nat /\ b \in Nat /\ u \in Nat /\ d \in Nat /\ a <= b
    BY <2>1 DEF Tallies
  <2>3. tally' = [tally EXCEPT !.ctrunc = a, !.cut = b, !.udp = u, !.bad = d]
    BY <1>1
  <2> HIDE DEF a, b, u, d
  <2>4. t \in Tallies /\ tally' = [t EXCEPT !.ctrunc = a, !.cut = b]
    BY <2>1, <2>2, <2>3 DEF Tallies
  <2> HIDE DEF t
  <2> QED
    BY <2>2, <2>4, Counted
<1> QED
  BY <1>1, <1>7, <1>8, JudgedKeeps

\* What tcptrace takes from the headers of a packet is what was captured of them:
\* of every packet, however long its chain of headers, wherever it was cut, and
\* whatever options it has, if only they are those of a packet as it was sent.  Of a
\* segment behind an IPv6 fragment header, which findheader misses, it says where
\* that leads: it may be read elsewhere, and behind a further header another
\* packet may be taken for TCP.
THEOREM HeadersAreWhatWasSent ==
  ASSUME HeadersAssumption
  PROVE  HeadersSpec => []HeadersAreTrue
<1>1. HeadersInit => HeadersInv
  <2> SUFFICES ASSUME HeadersInit
               PROVE  HeadersInv
    OBVIOUS
  <2>1. TrueVerdict(verdict, checks)
    BY DEF HeadersInit, TrueVerdict, NoVerdict, First
  <2> QED
    BY <2>1 DEF HeadersInit, HeadersInv, Tallies
<1>2. HeadersInv /\ [HeadersNext]_headersVars => HeadersInv'
  <2> SUFFICES ASSUME HeadersInv, [HeadersNext]_headersVars
               PROVE  HeadersInv'
    OBVIOUS
  <2>1. CASE ArrivingPacket
    BY <2>1, ArrivingKeeps
  <2>2. CASE SkipStrange
    BY <2>2, SkipKeeps
  <2>3. CASE BadIpChecksum
    BY <2>3, BadIpKeeps
  <2>4. CASE NoHeader
    BY <2>4, NoHeaderKeeps
  <2>5. CASE NeitherTcpNorUdp
    BY <2>5, NeitherKeeps
  <2>6. CASE TruncatedSegment
    BY <2>6, TruncatedKeeps
  <2>7. CASE TraceSegment
    BY <2>7, TraceKeeps
  <2>8. CASE TraceUdp
    BY <2>8, UdpKeeps
  <2>9. CASE UNCHANGED headersVars
    <3>1. pkt' = pkt /\ plast' = plast /\ tally' = tally /\ verdict' = verdict /\ checks' = checks
      BY <2>9 DEF headersVars
    <3>2. TrueVerdict(verdict, checks)'
      <4>1. TrueVerdict(verdict', checks')
        BY <3>1 DEF HeadersInv
      <4> QED
        BY <4>1 DEF TrueVerdict, First, WholeOptions, OptionAt, TrueAt, Begins, Laid, Transport,
                    CarriesTcp, HasA, LaterFragment, LastKinds, TcpHeader, OneByte,
                Misread, GoesAstray, FirstFragment
    <3> QED
      BY <3>1, <3>2 DEF HeadersInv
  <2> QED
    BY <2>1, <2>2, <2>3, <2>4, <2>5, <2>6, <2>7, <2>8, <2>9 DEF HeadersNext
<1> QED
  BY <1>1, <1>2, TrueIsTrue, PTL DEF HeadersSpec
=============================================================================
