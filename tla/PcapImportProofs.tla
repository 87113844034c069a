-------------------------- MODULE PcapImportProofs --------------------------
(***************************************************************************)
(* What PcapImport promises for captures of any number of parts, any       *)
(* number of slots, attempts, faults and crashes, and in any interleaving  *)
(* of the jobs.                                                            *)
(***************************************************************************)
EXTENDS PcapImport, FiniteSetTheorems, TLAPS

USE CaptureAssumption

\* Parts that pass the test of process_pcap.js:71 are all the parts.
LEMMA CompleteIsAll ==
    ASSUME last \in AllParts, NEW S \in SUBSET Parts, Complete(S)
    PROVE  S = Parts
<1>1. IsFiniteSet(Parts) /\ Cardinality(Parts) = last + 1
  BY FS_Interval DEF Parts, AllParts
<1>2. Cardinality(S) <= Cardinality(Parts) /\ Cardinality(S) \in Nat
  BY <1>1, FS_Subset, FS_CardinalityType
<1>3. Cardinality(S) = Cardinality(Parts)
  BY <1>1, <1>2 DEF Complete, AllParts
<1> QED
  BY <1>1, <1>3, FS_Subset

\* Only the call of a capture with a single part finds at most one.
LEMMA SinglePart ==
    ASSUME last \in AllParts, ~(Cardinality(Parts) > 1)
    PROVE  Parts = {0}
<1>1. Cardinality(Parts) = last + 1
  BY FS_Interval DEF Parts, AllParts
<1>2. last = 0
  BY <1>1 DEF AllParts
<1> QED
  BY <1>2 DEF Parts

\* The number of attempts stays within its bound, and so does the step.
LEMMA FailedType ==
    ASSUME NEW i \in AllParts, TypeOK, AttemptsInv, step[i] \in Running, Failed(i)
    PROVE  /\ attempts' \in [AllParts -> 0..Retry]
           /\ step' \in [AllParts -> {"queued", "complete", "failed"} \cup Running]
           /\ AttemptsInv'
<1>1. attempts[i] \in 0..Retry /\ attempts[i] < Retry
  BY DEF TypeOK, AttemptsInv
<1>2. /\ attempts' = [attempts EXCEPT ![i] = attempts[i] + 1]
      /\ step' = [step EXCEPT ![i] = IF attempts[i] + 1 < Retry THEN "queued" ELSE "failed"]
  BY DEF Failed, Goto
<1>3. attempts' \in [AllParts -> 0..Retry]
  BY <1>1, <1>2 DEF TypeOK
<1>4. step' \in [AllParts -> {"queued", "complete", "failed"} \cup Running]
  BY <1>2 DEF TypeOK
<1>5. AttemptsInv'
  BY <1>1, <1>2 DEF TypeOK, AttemptsInv, Running, Handling
<1> QED
  BY <1>3, <1>4, <1>5

\* A call that goes on keeps its attempt.
LEMMA GotoType ==
    ASSUME NEW i \in AllParts, NEW s \in {"complete"} \cup Running, TypeOK, AttemptsInv,
           step[i] \in {"queued"} \cup Running, Goto(i, s), UNCHANGED attempts
    PROVE  /\ step' \in [AllParts -> {"queued", "complete", "failed"} \cup Running]
           /\ AttemptsInv'
  BY DEF TypeOK, AttemptsInv, Goto

\* All the parts pass the test of process_pcap.js:71.
LEMMA AllAreComplete ==
    ASSUME last \in AllParts
    PROVE  Complete(Parts)
<1>1. Cardinality(Parts) = last + 1
  BY FS_Interval DEF Parts, AllParts
<1> QED
  BY <1>1 DEF Complete, Parts, AllParts

\* The invariants of the jobs, without the types of the other variables.
JobsInv ==
    /\ step \in [AllParts -> {"queued", "complete", "failed"} \cup Running]
    /\ AttemptsInv /\ HandlingInv /\ KeptInv /\ NotOverInv

\* A call that works on the complete capture keeps the invariants while it
\* neither ends nor touches the folder.
LEMMA Proceeds ==
    ASSUME CaptureInv, NEW i \in Parts, NEW s \in Handling \ {"remove"},
           step[i] \in Handling, Goto(i, s),
           UNCHANGED <<last, seen, attempts, workdir, imported>>
    PROVE  JobsInv'
<1> i \in AllParts /\ Parts \subseteq AllParts /\ Parts' = Parts
  BY DEF CaptureInv, TypeOK, Parts, AllParts
<1>1. /\ step' \in [AllParts -> {"queued", "complete", "failed"} \cup Running]
      /\ AttemptsInv'
  BY GotoType DEF CaptureInv, Running
<1>2. step' = [step EXCEPT ![i] = s] /\ step \in [AllParts -> {"queued", "complete", "failed"} \cup Running]
  BY DEF Goto, CaptureInv, TypeOK
<1>3. HandlingInv'
  BY <1>2 DEF CaptureInv, HandlingInv
<1>4. KeptInv'
  BY <1>2 DEF CaptureInv, KeptInv, Handling
<1>5. NotOverInv'
  BY <1>2 DEF CaptureInv, NotOverInv, Handling
<1> QED
  BY <1>1, <1>3, <1>4, <1>5 DEF JobsInv

\* So does one that gives its attempt up and leaves the parts in the folder.
LEMMA GivesUp ==
    ASSUME CaptureInv, NEW i \in Parts, step[i] \in Running, Failed(i),
           UNCHANGED <<last, seen, workdir, imported>>
    PROVE  JobsInv' /\ attempts' \in [AllParts -> 0..Retry]
<1> i \in AllParts /\ Parts \subseteq AllParts /\ Parts' = Parts
  BY DEF CaptureInv, TypeOK, Parts, AllParts
<1>1. /\ attempts' \in [AllParts -> 0..Retry]
      /\ step' \in [AllParts -> {"queued", "complete", "failed"} \cup Running]
      /\ AttemptsInv'
  BY FailedType DEF CaptureInv
<1>2. PICK s \in {"queued", "failed"} : step' = [step EXCEPT ![i] = s]
  BY DEF Failed, Goto
<1>3. step \in [AllParts -> {"queued", "complete", "failed"} \cup Running]
  BY DEF CaptureInv, TypeOK
<1>4. HandlingInv'
  BY <1>2, <1>3 DEF CaptureInv, HandlingInv, Handling
<1>5. KeptInv'
  BY <1>2, <1>3 DEF CaptureInv, KeptInv
<1>6. NotOverInv'
  BY <1>2, <1>3 DEF CaptureInv, NotOverInv
<1> QED
  BY <1>1, <1>4, <1>5, <1>6 DEF JobsInv

-----------------------------------------------------------------------------
(* The invariant, action by action.                                        *)

\* The types of what a job sees and of the folder and the tables.
DataType ==
    /\ last \in AllParts
    /\ seen \in [AllParts -> SUBSET Parts] /\ todo \in [AllParts -> SUBSET Parts]
    /\ mine \in [AllParts -> Rows \cup {0}]
    /\ attempts \in [AllParts -> 0..Retry]
    /\ workdir \subseteq Parts /\ merged \in BOOLEAN /\ connection \in BOOLEAN
    /\ row \in [Rows -> {"none", "processing", "success", "failed", "deleted"}]
    /\ link \subseteq Live \X Parts
    /\ data \in [Rows -> Nat]
    /\ imported \in BOOLEAN /\ crossed \in BOOLEAN
    /\ faults \in 0..MaxFaults /\ crashes \in 0..MaxCrashes

LEMMA Pieces == /\ CaptureInv <=> DataType /\ JobsInv
                /\ CaptureInv' <=> DataType' /\ JobsInv'
  BY DEF CaptureInv, TypeOK, DataType, JobsInv

\* A fault is counted within its bound.
LEMMA FaultType == ASSUME DataType, Fault PROVE faults' \in 0..MaxFaults
  BY DEF DataType, Fault

LEMMA InitInv == Init => CaptureInv
<1> SUFFICES ASSUME Init PROVE CaptureInv
  OBVIOUS
<1>1. last \in AllParts /\ 0 \in Parts /\ Parts \subseteq AllParts
  BY DEF Init, Parts, AllParts
<1>2. TypeOK
  <2>1. /\ last \in AllParts
        /\ step \in [AllParts -> {"queued", "complete", "failed"} \cup Running]
        /\ seen \in [AllParts -> SUBSET Parts] /\ todo \in [AllParts -> SUBSET Parts]
        /\ mine \in [AllParts -> Rows \cup {0}]
    BY DEF Init
  <2>2. attempts \in [AllParts -> 0..Retry] /\ faults \in 0..MaxFaults /\ crashes \in 0..MaxCrashes
    BY DEF Init
  <2>3. /\ workdir \subseteq Parts /\ merged \in BOOLEAN /\ connection \in BOOLEAN
        /\ row \in [Rows -> {"none", "processing", "success", "failed", "deleted"}]
        /\ link \subseteq Live \X Parts /\ data \in [Rows -> Nat]
        /\ imported \in BOOLEAN /\ crossed \in BOOLEAN
    BY DEF Init
  <2> QED
    BY <2>1, <2>2, <2>3 DEF TypeOK
<1>3. AttemptsInv
  BY DEF Init, AttemptsInv
<1>4. HandlingInv /\ KeptInv
  BY <1>1 DEF Init, HandlingInv, KeptInv, Handling
<1>5. NotOverInv
  BY <1>1 DEF Init, NotOverInv
<1> QED
  BY <1>2, <1>3, <1>4, <1>5 DEF CaptureInv

LEMMA StartInv ==
    ASSUME CaptureInv, NEW i \in Parts, Start(i)
    PROVE  CaptureInv'
<1> i \in AllParts /\ Parts \subseteq AllParts /\ Parts' = Parts
  BY DEF CaptureInv, TypeOK, Parts, AllParts, Start
<1>1. DataType'
  BY DEF CaptureInv, TypeOK, DataType, Start, folderVars, dbVars, historyVars, Live
<1>2. step' = [step EXCEPT ![i] = "uncompress"] /\ UNCHANGED <<last, seen, workdir, imported>>
  BY DEF Start, Goto, folderVars, historyVars
<1>3. /\ step' \in [AllParts -> {"queued", "complete", "failed"} \cup Running]
      /\ AttemptsInv'
  BY GotoType DEF Start, CaptureInv, Running
<1>4. HandlingInv' /\ KeptInv' /\ NotOverInv'
  BY <1>2 DEF CaptureInv, TypeOK, HandlingInv, KeptInv, NotOverInv, Handling
<1> QED
  BY <1>1, <1>3, <1>4, Pieces DEF JobsInv

LEMMA UncompressInv ==
    ASSUME CaptureInv, NEW i \in Parts, Uncompress(i)
    PROVE  CaptureInv'
<1> i \in AllParts /\ Parts \subseteq AllParts /\ Parts' = Parts /\ step[i] \in Running
  BY DEF CaptureInv, TypeOK, Parts, AllParts, Uncompress, Running
<1>1. CASE workdir' = workdir \cup {i} /\ Goto(i, "glob") /\ UNCHANGED <<attempts, faults>>
  <2>1. DataType'
    BY <1>1 DEF CaptureInv, TypeOK, DataType, Uncompress, dbVars, historyVars, Live
  <2>2. step' = [step EXCEPT ![i] = "glob"] /\ UNCHANGED <<last, seen, imported>>
    BY <1>1 DEF Uncompress, Goto, historyVars
  <2>3. /\ step' \in [AllParts -> {"queued", "complete", "failed"} \cup Running]
        /\ AttemptsInv'
    BY <1>1, GotoType DEF CaptureInv, Running
  <2>4. HandlingInv' /\ KeptInv' /\ NotOverInv'
    BY <1>1, <2>2 DEF CaptureInv, TypeOK, HandlingInv, KeptInv, NotOverInv, Handling
  <2> QED
    BY <2>1, <2>3, <2>4, Pieces DEF JobsInv
<1>2. CASE Fault /\ Failed(i) /\ UNCHANGED workdir
  <2>1. JobsInv' /\ attempts' \in [AllParts -> 0..Retry]
    BY <1>2, GivesUp DEF Uncompress, historyVars
  <2>2. DataType'
    BY <1>2, <2>1, Pieces, FaultType
    DEF DataType, Uncompress, dbVars, historyVars, Live
  <2> QED
    BY <2>1, <2>2, Pieces
<1> QED
  BY <1>1, <1>2 DEF Uncompress

LEMMA GlobInv ==
    ASSUME CaptureInv, NEW i \in Parts, Glob(i)
    PROVE  CaptureInv'
<1> i \in AllParts /\ Parts \subseteq AllParts /\ Parts' = Parts
  BY DEF CaptureInv, TypeOK, Parts, AllParts, Glob
<1>1. /\ UNCHANGED <<last, workdir, imported>> /\ workdir \in SUBSET Parts
      /\ step[i] = "glob" /\ step[i] \in Running /\ last \in AllParts
      /\ step \in [AllParts -> {"queued", "complete", "failed"} \cup Running]
      /\ seen \in [AllParts -> SUBSET Parts]
  BY DEF Glob, folderVars, CaptureInv, TypeOK, Running
<1>2. CASE /\ Complete(Found(i)) /\ Goto(i, "merge")
           /\ seen' = [seen EXCEPT ![i] = Found(i)]
           /\ todo' = [todo EXCEPT ![i] = Found(i)]
           /\ crossed' = (crossed \/ \E j \in Parts \ {i} : step[j] \in Handling)
           /\ UNCHANGED <<attempts, faults>>
  <2>1. workdir = Parts
    BY <1>1, <1>2, CompleteIsAll DEF Found
  <2>2. DataType'
    BY <1>1, <1>2, Pieces DEF DataType, Glob, Found, folderVars, dbVars, Live
  <2>3. /\ step' \in [AllParts -> {"queued", "complete", "failed"} \cup Running]
        /\ AttemptsInv'
    BY <1>1, <1>2, GotoType DEF CaptureInv, Running, Handling
  <2>4. step' = [step EXCEPT ![i] = "merge"] /\ seen' = [seen EXCEPT ![i] = Parts]
    BY <1>2, <2>1 DEF Goto, Found
  <2>5. HandlingInv' /\ KeptInv' /\ NotOverInv'
    BY <1>1, <2>1, <2>4 DEF CaptureInv, HandlingInv, KeptInv, NotOverInv
  <2> QED
    BY <2>2, <2>3, <2>5, Pieces DEF JobsInv
<1>3. CASE /\ ~Complete(Found(i)) /\ Goto(i, "complete")
           /\ seen' = [seen EXCEPT ![i] = Found(i)]
           /\ UNCHANGED <<todo, crossed, attempts, faults>>
  <2>1. DataType'
    BY <1>1, <1>3, Pieces DEF DataType, Glob, Found, folderVars, dbVars, Live
  <2>2. /\ step' \in [AllParts -> {"queued", "complete", "failed"} \cup Running]
        /\ AttemptsInv'
    BY <1>1, <1>3, GotoType DEF CaptureInv
  <2>3. step' = [step EXCEPT ![i] = "complete"] /\ seen' = [seen EXCEPT ![i] = workdir]
    BY <1>3 DEF Goto, Found
  <2>4. HandlingInv' /\ KeptInv'
    BY <1>1, <2>3 DEF CaptureInv, HandlingInv, KeptInv, Handling
  \* A part that the folder lacks is the part of a job that is not done.
  <2>5. NotOverInv'
    <3>1. SUFFICES ASSUME ~imported
                   PROVE  \E j \in Parts : step'[j] # "complete"
      BY <1>1 DEF NotOverInv
    <3>2. PICK part \in Parts : part \notin workdir
      BY <1>1, <1>3, AllAreComplete DEF Found
    <3>3. part # i /\ step[part] # "complete"
      BY <1>1, <3>1, <3>2 DEF CaptureInv, KeptInv
    <3> QED
      BY <1>1, <2>3, <3>3
  <2> QED
    BY <2>1, <2>2, <2>4, <2>5, Pieces DEF JobsInv
<1>4. CASE Fault /\ Failed(i) /\ UNCHANGED <<seen, todo, crossed>>
  <2>1. JobsInv' /\ attempts' \in [AllParts -> 0..Retry]
    BY <1>1, <1>4, GivesUp
  <2>2. DataType'
    BY <1>1, <1>4, <2>1, Pieces, FaultType DEF DataType, Glob, folderVars, dbVars, Live
  <2> QED
    BY <2>1, <2>2, Pieces
<1> QED
  BY <1>2, <1>3, <1>4 DEF Glob

LEMMA MergeInv ==
    ASSUME CaptureInv, NEW i \in Parts, Merge(i)
    PROVE  CaptureInv'
<1> i \in AllParts /\ Parts \subseteq AllParts /\ Parts' = Parts
  BY DEF CaptureInv, TypeOK, Parts, AllParts, Merge
<1>1. /\ step[i] = "merge" /\ step[i] \in Handling /\ seen[i] = Parts
      /\ UNCHANGED <<last, seen, attempts, imported>>
  BY DEF Merge, historyVars, CaptureInv, HandlingInv, Handling
<1>2. DataType'
  <2>1. workdir' \subseteq Parts /\ merged' \in BOOLEAN
    BY DEF CaptureInv, TypeOK, Merge, folderVars
  <2> QED
    BY <2>1, Pieces DEF DataType, Merge, dbVars, historyVars, Live
<1>3. CASE UNCHANGED workdir
  <2>1. PICK s \in {"merging", "insert", "clean"} : Goto(i, s)
    BY DEF Merge
  <2>2. JobsInv'
    BY <1>1, <1>3, <2>1, Proceeds DEF Handling
  <2> QED
    BY <1>2, <2>2, Pieces
\* The only part of a capture goes into the merged file.
<1>4. CASE workdir' # workdir
  <2>1. ~(Cardinality(Parts) > 1) /\ Goto(i, "insert")
    BY <1>1, <1>4 DEF Merge, folderVars
  <2>2. Parts = {0} /\ i = 0
    BY <2>1, SinglePart DEF CaptureInv, TypeOK
  <2>3. /\ step' \in [AllParts -> {"queued", "complete", "failed"} \cup Running]
        /\ AttemptsInv'
    BY <1>1, <2>1, GotoType DEF CaptureInv, Running, Handling
  <2>4. step' = [step EXCEPT ![i] = "insert"] /\ step'[i] = "insert"
    BY <2>1 DEF Goto, CaptureInv, TypeOK
  <2>5. HandlingInv' /\ KeptInv' /\ NotOverInv'
    BY <1>1, <2>2, <2>4 DEF HandlingInv, KeptInv, NotOverInv
  <2> QED
    BY <1>2, <2>3, <2>5, Pieces DEF JobsInv
<1> QED
  BY <1>3, <1>4

LEMMA EndMergeInv ==
    ASSUME CaptureInv, NEW i \in Parts, EndMerge(i)
    PROVE  CaptureInv'
<1>1. step[i] \in Handling /\ UNCHANGED <<last, seen, attempts, workdir, imported>>
  BY DEF EndMerge, folderVars, historyVars, Handling
<1>2. PICK s \in {"insert", "clean"} : Goto(i, s)
  BY DEF EndMerge
<1>3. JobsInv'
  BY <1>1, <1>2, Proceeds DEF Handling
<1>4. DataType'
  <2>1. faults' \in 0..MaxFaults
    BY Pieces, FaultType DEF DataType, EndMerge
  <2> QED
    BY <2>1, Pieces DEF DataType, EndMerge, folderVars, dbVars, historyVars, Live, Parts
<1> QED
  BY <1>3, <1>4, Pieces

LEMMA InsertPcapInv ==
    ASSUME CaptureInv, NEW i \in Parts, InsertPcap(i)
    PROVE  CaptureInv'
<1>1. step[i] \in Handling /\ UNCHANGED <<last, seen, attempts, workdir, imported>>
  BY DEF InsertPcap, folderVars, historyVars, Handling
<1>2. PICK s \in {"link", "clean"} : Goto(i, s)
  BY DEF InsertPcap
<1>3. JobsInv'
  BY <1>1, <1>2, Proceeds DEF Handling
<1>4. DataType'
  <2>1. /\ faults' \in 0..MaxFaults
        /\ row' \in [Rows -> {"none", "processing", "success", "failed", "deleted"}]
        /\ Live \subseteq Live'
    BY Pieces, FaultType DEF DataType, InsertPcap, Live
  <2> QED
    BY <2>1, Pieces DEF DataType, InsertPcap, folderVars, historyVars, Parts
<1> QED
  BY <1>3, <1>4, Pieces

LEMMA LinkNextInv ==
    ASSUME CaptureInv, NEW i \in Parts, LinkNext(i)
    PROVE  CaptureInv'
<1> i \in AllParts /\ Parts \subseteq AllParts /\ Parts' = Parts
  BY DEF CaptureInv, TypeOK, Parts, AllParts, LinkNext
<1>1. step[i] \in Handling /\ UNCHANGED <<last, seen, attempts, workdir, imported>>
  BY DEF LinkNext, folderVars, historyVars, Handling
<1>2. JobsInv'
  <2>1. CASE UNCHANGED step
    BY <1>1, <2>1, Pieces DEF JobsInv, AttemptsInv, HandlingInv, KeptInv, NotOverInv
  <2>2. CASE Goto(i, "clean")
    BY <1>1, <2>2, Proceeds DEF Handling
  <2> QED
    BY <2>1, <2>2 DEF LinkNext
<1>3. DataType'
  <2>1. /\ faults' \in 0..MaxFaults
        /\ todo' \in [AllParts -> SUBSET Parts]
    BY Pieces, FaultType DEF DataType, LinkNext
  <2>2. link' \subseteq Live \X Parts /\ Live' = Live
    BY Pieces DEF DataType, LinkNext, Live
  <2> QED
    BY <2>1, <2>2, Pieces DEF DataType, LinkNext, folderVars, historyVars
<1> QED
  BY <1>2, <1>3, Pieces

LEMMA LinkedInv ==
    ASSUME CaptureInv, NEW i \in Parts, Linked(i)
    PROVE  CaptureInv'
<1>1. step[i] \in Handling /\ UNCHANGED <<last, seen, attempts, workdir, imported>>
  BY DEF Linked, folderVars, historyVars, Handling
<1>2. PICK s \in {"script"} : Goto(i, s)
  BY DEF Linked
<1>3. JobsInv'
  BY <1>1, <1>2, Proceeds DEF Handling
<1>4. DataType'
  BY Pieces DEF DataType, Linked, folderVars, dbVars, historyVars, Live, Parts
<1> QED
  BY <1>3, <1>4, Pieces

LEMMA StartScriptInv ==
    ASSUME CaptureInv, NEW i \in Parts, StartScript(i)
    PROVE  CaptureInv'
<1>1. step[i] \in Handling /\ UNCHANGED <<last, seen, attempts, workdir, imported>>
  BY DEF StartScript, folderVars, historyVars, Handling
<1>2. PICK s \in {"scripting", "clean"} : Goto(i, s)
  BY DEF StartScript
<1>3. JobsInv'
  BY <1>1, <1>2, Proceeds DEF Handling
<1>4. DataType'
  <2>1. /\ row' \in [Rows -> {"none", "processing", "success", "failed", "deleted"}]
        /\ mine' \in [AllParts -> Rows \cup {0}]
        /\ Live' = Live
    BY Pieces DEF DataType, StartScript, Live
  <2> QED
    BY <2>1, Pieces DEF DataType, StartScript, folderVars, historyVars, Parts
<1> QED
  BY <1>3, <1>4, Pieces

LEMMA EndScriptInv ==
    ASSUME CaptureInv, NEW i \in Parts, EndScript(i)
    PROVE  CaptureInv'
<1> i \in AllParts /\ Parts \subseteq AllParts /\ Parts' = Parts
  BY DEF CaptureInv, TypeOK, Parts, AllParts, EndScript
<1>1. /\ step[i] \in Handling /\ step[i] = "scripting"
      /\ UNCHANGED <<last, seen, attempts, workdir>>
  BY DEF EndScript, folderVars, Handling
<1>2. DataType'
  <2>1. /\ row' \in [Rows -> {"none", "processing", "success", "failed", "deleted"}]
        /\ Live' = Live
    BY Pieces DEF DataType, EndScript, Live
  <2>2. mine' \in [AllParts -> Rows \cup {0}] /\ data' \in [Rows -> Nat]
    BY Pieces DEF DataType, EndScript, Live
  <2>3. imported' \in BOOLEAN /\ faults' \in 0..MaxFaults
    BY Pieces, FaultType DEF DataType, EndScript
  <2> QED
    BY <2>1, <2>2, <2>3, Pieces DEF DataType, EndScript, folderVars
\* After an import the parts may go.
<1>3. CASE imported' = TRUE /\ Goto(i, "remove")
  <2>1. /\ step' \in [AllParts -> {"queued", "complete", "failed"} \cup Running]
        /\ AttemptsInv'
    BY <1>1, <1>3, GotoType DEF CaptureInv, Running, Handling
  <2>2. step' = [step EXCEPT ![i] = "remove"] /\ step \in [AllParts -> {"queued", "complete", "failed"} \cup Running]
    BY <1>3 DEF Goto, CaptureInv, TypeOK
  <2>3. HandlingInv' /\ KeptInv' /\ NotOverInv'
    BY <1>1, <1>3, <2>2 DEF CaptureInv, HandlingInv, KeptInv, NotOverInv
  <2> QED
    BY <1>2, <2>1, <2>3, Pieces DEF JobsInv
<1>4. CASE UNCHANGED imported /\ Goto(i, "clean")
  <2>1. JobsInv'
    BY <1>1, <1>4, Proceeds DEF Handling
  <2> QED
    BY <1>2, <2>1, Pieces
<1> QED
  BY <1>3, <1>4 DEF EndScript

\* A call removes parts only after it has imported the capture.
LEMMA RemoveInv ==
    ASSUME CaptureInv, NEW i \in Parts, Remove(i)
    PROVE  CaptureInv'
<1> i \in AllParts /\ Parts \subseteq AllParts /\ Parts' = Parts
  BY DEF CaptureInv, TypeOK, Parts, AllParts, Remove
<1>1. /\ step[i] = "remove" /\ step[i] \in Running /\ imported /\ imported'
      /\ UNCHANGED <<last, seen, attempts>>
  BY DEF Remove, historyVars, CaptureInv, TypeOK, KeptInv, Handling, Running
<1>2. DataType'
  BY Pieces DEF DataType, Remove, dbVars, historyVars, Live
<1>3. /\ step' \in [AllParts -> {"queued", "complete", "failed"} \cup Running]
      /\ AttemptsInv'
  BY <1>1, GotoType DEF Remove, CaptureInv
<1>4. HandlingInv'
  BY <1>1 DEF CaptureInv, TypeOK, HandlingInv, Remove, Goto, Handling
<1>5. KeptInv' /\ NotOverInv'
  BY <1>1 DEF KeptInv, NotOverInv
<1> QED
  BY <1>2, <1>3, <1>4, <1>5, Pieces DEF JobsInv

LEMMA CleanInv ==
    ASSUME CaptureInv, NEW i \in Parts, Clean(i)
    PROVE  CaptureInv'
<1>1. step[i] \in Handling /\ UNCHANGED <<last, seen, attempts, workdir, imported>>
  BY DEF Clean, folderVars, historyVars, Handling
<1>2. PICK s \in {"unlink"} : Goto(i, s)
  BY DEF Clean
<1>3. JobsInv'
  BY <1>1, <1>2, Proceeds DEF Handling
<1>4. DataType'
  <2>1. CASE Fault /\ UNCHANGED <<row, link, data>>
    BY <2>1, Pieces, FaultType DEF DataType, Clean, folderVars, historyVars, Live, Parts
  <2>2. CASE /\ row' = [r \in Rows |-> IF r \in Live THEN "deleted" ELSE row[r]]
             /\ link' = {} /\ data' = [r \in Rows |-> 0] /\ UNCHANGED faults
    BY <2>2, Pieces DEF DataType, Clean, folderVars, historyVars, Parts
  <2> QED
    BY <2>1, <2>2 DEF Clean
<1> QED
  BY <1>3, <1>4, Pieces

LEMMA UnlinkInv ==
    ASSUME CaptureInv, NEW i \in Parts, Unlink(i)
    PROVE  CaptureInv'
<1>1. JobsInv' /\ attempts' \in [AllParts -> 0..Retry]
  BY GivesUp DEF Unlink, historyVars, Running, Handling
<1>2. DataType'
  BY <1>1, Pieces DEF DataType, Unlink, dbVars, historyVars, Live, Parts
<1> QED
  BY <1>1, <1>2, Pieces

LEMMA ImportConnectionInv ==
    ASSUME CaptureInv, ImportConnection
    PROVE  CaptureInv'
<1>1. UNCHANGED <<last, step, seen, attempts, workdir, imported>>
  BY DEF ImportConnection, jobVars, folderVars, historyVars
<1>2. JobsInv'
  BY <1>1, Pieces DEF JobsInv, AttemptsInv, HandlingInv, KeptInv, NotOverInv, Parts
<1>3. DataType'
  BY Pieces DEF DataType, ImportConnection, jobVars, folderVars, historyVars, Live, Parts
<1> QED
  BY <1>2, <1>3, Pieces

LEMMA CrashInv ==
    ASSUME CaptureInv, Crash
    PROVE  CaptureInv'
<1> Parts \subseteq AllParts /\ Parts' = Parts
  BY DEF CaptureInv, TypeOK, Parts, AllParts, Crash
<1>1. /\ step' = [i \in AllParts |-> IF step[i] \in Running THEN "queued" ELSE step[i]]
      /\ attempts' = [i \in AllParts |-> IF step[i] \in Running THEN 0 ELSE attempts[i]]
      /\ UNCHANGED <<last, seen, workdir, imported>>
  BY DEF Crash, folderVars, historyVars
<1>2. DataType'
  <2>1. attempts' \in [AllParts -> 0..Retry] /\ crashes' \in 0..MaxCrashes
    BY Pieces DEF DataType, Crash
  <2>2. todo' \in [AllParts -> SUBSET Parts] /\ mine' \in [AllParts -> Rows \cup {0}]
    BY DEF Crash
  <2> QED
    BY <2>1, <2>2, Pieces DEF DataType, Crash, folderVars, dbVars, historyVars, Live
<1>3. /\ step' \in [AllParts -> {"queued", "complete", "failed"} \cup Running]
      /\ AttemptsInv'
  BY <1>1 DEF CaptureInv, TypeOK, AttemptsInv, Running, Handling
<1>4. HandlingInv' /\ KeptInv' /\ NotOverInv'
  BY <1>1 DEF CaptureInv, HandlingInv, KeptInv, NotOverInv, Running, Handling
<1> QED
  BY <1>2, <1>3, <1>4, Pieces DEF JobsInv

LEMMA NextInv == CaptureInv /\ [Next]_vars => CaptureInv'
<1> SUFFICES ASSUME CaptureInv, [Next]_vars PROVE CaptureInv'
  OBVIOUS
<1>1. ASSUME NEW i \in Parts, Start(i) \/ Step(i) PROVE CaptureInv'
  BY <1>1, StartInv, UncompressInv, GlobInv, MergeInv, EndMergeInv, InsertPcapInv,
     LinkNextInv, LinkedInv, StartScriptInv, EndScriptInv, RemoveInv, CleanInv, UnlinkInv
  DEF Step
<1>2. CASE ImportConnection
  BY <1>2, ImportConnectionInv
<1>3. CASE Crash
  BY <1>3, CrashInv
<1>4. CASE UNCHANGED vars
  <2>1. UNCHANGED <<last, step, seen, todo, mine, attempts, workdir, merged, connection,
                    row, link, data, imported, crossed, faults, crashes>>
    BY <1>4 DEF vars, jobVars, folderVars, dbVars, historyVars
  <2>2. DataType'
    BY <2>1, Pieces DEF DataType, Live, Parts
  <2>3. JobsInv'
    BY <2>1, Pieces DEF JobsInv, AttemptsInv, HandlingInv, KeptInv, NotOverInv, Parts
  <2> QED
    BY <2>2, <2>3, Pieces
<1> QED
  BY <1>1, <1>2, <1>3, <1>4 DEF Next

-----------------------------------------------------------------------------
(* The invariant of a capture that no two jobs took up together.           *)

Alone == OneHandler /\ FolderInv /\ RowsInv /\ SingleRowInv

LEMMA PartsBasics ==
    ASSUME CaptureInv
    PROVE  /\ Parts \subseteq AllParts /\ 0 \in Parts
           /\ last \in Nat /\ (last = 0 => Parts = {0})
           /\ link \subseteq Live \X Parts /\ Live \subseteq Rows
           /\ faults \in Nat /\ crashes \in Nat
  BY DEF CaptureInv, TypeOK, Parts, AllParts, Live

\* A job that goes to another step, and all the others.
LEMMA StepsOf ==
    ASSUME CaptureInv, NEW i \in Parts, NEW s, Goto(i, s)
    PROVE  step'[i] = s /\ \A j \in Parts \ {i} : step'[j] = step[j]
  BY PartsBasics DEF CaptureInv, TypeOK, Goto

\* While a job works on the capture it is the only one, and goes on so.
LEMMA SoleGoesOn ==
    ASSUME CaptureInv, OneHandler, FolderInv, NEW i \in Parts, NEW s \in Handling,
           step[i] \in Handling, Goto(i, s), UNCHANGED last,
           UNCHANGED workdir \/ last = 0
    PROVE  /\ OneHandler' /\ FolderInv' /\ ~Taken /\ ~Taken'
           /\ \A j \in Parts \ {i} : step[j] \notin Handling /\ step'[j] \notin Handling
<1> Parts' = Parts
  BY DEF Parts
<1>1. step'[i] = s /\ \A j \in Parts \ {i} : step'[j] = step[j]
  BY StepsOf
<1>2. \A j \in Parts \ {i} : step[j] \notin Handling
  BY DEF OneHandler
<1>3. OneHandler'
  BY <1>1, <1>2 DEF OneHandler
<1>4. ~Taken /\ s # "complete" /\ s # "glob" /\ step[i] # "complete"
  BY DEF FolderInv, Handling
<1>5. ~Taken'
  <2>1. CASE UNCHANGED workdir
    BY <1>1, <1>4, <2>1 DEF Taken
  <2>2. CASE last = 0
    <3>1. Parts = {i}
      BY <2>2, PartsBasics
    <3> QED
      BY <1>1, <1>4, <3>1 DEF Taken
  <2> QED
    BY <2>1, <2>2
<1>6. last > 0 => \A j \in Parts : step'[j] \in Handling => workdir' = Parts
  BY PartsBasics DEF FolderInv
<1>7. \A j \in Parts : step'[j] = "glob" => j \in workdir'
  <2>1. CASE UNCHANGED workdir
    BY <1>1, <1>4, <2>1 DEF FolderInv
  <2>2. CASE last = 0
    BY <1>1, <1>4, <2>2, PartsBasics
  <2> QED
    BY <2>1, <2>2
<1>8. FolderInv'
  BY <1>1, <1>4, <1>5, <1>6, <1>7 DEF FolderInv
<1> QED
  BY <1>1, <1>2, <1>3, <1>4, <1>5, <1>8

\* A job that gives its attempt up, or starts one, is none that works on it.
LEMMA OneLeaves ==
    ASSUME CaptureInv, OneHandler, FolderInv, NEW i \in Parts,
           NEW s \in {"queued", "failed", "uncompress"}, step[i] # "complete",
           Goto(i, s), UNCHANGED <<last, workdir>>
    PROVE  /\ OneHandler' /\ FolderInv' /\ Taken' = Taken /\ step'[i] = s
           /\ \A j \in Parts \ {i} : step'[j] = step[j]
<1> Parts' = Parts
  BY DEF Parts
<1>1. step'[i] = s /\ \A j \in Parts \ {i} : step'[j] = step[j]
  BY StepsOf
<1>2. s \notin Handling /\ s # "complete" /\ s # "glob"
  BY DEF Handling
<1>3. OneHandler'
  BY <1>1, <1>2 DEF OneHandler
<1>4. Taken' = Taken
  BY <1>1, <1>2 DEF Taken
<1>5. FolderInv'
  BY <1>1, <1>2, <1>4 DEF FolderInv
<1> QED
  BY <1>1, <1>3, <1>4, <1>5

\* The tables stay what they are while no row, link or flow changes, and no
\* job comes to a step that asks for more.
LEMMA RowsStay ==
    ASSUME RowsInv, UNCHANGED <<last, row, link, data>>,
           Taken' => Taken,
           \A j \in Parts : \/ /\ step'[j] = step[j]
                               /\ todo'[j] = todo[j] /\ mine'[j] = mine[j]
                            \/ step'[j] \notin Handling
                            \/ step'[j] \in {"clean", "unlink"}
    PROVE  RowsInv'
<1> Parts' = Parts /\ Live' = Live
  BY DEF Parts, Live
<1>1. (\E j \in Parts : step'[j] = "remove") => \E j \in Parts : step[j] = "remove"
  BY DEF Handling
<1>2. Taken' \/ (\E j \in Parts : step'[j] = "remove") => \E r \in Rows : IsImported(r)'
  BY <1>1 DEF RowsInv, IsImported
<1>3. ASSUME NEW j \in Parts
      PROVE  /\ step'[j] \in {"merge", "merging", "insert"} => todo'[j] = Parts
             /\ step'[j] = "link" => /\ AreLinked(Parts \ todo[j])'
                                     /\ (todo'[j] # Parts => NoFlows')
             /\ step'[j] \in {"script", "scripting"} => AreLinked(Parts)' /\ NoFlows'
             /\ step'[j] = "scripting" => mine'[j] \in Live
  BY <1>3 DEF RowsInv, AreLinked, NoFlows, Handling
<1>4. \A r \in Rows : data'[r] # 0 => IsImported(r)'
  BY DEF RowsInv, IsImported
<1> QED
  BY <1>2, <1>3, <1>4 DEF RowsInv

LEMMA NotOverYet ==
    ASSUME CaptureInv, UNCHANGED <<faults, crashes>> \/ Fault, UNCHANGED crashes
    PROVE  faults' = 0 /\ crashes' = 0 => faults = 0 /\ crashes = 0 /\ UNCHANGED faults
  BY PartsBasics DEF Fault

LEMMA StartAlone ==
    ASSUME CaptureInv, Alone, NEW i \in Parts, Start(i)
    PROVE  Alone'
<1> Parts' = Parts /\ Live' = Live /\ UNCHANGED <<last, workdir, row, link, data, todo, mine, faults, crashes>>
  BY DEF Start, folderVars, dbVars, Parts, Live
<1>1. /\ OneHandler' /\ FolderInv' /\ Taken' = Taken /\ step'[i] = "uncompress"
      /\ \A j \in Parts \ {i} : step'[j] = step[j] /\ step[i] = "queued"
  BY OneLeaves DEF Start, Alone
<1>2. RowsInv'
  BY <1>1, RowsStay DEF Alone, Handling
<1>3. SingleRowInv'
  BY <1>1 DEF Alone, SingleRowInv, Start
<1> QED
  BY <1>1, <1>2, <1>3 DEF Alone

\* A job that fails before the test leaves the capture to the others.
LEMMA FailsAlone ==
    ASSUME CaptureInv, Alone, NEW i \in Parts, step[i] \in {"uncompress", "glob"},
           Fault, Failed(i), UNCHANGED <<last, workdir, dbVars, todo, mine, crashes>>
    PROVE  Alone'
<1> Parts' = Parts /\ Live' = Live /\ UNCHANGED <<row, link, data>>
  BY DEF dbVars, Parts, Live
<1>1. PICK s \in {"queued", "failed"} : Goto(i, s)
  BY DEF Failed
<1>2. /\ OneHandler' /\ FolderInv' /\ Taken' = Taken /\ step'[i] = s
      /\ \A j \in Parts \ {i} : step'[j] = step[j]
  BY <1>1, OneLeaves DEF Alone
<1>3. RowsInv'
  BY <1>2, RowsStay DEF Alone, Handling
<1>4. SingleRowInv'
  <2>1. faults' # 0
    BY PartsBasics DEF Fault
  <2> QED
    BY <2>1 DEF SingleRowInv
<1> QED
  BY <1>2, <1>3, <1>4 DEF Alone

LEMMA UncompressAlone ==
    ASSUME CaptureInv, Alone, NEW i \in Parts, Uncompress(i)
    PROVE  Alone'
<1> Parts' = Parts /\ Live' = Live
    /\ UNCHANGED <<last, row, link, data, todo, mine, crashes>>
  BY DEF Uncompress, dbVars, Parts, Live
<1>1. CASE workdir' = workdir \cup {i} /\ Goto(i, "glob") /\ UNCHANGED faults
  <2>1. step[i] = "uncompress" /\ step'[i] = "glob" /\ \A j \in Parts \ {i} : step'[j] = step[j]
    BY <1>1, StepsOf DEF Uncompress
  <2>2. Taken' = Taken
    BY <1>1, <2>1 DEF Taken
  <2>3. OneHandler'
    BY <2>1 DEF OneHandler, Alone, Handling
  <2>4. FolderInv'
    <3>1. last > 0 => \A j \in Parts : step'[j] \in Handling => workdir' = Parts
      BY <1>1, <2>1 DEF Alone, FolderInv, Handling
    <3> QED
      BY <1>1, <2>1, <2>2, <3>1 DEF Alone, FolderInv, Handling
  <2>5. RowsInv'
    BY <2>1, <2>2, RowsStay DEF Alone, Handling
  <2>6. SingleRowInv'
    BY <1>1, <2>1, <2>2 DEF Alone, SingleRowInv
  <2> QED
    BY <2>3, <2>4, <2>5, <2>6 DEF Alone
<1>2. CASE Fault /\ Failed(i) /\ UNCHANGED workdir
  BY <1>2, FailsAlone DEF Uncompress, historyVars
<1> QED
  BY <1>1, <1>2 DEF Uncompress

\* The job that finds all parts is the first one on them, and the only one.
LEMMA GlobAlone ==
    ASSUME CaptureInv, Alone, NEW i \in Parts, Glob(i), ~crossed'
    PROVE  Alone'
<1> Parts' = Parts /\ Live' = Live /\ Parts \subseteq AllParts
    /\ UNCHANGED <<last, row, link, data, mine, crashes, workdir>> /\ step[i] = "glob"
  BY PartsBasics DEF Glob, dbVars, folderVars, Parts, Live
<1>1. CASE /\ Complete(Found(i)) /\ Goto(i, "merge")
           /\ todo' = [todo EXCEPT ![i] = Found(i)]
           /\ crossed' = (crossed \/ \E j \in Parts \ {i} : step[j] \in Handling)
           /\ UNCHANGED faults
  <2>1. workdir = Parts
    BY <1>1, CompleteIsAll DEF Found, CaptureInv, TypeOK
  <2>2. step'[i] = "merge" /\ \A j \in Parts \ {i} : step'[j] = step[j]
    BY <1>1, StepsOf
  <2>3. \A j \in Parts \ {i} : step[j] \notin Handling
    BY <1>1
  <2>4. ~Taken /\ ~Taken'
    BY <2>1 DEF Taken
  <2>5. OneHandler'
    BY <2>2, <2>3 DEF OneHandler
  <2>6. FolderInv'
    BY <2>1, <2>2, <2>4 DEF FolderInv
  <2>7. todo'[i] = Parts /\ \A j \in Parts \ {i} : todo'[j] = todo[j]
    BY <1>1, <2>1 DEF CaptureInv, TypeOK, Found
  <2>8. RowsInv'
    <3>1. \A j \in Parts : step'[j] \in Handling => j = i
      BY <2>2, <2>3
    <3>2. \A r \in Rows : data'[r] # 0 => IsImported(r)'
      BY DEF Alone, RowsInv, IsImported
    <3>3. \A j \in Parts : step'[j] # "remove"
      BY <2>2, <3>1 DEF Handling
    <3>4. \A j \in Parts : step'[j] \notin {"link", "script", "scripting"}
      BY <2>2, <3>1 DEF Handling
    <3>5. \A j \in Parts : step'[j] \in {"merge", "merging", "insert"} => todo'[j] = Parts
      BY <2>7, <3>1 DEF Handling
    <3> QED
      BY <2>4, <3>2, <3>3, <3>4, <3>5 DEF RowsInv
  <2>9. SingleRowInv'
    BY <1>1, <2>2, <2>3, <2>4 DEF Alone, SingleRowInv, Handling
  <2> QED
    BY <2>5, <2>6, <2>8, <2>9 DEF Alone
<1>2. CASE ~Complete(Found(i)) /\ Goto(i, "complete") /\ UNCHANGED <<todo, faults>>
  <2>1. step'[i] = "complete" /\ \A j \in Parts \ {i} : step'[j] = step[j]
    BY <1>2, StepsOf
  <2>2. PICK part \in Parts : part \notin workdir
    <3>1. workdir \subseteq Parts /\ last \in AllParts
      BY DEF CaptureInv, TypeOK
    <3> QED
      BY <1>2, <3>1, AllAreComplete DEF Found
  <2>3. Taken' = Taken
    BY <2>1 DEF Alone, FolderInv, Taken
  <2>4. OneHandler'
    BY <2>1 DEF Alone, OneHandler, Handling
  <2>5. ~Taken => part # i /\ step[part] # "complete"
    BY <2>2 DEF Alone, FolderInv, Taken
  <2>6. FolderInv'
    BY <2>1, <2>3, <2>5 DEF Alone, FolderInv, Handling
  <2>7. RowsInv'
    BY <1>2, <2>1, <2>3, RowsStay DEF Alone, Handling
  <2>8. SingleRowInv'
    BY <1>2, <2>1, <2>3 DEF Alone, SingleRowInv
  <2> QED
    BY <2>4, <2>6, <2>7, <2>8 DEF Alone
<1>3. CASE Fault /\ Failed(i) /\ UNCHANGED <<seen, todo, crossed>>
  BY <1>3, FailsAlone DEF Glob
<1> QED
  BY <1>1, <1>2, <1>3 DEF Glob

\* What the tables have to be for the one job that works on the capture.
LEMMA RowsOfOne ==
    ASSUME NEW i \in Parts, UNCHANGED last, ~Taken',
           \A j \in Parts \ {i} : step'[j] \notin Handling,
           \A r \in Rows : data'[r] # 0 => IsImported(r)',
           step'[i] = "remove" => \E r \in Rows : IsImported(r)',
           step'[i] \in {"merge", "merging", "insert"} => todo'[i] = Parts,
           step'[i] = "link" => /\ AreLinked(Parts \ todo[i])'
                                /\ (todo'[i] # Parts => NoFlows'),
           step'[i] \in {"script", "scripting"} => AreLinked(Parts)' /\ NoFlows',
           step'[i] = "scripting" => mine'[i] \in Live'
    PROVE  RowsInv'
<1> Parts' = Parts
  BY DEF Parts
<1>1. \A j \in Parts : step'[j] \in Handling => j = i
  OBVIOUS
<1>2. ~(\E j \in Parts : step'[j] = "remove") \/ \E r \in Rows : IsImported(r)'
  BY <1>1 DEF Handling
<1>3. ASSUME NEW j \in Parts
      PROVE  /\ step'[j] \in {"merge", "merging", "insert"} => todo'[j] = Parts
             /\ step'[j] = "link" => /\ AreLinked(Parts \ todo[j])'
                                     /\ (todo'[j] # Parts => NoFlows')
             /\ step'[j] \in {"script", "scripting"} => AreLinked(Parts)' /\ NoFlows'
             /\ step'[j] = "scripting" => mine'[j] \in Live'
  BY <1>1 DEF Handling
<1> QED
  BY <1>2, <1>3 DEF RowsInv

LEMMA MergeAlone ==
    ASSUME CaptureInv, Alone, NEW i \in Parts, Merge(i)
    PROVE  Alone'
<1> Parts' = Parts /\ Live' = Live
    /\ UNCHANGED <<last, row, link, data, todo, mine, faults, crashes>>
  BY DEF Merge, dbVars, Parts, Live
<1>1. PICK s \in {"merging", "insert", "clean"} : Goto(i, s)
  BY DEF Merge
<1>2. step[i] = "merge" /\ seen[i] = Parts
  BY DEF Merge, CaptureInv, HandlingInv, Handling
<1>3. UNCHANGED workdir \/ last = 0
  <2>1. CASE Cardinality(Parts) > 1
    BY <1>2, <2>1 DEF Merge, folderVars
  <2>2. CASE ~(Cardinality(Parts) > 1)
    <3>1. Cardinality(Parts) = last + 1
      BY PartsBasics, FS_Interval DEF Parts
    <3> QED
      BY <2>2, <3>1, PartsBasics
  <2> QED
    BY <2>1, <2>2
<1>4. /\ OneHandler' /\ FolderInv' /\ ~Taken /\ ~Taken' /\ step'[i] = s
      /\ \A j \in Parts \ {i} : step[j] \notin Handling /\ step'[j] \notin Handling
  BY <1>1, <1>2, <1>3, SoleGoesOn, StepsOf DEF Alone, Handling
<1>5. todo[i] = Parts /\ \A r \in Rows : data'[r] # 0 => IsImported(r)'
  BY <1>2 DEF Alone, RowsInv, IsImported
<1>6. RowsInv'
  BY <1>4, <1>5, RowsOfOne
<1>7. SingleRowInv'
  BY <1>2, <1>4 DEF Alone, SingleRowInv, Handling
<1> QED
  BY <1>4, <1>6, <1>7 DEF Alone

LEMMA EndMergeAlone ==
    ASSUME CaptureInv, Alone, NEW i \in Parts, EndMerge(i)
    PROVE  Alone'
<1> Parts' = Parts /\ Live' = Live
    /\ UNCHANGED <<last, workdir, row, link, data, todo, mine, crashes>>
    /\ (UNCHANGED faults \/ Fault)
  BY DEF EndMerge, dbVars, folderVars, Parts, Live
<1>1. PICK s \in {"insert", "clean"} : Goto(i, s)
  BY DEF EndMerge
<1>2. step[i] = "merging"
  BY DEF EndMerge
<1>4. /\ OneHandler' /\ FolderInv' /\ ~Taken /\ ~Taken' /\ step'[i] = s
      /\ \A j \in Parts \ {i} : step[j] \notin Handling /\ step'[j] \notin Handling
  BY <1>1, <1>2, SoleGoesOn, StepsOf DEF Alone, Handling
<1>5. todo[i] = Parts /\ \A r \in Rows : data'[r] # 0 => IsImported(r)'
  BY <1>2 DEF Alone, RowsInv, IsImported
<1>6. RowsInv'
  BY <1>4, <1>5, RowsOfOne
<1>7. SingleRowInv'
  BY <1>2, <1>4, NotOverYet DEF Alone, SingleRowInv, Handling
<1> QED
  BY <1>4, <1>6, <1>7 DEF Alone

\* A new row has nothing yet; the rows that were there keep what they have.
LEMMA InsertPcapAlone ==
    ASSUME CaptureInv, Alone, NEW i \in Parts, InsertPcap(i)
    PROVE  Alone'
<1> Parts' = Parts
    /\ UNCHANGED <<last, workdir, link, data, todo, mine, crashes>>
    /\ (UNCHANGED faults \/ Fault)
  BY DEF InsertPcap, folderVars, Parts
<1>1. PICK s \in {"link", "clean"} : Goto(i, s)
  BY DEF InsertPcap
<1>2. step[i] = "insert"
  BY DEF InsertPcap
<1>3. \/ UNCHANGED row
      \/ \E r \in Rows : row[r] = "none" /\ row' = [row EXCEPT ![r] = "processing"]
  BY DEF InsertPcap
<1>4. /\ OneHandler' /\ FolderInv' /\ ~Taken /\ ~Taken' /\ step'[i] = s
      /\ \A j \in Parts \ {i} : step[j] \notin Handling /\ step'[j] \notin Handling
  BY <1>1, <1>2, SoleGoesOn, StepsOf DEF Alone, Handling
<1>5. todo[i] = Parts /\ \A r \in Rows : data[r] # 0 => IsImported(r)
  BY <1>2 DEF Alone, RowsInv
<1>6. \A r \in Rows : data'[r] # 0 => IsImported(r)'
  BY <1>3, <1>5 DEF IsImported, CaptureInv, TypeOK
<1>7. RowsInv'
  <2>1. AreLinked(Parts \ todo[i])'
    BY <1>5 DEF AreLinked
  <2> QED
    BY <1>4, <1>5, <1>6, <2>1, RowsOfOne
<1>8. SingleRowInv'
  <2> SUFFICES ASSUME faults' = 0, crashes' = 0 PROVE SingleRowInv'
    BY DEF SingleRowInv
  <2>1. faults = 0 /\ crashes = 0 /\ UNCHANGED faults
    BY NotOverYet
  <2>2. Live = {}
    BY <1>2, <1>4, <2>1 DEF Alone, SingleRowInv, Handling
  <2>3. \A q, r \in Live' : q = r
    BY <1>3, <2>2 DEF Live, CaptureInv, TypeOK
  <2> QED
    BY <1>4, <2>3 DEF SingleRowInv
<1> QED
  BY <1>4, <1>7, <1>8 DEF Alone

\* The first part finds no row that has its link, and so none with flows.
LEMMA LinkNextAlone ==
    ASSUME CaptureInv, Alone, NEW i \in Parts, LinkNext(i)
    PROVE  Alone'
<1> Parts' = Parts /\ Live' = Live /\ Live \subseteq Rows
    /\ UNCHANGED <<last, workdir, row, data, mine, crashes>>
    /\ (UNCHANGED faults \/ Fault)
  BY DEF LinkNext, folderVars, Parts, Live
<1>1. step[i] = "link" /\ step[i] \in Handling
  BY DEF LinkNext, Handling
<1>2. PICK part \in todo[i] :
        \/ /\ \A r \in Live : <<r, part>> \notin link
           /\ link' = link \cup {<<r, part>> : r \in Live}
           /\ todo' = [todo EXCEPT ![i] = @ \ {part}]
           /\ UNCHANGED <<step, faults>>
        \/ Goto(i, "clean") /\ UNCHANGED <<link, todo>>
  BY DEF LinkNext
<1>3. /\ AreLinked(Parts \ todo[i]) /\ (todo[i] # Parts => NoFlows)
      /\ \A r \in Rows : data[r] # 0 => IsImported(r)
  BY <1>1 DEF Alone, RowsInv
<1>4. CASE /\ \A r \in Live : <<r, part>> \notin link
           /\ link' = link \cup {<<r, part>> : r \in Live}
           /\ todo' = [todo EXCEPT ![i] = @ \ {part}]
           /\ UNCHANGED <<step, faults>>
  <2>1. todo'[i] = todo[i] \ {part} /\ part \in Parts /\ todo[i] \subseteq Parts
    BY <1>4, PartsBasics DEF CaptureInv, TypeOK
  <2>2. NoFlows'
    <3>1. \A r \in Rows : data[r] = 0 \/ IsImported(r)
      BY <1>3
    <3>2. \A r \in Rows : ~IsImported(r)
      BY <1>4, <2>1 DEF IsImported, Live
    <3> QED
      BY <3>1, <3>2 DEF NoFlows
  <2>3. AreLinked(Parts \ todo[i])'
    <3>1. ASSUME NEW r \in Live, NEW p \in Parts \ todo'[i]
          PROVE  <<r, p>> \in link'
      <4>1. p = part \/ <<r, p>> \in link
        BY <1>3, <2>1, <3>1 DEF AreLinked
      <4>2. <<r, part>> \in {<<q, part>> : q \in Live}
        BY <3>1
      <4>3. {<<q, part>> : q \in Live} \subseteq link' /\ link \subseteq link'
        BY <1>4
      <4> QED
        BY <4>1, <4>2, <4>3
    <3> QED
      BY <3>1, Zenon DEF AreLinked
  <2>4. /\ OneHandler' /\ FolderInv' /\ ~Taken'
        /\ \A j \in Parts \ {i} : step'[j] \notin Handling
    BY <1>1, <1>4 DEF Alone, OneHandler, FolderInv, Taken
  <2>5. RowsInv'
    <3>1. step'[i] = "link"
      BY <1>1, <1>4
    <3> QED
      BY <2>2, <2>3, <2>4, <3>1, RowsOfOne DEF NoFlows
  <2>6. SingleRowInv'
    BY <1>1, <1>4 DEF Alone, SingleRowInv
  <2> QED
    BY <2>4, <2>5, <2>6 DEF Alone
<1>5. CASE Goto(i, "clean") /\ UNCHANGED <<link, todo>>
  <2>1. /\ OneHandler' /\ FolderInv' /\ ~Taken /\ ~Taken' /\ step'[i] = "clean"
        /\ \A j \in Parts \ {i} : step[j] \notin Handling /\ step'[j] \notin Handling
    BY <1>1, <1>5, SoleGoesOn, StepsOf DEF Alone, Handling
  <2>2. \A r \in Rows : data'[r] # 0 => IsImported(r)'
    BY <1>3, <1>5 DEF IsImported
  <2>3. RowsInv'
    BY <2>1, <2>2, RowsOfOne
  <2>4. SingleRowInv'
    BY <1>1, <2>1, NotOverYet DEF Alone, SingleRowInv
  <2> QED
    BY <2>1, <2>3, <2>4 DEF Alone
<1> QED
  BY <1>2, <1>4, <1>5

LEMMA LinkedAlone ==
    ASSUME CaptureInv, Alone, NEW i \in Parts, Linked(i)
    PROVE  Alone'
<1> Parts' = Parts /\ Live' = Live
    /\ UNCHANGED <<last, workdir, row, link, data, todo, mine, faults, crashes>>
  BY DEF Linked, dbVars, folderVars, Parts, Live
<1>1. step[i] = "link" /\ step[i] \in Handling /\ todo[i] = {} /\ Goto(i, "script")
  BY DEF Linked, Handling
<1>2. /\ OneHandler' /\ FolderInv' /\ ~Taken /\ ~Taken' /\ step'[i] = "script"
      /\ \A j \in Parts \ {i} : step[j] \notin Handling /\ step'[j] \notin Handling
  BY <1>1, SoleGoesOn, StepsOf DEF Alone, Handling
<1>3. /\ AreLinked(Parts) /\ NoFlows
      /\ \A r \in Rows : data'[r] # 0 => IsImported(r)'
  BY <1>1, PartsBasics DEF Alone, RowsInv, IsImported, AreLinked
<1>4. AreLinked(Parts)' /\ NoFlows'
  BY <1>3 DEF AreLinked, NoFlows
<1>5. RowsInv'
  BY <1>2, <1>3, <1>4, RowsOfOne
<1>6. SingleRowInv'
  BY <1>1, <1>2 DEF Alone, SingleRowInv
<1> QED
  BY <1>2, <1>5, <1>6 DEF Alone

LEMMA StartScriptAlone ==
    ASSUME CaptureInv, Alone, NEW i \in Parts, StartScript(i)
    PROVE  Alone'
<1> Parts' = Parts /\ UNCHANGED <<last, workdir, link, data, todo, faults, crashes>>
  BY DEF StartScript, folderVars, Parts
<1>1. step[i] = "script" /\ step[i] \in Handling
  BY DEF StartScript, Handling
<1>2. AreLinked(Parts) /\ NoFlows
  BY <1>1 DEF Alone, RowsInv
<1>3. PICK s \in {"scripting", "clean"} :
          /\ Goto(i, s)
          /\ \/ /\ s = "scripting"
                /\ \E r \in Live : /\ mine' = [mine EXCEPT ![i] = r]
                                   /\ row' = [row EXCEPT ![r] = "processing"]
             \/ s = "clean" /\ UNCHANGED <<mine, row>>
  BY DEF StartScript
<1>4. Live' = Live /\ Live \subseteq Rows
  BY <1>3 DEF Live, CaptureInv, TypeOK
<1>5. /\ OneHandler' /\ FolderInv' /\ ~Taken /\ ~Taken' /\ step'[i] = s
      /\ \A j \in Parts \ {i} : step[j] \notin Handling /\ step'[j] \notin Handling
  BY <1>1, <1>3, SoleGoesOn, StepsOf DEF Alone, Handling
<1>6. AreLinked(Parts)' /\ NoFlows' /\ \A r \in Rows : data'[r] # 0 => IsImported(r)'
  BY <1>2, <1>4 DEF AreLinked, NoFlows
<1>7. s = "scripting" => mine'[i] \in Live'
  BY <1>3, <1>4, PartsBasics DEF CaptureInv, TypeOK
<1>8. RowsInv'
  BY <1>5, <1>6, <1>7, RowsOfOne
<1>9. SingleRowInv'
  BY <1>1, <1>4, <1>5 DEF Alone, SingleRowInv
<1> QED
  BY <1>5, <1>8, <1>9 DEF Alone

\* The script that succeeds gives its row, fully linked, its first flows.
LEMMA EndScriptAlone ==
    ASSUME CaptureInv, Alone, NEW i \in Parts, EndScript(i)
    PROVE  Alone'
<1> Parts' = Parts /\ UNCHANGED <<last, workdir, link, todo, crashes>>
    /\ (UNCHANGED faults \/ Fault)
  BY DEF EndScript, folderVars, Parts
<1>1. step[i] = "scripting" /\ step[i] \in Handling
  BY DEF EndScript, Handling
<1>0. PICK r \in Rows : r = mine[i] /\ r \in Live
  BY <1>1 DEF Alone, RowsInv, Live
<1>2. AreLinked(Parts) /\ NoFlows /\ r = mine[i] /\ r \in Live /\ r \in Rows
  BY <1>0, <1>1 DEF Alone, RowsInv
<1>3. PICK s \in {"remove", "clean"} :
          /\ Goto(i, s)
          /\ \/ /\ s = "remove" /\ row' = [row EXCEPT ![r] = "success"]
                /\ data' = [data EXCEPT ![r] = @ + 1]
             \/ /\ s = "clean" /\ UNCHANGED data
                /\ row' = [row EXCEPT ![r] = "failed"]
  BY <1>2 DEF EndScript
<1>4. Live' = Live
  BY <1>2, <1>3 DEF Live, CaptureInv, TypeOK
<1>5. /\ OneHandler' /\ FolderInv' /\ ~Taken /\ ~Taken' /\ step'[i] = s
      /\ \A j \in Parts \ {i} : step[j] \notin Handling /\ step'[j] \notin Handling
  BY <1>1, <1>3, SoleGoesOn, StepsOf DEF Alone, Handling
<1>6. s = "remove" => /\ data'[r] = 1 /\ IsImported(r)'
                      /\ \A q \in Rows \ {r} : data'[q] = 0
  <2> SUFFICES ASSUME s = "remove"
               PROVE  /\ data'[r] = 1 /\ IsImported(r)'
                      /\ \A q \in Rows \ {r} : data'[q] = 0
    OBVIOUS
  <2>1. /\ row' = [row EXCEPT ![r] = "success"] /\ data' = [data EXCEPT ![r] = @ + 1]
        /\ row \in [Rows -> {"none", "processing", "success", "failed", "deleted"}]
        /\ data \in [Rows -> Nat]
    BY <1>3 DEF CaptureInv, TypeOK
  <2>2. row'[r] = "success" /\ data'[r] = 1 /\ \A q \in Rows \ {r} : data'[q] = 0
    BY <1>2, <2>1 DEF NoFlows
  <2>3. \A p \in Parts : <<r, p>> \in link
    BY <1>2 DEF AreLinked
  <2> QED
    BY <2>2, <2>3 DEF IsImported
<1>7. s = "clean" => NoFlows'
  BY <1>2, <1>3 DEF NoFlows
<1>8. \A q \in Rows : data'[q] # 0 => IsImported(q)'
  BY <1>3, <1>6, <1>7 DEF NoFlows
<1>9. RowsInv'
  <2>1. step'[i] = "remove" => \E q \in Rows : IsImported(q)'
    BY <1>2, <1>5, <1>6
  <2> QED
    BY <1>5, <1>8, <2>1, RowsOfOne
<1>10. SingleRowInv'
  <2>1. step'[i] \in {"remove", "clean"}
    BY <1>5
  <2> QED
    BY <1>1, <1>4, <2>1, NotOverYet DEF Alone, SingleRowInv
<1> QED
  BY <1>5, <1>9, <1>10 DEF Alone

\* The job that has imported the capture takes its part away: from now on no
\* job finds all parts.
LEMMA RemoveAlone ==
    ASSUME CaptureInv, Alone, NEW i \in Parts, Remove(i)
    PROVE  Alone'
<1> Parts' = Parts /\ Live' = Live
    /\ UNCHANGED <<last, row, link, data, todo, mine, faults, crashes>>
  BY DEF Remove, dbVars, Parts, Live
<1>1. step[i] = "remove" /\ step[i] \in Handling /\ seen[i] = Parts /\ Goto(i, "complete")
  BY DEF Remove, CaptureInv, HandlingInv, Handling
<1>2. /\ step'[i] = "complete"
      /\ \A j \in Parts \ {i} : step'[j] = step[j] /\ step[j] \notin Handling
  BY <1>1, StepsOf DEF Alone, OneHandler
<1>3. i \notin workdir'
  <2>1. workdir' = workdir \ {p \in Parts : \A q \in Parts : q <= p => q \in workdir}
    BY <1>1 DEF Remove
  <2>2. CASE last > 0
    <3>1. workdir = Parts
      BY <1>1, <2>2 DEF Alone, FolderInv
    <3> QED
      BY <2>1, <3>1
  <2>3. CASE last = 0
    <3>1. Parts = {0}
      BY <2>3, PartsBasics
    <3> QED
      BY <2>1, <3>1
  <2> QED
    BY <2>2, <2>3, PartsBasics
<1>4. Taken'
  BY <1>2, <1>3 DEF Taken
<1>5. \A j \in Parts : step'[j] \notin Handling
  BY <1>2 DEF Handling
<1>6. OneHandler' /\ FolderInv'
  BY <1>4, <1>5 DEF OneHandler, FolderInv
<1>7. RowsInv'
  <2>1. \E r \in Rows : IsImported(r)'
    BY <1>1 DEF Alone, RowsInv, IsImported
  <2>2. \A r \in Rows : data'[r] # 0 => IsImported(r)'
    BY DEF Alone, RowsInv, IsImported
  <2> QED
    BY <1>5, <2>1, <2>2 DEF RowsInv, Handling
<1>8. SingleRowInv'
  BY <1>1, <1>4 DEF Alone, SingleRowInv
<1> QED
  BY <1>6, <1>7, <1>8 DEF Alone

LEMMA CleanAlone ==
    ASSUME CaptureInv, Alone, NEW i \in Parts, Clean(i)
    PROVE  Alone'
<1> Parts' = Parts /\ UNCHANGED <<last, workdir, crashes>>
  BY DEF Clean, folderVars, Parts
<1>1. step[i] = "clean" /\ step[i] \in Handling /\ Goto(i, "unlink")
  BY DEF Clean, Handling
<1>2. /\ OneHandler' /\ FolderInv' /\ ~Taken /\ ~Taken' /\ step'[i] = "unlink"
      /\ \A j \in Parts \ {i} : step[j] \notin Handling /\ step'[j] \notin Handling
  BY <1>1, SoleGoesOn, StepsOf DEF Alone, Handling
<1>3. CASE /\ row' = [r \in Rows |-> IF r \in Live THEN "deleted" ELSE row[r]]
           /\ data' = [r \in Rows |-> 0]
  <2>1. Live' = {}
    BY <1>3 DEF Live
  <2>2. RowsInv'
    BY <1>2, <1>3, RowsOfOne
  <2>3. SingleRowInv'
    BY <2>1 DEF SingleRowInv
  <2> QED
    BY <1>2, <2>2, <2>3 DEF Alone
<1>4. CASE Fault /\ UNCHANGED <<row, link, data>>
  <2>1. \A r \in Rows : data'[r] # 0 => IsImported(r)'
    BY <1>4 DEF Alone, RowsInv, IsImported
  <2>2. RowsInv'
    BY <1>2, <2>1, RowsOfOne
  <2>3. SingleRowInv'
    <3>1. faults' # 0
      BY <1>4, PartsBasics DEF Fault
    <3> QED
      BY <3>1 DEF SingleRowInv
  <2> QED
    BY <1>2, <2>2, <2>3 DEF Alone
<1> QED
  BY <1>3, <1>4 DEF Clean

\* The merged file is gone, and so is the claim on the capture; without
\* faults the rows are gone too.
LEMMA UnlinkAlone ==
    ASSUME CaptureInv, Alone, NEW i \in Parts, Unlink(i), SingleRowInv'
    PROVE  Alone'
<1> UNCHANGED <<last, workdir, row, link, data, todo, mine>>
  BY DEF Unlink, dbVars
<1>1. step[i] = "unlink" /\ \E s \in {"queued", "failed"} : Goto(i, s)
  BY DEF Unlink, Failed
<1>2. /\ OneHandler' /\ FolderInv' /\ Taken' = Taken /\ step'[i] \in {"queued", "failed"}
      /\ \A j \in Parts \ {i} : step'[j] = step[j]
  BY <1>1, OneLeaves DEF Alone
<1>3. RowsInv'
  BY <1>2, RowsStay DEF Alone, Handling
<1> QED
  BY <1>2, <1>3 DEF Alone

LEMMA UnlinkSingle ==
    ASSUME CaptureInv, Alone, NEW i \in Parts, Unlink(i)
    PROVE  SingleRowInv'
<1> Parts' = Parts /\ Live' = Live /\ UNCHANGED <<last, workdir, faults, crashes>>
  BY DEF Unlink, dbVars, Parts, Live
<1>1. step[i] = "unlink" /\ step[i] \in Handling
  BY DEF Unlink, Handling
<1>2. \A j \in Parts \ {i} : step[j] \notin Handling
  BY <1>1 DEF Alone, OneHandler
<1>3. ~Taken
  BY <1>1 DEF Alone, FolderInv
<1>4. faults = 0 /\ crashes = 0 => Live = {}
  BY <1>1, <1>2, <1>3 DEF Alone, SingleRowInv, Handling
<1> QED
  BY <1>4 DEF SingleRowInv

LEMMA ImportConnectionAlone ==
    ASSUME CaptureInv, Alone, ImportConnection
    PROVE  Alone'
<1> Parts' = Parts /\ Live' = Live
    /\ UNCHANGED <<last, step, workdir, row, link, data, todo, mine, faults, crashes>>
  BY DEF ImportConnection, jobVars, folderVars, Parts, Live
<1>1. OneHandler' /\ FolderInv' /\ Taken' = Taken
  BY DEF Alone, OneHandler, FolderInv, Taken
<1>2. RowsInv'
  BY <1>1, RowsStay DEF Alone
<1>3. SingleRowInv'
  BY <1>1 DEF Alone, SingleRowInv
<1> QED
  BY <1>1, <1>2, <1>3 DEF Alone

\* After a crash nobody works on the capture; its rows are what they were.
LEMMA CrashAlone ==
    ASSUME CaptureInv, Alone, Crash
    PROVE  Alone'
<1> Parts' = Parts /\ Parts \subseteq AllParts
    /\ UNCHANGED <<last, workdir, row, link, data>>
  BY PartsBasics DEF Crash, folderVars, dbVars, Parts
<1>1. \A j \in Parts : step'[j] = IF step[j] \in Running THEN "queued" ELSE step[j]
  BY DEF Crash
<1>2. \A j \in Parts : /\ step'[j] \notin Handling /\ step'[j] # "glob"
                       /\ step'[j] = "complete" <=> step[j] = "complete"
  BY <1>1 DEF Running, Handling
<1>3. Taken' = Taken
  BY <1>2 DEF Taken
<1>4. OneHandler' /\ FolderInv'
  BY <1>2, <1>3 DEF Alone, OneHandler, FolderInv
<1>5. RowsInv'
  BY <1>2, <1>3, RowsStay DEF Alone
<1>6. SingleRowInv'
  <2>1. crashes' # 0
    BY PartsBasics DEF Crash
  <2> QED
    BY <2>1 DEF SingleRowInv
<1> QED
  BY <1>4, <1>5, <1>6 DEF Alone

LEMMA AloneInit == Init => AloneInv
<1> SUFFICES ASSUME Init PROVE Alone
  BY DEF AloneInv, Alone
<1>1. CaptureInv /\ Parts \subseteq AllParts /\ 0 \in Parts
  BY InitInv, PartsBasics
<1>2. \A j \in Parts : step[j] = "queued"
  BY <1>1 DEF Init
<1>3. \A j \in Parts : step[j] \notin Handling
  BY <1>2 DEF Handling
<1>4. ~Taken
  BY <1>2 DEF Taken
<1>5. OneHandler /\ FolderInv
  BY <1>1, <1>2, <1>3, <1>4 DEF OneHandler, FolderInv
<1>6. RowsInv
  BY <1>2, <1>4 DEF Init, RowsInv
<1>7. SingleRowInv
  BY DEF Init, SingleRowInv, Live
<1> QED
  BY <1>5, <1>6, <1>7 DEF Alone

LEMMA AloneNext == ImportInv /\ [Next]_vars => ImportInv'
<1> SUFFICES ASSUME ImportInv, [Next]_vars PROVE ImportInv'
  OBVIOUS
<1>1. CaptureInv /\ CaptureInv'
  BY NextInv DEF ImportInv
<1>2. SUFFICES ASSUME ~crossed' PROVE Alone'
  BY <1>1 DEF ImportInv, AloneInv, Alone
<1>3. ~crossed
  BY <1>2 DEF Next, vars, historyVars, Step, Start, Uncompress, Glob, Merge, EndMerge,
     InsertPcap, LinkNext, Linked, StartScript, EndScript, Remove, Clean, Unlink,
     ImportConnection, Crash
<1>4. Alone
  BY <1>3 DEF ImportInv, AloneInv, Alone
<1>5. ASSUME NEW i \in Parts, Start(i) \/ Step(i) PROVE Alone'
  BY <1>1, <1>2, <1>4, <1>5, StartAlone, UncompressAlone, GlobAlone, MergeAlone,
     EndMergeAlone, InsertPcapAlone, LinkNextAlone, LinkedAlone, StartScriptAlone,
     EndScriptAlone, RemoveAlone, CleanAlone, UnlinkAlone, UnlinkSingle DEF Step
<1>6. CASE ImportConnection
  BY <1>1, <1>4, <1>6, ImportConnectionAlone
<1>7. CASE Crash
  BY <1>1, <1>4, <1>7, CrashAlone
<1>8. CASE UNCHANGED vars
  <2>1. UNCHANGED <<last, step, todo, mine, workdir, row, link, data, faults, crashes>>
    BY <1>8 DEF vars, jobVars, folderVars, dbVars
  <2>2. Parts' = Parts /\ Live' = Live
    BY <2>1 DEF Parts, Live
  <2>3. OneHandler' /\ FolderInv' /\ Taken' = Taken
    BY <1>4, <2>1, <2>2 DEF Alone, OneHandler, FolderInv, Taken
  <2>4. RowsInv'
    BY <1>4, <2>1, <2>3, RowsStay DEF Alone
  <2>5. SingleRowInv'
    BY <1>4, <2>1, <2>2, <2>3 DEF Alone, SingleRowInv
  <2> QED
    BY <2>3, <2>4, <2>5 DEF Alone
<1> QED
  BY <1>5, <1>6, <1>7, <1>8 DEF Next

-----------------------------------------------------------------------------
(* What follows from the invariant.                                        *)

\* The inductive invariant holds of every capture.
THEOREM CaptureInvariance == Spec => []ImportInv
<1>1. Init => ImportInv
  BY InitInv, AloneInit DEF ImportInv
<1> QED
  BY <1>1, AloneNext, PTL DEF Spec

\* Type correctness; in particular no job uses more attempts than it has.
THEOREM CaptureTypes == Spec => []TypeOK
<1>1. ImportInv => TypeOK
  BY DEF ImportInv, CaptureInv
<1> QED
  BY <1>1, CaptureInvariance, PTL

\* No part of a capture that has not been imported leaves the work folder
\* after its job was answered (process_pcap.js:186-196, 207).
THEOREM NoPartIsLost == Spec => []PartsAreKept
<1>1. ImportInv => PartsAreKept
  BY DEF ImportInv, CaptureInv, KeptInv, PartsAreKept
<1> QED
  BY <1>1, CaptureInvariance, PTL

\* In whatever order the parts come, and however their jobs interleave, one
\* of them finds the capture complete (process_pcap.js:57-71).
THEOREM OneFindsAll == Spec => []SomeoneFindsAll
<1>1. ImportInv => SomeoneFindsAll
  <2> SUFFICES ASSUME CaptureInv, ~imported,
                      \A i \in Parts : step[i] \in Handling \cup {"complete"}
               PROVE  \E i \in Parts : seen[i] = Parts
    BY DEF ImportInv, SomeoneFindsAll
  <2>1. PICK i \in Parts : step[i] # "complete"
    BY DEF CaptureInv, NotOverInv
  <2>2. seen[i] = Parts
    BY <2>1 DEF CaptureInv, HandlingInv
  <2> QED
    BY <2>2
<1> QED
  BY <1>1, CaptureInvariance, PTL

\* When no two jobs took the capture up together, the answers of all its jobs
\* mean what they say: the capture is in the database with its flows once and
\* each part once (process_pcap.js:13-15, 117-160).
THEOREM AnswersMeanWhatTheySay == Spec => []AnswersMeanImported
<1>1. ImportInv => AnswersMeanImported
  <2> SUFFICES ASSUME ImportInv, AllComplete, ~crossed
               PROVE  /\ \E r \in Rows : IsImported(r)
                      /\ crashes = 0 /\ faults = 0 => Cardinality(Live) = 1
    BY DEF AnswersMeanImported
  <2>1. FolderInv /\ RowsInv /\ SingleRowInv
    BY DEF ImportInv, AloneInv
  <2>2. Taken
    BY <2>1 DEF FolderInv, AllComplete
  <2>3. PICK r \in Rows : IsImported(r)
    BY <2>1, <2>2 DEF RowsInv
  <2>4. crashes = 0 /\ faults = 0 => Live = {r}
    BY <2>1, <2>3 DEF SingleRowInv, IsImported, Live
  <2> QED
    BY <2>3, <2>4, FS_Singleton
<1> QED
  BY <1>1, CaptureInvariance, PTL
=============================================================================
