--------------------------- MODULE PipelineProofs ---------------------------
(***************************************************************************)
(* What Pipeline promises for every set of files, every number of workers, *)
(* jobs and attempts, and every number of stops and crashes.               *)
(***************************************************************************)
EXTENDS PipelineRefinement, FiniteSetTheorems, SequenceTheorems, TLAPS

\* A job that has been created stands for a path, and so for a key.
LEMMA KeyInKeys ==
    ASSUME TypeOK, NEW j \in JobIds, job[j].path \in Paths
    PROVE  Key(j) \in Keys /\ DeviceOf[Key(j)] \in Devices
BY PathAssumption DEF Key

\* What the two writes to table "files" do to the rows of a key.
LEMMA RowsType ==
    ASSUME NEW s \in Seq(Statuses), NEW x \in Statuses
    PROVE  /\ Append(s, x) \in Seq(Statuses) /\ Len(Append(s, x)) = Len(s) + 1
           /\ [s EXCEPT ![1] = x] \in Seq(Statuses) /\ Len([s EXCEPT ![1] = x]) = Len(s)
<1>1. CASE 1 \in 1 .. Len(s)
  BY <1>1, ExceptSeq, AppendProperties
<1>2. CASE 1 \notin 1 .. Len(s)
  <2>1. Len(s) = 0 /\ s = <<>>
    BY <1>2, EmptySeq, LenProperties
  <2>2. [s EXCEPT ![1] = x] = s
    BY <2>1
  <2> QED
    BY <2>2, AppendProperties
<1> QED
  BY <1>1, <1>2

\* The two ways a handler's record is written keep its type.
LEMMA GotoType ==
    ASSUME NEW j \in JobIds, NEW s \in Steps, handler \in [JobIds -> HandlerSet],
           handler' = [handler EXCEPT ![j].step = s]
    PROVE  handler' \in [JobIds -> HandlerSet]
<1>1. [handler[j] EXCEPT !.step = s] \in HandlerSet
  BY DEF HandlerSet
<1> QED
  BY <1>1

LEMMA FinishType ==
    ASSUME NEW j \in JobIds, NEW s \in Steps, NEW r \in Results,
           handler \in [JobIds -> HandlerSet],
           handler' = [handler EXCEPT ![j].step = s, ![j].result = r]
    PROVE  handler' \in [JobIds -> HandlerSet]
<1>1. [[handler[j] EXCEPT !.step = s] EXCEPT !.result = r] \in HandlerSet
  BY DEF HandlerSet
<1>2. handler' = [handler EXCEPT ![j] = [[handler[j] EXCEPT !.step = s] EXCEPT !.result = r]]
  OBVIOUS
<1> QED
  BY <1>1, <1>2

(***************************************************************************)
(* Type correctness.                                                       *)
(***************************************************************************)
LEMMA TypeInit == Init => TypeOK
<1> SUFFICES ASSUME Init PROVE TypeOK
  OBVIOUS
<1>1. Idle \in HandlerSet /\ [path |-> NoPath, state |-> "unused", attempts |-> 0] \in JobSet
  BY RetryAssumption DEF Idle, HandlerSet, JobSet, Steps, Results, JobStates
<1> QED
  BY <1>1, WorkerAssumption, BoundAssumption DEF Init, TypeOK

\* What a job's record may be changed to.
LEMMA JobType ==
    ASSUME TypeOK, NEW j \in JobIds, NEW p \in Paths, NEW s \in JobStates,
           NEW n \in 0..Retry
    PROVE  /\ [path |-> p, state |-> s, attempts |-> n] \in JobSet
           /\ [job[j] EXCEPT !.state = s] \in JobSet
           /\ [job[j] EXCEPT !.attempts = n, !.state = s] \in JobSet
BY DEF TypeOK, JobSet

LEMMA AfterFailureType ==
    ASSUME TypeOK, NEW j \in JobIds, job[j].attempts < Retry
    PROVE  AfterFailure(j) \in JobSet
<1> DEFINE n == job[j].attempts + 1
<1>1. n \in 0..Retry
  BY RetryAssumption DEF TypeOK, JobSet
<1>2. CASE n < Retry
  BY <1>1, <1>2 DEF TypeOK, JobSet, AfterFailure, JobStates
<1>3. CASE ~(n < Retry)
  BY <1>1, <1>3 DEF TypeOK, JobSet, AfterFailure, JobStates
<1> QED
  BY <1>2, <1>3

\* A handler that takes a step is busy with an active job, which has a path.
LEMMA BusyJob ==
    ASSUME TypeOK, HandlerInv, NEW j \in JobIds, HandlerStep(j)
    PROVE  /\ handler[j].step # "idle" /\ job[j].state = "active"
           /\ job[j].path \in Paths /\ Key(j) \in Keys
           /\ DeviceOf[Key(j)] \in Devices
<1>1. handler[j].step # "idle"
  BY DEF HandlerStep, LookupDevice, RegisterDevice, BeginFile, BeginInsert,
     BeginUpdate, OpenFile, Import, EndFile, EndUpdate, DbError, Done
<1> QED
  BY <1>1, KeyInKeys DEF HandlerInv

LEMMA TypeStep ==
    ASSUME TypeOK, HandlerInv, SettledInv, [Next]_vars
    PROVE  TypeOK'
<1> USE DEF TypeOK, folderVars, masterVars, queueVars, dbVars, faultVars
<1>1. ASSUME NEW p \in Paths, Deliver(p) PROVE TypeOK'
  BY <1>1 DEF Deliver
<1>2. ASSUME NEW p \in Paths, Enqueue(p) PROVE TypeOK'
  <2>1. [path |-> p, state |-> "inactive", attempts |-> 0] \in JobSet
    BY RetryAssumption DEF JobSet, JobStates
  <2> QED
    BY <1>2, <2>1 DEF Enqueue
<1>3. ASSUME NEW j \in JobIds, OnSettled(j) PROVE TypeOK'
  BY <1>3 DEF OnSettled
<1>4. ASSUME NEW j \in JobIds, MoveFile(j) PROVE TypeOK'
  BY <1>4 DEF MoveFile, Movable
<1>5. ASSUME NEW j \in JobIds, Promote(j) PROVE TypeOK'
  <2>1. [job[j] EXCEPT !.state = "inactive"] \in JobSet
    BY DEF JobSet, JobStates
  <2> QED
    BY <1>5, <2>1 DEF Promote
<1>6. ASSUME NEW j \in JobIds, NEW w \in Workers, Start(w, j) PROVE TypeOK'
  <2>1. [job[j] EXCEPT !.state = "active"] \in JobSet
    BY DEF JobSet, JobStates
  <2>2. \A s \in Steps, r \in Results : [worker |-> w, step |-> s, result |-> r] \in HandlerSet
    BY DEF HandlerSet
  <2>3. handler' \in [JobIds -> HandlerSet]
    BY <1>6, <2>2 DEF Start, Steps, Results
  <2> QED
    BY <1>6, <2>1, <2>3 DEF Start
<1>7. Idle \in HandlerSet
  BY DEF Idle, HandlerSet, Steps, Results
<1>8. ASSUME NEW w \in Workers, WorkerCrash(w) PROVE TypeOK'
  BY <1>7, <1>8, BoundAssumption DEF WorkerCrash
<1>9. CASE MasterStop
  BY <1>7, <1>9, BoundAssumption DEF MasterStop
<1>10. CASE MasterStart
  BY <1>10 DEF MasterStart
<1>11. ASSUME NEW j \in JobIds, HandlerStep(j) PROVE TypeOK'
  <2> USE DEF Goto, Finish, EndWith
  <2>1. job[j].state = "active" /\ job[j].path \in Paths /\ Key(j) \in Keys
        /\ DeviceOf[Key(j)] \in Devices
    BY <1>11, BusyJob
  <2>2. handler' \in [JobIds -> HandlerSet]
    <3>1. CASE Done(j)
      BY <1>7, <3>1 DEF Done
    <3>2. CASE ~Done(j)
      <4>1. \/ \E s \in Steps : handler' = [handler EXCEPT ![j].step = s]
            \/ \E s \in Steps, r \in Results :
                   handler' = [handler EXCEPT ![j].step = s, ![j].result = r]
        BY <1>11, <3>2 DEF HandlerStep, LookupDevice, RegisterDevice, BeginFile,
           BeginInsert, BeginUpdate, OpenFile, Import, EndFile, EndUpdate, DbError,
           Steps, Results
      <4> QED
        BY <4>1, GotoType, FinishType
    <3> QED
      BY <3>1, <3>2
  <2>3. files' \in [Keys -> Seq(Statuses)] /\ devices' \subseteq Devices
    <3> DEFINE rows == files[Key(j)]
    <3>0. /\ {"processing", "errored", "success"} \subseteq Statuses
          /\ rows \in Seq(Statuses)
          /\ \A x \in Statuses : Append(rows, x) \in Seq(Statuses)
          /\ \A x \in Statuses : [rows EXCEPT ![1] = x] \in Seq(Statuses)
      <4>1. rows \in Seq(Statuses)
        BY <2>1
      <4> HIDE DEF rows
      <4> QED
        BY <4>1, RowsType DEF Statuses
    <3>1. CASE BeginInsert(j)
      BY <2>1, <3>0, <3>1, ZenonT(60) DEF BeginInsert
    <3>2. CASE BeginUpdate(j)
      BY <2>1, <3>0, <3>2, ZenonT(60) DEF BeginUpdate
    <3>3. CASE EndUpdate(j)
      BY <2>1, <3>0, <3>3 DEF EndUpdate, FinalStatus
    <3>4. CASE ~(BeginInsert(j) \/ BeginUpdate(j) \/ EndUpdate(j))
      BY <1>11, <2>1, <3>4 DEF HandlerStep, LookupDevice, RegisterDevice, BeginFile,
         OpenFile, Import, EndFile, DbError, Done
    <3> QED
      BY <3>1, <3>2, <3>3, <3>4
  <2>4. job' \in [JobIds -> JobSet] /\ events' \subseteq JobIds
    <3>1. CASE Done(j)
      <4>1. job[j].attempts < Retry
        BY <2>1 DEF SettledInv
      <4>2. [job[j] EXCEPT !.state = "complete"] \in JobSet
        BY DEF JobSet, JobStates
      <4>3. AfterFailure(j) \in JobSet
        BY <4>1, AfterFailureType
      <4> QED
        BY <3>1, <4>2, <4>3 DEF Done
    <3>2. CASE ~Done(j)
      BY <1>11, <3>2 DEF HandlerStep, LookupDevice, RegisterDevice, BeginFile,
         BeginInsert, BeginUpdate, OpenFile, Import, EndFile, EndUpdate, DbError
    <3> QED
      BY <3>1, <3>2
  <2>5. imports' \in [JobIds -> Nat] /\ kept' \subseteq JobIds
    BY <1>11 DEF HandlerStep, LookupDevice, RegisterDevice, BeginFile,
         BeginInsert, BeginUpdate, OpenFile, Import, EndFile, EndUpdate, DbError, Done
  <2>6. UNCHANGED <<folderVars, master, announced, moving, up, removed, faultVars>>
    BY <1>11 DEF HandlerStep, LookupDevice, RegisterDevice, BeginFile,
         BeginInsert, BeginUpdate, OpenFile, Import, EndFile, EndUpdate, DbError, Done
  <2> QED
    BY <2>2, <2>3, <2>4, <2>5, <2>6
<1>12. CASE UNCHANGED vars
  BY <1>12 DEF vars
<1> QED
  BY <1>1, <1>2, <1>3, <1>4, <1>5, <1>6, <1>8, <1>9, <1>10, <1>11, <1>12 DEF Next

(***************************************************************************)
(* What the steps change of one handler and of one job, field by field.    *)
(***************************************************************************)
OthersKeep(j) == \A i \in JobIds \ {j} : handler'[i] = handler[i]

LEMMA GotoFields ==
    ASSUME TypeOK, NEW j \in JobIds, NEW s, Goto(j, s)
    PROVE  /\ OthersKeep(j) /\ handler'[j].step = s
           /\ handler'[j].result = handler[j].result
           /\ handler'[j].worker = handler[j].worker
BY DEF TypeOK, HandlerSet, Goto, OthersKeep

LEMMA FinishFields ==
    ASSUME TypeOK, NEW j \in JobIds, NEW r, Finish(j, r) \/ EndWith(j, r)
    PROVE  /\ OthersKeep(j) /\ handler'[j].result = r
           /\ handler'[j].step = IF Finish(j, r) THEN "done" ELSE "end"
           /\ handler'[j].worker = handler[j].worker
<1> DEFINE h(s) == [[handler[j] EXCEPT !.step = s] EXCEPT !.result = r]
<1>1. ASSUME NEW s, handler' = [handler EXCEPT ![j].step = s, ![j].result = r]
      PROVE  /\ OthersKeep(j) /\ handler'[j].result = r /\ handler'[j].step = s
             /\ handler'[j].worker = handler[j].worker
  <2>1. handler' = [handler EXCEPT ![j] = h(s)]
    BY <1>1
  <2>2. handler'[j] = h(s) /\ OthersKeep(j)
    BY <2>1 DEF TypeOK, OthersKeep
  <2>3. h(s).result = r /\ h(s).step = s /\ h(s).worker = handler[j].worker
    BY DEF TypeOK, HandlerSet
  <2> QED
    BY <2>2, <2>3
<1>2. CASE Finish(j, r)
  BY <1>1, <1>2 DEF Finish
<1>3. CASE ~Finish(j, r) /\ EndWith(j, r)
  BY <1>1, <1>3 DEF EndWith
<1> QED
  BY <1>2, <1>3

LEMMA EnqueueFields ==
    ASSUME TypeOK, NEW p \in Paths, Enqueue(p)
    PROVE  /\ UNCHANGED <<handler, events, moving, imports, kept, files, processed, failed>>
           /\ \/ UNCHANGED job
              \/ \E j \in JobIds :
                     /\ job[j].state = "unused" /\ job'[j].state = "inactive"
                     /\ job'[j].path = p /\ job'[j].attempts = 0
                     /\ \A i \in JobIds \ {j} : job'[i] = job[i]
<1>1. UNCHANGED <<handler, events, moving, imports, kept, files, processed, failed>>
  BY DEF Enqueue, folderVars, dbVars
<1>2. ASSUME NEW j \in JobIds, job[j].state = "unused",
             job' = [job EXCEPT ![j] = [path |-> p, state |-> "inactive", attempts |-> 0]]
      PROVE  /\ job'[j].state = "inactive" /\ job'[j].path = p /\ job'[j].attempts = 0
             /\ \A i \in JobIds \ {j} : job'[i] = job[i]
  BY <1>2 DEF TypeOK
<1> QED
  BY <1>1, <1>2 DEF Enqueue

\* Every step of a handler but the last leaves all jobs as they are.
LEMMA StepFields ==
    ASSUME TypeOK, NEW j \in JobIds, HandlerStep(j), ~Done(j)
    PROVE  /\ UNCHANGED <<job, events, moving, processed, failed>>
           /\ OthersKeep(j)
           /\ handler'[j].worker = handler[j].worker /\ handler'[j].step # "idle"
           /\ \/ /\ handler'[j].step \in Ending
                 /\ \/ handler'[j].result \in {"ok", "err"}
                    \/ handler[j].step \in Ending /\ handler'[j].result = handler[j].result
              \/ /\ handler[j].step \notin Ending /\ handler'[j].step \notin Ending
                 /\ handler'[j].result = handler[j].result
           /\ handler'[j].result = "ok" =>
                 \/ handler[j].result = "ok"
                 \/ Import(j) /\ (imports'[j] = imports[j] + 1 \/ j \in kept')
                 \/ TypeOf[job[j].path] = "other"
           /\ handler[j].step \in Ending => handler'[j].result = handler[j].result
           /\ \A i \in JobIds :
                 imports'[i] = imports[i] + 1 \/ imports'[i] = imports[i]
           /\ \A i \in JobIds :
                 imports'[i] = imports[i] + 1 =>
                     /\ i = j /\ handler[j].step = "import"
                     /\ handler'[j].step = "end" /\ handler'[j].result = "ok"
           /\ \/ UNCHANGED kept
              \/ /\ kept' = kept \cup {j} /\ UNCHANGED imports
                 /\ handler[j].step = "import"
                 /\ handler'[j].step = "end" /\ handler'[j].result = "ok"
<1>1. UNCHANGED <<job, events, moving, processed, failed>>
  BY DEF HandlerStep, LookupDevice, RegisterDevice, BeginFile, BeginInsert, BeginUpdate,
     OpenFile, Import, EndFile, EndUpdate, DbError, folderVars, masterVars, queueVars
<1>2. CASE OpenFile(j)
  <2>1. UNCHANGED <<imports, kept>>
    BY <1>2 DEF OpenFile
  <2>2. \/ EndWith(j, "err") \/ Goto(j, "import")
        \/ EndWith(j, "ok") /\ TypeOf[job[j].path] = "other"
    BY <1>2 DEF OpenFile
  <2>3. handler[j].step = "open"
    BY <1>2 DEF OpenFile
  <2>4. \A i \in JobIds : imports[i] \in Nat /\ imports'[i] = imports[i]
    BY <2>1 DEF TypeOK
  <2>5. CASE Goto(j, "import")
    BY <1>1, <2>1, <2>3, <2>4, <2>5, GotoFields DEF Ending
  <2>6. CASE EndWith(j, "err")
    BY <1>1, <2>1, <2>3, <2>4, <2>6, FinishFields DEF Ending
  <2>7. CASE EndWith(j, "ok") /\ TypeOf[job[j].path] = "other"
    BY <1>1, <2>1, <2>3, <2>4, <2>7, FinishFields DEF Ending
  <2> QED
    BY <2>2, <2>5, <2>6, <2>7
<1>3. CASE Import(j)
  <2>1. /\ \/ /\ EndWith(j, "ok") /\ imports' = [imports EXCEPT ![j] = @ + 1]
              /\ UNCHANGED kept
           \/ EndWith(j, "ok") /\ kept' = kept \cup {j} /\ UNCHANGED imports
           \/ EndWith(j, "err") /\ UNCHANGED <<imports, kept>>
        /\ handler[j].step = "import"
    BY <1>3 DEF Import
  <2>2. ~Finish(j, "ok") /\ ~Finish(j, "err")
    BY <2>1 DEF Finish, EndWith, TypeOK, HandlerSet
  <2>3. CASE EndWith(j, "err") /\ UNCHANGED <<imports, kept>>
    BY <1>1, <2>1, <2>2, <2>3, FinishFields DEF Ending, TypeOK
  <2>4. CASE EndWith(j, "ok") /\ kept' = kept \cup {j} /\ UNCHANGED imports
    <3>1. /\ OthersKeep(j) /\ handler'[j].result = "ok" /\ handler'[j].step = "end"
          /\ handler'[j].worker = handler[j].worker
      BY <2>2, <2>4, FinishFields
    <3> QED
      BY <1>1, <1>3, <2>1, <2>4, <3>1 DEF Ending, TypeOK
  <2>5. CASE EndWith(j, "ok") /\ imports' = [imports EXCEPT ![j] = @ + 1] /\ UNCHANGED kept
    <3>1. /\ imports'[j] = imports[j] + 1
          /\ \A i \in JobIds \ {j} : imports'[i] = imports[i]
          /\ \A i \in JobIds : imports[i] \in Nat
      BY <2>5 DEF TypeOK
    <3>2. /\ OthersKeep(j) /\ handler'[j].result = "ok" /\ handler'[j].step = "end"
          /\ handler'[j].worker = handler[j].worker
      BY <2>2, <2>5, FinishFields
    <3> QED
      BY <1>1, <1>3, <2>1, <2>5, <3>1, <3>2 DEF Ending
  <2> QED
    BY <2>1, <2>3, <2>5, <2>4
<1>4. CASE ~OpenFile(j) /\ ~Import(j)
  <2>1. UNCHANGED <<imports, kept>>
    BY <1>4 DEF HandlerStep, LookupDevice, RegisterDevice, BeginFile, BeginInsert,
       BeginUpdate, EndFile, EndUpdate, DbError
  <2>2. \/ handler[j].step \notin Ending /\ Finish(j, "err")
        \/ /\ handler[j].step \notin Ending
           /\ \E s \in Steps \ (Ending \cup {"idle"}) : Goto(j, s)
        \/ handler[j].step \in Ending /\ \E s \in Ending : Goto(j, s)
    BY <1>4 DEF HandlerStep, LookupDevice, RegisterDevice, BeginFile, BeginInsert,
       BeginUpdate, EndFile, EndUpdate, DbError, Ending, Steps
  <2> QED
    BY <1>1, <2>1, <2>2, GotoFields, FinishFields DEF Ending, Steps, TypeOK
<1> QED
  BY <1>2, <1>3, <1>4

\* The last step of a handler settles its job or gives it another attempt.
LEMMA DoneFields ==
    ASSUME TypeOK, NEW j \in JobIds, Done(j)
    PROVE  /\ UNCHANGED <<imports, kept, files, moving, processed, failed>>
           /\ OthersKeep(j) /\ handler'[j] = Idle /\ handler[j].step = "done"
           /\ job'[j].path = job[j].path
           /\ \A i \in JobIds \ {j} : job'[i] = job[i]
           /\ handler[j].result # "err" => job'[j].state = "complete"
           /\ handler[j].result = "err" =>
                  /\ job'[j].attempts = job[j].attempts + 1
                  /\ job'[j].state = IF job[j].attempts + 1 < Retry THEN "delayed"
                                                                    ELSE "failed"
           /\ events' \subseteq events \cup {j}
           /\ job'[j].state = "delayed" => events' = events
<1>1. /\ UNCHANGED <<imports, kept, files, moving, processed, failed>>
      /\ OthersKeep(j) /\ handler'[j] = Idle /\ handler[j].step = "done"
  BY DEF Done, TypeOK, folderVars, dbVars, OthersKeep
<1>2. /\ events' \subseteq events \cup {j}
      /\ job'[j].state = "delayed" => events' = events
  BY DEF Done
<1>3. /\ \A i \in JobIds \ {j} : job'[i] = job[i]
      /\ job'[j] = IF handler[j].result = "err" THEN AfterFailure(j)
                   ELSE [job[j] EXCEPT !.state = "complete"]
  BY DEF Done, TypeOK
<1>4. CASE handler[j].result # "err"
  BY <1>1, <1>2, <1>3, <1>4 DEF TypeOK, JobSet
<1>5. CASE handler[j].result = "err"
  <2> DEFINE n == job[j].attempts + 1
             s == IF n < Retry THEN "delayed" ELSE "failed"
  <2>1. job'[j] = [[job[j] EXCEPT !.attempts = n] EXCEPT !.state = s]
    BY <1>3, <1>5 DEF AfterFailure
  <2>2. job'[j].attempts = n /\ job'[j].state = s /\ job'[j].path = job[j].path
    <3> HIDE DEF n, s
    <3> QED
      BY <2>1 DEF TypeOK, JobSet
  <2> QED
    BY <1>1, <1>2, <1>3, <1>5, <2>2
<1> QED
  BY <1>4, <1>5

(***************************************************************************)
(* The parts of the inductive invariant, one lemma each.                   *)
(***************************************************************************)
LEMMA HandlerInvStep ==
    ASSUME TypeOK, HandlerInv, [Next]_vars
    PROVE  HandlerInv'
<1> USE PathAssumption, WorkerAssumption DEF HandlerInv, Idle, folderVars, masterVars,
        queueVars, dbVars, faultVars
<1>1. ASSUME NEW p \in Paths, Enqueue(p) PROVE HandlerInv'
  BY <1>1, EnqueueFields
<1>2. ASSUME NEW j \in JobIds, Promote(j) PROVE HandlerInv'
  BY <1>2 DEF Promote, TypeOK, JobSet
<1>3. ASSUME NEW j \in JobIds, NEW w \in Workers, Start(w, j) PROVE HandlerInv'
  BY <1>3 DEF Start, TypeOK, JobSet
<1>4. ASSUME NEW w \in Workers, WorkerCrash(w) PROVE HandlerInv'
  BY <1>4 DEF WorkerCrash, TypeOK
<1>5. CASE MasterStop
  BY <1>5 DEF MasterStop, TypeOK
<1>6. ASSUME NEW j \in JobIds, HandlerStep(j) PROVE HandlerInv'
  <2>1. /\ job[j].state = "active" /\ handler[j].step # "idle" /\ job[j].path \in Paths
        /\ handler[j].worker # NoWorker
    BY <1>6, BusyJob
  <2>2. CASE Done(j)
    BY <2>1, <2>2, DoneFields DEF OthersKeep
  <2>3. CASE ~Done(j)
    BY <1>6, <2>1, <2>3, StepFields DEF OthersKeep
  <2> QED
    BY <2>2, <2>3
<1>7. CASE UNCHANGED <<handler, job>>
  BY <1>7
<1> QED
  BY <1>1, <1>2, <1>3, <1>4, <1>5, <1>6, <1>7
     DEF Next, vars, Deliver, OnSettled, MoveFile, MasterStart

LEMMA ResultInvStep ==
    ASSUME TypeOK, HandlerInv, ResultInv, [Next]_vars
    PROVE  ResultInv'
<1> USE DEF ResultInv, Ending, Idle, folderVars, masterVars, queueVars, dbVars, faultVars
<1>1. ASSUME NEW j \in JobIds, NEW w \in Workers, Start(w, j) PROVE ResultInv'
  BY <1>1 DEF Start, TypeOK
<1>2. ASSUME NEW w \in Workers, WorkerCrash(w) PROVE ResultInv'
  BY <1>2 DEF WorkerCrash, TypeOK
<1>3. CASE MasterStop
  BY <1>3 DEF MasterStop, TypeOK
<1>4. ASSUME NEW j \in JobIds, HandlerStep(j) PROVE ResultInv'
  BY <1>4, StepFields, DoneFields DEF OthersKeep
<1>5. CASE UNCHANGED handler
  BY <1>5
<1> QED
  BY <1>1, <1>2, <1>3, <1>4, <1>5
     DEF Next, vars, Deliver, Enqueue, OnSettled, MoveFile, Promote, MasterStart

LEMMA SettledInvStep ==
    ASSUME TypeOK, HandlerInv, SettledInv, [Next]_vars
    PROVE  SettledInv'
<1> USE RetryAssumption DEF SettledInv, folderVars, masterVars, queueVars, dbVars, faultVars
<1>1. ASSUME NEW p \in Paths, Enqueue(p) PROVE SettledInv'
  <2>1. UNCHANGED <<events, moving>>
    BY <1>1, EnqueueFields
  <2>2. CASE UNCHANGED job
    BY <2>1, <2>2
  <2>3. ASSUME NEW j \in JobIds, job[j].state = "unused", job'[j].state = "inactive",
               job'[j].attempts = 0, \A i \in JobIds \ {j} : job'[i] = job[i]
        PROVE  SettledInv'
    <3>1. events \cup moving \subseteq JobIds \ {j} /\ 0 < Retry
      BY <2>3 DEF TypeOK
    <3> QED
      BY <2>1, <2>3, <3>1
  <2> QED
    BY <1>1, <2>2, <2>3, EnqueueFields
<1>2. ASSUME NEW j \in JobIds, OnSettled(j) \/ MoveFile(j) PROVE SettledInv'
  BY <1>2 DEF OnSettled, MoveFile
<1>3. ASSUME NEW j \in JobIds, Promote(j) PROVE SettledInv'
  BY <1>3 DEF Promote, TypeOK, JobSet
<1>4. ASSUME NEW j \in JobIds, NEW w \in Workers, Start(w, j) PROVE SettledInv'
  BY <1>4 DEF Start, TypeOK, JobSet
<1>5. CASE MasterStop
  BY <1>5 DEF MasterStop
<1>6. ASSUME NEW j \in JobIds, HandlerStep(j) PROVE SettledInv'
  <2>1. job[j].state = "active" /\ job[j].attempts < Retry /\ job[j].attempts \in Nat
    BY <1>6, BusyJob DEF TypeOK, JobSet
  <2>2. CASE Done(j)
    <3>1. /\ \A i \in JobIds \ {j} : job'[i] = job[i]
          /\ job'[j].state \in {"complete", "failed", "delayed"}
          /\ job'[j].state = "failed" => job'[j].attempts = Retry
          /\ job'[j].state = "delayed" => job'[j].attempts < Retry
      BY <2>1, <2>2, DoneFields
    <3>2. /\ moving' = moving /\ events' \subseteq events \cup {j}
          /\ job'[j].state = "delayed" => events' = events
      BY <2>2, DoneFields
    <3> QED
      BY <2>1, <3>1, <3>2 DEF TypeOK
  <2>3. CASE ~Done(j)
    BY <1>6, <2>3, StepFields
  <2> QED
    BY <2>2, <2>3
<1>7. CASE UNCHANGED <<events, moving, job>>
  BY <1>7
<1> QED
  BY <1>1, <1>2, <1>3, <1>4, <1>5, <1>6, <1>7
     DEF Next, vars, Deliver, MasterStart, WorkerCrash

LEMMA ImportInvStep ==
    ASSUME TypeOK, HandlerInv, ResultInv, ImportInv, [Next]_vars
    PROVE  ImportInv'
<1> USE DEF ImportInv, HandlerInv, Ending, Idle, folderVars, masterVars, queueVars, dbVars,
            faultVars
<1>1. ASSUME NEW p \in Paths, Enqueue(p) PROVE ImportInv'
  BY <1>1, EnqueueFields
<1>2. ASSUME NEW j \in JobIds, Promote(j) PROVE ImportInv'
  BY <1>2 DEF Promote, TypeOK, JobSet
<1>3. ASSUME NEW j \in JobIds, NEW w \in Workers, Start(w, j) PROVE ImportInv'
  <2>1. imports[j] # 1 /\ j \notin kept
    BY <1>3 DEF Start
  <2> QED
    BY <1>3, <2>1 DEF Start, TypeOK, JobSet
<1>4. ASSUME NEW w \in Workers, WorkerCrash(w) PROVE ImportInv'
  BY <1>4 DEF WorkerCrash, TypeOK
<1>5. CASE MasterStop
  BY <1>5 DEF MasterStop, TypeOK
<1>6. ASSUME NEW j \in JobIds, HandlerStep(j) PROVE ImportInv'
  <2>1. job[j].state = "active" /\ handler[j].step # "idle"
    BY <1>6, BusyJob
  <2>2. CASE Done(j)
    <3>1. /\ \A i \in JobIds \ {j} : /\ job'[i] = job[i] /\ handler'[i] = handler[i]
                                     /\ imports'[i] = imports[i]
          /\ imports'[j] = imports[j] /\ job'[j].path = job[j].path /\ kept' = kept
          /\ handler'[j].step = "idle" /\ handler[j].step = "done"
      BY <2>2, DoneFields DEF OthersKeep
    <3>2. job'[j].state = "complete" <=> handler[j].result # "err"
      BY <2>2, DoneFields
    <3>3. handler[j].result \in {"ok", "err"}
      BY <3>1 DEF ResultInv, TypeOK, HandlerSet, Results
    <3> QED
      BY <2>1, <3>1, <3>2, <3>3
  <2>3. CASE ~Done(j)
    <3>1. \A i \in JobIds \ {j} : /\ job'[i] = job[i] /\ handler'[i] = handler[i]
                                  /\ imports'[i] = imports[i] /\ (i \in kept' <=> i \in kept)
      BY <1>6, <2>3, StepFields DEF OthersKeep, TypeOK
    <3>2. job'[j] = job[j]
      BY <1>6, <2>3, StepFields
    <3>3. CASE imports'[j] = imports[j] + 1
      BY <1>6, <2>1, <2>3, <3>1, <3>2, <3>3, StepFields DEF ResultInv
    <3>4. CASE imports'[j] = imports[j]
      BY <1>6, <2>1, <2>3, <3>1, <3>2, <3>4, StepFields DEF ResultInv
    <3> QED
      BY <1>6, <2>3, <3>3, <3>4, StepFields
  <2> QED
    BY <2>2, <2>3
<1>7. CASE UNCHANGED <<handler, job, imports, kept>>
  BY <1>7
<1> QED
  BY <1>1, <1>2, <1>3, <1>4, <1>5, <1>6, <1>7
     DEF Next, vars, Deliver, OnSettled, MoveFile, MasterStart

\* A job never leaves a settled state, and what it imported or kept stays so.
LEMMA SettledStays ==
    ASSUME TypeOK, HandlerInv, [Next]_vars,
           NEW j \in JobIds, job[j].state \in {"complete", "failed"}
    PROVE  job'[j] = job[j] /\ imports'[j] = imports[j] /\ (j \in kept' <=> j \in kept)
<1> USE DEF folderVars, masterVars, queueVars, dbVars, faultVars
<1> DEFINE Stays == job'[j] = job[j] /\ imports'[j] = imports[j] /\ (j \in kept' <=> j \in kept)
<1>1. ASSUME NEW p \in Paths, Enqueue(p) PROVE Stays
  BY <1>1, EnqueueFields
<1>2. ASSUME NEW i \in JobIds, HandlerStep(i)
      PROVE Stays
  <2>1. i # j
    BY <1>2, BusyJob
  <2> QED
    BY <1>2, <2>1, StepFields, DoneFields DEF TypeOK
<1>3. ASSUME NEW i \in JobIds, Promote(i) \/ \E w \in Workers : Start(w, i)
      PROVE Stays
  BY <1>3 DEF Start, Promote, TypeOK
<1>4. CASE UNCHANGED <<job, imports, kept>>
  BY <1>4
<1> QED
  BY <1>1, <1>2, <1>3, <1>4
     DEF Next, vars, Deliver, OnSettled, MoveFile, WorkerCrash, MasterStop, MasterStart

LEMMA FiledByVerdictStep ==
    ASSUME TypeOK, HandlerInv, SettledInv, ImportInv, FiledByVerdict, [Next]_vars
    PROVE  FiledByVerdict'
<1>1. ASSUME NEW p \in Paths, p \in failed'
      PROVE \E j \in JobIds : job'[j] = [path |-> p, state |-> "failed", attempts |-> Retry]
  <2>1. CASE p \in failed
    BY <1>1, <2>1, SettledStays DEF FiledByVerdict
  <2>2. CASE p \notin failed
    <3>1. PICK j \in JobIds : MoveFile(j)
      BY <1>1, <2>2, StepFields, DoneFields, EnqueueFields
         DEF Next, vars, Deliver, OnSettled, WorkerCrash, MasterStop, MasterStart, Start,
             Promote, folderVars
    <3>2. job[j].path = p /\ job[j].state = "failed" /\ UNCHANGED job
      BY <1>1, <2>2, <3>1 DEF MoveFile, queueVars
    <3>3. job[j].attempts = Retry
      BY <3>2 DEF SettledInv
    <3> QED
      BY <3>2, <3>3 DEF TypeOK, JobSet
  <2> QED
    BY <2>1, <2>2
<1>2. ASSUME NEW p \in Paths, p \in processed'
      PROVE \E j \in JobIds : /\ job'[j].path = p /\ job'[j].state = "complete"
                              /\ TypeOf[p] = "other" \/ imports'[j] = 1 \/ j \in kept'
  <2>1. CASE p \in processed
    <3>1. PICK j \in JobIds : /\ job[j].path = p /\ job[j].state = "complete"
                              /\ TypeOf[p] = "other" \/ imports[j] = 1 \/ j \in kept
      BY <2>1 DEF FiledByVerdict
    <3> QED
      BY <3>1, SettledStays
  <2>2. CASE p \notin processed
    <3>1. PICK j \in JobIds : MoveFile(j)
      BY <1>2, <2>2, StepFields, DoneFields, EnqueueFields
         DEF Next, vars, Deliver, OnSettled, WorkerCrash, MasterStop, MasterStart, Start,
             Promote, folderVars
    <3>2. job[j].path = p /\ job[j].state = "complete" /\ UNCHANGED <<job, imports, kept>>
      BY <1>2, <2>2, <3>1 DEF MoveFile, queueVars
    <3> QED
      BY <3>2 DEF ImportInv
  <2> QED
    BY <2>1, <2>2
<1> QED
  BY <1>1, <1>2 DEF FiledByVerdict

\* A job keeps its path, and so its key; two jobs of one key stay two.
LEMMA PathStays ==
    ASSUME TypeOK, HandlerInv, [Next]_vars, NEW j \in JobIds, job[j].path \in Paths
    PROVE  job'[j].path = job[j].path /\ Key(j)' = Key(j)
<1> USE DEF folderVars, masterVars, queueVars, dbVars, faultVars
<1>1. job[j].state # "unused"
  BY DEF HandlerInv
<1>2. ASSUME NEW p \in Paths, Enqueue(p) PROVE job'[j].path = job[j].path
  BY <1>1, <1>2, EnqueueFields
<1>3. ASSUME NEW i \in JobIds, HandlerStep(i) PROVE job'[j].path = job[j].path
  BY <1>3, StepFields, DoneFields
<1>4. ASSUME NEW i \in JobIds, Promote(i) \/ \E w \in Workers : Start(w, i)
      PROVE job'[j].path = job[j].path
  <2>1. \E s \in {"active", "inactive"} : job' = [job EXCEPT ![i] = [@ EXCEPT !.state = s]]
    BY <1>4 DEF Start, Promote
  <2>2. job \in [JobIds -> JobSet]
    BY DEF TypeOK
  <2> QED
    BY <2>1, <2>2 DEF JobSet
<1>5. CASE UNCHANGED job
  BY <1>5 DEF Key
<1>6. job'[j].path = job[j].path
  BY <1>2, <1>3, <1>4, <1>5
     DEF Next, vars, Deliver, OnSettled, MoveFile, WorkerCrash, MasterStop, MasterStart
<1> QED
  BY <1>6 DEF Key

LEMMA RivalStays ==
    ASSUME TypeOK, HandlerInv, [Next]_vars, NEW k \in Keys, Rival(k)
    PROVE  Rival(k)'
BY PathStays DEF Rival

\* What a step does to the rows of table "files", and where it leads a handler
\* that is about to insert one.
LEMMA RowsChange ==
    ASSUME TypeOK, HandlerInv, NEW j \in JobIds, HandlerStep(j)
    PROVE  /\ \A k \in Keys \ {Key(j)} : files'[k] = files[k]
           /\ \A i \in JobIds \ {j} : handler'[i] = handler[i]
           /\ \/ files'[Key(j)] = files[Key(j)]
              \/ Len(files'[Key(j)]) = Len(files[Key(j)])
              \/ /\ handler[j].step = "beginInsert"
                 /\ Len(files'[Key(j)]) = Len(files[Key(j)]) + 1
           /\ handler'[j].step = "beginInsert" =>
                 /\ handler[j].step = "begin" /\ Len(files[Key(j)]) # 1
                 /\ files'[Key(j)] = files[Key(j)]
<1> DEFINE rows == files[Key(j)]
<1>0. Key(j) \in Keys /\ rows \in Seq(Statuses)
  BY BusyJob DEF TypeOK
<1>1. /\ {"processing", "errored", "success"} \subseteq Statuses
      /\ \A x \in Statuses : /\ Len(Append(rows, x)) = Len(rows) + 1
                             /\ Len([rows EXCEPT ![1] = x]) = Len(rows)
  <2> HIDE DEF rows
  <2> QED
    BY <1>0, RowsType DEF Statuses
<1>2. OthersKeep(j)
  BY StepFields, DoneFields
<1>3. CASE BeginInsert(j)
  <2>1. \/ files' = [files EXCEPT ![Key(j)] = Append(@, "processing")] /\ Goto(j, "open")
        \/ UNCHANGED files /\ Finish(j, "err")
    BY <1>3 DEF BeginInsert
  <2>2. handler[j].step = "beginInsert" /\ handler'[j].step # "beginInsert"
    BY <1>3, <2>1, GotoFields, FinishFields DEF BeginInsert
  <2> QED
    BY <1>0, <1>1, <1>2, <2>1, <2>2 DEF TypeOK, OthersKeep
<1>4. CASE BeginUpdate(j)
  <2>1. \/ /\ files' = [files EXCEPT ![Key(j)] = [@ EXCEPT ![1] = "processing"]]
           /\ Goto(j, "open")
        \/ UNCHANGED files /\ Finish(j, "err")
    BY <1>4 DEF BeginUpdate
  <2>2. handler'[j].step # "beginInsert"
    BY <2>1, GotoFields, FinishFields
  <2> QED
    BY <1>0, <1>1, <1>2, <2>1, <2>2 DEF TypeOK, OthersKeep
<1>5. CASE EndUpdate(j)
  <2>1. /\ Goto(j, "done")
        /\ \/ \E x \in Statuses : files' = [files EXCEPT ![Key(j)] = [@ EXCEPT ![1] = x]]
           \/ UNCHANGED files
    BY <1>1, <1>5 DEF EndUpdate, FinalStatus
  <2>2. handler'[j].step # "beginInsert"
    BY <2>1, GotoFields
  <2> QED
    BY <1>0, <1>1, <1>2, <2>1, <2>2 DEF TypeOK, OthersKeep
<1>6. CASE BeginFile(j)
  <2>1. /\ UNCHANGED files /\ handler[j].step = "begin"
        /\ \/ Finish(j, "err") \/ Goto(j, "beginUpdate")
           \/ Goto(j, "beginInsert") /\ Len(rows) # 1
    BY <1>6 DEF BeginFile, dbVars
  <2> QED
    BY <1>2, <2>1, GotoFields, FinishFields DEF OthersKeep
<1>7. CASE ~(BeginInsert(j) \/ BeginUpdate(j) \/ EndUpdate(j) \/ BeginFile(j))
  <2>1. UNCHANGED files
    BY <1>7 DEF HandlerStep, LookupDevice, RegisterDevice, OpenFile, Import, EndFile,
       DbError, Done, dbVars
  <2>2. \/ \E s \in Steps \ {"beginInsert"} : Goto(j, s)
        \/ \E r \in Results : Finish(j, r) \/ EndWith(j, r)
        \/ Done(j)
    BY <1>7 DEF HandlerStep, LookupDevice, RegisterDevice, OpenFile, Import, EndFile,
       DbError, Steps, Results
  <2>3. handler'[j].step # "beginInsert"
    BY <2>2, GotoFields, FinishFields, DoneFields DEF Idle
  <2> QED
    BY <1>2, <2>1, <2>3 DEF OthersKeep
<1> QED
  BY <1>3, <1>4, <1>5, <1>6, <1>7

LEMMA InsertInvStep ==
    ASSUME TypeOK, HandlerInv, InsertInv, DuplicateRowNeedsRival, [Next]_vars
    PROVE  InsertInv' /\ DuplicateRowNeedsRival'
<1> USE DEF folderVars, masterVars, queueVars, dbVars, faultVars
<1>1. \A k \in Keys : Rival(k) => Rival(k)'
  BY RivalStays
<1>2. ASSUME NEW i \in JobIds, handler[i].step # "idle"
      PROVE  job[i].path \in Paths /\ Key(i) \in Keys /\ Key(i)' = Key(i)
  BY <1>2, KeyInKeys, PathStays DEF HandlerInv
<1>3. CASE /\ UNCHANGED files
           /\ \A i \in JobIds : handler'[i].step = "beginInsert"
                                    => handler[i].step = "beginInsert"
  BY <1>1, <1>2, <1>3 DEF InsertInv, DuplicateRowNeedsRival
<1>4. ASSUME NEW j \in JobIds, HandlerStep(j) PROVE InsertInv' /\ DuplicateRowNeedsRival'
  <2> DEFINE kj == Key(j)
  <2>1. kj \in Keys /\ job[j].path \in Paths
    BY <1>4, BusyJob
  <2>2. \A k \in Keys : /\ Len(files[k]) \in Nat /\ (Len(files[k]) = 0 <=> files[k] = <<>>)
    BY EmptySeq, LenProperties DEF TypeOK
  <2>3. DuplicateRowNeedsRival'
    <3>1. ASSUME NEW k \in Keys, Len(files'[k]) > 1 PROVE Rival(k)
      <4>1. CASE Len(files[k]) > 1
        BY <4>1 DEF DuplicateRowNeedsRival
      <4>2. CASE ~(Len(files[k]) > 1)
        <5>1. k = kj /\ handler[j].step = "beginInsert" /\ files[k] # <<>>
          BY <1>4, <2>1, <2>2, <3>1, <4>2, RowsChange
        <5> QED
          BY <5>1 DEF InsertInv
      <4> QED
        BY <4>1, <4>2
    <3> QED
      BY <1>1, <3>1 DEF DuplicateRowNeedsRival
  <2>4. InsertInv'
    <3>1. ASSUME NEW i \in JobIds, handler'[i].step = "beginInsert",
                 files'[Key(i)'] # <<>>
          PROVE  Rival(Key(i)) /\ Key(i) \in Keys /\ Key(i)' = Key(i)
      <4>1. CASE i = j
        <5>1. handler[j].step = "begin" /\ Len(files[kj]) # 1 /\ files'[kj] = files[kj]
          BY <1>4, <3>1, <4>1, RowsChange
        <5>2. kj \in Keys /\ Key(j)' = kj
          BY <1>2, <5>1
        <5>3. files[kj] # <<>>
          BY <3>1, <4>1, <5>1, <5>2
        <5>4. Len(files[kj]) > 1
          <6>1. Len(files[kj]) \in Nat /\ Len(files[kj]) # 0
            BY <2>2, <5>2, <5>3
          <6>2. \A n \in Nat : n # 0 /\ n # 1 => n > 1
            OBVIOUS
          <6> QED
            BY <5>1, <6>1, <6>2
        <5> QED
          BY <4>1, <5>2, <5>4 DEF DuplicateRowNeedsRival
      <4>2. CASE i # j
        <5>1. handler[i].step = "beginInsert"
          BY <1>4, <3>1, <4>2, RowsChange
        <5>2. job[i].path \in Paths /\ Key(i) \in Keys /\ Key(i)' = Key(i)
          BY <1>2, <5>1
        <5>3. CASE files[Key(i)] # <<>>
          BY <5>1, <5>2, <5>3 DEF InsertInv
        <5>4. CASE files[Key(i)] = <<>>
          <6>1. Key(i) = kj
            BY <1>4, <3>1, <5>2, <5>4, RowsChange
          <6> QED
            BY <2>1, <4>2, <5>2, <6>1 DEF Rival
        <5> QED
          BY <5>2, <5>3, <5>4
      <4> QED
        BY <4>1, <4>2
    <3> QED
      BY <1>1, <3>1 DEF InsertInv
  <2> QED
    BY <2>3, <2>4
<1>5. ASSUME NEW j \in JobIds, NEW w \in Workers, Start(w, j)
      PROVE InsertInv' /\ DuplicateRowNeedsRival'
  BY <1>3, <1>5 DEF Start, TypeOK
<1>6. ASSUME NEW w \in Workers, WorkerCrash(w) PROVE InsertInv' /\ DuplicateRowNeedsRival'
  BY <1>3, <1>6 DEF WorkerCrash, TypeOK, Idle
<1>7. CASE MasterStop
  BY <1>3, <1>7 DEF MasterStop, TypeOK, Idle
<1>8. CASE UNCHANGED <<files, handler>>
  BY <1>3, <1>8
<1> QED
  BY <1>4, <1>5, <1>6, <1>7, <1>8
     DEF Next, vars, Deliver, Enqueue, OnSettled, MoveFile, Promote, MasterStart

\* No step but those of rsync and of the moves touches the folders, and a
\* file that was delivered stays in one of them.
LEMMA HandlersKeepFolders ==
    ASSUME NEW j \in JobIds, HandlerStep(j)
    PROVE  UNCHANGED folderVars
BY DEF HandlerStep, LookupDevice, RegisterDevice, BeginFile, BeginInsert, BeginUpdate,
   OpenFile, Import, EndFile, EndUpdate, DbError, Done

LEMMA DeliveredStays ==
    ASSUME SettledInv, [Next]_vars
    PROVE  incoming \cup processed \cup failed
               \subseteq incoming' \cup processed' \cup failed'
<1>1. ASSUME NEW p \in Paths, Deliver(p)
      PROVE  incoming \subseteq incoming' /\ UNCHANGED <<processed, failed>>
  BY <1>1 DEF Deliver
<1>2. ASSUME NEW j \in JobIds, MoveFile(j)
      PROVE  incoming \cup processed \cup failed
                 \subseteq incoming' \cup processed' \cup failed'
  BY <1>2 DEF MoveFile, SettledInv
<1>3. CASE UNCHANGED folderVars
  BY <1>3 DEF folderVars
<1> QED
  BY <1>1, <1>2, <1>3, HandlersKeepFolders
     DEF Next, vars, Enqueue, OnSettled, Promote, Start, WorkerCrash, MasterStop, MasterStart

LEMMA OpenInvStep ==
    ASSUME TypeOK, HandlerInv, SettledInv, OpenInv, [Next]_vars
    PROVE  OpenInv'
<1> SUFFICES ASSUME NEW i \in JobIds, handler'[i].step = "import"
             PROVE  job'[i].path \in incoming' \cup processed' \cup failed'
  BY DEF OpenInv
<1> USE DEF folderVars, masterVars, queueVars, dbVars, faultVars
<1>1. ASSUME handler[i].step = "import" PROVE job'[i].path = job[i].path
  BY <1>1, PathStays DEF HandlerInv
<1>2. \/ handler[i].step = "import"
      \/ job[i].path \in incoming /\ job' = job
  <2>1. ASSUME NEW j \in JobIds, HandlerStep(j), handler[i].step # "import"
        PROVE  job[i].path \in incoming /\ job' = job
    <3>1. i = j
      BY <2>1, StepFields, DoneFields DEF OthersKeep
    <3>2. ~Done(j) /\ handler[j].step \in Steps
      BY <2>1, <3>1, DoneFields DEF Idle, TypeOK, HandlerSet
    <3>3. \A t \in Steps : t # "import" /\ Goto(j, t) => handler'[j].step # "import"
      BY GotoFields
    <3>4. ~Finish(j, "err") /\ ~EndWith(j, "ok") /\ ~EndWith(j, "err")
      BY <2>1, <3>1, FinishFields
    <3>5. OpenFile(j)
      <4>1. ~\E t \in Steps \ {"import"} : Goto(j, t)
        BY <2>1, <3>1, <3>3
      <4> QED
        BY <2>1, <3>2, <3>4, <4>1 DEF HandlerStep, LookupDevice, RegisterDevice,
           BeginFile, BeginInsert, BeginUpdate, Import, EndFile, EndUpdate, DbError, Steps
    <3> QED
      BY <3>1, <3>4, <3>5 DEF OpenFile
  <2>2. ASSUME NEW j \in JobIds, NEW w \in Workers, Start(w, j)
        PROVE  handler[i].step = "import"
    BY <2>2 DEF Start, TypeOK
  <2>3. ASSUME NEW w \in Workers, WorkerCrash(w) PROVE handler[i].step = "import"
    BY <2>3 DEF WorkerCrash, TypeOK, Idle
  <2>4. CASE MasterStop
    BY <2>4 DEF MasterStop, Idle
  <2>5. ASSUME UNCHANGED handler PROVE handler[i].step = "import"
    BY <2>5
  <2> QED
    BY <2>1, <2>2, <2>3, <2>4, <2>5
       DEF Next, vars, Deliver, Enqueue, OnSettled, MoveFile, Promote, MasterStart
<1> QED
  BY <1>1, <1>2, DeliveredStays DEF OpenInv

(***************************************************************************)
(* The invariant holds at the start and is kept by every step.             *)
(***************************************************************************)
LEMMA InitIInv == Init => IInv
<1> SUFFICES ASSUME Init PROVE IInv
  OBVIOUS
<1>1. TypeOK
  BY TypeInit
<1>2. HandlerInv /\ ResultInv
  BY PathAssumption, WorkerAssumption DEF Init, HandlerInv, ResultInv, Ending, Idle
<1>3. SettledInv /\ ImportInv /\ FiledByVerdict
  BY RetryAssumption DEF Init, SettledInv, ImportInv, FiledByVerdict, Ending, Idle
<1>4. InsertInv /\ DuplicateRowNeedsRival /\ OpenInv /\ PlaceInv
  BY DEF Init, InsertInv, DuplicateRowNeedsRival, OpenInv, PlaceInv, Idle
<1> QED
  BY <1>1, <1>2, <1>3, <1>4 DEF IInv

\* A file leaves its place only for the next one: a settled job is complete
\* or has failed, so its move names one of the two folders.
LEMMA PlaceInvStep ==
    ASSUME TypeOK, SettledInv, PlaceInv, [Next]_vars
    PROVE  PlaceInv'
<1> SUFFICES ASSUME ~Redeliver PROVE PlaceInv'
  BY DEF PlaceInv
<1> USE DEF PlaceInv, folderVars, masterVars, queueVars, dbVars, faultVars
<1>1. ASSUME NEW p \in Paths, Deliver(p) PROVE PlaceInv'
  <2>1. p \in outbox /\ incoming' = incoming \cup {p} /\ outbox' = outbox \ {p}
        /\ UNCHANGED <<processed, failed>>
    BY <1>1 DEF Deliver
  <2> QED
    BY <2>1
<1>2. ASSUME NEW j \in JobIds, MoveFile(j) PROVE PlaceInv'
  <2>1. job[j].state \in {"complete", "failed"}
    BY <1>2 DEF MoveFile, SettledInv
  <2>2. /\ UNCHANGED outbox
        /\ \/ UNCHANGED <<incoming, processed, failed>>
           \/ \E p \in incoming :
                 /\ incoming' = incoming \ {p}
                 /\ \/ processed' = processed \cup {p} /\ UNCHANGED failed
                    \/ failed' = failed \cup {p} /\ UNCHANGED processed
    BY <1>2, <2>1 DEF MoveFile, Movable
  <2> QED
    BY <2>2 DEF TypeOK
<1>3. CASE UNCHANGED folderVars
  BY <1>3
<1> QED
  BY <1>1, <1>2, <1>3 DEF Next, vars, Enqueue, OnSettled, HandlerStep, LookupDevice,
     RegisterDevice, BeginFile, BeginInsert, BeginUpdate, OpenFile, Import, EndFile,
     EndUpdate, DbError, Done, Promote, Start, WorkerCrash, MasterStop, MasterStart

LEMMA NextIInv == IInv /\ [Next]_vars => IInv'
<1> SUFFICES ASSUME IInv, [Next]_vars PROVE IInv'
  OBVIOUS
<1> USE DEF IInv
<1>1. TypeOK'
  BY TypeStep
<1>2. HandlerInv' /\ ResultInv'
  BY HandlerInvStep, ResultInvStep
<1>3. SettledInv' /\ ImportInv' /\ FiledByVerdict'
  BY SettledInvStep, ImportInvStep, FiledByVerdictStep
<1>4. InsertInv' /\ DuplicateRowNeedsRival' /\ OpenInv' /\ PlaceInv'
  BY InsertInvStep, OpenInvStep, PlaceInvStep
<1> QED
  BY <1>1, <1>2, <1>3, <1>4

\* The inductive invariant holds in every behaviour of the pipeline.
THEOREM Invariance == Spec => []IInv
BY InitIInv, NextIInv, PTL DEF Spec

\* Every variable keeps its type.
THEOREM TypeCorrect == Spec => []TypeOK
<1>1. IInv => TypeOK
  BY DEF IInv
<1> QED
  BY <1>1, Invariance, PTL

\* A file is in failed/ only with a job that used up its attempts, and in
\* processed/ only with a job that completed and imported it (app.js:117-153).
THEOREM FoldersTellTheVerdict == Spec => []FiledByVerdict
<1>1. IInv => FiledByVerdict
  BY DEF IInv
<1> QED
  BY <1>1, Invariance, PTL

\* However the moves of app.js:130 and app.js:148 are ordered, a file is in
\* exactly one place, unless rsync delivers it again.
THEOREM OnePlace == Spec => []FiledOnce
<1>1. ASSUME IInv, ~Redeliver, NEW p \in Paths
      PROVE  Cardinality({i \in 1..4 :
                              p \in <<outbox, incoming, processed, failed>>[i]}) = 1
  <2> DEFINE at == {i \in 1..4 : p \in <<outbox, incoming, processed, failed>>[i]}
  <2>1. PlaceInv
    BY <1>1 DEF IInv
  <2>2. at = {1} \/ at = {2} \/ at = {3} \/ at = {4}
    <3>1. \A i : i \in 1..4 <=> i \in {1, 2, 3, 4}
      OBVIOUS
    <3>2. CASE p \in outbox
      <4>1. p \notin incoming /\ p \notin processed /\ p \notin failed
        BY <1>1, <2>1, <3>2 DEF PlaceInv
      <4> QED
        BY <3>1, <3>2, <4>1
    <3>3. CASE p \in incoming
      <4>1. p \notin outbox /\ p \notin processed /\ p \notin failed
        BY <1>1, <2>1, <3>3 DEF PlaceInv
      <4> QED
        BY <3>1, <3>3, <4>1
    <3>4. CASE p \in processed
      <4>1. p \notin outbox /\ p \notin incoming /\ p \notin failed
        BY <1>1, <2>1, <3>4 DEF PlaceInv
      <4> QED
        BY <3>1, <3>4, <4>1
    <3>5. CASE p \in failed
      <4>1. p \notin outbox /\ p \notin incoming /\ p \notin processed
        BY <1>1, <2>1, <3>5 DEF PlaceInv
      <4> QED
        BY <3>1, <3>5, <4>1
    <3> QED
      BY <1>1, <2>1, <3>2, <3>3, <3>4, <3>5 DEF PlaceInv
  <2> QED
    BY <2>2, FS_Singleton
<1>2. IInv => FiledOnce
  BY <1>1 DEF FiledOnce
<1> QED
  BY <1>2, Invariance, PTL

\* No sequence of retries imports the data of a job twice (app.js:256-271).
THEOREM NoReimport == Spec => []RetryNeverReimports
<1>1. IInv => RetryNeverReimports
  BY DEF IInv, ImportInv, RetryNeverReimports
<1> QED
  BY <1>1, Invariance, PTL

\* The retries of one job never add a second row for its file
\* (sqldb.js:111-150).
THEOREM NoDuplicateAlone == Spec => []DuplicateRowNeedsRival
<1>1. IInv => DuplicateRowNeedsRival
  BY DEF IInv
<1> QED
  BY <1>1, Invariance, PTL

(***************************************************************************)
(* One worker, one job at a time.                                          *)
(***************************************************************************)
\* A row of one column is the status it holds.
LEMMA OneRow ==
    ASSUME NEW s \in Seq(Statuses), Len(s) = 1, NEW x \in Statuses
    PROVE  /\ s[1] = "success" <=> s = <<"success">>
           /\ [s EXCEPT ![1] = x] = <<x>>
<1>1. s = <<s[1]>>
  BY ElementOfSeq, SeqEqual
<1>2. [s EXCEPT ![1] = x] = <<x>>
  BY <1>1
<1> QED
  BY <1>1, <1>2

\* A worker that may start a job has no other.
LEMMA StartAlone ==
    ASSUME TypeOK, HandlerInv, Serial, NEW w \in Workers, NEW j \in JobIds, Start(w, j)
    PROVE  \A i \in JobIds : handler[i].step = "idle"
<1> DEFINE mine == {i \in JobIds : handler[i].worker = w}
<1>1. IsFiniteSet(JobIds)
  BY RetryAssumption, FS_Interval DEF JobIds
<1>2. IsFiniteSet(mine) /\ Cardinality(mine) < 1
  BY <1>1, FS_Subset DEF Start, Serial
<1>3. mine = {}
  <2> HIDE DEF mine
  <2>1. Cardinality(mine) \in Nat
    BY <1>2, FS_CardinalityType
  <2> QED
    BY <1>2, <2>1, FS_EmptySet
<1> QED
  BY <1>3 DEF Serial, HandlerInv, TypeOK, HandlerSet

\* What the writes do to the one row of the handled file.
LEMMA SerialRows ==
    ASSUME IInv, SerialInv, Serial, NEW j \in JobIds, HandlerStep(j)
    PROVE  /\ Len(files'[Key(j)]) <= 1
           /\ handler'[j].step = "beginInsert" => files'[Key(j)] = <<>>
           /\ handler'[j].step \in {"beginUpdate", "open", "import", "end", "endUpdate"}
                  => Len(files'[Key(j)]) = 1 /\ files'[Key(j)] # <<"success">>
           /\ files[Key(j)] = <<"success">> => files'[Key(j)] = files[Key(j)]
           /\ ~DbMayFail /\ handler'[j].step = "done" /\ handler'[j].result = "ok"
                  => files'[Key(j)] = <<"success">>
<1> DEFINE rows == files[Key(j)]
<1>0. /\ TypeOK /\ HandlerInv /\ ResultInv /\ Key(j) \in Keys /\ rows \in Seq(Statuses)
      /\ Len(rows) \in Nat /\ Len(rows) <= 1 /\ (Len(rows) = 0 <=> rows = <<>>)
      /\ \A i \in JobIds : handler[i].result \in Results
  BY BusyJob, EmptySeq, LenProperties DEF IInv, TypeOK, SerialInv, HandlerSet
<1>1. Succeeded(Key(j)) <=> rows = <<"success">>
  BY <1>0, OneRow DEF Succeeded, Statuses
<1>2. /\ handler[j].step = "beginInsert" => rows = <<>>
      /\ handler[j].step \in {"beginUpdate", "open", "import", "end", "endUpdate"}
             => Len(rows) = 1 /\ rows # <<"success">>
      /\ handler[j].step \notin Ending => handler[j].result = "none"
  BY <1>0 DEF SerialInv, ResultInv
<1>3. CASE BeginFile(j)
  <2>1. /\ UNCHANGED files
        /\ \/ Finish(j, "err")
           \/ Goto(j, "beginUpdate") /\ Len(rows) = 1 /\ ~Succeeded(Key(j))
           \/ Goto(j, "beginInsert") /\ Len(rows) # 1
    BY <1>3 DEF BeginFile, dbVars
  <2>2. Len(rows) # 1 => rows = <<>>
    <3>1. \A n \in Nat : n <= 1 /\ n # 1 => n = 0
      OBVIOUS
    <3> QED
      BY <1>0, <3>1
  <2> QED
    BY <1>0, <1>1, <2>1, <2>2, GotoFields, FinishFields
<1>4. CASE BeginInsert(j)
  <2>1. rows = <<>>
    BY <1>2, <1>4 DEF BeginInsert
  <2>2. files' = [files EXCEPT ![Key(j)] = Append(@, "processing")] /\ Goto(j, "open")
    BY <1>4, <2>1 DEF BeginInsert
  <2>3. files'[Key(j)] = <<"processing">>
    BY <1>0, <2>1, <2>2 DEF TypeOK
  <2> QED
    BY <1>0, <2>1, <2>2, <2>3, GotoFields
<1>5. CASE BeginUpdate(j)
  <2>1. Len(rows) = 1 /\ rows # <<"success">>
    BY <1>2, <1>5 DEF BeginUpdate
  <2>2. /\ files' = [files EXCEPT ![Key(j)] = [@ EXCEPT ![1] = "processing"]]
        /\ Goto(j, "open")
    BY <1>5, <2>1 DEF BeginUpdate
  <2>3. files'[Key(j)] = <<"processing">>
    <3>1. [rows EXCEPT ![1] = "processing"] = <<"processing">>
      BY <1>0, <2>1, OneRow DEF Statuses
    <3> QED
      BY <1>0, <2>2, <3>1 DEF TypeOK
  <2>4. handler'[j].step = "open"
    BY <1>0, <2>2, GotoFields
  <2>5. Len(<<"processing">>) = 1 /\ <<"processing">> # <<"success">>
    OBVIOUS
  <2> QED
    BY <2>1, <2>3, <2>4, <2>5
<1>6. CASE EndUpdate(j)
  <2>1. Len(rows) = 1 /\ rows # <<"success">> /\ Goto(j, "done")
    BY <1>2, <1>6 DEF EndUpdate
  <2>2. files' = [files EXCEPT ![Key(j)] = [@ EXCEPT ![1] = FinalStatus(handler[j].result)]]
    BY <1>6, <2>1 DEF EndUpdate
  <2>3. files'[Key(j)] = <<FinalStatus(handler[j].result)>>
    <3>1. FinalStatus(handler[j].result) \in Statuses
      BY DEF FinalStatus, Statuses
    <3>2. [rows EXCEPT ![1] = FinalStatus(handler[j].result)]
              = <<FinalStatus(handler[j].result)>>
      BY <1>0, <2>1, <3>1, OneRow
    <3> QED
      BY <1>0, <2>2, <3>2 DEF TypeOK
  <2>4. handler'[j].step = "done" /\ handler'[j].result = handler[j].result
    BY <1>0, <2>1, GotoFields
  <2> QED
    BY <2>1, <2>3, <2>4 DEF FinalStatus
<1>7. CASE EndFile(j)
  <2>1. handler[j].step = "end" /\ Len(rows) = 1 /\ ~Succeeded(Key(j))
    BY <1>1, <1>2, <1>7 DEF EndFile
  <2>2. Goto(j, "endUpdate") /\ UNCHANGED files
    BY <1>7, <2>1 DEF EndFile, dbVars
  <2>3. handler'[j].step = "endUpdate" /\ files'[Key(j)] = rows
    BY <1>0, <2>2, GotoFields
  <2>4. rows # <<"success">>
    BY <1>2, <2>1
  <2> QED
    BY <1>0, <2>1, <2>3, <2>4
<1>8. CASE ~(BeginFile(j) \/ BeginInsert(j) \/ BeginUpdate(j) \/ EndUpdate(j) \/ EndFile(j))
  <2>1. UNCHANGED files
    BY <1>8 DEF HandlerStep, LookupDevice, RegisterDevice, OpenFile, Import, DbError, Done,
       dbVars
  <2>2. \/ \E s \in {"register", "begin"} : Goto(j, s)
        \/ Finish(j, "err")
        \/ /\ handler[j].step \in {"open", "import"}
           /\ Goto(j, "import") \/ \E r \in Results : EndWith(j, r) /\ ~Finish(j, r)
        \/ DbMayFail /\ Goto(j, "done")
        \/ Done(j)
    <3>1. \A r \in Results : EndWith(j, r) => ~Finish(j, r)
      BY <1>0 DEF EndWith, Finish, TypeOK, HandlerSet
    <3> QED
      BY <1>8, <3>1 DEF HandlerStep, LookupDevice, RegisterDevice, OpenFile, Import,
         DbError, Results
  <2> QED
    BY <1>0, <1>2, <2>1, <2>2, GotoFields, FinishFields, DoneFields DEF Idle
<1> QED
  BY <1>3, <1>4, <1>5, <1>6, <1>7, <1>8

LEMMA SerialInvInit == Init => SerialInv /\ RecordInv
BY DEF Init, SerialInv, RecordInv, Idle

LEMMA SerialInvStep ==
    ASSUME IInv, SerialInv, [Next]_vars
    PROVE  SerialInv' /\ ([Serial => \A k \in Keys : files[k] = <<"success">>
                                         => files'[k] = files[k]]_vars)
<1> SUFFICES ASSUME Serial
             PROVE  SerialInv' /\ \A k \in Keys : files[k] = <<"success">>
                                                      => files'[k] = files[k]
  BY DEF SerialInv, Serial
<1> USE DEF folderVars, masterVars, queueVars, dbVars, faultVars
<1>0. TypeOK /\ HandlerInv /\ HandlerInv'
  BY NextIInv DEF IInv
<1>1. ASSUME NEW i \in JobIds, handler[i].step # "idle"
      PROVE  Key(i) \in Keys /\ Key(i)' = Key(i)
  BY <1>0, <1>1, KeyInKeys, PathStays DEF HandlerInv
<1>2. CASE /\ UNCHANGED files
           /\ \A i \in JobIds : handler'[i] = handler[i] \/ handler'[i].step = "idle"
  BY <1>1, <1>2 DEF SerialInv
<1>3. ASSUME NEW j \in JobIds, NEW w \in Workers, Start(w, j)
      PROVE  SerialInv' /\ UNCHANGED files
  <2>1. \A i \in JobIds : handler[i].step = "idle"
    BY <1>0, <1>3, StartAlone
  <2>2. /\ UNCHANGED files /\ \A i \in JobIds \ {j} : handler'[i] = handler[i]
        /\ handler'[j].step \in {"device", "done"}
    BY <1>0, <1>3 DEF Start, TypeOK
  <2> QED
    BY <2>1, <2>2 DEF SerialInv
<1>4. ASSUME NEW j \in JobIds, HandlerStep(j)
      PROVE  SerialInv' /\ \A k \in Keys : files[k] = <<"success">> => files'[k] = files[k]
  <2>1. /\ handler[j].step # "idle" /\ Key(j) \in Keys /\ Key(j)' = Key(j)
        /\ \A i \in JobIds \ {j} : handler[i].step = "idle" /\ handler'[i] = handler[i]
    BY <1>0, <1>1, <1>4, BusyJob, RowsChange DEF SerialInv
  <2>2. \A k \in Keys \ {Key(j)} : files'[k] = files[k]
    BY <1>0, <1>4, RowsChange
  <2>3. /\ Len(files'[Key(j)]) <= 1
        /\ handler'[j].step = "beginInsert" => files'[Key(j)] = <<>>
        /\ handler'[j].step \in {"beginUpdate", "open", "import", "end", "endUpdate"}
               => Len(files'[Key(j)]) = 1 /\ files'[Key(j)] # <<"success">>
        /\ files[Key(j)] = <<"success">> => files'[Key(j)] = files[Key(j)]
    BY <1>4, SerialRows
  <2>4. \A k \in Keys : Len(files'[k]) <= 1
    BY <2>2, <2>3 DEF SerialInv
  <2>5. \A i \in JobIds : handler'[i].step # "idle" => i = j
    BY <2>1
  <2>6. SerialInv'
    BY <2>1, <2>3, <2>4, <2>5 DEF SerialInv
  <2> QED
    BY <2>2, <2>3, <2>6
<1>5. ASSUME NEW w \in Workers, WorkerCrash(w)
      PROVE  SerialInv' /\ UNCHANGED files
  BY <1>0, <1>2, <1>5 DEF WorkerCrash, TypeOK, Idle
<1>6. CASE MasterStop
  BY <1>0, <1>2, <1>6 DEF MasterStop, TypeOK, Idle
<1>7. CASE UNCHANGED <<files, handler>>
  BY <1>2, <1>7
<1> QED
  BY <1>3, <1>4, <1>5, <1>6, <1>7
     DEF Next, vars, Deliver, Enqueue, OnSettled, MoveFile, Promote, MasterStart

LEMMA RecordInvStep ==
    ASSUME IInv, SerialInv, RecordInv, [Next]_vars
    PROVE  RecordInv'
<1> SUFFICES ASSUME Serial, ~DbMayFail, NEW i \in JobIds,
                    \/ job'[i].state = "complete"
                    \/ handler'[i].step = "done" /\ handler'[i].result = "ok"
             PROVE  files'[Key(i)'] = <<"success">>
  BY DEF RecordInv, Serial
<1> USE DEF folderVars, masterVars, queueVars, dbVars, faultVars
<1>0. TypeOK /\ HandlerInv /\ ResultInv
  BY DEF IInv
<1>1. \A k \in Keys : files[k] = <<"success">> => files'[k] = <<"success">>
  BY SerialInvStep DEF Serial, vars
<1>2. ASSUME \/ job[i].state = "complete"
             \/ handler[i].step = "done" /\ handler[i].result = "ok"
      PROVE  files'[Key(i)'] = <<"success">>
  <2>1. files[Key(i)] = <<"success">>
    BY <1>2 DEF RecordInv
  <2>2. Key(i) \in Keys /\ Key(i)' = Key(i)
    BY <1>0, <1>2, KeyInKeys, PathStays DEF HandlerInv
  <2> QED
    BY <1>1, <2>1, <2>2
<1>3. ASSUME NEW j \in JobIds, HandlerStep(j) PROVE files'[Key(i)'] = <<"success">>
  <2>1. CASE i # j
    BY <1>0, <1>2, <1>3, <2>1, StepFields, DoneFields DEF OthersKeep
  <2>2. CASE i = j /\ Done(j)
    <3>1. handler[j].step = "done" /\ handler'[j].step = "idle"
      BY <1>0, <2>2, DoneFields DEF Idle
    <3>2. handler[j].result \in {"ok", "err"}
      BY <1>0, <3>1 DEF ResultInv, Ending, TypeOK, HandlerSet, Results
    <3>3. handler[j].result # "err"
      BY <1>0, <2>2, <3>1, DoneFields
    <3> QED
      BY <1>2, <2>2, <3>1, <3>2, <3>3
  <2>3. CASE i = j /\ ~Done(j)
    <3>1. job'[j] = job[j] /\ job[j].state = "active"
      BY <1>0, <1>3, <2>3, StepFields, BusyJob
    <3>2. files'[Key(j)] = <<"success">>
      BY <1>3, <2>3, <3>1, SerialRows
    <3>3. Key(j)' = Key(j)
      BY <1>0, <1>3, BusyJob, PathStays
    <3> QED
      BY <2>3, <3>2, <3>3
  <2> QED
    BY <2>1, <2>2, <2>3
<1>4. ASSUME NEW p \in Paths, Enqueue(p) PROVE files'[Key(i)'] = <<"success">>
  BY <1>0, <1>2, <1>4, EnqueueFields
<1>5. ASSUME NEW j \in JobIds, Promote(j) \/ \E w \in Workers : Start(w, j)
      PROVE  files'[Key(i)'] = <<"success">>
  <2>1. \E s \in {"active", "inactive"} : job' = [job EXCEPT ![j] = [@ EXCEPT !.state = s]]
    BY <1>5 DEF Start, Promote
  <2>2. job'[i].state = "complete" => job[i].state = "complete"
    BY <1>0, <2>1 DEF TypeOK, JobSet
  <2>3. \/ handler'[i] = handler[i] \/ handler'[i].step # "done"
        \/ handler'[i].result # "ok"
    <3>1. UNCHANGED handler
          \/ \E w \in Workers : handler' = [handler EXCEPT ![j] =
                 IF job[j].path \in Shallow
                 THEN [worker |-> w, step |-> "done", result |-> "err"]
                 ELSE [worker |-> w, step |-> "device", result |-> "none"]]
      BY <1>5 DEF Start, Promote
    <3> QED
      BY <1>0, <3>1 DEF TypeOK
  <2> QED
    BY <1>2, <2>2, <2>3
<1>6. ASSUME NEW w \in Workers, WorkerCrash(w) PROVE files'[Key(i)'] = <<"success">>
  BY <1>0, <1>2, <1>6 DEF WorkerCrash, TypeOK, Idle
<1>7. CASE MasterStop
  BY <1>0, <1>2, <1>7 DEF MasterStop, TypeOK, Idle
<1>8. CASE UNCHANGED <<handler, job>>
  BY <1>2, <1>8
<1> QED
  BY <1>3, <1>4, <1>5, <1>6, <1>7, <1>8
     DEF Next, vars, Deliver, OnSettled, MoveFile, MasterStart

\* With one worker that takes one job at a time, the check of sqldb.js:126
\* keeps a row that says "success" for ever.
THEOREM SuccessStays == Spec => SuccessIsFinal
<1>1. Init => IInv /\ SerialInv
  BY InitIInv, SerialInvInit
<1>2. IInv /\ SerialInv /\ [Next]_vars => (IInv /\ SerialInv)'
  BY NextIInv, SerialInvStep
<1>3. IInv /\ SerialInv /\ [Next]_vars =>
          [Serial => \A k \in Keys : files[k] = <<"success">> => files'[k] = files[k]]_vars
  BY SerialInvStep
<1> QED
  BY <1>1, <1>2, <1>3, PTL DEF Spec, SuccessIsFinal

\* With one worker that takes one job at a time, and a database that does not
\* fail, the file of every completed job is recorded as such, and so is every
\* file in processed/.
THEOREM ProcessedOnRecord == Spec => []ProcessedIsRecorded
<1> DEFINE J == IInv /\ SerialInv /\ RecordInv
<1>1. Init => J
  BY InitIInv, SerialInvInit
<1>2. J /\ [Next]_vars => J'
  BY NextIInv, SerialInvStep, RecordInvStep
<1>3. J => ProcessedIsRecorded
  <2> SUFFICES ASSUME J, Serial, ~DbMayFail, NEW p \in processed
               PROVE  files[KeyOf[p]] = <<"success">>
    BY DEF ProcessedIsRecorded
  <2>1. PICK j \in JobIds : job[j].path = p /\ job[j].state = "complete"
    BY DEF IInv, TypeOK, FiledByVerdict
  <2> QED
    BY <2>1 DEF RecordInv, Key
<1> QED
  BY <1>1, <1>2, <1>3, PTL DEF Spec

-----------------------------------------------------------------------------
(***************************************************************************)
(* The pipeline implements FileCustody, for every set of files, every      *)
(* number of workers, jobs and attempts, and every number of stops,        *)
(* crashes and repeated deliveries.                                        *)
(***************************************************************************)

\* A step that imports and keeps nothing leaves the stored and the kept files as
\* they are: the jobs keep their files, and one that gets a file has taken nothing.
LEMMA SameImports ==
    ASSUME IInv, [Next]_vars, UNCHANGED <<imports, kept>>
    PROVE  Imported' = Imported /\ KeptAside' = KeptAside
<1>1. TypeOK /\ HandlerInv /\ ImportInv
  BY DEF IInv
<1>2. ASSUME NEW j \in JobIds, job[j].path \in Paths PROVE job'[j].path = job[j].path
  BY <1>1, <1>2, PathStays
<1>3. ASSUME NEW j \in JobIds, job[j].path \notin Paths PROVE ~(imports[j] > 0) /\ j \notin kept
  <2>1. job[j].state = "unused"
    BY <1>1, <1>3 DEF HandlerInv
  <2>2. handler[j].step \notin Ending
    BY <1>1, <2>1 DEF HandlerInv, Ending
  <2>3. imports[j] # 1 /\ imports[j] \in {0, 1} /\ j \notin kept
    BY <1>1, <2>1, <2>2 DEF ImportInv
  <2> QED
    BY <2>3
<1>4. kept \subseteq JobIds
  BY <1>1 DEF TypeOK
<1> QED
  BY <1>2, <1>3, <1>4 DEF Imported, KeptAside

\* The import of a job stores its file, or keeps it aside, and only its file.
LEMMA ImportStores ==
    ASSUME IInv, NEW j \in JobIds, HandlerStep(j)
    PROVE  \/ UNCHANGED <<imports, kept>>
           \/ /\ job[j].path \in Paths
              /\ job[j].path \in incoming \cup processed \cup failed
              /\ \/ /\ Imported' = Imported \cup {job[j].path} /\ KeptAside' = KeptAside
                 \/ /\ TypeOf[job[j].path] = "pcap"
                    /\ KeptAside' = KeptAside \cup {job[j].path} /\ Imported' = Imported
<1>1. TypeOK /\ HandlerInv /\ OpenInv
  BY DEF IInv
<1>2. CASE Import(j)
  <2>1. job[j].path \in Paths /\ job' = job /\ handler[j].step = "import"
    BY <1>1, <1>2, BusyJob DEF Import, queueVars
  <2>2. \/ UNCHANGED <<imports, kept>>
        \/ imports' = [imports EXCEPT ![j] = @ + 1] /\ UNCHANGED kept
        \/ TypeOf[job[j].path] = "pcap" /\ kept' = kept \cup {j} /\ UNCHANGED imports
    BY <1>2 DEF Import
  <2>3. ASSUME imports' = [imports EXCEPT ![j] = @ + 1], UNCHANGED kept
        PROVE  Imported' = Imported \cup {job[j].path} /\ KeptAside' = KeptAside
    <3>1. imports[j] \in Nat /\ imports'[j] = imports[j] + 1
      BY <1>1, <2>3 DEF TypeOK
    <3>2. \A i \in JobIds \ {j} : imports'[i] = imports[i]
      BY <1>1, <2>3 DEF TypeOK
    <3> QED
      BY <2>1, <2>3, <3>1, <3>2 DEF Imported, KeptAside
  <2>4. ASSUME kept' = kept \cup {j}, UNCHANGED imports
        PROVE  KeptAside' = KeptAside \cup {job[j].path} /\ Imported' = Imported
    BY <2>1, <2>4 DEF Imported, KeptAside
  <2> QED
    BY <1>1, <2>1, <2>2, <2>3, <2>4 DEF OpenInv
<1>3. CASE ~Import(j)
  BY <1>3 DEF HandlerStep, LookupDevice, RegisterDevice, BeginFile, BeginInsert,
     BeginUpdate, OpenFile, EndFile, EndUpdate, DbError, Done
<1> QED
  BY <1>2, <1>3

\* A move accepts a file whose data its job has imported or kept, rejects one, or
\* finds nothing to move.
LEMMA MoveSettles ==
    ASSUME IInv, NEW j \in JobIds, MoveFile(j)
    PROVE  \/ UNCHANGED <<incoming, processed, failed>>
           \/ job[j].path \in Paths /\ Custody!Accept(job[j].path)
           \/ job[j].path \in Paths /\ Custody!Reject(job[j].path)
<1> DEFINE p == job[j].path
<1>1. TypeOK /\ HandlerInv /\ SettledInv /\ ImportInv
  BY DEF IInv
<1>2. job[j].state \in {"complete", "failed"}
  BY <1>1 DEF MoveFile, SettledInv
<1>3. p \in Paths
  BY <1>1, <1>2 DEF HandlerInv
<1>4. /\ UNCHANGED <<job, imports, kept, outbox>>
      /\ Imported' = Imported /\ KeptAside' = KeptAside
  BY DEF MoveFile, queueVars, Imported, KeptAside
<1>5. CASE job[j].state = "failed"
  <2>1. CASE Movable(p, failed)
    BY <1>3, <1>4, <1>5, <2>1 DEF MoveFile, Movable, Custody!Reject
  <2>2. CASE ~Movable(p, failed)
    BY <1>5, <2>2 DEF MoveFile
  <2> QED
    BY <2>1, <2>2
<1>6. CASE job[j].state = "complete"
  <2>1. p \in Imported \cup KeptAside \cup {q \in Paths : TypeOf[q] = "other"}
    <3>1. TypeOf[p] = "other" \/ imports[j] = 1 \/ j \in kept
      BY <1>1, <1>6 DEF ImportInv
    <3> QED
      BY <1>3, <3>1 DEF Imported, KeptAside
  <2>2. CASE Movable(p, processed)
    BY <1>3, <1>4, <1>6, <2>1, <2>2 DEF MoveFile, Movable, Custody!Accept
  <2>3. CASE ~Movable(p, processed)
    BY <1>6, <2>3 DEF MoveFile
  <2> QED
    BY <2>2, <2>3
<1> QED
  BY <1>2, <1>5, <1>6

\* Every step of the pipeline is a step of FileCustody, or none.
LEMMA StepKeepsCustody ==
    ASSUME IInv, [Next]_vars
    PROVE  [Custody!Next]_Custody!custodyVars
<1> USE DEF folderVars, masterVars, queueVars, dbVars, faultVars
<1>1. ASSUME NEW p \in Paths, Deliver(p) PROVE Custody!Deliver(p)
  <2>1. Imported' = Imported /\ KeptAside' = KeptAside
    BY <1>1, SameImports DEF Next, Deliver
  <2> QED
    BY <1>1, <2>1 DEF Deliver, Custody!Deliver
<1>2. ASSUME NEW j \in JobIds, MoveFile(j) PROVE [Custody!Next]_Custody!custodyVars
  <2>1. Imported' = Imported /\ KeptAside' = KeptAside /\ outbox' = outbox
    BY <1>2 DEF MoveFile, Imported, KeptAside
  <2> QED
    BY <1>2, <2>1, MoveSettles DEF Custody!Next, Custody!custodyVars
<1>3. ASSUME NEW j \in JobIds, HandlerStep(j) PROVE [Custody!Next]_Custody!custodyVars
  <2>1. UNCHANGED folderVars
    BY <1>3, HandlersKeepFolders
  <2>2. CASE UNCHANGED <<imports, kept>>
    BY <2>1, <2>2, SameImports DEF Custody!custodyVars
  <2>3. CASE ~UNCHANGED <<imports, kept>>
    <3>1. /\ job[j].path \in Paths
          /\ Custody!Store(job[j].path) \/ Custody!Keep(job[j].path)
      BY <1>3, <2>1, <2>3, ImportStores DEF Custody!Store, Custody!Keep, Custody!Delivered
    <3> QED
      BY <3>1 DEF Custody!Next
  <2> QED
    BY <2>2, <2>3
<1>4. ASSUME UNCHANGED <<outbox, incoming, processed, failed, imports, kept>>
      PROVE  UNCHANGED Custody!custodyVars
  BY <1>4, SameImports DEF Custody!custodyVars
<1> QED
  BY <1>1, <1>2, <1>3, <1>4
     DEF Next, vars, Custody!Next, Enqueue, OnSettled, Promote, Start, WorkerCrash,
         MasterStop, MasterStart

\* The pipeline keeps the custody of the clients' files (app.js:107-153): a
\* file is accepted only when its data is stored, and what was accepted or
\* rejected stays so, under retries, rescans, stops and repeated deliveries.
THEOREM PipelineKeepsCustody == Spec => KeepsCustody
<1>1. Init => Custody!Init
  BY DEF Init, Custody!Init, Imported, KeptAside
<1>2. IInv /\ [Next]_vars => [Custody!Next]_Custody!custodyVars
  BY StepKeepsCustody
<1> QED
  BY <1>1, <1>2, Invariance, PTL DEF Spec, KeepsCustody, Custody!Spec
=============================================================================
