---------------------------- MODULE SqliteProofs ----------------------------
(***************************************************************************)
(* What SqliteImport promises for files with any tables and rows, any      *)
(* number of calls, refused statements, read errors and stops.             *)
(***************************************************************************)
EXTENDS SqliteImport, Integers, FiniteSetTheorems, TLAPS

-----------------------------------------------------------------------------
(* The order of the stages.                                                *)

N == Len(Stats)
First == {"uncompress", "open", "events", "session"}
Last == {"surveys", "tags", "activities", "touch", "connections", "logs"}
Copied == {Stats[i] : i \in DOMAIN Stats}

\* The stages and where they stand.
LEMMA OrderShape ==
    /\ N \in Nat /\ DOMAIN Order = 1..(N + 11)
    /\ Order[1] = "uncompress" /\ Order[2] = "open" /\ Order[3] = "events" /\ Order[4] = "session"
    /\ \A i \in 1..N : Order[4 + i] = Stats[i]
    /\ Order[N + 5] = "surveys" /\ Order[N + 6] = "tags" /\ Order[N + 7] = "activities"
    /\ Order[N + 8] = "touch" /\ Order[N + 9] = "connections" /\ Order[N + 10] = "logs"
    /\ Order[N + 11] = "over"
  BY StatsAssumption DEF Order, N

LEMMA CopiedShape ==
    /\ Copied \cap (First \cup Last \cup {"over"}) = {}
    /\ Copied = {Stats[i] : i \in 1..N}
    /\ Working = Copied \cup Last
  BY StatsAssumption DEF Copied, First, Last, N, Working, RowStages

\* Behind the first stages comes a copied table or one of the rest.
LEMMA Places ==
    \A j \in 1..(N + 11) :
        \/ j \in {1, 2, 3, 4}
        \/ j > 4 /\ Order[j] \in Copied
        \/ j \in {N + 5, N + 6, N + 7, N + 8, N + 9, N + 10, N + 11}
<1>1. SUFFICES ASSUME NEW j \in 1..(N + 11), ~(j \in {1, 2, 3, 4}), ~(j > 4 /\ Order[j] \in Copied)
               PROVE  j \in {N + 5, N + 6, N + 7, N + 8, N + 9, N + 10, N + 11}
  OBVIOUS
<1>2. N \in Nat /\ j \in Int /\ j > 4
  BY <1>1, OrderShape
<1>3. j - 4 \notin 1..N
  <2>1. SUFFICES ASSUME j - 4 \in 1..N PROVE FALSE
    OBVIOUS
  <2>2. Order[4 + (j - 4)] = Stats[j - 4] /\ 4 + (j - 4) = j
    BY <2>1, <1>2, OrderShape
  <2> QED
    BY <2>1, <2>2, <1>1, <1>2, CopiedShape
<1> QED
  BY <1>1, <1>2, <1>3

\* A stage that is not copied stands in one place, and the next one follows.
LEMMA FollowsPlace ==
    ASSUME NEW k \in {1, 2, 3, 4, N + 5, N + 6, N + 7, N + 8, N + 9, N + 10}
    PROVE  Follows(Order[k]) = Order[1 + k]
<1>1. k \in 1..(N + 11) /\ Order[k] \in First \cup Last
  BY OrderShape DEF First, Last
<1>2. ASSUME NEW j \in 1..(N + 11), Order[j] = Order[k] PROVE j = k
  <2>1. j \in {1, 2, 3, 4, N + 5, N + 6, N + 7, N + 8, N + 9, N + 10, N + 11}
    BY <1>1, <1>2, Places, CopiedShape
  <2> QED
    BY <2>1, <1>2, OrderShape
<1>3. (CHOOSE i \in DOMAIN Order : Order[i] = Order[k]) = k
  BY <1>1, <1>2, OrderShape
<1> QED
  BY <1>3 DEF Follows

\* The stage that follows each stage.
LEMMA FollowsShape ==
    /\ Follows("uncompress") = "open" /\ Follows("open") = "events"
    /\ Follows("events") = "session" /\ Follows("session") \in Working
    /\ Follows("connections") = "logs" /\ Follows("logs") = "over"
    /\ \A s \in Working : Follows(s) \in Working \cup {"over"}
<1>0. 1 + (N + 9) = N + 10 /\ 1 + (N + 10) = N + 11
  BY OrderShape
<1>1. /\ Follows(Order[1]) = Order[2] /\ Follows(Order[2]) = Order[3]
      /\ Follows(Order[3]) = Order[4] /\ Follows(Order[4]) = Order[5]
  <2>1. 1 + 1 = 2 /\ 1 + 2 = 3 /\ 1 + 3 = 4 /\ 1 + 4 = 5
    OBVIOUS
  <2> QED
    BY <2>1, FollowsPlace
<1>2. Follows(Order[N + 9]) = Order[N + 10] /\ Follows(Order[N + 10]) = Order[N + 11]
  BY <1>0, FollowsPlace
<1>3. \A j \in 1..(N + 11) : j > 4 => Order[j] \in Working \cup {"over"}
  BY Places, OrderShape, CopiedShape DEF Last
<1>4. Order[5] \in Working
  <2>1. CASE N = 0
    BY <2>1, OrderShape, CopiedShape DEF Last
  <2>2. CASE N # 0
    <3>1. 1 \in 1..N /\ 4 + 1 = 5
      BY <2>2, OrderShape
    <3>2. Order[5] = Stats[1]
      BY <3>1, OrderShape
    <3> QED
      BY <3>1, <3>2, CopiedShape
  <2> QED
    BY <2>1, <2>2
<1>5. ASSUME NEW s \in Working PROVE Follows(s) \in Working \cup {"over"}
  <2> DEFINE i == CHOOSE i \in DOMAIN Order : Order[i] = s
  <2>1. \E j \in DOMAIN Order : Order[j] = s
    <3>1. CASE s \in Copied
      <4>1. PICK j \in 1..N : s = Stats[j]
        BY <3>1, CopiedShape
      <4>2. 4 + j \in 1..(N + 11)
        BY <4>1, OrderShape
      <4> QED
        BY <4>1, <4>2, OrderShape
    <3>2. CASE s \in Last
      <4>1. \A k \in {5, 6, 7, 8, 9, 10} : N + k \in 1..(N + 11)
        BY OrderShape
      <4> QED
        BY <3>2, <4>1, OrderShape DEF Last
    <3> QED
      BY <3>1, <3>2, CopiedShape
  <2>2. i \in 1..(N + 11) /\ Order[i] = s
    BY <2>1, OrderShape
  <2>3. s \notin First /\ s # "over"
    BY CopiedShape DEF First, Last
  <2>4. i \notin {1, 2, 3, 4} /\ i # N + 11
    BY <2>2, <2>3, OrderShape DEF First
  <2> HIDE DEF i
  <2>5. 1 + i \in 1..(N + 11) /\ 1 + i > 4
    BY <2>2, <2>4, OrderShape
  <2>6. Order[1 + i] \in Working \cup {"over"}
    BY <2>5, <1>3
  <2> QED
    BY <2>6 DEF Follows, i
<1> QED
  BY <1>1, <1>2, <1>4, <1>5, OrderShape

\* The kinds of stages.
LEMMA StageShape ==
    /\ Stages = {"idle", "over"} \cup First \cup Working
    /\ {"idle", "over"} \cap (First \cup Working) = {} /\ First \cap Working = {}
    /\ RowStages = Working \ {"touch"} /\ "touch" \in Working
    /\ Late \subseteq Working \cup {"over"} /\ Buffered \subseteq RowStages
    /\ {"tags", "connections", "logs"} \subseteq RowStages
    /\ "locate" \notin RowStages
<1>1. Stages = {"idle"} \cup {Order[i] : i \in 1..(N + 11)}
  BY OrderShape DEF Stages
<1>2. {Order[i] : i \in 1..(N + 11)} \subseteq {"over"} \cup First \cup Working
  <2>1. SUFFICES ASSUME NEW j \in 1..(N + 11) PROVE Order[j] \in {"over"} \cup First \cup Working
    OBVIOUS
  <2>2. CASE j \in {1, 2, 3, 4}
    BY <2>2, OrderShape DEF First
  <2>3. CASE Order[j] \in Copied
    BY <2>3, CopiedShape
  <2>4. CASE j \in {N + 5, N + 6, N + 7, N + 8, N + 9, N + 10, N + 11}
    BY <2>4, OrderShape, CopiedShape DEF Last
  <2> QED
    BY <2>1, <2>2, <2>3, <2>4, Places
<1>3. First \cup Last \cup {"over"} \subseteq {Order[i] : i \in 1..(N + 11)}
  <2>1. \A k \in {5, 6, 7, 8, 9, 10, 11} : N + k \in 1..(N + 11)
    BY OrderShape
  <2>2. \A k \in {1, 2, 3, 4} : k \in 1..(N + 11)
    BY OrderShape
  <2> QED
    BY <2>1, <2>2, OrderShape DEF First, Last
<1>4. Copied \subseteq {Order[i] : i \in 1..(N + 11)}
  <2>1. SUFFICES ASSUME NEW j \in 1..N PROVE Stats[j] \in {Order[i] : i \in 1..(N + 11)}
    BY CopiedShape
  <2>2. 4 + j \in 1..(N + 11) /\ Order[4 + j] = Stats[j]
    BY OrderShape
  <2> QED
    BY <2>2
<1>5. Copied \cap {"idle", "touch", "locate"} = {}
  BY StatsAssumption DEF Copied
<1>6. Stages = {"idle", "over"} \cup First \cup Working
  BY <1>1, <1>2, <1>3, <1>4, CopiedShape
<1>7. RowStages = Copied \cup (Last \ {"touch"})
  BY DEF RowStages, Copied, Last
<1>8. Working = Copied \cup Last /\ Copied \cap (First \cup Last \cup {"over"}) = {}
  BY CopiedShape
<1>9. RowStages = Working \ {"touch"} /\ "touch" \in Working
  BY <1>5, <1>7, <1>8 DEF Last
<1>10. {"idle", "over"} \cap (First \cup Working) = {} /\ First \cap Working = {}
  BY <1>5, <1>8 DEF First, Last
<1>11. "locate" \notin RowStages
  BY <1>5, <1>7 DEF Last
<1>12. Late \subseteq Working \cup {"over"} /\ Buffered \subseteq RowStages
  BY <1>7, <1>8 DEF Last, Late, Buffered
<1> QED
  BY <1>6, <1>7, <1>9, <1>10, <1>11, <1>12 DEF Last

\* What starts the waterfall and ends it keeps the types.
LEMMA ProceedType ==
    ASSUME TypeOK, NEW a \in Calls, stage[a] \in First \cup Working, Proceed(a)
    PROVE  /\ stage' \in [Calls -> Stages] /\ left' \in [Calls -> Nat]
           /\ buffer' \in [Calls -> Seq(Nat \ {0})] /\ failed' \in [Calls -> BOOLEAN]
           /\ verdict' \in [Calls -> Verdicts] /\ reply' \in [Calls -> Verdicts \cup {"lost"}]
           /\ cleaning' \in [Calls -> {"none", "delete", "close", "unlink", "done"}]
<1>1. Follows(stage[a]) \in Stages
  BY FollowsShape, StageShape DEF First
<1>2. \A s \in RowStages : RowsOf[s] \in Nat
  BY DataAssumption
<1>3. stage' \in [Calls -> Stages] /\ left' \in [Calls -> Nat] /\ failed' \in [Calls -> BOOLEAN]
  BY <1>1, <1>2 DEF TypeOK, Proceed
<1>4. buffer' \in [Calls -> Seq(Nat \ {0})]
  BY DEF TypeOK, Proceed
<1>5. /\ verdict' \in [Calls -> Verdicts] /\ reply' \in [Calls -> Verdicts \cup {"lost"}]
      /\ cleaning' \in [Calls -> {"none", "delete", "close", "unlink", "done"}]
  BY DEF TypeOK, Proceed, End, answerVars, Verdicts
<1> QED
  BY <1>3, <1>4, <1>5

LEMMA EndType ==
    ASSUME TypeOK, NEW a \in Calls, End(a, "err")
    PROVE  /\ verdict' \in [Calls -> Verdicts] /\ reply' \in [Calls -> Verdicts \cup {"lost"}]
           /\ cleaning' \in [Calls -> {"none", "delete", "close", "unlink", "done"}]
  BY DEF TypeOK, End, answerVars, Verdicts

LEMMA FailType ==
    ASSUME TypeOK, NEW a \in Calls, Fail(a)
    PROVE  /\ stage' \in [Calls -> Stages] /\ left' \in [Calls -> Nat]
           /\ buffer' \in [Calls -> Seq(Nat \ {0})] /\ failed' \in [Calls -> BOOLEAN]
           /\ verdict' \in [Calls -> Verdicts] /\ reply' \in [Calls -> Verdicts \cup {"lost"}]
           /\ cleaning' \in [Calls -> {"none", "delete", "close", "unlink", "done"}]
  BY EndType, StageShape DEF TypeOK, Fail

-----------------------------------------------------------------------------
(* Type correctness, action by action.                                     *)

LEMMA FaultBounds ==
    ASSUME TypeOK
    PROVE  /\ faults < MaxFaults /\ faults' = faults + 1 => faults' \in 0..MaxFaults
           /\ ReadError => readErrors' \in 0..MaxReadErrors
           /\ stops < MaxStops /\ stops' = stops + 1 => stops' \in 0..MaxStops
  BY DataAssumption DEF TypeOK, ReadError

LEMMA StepType ==
    ASSUME TypeOK, LeftInv, NEW a \in Calls, Step(a)
    PROVE  TypeOK'
<1>1. CASE Uncompress(a)
  <2>1. stage[a] \in First /\ UNCHANGED <<handle, session, inflight, stored, refused, faults, stops>>
    BY <1>1 DEF Uncompress, First, dbVars
  <2>2. CASE Proceed(a) /\ temp' = TRUE /\ UNCHANGED readErrors
    BY <2>1, <2>2, ProceedType DEF TypeOK
  <2>3. CASE Fail(a) /\ ReadError /\ UNCHANGED temp
    BY <2>1, <2>3, FailType, FaultBounds DEF TypeOK
  <2> QED
    BY <1>1, <2>2, <2>3 DEF Uncompress
<1>2. CASE Open(a)
  <2>1. /\ stage[a] \in First /\ UNCHANGED <<temp, session, inflight, stored, refused, faults, stops>>
        /\ handle' \in [Calls -> {"none", "open", "closed"}]
    BY <1>2 DEF Open, First, dbVars, TypeOK
  <2>2. CASE Proceed(a) /\ UNCHANGED readErrors
    BY <2>1, <2>2, ProceedType DEF TypeOK
  <2>3. CASE Fail(a) /\ (UNCHANGED readErrors \/ ReadError)
    BY <2>1, <2>3, FailType, FaultBounds DEF TypeOK
  <2> QED
    BY <1>2, <2>2, <2>3 DEF Open
<1>3. CASE ReadEvents(a)
  <2>1. stage[a] \in First /\ UNCHANGED <<handle, temp, session, inflight, stored, refused, faults, stops>>
    BY <1>3 DEF ReadEvents, First, dbVars
  <2>2. CASE Proceed(a) /\ UNCHANGED readErrors
    BY <2>1, <2>2, ProceedType DEF TypeOK
  <2>3. CASE Fail(a) /\ ReadError
    BY <2>1, <2>3, FailType, FaultBounds DEF TypeOK
  <2> QED
    BY <1>3, <2>2, <2>3 DEF ReadEvents
<1>4. CASE InsertSession(a)
  <2>1. stage[a] \in First /\ UNCHANGED <<handle, temp, inflight, stored, refused, readErrors, stops>>
    BY <1>4 DEF InsertSession, First
  <2>2. CASE Proceed(a) /\ session' = [session EXCEPT ![a] = "stored"] /\ UNCHANGED faults
    BY <2>1, <2>2, ProceedType DEF TypeOK
  <2>3. CASE Fail(a) /\ faults < MaxFaults /\ faults' = faults + 1 /\ UNCHANGED session
    BY <2>1, <2>3, FailType, FaultBounds DEF TypeOK
  <2> QED
    BY <1>4, <2>2, <2>3 DEF InsertSession
<1>5. CASE Touch(a)
  <2>1. stage[a] \in Working /\ UNCHANGED <<handle, temp, session, inflight, stored, refused, readErrors, stops>>
    BY <1>5, StageShape DEF Touch, dbVars
  <2>2. CASE Proceed(a) /\ UNCHANGED faults
    BY <2>1, <2>2, ProceedType DEF TypeOK
  <2>3. CASE Fail(a) /\ faults < MaxFaults /\ faults' = faults + 1
    BY <2>1, <2>3, FailType, FaultBounds DEF TypeOK
  <2> QED
    BY <1>5, <2>2, <2>3 DEF Touch
<1>6. CASE ReadRow(a)
  <2> DEFINE n == Reading(a)
             s == IF stage[a] = "connections" /\ n \in Located THEN "locate" ELSE stage[a]
  <2>1. /\ left[a] \in Nat /\ left[a] > 0 /\ RowsOf[stage[a]] \in Nat
        /\ left' = [left EXCEPT ![a] = @ - 1]
        /\ UNCHANGED <<stage, failed, verdict, reply, cleaning, handle, temp, session, stored, refused,
                       faults, readErrors, stops>>
    BY <1>6, DataAssumption DEF ReadRow, TypeOK, answerVars, faultVars
  <2>2. left' \in [Calls -> Nat]
    BY <2>1 DEF TypeOK
  <2>3. n \in Nat \ {0} /\ stage[a] \in RowStages
    BY <1>6, <2>1, SMTT(30) DEF ReadRow, LeftInv, Reading
  <2>4. s \in RowStages \cup {"locate"}
    BY <2>3
  <2> HIDE DEF n, s
  <2>5. CASE UNCHANGED <<buffer, inflight>>
    BY <2>1, <2>2, <2>5 DEF TypeOK
  <2>6. CASE buffer' = [buffer EXCEPT ![a] = Append(@, n)] /\ UNCHANGED inflight
    <3>1. buffer' \in [Calls -> Seq(Nat \ {0})]
      BY <2>3, <2>6 DEF TypeOK
    <3> QED
      BY <2>1, <2>2, <2>6, <3>1 DEF TypeOK
  <2>7. CASE inflight' = inflight \cup {[of |-> a, stage |-> s, row |-> n]} /\ UNCHANGED buffer
    <3>1. inflight' \subseteq Statement
      BY <2>3, <2>4, <2>7 DEF TypeOK, Statement
    <3> QED
      BY <2>1, <2>2, <2>7, <3>1 DEF TypeOK
  <2> QED
    BY <1>6, <2>5, <2>6, <2>7 DEF ReadRow, n, s
<1>7. CASE BreakRead(a)
  <2>1. /\ left' \in [Calls -> Nat] /\ failed' \in [Calls -> BOOLEAN]
        /\ UNCHANGED <<stage, buffer, verdict, reply, cleaning, handle, temp, session, inflight, stored,
                       refused, faults, stops>>
    BY <1>7 DEF BreakRead, TypeOK, answerVars, dbVars
  <2>2. readErrors' \in 0..MaxReadErrors
    BY <1>7, FaultBounds DEF BreakRead, TypeOK
  <2> QED
    BY <2>1, <2>2 DEF TypeOK
<1>8. CASE EndRead(a)
  <2>1. stage[a] \in Working /\ UNCHANGED <<handle, temp, session, inflight, stored, refused, faults, readErrors, stops>>
    BY <1>8, StageShape DEF EndRead, dbVars, faultVars
  <2>2. CASE Proceed(a)
    BY <2>1, <2>2, ProceedType DEF TypeOK
  <2>3. CASE Fail(a)
    BY <2>1, <2>3, FailType DEF TypeOK
  <2> QED
    BY <1>8, <2>2, <2>3 DEF EndRead
<1>9. CASE InsertNext(a)
  <2>1. /\ stage[a] \in RowStages /\ buffer[a] \in Seq(Nat \ {0}) /\ buffer[a] # <<>>
        /\ UNCHANGED <<handle, temp, session, inflight, refused, readErrors, stops>>
    BY <1>9, StageShape DEF InsertNext, TypeOK
  <2>2. CASE Fail(a) /\ UNCHANGED stored /\ (UNCHANGED faults \/ (faults < MaxFaults /\ faults' = faults + 1))
    BY <2>1, <2>2, FailType, FaultBounds DEF TypeOK
  <2>3. CASE /\ buffer' = [buffer EXCEPT ![a] = Tail(@)]
             /\ stored' = stored \cup {[of |-> a, stage |-> stage[a], row |-> Head(buffer[a])]}
             /\ UNCHANGED <<stage, left, failed, answerVars, faults>>
    <3>1. Tail(buffer[a]) \in Seq(Nat \ {0}) /\ Head(buffer[a]) \in Nat \ {0}
      BY <2>1
    <3>2. buffer' \in [Calls -> Seq(Nat \ {0})]
      BY <2>3, <3>1 DEF TypeOK
    <3>3. stored' \subseteq Row
      BY <2>1, <2>3, <3>1 DEF TypeOK, Row
    <3> QED
      BY <2>1, <2>3, <3>2, <3>3 DEF TypeOK, answerVars
  <2> QED
    BY <1>9, <2>2, <2>3 DEF InsertNext
<1> QED
  BY <1>1, <1>2, <1>3, <1>4, <1>5, <1>6, <1>7, <1>8, <1>9 DEF Step

LEMMA CleanupType ==
    ASSUME TypeOK, NEW a \in Calls, Cleanup(a)
    PROVE  TypeOK'
<1>1. CASE DeleteSession(a)
  <2>1. UNCHANGED <<stage, left, buffer, failed, verdict, reply, handle, temp, inflight, refused,
                    readErrors, stops>>
    BY <1>1 DEF DeleteSession, waterfallVars
  <2>2. /\ cleaning' \in [Calls -> {"none", "delete", "close", "unlink", "done"}]
        /\ session' \in [Calls -> {"none", "stored", "deleted"}] /\ stored' \subseteq Row
        /\ faults' \in 0..MaxFaults
    BY <1>1, FaultBounds DEF DeleteSession, TypeOK
  <2> QED
    BY <2>1, <2>2 DEF TypeOK
<1>2. CASE CloseDb(a)
  BY <1>2 DEF CloseDb, TypeOK, waterfallVars, dbVars, faultVars
<1>3. CASE Unlink(a)
  BY <1>3 DEF Unlink, TypeOK, waterfallVars, dbVars, faultVars
<1> QED
  BY <1>1, <1>2, <1>3 DEF Cleanup

LEMMA RunType ==
    ASSUME TypeOK, NEW st \in inflight, RunInsert(st) \/ RunLog(st) \/ RunLocate(st)
    PROVE  TypeOK'
<1>0. st \in Statement /\ st.of \in Calls
  BY DEF TypeOK, Statement
<1>1. ASSUME RunInsert(st) \/ RunLog(st) PROVE TypeOK'
  <2>1. /\ inflight' \subseteq Statement
        /\ UNCHANGED <<stage, left, buffer, verdict, reply, cleaning, handle, temp, session, readErrors, stops>>
    BY <1>1 DEF RunInsert, RunLog, TypeOK, answerVars
  <2>2. failed' \in [Calls -> BOOLEAN] /\ refused' \subseteq Calls
    BY <1>0, <1>1 DEF RunInsert, RunLog, Refuse, TypeOK
  <2>3. faults' \in 0..MaxFaults
    BY <1>1, FaultBounds DEF RunInsert, RunLog, TypeOK
  <2>4. stored' \subseteq Row
    <3>1. CASE RunInsert(st)
      <4>1. st \in Row
        BY <1>0, <3>1 DEF RunInsert, Statement, Row
      <4> QED
        BY <3>1, <4>1 DEF RunInsert, TypeOK
    <3>2. CASE RunLog(st)
      <4>1. \A c \in stored : [st EXCEPT !.of = c.of] \in Row
        <5>1. st.stage = "logs" /\ "logs" \in RowStages
          BY <3>2, StageShape DEF RunLog
        <5> QED
          BY <1>0, <5>1 DEF Statement, Row, TypeOK
      <4> QED
        BY <3>2, <4>1 DEF RunLog, TypeOK
    <3> QED
      BY <1>1, <3>1, <3>2
  <2> QED
    BY <2>1, <2>2, <2>3, <2>4 DEF TypeOK
<1>2. ASSUME RunLocate(st) PROVE TypeOK'
  <2>1. UNCHANGED <<stage, left, buffer, failed, handle, temp, session, stored, refused, readErrors, stops>>
    BY <1>2 DEF RunLocate, waterfallVars
  <2>2. inflight' \subseteq Statement
    <3>1. [st EXCEPT !.stage = "connections"] \in Statement
      BY <1>0, StageShape DEF Statement
    <3> QED
      BY <1>2, <3>1 DEF RunLocate, TypeOK
  <2>3. faults' \in 0..MaxFaults
    BY <1>2, FaultBounds DEF RunLocate, TypeOK
  <2>4. /\ verdict' \in [Calls -> Verdicts] /\ reply' \in [Calls -> Verdicts \cup {"lost"}]
        /\ cleaning' \in [Calls -> {"none", "delete", "close", "unlink", "done"}]
    BY <1>0, <1>2, EndType DEF RunLocate, TypeOK, answerVars
  <2> QED
    BY <2>1, <2>2, <2>3, <2>4 DEF TypeOK
<1> QED
  BY <1>1, <1>2

LEMMA TypeStep == TypeOK /\ LeftInv /\ [Next]_vars => TypeOK'
<1> SUFFICES ASSUME TypeOK, LeftInv, [Next]_vars PROVE TypeOK'
  OBVIOUS
<1>1. ASSUME NEW a \in Calls, Begin(a) PROVE TypeOK'
  BY <1>1, StageShape DEF Begin, TypeOK, answerVars, dbVars, faultVars, First
<1>2. ASSUME Stop PROVE TypeOK'
  BY <1>2, StageShape, FaultBounds DEF Stop, TypeOK
<1>3. ASSUME UNCHANGED vars PROVE TypeOK'
  BY <1>3 DEF vars, waterfallVars, answerVars, dbVars, faultVars, TypeOK
<1> QED
  BY <1>1, <1>2, <1>3, StepType, CleanupType, RunType DEF Next, Run

-----------------------------------------------------------------------------
(* The rest of the invariant.  An action moves the waterfall of one call   *)
(* on, or ends it, or leaves it where it is.                               *)

Kept == WaterfallInv /\ ReplyInv /\ NothingOfADeletedSession

\* A call in its waterfall has no answer yet, unless a lookup failed late.
LEMMA Unanswered ==
    ASSUME ImportInv, NEW a \in Calls, stage[a] \in First \cup Working
    PROVE  /\ verdict[a] = "none" => reply[a] = "none" /\ session[a] # "deleted"
           /\ verdict[a] # "none" => verdict[a] = "err" /\ reply[a] = "err" /\ stage[a] \in Late
           /\ stage[a] \in First => verdict[a] = "none" /\ session[a] = "none"
           /\ stage[a] \in Working /\ verdict[a] = "none" => session[a] = "stored"
           /\ reply[a] \in {"none", "err"} /\ stage[a] \notin {"idle", "over"}
<1>1. stage[a] \notin {"idle", "over"} /\ (stage[a] \in First => stage[a] \notin Late /\ stage[a] \notin Working)
  BY StageShape DEF First, Late
<1>2. stage[a] \in First => verdict[a] = "none" /\ session[a] = "none"
  BY <1>1, StageShape DEF ImportInv, TypeOK, WaterfallInv
<1>3. reply[a] # "lost" /\ reply[a] # "ok"
  BY <1>1 DEF ImportInv, ReplyInv, WaterfallInv
<1>4. verdict[a] \in Verdicts /\ reply[a] \in Verdicts \cup {"lost"} /\ session[a] \in {"none", "stored", "deleted"}
  BY DEF ImportInv, TypeOK
<1>5. /\ (reply[a] = "err") <=> (verdict[a] = "err")
      /\ verdict[a] = "none" => session[a] # "deleted"
      /\ verdict[a] # "none" => stage[a] \in Late
      /\ verdict[a] = "ok" => stage[a] = "over"
      /\ stage[a] \in Working => session[a] # "none"
  BY DEF ImportInv, WaterfallInv, ReplyInv
<1> QED
  BY <1>1, <1>2, <1>3, <1>4, <1>5 DEF Verdicts

\* An error that ends a call, or comes after its end.
LEMMA EndKept ==
    ASSUME ImportInv, NEW a \in Calls, End(a, "err"), reply[a] \in {"none", "err"},
           stage[a] # "idle", stage' = [stage EXCEPT ![a] = stage'[a]],
           stage'[a] = "over" \/ (stage'[a] = stage[a] /\ stage[a] \in Late),
           UNCHANGED <<temp, session, stored>>, inflight' \subseteq Statement,
           \A st \in inflight' : \/ st \in inflight
                                 \/ st.of = a /\ st.stage # "locate",
           handle' = handle \/ (handle' = [handle EXCEPT ![a] = "open"] /\ stage[a] \in First),
           faults' \in Nat, faults' >= faults, UNCHANGED stops
    PROVE  Kept'
<1>0. /\ stage \in [Calls -> Stages] /\ verdict \in [Calls -> Verdicts] /\ reply \in [Calls -> Verdicts \cup {"lost"}]
      /\ cleaning \in [Calls -> {"none", "delete", "close", "unlink", "done"}]
      /\ handle \in [Calls -> {"none", "open", "closed"}]
      /\ session \in [Calls -> {"none", "stored", "deleted"}] /\ faults \in Nat
  BY DataAssumption DEF ImportInv, TypeOK
<1>1. /\ \A b \in Calls : b # a => /\ stage'[b] = stage[b] /\ verdict'[b] = verdict[b] /\ reply'[b] = reply[b]
                                   /\ cleaning'[b] = cleaning[b] /\ handle'[b] = handle[b]
      /\ stage'[a] = "over" \/ (stage'[a] = stage[a] /\ stage[a] \in Late)
      /\ \A b \in Calls : session'[b] = session[b]
  BY <1>0 DEF End, answerVars
<1>2. /\ verdict[a] # "none" => verdict'[a] = verdict[a] /\ reply'[a] = reply[a] /\ cleaning'[a] = cleaning[a]
      /\ verdict[a] = "none" => /\ verdict'[a] = "err" /\ reply'[a] = "err"
                                /\ cleaning'[a] = IF session[a] = "stored" THEN "delete" ELSE "done"
  BY <1>0 DEF End, answerVars
<1>3. /\ handle[a] = "closed" => handle'[a] = "closed" \/ stage[a] \in First
      /\ stage[a] \in First => verdict[a] = "none"
  <2>1. First \cap Late = {}
    BY DEF First, Late
  <2> QED
    BY <1>0, <2>1 DEF ImportInv, WaterfallInv
<1>4. "over" \in Late /\ Late \cap (Stages \ (Working \cup {"over"})) = {} /\ "over" \notin Working
  BY StageShape DEF Late
<1>5. ASSUME NEW b \in Calls
      PROVE  /\ stage'[b] \in Stages \ (Working \cup {"over"}) => session'[b] = "none"
             /\ stage'[b] \in Working => session'[b] # "none"
             /\ verdict'[b] # "none" => stage'[b] \in Late
             /\ verdict'[b] = "none" => session'[b] # "deleted" /\ cleaning'[b] \in {"none", "done"}
             /\ verdict'[b] = "ok" => /\ session'[b] = "stored" /\ stage'[b] = "over"
                                     /\ cleaning'[b] \in {"close", "unlink", "done"}
  <2>1. /\ stage[b] \in Stages \ (Working \cup {"over"}) => session[b] = "none"
        /\ stage[b] \in Working => session[b] # "none"
        /\ verdict[b] # "none" => stage[b] \in Late
        /\ verdict[b] = "none" => session[b] # "deleted" /\ cleaning[b] \in {"none", "done"}
        /\ verdict[b] = "ok" => /\ session[b] = "stored" /\ stage[b] = "over"
                                /\ cleaning[b] \in {"close", "unlink", "done"}
    BY DEF ImportInv, WaterfallInv
  <2>2. CASE b # a
    BY <1>1, <2>1, <2>2
  <2>3. CASE b = a
    BY <1>1, <1>2, <1>4, <2>1, <2>3
  <2> QED
    BY <2>2, <2>3
<1>6. ASSUME NEW st \in inflight', st.stage = "locate" PROVE stage'[st.of] \in Late
  <2>1. st \in inflight /\ st.of \in Calls /\ stage[st.of] \in Late
    BY <1>6 DEF ImportInv, TypeOK, WaterfallInv, Statement
  <2> QED
    BY <1>1, <1>4, <2>1
<1>7. WaterfallInv'
  BY <1>5, <1>6 DEF WaterfallInv
<1>8. ASSUME NEW b \in Calls
      PROVE  /\ stage'[b] = "idle" => reply'[b] = "none"
             /\ reply'[b] = "lost" => /\ stage'[b] = "over" /\ cleaning'[b] = "done" /\ stops' > 0
                                      /\ \A st \in inflight' : st.of # b
             /\ reply'[b] = "ok" => /\ verdict'[b] = "ok" /\ cleaning'[b] = "done"
                                    /\ handle'[b] = "closed" /\ ~temp'
             /\ (reply'[b] = "err") <=> (verdict'[b] = "err")
             /\ cleaning'[b] = "unlink" => handle'[b] = "closed"
             /\ verdict'[b] = "err" /\ session'[b] = "stored" =>
                    cleaning'[b] = "delete" \/ faults' > 0 \/ stops' > 0
  <2>1. /\ stage[b] = "idle" => reply[b] = "none"
        /\ reply[b] = "lost" => /\ stage[b] = "over" /\ cleaning[b] = "done" /\ stops > 0
                                /\ \A st \in inflight : st.of # b
        /\ reply[b] = "ok" => /\ verdict[b] = "ok" /\ cleaning[b] = "done"
                              /\ handle[b] = "closed" /\ ~temp
        /\ (reply[b] = "err") <=> (verdict[b] = "err")
        /\ cleaning[b] = "unlink" => handle[b] = "closed"
        /\ verdict[b] = "err" /\ session[b] = "stored" =>
               cleaning[b] = "delete" \/ faults > 0 \/ stops > 0
    BY DEF ImportInv, ReplyInv, Quiet
  <2>2. CASE b # a
    BY <1>0, <1>1, <2>1, <2>2
  <2>3. CASE b = a /\ verdict[a] # "none"
    BY <1>0, <1>1, <1>2, <1>3, <2>1, <2>3 DEF Late
  <2>4. CASE b = a /\ verdict[a] = "none"
    BY <1>0, <1>1, <1>2, <2>1, <2>4 DEF Late
  <2> QED
    BY <2>2, <2>3, <2>4
<1>9. ASSUME NEW b \in Calls, NEW c \in Calls, c < b, stage'[b] # "idle" PROVE reply'[c] \in {"err", "lost"}
  <2>1. stage[b] # "idle" 
    BY <1>1, <1>9
  <2>2. reply[c] \in {"err", "lost"}
    BY <1>9, <2>1 DEF ImportInv, ReplyInv
  <2>3. reply'[c] = reply[c] \/ reply'[c] = "err"
    BY <1>1, <1>2
  <2> QED
    BY <2>2, <2>3
<1>10. ReplyInv'
  BY <1>8, <1>9 DEF ReplyInv, Quiet
<1> QED
  BY <1>1, <1>7, <1>10 DEF Kept, ImportInv, NothingOfADeletedSession

\* A stage that ends without an error.
LEMMA ProceedKept ==
    ASSUME ImportInv, NEW a \in Calls, stage[a] \in First \cup Working, Proceed(a),
           temp' = temp \/ (temp' \in BOOLEAN /\ stage[a] = "uncompress"),
           session' = IF stage[a] = "session" THEN [session EXCEPT ![a] = "stored"] ELSE session,
           handle' = handle \/ (handle' = [handle EXCEPT ![a] = "open"] /\ stage[a] \in First),
           UNCHANGED <<inflight, stored, faults, stops>>
    PROVE  Kept'
<1> DEFINE t == Follows(stage[a])
<1>0. /\ stage \in [Calls -> Stages] /\ verdict \in [Calls -> Verdicts] /\ reply \in [Calls -> Verdicts \cup {"lost"}]
      /\ cleaning \in [Calls -> {"none", "delete", "close", "unlink", "done"}]
      /\ handle \in [Calls -> {"none", "open", "closed"}]
      /\ session \in [Calls -> {"none", "stored", "deleted"}] /\ Calls \subseteq Nat
  BY DEF ImportInv, TypeOK, Calls
<1>1. /\ stage[a] \in First \ {"session"} => t \in First
      /\ stage[a] = "session" => t \in Working
      /\ stage[a] \in Working => t \in Working \cup {"over"}
      /\ stage[a] \in Late => t \in Late
  BY FollowsShape, StageShape DEF First, Late
<1>2. stage'[a] = t /\ \A b \in Calls : b # a => stage'[b] = stage[b]
  BY <1>0 DEF Proceed
<1>3. /\ \A b \in Calls : b # a => /\ verdict'[b] = verdict[b] /\ reply'[b] = reply[b]
                                   /\ cleaning'[b] = cleaning[b] /\ handle'[b] = handle[b]
                                   /\ session'[b] = session[b]
      /\ reply'[a] = reply[a]
      /\ stage[a] # "session" => session'[a] = session[a]
      /\ stage[a] = "session" => session'[a] = "stored"
  BY <1>0 DEF Proceed, End, answerVars
<1>4. /\ t # "over" \/ verdict[a] # "none" => verdict'[a] = verdict[a] /\ cleaning'[a] = cleaning[a]
      /\ t = "over" /\ verdict[a] = "none" => verdict'[a] = "ok" /\ cleaning'[a] = "close"
  BY <1>0 DEF Proceed, End, answerVars
<1>5. /\ verdict[a] = "none" => reply[a] = "none" /\ session[a] # "deleted"
      /\ verdict[a] # "none" => verdict[a] = "err" /\ reply[a] = "err" /\ stage[a] \in Late
      /\ stage[a] \in First => verdict[a] = "none" /\ session[a] = "none"
      /\ stage[a] \in Working /\ verdict[a] = "none" => session[a] = "stored"
      /\ reply[a] \in {"none", "err"} /\ stage[a] \notin {"idle", "over"}
  BY Unanswered
<1>6. /\ {"idle", "over"} \cap (First \cup Working) = {} /\ First \cap Working = {}
      /\ "session" \in First /\ "uncompress" \in First /\ Late \cap First = {}
      /\ Stages \ (Working \cup {"over"}) = {"idle"} \cup First
  BY StageShape DEF First, Late
<1> HIDE DEF t
<1>7. ASSUME NEW b \in Calls
      PROVE  /\ stage'[b] \in Stages \ (Working \cup {"over"}) => session'[b] = "none"
             /\ stage'[b] \in Working => session'[b] # "none"
             /\ verdict'[b] # "none" => stage'[b] \in Late
             /\ verdict'[b] = "none" => session'[b] # "deleted" /\ cleaning'[b] \in {"none", "done"}
             /\ verdict'[b] = "ok" => /\ session'[b] = "stored" /\ stage'[b] = "over"
                                     /\ cleaning'[b] \in {"close", "unlink", "done"}
  <2>1. /\ stage[b] \in Stages \ (Working \cup {"over"}) => session[b] = "none"
        /\ stage[b] \in Working => session[b] # "none"
        /\ verdict[b] # "none" => stage[b] \in Late
        /\ verdict[b] = "none" => session[b] # "deleted" /\ cleaning[b] \in {"none", "done"}
        /\ verdict[b] = "ok" => /\ session[b] = "stored" /\ stage[b] = "over"
                                /\ cleaning[b] \in {"close", "unlink", "done"}
    BY DEF ImportInv, WaterfallInv
  <2>2. CASE b # a
    BY <1>2, <1>3, <2>1, <2>2
  <2>3. CASE b = a /\ stage[a] \in First
    BY <1>1, <1>2, <1>3, <1>4, <1>5, <1>6, <2>1, <2>3
  <2>4. CASE b = a /\ stage[a] \in Working
    BY <1>1, <1>2, <1>3, <1>4, <1>5, <1>6, <2>1, <2>4 DEF Late
  <2> QED
    BY <2>2, <2>3, <2>4
<1>8. ASSUME NEW st \in inflight', st.stage = "locate" PROVE stage'[st.of] \in Late
  <2>1. st \in inflight /\ st.of \in Calls /\ stage[st.of] \in Late
    BY <1>8 DEF ImportInv, TypeOK, WaterfallInv, Statement
  <2> QED
    BY <1>1, <1>2, <2>1
<1>9. WaterfallInv'
  BY <1>7, <1>8 DEF WaterfallInv
<1>10. \A b \in Calls : reply[b] = "ok" => temp' = temp
  <2>1. SUFFICES ASSUME NEW b \in Calls, reply[b] = "ok", stage[a] = "uncompress" PROVE FALSE
    OBVIOUS
  <2>2. b # a /\ reply[a] = "none" /\ stage[a] # "idle"
    BY <1>5, <1>6, <2>1
  <2>3. stage[b] # "idle"
    BY <2>1 DEF ImportInv, ReplyInv
  <2>4. b < a \/ a < b
    BY <1>0, <2>2
  <2> QED
    BY <2>1, <2>2, <2>3, <2>4 DEF ImportInv, ReplyInv
<1>11. ASSUME NEW b \in Calls
      PROVE  /\ stage'[b] = "idle" => reply'[b] = "none"
             /\ reply'[b] = "lost" => /\ stage'[b] = "over" /\ cleaning'[b] = "done" /\ stops' > 0
                                      /\ \A st \in inflight' : st.of # b
             /\ reply'[b] = "ok" => /\ verdict'[b] = "ok" /\ cleaning'[b] = "done"
                                    /\ handle'[b] = "closed" /\ ~temp'
             /\ (reply'[b] = "err") <=> (verdict'[b] = "err")
             /\ cleaning'[b] = "unlink" => handle'[b] = "closed"
             /\ verdict'[b] = "err" /\ session'[b] = "stored" =>
                    cleaning'[b] = "delete" \/ faults' > 0 \/ stops' > 0
  <2>1. /\ stage[b] = "idle" => reply[b] = "none"
        /\ reply[b] = "lost" => /\ stage[b] = "over" /\ cleaning[b] = "done" /\ stops > 0
                                /\ \A st \in inflight : st.of # b
        /\ reply[b] = "ok" => /\ verdict[b] = "ok" /\ cleaning[b] = "done"
                              /\ handle[b] = "closed" /\ ~temp
        /\ (reply[b] = "err") <=> (verdict[b] = "err")
        /\ cleaning[b] = "unlink" => handle[b] = "closed"
        /\ verdict[b] = "err" /\ session[b] = "stored" =>
               cleaning[b] = "delete" \/ faults > 0 \/ stops > 0
    BY DEF ImportInv, ReplyInv, Quiet
  <2>2. CASE b # a
    BY <1>2, <1>3, <1>10, <2>1, <2>2
  <2>3. CASE b = a /\ stage[a] \in First
    <3>1. verdict[a] = "none" /\ t # "over" /\ t # "idle" /\ cleaning[a] \in {"none", "done"}
      BY <1>1, <1>5, <1>6, <2>3 DEF ImportInv, WaterfallInv
    <3> QED
      BY <1>2, <1>3, <1>4, <1>5, <2>1, <2>3, <3>1
  <2>4. CASE b = a /\ stage[a] \in Working
    <3>1. handle'[a] = handle[a] /\ stage[a] # "session" /\ t # "idle"
      BY <1>1, <1>6, <2>4
    <3> QED
      BY <1>2, <1>3, <1>4, <1>5, <2>1, <2>4, <3>1
  <2> QED
    BY <2>2, <2>3, <2>4
<1>12. ASSUME NEW b \in Calls, NEW c \in Calls, c < b, stage'[b] # "idle" PROVE reply'[c] \in {"err", "lost"}
  <2>1. stage[b] # "idle"
    BY <1>2, <1>5, <1>12
  <2> QED
    BY <1>3, <1>12, <2>1 DEF ImportInv, ReplyInv
<1>13. ReplyInv'
  BY <1>11, <1>12 DEF ReplyInv, Quiet
<1>14. NothingOfADeletedSession'
  BY <1>3 DEF ImportInv, NothingOfADeletedSession
<1> QED
  BY <1>9, <1>13, <1>14 DEF Kept

\* A stage that ends with an error, and what the action does besides.
LEMMA FailKept ==
    ASSUME ImportInv, NEW a \in Calls, stage[a] \in First \cup Working, Fail(a),
           UNCHANGED <<temp, session, inflight, stored, stops>>,
           handle' = handle \/ (handle' = [handle EXCEPT ![a] = "open"] /\ stage[a] \in First),
           UNCHANGED faults \/ (faults < MaxFaults /\ faults' = faults + 1)
    PROVE  Kept'
<1>1. stage[a] # "idle" /\ reply[a] \in {"none", "err"}
  BY Unanswered
<1>2. End(a, "err") /\ stage' = [stage EXCEPT ![a] = stage'[a]] /\ stage'[a] = "over"
  BY DEF Fail, ImportInv, TypeOK
<1>3. faults' \in Nat /\ faults' >= faults /\ inflight' \subseteq Statement
  BY DataAssumption DEF ImportInv, TypeOK
<1> QED
  BY <1>1, <1>2, <1>3, EndKept

\* An action that leaves the waterfalls and the answers where they are.
LEMMA StillKept ==
    ASSUME ImportInv, UNCHANGED <<stage, verdict, reply, cleaning, handle, temp, session, stops>>,
           faults' \in Nat, faults' >= faults,
           \A st \in inflight' : /\ st.of \in Calls /\ reply[st.of] = "lost" => \E o \in inflight : o.of = st.of
                                 /\ st.stage = "locate" => stage[st.of] \in Late,
           \A r \in stored' : session[r.of] = "deleted" => r.of \notin Calls \/ (\E o \in stored : o.of = r.of)
    PROVE  Kept'
<1>0. faults \in Nat
  BY DataAssumption DEF ImportInv, TypeOK
<1>1. WaterfallInv'
  BY DEF ImportInv, WaterfallInv
<1>2. ReplyInv'
  BY <1>0 DEF ImportInv, ReplyInv, Quiet
<1>3. NothingOfADeletedSession'
  BY DEF ImportInv, NothingOfADeletedSession
<1> QED
  BY <1>1, <1>2, <1>3 DEF Kept

LEMMA StepKept ==
    ASSUME ImportInv, NEW a \in Calls, Step(a)
    PROVE  Kept'
<1>0. /\ faults \in Nat /\ inflight \subseteq Statement /\ temp \in BOOLEAN
      /\ \A st \in inflight : st.of \in Calls /\ (st.stage = "locate" => stage[st.of] \in Late)
  BY DataAssumption DEF ImportInv, TypeOK, Statement, WaterfallInv
<1>1. CASE Uncompress(a)
  <2>1. stage[a] = "uncompress" /\ stage[a] \in First /\ UNCHANGED <<handle, session, inflight, stored, faults, stops>>
    BY <1>1 DEF Uncompress, First, dbVars
  <2>2. CASE Proceed(a) /\ temp' = TRUE
    BY <2>1, <2>2, ProceedKept
  <2>3. CASE Fail(a) /\ UNCHANGED temp
    BY <2>1, <2>3, FailKept
  <2> QED
    BY <1>1, <2>2, <2>3 DEF Uncompress
<1>2. CASE Open(a)
  <2>1. /\ stage[a] = "open" /\ stage[a] \in First /\ UNCHANGED <<temp, session, inflight, stored, faults, stops>>
        /\ handle' = [handle EXCEPT ![a] = "open"]
    BY <1>2 DEF Open, First, dbVars
  <2>2. CASE Proceed(a)
    BY <2>1, <2>2, ProceedKept
  <2>3. CASE Fail(a)
    BY <2>1, <2>3, FailKept
  <2> QED
    BY <1>2, <2>2, <2>3 DEF Open
<1>3. CASE ReadEvents(a)
  <2>1. stage[a] = "events" /\ stage[a] \in First /\ UNCHANGED <<handle, temp, session, inflight, stored, faults, stops>>
    BY <1>3 DEF ReadEvents, First, dbVars
  <2>2. CASE Proceed(a)
    BY <2>1, <2>2, ProceedKept
  <2>3. CASE Fail(a)
    BY <2>1, <2>3, FailKept
  <2> QED
    BY <1>3, <2>2, <2>3 DEF ReadEvents
<1>4. CASE InsertSession(a)
  <2>1. stage[a] = "session" /\ stage[a] \in First /\ UNCHANGED <<handle, temp, inflight, stored, stops>>
    BY <1>4 DEF InsertSession, First
  <2>2. CASE Proceed(a) /\ session' = [session EXCEPT ![a] = "stored"] /\ UNCHANGED faults
    BY <2>1, <2>2, ProceedKept
  <2>3. CASE Fail(a) /\ faults < MaxFaults /\ faults' = faults + 1 /\ UNCHANGED session
    BY <2>1, <2>3, FailKept
  <2> QED
    BY <1>4, <2>2, <2>3 DEF InsertSession
<1>5. CASE Touch(a)
  <2>1. stage[a] = "touch" /\ stage[a] \in Working /\ UNCHANGED <<handle, temp, session, inflight, stored, stops>>
    BY <1>5, StageShape DEF Touch, dbVars
  <2>2. CASE Proceed(a) /\ UNCHANGED faults
    BY <2>1, <2>2, ProceedKept
  <2>3. CASE Fail(a) /\ faults < MaxFaults /\ faults' = faults + 1
    BY <2>1, <2>3, FailKept
  <2> QED
    BY <1>5, <2>2, <2>3 DEF Touch
<1>6. CASE ReadRow(a)
  <2>1. stage[a] \in Working /\ reply[a] # "lost"
    BY <1>6, StageShape, Unanswered DEF ReadRow
  <2>2. UNCHANGED <<stage, verdict, reply, cleaning, handle, temp, session, stored, faults, stops>>
    BY <1>6 DEF ReadRow, answerVars, faultVars
  <2>3. ASSUME NEW st \in inflight', st \notin inflight
        PROVE  st.of = a /\ (st.stage = "locate" => stage[a] \in Late)
    <3>1. stage[a] # "locate"
      BY <1>6, StageShape DEF ReadRow
    <3> QED
      BY <1>6, <2>3, <3>1 DEF ReadRow, Late
  <2> QED
    BY <1>0, <2>1, <2>2, <2>3, StillKept
<1>7. CASE BreakRead(a)
  <2>1. UNCHANGED <<stage, verdict, reply, cleaning, handle, temp, session, inflight, stored, faults, stops>>
    BY <1>7 DEF BreakRead, answerVars, dbVars
  <2> QED
    BY <1>0, <2>1, StillKept
<1>8. CASE EndRead(a)
  <2>1. /\ stage[a] \in Working /\ stage[a] # "session"
        /\ UNCHANGED <<handle, temp, session, inflight, stored, faults, stops>>
    BY <1>8, StageShape DEF EndRead, dbVars, faultVars, First
  <2>2. CASE Proceed(a)
    BY <2>1, <2>2, ProceedKept
  <2>3. CASE Fail(a)
    BY <2>1, <2>3, FailKept
  <2> QED
    BY <1>8, <2>2, <2>3 DEF EndRead
<1>9. CASE InsertNext(a)
  <2>1. /\ stage[a] \in Buffered /\ stage[a] \in Working
        /\ UNCHANGED <<handle, temp, session, inflight, stops>>
    BY <1>9, StageShape DEF InsertNext
  <2>2. CASE Fail(a) /\ UNCHANGED stored /\ (UNCHANGED faults \/ (faults < MaxFaults /\ faults' = faults + 1))
    BY <2>1, <2>2, FailKept
  <2>3. CASE /\ stored' = stored \cup {[of |-> a, stage |-> stage[a], row |-> Head(buffer[a])]}
             /\ UNCHANGED <<stage, left, failed, answerVars, faults>>
    \* A buffered table is read before any lookup: its session is still there.
    <3>1. session[a] = "stored"
      <4>1. stage[a] \notin Late
        BY <2>1 DEF Buffered, Late
      <4> QED
        BY <2>1, <4>1, Unanswered
    <3> QED
      BY <1>0, <2>1, <2>3, <3>1, StillKept DEF answerVars
  <2> QED
    BY <1>9, <2>2, <2>3 DEF InsertNext
<1> QED
  BY <1>1, <1>2, <1>3, <1>4, <1>5, <1>6, <1>7, <1>8, <1>9 DEF Step

LEMMA RunKept ==
    ASSUME ImportInv, NEW st \in inflight, RunInsert(st) \/ RunLog(st) \/ RunLocate(st)
    PROVE  Kept'
<1>0. /\ faults \in Nat /\ inflight \subseteq Statement /\ st.of \in Calls
      /\ \A o \in inflight : o.of \in Calls /\ (o.stage = "locate" => stage[o.of] \in Late)
  BY DataAssumption DEF ImportInv, TypeOK, Statement, WaterfallInv
<1>1. CASE RunInsert(st)
  <2>1. /\ UNCHANGED <<stage, verdict, reply, cleaning, handle, temp, session, stops>>
        /\ inflight' \subseteq inflight /\ faults' \in Nat /\ faults' >= faults
    BY <1>0, <1>1 DEF RunInsert, answerVars
  <2>2. stored' = stored \/ (stored' = stored \cup {st} /\ session[st.of] = "stored")
    BY <1>1 DEF RunInsert, Accepted
  <2> QED
    BY <1>0, <2>1, <2>2, StillKept
<1>2. CASE RunLog(st)
  <2>1. /\ UNCHANGED <<stage, verdict, reply, cleaning, handle, temp, session, stops>>
        /\ inflight' \subseteq inflight /\ faults' \in Nat /\ faults' >= faults
    BY <1>0, <1>2 DEF RunLog, answerVars
  <2>2. ASSUME NEW r \in stored' PROVE \E o \in stored : o.of = r.of
    <3>1. CASE r \in stored
      BY <3>1
    <3>2. CASE r \notin stored
      <4>1. PICK c \in stored : r = [st EXCEPT !.of = c.of]
        BY <1>2, <2>2, <3>2 DEF RunLog
      <4>2. r.of = c.of
        BY <1>0, <4>1 DEF Statement
      <4> QED
        BY <4>2
    <3> QED
      BY <3>1, <3>2
  <2> QED
    BY <1>0, <2>1, <2>2, StillKept
<1>3. CASE RunLocate(st)
  <2>0. st = [of |-> st.of, stage |-> st.stage, row |-> st.row]
    BY <1>0 DEF Statement
  <2>1. UNCHANGED <<stage, handle, temp, session, stored, stops>> /\ stage[st.of] \in Late
    BY <1>0, <1>3 DEF RunLocate, waterfallVars
  <2>2. CASE /\ inflight' = (inflight \ {st}) \cup {[st EXCEPT !.stage = "connections"]}
             /\ UNCHANGED <<answerVars, faults>>
    <3> DEFINE new == [st EXCEPT !.stage = "connections"]
    <3>1. new.of = st.of /\ new.stage = "connections"
      BY <2>0
    <3> HIDE DEF new
    <3>2. \A o \in inflight' : o \in inflight \/ o = new
      BY <2>2 DEF new
    <3> QED
      BY <1>0, <2>1, <2>2, <3>1, <3>2, StillKept DEF answerVars
  <2>3. CASE End(st.of, "err") /\ inflight' = inflight \ {st} /\ faults' \in Nat /\ faults' >= faults
    <3>1. stage[st.of] # "idle"
      BY <2>1 DEF Late
    <3>2. CASE verdict[st.of] = "none"
      <4>1. reply[st.of] \notin {"lost", "ok"} /\ reply[st.of] \in Verdicts \cup {"lost"}
        BY <1>0, <3>2 DEF ImportInv, TypeOK, ReplyInv, Quiet
      <4>2. reply[st.of] \in {"none", "err"} /\ stage' = [stage EXCEPT ![st.of] = stage'[st.of]]
        BY <1>0, <2>1, <4>1 DEF Verdicts, ImportInv, TypeOK
      <4> QED
        BY <1>0, <2>1, <2>3, <3>1, <4>2, EndKept
    <3>3. CASE verdict[st.of] # "none"
      BY <1>0, <2>1, <2>3, <3>3, StillKept DEF End, answerVars
    <3> QED
      BY <3>2, <3>3
  <2> QED
    BY <1>0, <1>3, <2>2, <2>3 DEF RunLocate
<1> QED
  BY <1>1, <1>2, <1>3

LEMMA CleanupKept ==
    ASSUME ImportInv, NEW a \in Calls, Cleanup(a)
    PROVE  Kept'
<1>0. /\ stage \in [Calls -> Stages] /\ verdict \in [Calls -> Verdicts] /\ reply \in [Calls -> Verdicts \cup {"lost"}]
      /\ cleaning \in [Calls -> {"none", "delete", "close", "unlink", "done"}]
      /\ handle \in [Calls -> {"none", "open", "closed"}] /\ stored \subseteq Row
      /\ session \in [Calls -> {"none", "stored", "deleted"}] /\ faults \in Nat
  BY DataAssumption DEF ImportInv, TypeOK
<1>1. verdict[a] # "none" /\ stage[a] \in Late /\ reply[a] # "lost" /\ reply[a] # "ok"
  <2>1. cleaning[a] \in {"delete", "close", "unlink"}
    BY <1>0 DEF Cleanup, DeleteSession, CloseDb, Unlink
  <2> QED
    BY <2>1 DEF ImportInv, WaterfallInv, ReplyInv
<1>2. CASE DeleteSession(a)
  <2>1. UNCHANGED <<stage, verdict, reply, handle, temp, inflight, stops>>
    BY <1>2 DEF DeleteSession, waterfallVars
  <2>2. /\ cleaning[a] = "delete" /\ \A b \in Calls : b # a => cleaning'[b] = cleaning[b] /\ session'[b] = session[b]
        /\ verdict[a] = "err"
    BY <1>0, <1>1, <1>2 DEF DeleteSession, ImportInv, WaterfallInv, Verdicts
  <2>3. CASE /\ session' = [session EXCEPT ![a] = "deleted"] /\ stored' = {r \in stored : r.of # a}
             /\ cleaning' = [cleaning EXCEPT ![a] = "close"] /\ UNCHANGED faults
    <3>1. session'[a] = "deleted" /\ cleaning'[a] = "close"
      BY <1>0, <2>3
    <3>2. Late \cap (Stages \ (Working \cup {"over"})) = {}
      BY StageShape DEF Late
    <3>3. WaterfallInv'
      BY <1>1, <2>1, <2>2, <3>1, <3>2 DEF ImportInv, WaterfallInv
    <3>4. ReplyInv'
      BY <1>1, <2>1, <2>2, <2>3, <3>1 DEF ImportInv, ReplyInv, Quiet
    <3>5. NothingOfADeletedSession'
      BY <2>2, <2>3 DEF ImportInv, NothingOfADeletedSession
    <3> QED
      BY <3>3, <3>4, <3>5 DEF Kept
  <2>4. CASE /\ faults' = faults + 1 /\ cleaning' = [cleaning EXCEPT ![a] = "done"]
             /\ UNCHANGED <<session, stored>>
    <3>1. cleaning'[a] = "done" /\ faults' > 0
      BY <1>0, <2>4
    <3>2. WaterfallInv'
      BY <1>1, <2>1, <2>2, <2>4, <3>1 DEF ImportInv, WaterfallInv
    <3>3. ReplyInv'
      BY <1>1, <2>1, <2>2, <2>4, <3>1 DEF ImportInv, ReplyInv, Quiet
    <3> QED
      BY <2>4, <3>2, <3>3 DEF Kept, ImportInv, NothingOfADeletedSession
  <2> QED
    BY <1>2, <2>3, <2>4 DEF DeleteSession
<1>3. CASE CloseDb(a)
  <2>1. UNCHANGED <<stage, verdict, reply, temp, session, inflight, stored, faults, stops>>
    BY <1>3 DEF CloseDb, waterfallVars, dbVars, faultVars
  <2>2. /\ \A b \in Calls : b # a => cleaning'[b] = cleaning[b] /\ handle'[b] = handle[b]
        /\ cleaning[a] = "close" /\ cleaning'[a] = "unlink" /\ handle'[a] = "closed"
    BY <1>0, <1>3 DEF CloseDb
  <2>3. WaterfallInv'
    BY <1>1, <2>1, <2>2 DEF ImportInv, WaterfallInv
  <2>4. ReplyInv'
    BY <1>1, <2>1, <2>2 DEF ImportInv, ReplyInv, Quiet
  <2> QED
    BY <2>1, <2>3, <2>4 DEF Kept, ImportInv, NothingOfADeletedSession
<1>4. CASE Unlink(a)
  <2>1. UNCHANGED <<stage, verdict, handle, session, inflight, stored, faults, stops>> /\ temp' = FALSE
    BY <1>4 DEF Unlink, waterfallVars, dbVars, faultVars
  <2>2. /\ \A b \in Calls : b # a => cleaning'[b] = cleaning[b] /\ reply'[b] = reply[b]
        /\ cleaning[a] = "unlink" /\ cleaning'[a] = "done"
        /\ reply'[a] = IF reply[a] = "none" THEN verdict[a] ELSE reply[a]
    BY <1>0, <1>4 DEF Unlink
  <2>3. WaterfallInv'
    BY <1>1, <2>1, <2>2 DEF ImportInv, WaterfallInv
  <2>4. /\ (reply[a] = "err") <=> (verdict[a] = "err")
        /\ handle[a] = "closed" /\ stage[a] # "idle"
        /\ verdict[a] = "err" /\ session[a] = "stored" => faults > 0 \/ stops > 0
    BY <1>1, <2>2 DEF ImportInv, ReplyInv, Late
  <2>5. /\ (reply'[a] = "err") <=> (verdict[a] = "err")
        /\ reply'[a] # "lost" /\ (reply'[a] = "ok" => verdict[a] = "ok")
    BY <1>0, <1>1, <2>2, <2>4 DEF Verdicts
  <2>6. ASSUME NEW b \in Calls
        PROVE  /\ stage'[b] = "idle" => reply'[b] = "none"
               /\ reply'[b] = "lost" => /\ stage'[b] = "over" /\ cleaning'[b] = "done" /\ stops' > 0
                                        /\ \A st \in inflight' : st.of # b
               /\ reply'[b] = "ok" => /\ verdict'[b] = "ok" /\ cleaning'[b] = "done"
                                      /\ handle'[b] = "closed" /\ ~temp'
               /\ (reply'[b] = "err") <=> (verdict'[b] = "err")
               /\ cleaning'[b] = "unlink" => handle'[b] = "closed"
               /\ verdict'[b] = "err" /\ session'[b] = "stored" =>
                      cleaning'[b] = "delete" \/ faults' > 0 \/ stops' > 0
    <3>1. CASE b = a
      BY <2>1, <2>2, <2>4, <2>5, <3>1
    <3>2. CASE b # a
      BY <2>1, <2>2, <3>2 DEF ImportInv, ReplyInv, Quiet
    <3> QED
      BY <3>1, <3>2
  <2>7. \A b, c \in Calls : c < b /\ stage'[b] # "idle" => reply'[c] \in {"err", "lost"}
    BY <1>1, <2>1, <2>2 DEF ImportInv, ReplyInv
  <2>8. ReplyInv'
    BY <2>6, <2>7 DEF ReplyInv, Quiet
  <2> QED
    BY <2>1, <2>3, <2>8 DEF Kept, ImportInv, NothingOfADeletedSession
<1> QED
  BY <1>2, <1>3, <1>4 DEF Cleanup

LEMMA BeginKept ==
    ASSUME ImportInv, NEW a \in Calls, Begin(a)
    PROVE  Kept'
<1>0. stage \in [Calls -> Stages] /\ Calls \subseteq Nat
  BY DEF ImportInv, TypeOK, Calls
<1>1. /\ UNCHANGED <<verdict, reply, cleaning, handle, temp, session, inflight, stored, faults, stops>>
      /\ stage[a] = "idle" /\ stage'[a] = "uncompress" /\ \A b \in Calls : b # a => stage'[b] = stage[b]
  BY <1>0 DEF Begin, answerVars, dbVars, faultVars
<1>2. /\ "idle" \notin Late /\ "uncompress" \notin Working \cup {"over"}
      /\ "idle" \in Stages \ (Working \cup {"over"})
  BY StageShape DEF First, Late
<1>3. WaterfallInv'
  <2>1. session[a] = "none" /\ verdict[a] = "none"
    BY <1>1, <1>2 DEF ImportInv, WaterfallInv
  <2>2. \A st \in inflight : st.of \in Calls
    BY DEF ImportInv, TypeOK, Statement
  <2> QED
    BY <1>1, <1>2, <2>1, <2>2 DEF ImportInv, WaterfallInv
<1>4. ReplyInv'
  <2>1. reply[a] = "none"
    BY <1>1 DEF ImportInv, ReplyInv
  <2>2. ASSUME NEW c \in Calls, c < a PROVE reply[c] \in {"err", "lost"}
    <3>1. a > 1 /\ a - 1 \in Calls /\ reply[a - 1] \in {"err", "lost"}
      BY <1>0, <2>2, DataAssumption DEF Begin, Calls
    <3>2. stage[a - 1] # "idle"
      BY <3>1 DEF ImportInv, ReplyInv
    <3>3. c = a - 1 \/ c < a - 1
      BY <1>0, <2>2
    <3> QED
      BY <3>1, <3>2, <3>3 DEF ImportInv, ReplyInv
  <2>3. \A b, c \in Calls : c < b /\ stage'[b] # "idle" => reply'[c] \in {"err", "lost"}
    BY <1>1, <2>2 DEF ImportInv, ReplyInv
  <2>4. \A b \in Calls : stage'[b] = "idle" => stage[b] = "idle"
    BY <1>1
  <2>5. \A b \in Calls : reply[b] = "lost" => stage'[b] = "over"
    BY <1>1, <2>1 DEF ImportInv, ReplyInv
  <2> QED
    BY <1>1, <2>3, <2>4, <2>5 DEF ImportInv, ReplyInv, Quiet
<1> QED
  BY <1>1, <1>3, <1>4 DEF Kept, ImportInv, NothingOfADeletedSession

LEMMA StopKept ==
    ASSUME ImportInv, Stop
    PROVE  Kept'
<1>0. /\ stage \in [Calls -> Stages] /\ verdict \in [Calls -> Verdicts] /\ reply \in [Calls -> Verdicts \cup {"lost"}]
      /\ stops \in Nat
  BY DataAssumption DEF ImportInv, TypeOK
<1>1. /\ UNCHANGED <<verdict, temp, session, stored, faults>> /\ inflight' = {} /\ stops' > 0
      /\ \A b \in Calls :
             /\ stage'[b] = IF stage[b] = "idle" THEN "idle" ELSE "over"
             /\ cleaning'[b] = IF stage[b] = "idle" THEN "none" ELSE "done"
             /\ reply'[b] = IF stage[b] # "idle" /\ reply[b] = "none" THEN "lost" ELSE reply[b]
             /\ handle'[b] = IF handle[b] = "open" THEN "closed" ELSE handle[b]
  BY <1>0 DEF Stop
<1>2. /\ "idle" \notin Late /\ "over" \in Late /\ "over" \notin Working
      /\ "idle" \in Stages \ (Working \cup {"over"}) /\ "idle" \notin Working
  BY StageShape DEF First, Late
<1>3. WaterfallInv'
  BY <1>1, <1>2 DEF ImportInv, WaterfallInv
<1>4. ReplyInv'
  BY <1>0, <1>1 DEF ImportInv, ReplyInv, Quiet
<1> QED
  BY <1>1, <1>3, <1>4 DEF Kept, ImportInv, NothingOfADeletedSession

\* Only a stage that begins sets how many rows are left to be read.
LEMMA LeftStep == ImportInv /\ [Next]_vars => LeftInv'
<1> SUFFICES ASSUME ImportInv, [Next]_vars PROVE LeftInv'
  OBVIOUS
<1>0. /\ stage \in [Calls -> Stages] /\ left \in [Calls -> Nat] /\ LeftInv
      /\ \A s \in RowStages : RowsOf[s] \in Nat
      /\ "uncompress" \notin RowStages /\ "over" \notin RowStages
  BY DataAssumption, StageShape DEF ImportInv, TypeOK, First
<1>1. ASSUME NEW a \in Calls, Proceed(a) PROVE LeftInv'
  BY <1>0, <1>1 DEF Proceed, LeftInv
<1>2. ASSUME NEW a \in Calls, Fail(a) PROVE LeftInv'
  BY <1>0, <1>2 DEF Fail, LeftInv
<1>3. ASSUME UNCHANGED <<stage, left>> PROVE LeftInv'
  BY <1>0, <1>3 DEF LeftInv
<1>4. ASSUME NEW a \in Calls, Step(a) PROVE LeftInv'
  <2>1. CASE Uncompress(a) \/ Open(a) \/ ReadEvents(a) \/ InsertSession(a) \/ Touch(a) \/ EndRead(a)
    BY <1>1, <1>2, <2>1 DEF Uncompress, Open, ReadEvents, InsertSession, Touch, EndRead
  <2>2. CASE ReadRow(a)
    <3>1. stage' = stage /\ left' = [left EXCEPT ![a] = @ - 1] /\ left[a] > 0
      BY <2>2 DEF ReadRow
    <3> QED
      BY <1>0, <3>1 DEF LeftInv
  <2>3. CASE BreakRead(a)
    <3>1. stage' = stage /\ left' = [left EXCEPT ![a] = 0]
      BY <2>3 DEF BreakRead
    <3> QED
      BY <1>0, <3>1 DEF LeftInv
  <2>4. CASE InsertNext(a)
    BY <1>2, <1>3, <2>4 DEF InsertNext
  <2> QED
    BY <1>4, <2>1, <2>2, <2>3, <2>4 DEF Step
<1>5. ASSUME NEW a \in Calls, Begin(a) PROVE LeftInv'
  BY <1>0, <1>5 DEF Begin, LeftInv
<1>6. ASSUME NEW a \in Calls, Cleanup(a) PROVE LeftInv'
  BY <1>3, <1>6 DEF Cleanup, DeleteSession, CloseDb, Unlink, waterfallVars
<1>7. ASSUME Run PROVE LeftInv'
  BY <1>3, <1>7 DEF Run, RunInsert, RunLog, RunLocate, waterfallVars
<1>8. ASSUME Stop PROVE LeftInv'
  BY <1>0, <1>8 DEF Stop, LeftInv
<1>9. ASSUME UNCHANGED vars PROVE LeftInv'
  BY <1>3, <1>9 DEF vars, waterfallVars
<1> QED
  BY <1>4, <1>5, <1>6, <1>7, <1>8, <1>9 DEF Next

LEMMA InitInv == Init => ImportInv
<1> SUFFICES ASSUME Init PROVE ImportInv
  OBVIOUS
<1>0. /\ "idle" \notin Late /\ "idle" \notin Working /\ "idle" \notin RowStages /\ "idle" \in Stages
      /\ MaxFaults \in Nat /\ MaxReadErrors \in Nat /\ MaxStops \in Nat
  BY DataAssumption, StageShape DEF Late
<1>1. TypeOK
  <2>1. <<>> \in Seq(Nat \ {0})
    OBVIOUS
  <2>2. buffer \in [Calls -> Seq(Nat \ {0})]
    BY <2>1 DEF Init
  <2>3. /\ stage \in [Calls -> Stages] /\ left \in [Calls -> Nat] /\ failed \in [Calls -> BOOLEAN]
        /\ verdict \in [Calls -> Verdicts] /\ reply \in [Calls -> Verdicts \cup {"lost"}]
        /\ cleaning \in [Calls -> {"none", "delete", "close", "unlink", "done"}]
        /\ handle \in [Calls -> {"none", "open", "closed"}]
        /\ session \in [Calls -> {"none", "stored", "deleted"}]
    BY <1>0 DEF Init, Verdicts
  <2>4. /\ temp \in BOOLEAN /\ inflight \subseteq Statement /\ stored \subseteq Row /\ refused \subseteq Calls
    BY DEF Init
  <2>5. faults \in 0..MaxFaults /\ readErrors \in 0..MaxReadErrors /\ stops \in 0..MaxStops
    BY <1>0 DEF Init
  <2> QED
    BY <2>2, <2>3, <2>4, <2>5 DEF TypeOK
<1>2. LeftInv /\ WaterfallInv /\ ReplyInv /\ NothingOfADeletedSession
  BY <1>0 DEF Init, LeftInv, WaterfallInv, ReplyInv, NothingOfADeletedSession
<1> QED
  BY <1>1, <1>2 DEF ImportInv

LEMMA NextInv == ImportInv /\ [Next]_vars => ImportInv'
<1> SUFFICES ASSUME ImportInv, [Next]_vars PROVE ImportInv'
  OBVIOUS
<1>1. TypeOK' /\ LeftInv'
  BY TypeStep, LeftStep DEF ImportInv
<1>2. Kept'
  <2>1. ASSUME UNCHANGED vars PROVE Kept'
    BY <2>1 DEF vars, waterfallVars, answerVars, dbVars, faultVars, ImportInv, Kept, WaterfallInv,
                ReplyInv, Quiet, NothingOfADeletedSession
  <2> QED
    BY <2>1, BeginKept, StepKept, CleanupKept, RunKept, StopKept DEF Next, Run
<1> QED
  BY <1>1, <1>2 DEF ImportInv, Kept

-----------------------------------------------------------------------------
(* The rows of a call.                                                     *)

\* No stage stands twice in the order.
LEMMA OrderInjective ==
    \A i, j \in 1..(N + 11) : Order[i] = Order[j] => i = j
<1>1. SUFFICES ASSUME NEW i \in 1..(N + 11), NEW j \in 1..(N + 11), Order[i] = Order[j]
               PROVE  i = j
  OBVIOUS
<1> DEFINE Single == {1, 2, 3, 4, N + 5, N + 6, N + 7, N + 8, N + 9, N + 10, N + 11}
<1>2. \A k \in 1..(N + 11) : k \in Single \/ k - 4 \in 1..N
  BY OrderShape
<1>3. \A k \in Single : Order[k] \in First \cup Last \cup {"over"}
  BY OrderShape DEF First, Last
<1>4. \A k \in 1..(N + 11) : k - 4 \in 1..N => Order[k] = Stats[k - 4] /\ Order[k] \in Copied
  <2>1. SUFFICES ASSUME NEW k \in 1..(N + 11), k - 4 \in 1..N
                 PROVE  Order[k] = Stats[k - 4] /\ Order[k] \in Copied
    OBVIOUS
  <2>2. Order[4 + (k - 4)] = Stats[k - 4] /\ 4 + (k - 4) = k
    BY <2>1, OrderShape
  <2> QED
    BY <2>1, <2>2, CopiedShape
<1>5. CASE i \in Single /\ j \in Single
  BY <1>1, <1>5, OrderShape, SMTT(30)
<1>6. CASE i - 4 \in 1..N /\ j - 4 \in 1..N
  <2>1. Stats[i - 4] = Stats[j - 4] /\ i - 4 \in DOMAIN Stats /\ j - 4 \in DOMAIN Stats
    BY <1>1, <1>4, <1>6, StatsAssumption DEF N
  <2> QED
    BY <2>1, StatsAssumption
<1> QED
  BY <1>1, <1>2, <1>3, <1>4, <1>5, <1>6, CopiedShape

\* Where a stage stands, and that the next one stands behind it.
LEMMA PlaceShape ==
    /\ \A s \in Stages \ {"idle"} : Place(s) \in 1..(N + 11) /\ Order[Place(s)] = s
    /\ \A s, t \in Stages \ {"idle"} : Place(s) = Place(t) => s = t
    /\ \A s \in First \cup Working : Place(Follows(s)) = Place(s) + 1
    /\ Place("uncompress") = 1 /\ Place("over") = N + 11
    /\ Place("surveys") < Place("tags")
    /\ \A s \in RowStages : Place(s) < Place("over")
<1>1. \A i \in 1..(N + 11) : Place(Order[i]) = i
  <2>1. SUFFICES ASSUME NEW i \in 1..(N + 11) PROVE Place(Order[i]) = i
    OBVIOUS
  <2>2. \E j \in DOMAIN Order : Order[j] = Order[i]
    BY OrderShape
  <2>3. Place(Order[i]) \in 1..(N + 11) /\ Order[Place(Order[i])] = Order[i]
    BY <2>2, OrderShape DEF Place
  <2> QED
    BY <2>3, OrderInjective
<1>2. ASSUME NEW s \in Stages \ {"idle"}
      PROVE  Place(s) \in 1..(N + 11) /\ Order[Place(s)] = s
  <2>1. PICK i \in 1..(N + 11) : s = Order[i]
    BY OrderShape DEF Stages
  <2> QED
    BY <1>1, <2>1
<1>3. 1 \in 1..(N + 11) /\ N + 11 \in 1..(N + 11) /\ N + 5 \in 1..(N + 11) /\ N + 6 \in 1..(N + 11)
  BY OrderShape
<1>4. Place("uncompress") = 1 /\ Place("over") = N + 11 /\ Place("surveys") = N + 5 /\ Place("tags") = N + 6
  BY <1>1, <1>3, OrderShape
<1>5. ASSUME NEW s \in First \cup Working
      PROVE  Place(Follows(s)) = Place(s) + 1 /\ Place(s) < N + 11
  <2>1. s \in Stages \ {"idle"} /\ s # "over"
    BY StageShape
  <2>2. Place(s) \in 1..(N + 11) /\ Place(s) # N + 11
    BY <1>2, <2>1, OrderShape
  <2>3. 1 + Place(s) \in 1..(N + 11) /\ Place(s) < N + 11
    BY <2>2, OrderShape
  <2>4. Follows(s) = Order[1 + Place(s)]
    BY DEF Follows, Place
  <2> QED
    BY <1>1, <2>2, <2>3, <2>4, OrderShape
<1>6. \A s \in RowStages : s \in First \cup Working
  BY StageShape
<1> QED
  BY <1>2, <1>4, <1>5, <1>6, OrderShape

\* What is known of a row: where it is.
LEMMA KnownShape ==
    ASSUME NEW a, NEW s, NEW n
    PROVE  n \in Known(a, s) <=> \/ \E r \in stored : r.of = a /\ r.stage = s /\ r.row = n
                                 \/ \E st \in Flying(a, s) : st.row = n
                                 \/ n \in Waiting(a, s)
  BY DEF Known, Has

\* A call and a stage that a step leaves alone stay accounted for.
LEMMA AccountKept ==
    ASSUME NEW b \in Calls, NEW s \in RowStages, Account(b, s),
           Going(b)' => Going(b), Sure(s)' => Sure(s), readErrors > 0 => readErrors' > 0,
           stage'[b] = stage[b],
           stage[b] = s => left'[b] = left[b] /\ buffer'[b] = buffer[b] /\ failed'[b] = failed[b],
           Has(b, s)' = Has(b, s), Flying(b, s)' = Flying(b, s)
    PROVE  Account(b, s)'
<1>1. Read(b, s)' = Read(b, s) /\ Waiting(b, s)' = Waiting(b, s)
  BY DEF Read, Waiting
<1>2. Known(b, s)' = Known(b, s)
  BY <1>1 DEF Known
<1>3. Wanted(s)' = Wanted(s)
  BY DEF Wanted
<1> QED
  BY <1>1, <1>2, <1>3 DEF Account

\* Nothing becomes certain again.
LEMMA SureBack ==
    ASSUME TypeOK, [Next]_vars
    PROVE  /\ faults \in Nat /\ readErrors \in Nat /\ stops \in Nat
           /\ faults' >= faults /\ readErrors' >= readErrors /\ stops' >= stops
           /\ faults' \in Nat /\ readErrors' \in Nat /\ stops' \in Nat
           /\ readErrors > 0 => readErrors' > 0
           /\ \A s \in RowStages : Sure(s)' => Sure(s)
<1>1. faults \in Nat /\ readErrors \in Nat /\ stops \in Nat
  BY DataAssumption DEF TypeOK
<1>2. /\ faults' = faults \/ faults' = faults + 1
      /\ readErrors' = readErrors \/ readErrors' = readErrors + 1
      /\ stops' = stops \/ stops' = stops + 1
  BY DEF Next, Begin, Step, Cleanup, Run, Stop, Uncompress, Open, ReadEvents, InsertSession, Touch,
         ReadRow, BreakRead, EndRead, InsertNext, DeleteSession, CloseDb, Unlink, RunInsert, RunLog,
         RunLocate, ReadError, vars, faultVars, dbVars
<1>3. /\ faults' >= faults /\ readErrors' >= readErrors /\ stops' >= stops
      /\ faults' \in Nat /\ readErrors' \in Nat /\ stops' \in Nat
      /\ readErrors > 0 => readErrors' > 0
  BY <1>1, <1>2
<1>4. ASSUME NEW s \in RowStages, Sure(s)' PROVE Sure(s)
  <2>1. readErrors' = 0 => readErrors = 0
    BY <1>1, <1>3
  <2>2. faults' + readErrors' + stops' = 0 => faults + readErrors + stops = 0
    <3>1. \A i, j, k \in Nat : i + j + k = 0 <=> i = 0 /\ j = 0 /\ k = 0
      OBVIOUS
    <3>2. faults' + readErrors' + stops' = 0 <=> faults' = 0 /\ readErrors' = 0 /\ stops' = 0
      BY <1>3, <3>1
    <3>3. faults + readErrors + stops = 0 <=> faults = 0 /\ readErrors = 0 /\ stops = 0
      BY <1>1, <3>1
    <3>4. (faults' = 0 => faults = 0) /\ (readErrors' = 0 => readErrors = 0) /\ (stops' = 0 => stops = 0)
      BY <1>1, <1>2
    <3> QED
      BY <3>2, <3>3, <3>4
  <2> QED
    BY <1>4, <2>1, <2>2 DEF Sure
<1> QED
  BY <1>1, <1>3, <1>4

\* The callback of a stage that fails ends the account of its call.
LEMMA FailRows ==
    ASSUME ImportInv, AccountsInv, [Next]_vars, NEW a \in Calls, stage[a] \in First \cup Working,
           Fail(a), UNCHANGED <<inflight, stored>>
    PROVE  AccountsInv'
<1>0. /\ stage \in [Calls -> Stages] /\ verdict \in [Calls -> Verdicts] /\ TypeOK
  BY DEF ImportInv, TypeOK
<1>1. ~Going(a)'
  <2>1. stage'[a] = "over"
    BY <1>0 DEF Fail
  <2>2. verdict'[a] = "err"
    BY <1>0, Unanswered DEF Fail, End, answerVars
  <2> QED
    BY <2>1, <2>2 DEF Going
<1>2. ASSUME NEW b \in Calls, NEW s \in RowStages \ {"logs"} PROVE Account(b, s)'
  <2>1. CASE b = a
    BY <1>1, <2>1 DEF Account
  <2>2. CASE b # a
    <3>1. stage'[b] = stage[b] /\ verdict'[b] = verdict[b]
      BY <1>0, <2>2 DEF Fail, End, answerVars
    <3>2. left'[b] = left[b] /\ buffer'[b] = buffer[b] /\ failed'[b] = failed[b]
      BY DEF Fail
    <3>3. Going(b)' => Going(b)
      BY <3>1 DEF Going
    <3>4. Has(b, s)' = Has(b, s) /\ Flying(b, s)' = Flying(b, s)
      BY DEF Has, Flying
    <3>5. Account(b, s)
      BY DEF AccountsInv
    <3> QED
      BY <1>0, <3>1, <3>2, <3>3, <3>4, <3>5, AccountKept, SureBack
  <2> QED
    BY <2>1, <2>2
<1> QED
  BY <1>2 DEF AccountsInv

\* What a call has read does not change when it goes on to the next stage.
LEMMA ProceedRead ==
    ASSUME ImportInv, NEW a \in Calls, stage[a] \in First \cup Working, Proceed(a),
           stage[a] \in RowStages => left[a] = 0 /\ buffer[a] = <<>>,
           NEW s \in RowStages
    PROVE  Read(a, s)' = Read(a, s) /\ Waiting(a, s)' = Waiting(a, s)
<1> DEFINE t == stage[a]
           u == Follows(t)
<1>1. /\ stage'[a] = u /\ left'[a] = IF u \in RowStages THEN RowsOf[u] ELSE 0
      /\ buffer'[a] = <<>>
  BY DEF Proceed, ImportInv, TypeOK
<1>2. /\ t \in Stages \ {"idle"} /\ u \in Stages \ {"idle"} /\ s \in Stages \ {"idle"}
      /\ Place(u) = Place(t) + 1
  <2>1. u \in First \cup Working \cup {"over"}
    BY FollowsShape, StageShape DEF First
  <2> QED
    BY <2>1, StageShape, PlaceShape
<1>3. /\ Place(t) \in Nat /\ Place(u) \in Nat /\ Place(s) \in Nat
      /\ (Place(s) = Place(t) => s = t) /\ (Place(s) = Place(u) => s = u)
  BY <1>2, PlaceShape, OrderShape
<1>4. RowsOf[s] \in Nat
  BY DataAssumption
<1> HIDE DEF t, u
<1>5. Waiting(a, s) = {} /\ Waiting(a, s)' = {}
  BY <1>1 DEF Waiting, t
<1>6. CASE s = t
  <2>1. s # u /\ Place(s) < Place(u)
    BY <1>2, <1>3, <1>6
  <2>2. Read(a, s) = 1..RowsOf[s]
    BY <1>4, <1>6 DEF Read, t
  <2>3. Read(a, s)' = 1..RowsOf[s]
    BY <1>1, <1>2, <2>1 DEF Read
  <2> QED
    BY <1>5, <2>2, <2>3
<1>7. CASE s = u
  <2>1. s # t /\ ~(Place(s) < Place(t))
    BY <1>2, <1>3, <1>7
  <2>2. Read(a, s) = {}
    BY <2>1 DEF Read, t
  <2>3. Read(a, s)' = 1..(RowsOf[s] - RowsOf[s])
    BY <1>1, <1>7 DEF Read
  <2>4. 1..(RowsOf[s] - RowsOf[s]) = {}
    BY <1>4
  <2> QED
    BY <1>5, <2>2, <2>3, <2>4
<1>8. CASE s # t /\ s # u
  <2>1. Place(s) < Place(t) <=> Place(s) < Place(u)
    BY <1>2, <1>3, <1>8
  <2> QED
    BY <1>1, <1>2, <1>5, <1>8, <2>1 DEF Read, t
<1> QED
  BY <1>6, <1>7, <1>8

LEMMA ProceedRows ==
    ASSUME ImportInv, AccountsInv, [Next]_vars, NEW a \in Calls, stage[a] \in First \cup Working,
           Proceed(a), UNCHANGED <<inflight, stored>>,
           stage[a] \in RowStages => left[a] = 0 /\ buffer[a] = <<>>,
           ~(failed[a] /\ stage[a] = "activities")
    PROVE  AccountsInv'
<1>0. /\ stage \in [Calls -> Stages] /\ verdict \in [Calls -> Verdicts] /\ TypeOK
      /\ left \in [Calls -> Nat] /\ failed \in [Calls -> BOOLEAN]
  BY DEF ImportInv, TypeOK
<1>1. Going(a)' => Going(a)
  <2>1. stage[a] # "over"
    BY StageShape
  <2>2. verdict'[a] # "err" => verdict[a] # "err"
    BY <1>0 DEF Proceed, End, answerVars
  <2> QED
    BY <2>1, <2>2 DEF Going
<1>2. ASSUME NEW b \in Calls, NEW s \in RowStages \ {"logs"} PROVE Account(b, s)'
  <2>0. /\ Has(b, s)' = Has(b, s) /\ Flying(b, s)' = Flying(b, s) /\ Account(b, s)
        /\ Wanted(s)' = Wanted(s)
    BY DEF Has, Flying, AccountsInv, Wanted
  <2>1. CASE b = a
    <3>1. Read(a, s)' = Read(a, s) /\ Waiting(a, s)' = Waiting(a, s)
      BY ProceedRead
    <3>2. Known(a, s)' = Known(a, s)
      BY <2>0, <2>1, <3>1 DEF Known
    <3>3. ~failed'[a]
      BY <1>0 DEF Proceed
    <3>4. Sure(s)' => Sure(s)
      BY <1>0, SureBack
    <3> QED
      BY <1>1, <2>0, <2>1, <3>1, <3>2, <3>3, <3>4 DEF Account
  <2>2. CASE b # a
    <3>1. stage'[b] = stage[b] /\ verdict'[b] = verdict[b]
      BY <1>0, <2>2 DEF Proceed, End, answerVars
    <3>2. left'[b] = left[b] /\ buffer'[b] = buffer[b] /\ failed'[b] = failed[b]
      BY <1>0, <2>2 DEF Proceed, TypeOK
    <3>3. Going(b)' => Going(b)
      BY <3>1 DEF Going
    <3> QED
      BY <1>0, <2>0, <3>1, <3>2, <3>3, AccountKept, SureBack
  <2> QED
    BY <2>1, <2>2
<1> QED
  BY <1>2 DEF AccountsInv

LEMMA BeginRows ==
    ASSUME ImportInv, AccountsInv, [Next]_vars, NEW a \in Calls, Begin(a)
    PROVE  AccountsInv'
<1>0. /\ stage \in [Calls -> Stages] /\ TypeOK /\ stage[a] = "idle" /\ stage'[a] = "uncompress"
      /\ UNCHANGED <<left, buffer, failed, verdict, inflight, stored>>
      /\ \A b \in Calls : b # a => stage'[b] = stage[b]
  BY DEF ImportInv, TypeOK, Begin, answerVars, dbVars
<1>1. ASSUME NEW b \in Calls, NEW s \in RowStages \ {"logs"} PROVE Account(b, s)'
  <2>0. /\ Has(b, s)' = Has(b, s) /\ Flying(b, s)' = Flying(b, s) /\ Account(b, s)
        /\ Wanted(s)' = Wanted(s) /\ (Sure(s)' => Sure(s))
    BY <1>0, SureBack DEF Has, Flying, AccountsInv, Wanted
  <2>1. CASE b = a
    <3>1. s # "idle" /\ s # "uncompress" /\ s \in Stages \ {"idle"}
      BY StageShape DEF First
    <3>2. Place(s) >= 1 /\ Place("uncompress") = 1 /\ Place(s) \in Nat
      BY <3>1, PlaceShape, OrderShape
    <3>3. Read(a, s) = {} /\ Read(a, s)' = {} /\ Waiting(a, s) = {} /\ Waiting(a, s)' = {}
      BY <1>0, <3>1, <3>2 DEF Read, Waiting
    <3>4. Known(a, s)' = Known(a, s)
      BY <2>0, <2>1, <3>3 DEF Known
    <3>5. Going(a)' => Going(a)
      BY <1>0 DEF Going
    <3> QED
      BY <1>0, <2>0, <2>1, <3>1, <3>3, <3>4, <3>5 DEF Account
  <2>2. CASE b # a
    <3>1. Going(b)' => Going(b)
      BY <1>0, <2>2 DEF Going
    <3> QED
      BY <1>0, <2>0, <2>2, <3>1, AccountKept, SureBack
  <2> QED
    BY <2>1, <2>2
<1> QED
  BY <1>1 DEF AccountsInv

\* A tag is read when all surveys of the call are stored.
LEMMA SurveysAreThere ==
    ASSUME ImportInv, RowsInv, NEW a \in Calls, stage[a] = "tags", Going(a), Sure("tags"),
           NEW n \in 1..RowsOf["tags"]
    PROVE  Surveyed(a, n) <=> SurveyOf[n] # 0
<1>0. SurveyOf[n] \in 0..RowsOf["surveys"] /\ RowsOf["surveys"] \in Nat
  BY DataAssumption, StageShape DEF Buffered
<1>1. Surveyed(a, n) => SurveyOf[n] # 0
  <2>1. \A r \in stored : r.row # 0
    BY DEF ImportInv, TypeOK, Row
  <2> QED
    BY <2>1 DEF Surveyed
<1>2. ASSUME SurveyOf[n] # 0 PROVE Surveyed(a, n)
  <2>1. "surveys" \in RowStages \ {"logs"} /\ "tags" \in RowStages
    BY StageShape DEF Buffered
  <2>2. readErrors \in Nat /\ faults \in Nat /\ stops \in Nat
    BY DataAssumption DEF ImportInv, TypeOK
  <2>3. Sure("surveys")
    BY <2>2 DEF Sure
  <2>4. Known(a, "surveys") = Read(a, "surveys") \cap Wanted("surveys")
    BY <2>1, <2>3 DEF RowsInv, AccountsInv, Account
  <2>5. Read(a, "surveys") = 1..RowsOf["surveys"]
    BY PlaceShape DEF Read
  <2>6. SurveyOf[n] \in Wanted("surveys")
    BY <1>0, <1>2 DEF Wanted
  <2>7. SurveyOf[n] \in Known(a, "surveys")
    BY <1>0, <1>2, <2>4, <2>5, <2>6
  <2>8. Waiting(a, "surveys") = {} /\ Flying(a, "surveys") = {}
    BY DEF Waiting, Flying, RowsInv, FlightInv, Buffered
  <2>9. PICK r \in stored : r.of = a /\ r.stage = "surveys" /\ r.row = SurveyOf[n]
    BY <2>7, <2>8, KnownShape
  <2>10. r = [of |-> a, stage |-> "surveys", row |-> SurveyOf[n]]
    BY <2>9 DEF ImportInv, TypeOK, Row
  <2> QED
    BY <2>9, <2>10 DEF Surveyed
<1> QED
  BY <1>1, <1>2

\* A row that is read is buffered or sent, or is none to be inserted.
LEMMA ReadRowRows ==
    ASSUME ImportInv, RowsInv, [Next]_vars, NEW a \in Calls, ReadRow(a)
    PROVE  AccountsInv'
<1>a. PICK t \in RowStages : t = stage[a]
  BY DEF ReadRow
<1>0. /\ TypeOK /\ left \in [Calls -> Nat] /\ buffer \in [Calls -> Seq(Nat \ {0})]
      /\ failed \in [Calls -> BOOLEAN] /\ t \in RowStages /\ left[a] > 0 /\ RowsOf[t] \in Nat
      /\ left[a] <= RowsOf[t]
  BY <1>a, DataAssumption DEF ReadRow, ImportInv, TypeOK, LeftInv
<1>b. PICK n \in 1..RowsOf[t] : n = Reading(a) /\ n = RowsOf[t] - left[a] + 1
  BY <1>a, <1>0 DEF Reading
<1> DEFINE q == IF t = "connections" /\ n \in Located THEN "locate" ELSE t
           st == [of |-> a, stage |-> q, row |-> n]
<1>1. /\ UNCHANGED <<stage, failed, verdict, stored>>
      /\ left' = [left EXCEPT ![a] = @ - 1]
      /\ \/ (failed[a] \/ (t = "tags" /\ ~Surveyed(a, n))) /\ UNCHANGED <<buffer, inflight>>
         \/ /\ ~failed[a] /\ t \in Buffered /\ UNCHANGED inflight
            /\ buffer' = [buffer EXCEPT ![a] = Append(@, n)]
         \/ /\ ~failed[a] /\ ~(t = "tags" /\ ~Surveyed(a, n)) /\ UNCHANGED buffer
            /\ t \notin Buffered /\ inflight' = inflight \cup {st}
  BY <1>a, <1>b DEF ReadRow, answerVars
<1>2. n \in 1..RowsOf[t] /\ n = RowsOf[t] - left[a] + 1
  BY <1>b
<1>3. /\ left'[a] = left[a] - 1 /\ stage'[a] = t /\ stage[a] = t
      /\ \A b \in Calls : b # a => left'[b] = left[b] /\ buffer'[b] = buffer[b]
  BY <1>a, <1>0, <1>1
<1>4. Going(a)' = Going(a) /\ \A b \in Calls : Going(b)' = Going(b)
  BY <1>1 DEF Going
<1>5. ASSUME NEW b \in Calls, NEW s \in RowStages \ {"logs"}, b # a \/ s # t
      PROVE  Account(b, s)'
  <2>1. Has(b, s)' = Has(b, s) /\ Account(b, s)
    BY <1>1 DEF Has, RowsInv, AccountsInv
  <2>2. ~(st.of = b /\ (st.stage = s \/ (s = "connections" /\ st.stage = "locate" /\ LocationKnown)))
    BY <1>5, StageShape
  <2>3. Flying(b, s)' = Flying(b, s)
    <3>1. inflight' = inflight \/ inflight' = inflight \cup {st}
      BY <1>1
    <3> HIDE DEF st
    <3> QED
      BY <2>2, <3>1 DEF Flying
  <2>4. stage[b] = s => b # a
    BY <1>5, <1>3
  <2> QED
    BY <1>0, <1>1, <1>3, <1>4, <2>1, <2>3, <2>4, AccountKept, SureBack
<1>6. ASSUME t # "logs", Going(a), Sure(t), Sure(t)'
      PROVE  \/ stage'[a] = t /\ failed'[a] /\ t = "activities" /\ readErrors' > 0
             \/ /\ stage'[a] = t => ~failed'[a]
                /\ Known(a, t)' = Read(a, t)' \cap Wanted(t)
  <2>0. Account(a, t)
    BY <1>0, <1>6 DEF RowsInv, AccountsInv
  <2>1. CASE failed[a]
    BY <1>0, <1>1, <1>6, <2>0, <2>1, SureBack, <1>3 DEF Account
  <2>2. CASE ~failed[a]
    <3>1. Known(a, t) = Read(a, t) \cap Wanted(t)
      BY <1>6, <2>0, <2>2 DEF Account
    <3>2. Read(a, t) = 1..(n - 1) /\ Read(a, t)' = 1..n
      <4>1. RowsOf[t] - left[a] = n - 1 /\ RowsOf[t] - left'[a] = n
        BY <1>0, <1>2, <1>3
      <4>2. Read(a, t) = 1..(RowsOf[t] - left[a])
        BY <1>3 DEF Read
      <4>3. Read(a, t)' = 1..(RowsOf[t] - left'[a])
        BY <1>3 DEF Read
      <4> QED
        BY <4>1, <4>2, <4>3
    <3>3. Read(a, t)' = Read(a, t) \cup {n}
      BY <1>0, <1>2, <3>2
    <3>4. Has(a, t)' = Has(a, t)
      BY <1>1 DEF Has
    <3>5. CASE t = "tags" /\ ~Surveyed(a, n) /\ UNCHANGED <<buffer, inflight>>
      <4>1. n \notin Wanted(t)
        BY <1>2, <1>3, <1>6, <3>5, SurveysAreThere DEF Wanted
      <4>2. Flying(a, t)' = Flying(a, t) /\ Waiting(a, t)' = Waiting(a, t)
        BY <1>1, <3>5 DEF Flying, Waiting
      <4>3. Known(a, t)' = Known(a, t)
        BY <3>4, <4>2 DEF Known
      <4> QED
        BY <1>1, <2>2, <3>1, <3>3, <4>1, <4>3
    <3>6. CASE t \in Buffered /\ UNCHANGED inflight /\ buffer' = [buffer EXCEPT ![a] = Append(@, n)]
      <4>1. n \in Wanted(t)
        BY <1>2, <3>6 DEF Wanted, Buffered
      <4>2. Flying(a, t)' = Flying(a, t)
        BY <3>6 DEF Flying
      <4>3. Waiting(a, t)' = Waiting(a, t) \cup {n}
        <5>1. buffer'[a] = Append(buffer[a], n) /\ buffer[a] \in Seq(Nat \ {0})
          BY <1>0, <3>6
        <5>2. /\ Len(buffer'[a]) = Len(buffer[a]) + 1 /\ Len(buffer[a]) \in Nat
              /\ DOMAIN buffer[a] = 1..Len(buffer[a]) /\ DOMAIN buffer'[a] = 1..(Len(buffer[a]) + 1)
              /\ buffer'[a][Len(buffer[a]) + 1] = n
              /\ \A i \in 1..Len(buffer[a]) : buffer'[a][i] = buffer[a][i]
          BY <1>2, <5>1
        <5>3. Waiting(a, t) = {buffer[a][i] : i \in 1..Len(buffer[a])}
          BY <1>3, <5>2 DEF Waiting
        <5>4. Waiting(a, t)' = {buffer'[a][i] : i \in 1..(Len(buffer[a]) + 1)}
          BY <1>3, <5>2 DEF Waiting
        <5>5. 1..(Len(buffer[a]) + 1) = 1..Len(buffer[a]) \cup {Len(buffer[a]) + 1}
          BY <5>2
        <5> QED
          BY <5>2, <5>3, <5>4, <5>5, SMTT(30)
      <4>4. Known(a, t)' = Known(a, t) \cup {n}
        BY <3>4, <4>2, <4>3 DEF Known
      <4> QED
        BY <1>1, <2>2, <3>1, <3>3, <4>1, <4>4
    <3>7. CASE /\ ~(t = "tags" /\ ~Surveyed(a, n)) /\ UNCHANGED buffer /\ t \notin Buffered
               /\ inflight' = inflight \cup {st}
      <4>1. Waiting(a, t)' = Waiting(a, t)
        BY <1>1, <3>7 DEF Waiting
      <4>2. t = "tags" => SurveyOf[n] # 0
        BY <1>2, <1>3, <1>6, <3>7, SurveysAreThere
      <4>3. CASE q = "locate" /\ ~LocationKnown
        <5>1. t = "connections" /\ n \in Located
          BY <4>3, <1>0, StageShape
        <5>2. n \notin Wanted(t)
          BY <4>3, <5>1 DEF Wanted
        <5>3. Flying(a, t)' = Flying(a, t)
          <6>1. st.stage # t /\ st.stage = "locate"
            BY <4>3, <5>1
          <6> HIDE DEF st
          <6> QED
            BY <3>7, <4>3, <6>1 DEF Flying
        <5>4. Known(a, t)' = Known(a, t)
          BY <3>4, <4>1, <5>3 DEF Known
        <5> QED
          BY <1>1, <2>2, <3>1, <3>3, <5>2, <5>4
      <4>4. CASE ~(q = "locate" /\ ~LocationKnown)
        <5>0. t = "connections" => LocationKnown \/ n \notin Located
          BY <4>4
        <5>1. n \in Wanted(t)
          BY <1>2, <4>2, <5>0 DEF Wanted
        <5>2. /\ st.of = a /\ st.row = n
              /\ st.stage = t \/ (t = "connections" /\ st.stage = "locate" /\ LocationKnown)
          BY <4>4
        <5>3. Flying(a, t)' = Flying(a, t) \cup {st}
          <6> HIDE DEF st
          <6> QED
            BY <3>7, <5>2 DEF Flying
        <5>4. {x.row : x \in Flying(a, t)'} = {x.row : x \in Flying(a, t)} \cup {n}
          <6> HIDE DEF st
          <6> QED
            BY <5>2, <5>3
        <5>5. Known(a, t)' = Known(a, t) \cup {n}
          BY <3>4, <4>1, <5>4 DEF Known
        <5> QED
          BY <1>1, <2>2, <3>1, <3>3, <5>1, <5>5
      <4> QED
        BY <4>3, <4>4
    <3> QED
      BY <1>1, <2>2, <3>5, <3>6, <3>7
  <2> QED
    BY <2>1, <2>2
<1>8. t # "logs" => Account(a, t)'
  <2>1. Wanted(t)' = Wanted(t)
    BY DEF Wanted
  <2>2. Sure(t)' => Sure(t)
    BY <1>0, SureBack
  <2> QED
    BY <1>4, <1>6, <2>1, <2>2 DEF Account
<1>9. ASSUME NEW b \in Calls, NEW s \in RowStages \ {"logs"} PROVE Account(b, s)'
  <2>1. CASE b = a /\ s = t
    BY <1>8, <2>1
  <2> QED
    BY <1>5, <2>1
<1> QED
  BY <1>9 DEF AccountsInv

\* Reading stops with an error, which is a read error as long as the call has
\* not been ended: the account of the stage is closed, except of the activities.
LEMMA BreakReadRows ==
    ASSUME ImportInv, RowsInv, [Next]_vars, NEW a \in Calls, BreakRead(a)
    PROVE  AccountsInv'
<1>0. /\ TypeOK /\ left \in [Calls -> Nat] /\ failed \in [Calls -> BOOLEAN]
      /\ stage[a] \in RowStages /\ UNCHANGED <<stage, buffer, verdict, inflight, stored>>
      /\ failed' = [failed EXCEPT ![a] = TRUE] /\ left' = [left EXCEPT ![a] = 0]
  BY DEF BreakRead, ImportInv, TypeOK, answerVars, dbVars
<1>1. ASSUME NEW b \in Calls, NEW s \in RowStages \ {"logs"} PROVE Account(b, s)'
  <2>1. /\ Has(b, s)' = Has(b, s) /\ Flying(b, s)' = Flying(b, s) /\ Account(b, s)
        /\ Going(b)' = Going(b)
    BY <1>0 DEF Has, Flying, RowsInv, AccountsInv, Going
  <2>2. CASE b = a /\ stage[a] = s
    <3>1. SUFFICES ASSUME Going(a), Sure(s)'
                   PROVE  stage'[a] = s /\ failed'[a] /\ s = "activities" /\ readErrors' > 0
      BY <2>1, <2>2 DEF Account
    <3>2. stage[a] \in First \cup Working /\ s \in Working
      BY <2>2, StageShape
    <3>3. verdict[a] = "none"
      BY <3>1, <3>2, Unanswered DEF Going
    <3>4. handle[a] = "open"
      BY <2>2, <3>2, <3>3 DEF RowsInv, OpenInv
    <3>5. readErrors' > 0 /\ readErrors' \in Nat /\ faults' \in Nat /\ stops' \in Nat
      BY <1>0, <3>4, SureBack DEF BreakRead, ReadError
    <3>6. s = "activities"
      <4>1. readErrors' # 0
        BY <3>5
      <4>2. \A i, j, k \in Nat : i + j + k = 0 => j = 0
        OBVIOUS
      <4>3. faults' + readErrors' + stops' # 0
        BY <3>5, <4>1, <4>2
      <4> QED
        BY <3>1, <4>1, <4>3 DEF Sure
    <3> QED
      BY <1>0, <2>2, <3>5, <3>6
  <2>3. CASE ~(b = a /\ stage[a] = s)
    BY <1>0, <2>1, <2>3, AccountKept, SureBack
  <2> QED
    BY <2>2, <2>3
<1> QED
  BY <1>1 DEF AccountsInv

\* An insert that is waited for takes a row from the buffer to the table.
LEMMA InsertNextRows ==
    ASSUME ImportInv, RowsInv, [Next]_vars, NEW a \in Calls, InsertNext(a)
    PROVE  AccountsInv'
<1>1. PICK t \in RowStages : t = stage[a]
  BY StageShape DEF InsertNext
<1>2. CASE Fail(a) /\ UNCHANGED stored
  BY <1>1, <1>2, StageShape, FailRows DEF InsertNext, RowsInv
<1>3. CASE /\ ~failed[a] \/ t = "surveys"
           /\ buffer' = [buffer EXCEPT ![a] = Tail(@)]
           /\ stored' = stored \cup {[of |-> a, stage |-> t, row |-> Head(buffer[a])]}
           /\ UNCHANGED <<stage, left, failed, answerVars, faults>>
  <2>0. /\ TypeOK /\ buffer \in [Calls -> Seq(Nat \ {0})] /\ buffer[a] # <<>> /\ stage[a] = t
        /\ UNCHANGED <<stage, left, failed, verdict, inflight, readErrors>>
    BY <1>1, <1>3 DEF ImportInv, TypeOK, InsertNext, answerVars
  <2>1. PICK h \in Nat \ {0} : h = Head(buffer[a])
    BY <2>0
  <2>2. \A b \in Calls : b # a => buffer'[b] = buffer[b]
    BY <1>3, <2>0
  <2>3. ASSUME NEW b \in Calls, NEW s \in RowStages \ {"logs"} PROVE Account(b, s)'
    <3>1. Flying(b, s)' = Flying(b, s) /\ Account(b, s) /\ Going(b)' = Going(b) /\ Wanted(s)' = Wanted(s)
      BY <2>0 DEF Flying, RowsInv, AccountsInv, Going, Wanted
    <3>2. CASE b = a /\ s = t
      <4>1. {r.row : r \in Has(a, s)'} = {r.row : r \in Has(a, s)} \cup {h}
        <5> DEFINE new == [of |-> a, stage |-> t, row |-> h]
        <5>1. stored' = stored \cup {new} /\ new.of = a /\ new.stage = t /\ new.row = h
          BY <1>3, <2>1
        <5> HIDE DEF new
        <5>2. Has(a, s)' = Has(a, s) \cup {new}
          BY <3>2, <5>1 DEF Has
        <5> QED
          BY <5>1, <5>2
      <4>2. Waiting(a, s) = Waiting(a, s)' \cup {h}
        <5>1. buffer[a] \in Seq(Nat \ {0}) /\ buffer'[a] = Tail(buffer[a])
          BY <1>3, <2>0
        <5>2. /\ Len(buffer[a]) \in Nat /\ Len(buffer[a]) >= 1
              /\ DOMAIN buffer[a] = 1..Len(buffer[a]) /\ DOMAIN buffer'[a] = 1..(Len(buffer[a]) - 1)
              /\ h = buffer[a][1]
              /\ \A i \in 1..(Len(buffer[a]) - 1) : buffer'[a][i] = buffer[a][i + 1]
          BY <2>0, <2>1, <5>1
        <5>3. \A i \in 1..Len(buffer[a]) : i = 1 \/ i - 1 \in 1..(Len(buffer[a]) - 1)
          BY <5>2
        <5>4. \A i \in 1..Len(buffer[a]) : i # 1 => buffer[a][i] = buffer'[a][i - 1]
          <6>1. SUFFICES ASSUME NEW i \in 1..Len(buffer[a]), i # 1
                         PROVE  buffer[a][i] = buffer'[a][i - 1]
            OBVIOUS
          <6>2. i - 1 \in 1..(Len(buffer[a]) - 1) /\ (i - 1) + 1 = i
            BY <5>2, <6>1
          <6> QED
            BY <5>2, <6>2
        <5>5. Waiting(a, s) = {buffer[a][i] : i \in 1..Len(buffer[a])}
          BY <2>0, <3>2, <5>2 DEF Waiting
        <5>6. Waiting(a, s)' = {buffer'[a][i] : i \in 1..(Len(buffer[a]) - 1)}
          BY <2>0, <3>2, <5>2 DEF Waiting
        <5>7. ASSUME NEW x \in Waiting(a, s) PROVE x \in Waiting(a, s)' \cup {h}
          <6>1. PICK i \in 1..Len(buffer[a]) : x = buffer[a][i]
            BY <5>5, <5>7
          <6> QED
            BY <5>2, <5>3, <5>4, <5>6, <6>1
        <5>8. ASSUME NEW x \in Waiting(a, s)' PROVE x \in Waiting(a, s)
          <6>1. PICK i \in 1..(Len(buffer[a]) - 1) : x = buffer'[a][i]
            BY <5>6, <5>8
          <6>2. i + 1 \in 1..Len(buffer[a]) /\ x = buffer[a][i + 1]
            BY <5>2, <6>1
          <6> QED
            BY <5>5, <6>2
        <5>9. h \in Waiting(a, s)
          <6>1. 1 \in 1..Len(buffer[a])
            BY <5>2
          <6> QED
            BY <5>2, <5>5, <6>1
        <5> QED
          BY <5>7, <5>8, <5>9
      <4>3. Known(a, s)' = Known(a, s)
        BY <3>1, <3>2, <4>1, <4>2 DEF Known
      <4>4. Read(a, s)' = Read(a, s)
        BY <2>0 DEF Read
      <4>5. (Sure(s)' => Sure(s)) /\ (readErrors' = readErrors) /\ stage' = stage /\ failed' = failed
        BY <2>0, SureBack
      <4> QED
        BY <3>1, <3>2, <4>3, <4>4, <4>5 DEF Account
    <3>3. CASE ~(b = a /\ s = t)
      <4>1. Has(b, s)' = Has(b, s)
        <5> DEFINE new == [of |-> a, stage |-> t, row |-> h]
        <5>1. stored' = stored \cup {new} /\ ~(new.of = b /\ new.stage = s)
          BY <1>3, <2>1, <3>3
        <5> HIDE DEF new
        <5> QED
          BY <5>1 DEF Has
      <4>2. stage[b] = s => b # a
        BY <2>0, <3>3
      <4> QED
        BY <2>0, <2>2, <3>1, <4>1, <4>2, AccountKept, SureBack
    <3> QED
      BY <3>2, <3>3
  <2> QED
    BY <2>3 DEF AccountsInv
<1> QED
  BY <1>1, <1>2, <1>3 DEF InsertNext

LEMMA StepRows ==
    ASSUME ImportInv, RowsInv, [Next]_vars, NEW a \in Calls, Step(a)
    PROVE  AccountsInv'
<1>1. ASSUME Proceed(a) \/ Fail(a), UNCHANGED <<inflight, stored>>, stage[a] \in First \cup {"touch"}
      PROVE  AccountsInv'
  <2>1. stage[a] \in First \cup Working /\ stage[a] \notin RowStages
    BY <1>1, StageShape
  <2>2. stage[a] # "activities"
    BY <2>1, StageShape DEF Buffered
  <2> QED
    BY <1>1, <2>1, <2>2, ProceedRows, FailRows DEF RowsInv
<1>2. CASE Uncompress(a) \/ Open(a) \/ ReadEvents(a) \/ InsertSession(a) \/ Touch(a)
  BY <1>1, <1>2 DEF Uncompress, Open, ReadEvents, InsertSession, Touch, dbVars, First
<1>3. CASE EndRead(a)
  <2>1. /\ stage[a] \in First \cup Working /\ left[a] = 0 /\ buffer[a] = <<>>
        /\ UNCHANGED <<inflight, stored>>
    BY <1>3, StageShape DEF EndRead, dbVars
  <2>2. CASE Fail(a)
    BY <2>1, <2>2, FailRows DEF RowsInv
  <2>3. CASE Proceed(a) /\ ~(failed[a] /\ stage[a] # "surveys")
    BY <2>1, <2>3, ProceedRows DEF RowsInv
  <2> QED
    BY <1>3, <2>2, <2>3 DEF EndRead
<1> QED
  BY <1>2, <1>3, ReadRowRows, BreakReadRows, InsertNextRows DEF Step

\* The cleanup deletes only rows of a call that went wrong.
LEMMA CleanupRows ==
    ASSUME ImportInv, RowsInv, [Next]_vars, NEW a \in Calls, Cleanup(a)
    PROVE  AccountsInv'
<1>0. /\ TypeOK /\ UNCHANGED <<stage, left, buffer, failed, verdict, inflight>>
  BY DEF ImportInv, Cleanup, DeleteSession, CloseDb, Unlink, waterfallVars, dbVars
<1>1. ASSUME NEW b \in Calls, NEW s \in RowStages \ {"logs"} PROVE Account(b, s)'
  <2>1. Flying(b, s)' = Flying(b, s) /\ Account(b, s) /\ Going(b)' = Going(b)
    BY <1>0 DEF Flying, RowsInv, AccountsInv, Going
  <2>2. CASE stored' = stored
    <3>1. Has(b, s)' = Has(b, s)
      BY <2>2 DEF Has
    <3> QED
      BY <1>0, <2>1, <3>1, AccountKept, SureBack
  <2>3. CASE cleaning[a] = "delete" /\ stored' = {r \in stored : r.of # a}
    <3>1. ~Going(a)
      BY <2>3 DEF ImportInv, TypeOK, WaterfallInv, Going, Verdicts
    <3>2. CASE b = a
      BY <2>1, <3>1, <3>2 DEF Account
    <3>3. CASE b # a
      <4>1. Has(b, s)' = Has(b, s)
        BY <2>3, <3>3 DEF Has
      <4> QED
        BY <1>0, <2>1, <4>1, AccountKept, SureBack
    <3> QED
      BY <3>2, <3>3
  <2> QED
    BY <2>2, <2>3 DEF Cleanup, DeleteSession, CloseDb, Unlink, dbVars
<1> QED
  BY <1>1 DEF AccountsInv

\* PostgreSQL stores the row of a statement, or the row is lost to a fault.
LEMMA RunInsertRows ==
    ASSUME ImportInv, RowsInv, [Next]_vars, NEW st \in inflight, RunInsert(st)
    PROVE  AccountsInv'
<1>0. /\ TypeOK /\ UNCHANGED <<stage, left, buffer, verdict, readErrors>>
      /\ st.of \in Calls /\ st.stage \in RowStages \ {"logs"} /\ st \in Row
      /\ inflight' = inflight \ {st} /\ failed \in [Calls -> BOOLEAN]
      /\ st.stage \notin Buffered
  BY DEF ImportInv, TypeOK, RunInsert, Statement, Row, answerVars, RowsInv, FlightInv
<1>1. ASSUME NEW b \in Calls, NEW s \in RowStages \ {"logs"} PROVE Account(b, s)'
  <2>1. Account(b, s) /\ Going(b)' = Going(b)
    BY <1>0 DEF RowsInv, AccountsInv, Going
  <2>2. CASE ~(st.of = b /\ st.stage = s)
    <3>1. Flying(b, s)' = Flying(b, s)
      <4>1. ~(st.of = b /\ (st.stage = s \/ (s = "connections" /\ st.stage = "locate" /\ LocationKnown)))
        BY <2>2 DEF RunInsert
      <4> QED
        BY <1>0, <4>1 DEF Flying
    <3>2. Has(b, s)' = Has(b, s)
      BY <2>2 DEF Has, RunInsert
    <3>3. stage[b] = s => failed'[b] = failed[b]
      BY <1>0, <2>2 DEF RunInsert, Refuse
    <3> QED
      BY <1>0, <2>1, <3>1, <3>2, <3>3, AccountKept, SureBack
  <2>3. CASE st.of = b /\ st.stage = s
    <3>1. SUFFICES ASSUME Going(b), Sure(s), Sure(s)' PROVE Account(b, s)'
      BY <1>0, <2>1, SureBack DEF Account
    <3>2. s \notin Buffered /\ s # "activities" /\ s # "surveys"
      BY <1>0, <2>3 DEF Buffered
    <3>3. faults' = 0 /\ faults \in Nat
      <4>1. \A i, j, k \in Nat : i + j + k = 0 => i = 0
        OBVIOUS
      <4>2. faults' + readErrors' + stops' = 0
        BY <3>1, <3>2 DEF Sure
      <4> QED
        BY <1>0, <4>1, <4>2, SureBack
    <3>4. Accepted(st)
      BY <1>0, <2>3, <3>1 DEF Accepted, RowsInv, FlightInv, ImportInv, TypeOK, WaterfallInv, Going, Verdicts
    <3>5. faults' # faults + 1
      BY <3>3
    <3>6. stored' = stored \cup {st} /\ failed' = failed
      BY <3>4, <3>5 DEF RunInsert
    <3>7. ~(stage[b] = s /\ failed[b]) /\ Known(b, s) = Read(b, s) \cap Wanted(s)
      BY <2>1, <3>1, <3>2 DEF Account
    <3>8. Known(b, s)' = Known(b, s)
      <4>1. Has(b, s)' = Has(b, s) \cup {st}
        BY <2>3, <3>6 DEF Has
      <4>2. Flying(b, s) = Flying(b, s)' \cup {st}
        BY <1>0, <2>3 DEF Flying
      <4>3. Waiting(b, s)' = Waiting(b, s)
        BY <1>0 DEF Waiting
      <4>4. {r.row : r \in Has(b, s)'} = {r.row : r \in Has(b, s)} \cup {st.row}
        BY <4>1
      <4>5. {r.row : r \in Flying(b, s)} = {r.row : r \in Flying(b, s)'} \cup {st.row}
        BY <4>2
      <4> QED
        BY <4>3, <4>4, <4>5 DEF Known
    <3>9. Read(b, s)' = Read(b, s) /\ Wanted(s)' = Wanted(s)
      BY <1>0 DEF Read, Wanted
    <3> QED
      BY <1>0, <3>6, <3>7, <3>8, <3>9 DEF Account
  <2> QED
    BY <2>2, <2>3
<1> QED
  BY <1>1 DEF AccountsInv

LEMMA RunLogRows ==
    ASSUME ImportInv, RowsInv, [Next]_vars, NEW st \in inflight, RunLog(st)
    PROVE  AccountsInv'
<1>0. /\ TypeOK /\ UNCHANGED <<stage, left, buffer, verdict>>
      /\ st.stage = "logs" /\ inflight' = inflight \ {st} /\ failed \in [Calls -> BOOLEAN]
  BY DEF ImportInv, TypeOK, RunLog, answerVars
<1>1. \A c : [st EXCEPT !.of = c].stage = "logs"
  BY <1>0 DEF ImportInv, TypeOK, Statement
<1>2. \A r \in stored' \ stored : r.stage = "logs"
  <2>1. ASSUME NEW r \in stored' \ stored PROVE r.stage = "logs"
    <3>1. PICK c \in stored : r = [st EXCEPT !.of = c.of]
      BY <2>1 DEF RunLog
    <3> QED
      BY <1>1, <3>1
  <2> QED
    BY <2>1
<1>3. stored \subseteq stored'
  BY DEF RunLog
<1>4. ASSUME NEW b \in Calls, NEW s \in RowStages \ {"logs"} PROVE Account(b, s)'
  <2>1. Account(b, s) /\ Going(b)' = Going(b)
    BY <1>0 DEF RowsInv, AccountsInv, Going
  <2>2. Flying(b, s)' = Flying(b, s)
    BY <1>0 DEF Flying
  <2>3. Has(b, s)' = Has(b, s)
    BY <1>2, <1>3 DEF Has
  <2>4. stage[b] = s => failed'[b] = failed[b]
    BY <1>0 DEF RunLog, Refuse
  <2> QED
    BY <1>0, <2>1, <2>2, <2>3, <2>4, AccountKept, SureBack
<1> QED
  BY <1>4 DEF AccountsInv

\* A lookup becomes an insert; the one of an unknown address was of no row
\* that is inserted.
LEMMA RunLocateRows ==
    ASSUME ImportInv, RowsInv, [Next]_vars, NEW st \in inflight, RunLocate(st)
    PROVE  AccountsInv'
<1>0. /\ TypeOK /\ UNCHANGED <<stage, left, buffer, failed, stored>>
      /\ st \in Statement /\ st.of \in Calls /\ st.stage = "locate" /\ verdict \in [Calls -> Verdicts]
  BY DEF ImportInv, TypeOK, RunLocate, waterfallVars, Statement
<1>1. ASSUME NEW b \in Calls, NEW s \in RowStages \ {"logs"} PROVE Account(b, s)'
  <2>1. Account(b, s) /\ Has(b, s)' = Has(b, s) /\ s # "locate"
    BY <1>0, StageShape DEF RowsInv, AccountsInv, Has
  <2>2. Going(b)' => Going(b)
    <3>1. stage'[b] = stage[b] /\ (verdict'[b] = verdict[b] \/ verdict'[b] = "err")
      BY <1>0 DEF RunLocate, End, answerVars
    <3> QED
      BY <3>1 DEF Going
  <2>3. CASE LocationKnown /\ inflight' = (inflight \ {st}) \cup {[st EXCEPT !.stage = "connections"]}
    <3> DEFINE new == [st EXCEPT !.stage = "connections"]
    <3>1. new.of = st.of /\ new.stage = "connections" /\ new.row = st.row
      BY <1>0 DEF Statement
    <3>2. inflight' = (inflight \ {st}) \cup {new}
      BY <2>3
    <3> HIDE DEF new
    <3>3. CASE b = st.of /\ s = "connections"
      <4>1. {x.row : x \in Flying(b, s)'} = {x.row : x \in Flying(b, s)}
        <5>1. Flying(b, s)' = (Flying(b, s) \ {st}) \cup {new}
          BY <1>0, <2>3, <3>1, <3>2, <3>3 DEF Flying
        <5>2. st \in Flying(b, s)
          BY <1>0, <2>3, <3>3 DEF Flying
        <5> QED
          BY <3>1, <5>1, <5>2
      <4>2. Waiting(b, s)' = Waiting(b, s) /\ Read(b, s)' = Read(b, s) /\ Wanted(s)' = Wanted(s)
        BY <1>0 DEF Waiting, Read, Wanted
      <4>3. Known(b, s)' = Known(b, s)
        BY <2>1, <4>1, <4>2 DEF Known
      <4>4. Sure(s)' => Sure(s)
        BY <1>0, SureBack
      <4> QED
        BY <1>0, <2>1, <2>2, <3>3, <4>2, <4>3, <4>4 DEF Account
    <3>4. CASE ~(b = st.of /\ s = "connections")
      <4>1. Flying(b, s)' = Flying(b, s)
        BY <1>0, <2>1, <3>1, <3>2, <3>4 DEF Flying
      <4> QED
        BY <1>0, <2>1, <2>2, <4>1, AccountKept, SureBack
    <3> QED
      BY <3>3, <3>4
  <2>4. CASE inflight' = inflight \ {st} /\ (LocationKnown => faults' = faults + 1)
    <3>1. CASE b = st.of /\ s = "connections" /\ LocationKnown
      <4>1. ~Sure(s)'
        <5>1. \A i, j, k \in Nat : i + j + k = 0 => i = 0
          OBVIOUS
        <5>2. faults' # 0
          BY <1>0, <2>4, <3>1, SureBack
        <5>3. faults' + readErrors' + stops' # 0
          BY <1>0, <5>1, <5>2, SureBack
        <5> QED
          BY <3>1, <5>3 DEF Sure
      <4> QED
        BY <4>1 DEF Account
    <3>2. CASE ~(b = st.of /\ s = "connections" /\ LocationKnown)
      <4>1. Flying(b, s)' = Flying(b, s)
        BY <1>0, <2>1, <2>4, <3>2 DEF Flying
      <4> QED
        BY <1>0, <2>1, <2>2, <4>1, AccountKept, SureBack
    <3> QED
      BY <3>1, <3>2
  <2> QED
    BY <2>3, <2>4 DEF RunLocate
<1> QED
  BY <1>1 DEF AccountsInv

\* After a stop only the awaited rows count, and none of them is in flight.
LEMMA StopRows ==
    ASSUME ImportInv, RowsInv, [Next]_vars, Stop
    PROVE  AccountsInv'
<1>0. /\ TypeOK /\ UNCHANGED <<left, buffer, failed, verdict, stored>>
      /\ stage \in [Calls -> Stages] /\ inflight' = {}
      /\ \A b \in Calls : stage'[b] = IF stage[b] = "idle" THEN "idle" ELSE "over"
      /\ stops' = stops + 1
  BY DEF ImportInv, TypeOK, Stop
<1>1. ASSUME NEW b \in Calls, NEW s \in RowStages \ {"logs"} PROVE Account(b, s)'
  <2>1. Account(b, s) /\ Has(b, s)' = Has(b, s)
    BY <1>0 DEF RowsInv, AccountsInv, Has
  <2>2. SUFFICES ASSUME Going(b)', Sure(s)' PROVE Account(b, s)'
    BY DEF Account
  <2>3. stage'[b] = stage[b] /\ Going(b)
    BY <1>0, <2>2 DEF Going, ImportInv, WaterfallInv
  <2>4. s \in Buffered
    <3>1. \A i, j, k \in Nat : i + j + k = 0 => k = 0
      OBVIOUS
    <3>2. stops' # 0
      BY <1>0, SureBack
    <3>3. faults' + readErrors' + stops' # 0
      BY <1>0, <3>1, <3>2, SureBack
    <3> QED
      BY <2>2, <3>3 DEF Sure, Buffered
  <2>5. Flying(b, s) = {} /\ Flying(b, s)' = {}
    BY <1>0, <2>4 DEF Flying, RowsInv, FlightInv, Buffered
  <2> QED
    BY <1>0, <2>1, <2>3, <2>5, AccountKept, SureBack
<1> QED
  BY <1>1 DEF AccountsInv

\* The statements in flight, and the file while it is read.
LEMMA FlightStep ==
    ASSUME ImportInv, FlightInv, [Next]_vars
    PROVE  FlightInv'
<1>0. /\ session \in [Calls -> {"none", "stored", "deleted"}] /\ \A st \in inflight : st.of \in Calls
      /\ "connections" \notin Buffered /\ "locate" \notin Buffered
  BY DEF ImportInv, TypeOK, Statement, Buffered
<1>1. \A a \in Calls : session[a] # "none" => session'[a] # "none"
  BY <1>0 DEF Next, Begin, Step, Cleanup, Run, Stop, Uncompress, Open, ReadEvents, InsertSession, Touch,
         ReadRow, BreakRead, EndRead, InsertNext, DeleteSession, CloseDb, Unlink, RunInsert, RunLog,
         RunLocate, vars, dbVars
<1>2. ASSUME inflight' \subseteq inflight PROVE FlightInv'
  BY <1>0, <1>1, <1>2 DEF FlightInv
<1>3. ASSUME NEW a \in Calls, ReadRow(a) PROVE FlightInv'
  <2>1. stage[a] \in Working /\ session[a] # "none"
    BY <1>3, StageShape DEF ReadRow, ImportInv, WaterfallInv
  <2>2. \A st \in inflight' : st \in inflight \/ (st.of = a /\ st.stage \notin Buffered)
    BY <1>0, <1>3 DEF ReadRow
  <2> QED
    BY <1>0, <1>1, <2>1, <2>2 DEF FlightInv
<1>4. ASSUME NEW st \in inflight, RunLocate(st) PROVE FlightInv'
  <2>1. \A x \in inflight' : x \in inflight \/ (x.of = st.of /\ x.stage = "connections")
    BY <1>4 DEF RunLocate, ImportInv, TypeOK, Statement
  <2> QED
    BY <1>0, <1>1, <2>1 DEF FlightInv
<1>5. CASE Run
  <2>1. PICK st \in inflight : RunInsert(st) \/ RunLog(st) \/ RunLocate(st)
    BY <1>5 DEF Run
  <2> QED
    BY <1>2, <1>4, <2>1 DEF RunInsert, RunLog
<1>6. ASSUME NEW a \in Calls, Step(a) PROVE FlightInv'
  BY <1>2, <1>3, <1>6 DEF Step, Uncompress, Open, ReadEvents, InsertSession, Touch, BreakRead, EndRead,
     InsertNext, dbVars
<1> QED
  BY <1>2, <1>5, <1>6 DEF Next, Begin, Cleanup, DeleteSession, CloseDb, Unlink, Stop, vars, dbVars

LEMMA OpenStep ==
    ASSUME ImportInv, OpenInv, [Next]_vars
    PROVE  OpenInv'
<1> DEFINE Needy == {"events", "session"} \cup Working
<1>0. /\ stage \in [Calls -> Stages] /\ verdict \in [Calls -> Verdicts] /\ handle \in [Calls -> {"none", "open", "closed"}]
      /\ \A a \in Calls : stage[a] \in Needy /\ verdict[a] = "none" => handle[a] = "open"
      /\ {"idle", "uncompress", "open", "over"} \cap Needy = {}
  BY StageShape DEF ImportInv, TypeOK, OpenInv, First
<1>1. SUFFICES \A a \in Calls : stage'[a] \in Needy /\ verdict'[a] = "none" => handle'[a] = "open"
  BY DEF OpenInv, Working
<1> HIDE DEF Needy
<1>2. \A a \in Calls : verdict'[a] = "none" => verdict[a] = "none"
  BY <1>0, ZenonT(60) DEF Next, Begin, Step, Cleanup, Run, Stop, Uncompress, Open, ReadEvents, InsertSession, Touch,
         ReadRow, BreakRead, EndRead, InsertNext, DeleteSession, CloseDb, Unlink, RunInsert, RunLog,
         RunLocate, Proceed, Fail, End, answerVars, vars
<1>3. ASSUME UNCHANGED <<stage, handle>>
      PROVE  \A a \in Calls : stage'[a] \in Needy /\ verdict'[a] = "none" => handle'[a] = "open"
  BY <1>0, <1>2, <1>3
<1>4. ASSUME NEW a \in Calls, Fail(a), \A b \in Calls : b # a => handle'[b] = handle[b]
      PROVE  \A b \in Calls : stage'[b] \in Needy /\ verdict'[b] = "none" => handle'[b] = "open"
  BY <1>0, <1>2, <1>4 DEF Fail
<1>5. ASSUME NEW a \in Calls, Proceed(a), UNCHANGED handle, stage[a] \in Needy \cup {"uncompress"}
      PROVE  \A b \in Calls : stage'[b] \in Needy /\ verdict'[b] = "none" => handle'[b] = "open"
  <2>1. \A b \in Calls : b # a => stage'[b] = stage[b]
    BY <1>0, <1>5 DEF Proceed
  <2>2. stage'[a] \in Needy => stage[a] \in Needy
    BY <1>0, <1>5, FollowsShape DEF Proceed
  <2> QED
    BY <1>0, <1>2, <1>5, <2>1, <2>2
<1>6. ASSUME NEW a \in Calls, Step(a)
      PROVE  \A b \in Calls : stage'[b] \in Needy /\ verdict'[b] = "none" => handle'[b] = "open"
  <2>1. CASE Open(a)
    <3>1. handle'[a] = "open" /\ \A b \in Calls : b # a => handle'[b] = handle[b]
      BY <1>0, <2>1 DEF Open
    <3>2. CASE Proceed(a)
      BY <1>0, <1>2, <3>1, <3>2 DEF Proceed
    <3> QED
      BY <1>4, <2>1, <3>1, <3>2 DEF Open
  <2>2. CASE Uncompress(a) \/ ReadEvents(a) \/ InsertSession(a) \/ Touch(a) \/ EndRead(a)
    <3>1. stage[a] \in Needy \cup {"uncompress"} /\ UNCHANGED handle
      BY <2>2, StageShape DEF Uncompress, ReadEvents, InsertSession, Touch, EndRead, Needy
    <3> QED
      BY <1>4, <1>5, <2>2, <3>1 DEF Uncompress, ReadEvents, InsertSession, Touch, EndRead
  <2>3. CASE ReadRow(a) \/ BreakRead(a) \/ InsertNext(a)
    BY <1>3, <1>4, <2>3 DEF ReadRow, BreakRead, InsertNext
  <2> QED
    BY <1>6, <2>1, <2>2, <2>3 DEF Step
<1>7. ASSUME NEW a \in Calls, Begin(a)
      PROVE  \A b \in Calls : stage'[b] \in Needy /\ verdict'[b] = "none" => handle'[b] = "open"
  BY <1>0, <1>2, <1>7 DEF Begin
<1>8. ASSUME NEW a \in Calls, Cleanup(a)
      PROVE  \A b \in Calls : stage'[b] \in Needy /\ verdict'[b] = "none" => handle'[b] = "open"
  <2>1. CASE CloseDb(a)
    <3>1. verdict[a] # "none"
      BY <2>1 DEF CloseDb, ImportInv, WaterfallInv
    <3> QED
      BY <1>0, <1>2, <2>1, <3>1 DEF CloseDb, waterfallVars
  <2>2. CASE DeleteSession(a) \/ Unlink(a)
    BY <1>3, <2>2 DEF DeleteSession, Unlink, waterfallVars
  <2> QED
    BY <1>8, <2>1, <2>2 DEF Cleanup
<1>9. ASSUME Run \/ UNCHANGED vars
      PROVE  \A b \in Calls : stage'[b] \in Needy /\ verdict'[b] = "none" => handle'[b] = "open"
  BY <1>3, <1>9 DEF Run, RunInsert, RunLog, RunLocate, waterfallVars, vars
<1>10. ASSUME Stop
      PROVE  \A b \in Calls : stage'[b] \in Needy /\ verdict'[b] = "none" => handle'[b] = "open"
  BY <1>0, <1>10 DEF Stop
<1> QED
  BY <1>6, <1>7, <1>8, <1>9, <1>10 DEF Next

LEMMA InitRows == Init => RowsInv
<1> SUFFICES ASSUME Init PROVE RowsInv
  OBVIOUS
<1>1. FlightInv /\ OpenInv
  BY StageShape, FollowsShape DEF Init, FlightInv, OpenInv
<1>2. ASSUME NEW a \in Calls, NEW s \in RowStages \ {"logs"} PROVE Account(a, s)
  <2>1. stage[a] = "idle" /\ s # "idle" /\ inflight = {} /\ stored = {}
    BY StageShape DEF Init
  <2>2. Has(a, s) = {} /\ Flying(a, s) = {} /\ Waiting(a, s) = {} /\ Read(a, s) = {}
    BY <2>1 DEF Has, Flying, Waiting, Read
  <2> QED
    BY <2>1, <2>2 DEF Account, Known
<1> QED
  BY <1>1, <1>2 DEF RowsInv, AccountsInv

LEMMA NextRows == ImportInv /\ RowsInv /\ [Next]_vars => RowsInv'
<1> SUFFICES ASSUME ImportInv, RowsInv, [Next]_vars PROVE RowsInv'
  OBVIOUS
<1>1. FlightInv' /\ OpenInv'
  BY FlightStep, OpenStep DEF RowsInv
<1>2. AccountsInv'
  <2>1. CASE UNCHANGED vars
    <3>1. ASSUME NEW a \in Calls, NEW s \in RowStages \ {"logs"} PROVE Account(a, s)'
      <4>1. /\ Account(a, s) /\ ImportInv /\ Going(a)' = Going(a) /\ TypeOK
            /\ UNCHANGED <<stage, left, buffer, failed, inflight, stored>>
        BY <2>1 DEF vars, waterfallVars, answerVars, dbVars, Going, RowsInv, AccountsInv, ImportInv
      <4>2. Has(a, s)' = Has(a, s) /\ Flying(a, s)' = Flying(a, s)
        BY <4>1 DEF Has, Flying
      <4> QED
        BY <4>1, <4>2, AccountKept, SureBack
    <3> QED
      BY <3>1 DEF AccountsInv
  <2>2. CASE Next
    BY <2>2, BeginRows, StepRows, CleanupRows, RunInsertRows, RunLogRows, RunLocateRows, StopRows
    DEF Next, Run, RowsInv
  <2> QED
    BY <2>1, <2>2
<1> QED
  BY <1>1, <1>2 DEF RowsInv

\* A call that has answered without error has all rows of a stage it accounts
\* for, once none of them is in flight.
LEMMA AnsweredRows ==
    ASSUME ImportInv, RowsInv, NEW a \in Calls, reply[a] = "ok",
           NEW s \in RowStages \ {"logs"}, Sure(s), Flying(a, s) = {}
    PROVE  Has(a, s) = {[of |-> a, stage |-> s, row |-> n] : n \in Wanted(s)}
<1>1. verdict[a] = "ok" /\ stage[a] = "over" /\ s # "over"
  BY StageShape DEF ImportInv, ReplyInv, WaterfallInv
<1>2. Known(a, s) = Read(a, s) \cap Wanted(s)
  BY <1>1 DEF RowsInv, AccountsInv, Account, Going
<1>3. Read(a, s) = 1..RowsOf[s] /\ Waiting(a, s) = {}
  BY <1>1, PlaceShape DEF Read, Waiting
<1>4. {r.row : r \in Has(a, s)} = Wanted(s)
  BY <1>2, <1>3 DEF Known, Wanted
<1>5. ASSUME NEW r \in Has(a, s) PROVE r = [of |-> a, stage |-> s, row |-> r.row]
  BY DEF Has, ImportInv, TypeOK, Row
<1> QED
  BY <1>4, <1>5

\* There are as many of these rows as their numbers.
FirstRows(a, s, n) == {[of |-> a, stage |-> s, row |-> m] : m \in 1..n}

LEMMA RowsCounted ==
    ASSUME NEW a, NEW s, NEW n \in Nat
    PROVE  Cardinality(FirstRows(a, s, n)) = n
<1> DEFINE T == {[of |-> a, stage |-> s, row |-> m] : m \in 1..n}
           f == [m \in 1..n |-> [of |-> a, stage |-> s, row |-> m]]
<1>1. f \in Bijection(1..n, T)
  <2>1. f \in [1..n -> T]
    OBVIOUS
  <2>2. \A i, j \in 1..n : f[i] = f[j] => i = j
    <3>1. \A i \in 1..n : f[i].row = i
      OBVIOUS
    <3> HIDE DEF f
    <3> QED
      BY <3>1
  <2>3. \A r \in T : \E m \in 1..n : f[m] = r
    OBVIOUS
  <2> QED
    BY <2>1, <2>2, <2>3 DEF Bijection, Injection, Surjection, IsInjective
<1>2. IsFiniteSet(1..n) /\ Cardinality(1..n) = n
  BY FS_Interval
<1>3. Cardinality(1..n) = Cardinality(T)
  BY <1>1, <1>2, FS_Bijection DEF ExistsBijection
<1> QED
  BY <1>2, <1>3 DEF FirstRows

-----------------------------------------------------------------------------
(* The theorems.                                                           *)

\* The invariant holds, for every file and however the calls fail.
THEOREM ImportInvariance == Spec => []ImportInv
  BY InitInv, NextInv, PTL DEF Spec

\* Every variable of the importer keeps its type.
THEOREM ImportTypes == Spec => []TypeOK
<1>1. ImportInv => TypeOK
  BY DEF ImportInv
<1> QED
  BY <1>1, ImportInvariance, PTL

\* The rows of a deleted session are gone for good, whatever inserts its call
\* has still in flight (process_sqlite.js:875).
THEOREM DeletedIsGone == Spec => []NothingOfADeletedSession
<1>1. ImportInv => NothingOfADeletedSession
  BY DEF ImportInv
<1> QED
  BY <1>1, ImportInvariance, PTL

\* An answer without error comes after the cleanup, and no earlier call that
\* still runs brings the temporary file back (process_sqlite.js:882-891).
THEOREM SuccessHasCleanedUp == Spec => []SuccessIsClean
<1>1. ImportInv => SuccessIsClean
  BY DEF ImportInv, ReplyInv, SuccessIsClean
<1> QED
  BY <1>1, ImportInvariance, PTL

\* Failures alone leave no second session (process_sqlite.js:871-880).
THEOREM SessionsAreNotDoubled == Spec => []NoDoubleSession
<1>1. ASSUME ImportInv PROVE NoDoubleSession
  <2>1. SUFFICES ASSUME NEW a \in Calls, NEW b \in Calls, a # b, reply[a] = "ok", session[b] = "stored",
                        ~(faults > 0), ~(stops > 0)
                 PROVE  cleaning[b] = "delete"
    BY DEF NoDoubleSession
  <2>2. stage[a] # "idle" /\ stage[b] # "idle"
    <3>1. "idle" \in Stages \ (Working \cup {"over"})
      BY StageShape
    <3> QED
      BY <1>1, <2>1, <3>1 DEF ImportInv, WaterfallInv, ReplyInv
  <2>3. b < a
    <3>1. a < b \/ b < a
      BY <2>1 DEF Calls
    <3> QED
      BY <1>1, <2>1, <2>2, <3>1 DEF ImportInv, ReplyInv
  <2>4. reply[b] \in {"err", "lost"}
    BY <1>1, <2>2, <2>3 DEF ImportInv, ReplyInv
  <2> QED
    BY <1>1, <2>1, <2>4 DEF ImportInv, ReplyInv
<1> QED
  BY <1>1, ImportInvariance, PTL

\* No late callback changes an answer, or deletes the session of a call that
\* answered without an error (process_sqlite.js:632-635, 869-895).
THEOREM AnswersStand == Spec => AnswerStands
<1> DEFINE Stands == \A a \in Calls : reply[a] # "none" =>
                         /\ reply'[a] = reply[a]
                         /\ reply[a] = "ok" => session'[a] = "stored"
<1>1. ASSUME ImportInv, [Next]_vars PROVE Stands
  <2>0. /\ reply \in [Calls -> Verdicts \cup {"lost"}] /\ session \in [Calls -> {"none", "stored", "deleted"}]
        /\ \A a \in Calls : reply[a] = "ok" => session[a] = "stored" /\ cleaning[a] = "done"
    BY <1>1 DEF ImportInv, TypeOK, WaterfallInv, ReplyInv
  <2>1. ASSUME UNCHANGED reply, \A a \in Calls : reply[a] = "ok" => session'[a] = session[a] \/ session'[a] = "stored"
        PROVE  Stands
    BY <2>0, <2>1
  <2>2. ASSUME NEW b \in Calls, NEW v \in {"ok", "err"}, End(b, v), reply[b] # "lost",
               \A a \in Calls : reply[a] = "ok" => session'[a] = session[a] \/ session'[a] = "stored"
        PROVE  Stands
    <3>1. CASE verdict[b] # "none"
      BY <2>0, <2>2, <3>1 DEF End, answerVars
    <3>2. CASE verdict[b] = "none"
      <4>1. reply[b] = "none"
        BY <1>1, <2>0, <2>2, <3>2 DEF ImportInv, ReplyInv, Verdicts
      <4> QED
        BY <2>0, <2>2, <3>2, <4>1 DEF End
    <3> QED
      BY <3>1, <3>2
  <2>3. ASSUME NEW b \in Calls, Step(b) PROVE Stands
    <3>1. stage[b] \in First \cup Working
      BY <2>3, StageShape DEF Step, Uncompress, Open, ReadEvents, InsertSession, Touch, ReadRow, BreakRead,
         EndRead, InsertNext, First
    <3>2. reply[b] # "lost"
      BY <1>1, <3>1, Unanswered
    <3>3. \A a \in Calls : reply[a] = "ok" => session'[a] = session[a] \/ session'[a] = "stored"
      BY <2>0, <2>3 DEF Step, Uncompress, Open, ReadEvents, InsertSession, Touch, ReadRow, BreakRead,
         EndRead, InsertNext, dbVars
    <3>4. (\E v \in {"ok", "err"} : End(b, v)) \/ UNCHANGED reply
      BY <2>3 DEF Step, Uncompress, Open, ReadEvents, InsertSession, Touch, ReadRow, BreakRead,
         EndRead, InsertNext, Proceed, Fail, answerVars
    <3> QED
      BY <2>1, <2>2, <3>2, <3>3, <3>4
  <2>4. ASSUME NEW b \in Calls, Cleanup(b) PROVE Stands
    <3>1. CASE DeleteSession(b)
      <4>1. reply[b] # "ok"
        BY <2>0, <3>1 DEF DeleteSession
      <4> QED
        BY <2>0, <2>1, <3>1, <4>1 DEF DeleteSession
    <3>2. CASE CloseDb(b)
      BY <2>1, <3>2 DEF CloseDb, dbVars
    <3>3. CASE Unlink(b)
      BY <2>0, <3>3 DEF Unlink, dbVars
    <3> QED
      BY <2>4, <3>1, <3>2, <3>3 DEF Cleanup
  <2>5. ASSUME Run PROVE Stands
    <3>1. PICK st \in inflight : RunInsert(st) \/ RunLog(st) \/ RunLocate(st)
      BY <2>5 DEF Run
    <3>2. st.of \in Calls /\ reply[st.of] # "lost"
      BY <1>1, <3>1 DEF ImportInv, TypeOK, Statement, ReplyInv, Quiet
    <3>3. UNCHANGED session /\ (UNCHANGED reply \/ End(st.of, "err"))
      BY <3>1 DEF RunInsert, RunLog, RunLocate, answerVars
    <3> QED
      BY <2>1, <2>2, <3>2, <3>3
  <2>6. ASSUME NEW b \in Calls, Begin(b) PROVE Stands
    BY <2>1, <2>6 DEF Begin, answerVars, dbVars
  <2>7. ASSUME Stop PROVE Stands
    BY <2>0, <2>7 DEF Stop
  <2>8. ASSUME UNCHANGED vars PROVE Stands
    BY <2>1, <2>8 DEF vars, answerVars, dbVars
  <2> QED
    BY <1>1, <2>3, <2>4, <2>5, <2>6, <2>7, <2>8 DEF Next
<1>2. ImportInv /\ [Next]_vars => [Stands]_vars
  BY <1>1
<1> QED
  BY <1>2, ImportInvariance, PTL DEF Spec, AnswerStands

\* What the stored rows have to do with the ones that were read holds as well.
LEMMA RowsInvariance == Spec => [](ImportInv /\ RowsInv)
<1>1. Init => ImportInv /\ RowsInv
  BY InitInv, InitRows
<1>2. ImportInv /\ RowsInv /\ [Next]_vars => (ImportInv /\ RowsInv)'
  BY NextInv, NextRows
<1> QED
  BY <1>1, <1>2, PTL DEF Spec

\* A call that answers without an error has stored all its activities, and all
\* its surveys if the file could be read, whatever else was refused
\* (process_sqlite.js:19-21).
THEOREM AwaitedAreStored == Spec => []AwaitedRowsAreStored
<1>1. ASSUME ImportInv, RowsInv PROVE AwaitedRowsAreStored
  <2>1. ASSUME NEW a \in Calls, reply[a] = "ok", NEW s \in Buffered, Sure(s)
        PROVE  Cardinality(Has(a, s)) = RowsOf[s]
    <3>1. s \in RowStages \ {"logs"} /\ RowsOf[s] \in Nat
      BY StageShape, DataAssumption DEF Buffered
    <3>2. Flying(a, s) = {}
      BY <1>1 DEF Flying, RowsInv, FlightInv, Buffered
    <3>3. Wanted(s) = 1..RowsOf[s]
      BY DEF Wanted, Buffered
    <3>4. Has(a, s) = FirstRows(a, s, RowsOf[s])
      BY <1>1, <2>1, <3>1, <3>2, <3>3, AnsweredRows DEF FirstRows
    <3>5. Cardinality(FirstRows(a, s, RowsOf[s])) = RowsOf[s]
      BY <3>1, RowsCounted
    <3> QED
      BY <3>4, <3>5
  <2> QED
    BY <2>1 DEF AwaitedRowsAreStored, Sure, Buffered
<1> QED
  BY <1>1, RowsInvariance, PTL

\* When nothing fails, every row that can be inserted is stored or on its way,
\* whatever the order in which PostgreSQL runs the inserts that no stage waits
\* for (process_sqlite.js:81-115, 352-660).
THEOREM FaultFreeIsComplete == Spec => []FaultFreeImportIsComplete
<1>1. ASSUME ImportInv, RowsInv PROVE FaultFreeImportIsComplete
  <2>1. SUFFICES ASSUME NEW a \in Calls, reply[a] = "ok", faults + readErrors + stops = 0, Quiet(a),
                        NEW s \in RowStages \ {"logs"}
                 PROVE  Has(a, s) = {[of |-> a, stage |-> s, row |-> n] : n \in Wanted(s)}
    BY DEF FaultFreeImportIsComplete
  <2>2. Flying(a, s) = {} /\ Sure(s)
    BY <2>1 DEF Flying, Quiet, Sure
  <2> QED
    BY <1>1, <2>1, <2>2, AnsweredRows
<1> QED
  BY <1>1, RowsInvariance, PTL
=============================================================================
