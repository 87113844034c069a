---------------------------- MODULE SqliteImport ----------------------------
(***************************************************************************)
(* The import of one sqlite file of Hostview: app/lib/process_sqlite.js,   *)
(* called again and again by the queue until it answers without an error.  *)
(*                                                                         *)
(* The importer is an async.waterfall over the tables of the file.  Some   *)
(* of its stages wait for every insert they make; the others only wait     *)
(* until the last row has been READ, so that their inserts run on in the   *)
(* connection pool of PostgreSQL, in any order, while the waterfall is in  *)
(* a later stage, in its cleanup, or has already answered.  A call of the  *)
(* importer is an attempt; what an attempt left running goes on while the  *)
(* next one works.                                                         *)
(*                                                                         *)
(* sqlite3, async (its final callback runs once), pg and PostgreSQL are    *)
(* external.  A row is its number in its table.                            *)
(***************************************************************************)
EXTENDS Naturals, Sequences, FiniteSets

CONSTANTS
    Attempts,      \* bound: the calls are 1..Attempts
    Stats,         \* the tables copied by readloop, in order
    RowsOf,        \* stage -> how many rows the file has for it
    SurveyOf,      \* row of "tags" -> the survey of the same time, 0 for none
    ConnectionOf,  \* row of "logs" -> the row of "connections" it belongs to
    Located,       \* the rows of "connections" that have a public address
    LocationKnown, \* whether table "locations" already has these addresses
    MaxFaults,     \* bound: statements PostgreSQL refuses without a reason
    MaxReadErrors, \* bound: errors of reading the file
    MaxStops       \* bound: deaths of the worker

\* The stages of the waterfall that read rows: "tags" stands for the four
\* esm_* tables and "logs" for dns and http, whose code is the same.
RowStages == {Stats[i] : i \in DOMAIN Stats}
                 \cup {"surveys", "tags", "activities", "connections", "logs"}
Order == <<"uncompress", "open", "events", "session">> \o Stats
             \o <<"surveys", "tags", "activities", "touch", "connections", "logs", "over">>
Stages == {"idle"} \cup {Order[i] : i \in DOMAIN Order}
Calls == 1..Attempts

\* The tables copied by readloop are not those with a stage of their own, and
\* none is copied twice.
ASSUME StatsAssumption ==
    /\ Stats \in Seq(STRING)
    /\ \A i, j \in DOMAIN Stats : Stats[i] = Stats[j] => i = j
    /\ \A i \in DOMAIN Stats : Stats[i] \notin
           {"idle", "uncompress", "open", "events", "session", "surveys", "tags", "activities",
            "touch", "connections", "logs", "over", "locate"}

ASSUME DataAssumption ==
    /\ Attempts \in Nat \ {0}
    /\ RowsOf \in [RowStages -> Nat]
    /\ SurveyOf \in [1..RowsOf["tags"] -> 0..RowsOf["surveys"]]
    /\ ConnectionOf \in [1..RowsOf["logs"] -> 1..RowsOf["connections"]]
    /\ Located \subseteq 1..RowsOf["connections"]
    /\ LocationKnown \in BOOLEAN
    /\ MaxFaults \in Nat /\ MaxReadErrors \in Nat /\ MaxStops \in Nat

VARIABLES
    \* the waterfall of each call
    stage,     \* the stage it is in
    left,      \* rows of the stage still to be read
    buffer,    \* rows read and waiting for their turn to be inserted
    failed,    \* the variable "e" of the stage
    verdict,   \* what the final callback was called with
    cleaning,  \* where the cleanup waterfall is
    reply,     \* what the worker was told
    handle,    \* the sqlite connection
    \* shared by the calls of the importer
    temp,      \* whether the uncompressed file exists
    session,   \* per call, its row of table "sessions"
    inflight,  \* the statements PostgreSQL has not run yet
    stored,    \* the rows of the other tables
    \* history and bounds
    refused,   \* the calls one of whose row inserts was refused
    faults, readErrors, stops

waterfallVars == <<stage, left, buffer, failed>>
answerVars == <<verdict, cleaning, reply>>
dbVars == <<session, inflight, stored, refused>>
faultVars == <<faults, readErrors, stops>>
vars == <<waterfallVars, answerVars, handle, temp, dbVars, faultVars>>

Verdicts == {"none", "ok", "err"}
Row == [of : Calls, stage : RowStages, row : Nat \ {0}]
Statement == [of : Calls, stage : RowStages \cup {"locate"}, row : Nat \ {0}]

TypeOK ==
    /\ stage \in [Calls -> Stages] /\ left \in [Calls -> Nat] /\ buffer \in [Calls -> Seq(Nat \ {0})]
    /\ failed \in [Calls -> BOOLEAN]
    /\ verdict \in [Calls -> Verdicts] /\ reply \in [Calls -> Verdicts \cup {"lost"}]
    /\ cleaning \in [Calls -> {"none", "delete", "close", "unlink", "done"}]
    /\ handle \in [Calls -> {"none", "open", "closed"}]
    /\ temp \in BOOLEAN
    /\ session \in [Calls -> {"none", "stored", "deleted"}]
    /\ inflight \subseteq Statement /\ stored \subseteq Row /\ refused \subseteq Calls
    /\ faults \in 0..MaxFaults /\ readErrors \in 0..MaxReadErrors /\ stops \in 0..MaxStops

Init ==
    /\ stage = [a \in Calls |-> "idle"]
    /\ left = [a \in Calls |-> 0] /\ buffer = [a \in Calls |-> <<>>]
    /\ failed = [a \in Calls |-> FALSE]
    /\ verdict = [a \in Calls |-> "none"] /\ reply = [a \in Calls |-> "none"]
    /\ cleaning = [a \in Calls |-> "none"] /\ handle = [a \in Calls |-> "none"]
    /\ temp = FALSE
    /\ session = [a \in Calls |-> "none"]
    /\ inflight = {} /\ stored = {} /\ refused = {}
    /\ faults = 0 /\ readErrors = 0 /\ stops = 0

-----------------------------------------------------------------------------
(* The final callback of the waterfall and the cleanup it starts.          *)

\* Faulty variants of End: the callback is not limited to one call; the worker
\* is told before the cleanup; the session of a failed call is not deleted.
EndAgain(a, v) ==
    /\ verdict' = [verdict EXCEPT ![a] = v]
    /\ reply' = [reply EXCEPT ![a] = IF v = "err" THEN "err" ELSE @]
    /\ cleaning' = [cleaning EXCEPT ![a] =
           IF v = "ok" THEN "close" ELSE IF session[a] = "stored" THEN "delete" ELSE "done"]
EndAtOnce(a, v) ==
    IF verdict[a] # "none" THEN UNCHANGED answerVars
    ELSE /\ verdict' = [verdict EXCEPT ![a] = v]
         /\ reply' = [reply EXCEPT ![a] = v]
         /\ cleaning' = [cleaning EXCEPT ![a] =
                IF v = "ok" THEN "close"
                ELSE IF session[a] = "stored" THEN "delete" ELSE "done"]
EndWithoutDelete(a, v) ==
    IF verdict[a] # "none" THEN UNCHANGED answerVars
    ELSE /\ verdict' = [verdict EXCEPT ![a] = v]
         /\ reply' = [reply EXCEPT ![a] = IF v = "err" THEN "err" ELSE @]
         /\ cleaning' = [cleaning EXCEPT ![a] = "close"]

(***************************************************************************)
(* async calls the final callback once; an error that comes later is       *)
(* dropped.  With an error the worker is told at once: the cleanup only    *)
(* goes on, behind its back, when there is a session to delete.            *)
(***************************************************************************)
End(a, v) ==
    IF verdict[a] # "none" THEN UNCHANGED answerVars
    ELSE /\ verdict' = [verdict EXCEPT ![a] = v]
         /\ reply' = [reply EXCEPT ![a] = IF v = "err" THEN "err" ELSE @]
         /\ cleaning' = [cleaning EXCEPT ![a] =
                IF v = "ok" THEN "close"
                ELSE IF session[a] = "stored" THEN "delete" ELSE "done"]

\* callback(err) of the running stage: the waterfall is over.
Fail(a) == /\ End(a, "err")
           /\ stage' = [stage EXCEPT ![a] = "over"]
           /\ UNCHANGED <<left, buffer, failed>>

\* callback(null): the next stage starts; after the last one, the cleanup.
Follows(s) == Order[1 + CHOOSE i \in DOMAIN Order : Order[i] = s]

Proceed(a) ==
    LET next == Follows(stage[a])
    IN /\ stage' = [stage EXCEPT ![a] = next]
       /\ left' = [left EXCEPT ![a] = IF next \in RowStages THEN RowsOf[next] ELSE 0]
       /\ buffer' = [buffer EXCEPT ![a] = <<>>]
       /\ failed' = [failed EXCEPT ![a] = FALSE]
       /\ IF next = "over" THEN End(a, "ok") ELSE UNCHANGED answerVars

\* db._db.delete('sessions'): the foreign keys delete its rows as well.  When
\* the delete fails, the cleanup stops there.
DeleteSession(a) ==
    /\ cleaning[a] = "delete"
    /\ \/ /\ session' = [session EXCEPT ![a] = "deleted"]
          /\ stored' = {r \in stored : r.of # a}
          /\ cleaning' = [cleaning EXCEPT ![a] = "close"]
          /\ UNCHANGED faults
       \/ /\ faults < MaxFaults /\ faults' = faults + 1
          /\ cleaning' = [cleaning EXCEPT ![a] = "done"]
          /\ UNCHANGED <<session, stored>>
    /\ UNCHANGED <<waterfallVars, verdict, reply, handle, temp, inflight, refused,
                   readErrors, stops>>

CloseDb(a) ==
    /\ cleaning[a] = "close"
    /\ handle' = [handle EXCEPT ![a] = "closed"]
    /\ cleaning' = [cleaning EXCEPT ![a] = "unlink"]
    /\ UNCHANGED <<waterfallVars, verdict, reply, temp, dbVars, faultVars>>

Unlink(a) ==
    /\ cleaning[a] = "unlink"
    /\ temp' = FALSE
    /\ cleaning' = [cleaning EXCEPT ![a] = "done"]
    /\ reply' = [reply EXCEPT ![a] = IF @ = "none" THEN verdict[a] ELSE @]
    /\ UNCHANGED <<waterfallVars, verdict, handle, dbVars, faultVars>>

-----------------------------------------------------------------------------
(* The stages before the tables.                                           *)

\* The queue calls the importer again after an error, or after the worker
\* that ran the last call was lost.
Begin(a) ==
    /\ stage[a] = "idle"
    /\ a = 1 \/ (a > 1 /\ reply[a - 1] \in {"err", "lost"})
    /\ stage' = [stage EXCEPT ![a] = "uncompress"]
    /\ UNCHANGED <<left, buffer, failed, answerVars, handle, temp, dbVars, faultVars>>

ReadError == readErrors < MaxReadErrors /\ readErrors' = readErrors + 1

\* Every call for a file uncompresses it to the same path.
Uncompress(a) ==
    /\ stage[a] = "uncompress"
    /\ \/ Proceed(a) /\ temp' = TRUE /\ UNCHANGED readErrors
       \/ Fail(a) /\ ReadError /\ UNCHANGED temp
    /\ UNCHANGED <<handle, dbVars, faults, stops>>

\* Another call's cleanup may have removed the file in the meantime.
Open(a) ==
    /\ stage[a] = "open"
    /\ \/ temp /\ Proceed(a) /\ UNCHANGED readErrors
       \/ ~temp /\ Fail(a) /\ UNCHANGED readErrors
       \/ Fail(a) /\ ReadError
    /\ handle' = [handle EXCEPT ![a] = "open"]
    /\ UNCHANGED <<temp, dbVars, faults, stops>>

\* The start and the stop event of the session; a file without a start event
\* counts, like one that cannot be read, as an error.
ReadEvents(a) ==
    /\ stage[a] = "events"
    /\ \/ Proceed(a) /\ UNCHANGED readErrors
       \/ Fail(a) /\ ReadError
    /\ UNCHANGED <<handle, temp, dbVars, faults, stops>>

InsertSession(a) ==
    /\ stage[a] = "session"
    /\ \/ Proceed(a) /\ session' = [session EXCEPT ![a] = "stored"] /\ UNCHANGED faults
       \/ Fail(a) /\ faults < MaxFaults /\ faults' = faults + 1 /\ UNCHANGED session
    /\ UNCHANGED <<handle, temp, inflight, stored, refused, readErrors, stops>>

\* The update of sessions.ended_at is built before the waterfall runs, with
\* no id to match: it changes no row.
Touch(a) ==
    /\ stage[a] = "touch"
    /\ \/ Proceed(a) /\ UNCHANGED faults
       \/ Fail(a) /\ faults < MaxFaults /\ faults' = faults + 1
    /\ UNCHANGED <<handle, temp, dbVars, readErrors, stops>>

-----------------------------------------------------------------------------
(* The stages that read a table, row by row, and insert what they read.    *)

Buffered == {"surveys", "activities"}   \* read all, then insert one by one

\* survey_session: a tag whose survey was not inserted is skipped.
Surveyed(a, tag) == [of |-> a, stage |-> "surveys", row |-> SurveyOf[tag]] \in stored

\* The number of the row being read.
Reading(a) == RowsOf[stage[a]] - left[a] + 1

\* The row callback of file.db.each().
ReadRow(a) ==
    /\ stage[a] \in RowStages /\ left[a] > 0 /\ handle[a] = "open"
    /\ left' = [left EXCEPT ![a] = @ - 1]
    /\ LET n == Reading(a)
           s == IF stage[a] = "connections" /\ n \in Located THEN "locate" ELSE stage[a]
       IN IF failed[a] \/ (stage[a] = "tags" /\ ~Surveyed(a, n))
          THEN UNCHANGED <<buffer, inflight>>
          ELSE IF stage[a] \in Buffered
          THEN buffer' = [buffer EXCEPT ![a] = Append(@, n)] /\ UNCHANGED inflight
          ELSE inflight' = inflight \cup {[of |-> a, stage |-> s, row |-> n]}
               /\ UNCHANGED buffer
    /\ UNCHANGED <<stage, failed, answerVars, handle, temp, session, stored, refused,
                   faultVars>>

\* Reading stops with an error: the file is damaged, or the cleanup has
\* closed the connection under a waterfall that went on after an error.
BreakRead(a) ==
    /\ stage[a] \in RowStages /\ left[a] > 0
    /\ IF handle[a] = "open" THEN ReadError ELSE UNCHANGED readErrors
    /\ left' = [left EXCEPT ![a] = 0]
    /\ failed' = [failed EXCEPT ![a] = TRUE]
    /\ UNCHANGED <<stage, buffer, answerVars, handle, temp, dbVars, faults, stops>>

\* Faulty variants of EndRead: the buffered rows are not waited for; a read
\* error does not reach the callback.
EndReadEager(a) ==
    /\ stage[a] \in RowStages /\ left[a] = 0
    /\ IF failed[a] /\ stage[a] # "surveys" THEN Fail(a) ELSE Proceed(a)
    /\ UNCHANGED <<handle, temp, dbVars, faultVars>>
EndReadSilent(a) ==
    /\ stage[a] \in RowStages /\ left[a] = 0 /\ buffer[a] = <<>>
    /\ ~failed[a] /\ Proceed(a)
    /\ UNCHANGED <<handle, temp, dbVars, faultVars>>

\* The completion callback of each(): on to the next stage, with the errors
\* known by now.  readloopESM does not look at them.
EndRead(a) ==
    /\ stage[a] \in RowStages /\ left[a] = 0 /\ buffer[a] = <<>>
    /\ IF failed[a] /\ stage[a] # "surveys" THEN Fail(a) ELSE Proceed(a)
    /\ UNCHANGED <<handle, temp, dbVars, faultVars>>

\* Faulty variant of InsertNext: a refused insert does not end the stage.
InsertNextAnyway(a) ==
    /\ stage[a] \in Buffered /\ left[a] = 0 /\ buffer[a] # <<>>
    /\ buffer' = [buffer EXCEPT ![a] = Tail(@)]
    /\ \/ stored' = stored \cup {[of |-> a, stage |-> stage[a], row |-> Head(buffer[a])]}
          /\ UNCHANGED faults
       \/ faults < MaxFaults /\ faults' = faults + 1 /\ UNCHANGED stored
    /\ UNCHANGED <<stage, left, failed, answerVars, handle, temp, session, inflight,
                   refused, readErrors, stops>>

\* One turn of "loop" in readloopESM and in the activity stage; after a read
\* error the activities are dropped.  The insert is waited for.
InsertNext(a) ==
    /\ stage[a] \in Buffered /\ left[a] = 0 /\ buffer[a] # <<>>
    /\ \/ /\ failed[a] /\ stage[a] = "activities"
          /\ Fail(a) /\ UNCHANGED <<stored, faults>>
       \/ /\ ~failed[a] \/ stage[a] = "surveys"
          /\ buffer' = [buffer EXCEPT ![a] = Tail(@)]
          /\ stored' = stored \cup {[of |-> a, stage |-> stage[a], row |-> Head(buffer[a])]}
          /\ UNCHANGED <<stage, left, failed, answerVars, faults>>
       \/ /\ ~failed[a] \/ stage[a] = "surveys"
          /\ faults < MaxFaults /\ faults' = faults + 1
          /\ Fail(a) /\ UNCHANGED stored
    /\ UNCHANGED <<handle, temp, session, inflight, refused, readErrors, stops>>

-----------------------------------------------------------------------------
(* PostgreSQL runs the statements of the pool's connections.               *)

\* Faulty variant of Accepted: a schema without the foreign keys.
AcceptedAlways(st) == TRUE

\* The foreign keys of the streamed rows, except of the logs.
Accepted(st) == session[st.of] = "stored"

\* The callback of a refused insert, "e = e || err": only the closure of its
\* own stage learns of it, and only an unfinished stage looks at it again.
Refuse(st) ==
    /\ refused' = refused \cup {st.of}
    /\ failed' = [failed EXCEPT ![st.of] = @ \/ stage[st.of] = st.stage]

RunInsert(st) ==
    /\ st.stage \notin {"logs", "locate"}
    /\ inflight' = inflight \ {st}
    /\ \/ /\ Accepted(st)
          /\ stored' = stored \cup {st} /\ UNCHANGED <<failed, refused, faults>>
       \/ /\ ~Accepted(st)
          /\ Refuse(st) /\ UNCHANGED <<stored, faults>>
       \/ /\ faults < MaxFaults /\ faults' = faults + 1
          /\ Refuse(st) /\ UNCHANGED stored
    /\ UNCHANGED <<stage, left, buffer, answerVars, handle, temp, session, readErrors, stops>>

\* INSERT ... SELECT ... FROM connections WHERE started_at = ...: one row for
\* every matching connection, of whatever session, and none, without an
\* error, when there is no such connection yet.
RunLog(st) ==
    /\ st.stage = "logs"
    /\ inflight' = inflight \ {st}
    /\ \/ /\ stored' = stored \cup
                 {[st EXCEPT !.of = c.of] : c \in
                     {r \in stored : r.stage = "connections" /\ r.row = ConnectionOf[st.row]}}
          /\ UNCHANGED <<failed, refused, faults>>
       \/ /\ faults < MaxFaults /\ faults' = faults + 1
          /\ Refuse(st) /\ UNCHANGED stored
    /\ UNCHANGED <<stage, left, buffer, answerVars, handle, temp, session, readErrors, stops>>

(***************************************************************************)
(* The lookup of a connection's location.  An address that is known leads  *)
(* to the insert of the connection; one that is not is to be inserted from *)
(* the sqlite row, whose columns table "locations" does not have.  Both    *)
(* errors go to the waterfall's callback, while the stage reads on.        *)
(***************************************************************************)
RunLocate(st) ==
    /\ st.stage = "locate"
    /\ \/ /\ LocationKnown
          /\ inflight' = (inflight \ {st}) \cup {[st EXCEPT !.stage = "connections"]}
          /\ UNCHANGED <<answerVars, faults>>
       \/ /\ \/ ~LocationKnown /\ UNCHANGED faults
             \/ faults < MaxFaults /\ faults' = faults + 1
          /\ End(st.of, "err")
          /\ inflight' = inflight \ {st}
    /\ UNCHANGED <<waterfallVars, handle, temp, session, stored, refused, readErrors, stops>>

\* The worker dies, with all that its calls hold in memory and all they have
\* not sent; the session rows and the temp file stay.  A statement PostgreSQL
\* has received counts as run before the stop.
Stop ==
    /\ stops < MaxStops /\ stops' = stops + 1
    /\ stage' = [a \in Calls |-> IF stage[a] = "idle" THEN "idle" ELSE "over"]
    /\ cleaning' = [a \in Calls |-> IF stage[a] = "idle" THEN "none" ELSE "done"]
    /\ reply' = [a \in Calls |-> IF stage[a] # "idle" /\ reply[a] = "none" THEN "lost"
                                                                            ELSE reply[a]]
    /\ inflight' = {}
    /\ handle' = [a \in Calls |-> IF handle[a] = "open" THEN "closed" ELSE handle[a]]
    /\ UNCHANGED <<left, buffer, failed, verdict, temp, session, stored, refused,
                   faults, readErrors>>

Step(a) ==
    \/ Uncompress(a) \/ Open(a) \/ ReadEvents(a) \/ InsertSession(a) \/ Touch(a)
    \/ ReadRow(a) \/ BreakRead(a) \/ EndRead(a) \/ InsertNext(a)

Cleanup(a) == DeleteSession(a) \/ CloseDb(a) \/ Unlink(a)

Run == \E st \in inflight : RunInsert(st) \/ RunLog(st) \/ RunLocate(st)

Next ==
    \/ \E a \in Calls : Begin(a) \/ Step(a) \/ Cleanup(a)
    \/ Run
    \/ Stop

Spec == Init /\ [][Next]_vars

(***************************************************************************)
(* The callbacks of the event loop run, and PostgreSQL answers every       *)
(* statement.  Nothing is assumed of the queue, nor of faults.             *)
(***************************************************************************)
FairSpec == /\ Spec
            /\ \A a \in Calls : WF_vars(Step(a)) /\ WF_vars(Cleanup(a))
            /\ WF_vars(Run)

-----------------------------------------------------------------------------
(* Properties.                                                             *)

Has(a, s) == {r \in stored : r.of = a /\ r.stage = s}
Quiet(a) == \A st \in inflight : st.of # a

(***************************************************************************)
(* Once the session of a failed call is deleted, no row of the call is     *)
(* there, and none comes back, although inserts of the call may still be   *)
(* in flight (process_sqlite.js:875 and the foreign keys of the schema).   *)
(***************************************************************************)
NothingOfADeletedSession ==
    \A a \in Calls : session[a] = "deleted" => \A r \in stored : r.of # a

(***************************************************************************)
(* The stages that wait for their inserts keep the promise of lines 19-21: *)
(* a call that answers without an error has stored all its activities, and *)
(* all its surveys if the file could be read.                              *)
(***************************************************************************)
AwaitedRowsAreStored ==
    \A a \in Calls : reply[a] = "ok" =>
        /\ Cardinality(Has(a, "activities")) = RowsOf["activities"]
        /\ readErrors = 0 => Cardinality(Has(a, "surveys")) = RowsOf["surveys"]

(***************************************************************************)
(* An answer is final, and an answer without error is never undone: the    *)
(* callback of a location lookup that fails after it does not delete the   *)
(* session (process_sqlite.js:632-635, 869-895).                           *)
(***************************************************************************)
AnswerStands ==
    [][\A a \in Calls : reply[a] # "none" =>
           /\ reply'[a] = reply[a]
           /\ reply[a] = "ok" => session'[a] = "stored"]_vars

(***************************************************************************)
(* An answer without error comes after the cleanup: the sqlite connection  *)
(* is closed and the temporary file is gone (process_sqlite.js:882-891).   *)
(***************************************************************************)
SuccessIsClean ==
    \A a \in Calls : reply[a] = "ok" => handle[a] = "closed" /\ ~temp

(***************************************************************************)
(* A session that stays next to the one of the successful call was left by *)
(* a stop of the worker or a delete that PostgreSQL refused, or is about   *)
(* to be deleted: failures alone do not double a session.                  *)
(***************************************************************************)
NoDoubleSession ==
    \A a, b \in Calls :
        a # b /\ reply[a] = "ok" /\ session[b] = "stored" =>
            cleaning[b] = "delete" \/ faults > 0 \/ stops > 0

\* The rows a call is to insert: a tag needs its survey, and a connection whose
\* address table "locations" does not know is never inserted.
Wanted(s) == {n \in 1..RowsOf[s] : /\ s = "tags" => SurveyOf[n] # 0
                                   /\ s = "connections" => LocationKnown \/ n \notin Located}

(***************************************************************************)
(* When nothing fails, an answer without error means that every row but    *)
(* those of the logs is stored or on its way.  Only the connections of an  *)
(* unknown address may be missing: a failure of their lookup that comes    *)
(* after the answer is dropped (process_sqlite.js:632-637).                *)
(***************************************************************************)
FaultFreeImportIsComplete ==
    \A a \in Calls :
        reply[a] = "ok" /\ faults + readErrors + stops = 0 /\ Quiet(a) =>
            \A s \in RowStages \ {"logs"} :
                Has(a, s) = {[of |-> a, stage |-> s, row |-> n] : n \in Wanted(s)}

(***************************************************************************)
(* Every call of the importer answers, or the worker dies: no error, early *)
(* or late, leaves the job of the queue without an answer.                 *)
(***************************************************************************)
EveryCallAnswers ==
    \A a \in Calls : stage[a] = "uncompress" ~> reply[a] # "none"

(***************************************************************************)
(* process_sqlite.js:19-21: "wrap everything in a transaction on the       *)
(* backend db -- any failure to write there will cancel the file           *)
(* processing anc call cb with error".                                     *)
(***************************************************************************)
FailedWriteIsReported == \A a \in Calls : a \in refused => reply[a] # "ok"

-----------------------------------------------------------------------------
(* The inductive invariant behind the proofs.                              *)

Working == RowStages \cup {"touch"}
Late == {"connections", "logs", "over"}

\* No more rows are left to be read than there are.
LeftInv == \A a \in Calls : stage[a] \in RowStages => left[a] <= RowsOf[stage[a]]

\* How far a call is, and what has become of its session.  Only a lookup of
\* a location can end a call whose stage goes on, and then it is a late one.
WaterfallInv ==
    /\ \A a \in Calls :
           /\ stage[a] \in Stages \ (Working \cup {"over"}) => session[a] = "none"
           /\ stage[a] \in Working => session[a] # "none"
           /\ verdict[a] # "none" => stage[a] \in Late
           /\ verdict[a] = "none" => session[a] # "deleted" /\ cleaning[a] \in {"none", "done"}
           /\ verdict[a] = "ok" => /\ session[a] = "stored" /\ stage[a] = "over"
                                   /\ cleaning[a] \in {"close", "unlink", "done"}
    /\ \A st \in inflight : st.stage = "locate" => stage[st.of] \in Late

\* What an answer says of the call, and that the calls come one by one.
ReplyInv ==
    /\ \A a \in Calls :
           /\ stage[a] = "idle" => reply[a] = "none"
           /\ reply[a] = "lost" => /\ stage[a] = "over" /\ cleaning[a] = "done" /\ stops > 0
                                   /\ Quiet(a)
           /\ reply[a] = "ok" => /\ verdict[a] = "ok" /\ cleaning[a] = "done"
                                 /\ handle[a] = "closed" /\ ~temp
           /\ (reply[a] = "err") <=> (verdict[a] = "err")
           /\ cleaning[a] = "unlink" => handle[a] = "closed"
           /\ verdict[a] = "err" /\ session[a] = "stored" =>
                  cleaning[a] = "delete" \/ faults > 0 \/ stops > 0
    /\ \A a, b \in Calls : b < a /\ stage[a] # "idle" => reply[b] \in {"err", "lost"}

ImportInv == TypeOK /\ LeftInv /\ WaterfallInv /\ ReplyInv /\ NothingOfADeletedSession

(***************************************************************************)
(* What has to be added for AwaitedRowsAreStored and                       *)
(* FaultFreeImportIsComplete: in a call that has not gone wrong, the rows  *)
(* of a stage that are stored, in flight or buffered are those that have   *)
(* been read.                                                              *)
(***************************************************************************)
\* No buffered row is in flight, and nothing is before its session.
FlightInv == \A st \in inflight : st.stage \notin Buffered /\ session[st.of] # "none"

\* Nothing closes the file under a call that has not been ended.
OpenInv ==
    \A a \in Calls : stage[a] \in {"events", "session"} \cup Working /\ verdict[a] = "none"
                       => handle[a] = "open"

Going(a) == verdict[a] # "err" /\ (stage[a] = "over" => verdict[a] = "ok")

\* The stages whose rows are accounted for: one that waits for its inserts, or
\* any of them as long as nothing fails.
Sure(s) == \/ s = "activities"
           \/ s = "surveys" /\ readErrors = 0
           \/ faults + readErrors + stops = 0

Place(s) == CHOOSE i \in DOMAIN Order : Order[i] = s

Read(a, s) == IF stage[a] = s THEN 1..(RowsOf[s] - left[a])
              ELSE IF stage[a] # "idle" /\ Place(s) < Place(stage[a]) THEN 1..RowsOf[s]
              ELSE {}

\* A lookup of a known address leads to the insert of the connection.
Flying(a, s) == {st \in inflight :
                    /\ st.of = a
                    /\ st.stage = s \/ (s = "connections" /\ st.stage = "locate" /\ LocationKnown)}
Waiting(a, s) == IF stage[a] = s THEN {buffer[a][i] : i \in DOMAIN buffer[a]} ELSE {}

Known(a, s) == {r.row : r \in Has(a, s)} \cup {st.row : st \in Flying(a, s)}
                   \cup Waiting(a, s)

Account(a, s) == Going(a) /\ Sure(s) =>
    \/ stage[a] = s /\ failed[a] /\ s = "activities" /\ readErrors > 0
    \/ /\ stage[a] = s => ~failed[a]
       /\ Known(a, s) = Read(a, s) \cap Wanted(s)

AccountsInv == \A a \in Calls, s \in RowStages \ {"logs"} : Account(a, s)

RowsInv == FlightInv /\ OpenInv /\ AccountsInv
=============================================================================
