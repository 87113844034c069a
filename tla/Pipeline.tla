------------------------------ MODULE Pipeline ------------------------------
(***************************************************************************)
(* The file pipeline of Hostview processing: app/app.js (the master, which *)
(* watches the incoming folder, and the workers, which handle one queue    *)
(* job per file) together with the two tables of app/lib/sqldb.js that     *)
(* decide what happens to a file ("devices" and "files").                  *)
(*                                                                         *)
(* The job queue (kue on Redis), the folder watcher (chokidar), rsync and  *)
(* PostgreSQL are external: they are modelled from the way app.js and      *)
(* sqldb.js use them.  Redis and PostgreSQL survive every crash, the node  *)
(* processes and everything they hold in memory do not.                    *)
(*                                                                         *)
(* What the importers of a file do is abstracted to its outcome; module    *)
(* SqliteImport opens that box for the sqlite files.                       *)
(***************************************************************************)
EXTENDS Naturals, Sequences, FiniteSets

CONSTANTS
    Paths,        \* files of the clients, by their path below incoming/
    Keys,         \* the (device_id, basename) pairs that index table "files"
    Devices,      \* the device names that index table "devices"
    KeyOf,        \* path -> key: two folders may hold the same basename
    DeviceOf,     \* key -> device
    TypeOf,       \* path -> what getFileType says of it
    Shallow,      \* the paths with fewer than the five expected components
    Workers,      \* the forked worker processes (config.workers)
    Concurrency,  \* jobs a worker handles at a time (config.concurrency)
    Retry,        \* attempts given to a job (config.retry)
    MaxJobs,      \* bound: how many jobs are ever created
    NoPath, NoWorker,
    MaxStops,     \* bound: how often the master, and so the cluster, stops
    MaxCrashes,   \* bound: how often a single worker dies
    DbMayFail,    \* whether a database call may return an error
    QueueMayFail, \* whether saving a new job may fail
    Redeliver     \* whether rsync may be cut between copying a file and
                  \* removing its source, and so deliver the file again

FileTypes == {"sqlite", "pcap", "json", "other"}

ASSUME PathAssumption ==
    /\ NoPath \notin Paths
    /\ KeyOf \in [Paths -> Keys]
    /\ DeviceOf \in [Keys -> Devices]
    /\ TypeOf \in [Paths -> FileTypes]
    /\ Shallow \subseteq Paths
ASSUME WorkerAssumption == NoWorker \notin Workers /\ Concurrency \in Nat \ {0}
ASSUME RetryAssumption == Retry \in Nat \ {0} /\ MaxJobs \in Nat
ASSUME BoundAssumption ==
    /\ MaxStops \in Nat /\ MaxCrashes \in Nat
    /\ {DbMayFail, QueueMayFail, Redeliver} \subseteq BOOLEAN

VARIABLES
    outbox,       \* files still on the upload server
    incoming, processed, failed,  \* the three folders of the data directory
    master,       \* "up" or "down"
    announced,    \* files the monitor has reported since the master started
    events,       \* settled jobs whose event has not reached its handler yet
    moving,       \* settled jobs whose file the master is about to move
    up,           \* the live workers
    handler,      \* per job, where the worker that handles it is
    job,          \* per id, the job as Redis holds it
    removed,      \* jobs deleted from Redis
    devices,      \* rows of table "devices"
    files,        \* per key, the status column of its rows of table "files"
    imports,      \* history: how often the data of a job's file was imported
    kept,         \* history: jobs whose file was put aside, as a part of a capture
    stops, crashes                                     \* the bounds' counters

folderVars == <<outbox, incoming, processed, failed>>
masterVars == <<master, announced, events, moving>>
queueVars == <<job, removed>>
dbVars == <<devices, files>>
faultVars == <<stops, crashes>>
vars == <<folderVars, masterVars, up, handler, queueVars, dbVars, imports, kept, faultVars>>

JobIds == 1..MaxJobs  \* kue numbers the jobs

Steps == {"idle", "device", "register", "begin", "beginInsert", "beginUpdate",
          "open", "import", "end", "endUpdate", "done"}
Results == {"none", "ok", "err"}
Statuses == {"processing", "errored", "success"}
JobStates == {"unused", "inactive", "active", "delayed", "complete", "failed"}

HandlerSet == [worker : Workers \cup {NoWorker}, step : Steps, result : Results]
JobSet == [path : Paths \cup {NoPath}, state : JobStates, attempts : 0..Retry]

Idle == [worker |-> NoWorker, step |-> "idle", result |-> "none"]

TypeOK ==
    /\ outbox \subseteq Paths /\ incoming \subseteq Paths
    /\ processed \subseteq Paths /\ failed \subseteq Paths
    /\ master \in {"up", "down"} /\ announced \subseteq Paths
    /\ events \subseteq JobIds /\ moving \subseteq JobIds
    /\ up \subseteq Workers
    /\ handler \in [JobIds -> HandlerSet]
    /\ job \in [JobIds -> JobSet]
    /\ removed \subseteq JobIds
    /\ devices \subseteq Devices
    /\ files \in [Keys -> Seq(Statuses)]
    /\ imports \in [JobIds -> Nat]
    /\ kept \subseteq JobIds
    /\ stops \in 0..MaxStops /\ crashes \in 0..MaxCrashes

Init ==
    /\ outbox = Paths /\ incoming = {} /\ processed = {} /\ failed = {}
    /\ master = "up" /\ announced = {} /\ events = {} /\ moving = {}
    /\ up = Workers
    /\ handler = [j \in JobIds |-> Idle]
    /\ job = [j \in JobIds |-> [path |-> NoPath, state |-> "unused", attempts |-> 0]]
    /\ removed = {}
    /\ devices = {}
    /\ files = [k \in Keys |-> <<>>]
    /\ imports = [j \in JobIds |-> 0]
    /\ kept = {}
    /\ stops = 0 /\ crashes = 0

Key(j) == KeyOf[job[j].path]

(***************************************************************************)
(* rsync --remove-source-files copies a file to incoming/ and then removes *)
(* the source; a copy over a file that is still there raises no "add".     *)
(***************************************************************************)
Deliver(p) ==
    /\ p \in outbox
    /\ incoming' = incoming \cup {p}
    /\ outbox' \in {outbox \ {p}} \cup (IF Redeliver THEN {outbox} ELSE {})
    /\ UNCHANGED <<processed, failed, masterVars, up, handler, queueVars, dbVars,
                   imports, kept, faultVars>>

-----------------------------------------------------------------------------
(* The master: the monitor, and the handlers of the two job events.        *)

(***************************************************************************)
(* monitor.on('add') and enqueue.  Every file of the folder is reported    *)
(* once per life of the master: the scan at the start reports the files    *)
(* that are already there.  An error of save() is only logged.             *)
(***************************************************************************)
Enqueue(p) ==
    /\ master = "up"
    /\ p \in incoming \ announced
    /\ announced' = announced \cup {p}
    /\ \/ \E j \in JobIds :
              /\ job[j].state = "unused"
              /\ \A i \in 1..(j - 1) : job[i].state # "unused"
              /\ job' = [job EXCEPT ![j] = [path |-> p, state |-> "inactive",
                                            attempts |-> 0]]
       \/ QueueMayFail /\ UNCHANGED job
    /\ UNCHANGED <<folderVars, master, events, moving, up, handler, removed, dbVars,
                   imports, kept, faultVars>>

(***************************************************************************)
(* queue.on('job failed') and queue.on('job complete'): both look the job  *)
(* up, remove it from Redis and start to move its file.  Only this handler *)
(* reads a settled job, so the removal is not kept apart from it.          *)
(***************************************************************************)
OnSettled(j) ==
    /\ master = "up"
    /\ j \in events
    /\ events' = events \ {j}
    /\ removed' = removed \cup {j}
    /\ moving' = moving \cup {j}
    /\ UNCHANGED <<folderVars, master, announced, up, handler, job, dbVars, imports, kept,
                   faultVars>>

\* Faulty variant of Movable: the move overwrites what is there.
MovableOver(p, folder) == p \in incoming

\* fs.move without clobber: nothing happens, but for a log line, when the
\* source is gone or the destination exists.
Movable(p, folder) == p \in incoming /\ p \notin folder

\* Faulty variant of MoveFile: the file is copied (fs.copy for fs.move).
MoveFileByCopy(j) ==
    /\ master = "up"
    /\ j \in moving
    /\ moving' = moving \ {j}
    /\ LET p == job[j].path
           settled == job[j].state
       IN /\ failed' = IF settled = "failed" THEN failed \cup {p} ELSE failed
          /\ processed' = IF settled = "complete" THEN processed \cup {p} ELSE processed
    /\ UNCHANGED <<outbox, incoming, master, announced, events, up, handler, queueVars,
                   dbVars, imports, kept, faultVars>>

(***************************************************************************)
(* The callback of fs.move.  The file leaves incoming/ for failed/ or for  *)
(* processed/, and the monitor forgets it.                                 *)
(***************************************************************************)
MoveFile(j) ==
    /\ master = "up"
    /\ j \in moving
    /\ moving' = moving \ {j}
    /\ LET p == job[j].path
           settled == job[j].state
           moves == Movable(p, IF settled = "failed" THEN failed ELSE processed)
           gone == IF moves THEN {p} ELSE {}
       IN /\ incoming' = incoming \ gone
          /\ announced' = announced \ gone
          /\ failed' = IF settled = "failed" THEN failed \cup gone ELSE failed
          /\ processed' = IF settled = "complete" THEN processed \cup gone ELSE processed
    /\ UNCHANGED <<outbox, master, events, up, handler, queueVars, dbVars, imports, kept,
                   faultVars>>

(***************************************************************************)
(* The master ends, on SIGTERM or by a crash, and its workers end with it: *)
(* what the node processes held is lost, and a job that was being handled  *)
(* stays "active" in Redis, where nobody takes it up again.                *)
(***************************************************************************)
MasterStop ==
    /\ master = "up"
    /\ stops < MaxStops
    /\ stops' = stops + 1
    /\ master' = "down"
    /\ announced' = {} /\ events' = {} /\ moving' = {}
    /\ up' = {}
    /\ handler' = [j \in JobIds |-> Idle]
    /\ UNCHANGED <<folderVars, queueVars, dbVars, imports, kept, crashes>>

\* A start of the cluster: the workers are forked, once, and the monitor
\* starts with nothing announced.
MasterStart ==
    /\ master = "down"
    /\ master' = "up"
    /\ up' = Workers
    /\ UNCHANGED <<folderVars, announced, events, moving, handler, queueVars, dbVars,
                   imports, kept, faultVars>>

\* A worker dies alone.  Nothing in app.js forks another one.
WorkerCrash(w) ==
    /\ w \in up
    /\ crashes < MaxCrashes
    /\ crashes' = crashes + 1
    /\ up' = up \ {w}
    /\ handler' = [j \in JobIds |-> IF handler[j].worker = w THEN Idle ELSE handler[j]]
    /\ UNCHANGED <<folderVars, masterVars, queueVars, dbVars, imports, kept, stops>>

-----------------------------------------------------------------------------
(* The workers: the callback given to queue.process, step by step.         *)

Goto(j, step) == handler' = [handler EXCEPT ![j].step = step]
Finish(j, result) ==
    handler' = [handler EXCEPT ![j].step = "done", ![j].result = result]
EndWith(j, result) ==
    handler' = [handler EXCEPT ![j].step = "end", ![j].result = result]

Rank(p) == CASE TypeOf[p] = "sqlite" -> 1
             [] TypeOf[p] = "pcap" -> 3
             [] OTHER -> 2

\* A worker with a free slot takes a waiting job of the highest priority.
Start(w, j) ==
    /\ w \in up
    /\ job[j].state = "inactive"
    /\ \A i \in JobIds : job[i].state = "inactive" =>
           Rank(job[j].path) <= Rank(job[i].path)
    /\ Cardinality({i \in JobIds : handler[i].worker = w}) < Concurrency
    /\ job' = [job EXCEPT ![j].state = "active"]
    /\ handler' = [handler EXCEPT ![j] =
           IF job[j].path \in Shallow
           THEN [worker |-> w, step |-> "done", result |-> "err"]
           ELSE [worker |-> w, step |-> "device", result |-> "none"]]
    /\ UNCHANGED <<folderVars, masterVars, up, removed, dbVars, imports, kept, faultVars>>

\* getOrInsert('devices'): the select ...
LookupDevice(j) ==
    /\ handler[j].step = "device"
    /\ Goto(j, IF DeviceOf[Key(j)] \in devices THEN "begin" ELSE "register")
    /\ UNCHANGED <<folderVars, masterVars, up, queueVars, dbVars, imports, kept, faultVars>>

\* ... and the insert, refused by the unique index when another job has
\* committed the same device since the select.
RegisterDevice(j) ==
    /\ handler[j].step = "register"
    /\ IF DeviceOf[Key(j)] \in devices
       THEN Finish(j, "err") /\ UNCHANGED devices
       ELSE Goto(j, "begin") /\ devices' = devices \cup {DeviceOf[Key(j)]}
    /\ UNCHANGED <<folderVars, masterVars, up, queueVars, files, imports, kept, faultVars>>

\* Faulty variant of Succeeded: the status check is dropped.
SucceededUnchecked(k) == FALSE

\* Faulty variant of BeginFile: the select also filters on the status, and
\* no longer finds the row of an errored attempt.
BeginFileByStatus(j) ==
    /\ handler[j].step = "begin"
    /\ Goto(j, IF files[Key(j)] = <<"processing">> THEN "beginUpdate" ELSE "beginInsert")
    /\ UNCHANGED <<folderVars, masterVars, up, queueVars, dbVars, imports, kept, faultVars>>

(***************************************************************************)
(* insertOrUpdateFile before processing.  The transaction runs at READ     *)
(* COMMITTED: its select and its write are two steps, and no index makes a *)
(* (device, basename) pair unique.                                         *)
(***************************************************************************)
Succeeded(k) == Len(files[k]) = 1 /\ files[k][1] = "success"

BeginFile(j) ==
    /\ handler[j].step = "begin"
    /\ IF Succeeded(Key(j))
       THEN Finish(j, "err")
       ELSE Goto(j, IF Len(files[Key(j)]) = 1 THEN "beginUpdate" ELSE "beginInsert")
    /\ UNCHANGED <<folderVars, masterVars, up, queueVars, dbVars, imports, kept, faultVars>>

(***************************************************************************)
(* The write, the closing select and the commit.  When the closing select  *)
(* sees several rows, its accessor may return the first one or an error,   *)
(* which rolls the transaction back; it sees a row another transaction     *)
(* inserted only if that one has committed.                                *)
(***************************************************************************)
BeginInsert(j) ==
    /\ handler[j].step = "beginInsert"
    /\ \/ /\ files' = [files EXCEPT ![Key(j)] = Append(@, "processing")]
          /\ Goto(j, "open")
       \/ /\ files[Key(j)] # <<>>
          /\ Finish(j, "err") /\ UNCHANGED files
    /\ UNCHANGED <<folderVars, masterVars, up, queueVars, devices, imports, kept, faultVars>>

BeginUpdate(j) ==
    /\ handler[j].step = "beginUpdate"
    /\ \/ /\ files' = [files EXCEPT ![Key(j)][1] = "processing"]
          /\ Goto(j, "open")
       \/ /\ Len(files[Key(j)]) > 1
          /\ Finish(j, "err") /\ UNCHANGED files
    /\ UNCHANGED <<folderVars, masterVars, up, queueVars, devices, imports, kept, faultVars>>

(***************************************************************************)
(* The dispatch on the file type.  A json file always ends in an error, an *)
(* unknown one in success; the importers of the two other types first read *)
(* the file from incoming/.                                                *)
(***************************************************************************)
OpenFile(j) ==
    /\ handler[j].step = "open"
    /\ CASE TypeOf[job[j].path] = "json" -> EndWith(j, "err")
         [] TypeOf[job[j].path] = "other" -> EndWith(j, "ok")
         [] OTHER -> IF job[j].path \in incoming THEN Goto(j, "import")
                                                 ELSE EndWith(j, "err")
    /\ UNCHANGED <<folderVars, masterVars, up, queueVars, dbVars, imports, kept, faultVars>>

(***************************************************************************)
(* The importer calls processdone, with or without an error.  A part of a  *)
(* capture whose other parts are missing succeeds with nothing imported:   *)
(* it is kept next to the others, until the job of the last one imports    *)
(* them all (process_pcap.js:48-71, module PcapImport).                    *)
(***************************************************************************)
Import(j) ==
    /\ handler[j].step = "import"
    /\ \/ EndWith(j, "ok") /\ imports' = [imports EXCEPT ![j] = @ + 1] /\ UNCHANGED kept
       \/ /\ TypeOf[job[j].path] = "pcap"
          /\ EndWith(j, "ok") /\ kept' = kept \cup {j} /\ UNCHANGED imports
       \/ EndWith(j, "err") /\ UNCHANGED <<imports, kept>>
    /\ UNCHANGED <<folderVars, masterVars, up, queueVars, dbVars, faultVars>>

(***************************************************************************)
(* processdone calls insertOrUpdateFile again and ignores its error.  The  *)
(* file object now carries fields that are no columns, so an insert fails: *)
(* only the update of a single row can still happen.                       *)
(***************************************************************************)
EndFile(j) ==
    /\ handler[j].step = "end"
    /\ Goto(j, IF Len(files[Key(j)]) = 1 /\ ~Succeeded(Key(j)) THEN "endUpdate"
                                                               ELSE "done")
    /\ UNCHANGED <<folderVars, masterVars, up, queueVars, dbVars, imports, kept, faultVars>>

\* Faulty variant of FinalStatus: the outcome is not looked at.
FinalStatusBlind(result) == "errored"

FinalStatus(result) == IF result = "ok" THEN "success" ELSE "errored"

EndUpdate(j) ==
    /\ handler[j].step = "endUpdate"
    /\ \/ files' = [files EXCEPT ![Key(j)][1] = FinalStatus(handler[j].result)]
       \/ Len(files[Key(j)]) > 1 /\ UNCHANGED files
    /\ Goto(j, "done")
    /\ UNCHANGED <<folderVars, masterVars, up, queueVars, devices, imports, kept, faultVars>>

\* Faulty variant of DbError: the error of the last update reaches the queue.
DbErrorReported(j) ==
    /\ DbMayFail
    /\ handler[j].step \in {"device", "register", "begin", "beginInsert",
                            "beginUpdate", "end", "endUpdate"}
    /\ Finish(j, "err")
    /\ UNCHANGED <<folderVars, masterVars, up, queueVars, dbVars, imports, kept, faultVars>>

\* A database call of the handler returns an error: before the processing
\* the attempt ends there, after it nobody looks at the error.
DbError(j) ==
    /\ DbMayFail
    /\ \/ /\ handler[j].step \in {"device", "register", "begin", "beginInsert",
                                  "beginUpdate"}
          /\ Finish(j, "err")
       \/ /\ handler[j].step \in {"end", "endUpdate"}
          /\ Goto(j, "done")
    /\ UNCHANGED <<folderVars, masterVars, up, queueVars, dbVars, imports, kept, faultVars>>

\* Faulty variants of AfterFailure: one attempt too few, and a job that is
\* never given up.
AfterFailureEarly(j) ==
    LET n == job[j].attempts + 1
    IN [job[j] EXCEPT !.attempts = n, !.state = IF n + 1 < Retry THEN "delayed" ELSE "failed"]
AfterFailureForever(j) == [job[j] EXCEPT !.state = "delayed"]

\* What done(err) makes of the job in the queue.
AfterFailure(j) ==
    LET n == job[j].attempts + 1
    IN [job[j] EXCEPT !.attempts = n, !.state = IF n < Retry THEN "delayed" ELSE "failed"]

(***************************************************************************)
(* done(err): the job is complete, or has used up one attempt and waits    *)
(* for the next, or has failed.  The two settled states raise an event.    *)
(***************************************************************************)
Done(j) ==
    /\ handler[j].step = "done"
    /\ job' = [job EXCEPT ![j] = IF handler[j].result = "err" THEN AfterFailure(j)
                                 ELSE [@ EXCEPT !.state = "complete"]]
    /\ events' = IF job'[j].state = "delayed" THEN events ELSE events \cup {j}
    /\ handler' = [handler EXCEPT ![j] = Idle]
    /\ UNCHANGED <<folderVars, master, announced, moving, up, removed, dbVars, imports, kept,
                   faultVars>>

\* The backoff delay of a job has passed (any live process promotes it).
Promote(j) ==
    /\ master = "up"
    /\ job[j].state = "delayed"
    /\ job' = [job EXCEPT ![j].state = "inactive"]
    /\ UNCHANGED <<folderVars, masterVars, up, handler, removed, dbVars, imports, kept,
                   faultVars>>

HandlerStep(j) ==
    \/ LookupDevice(j) \/ RegisterDevice(j)
    \/ BeginFile(j) \/ BeginInsert(j) \/ BeginUpdate(j)
    \/ OpenFile(j) \/ Import(j)
    \/ EndFile(j) \/ EndUpdate(j) \/ DbError(j)
    \/ Done(j)

Next ==
    \/ \E p \in Paths : Deliver(p) \/ Enqueue(p)
    \/ \E j \in JobIds : OnSettled(j) \/ MoveFile(j) \/ HandlerStep(j) \/ Promote(j)
    \/ \E j \in JobIds, w \in Workers : Start(w, j)
    \/ \E w \in Workers : WorkerCrash(w)
    \/ MasterStop \/ MasterStart

Spec == Init /\ [][Next]_vars

(***************************************************************************)
(* Every callback that can run eventually runs, a free worker takes a      *)
(* waiting job, and a delay passes.  Nothing is assumed of rsync, of a     *)
(* stop or a crash, nor of the start that has to follow one.               *)
(***************************************************************************)
Fairness ==
    /\ \A p \in Paths : WF_vars(Enqueue(p))
    /\ \A j \in JobIds :
           /\ WF_vars(OnSettled(j)) /\ WF_vars(MoveFile(j))
           /\ WF_vars(HandlerStep(j)) /\ WF_vars(Promote(j))
    /\ WF_vars(\E j \in JobIds, w \in Workers : Start(w, j))

FairSpec == Spec /\ Fairness

-----------------------------------------------------------------------------
(* Properties.                                                             *)

\* Two jobs of the queue stand for one row of table "files": a rescan after a
\* restart, a second delivery, or the same basename in two folders.
Rival(k) == \E i, j \in JobIds : /\ i # j
                                 /\ job[i].path \in Paths /\ Key(i) = k
                                 /\ job[j].path \in Paths /\ Key(j) = k

\* One worker process, one job at a time.
Serial == Concurrency = 1 /\ \A v, w \in Workers : v = w

(***************************************************************************)
(* A file is always in exactly one place, however many jobs were queued    *)
(* for it and in whatever order their events reach the master: no move of  *)
(* app.js:130 and app.js:148 loses a file or files it twice.               *)
(***************************************************************************)
FiledOnce ==
    ~Redeliver => \A p \in Paths :
        Cardinality({i \in 1..4 : p \in <<outbox, incoming, processed, failed>>[i]}) = 1

(***************************************************************************)
(* What the folders say is true of the queue: a file in failed/ has a job  *)
(* that used up all its attempts (app.js:117-135), a file in processed/    *)
(* has a job that completed, and that itself imported the file's data or   *)
(* kept it as a part of a capture, unless the file is of no known type     *)
(* (app.js:135-153, 277-292).                                              *)
(***************************************************************************)
FiledByVerdict ==
    \A p \in Paths :
        /\ p \in failed => \E j \in JobIds :
               job[j] = [path |-> p, state |-> "failed", attempts |-> Retry]
        /\ p \in processed => \E j \in JobIds :
               /\ job[j].path = p /\ job[j].state = "complete"
               /\ TypeOf[p] = "other" \/ imports[j] = 1 \/ j \in kept

(***************************************************************************)
(* The retries of a job never import its data twice, although its last     *)
(* database update may fail: app.js:267 ignores that error and reports     *)
(* the job complete, so an import that worked is not attempted again, nor  *)
(* is a part that was kept for its capture imported by its own job.        *)
(***************************************************************************)
RetryNeverReimports ==
    \A j \in JobIds : imports[j] <= 1 /\ (j \in kept => imports[j] = 0)

(***************************************************************************)
(* Table "files" gets a second row for one (device, basename) only when    *)
(* two jobs stand for it (the select and the insert of sqldb.js:122-138    *)
(* can interleave); the retries of one job alone never add one.            *)
(***************************************************************************)
DuplicateRowNeedsRival == \A k \in Keys : Len(files[k]) > 1 => Rival(k)

(***************************************************************************)
(* With jobs handled one at a time, the test of sqldb.js:126 does what it  *)
(* is for: a row that says "success" is never changed, whatever is queued, *)
(* delivered or restarted afterwards, and no second row is added.          *)
(***************************************************************************)
SuccessIsFinal ==
    [][Serial => \A k \in Keys : files[k] = <<"success">> => files'[k] = files[k]]_vars

(***************************************************************************)
(* With jobs handled one at a time and a database that does not fail, a    *)
(* file reaches processed/ only when its one row says "success", across    *)
(* stops of the cluster at any point of an earlier attempt.                *)
(***************************************************************************)
ProcessedIsRecorded ==
    Serial /\ ~DbMayFail =>
        \A p \in processed : files[KeyOf[p]] = <<"success">>

(***************************************************************************)
(* If the cluster is at some time up for good, every file that is in       *)
(* incoming/ leaves it: a job lost in a stop is made up for by the scan of *)
(* the next start, and a file whose row already says "success" leaves too. *)
(***************************************************************************)
EveryFileIsFiled ==
    <>[](master = "up" /\ up = Workers) =>
        \A p \in Paths : p \in incoming ~> p \notin incoming

(***************************************************************************)
(* app.js:246-247 on the call of insertOrUpdateFile: "this will return     *)
(* error if the file exists already in the database and has been processed *)
(* (status == 'success')": no handler gets past it while its row says so.  *)
(***************************************************************************)
ProcessedIsRefused ==
    [][\A j \in JobIds : handler[j].step # "open" /\ handler'[j].step = "open"
           => "success" \notin {files[Key(j)][i] : i \in DOMAIN files[Key(j)]}]_vars

(***************************************************************************)
(* README.md:10-11: a file that was processed with success is moved to the *)
(* permanent storage; the failed folder is for those that fail repeatedly. *)
(***************************************************************************)
FailedWasNotImported ==
    \A p \in failed : files[KeyOf[p]] # <<"success">>
=============================================================================
