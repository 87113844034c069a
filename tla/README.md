# A verification project for Hostview processing

Hostview processing stores the files that Hostview clients upload (sqlite
databases, packet captures, json files) in a PostgreSQL database. A master
process watches a folder and queues a job per file on Redis; worker processes
take the jobs and run an importer; the master then moves the file to
`processed/` or to `failed/`. Little of the code is difficult to read, and most
of it is difficult to test: four kinds of processes work on the same folders
and tables, every database call is a place where another job may run, retries
meet what an earlier attempt left behind, and a stop of the container loses
whatever was held in memory. What is stored of a packet capture is measured by
`tcptrace`, a C program that the repository carries and builds: it follows the
sequence numbers of every connection of the capture, which wrap, overlap, come
late and come again, and it is where most of the lines of the repository are.

The TLA+ modules of this directory model both, the `.cfg` files check them on
small instances with TLC, and the `*Proofs` modules hold theorems that TLAPS
checks for every value of the constants. `PROJECT.json` maps each definition to
the lines of the source it models.

## 1. Inventory

### The components

| component | source | state | operations |
|---|---|---|---|
| master | `app/app.js` 64-207 | the folders `incoming`, `processed`, `failed`; what the monitor has announced; events and moves under way | announce and enqueue a file; on "job failed" / "job complete": remove the job, move the file; stop and start of the cluster |
| worker | `app/app.js` 208-300, `app/lib/process_json.js` | the position of each job's callback chain; the local variable `file` | get or insert the device; insert or update the row of the file; dispatch to an importer; write the final status; `done` |
| backend database API | `app/lib/sqldb.js` | tables `devices`, `files`, and the deletes of the importers | `getOrInsert`, `insertOrUpdateFile` (a transaction at READ COMMITTED), `delete` |
| sqlite importer | `app/lib/process_sqlite.js`, `utils.js` | an `async.waterfall` per call; the temporary file; the session and its rows | uncompress, open, read events, insert the session, then one stage per table; delete, close, unlink |
| pcap importer | `app/lib/process_pcap.js`, `utils.js` | the work folder with the parts; the merged file; tables `pcap`, `pcap_file` | uncompress a part; test for a complete capture; merge, insert, link, run the script, remove the parts; error cleanup |
| tcptrace script | `python-src/main.py`, `DAO.py`, ... | status of the `pcap` row; an output folder per session; the flow tables | run tcptrace, copy its output into the tables, set the status, remove the folder |
| tcptrace: reading | `tcptrace-src/tcptrace.c`, `compress.c`, `tcpdump.c`, `snoop.c`, ... | the capture being read, its format, the frame | recognise the format, uncompress or pipe, read frames, report, stop at a signal |
| tcptrace: headers | `trace.c`, `ipv6.c`, `tcptrace.c` | counters of packets and bad checksums | find the TCP or UDP header, check what was cut off, read the options |
| tcptrace: connections | `trace.c`, `udp.c`, `avl.c` | a tree per bucket, the array of pairs, the lists of live and closed connections | find or create the connection of a packet, forget old ones, keep the user's selection |
| tcptrace: analysis | `trace.c` (dotrace), `rexmit.c`, `thruput.c` | two control blocks per connection; the segments of the sequence space | count bytes and repetitions, sample round trips, write the series |
| tcptrace: modules | `mod_http.c`, `mod_traffic.c`, `mod_slice.c`, `mod_realtime.c` | their records per connection, port and interval | hear of connections and packets; report at intervals and at the end |
| tcptrace: support | `pool.c`, `mfiles.c`, `gcache.c`, `names.c`, `filter.c`, `plotter.c` | pools of blocks, open files, caches of names, the filter's tree | allocate, write many files over few descriptors, resolve, select |
| tcptrace: command line | `tcptrace.c` | flags and variables | rc file, environment, command line, arguments of the modules |
| batch mode | `app/app.js` 196-207 | the queue and the scan | scan the folder, shut the queue down, exit |
| single-run application | `app2/single-run-app.js` | the list of files | run the importers one after the other, without a queue |
| delivery | `datarsync.sh` | the upload server's folder | rsync with removal of the source |
| schema | `docker-entrypoint-initdb.d/init-hostview.sql` | foreign keys, unique indexes | cascades |
| external | kue/Redis, chokidar, PostgreSQL, dtrx, tracemerge, tcptrace | | |

### How they interact

- `datarsync.sh` puts files into `incoming/`; chokidar announces each of them
  once per life of the master; the announcement queues a kue job.
- A free worker takes a job of the highest priority (sqlite, then the others,
  then pcap). Its callback chain suspends at every database call and every
  child process, so the jobs of all workers, and of one worker with
  `concurrency` > 1, interleave there.
- The worker's `done` settles the attempt in Redis. With attempts left the job
  waits out a delay and runs again; else the master gets an event, removes the
  job and moves the file. Nothing else tells the master what became of a file.
- All calls of the sqlite importer for one file share a temporary path; all
  calls of the pcap importer for one device share a work folder, and those of
  one capture a merged file and a basename.
- The pcap importer runs `main.py` as a child process and reads its exit code.
  The script runs tcptrace in a folder named after the session, and the captures
  of a session share it.
- In tcptrace every packet goes reader, headers, connection, `dotrace`, modules,
  in one thread; only a signal comes in between, and only where it is let in. The
  tables of connections decide which control blocks `dotrace` changes, and
  removing a connection frees what the modules may still point to.
- The pcap importer finds its row's `connection_id` in what the sqlite importer
  has stored. Deleting a session deletes its connections, and so their pcaps.

### What is hard, and what makes each component correct

- *Master and worker.* Two jobs may stand for one file (a rescan after a stop,
  a second delivery, one basename in two folders). Between the select and the
  insert of `insertOrUpdateFile` another job may insert. A stop between any two
  steps keeps Redis and PostgreSQL and loses everything else. Correct means: a
  file is in one place; what its folder says is the verdict of one of its jobs;
  a retry does not import twice; a recorded success stays; every file leaves
  `incoming/` in the end.
- *Sqlite importer.* Most stages go on when the last row has been *read*, not
  when its insert has been answered. Inserts therefore run during later stages,
  during the cleanup, and after the answer, while the delete of a session is
  not waited for either. Correct means: a deleted session has no rows, rows
  that are waited for are there on success, an answer is given, given once, and
  after the cleanup, and attempts do not leave two sessions.
- *Pcap importer.* The parts of a capture are jobs of their own. Which of them
  does the work depends on what the folder holds when it looks; two of them may
  both do it. Correct means: one of them does, no part disappears before the
  import, and when all have been answered the capture is in the database.
- *Tcptrace script.* Scripts of one session overwrite, copy and remove each
  other's files, and an interrupted one leaves a folder whose files cannot be
  written again. Correct means: a capture has all the rows measured in it, once,
  and no others, and the attempt of a script fails for no reason of its own
  unless another one disturbed it.
- *tcptrace.* Everything is arithmetic on numbers that wrap, pointers that are
  shared, and the ends of what was captured. Correct means: each packet is
  counted for the connection it belongs to; what is counted and timed is what
  was on the wire, whatever was lost, repeated or late; a limit (descriptors,
  cache entries, connections kept, blocks of a pool) is invisible in the results;
  what lies behind the end of a packet is never taken for a part of it; options
  and filters mean what they say.

`PROJECT.json` lists the hazards line by line with the properties aimed at each.

## 2. The modules

### Pipeline

The master, the workers and the two tables, for any set of files.

| code | module |
|---|---|
| the folders | `outbox`, `incoming`, `processed`, `failed` |
| chokidar's memory, pending events, pending `fs.move`s | `announced`, `events`, `moving`: lost in `MasterStop` |
| Redis | `job`, `removed`: survive |
| tables | `devices`, `files` (per (device, basename) the sequence of the status columns): survive |
| the callback chain of a job | `handler[j].step`, one action per asynchronous call |
| `insertOrUpdateFile` before the import | `BeginFile`, then `BeginInsert` or `BeginUpdate` |
| the importer | `OpenFile`, `Import`: imports, keeps a part of a capture that is not complete (`process_pcap.js:71`), or ends in an error; `imports` counts the first, `kept` has the jobs of the second |
| `processdone` | `EndFile`, `EndUpdate`, `Done` |
| `attempts`, `backoff` | `AfterFailure`, `Promote` |

A transaction is two steps (select; write and commit), since READ COMMITTED
lets another transaction commit in between. The database calls may return an
error at each step (`DbError`) when `DbMayFail` is TRUE. A worker that dies
alone is not forked again and its job stays active, as in the code.

### SqliteImport

One sqlite file, the importer called once per attempt. `Order` is the waterfall;
`Stats` are the tables copied by `readloop`. A row is its number. `ReadRow` is
the row callback, `EndRead` the completion callback of `each()`, `InsertNext` a
turn of the loops that wait; the inserts nobody waits for are in `inflight`,
and `RunInsert`, `RunLog`, `RunLocate` take them from there in any order, also
while the cleanup (`DeleteSession`, `CloseDb`, `Unlink`) or the next call runs.
`Refuse` is the `e = e || err` of a closure: it changes `failed` only if the
stage is still the current one.

### PcapImport

One capture, a job per part, `Slots` of them at a time, each going through
`process_pcap.js` with its own attempts. The work folder, the merged file, and
tables `pcap` and `pcap_file` are shared; `row[r]` is the status column, and
`data[r]` counts how often the script has imported the flows of the row. The
connection the capture belongs to is imported by the sqlite job at any time, or
never. `crossed` is a history variable: two jobs have passed the test of line 71
before one of them was over.

### FileCustody, PipelineRefinement

FileCustody is what the clients are promised, without queue, workers or
restarts: files are delivered, stored, accepted and rejected, never taken back.
PipelineRefinement maps the pipeline to it (`INSTANCE FileCustody WITH ...`):
`waiting` is `incoming/`, `accepted` is `processed/`, a file is stored when some
job of it has imported, and put aside when one has kept it as a part of a capture.
`KeepsCustody` says that every step of Pipeline is a
step of FileCustody or a stutter.

### TcptraceScript

`main.py` for captures of one session, their scripts running beside each other.
The call, the test for the folder and its making, the run of tcptrace, the reading
of its files, the COPY of each table and the exits of the `try` are actions; `disk` holds, for each file
of the shared folder, whose rows it has, whether it may be written, and who has
it open. A command or a statement may fail. `excuse` records which attempts
another script of the session, a left folder or a fault may have disturbed;
`CapturesAreKeptApart` is about all the others, and so also says how far the
disturbance of one attempt can reach.

### tcptrace

| module | code | its state | property |
|---|---|---|---|
| Seqspace, Rexmit | `rexmit.c` | the quadrants of one direction (`tcb.ss`); the environment sends, loses, repeats | `RingIsWhole`, `RexmitIsExact`, `SamplesAreUnambiguous` |
| Dotrace, Conversation | `dotrace` of `trace.c`, `thruput.c` | both control blocks (`block`); two hosts, each with a stream | `BytesAreAccountedFor`, `MeasuresAreOfTheConnection` |
| Connections | `FindTTP`, the lists, `MoreTcpPairs`, `udp.c` | `lists` with their pointers, the table, the array, the counts of flags | `ListsAreSound`, `PairsAreConnections`, `SelectionIsKept` |
| Avl | `avl.c`, `AVL_WhichDir`, `IP_LOWADDR`, `CopyAddr` | the tree of a bucket, of addresses of both versions | `TreeIsSound` |
| Capture | `ProcessFile`, `QuitSig`, `compress.c`, eight readers | the file as cells, the reader's position | `CaptureIsTraced` |
| Headers | `findheader`, `gethdrlength` and the checksums, `ParseOptions`, `ipv6.c` | one packet, cut at any place, and what it reads as where the code leaves its headers | `HeadersAreTrue` |
| Mfiles, Plotting | `mfiles.c`, `plotter.c`, `ExtractContents` | files on disk, streams, least recently used list, how the process ends | `FilesAreWhole` |
| Http | `mod_http.c` | times of positions, contents with holes, the rows | `RowsAreRightOrWarned` |
| Statistics | `mod_traffic.c`, `mod_slice.c`, `mod_realtime.c` | counters per port and interval | `StatisticsAddUp` |
| Filter | `filter.c` | the tree of an expression | `FilterIsItsMeaning` |
| Names | `names.c`, `gcache.c` | entries, chains, free list | `NamesAreKept` |
| Pool | `pool.c` | list and count of free blocks | `BlocksAreWhole` |
| Options | `LoadModules`, `CheckArguments`, `ParseArgs` | flags, variables, selections | `OptionsAreAsked` |

In each of them a C structure is a record, a function an operator from records
to records, and what calls it from outside an action. Numbers that wrap keep
their width as a constant (`QuadSize`, `ModSeq`, `LongSize`, `CountLimit`, `CountSize`, `Width`). The
environments are more liberal than a protocol, but not arbitrary: what of a
stream can still show up fits into one quadrant (`RexmitAssumption`,
`ConversationAssumption`), which is what the code takes for granted.

The properties compare with a definition that knows nothing of the algorithm:
`RexmitIsExact` with the number of times each byte of the stream was sent,
`FilterIsItsMeaning` with a quantifier over the sides, `TreeIsSound` with the set
of connections, `PairsAreConnections` with the connections of the environment.
Where the code gives a wrong result that it warns of, or that a known defect
explains, the property excludes exactly that case and its comment says so;
section 7 lists these.

### PipelineInv and the Proofs modules

The inductive invariants and the proofs (section 4). Those of PcapImport and of
SqliteImport are short and stand at the end of these modules.

### MCPipeline, MCSqliteImport, MCTrace and MCSupport

Values for the constants that a `.cfg` cannot write: which path has which key
and type, which rows belong together, which captures, talks and expressions
there are. MCTrace and MCSupport put parts side by side that share no modelled
variable: a behaviour is one of the part chosen at its beginning, so a run
checks each of them alone and does not multiply their states.

Operators that are commented as a *faulty variant* of the one that follows are
not part of the specifications. Each describes a plausible mistake in the code;
putting it in place of the real definition makes TLC find the property that
`PROJECT.json` ("mutants") pairs it with violated. They are kept to show that
each property can tell the code from a wrong one.

## 3. The runs

| run | instance | shows |
|---|---|---|
| race | two files of one basename in two folders, two workers, 2 attempts, 1 stop, 1 worker crash, failing database and queue | a file is in one place; folders agree with verdicts; no retry imports twice; a duplicate row needs two jobs; the inductive invariant, types included |
| serial | two files (a part of a capture and one of an unknown type), one worker, one job at a time, 3 jobs, 2 stops, repeated delivery | a success on record stays; a file in `processed/` is on record; the pipeline implements FileCustody |
| filed | a sqlite and a json file, one worker, 1 stop, fair | every file leaves `incoming/` once the cluster is up for good |
| retry | two calls for one file, 2 refused statements, 1 read error, 1 death of the worker | the safety of the sqlite importer |
| answers | two calls, an unknown location, a read error, fair | each call is answered |
| capture | one or two parts, 2 slots, 3 attempts, 1 fault, 1 stop, fair | the safety of the pcap importer (its inductive invariant has the types); a later attempt gets through |
| analysis | MCTrace: a stream of 7 bytes over a space of 12 numbers; two hosts, 4 to 8 packets; up to 4 connections between 3 pairs of ends, with counts of flags that wrap at 3 | what tcptrace counts and times is what was on the wire, for the right connection |
| support | MCSupport: every format; 8 connections in a tree, and two buckets that are not ordered; 2 descriptors for 7 files, one of them a plot of no connection; 2 cache entries for 4 hosts; 3 buffers of a pool; packets cut at every place; two scripts of one session, two attempts, one fault | what surrounds the analysis: nothing is lost, invented or mixed up |
| refused | one file, two workers, 1 stop | **violated**: a processed file is not refused |
| wrongfolder | one file, one worker, 1 stop | **violated**: an imported file ends in `failed/` |
| lostwrite | one call, 1 refused statement | **violated**: a failed write is not reported |
| lost | two parts, no fault, no stop | **violated**: all jobs complete and nothing imported |

The runs marked violated each check one sentence of the repository's own
comments, messages or documentation that the code does not keep; `PROJECT.json` ("findings")
quotes the sentences. In short:

- *refused* (`app.js:246`): two jobs each insert a row for the file, and the test
  for a processed file wants exactly one row (`sqldb.js:124`).
- *wrongfolder* (`README.md:10`): a stop between the status "success" and the
  move; the next start queues the file again, all its attempts are refused as
  already processed, and it is moved to `failed/`.
- *lostwrite* (`process_sqlite.js:19-21`): an insert is refused after its stage has
  ended; the variable that records it is not read again.
- *lost* (`process_pcap.js:13-15`): two jobs work on the capture together; one
  imports it and removes the parts, the other fails on the primary key of
  `pcap_file`, deletes all rows of that basename, retries, sees parts missing,
  and answers without an error.

### The bounds, and why they are enough

`MaxJobs`, `MaxStops`, `MaxCrashes`, `Attempts`, `MaxFaults`, `MaxReadErrors`,
`MaxRows`, `MaxLast` bound what would otherwise be infinite; all of them are
guards in the modules. Two jobs for one key are enough for the races on a row
(each test reads one row and each write changes one); two attempts distinguish
"first", "last" and "in between"; one stop can fall between any two steps, and
the second stop of *serial* lets the rescan's own job be interrupted too. Three
jobs in *serial* let a file be delivered once more after it was processed while
the other file has its own. In SqliteImport the tables have zero to two rows:
the first row, the last and the row read ahead are then different. Two parts are the smallest
capture that merges, and one part takes the branch with `fs.move`; more parts
are covered by the proofs. `Retry = 3` in *capture* is one more than the faults
and stops together, which is what its liveness property asks for.

In *analysis* a quadrant has 3 numbers instead of 2^30 and the streams begin two
numbers before the wrap, so that 7 bytes cross it and enter every quadrant, one
of them twice; a window of 2 with 1 late byte fills a quadrant, the most the
code allows. Of the conversations, *talk* has both hosts from their SYN on, *middle*
begins inside a connection, and *flow* is longer and has one direction. Three pairs of ends with lists of two make the list full
with one connection more. The counts of flags wrap at 3, so that three FINs or resets of one
side make a connection that ended look alive, before and after its ends are used again, as
256 of them do in the code. The pairs of ends are symmetric: no action or
property orders them.

In *support* each part's bound is one step beyond its limit: one more name than
entries, more files than descriptors, more records than a buffer has blocks, a
frame larger than a packet may be, a second attempt after a fault. The captures
have three or five frames: the window for a signal, every 2 packets here, comes
before, between and after them, and a cut leaves a part of one. The contents are of
streams in a sequence space of 6 numbers, of which 2 bytes are more than half, so
that the refusal of bytes before the first comes to its end. The packets behind a
fragment header that is misread have other headers, options and sizes there. One bucket of
the tree has connections between hosts, one those of a host with itself, and one both
versions of IP.

Deadlock is not checked: every one of these systems stops when the files are
filed, or the calls answered, and the bounded failures used up.

### Fairness

`Pipeline!Fairness`: weak fairness of the monitor's callback, the event handlers,
every step of a job's callback chain, the promotion of delayed jobs, and the
start of some waiting job by some free worker. They are callbacks of node's
event loop, and kue's timers. No fairness is given to rsync, to stops and
crashes, or to the start after a stop: `EveryFileIsFiled` has "the cluster is up
for good from some time on, with all its workers" as its hypothesis, and the
run has a queue whose `save` does not fail, since an error there is only logged
(`app.js:170-174`) and the file would wait for the next start.

`SqliteImport!FairSpec`: the callbacks of the waterfall and of the cleanup run,
and PostgreSQL answers. `PcapImport!FairSpec`: the callbacks run, child processes
end (the code gives them no timeout), and kue starts a waiting job when a slot
is free; that the connection is imported is a hypothesis of the property, and so
is that no two jobs cross.

## 4. The proofs

TLAPS proves the following for every value of the constants that satisfies the
ASSUMEs of the modules: naturals for the bounds, at least one attempt, slot and
concurrent job, `NoPath` and `NoWorker` not among the paths and the workers, and
for each path a key, a type and a device. Those of tcptrace's parts are named below
with the theorems that need them.

**PipelineProofs.** `IInv` (module PipelineInv) is inductive: `Invariance`. From it:
`TypeCorrect`, `FoldersTellTheVerdict` (`FiledByVerdict`), `NoReimport`
(`RetryNeverReimports`: no job imports twice, nor both keeps a part and imports) and `NoDuplicateAlone` (`DuplicateRowNeedsRival`). None of
these is inductive alone. `FiledByVerdict` needs that pending events and moves
belong to settled jobs (`SettledInv`) and that a completed job of a known type
has imported, or kept its part (`ImportInv`), for which the result of an attempt must be known
exactly at its last steps (`ResultInv`) and a handler must belong to an active job
(`HandlerInv`). `DuplicateRowNeedsRival` needs that a handler about to insert a
row where there is one already has a rival (`InsertInv`). For a cluster with one
job at a time, `SerialInv` (only one handler runs, and it owns the row it has
selected) is inductive relative to `IInv` and gives the action property
`SuccessStays` (`SuccessIsFinal`); with `RecordInv` and a database that does not
fail it gives `ProcessedOnRecord` (`ProcessedIsRecorded`). `OnePlace` (`FiledOnce`)
follows from `PlaceInv`: the four folders share no file and miss none, since a file
is delivered once and a move takes it from incoming/ if it is there.

There too, `PipelineKeepsCustody`: Pipeline implements FileCustody, with
the mapping of PipelineRefinement. A delivery is a delivery, an import stores the file
(`ImportStores`, which needs `OpenInv`: the importer runs on the file of its job,
and that file was delivered) or puts the part aside, a move accepts or rejects it (`MoveSettles`, which needs that
a completed job of a known type has imported or kept its file), and every other step stutters,
since a job keeps its file (`SameImports`).

**PcapImportProofs.** `CaptureInv` is inductive: `CaptureInvariance`. From it:
`CaptureTypes`, `NoPartIsLost` (`PartsAreKept`) and `OneFindsAll` (`SomeoneFindsAll`).
The argument: a call passes the test of line 71 only with all parts
(`CompleteIsAll`, a fact about cardinalities), so that calls beyond it have seen
all of them (`HandlingInv`); until a script has succeeded only the move of a
single part empties the folder, and then by the only job there is (`KeptInv`); so
a call that finds the capture incomplete misses the part of another job, which
has therefore not been answered (`NotOverInv`): the last job to do the test finds
everything. There is one lemma per action; two more (`Proceeds`, `GivesUp`) treat
what the actions have in common. `AnswersMeanWhatTheySay` (`AnswersMeanImported`)
rests on `AloneInv`, what holds as long as no two jobs took the capture up together:
one call at most works on it; a job that has imported the capture has taken its own
part away with the others, so that nobody finds all parts again (`FolderInv`); and a
row that has the flows has all the rest, while the links of a row stop the next
call at its first part (`RowsInv`).

**SqliteProofs.** `ImportInv` is inductive: `ImportInvariance`, for any tables, any
number of rows and calls. From it: `ImportTypes`, `DeletedIsGone`
(`NothingOfADeletedSession`), `SuccessHasCleanedUp` (`SuccessIsClean`),
`SessionsAreNotDoubled` (`NoDoubleSession`) and `AnswersStand` (`AnswerStands`). Type
correctness needs that no more rows are left than there are (`LeftInv`), since a
row is numbered by what is left. The argument for the others: only the lookup
of a location ends a call whose stage goes on, and there is one only from stage
"connections" on (`WaterfallInv`), when surveys and activities, which the
waterfall itself inserts, are done; a streamed insert is accepted only while its
session is there; a log takes the session of the connection it joins. So no row
of a deleted session can come. A call begins
only when the one before was answered with an error or lost (`ReplyInv`), so an
answer without error is the last, and no later call uncompresses the file again.
`FollowsShape` says what comes after each stage; it rests on `StatsAssumption`, that
the tables of `readloop` are not those with a stage of their own. `AwaitedAreStored`
(`AwaitedRowsAreStored`) and `FaultFreeIsComplete` (`FaultFreeImportIsComplete`) rest on
`RowsInv`, an account of what each stage has read (`AccountsInv`): its wanted rows are
stored, in flight or in the buffer, unless something was refused or stopped. The attempt to prove the second
one showed that it was false as it stood: a lookup of a location that fails after
the call has answered without an error drops its row silently
(`process_sqlite.js:632-637`), so the property now asks for the rows whose location
is known (`Wanted`).

**RexmitProofs.** `RexmitInv` is inductive: `RexmitInvHolds`, for a quadrant, a window,
a lateness and a stream of any size, from any initial number, and any number of
packets. From it: `QuadrantsAreARing` (`RingIsWhole`), `RetransmissionsAreExact`
(`RexmitIsExact`) and `SamplesFollowKarn` (`SamplesAreUnambiguous`). The argument: what may
still be sent lies within one quadrant (`RexmitAssumption`: the window and the
lateness are together no more than one), so that at any time it touches two
neighbouring quadrants, and a number names one byte near the newest packet `p`
(`Near`). The quadrants are a ring around that of `p` (`Ring`). What is recorded is of
bytes near `p` that were sent, and each byte that was sent and may come again is
recorded (`RecordInv`): that is why the quadrant opposite may be cleared. `PartRecorded` treats the part of a
packet that falls into one quadrant. A count of retransmissions says "once" only
as long as it has not wrapped, so the third property is about the first
`CountLimit` packets, and the proof needs just that.

There too, `MeasuresOfAnyConversation` (`MeasuresAreOfTheConnection`), for any streams, windows and
initial numbers, with and without the handshake, whatever is lost, late or sent again.
`DotraceShape` goes through the stages of `dotrace` and says of each which
fields it may change; what the proof needs of the whole is `Traced`. `ConversationInv` is
inductive (`ConversationInvHolds`), with a lemma for each action (`SynKeeps`, `DataKeeps`,
`AnswerKeeps`). `TalkInv` relates the block of a direction to its stream. Its core is `SynStands`:
as long as nothing but the SYN is acknowledged, the data lies within a quadrant behind
it (`ConversationAssumption`), so the segment of the SYN, sent once, is kept apart from those
of the data (`DataKeepsSyn`), and the acknowledgement that ends right behind it measures
that segment and no other (`AckKeepsSyn`). `WindowsInv` keeps the sum of the windows no larger than
their number times the largest. Both limits of `HandshakeIsTheSyn` are needed (section 7).

**ConnectionsProofs.** For any endpoints, intervals, limits and windows and any number
of packets. `ConnectionsInv` is inductive: `ConnectionsKeep`. It consists of
`ConnectionTypes`, of `SelectionInv` (what the arrays of options say of every number,
however often they grew), of `BatchInv` (in batch mode, for endpoints of which no end was
forgotten, `EndsInv`: a pair has the packets of one
incarnation of its ends, no two pairs the same, and it is in the table exactly when
that is the newest one, which the flags of its record then mirror) and of `PlainInv` (the same
for the other ways, where ends do not open again). From it: `OptionsAreHonoured` (`SelectionIsKept`)
and `PairsAreNotMixed` (`PairsAreConnections`). The counts of SYNs, FINs and resets are
`u_char`s that wrap (`Bumped`), and the rules of `FindTTP` and `UpdateConnLists` ask whether
they are 0. `forgotten` has the endpoints where a packet made all counts of an ended
connection 0 again; what is stated of a pair in batch mode holds for all other endpoints,
whatever happens to these, and the soundness of the lists as long as there are none. Neither
condition can be dropped (section 7).

`ListsHoldTheTable` (`ListsAreSound`) needs one more, `ListInv`. `Layout` says where the
connections of a table are in the two lists: each once, linked both ways, in the
order of their last packets but for the one that was just counted and not yet moved, as
many as counted, none freed. There is one group of lemmas per operation on a list (a
new head, a move to the front, a detached element, a head that leaves for the closed list,
a tail that is cut off), and `Settled` is what FindTTP keeps of them from packet to
packet. Two facts make it inductive. A connection is only marked inactive after a FIN
or a RST, and keeps one in its counts while it is not forgotten, so that UpdateConnLists
looks for it in the list where it is. And time does not go
back (`time.now`), so that the connection with the newest packet belongs to the
front. The loops that drop a tail and that enlarge an array are recursive functions over the
number of turns, no more than there are connections or places asked for. Since the theorem of
induction cannot be used, `History` and `TurnsExist` show that such a function exists,
and what a loop keeps is shown by the first turn that breaks it (`Least`).

**PlottingProofs.** `PlotsAndContentsAreWhole` (`FilesAreWhole`), for any number of files,
commands and segments and at least one descriptor. Of `mfiles.c`: an open file is on the
list, no more are open than there are descriptors, and where a file goes on is known
whether it is open or not (`Sane`, `At`); so writing to one file leaves all others as
they were (`Reached`, `OthersStay`), although it may close any of them. `PlottingInv`
adds what each plot and each content holds (`PlotAt`, `ContentAt`), of streams of any
length: a byte before the first is refused, or its seek ends the process with all files
as they were. A byte that is not in the capture changes no file (`NotSavedKeeps`). And in the end
there is a descriptor for each plot that `plotter_done` opens again (`Ready`); after the
crash of `plotter_done` over a plot of no connection nothing is claimed. The loop of
`plotter_done` is a fold over the set of plots: its history exists (`History`), each
plot has its turn once, and what a turn keeps is kept by all (`Turned`).
The assumptions: finitely many files, those of the plots, of the contents and of the
reports being different ones, as their suffixes are.

**NamesProofs.** `NamesAreTheResolvers` (`NamesAreKept`), for any addresses and ports,
hashes and sizes of the tables. `NamesInv`: an entry that has a key has the
resolver's answer for it (`Told`), which is all the answers need and holds whatever
becomes of the chains (`Safe`); and while no entry was filled again in place, the
used entries hang on the chains of their keys, linked both ways, the others on
the free list (`Tidy`). A chain is a sequence of entries without a repetition
(`Linked`, `Back`), so a walk along it ends within as many steps as there are
entries. The three operations on it, a new head, a removal and a filled
entry, have lemmas of their own (`Heads`, `Bridged`, `Filled`). The assumptions: tables of at least
one entry, hashes and lengths that are numbers, and no address that is the mark of an
empty entry.

**SupportProofs.** Three parts that share no variable. `UndisturbedCapturesAreRight` (`CapturesAreKeptApart`), for any number
of captures, sessions, attempts and faults. `ScriptInv` says of a capture whose
script runs alone in its session (`AloneInv`) where its folder, files, row and
loaded rows are at each place of the script; that scripts which run together
know of it (`RivalInv`); and that what is in a file of a session was measured in
one of its captures (`DiskInv`). A step of one script leaves the captures of other
sessions as they are (`OthersKept`, `OtherCaptures`), and those of its own are
rivals from then on. `ScriptAssumption`: what an interrupted script has left in a
file is of a capture that has no row any more.

`PoolsHandOutWholeBlocks` (`BlocksAreWhole`): for any sizes of pages
and records, no two records share memory. A block that is not whole is on the
list, behind as many blocks as the count says (`PoolInv`); the count errs only
downwards, so it is never handed out.

`HeadersAreWhatWasSent` (`HeadersAreTrue`): for packets with any chain of headers and
any options, cut anywhere, and any size of the step over a fragment header. Where that is
not 8, the code leaves the chain behind the first one (`Misread`) and goes on in `behind`, which may
hold anything but for the kind of its first header, which the fragment header says
(`WalkedIs`). What is still true of such a packet: it was captured with a fixed header where the
code reads one, it is a first fragment as far as its offset is seen, and it is TCP unless a
further header was misread (`GoesAstray`); where it is read, and its options, are left open. `HeadersInv` says that the verdict on the last packet is
true of it (`TrueVerdict`), and that no more packets were counted as cut by the
options than were cut (`Tallies`). `findheader` and `ParseOptions` walk along the packet,
and a header or an option begins where those before it end, at a prefix sum
(`LaidIs`, `InOrder`); so the first header of a last kind is the one sought
(`FindsIt`), and the options taken are those that lie before the cut (`ParsesRight`).
`HeadersAssumption` says that the packets are what a sender builds: the headers end
with that of the protocol and have no more than 1024 bytes each, the length of IPv4 covers them, an option has the length
it has to, but its length byte may be 0. They may still be damaged, fragments, or
cut at any place.

**Only model-checked.** The liveness properties (`EveryFileIsFiled`,
`EveryCallAnswers`, `CaptureGetsImported`), which the prover does not reach, and seven
invariants of the runs *analysis* and *support*:

- `TreeIsSound` and `FilterIsItsMeaning`: Avl and Filter hold RECURSIVE operators, for
  trees that the code descends to any depth. What a recursion computes for
  every input would need an induction over data.
- `BytesAreAccountedFor` adds up what a whole conversation has counted: it needs an
  invariant over all counters of `dotrace` and the bytes of both streams, with sums over
  sets of bytes. Its part in `rexmit.c` is proved in RexmitProofs.
- `StatisticsAddUp`, `CaptureIsTraced`, `RowsAreRightOrWarned` and `OptionsAreAsked`
  compare the end of a run with a sum, a selection or a concatenation over all its
  packets, records, requests or arguments (`FoldSet`, `SelectSeq`,
  `FlattenSeq`): an induction over that data for each of the operators.

## 5. Plan

Done, in this order: the pipeline of a file, the sqlite importer and the pcap
importer; FileCustody and its refinement; tcptrace (analysis, connections,
readers, headers, modules, support); the tcptrace script; the proofs of section 4.

Next:

1. Proofs: `BytesAreAccountedFor`, from `RexmitIsExact` and `DotraceShape`; then
   `StatisticsAddUp`, `CaptureIsTraced`, `RowsAreRightOrWarned` and `OptionsAreAsked`, with
   lemmas about sums and selections that are shown by the first element that
   breaks them, as those about loops are.
2. `SessionData`: SqliteImport and PcapImport over one table of connections. A failed
   attempt of the sqlite file deletes its session, and by cascade the pcap rows
   of captures that have been imported already.
3. app2, as a second Next over the database steps of Pipeline.

## 6. What is not modelled, and why

- The content of the files and of the rows: column values, time conversions, the
  SQL that joins activities. A row is its number.
- kue, chokidar, PostgreSQL and the child processes, beyond what the code sees of
  them. A child process that never ends is not modelled: nothing in the code would
  end it.
- Exceptions thrown in callbacks: they end the worker, and are the crash actions.
- Batch mode (`app.js` 196-207): what it does is in the moment chokidar emits
  "ready" and in what kue's shutdown waits for, neither of which the code of the
  repository says.
- app2 (`single-run-app.js`): it takes a file in the moment it is announced, with
  no queue, retry or move. Its database steps are those of Pipeline's handler and
  its importer is SqliteImport.
- The events table of the script (only filled when `INSERT_EVENTS` is set).
- Of tcptrace: the text of its reports (`output.c`, `print.c`), which changes no
  state; drawing commands of the plotter one by one; sums of squares and variances;
  `mod_rttgraph.c` and `mod_collie.c` beyond their arguments; `mod_tcplib.c` and
  `mod_inbounds.c`, whose macros `Makefile.in` has commented out; the tables flex
  and bison generate (the grammar's actions are in Filter); `configure`, headers
  for other systems and the manual.
- The view definitions of the schema, the Docker files, the maintenance scripts
  and the unit tests: they have no behaviour of the running system of their own.

## 7. What was noticed in the code

These are excluded from a property, or lie outside what is modelled. None is
needed to read the modules.

- `main.py:138`: scripts of one session share `outdir`. Run together they store the
  rows of the other capture, copy a csv twice, or lose rows with status "success";
  the `rmtree` of one makes another exit with 1 after it has set "success".
- `rexmit.c`: counters of retransmissions are `u_char` and wrap; the FIN of a
  zero-window probe counts as sent again (`trace.c:1815-1823`).
- `trace.c:1835-1837`: a round trip is taken for that of the handshake while one SYN was
  counted and the acknowledgement is of the number behind it. The count is a `u_char`
  and wraps to one, and a stream longer than the sequence space has the numbers of
  its SYN again: the measure may then be of data (`HandshakeIsTheSyn` leaves both out).
- `thruput.c:246-262`: the last interval of a series is never written.
- `trace.c:3222` with `tcptrace.h:1029-1038`: on a 64-bit long the comparison of
  sequence numbers does not wrap: behind the first wrap all bytes count as before the
  first one of the stream. They are refused while fewer than 2^31 - 1 bytes were seen, and
  from then on the seek to their place fails and ends the process (`trace.c:3246-3249`).
  The contents then hold what was written before, which is what `ContentsAreTheStream` asks.
- `plotter.c:375-387`: with `-c` the name of the file to remove is set nowhere, so a plot
  that is not complete is left as it is; that of no connection is
  used all the same (`plotter.c:380`), which ends the process, and `FilesAreWhole` says nothing of what was in the buffers.
- `tcptrace.h:341-344`: the counts of SYNs, FINs and resets wrap at 256. After
  256 FINs of one side a connection of the closed list has none: `trace.c:1078-1088`
  prints a warning and links it into the live list as well; before a new SYN, it passes
  for alive. `ListsAreSound` and `PairsAreConnections` leave out what comes after the end
  of a connection was forgotten so.
- `trace.c:842-849`: in continuous mode a packet of an inactive pair has no direction;
  `Traced` tries both.
- `trace.c:393-404`, `191-202`: connections of a host with itself, and of two versions of
  IP, in one bucket are not ordered. Of two equal addresses the first is that of the sender
  or of the receiver, so a packet of the answer may go to the other side of a node than its
  connection went; addresses of two versions compare as the same, and of two such
  connections with the same ports the second is never inserted (`avl.c:249`). Of these
  buckets `TreeIsSound` says only that the tree stays balanced.
- `trace.c:1218-1229`, `1048-1056`: the lists assume time stamps in order and a limit
  of at least two connections (`ConnectionsAssumption`).
- `trace.c:2827-2829` and `udp.c:413-415`: the array of pairs to ignore is enlarged until it has as many
  places as the index asks for, one too few when the two are equal: `-i257` writes behind
  the array. `Ask` leaves these numbers out.
- `ipv6.c:231-243`: `sizeof(struct ipv6_ext_frag)` is 16 where a long has 8 bytes,
  while the header has 8: the next header is read 8 bytes behind its place. And the fragment offset is in network order, so that small offsets of a
  later fragment are not seen. `HeadersAreTrue` says what is left of a packet that is misread.
- `ipv6.c:331-388`: `gethdrlength` has no end at a header it does not know before it has
  passed the end of the packet (fate "hung"), and reads a length byte with a sign: a header
  of more than 1024 bytes, which `HeadersFit` leaves out, makes it walk backwards.
- `ipv6.c:695`: `total_length_ext_headers` puts the length of the last header for the sum of
  all; and it may read behind what was captured, where the model has the header that was sent.
- `trace.c:3509-3510`: with a routing header the bytes of a pointer are summed for the
  destination. `DamagedAreRefused` speaks of IPv4 only.
- `trace.c:2827-2910`: mixing `-i` with `-o` is left out (`Ask`).
- `gcache.c:348`: an entry that is filled again in place loses its chain links; a
  chain may then close on itself (`NamesAreKept` says when).
- `pool.c`: a block freed into an empty list is not counted, and `MakeList` links a
  partial block; the first keeps the second from being handed out.
- `filter.c:1596`: an operator over a signed and an unsigned operand passes the parse and
  stops the program after the whole capture was read.
- `mod_slice.c` counts the first packet of a connection in the slice before, since the
  module hears of the connection first.
- `tcptrace.c:2358-2361`: a file name in the rc file without one on the command line
  is read behind the end of the arguments.
