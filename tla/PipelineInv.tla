---------------------------- MODULE PipelineInv ----------------------------
(***************************************************************************)
(* The inductive invariant of Pipeline, as named parts: what has to be     *)
(* added to the properties of Pipeline to make them follow step by step.   *)
(* PipelineProofs proves it; MCPipeline checks it on a small instance.     *)
(***************************************************************************)
EXTENDS Pipeline

\* Only an active job has a handler, and only a created job has a path.
HandlerInv ==
    \A j \in JobIds :
        /\ handler[j].step # "idle" => job[j].state = "active"
        /\ handler[j].step = "idle" <=> handler[j] = Idle
        /\ handler[j].worker = NoWorker <=> handler[j].step = "idle"
        /\ job[j].state # "unused" <=> job[j].path \in Paths

\* The result of an attempt is known from the call of processdone on.
Ending == {"end", "endUpdate", "done"}
ResultInv ==
    \A j \in JobIds : handler[j].result # "none" <=> handler[j].step \in Ending

\* Events are those of settled jobs; a job has failed when, and only when,
\* its attempts are used up.
SettledInv ==
    /\ \A j \in events \cup moving : job[j].state \in {"complete", "failed"}
    /\ \A j \in JobIds :
           /\ job[j].state = "failed" => job[j].attempts = Retry
           /\ job[j].state \in {"unused", "inactive", "active", "delayed"}
                  => job[j].attempts < Retry

\* Where a job whose data was imported, or kept, can be: complete, about to be,
\* or lost in a stop after that.
ImportInv ==
    \A j \in JobIds :
        /\ imports[j] \in {0, 1}
        /\ j \in kept => imports[j] = 0
        /\ imports[j] = 1 \/ j \in kept =>
               \/ job[j].state = "complete"
               \/ job[j].state = "active" /\ handler[j].step = "idle"
               \/ handler[j].step \in Ending /\ handler[j].result = "ok"
        /\ \/ job[j].state = "complete"
           \/ handler[j].step \in Ending /\ handler[j].result = "ok"
           => TypeOf[job[j].path] = "other" \/ imports[j] = 1 \/ j \in kept

\* A handler about to insert a row where there is one already has a rival.
InsertInv ==
    \A j \in JobIds :
        handler[j].step = "beginInsert" /\ files[Key(j)] # <<>> => Rival(Key(j))

\* An importer reads a file that has been delivered; a rival job of the same
\* file may have had it moved since.
OpenInv ==
    \A j \in JobIds : handler[j].step = "import" =>
        job[j].path \in incoming \cup processed \cup failed

\* Unless rsync delivers a file again, the upload server and the three folders
\* share the files among them.
PlaceInv ==
    ~Redeliver =>
        /\ Paths = outbox \cup incoming \cup processed \cup failed
        /\ outbox \cap (incoming \cup processed \cup failed) = {}
        /\ incoming \cap (processed \cup failed) = {}
        /\ processed \cap failed = {}

IInv ==
    /\ TypeOK /\ HandlerInv /\ ResultInv /\ SettledInv /\ ImportInv /\ InsertInv
    /\ OpenInv /\ PlaceInv /\ FiledByVerdict /\ DuplicateRowNeedsRival

(***************************************************************************)
(* With one worker that takes one job at a time, at most one job is being  *)
(* handled, a file has at most one row, and from its first insert or       *)
(* update to its last the row of the handled file is the handler's own.    *)
(***************************************************************************)
SerialInv ==
    Serial =>
        /\ \A i, j \in JobIds :
               handler[i].step # "idle" /\ handler[j].step # "idle" => i = j
        /\ \A k \in Keys : Len(files[k]) <= 1
        /\ \A j \in JobIds :
               /\ handler[j].step = "beginInsert" => files[Key(j)] = <<>>
               /\ handler[j].step \in {"beginUpdate", "open", "import", "end", "endUpdate"}
                      => Len(files[Key(j)]) = 1 /\ files[Key(j)] # <<"success">>

\* A completed job, or one that is about to be, has its "success" on record.
RecordInv ==
    Serial /\ ~DbMayFail =>
        \A j \in JobIds :
            \/ job[j].state = "complete"
            \/ handler[j].step = "done" /\ handler[j].result = "ok"
            => files[Key(j)] = <<"success">>
=============================================================================
