------------------------ MODULE PipelineRefinement -------------------------
(***************************************************************************)
(* The pipeline, seen as the keeper of the clients' files: how its state   *)
(* maps to that of FileCustody, and what has to be known of the pipeline   *)
(* for every step of it to be one of FileCustody, or none.                 *)
(***************************************************************************)
EXTENDS PipelineInv

\* The files whose data some job has imported.
Imported == {p \in Paths : \E j \in JobIds : job[j].path = p /\ imports[j] > 0}

\* The files some job has kept as parts of a capture that is not complete.
KeptAside == {p \in Paths : \E j \in kept : job[j].path = p}

Custody == INSTANCE FileCustody WITH
    Files <- Paths,
    Free <- {p \in Paths : TypeOf[p] = "other"},
    Parts <- {p \in Paths : TypeOf[p] = "pcap"},
    Redelivers <- Redeliver,
    server <- outbox,
    waiting <- incoming,
    accepted <- processed,
    rejected <- failed,
    stored <- Imported,
    aside <- KeptAside

(***************************************************************************)
(* The pipeline implements FileCustody.  Whatever is delivered twice,      *)
(* queued twice, retried or lost in a stop, no fs.move of app.js:122-152   *)
(* takes a file back or files it over another, and a file is accepted only *)
(* when its data has been stored, or kept for its capture (app.js:277-292).*)
(***************************************************************************)
KeepsCustody == Custody!Spec
=============================================================================
