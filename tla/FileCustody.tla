---------------------------- MODULE FileCustody ----------------------------
(***************************************************************************)
(* What the pipeline promises about the files of the clients, as whoever   *)
(* looks at the folders and at the database sees it, with no queue, worker *)
(* or restart: a delivered file waits in incoming/ until it is accepted or *)
(* rejected, it is accepted only when its data has been stored, or put     *)
(* aside if the file is a part of a whole, and what was once accepted or   *)
(* rejected is never taken back, even when the same file is delivered      *)
(* again.                                                                  *)
(***************************************************************************)
CONSTANTS
    Files,      \* the files of the clients
    Free,       \* those of no known type, accepted without being stored
    Parts,      \* those that are a part of something larger
    Redelivers  \* whether a delivery may leave the file on the upload server

VARIABLES
    server,     \* files still on the upload server
    waiting, accepted, rejected,   \* the three folders
    stored,     \* files whose data is in the database
    aside       \* parts that were put aside until the others are there

custodyVars == <<server, waiting, accepted, rejected, stored, aside>>

Delivered == waiting \cup accepted \cup rejected

Init ==
    /\ server = Files
    /\ waiting = {} /\ accepted = {} /\ rejected = {} /\ stored = {} /\ aside = {}

Deliver(f) ==
    /\ f \in server
    /\ waiting' = waiting \cup {f}
    /\ \/ server' = server \ {f}
       \/ Redelivers /\ server' = server
    /\ UNCHANGED <<accepted, rejected, stored, aside>>

\* The data of a file that was delivered is stored, perhaps a second time.
Store(f) ==
    /\ f \in Delivered
    /\ stored' = stored \cup {f}
    /\ UNCHANGED <<server, waiting, accepted, rejected, aside>>

\* A part that was delivered is put aside.
Keep(f) ==
    /\ f \in Delivered \cap Parts
    /\ aside' = aside \cup {f}
    /\ UNCHANGED <<server, waiting, accepted, rejected, stored>>

Accept(f) ==
    /\ f \in waiting \ accepted
    /\ f \in stored \cup aside \cup Free
    /\ waiting' = waiting \ {f}
    /\ accepted' = accepted \cup {f}
    /\ UNCHANGED <<server, rejected, stored, aside>>

Reject(f) ==
    /\ f \in waiting \ rejected
    /\ waiting' = waiting \ {f}
    /\ rejected' = rejected \cup {f}
    /\ UNCHANGED <<server, accepted, stored, aside>>

Next == \E f \in Files : Deliver(f) \/ Store(f) \/ Keep(f) \/ Accept(f) \/ Reject(f)

Spec == Init /\ [][Next]_custodyVars
=============================================================================
