------------------------------- MODULE MCTrace -------------------------------
(* A small instance of what dotrace and FindTTP do with packets, for TLC.  The *)
(* three parts run beside each other in the program but share no variable that *)
(* is modelled, so a behaviour is one of the part chosen at its beginning.     *)
EXTENDS Rexmit, Conversation, Connections

CONSTANTS e1, e2, e3

VARIABLE part

traceVars == <<part, rexmitVars, conversationVars, connectionsVars>>

\* Host 1 begins two bytes before the sequence numbers wrap.
MCIsnOf == <<10, 4>>
MCPacketsOf == [talk |-> 5, middle |-> 4, flow |-> 8]

\* Pairs, packets and questions by the way the connections are kept.
Bound(e, p, o) == [ends |-> e, packets |-> p, options |-> o]
MCBounds == [batch |-> Bound(1, 5, 1), continuous |-> Bound(3, 5, 0),
             limited |-> Bound(3, 5, 0), udp |-> Bound(3, 4, 2)]
Symmetry == Permutations({e1, e2, e3})

Init ==
    /\ part \in {"rexmit", "conversation", "connections"}
    /\ RexmitInit
    /\ ConversationInit /\ (part = "conversation" \/ mode = "talk")
    /\ ConnectionsInit /\ (part = "connections" \/ way = "batch")

Next ==
    /\ UNCHANGED part
    /\ \/ part = "rexmit" /\ RexmitNext /\ UNCHANGED <<conversationVars, connectionsVars>>
       \/ part = "conversation" /\ ConversationNext /\ UNCHANGED <<rexmitVars, connectionsVars>>
       \/ part = "connections" /\ ConnectionsNext /\ UNCHANGED <<rexmitVars, conversationVars>>

Spec == Init /\ [][Next]_traceVars
=============================================================================
