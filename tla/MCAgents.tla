------------------------------- MODULE MCAgents -------------------------------
(* What stands between an agent and its work, one part at a time: the gates   *)
(* that its turns wait at, and the scans that bring it the tasks of its       *)
(* board.  The parts share no variables: a behaviour is one of the part it    *)
(* begins with, and the other rests in its first state.                       *)
(* The gates have two turns of one agent in one session, a turn of another    *)
(* agent, and two explorers that the first and the last turn wait for, each   *)
(* with an agent identity and a session of its own; all but q use the one     *)
(* gated model.                                                               *)
EXTENDS TurnGates, Kanban

CONSTANTS p1, p2, q, child, child2, A, B, X, Y, M, S1, S2, S3, S4, AgentParts

MCAgentOf == [t \in Turn |-> CASE t \in {p1, p2} -> A [] t = q -> B
                               [] t = child -> X [] OTHER -> Y]
MCSessionOf == [t \in Turn |-> CASE t \in {p1, p2} -> S1 [] t = q -> S2
                                 [] t = child -> S3 [] OTHER -> S4]
MCModelOf == [t \in Turn |-> IF t = q THEN None ELSE M]
MCChildOf == [t \in Turn |-> CASE t = p1 -> child [] t = q -> child2 [] OTHER -> None]

VARIABLE part

agentVars == <<part, vars, kanbanVars>>

AgentInit == part \in AgentParts /\ Init /\ KanbanInit

AgentNext ==
    \/ part = "gates" /\ Next /\ UNCHANGED <<part, kanbanVars>>
    \/ part = "board" /\ KanbanNext /\ UNCHANGED <<part, vars>>

\* The fairness of Spec and of KanbanSpec.
AgentFairness ==
    /\ \A t \in Turn : WF_vars(part = "gates" /\ Step(t))
    /\ SF_kanbanVars(part = "board" /\ BeginScan)
    /\ WF_kanbanVars(part = "board" /\ OfferStep("scan"))
    /\ SF_kanbanVars(part = "board" /\ StartOfferedTurn("scan"))
    /\ SF_kanbanVars(part = "board" /\ FindLost)
    /\ WF_kanbanVars(part = "board" /\ FindStuck)
    /\ WF_kanbanVars(part = "board" /\ ReminderStep)
    /\ SF_kanbanVars(part = "board" /\ Remind)

AgentSpec == AgentInit /\ [][AgentNext]_agentVars /\ AgentFairness

\* A turn that is queued runs to its end: EveryTurnEnds, of the part it is about.
GatedTurnEnds == \A t \in Turn : (part = "gates" /\ pc[t] = "queued") ~> pc[t] = "done"

\* Work on the board does not wait forever: WorkIsOffered, of the part it is about.
BoardIsWorkedOn == (part = "board" /\ WorkWaits) ~> ~WorkWaits

\* Neither the gates nor the board let work wait forever.
AgentsMoveOn == GatedTurnEnds /\ BoardIsWorkedOn
=============================================================================
