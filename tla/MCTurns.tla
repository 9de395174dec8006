------------------------------- MODULE MCTurns -------------------------------
(* What happens inside a turn, one part at a time: the rounds of the tool     *)
(* loop, the calls of a batch, a question that a tool asks the user, the      *)
(* sub-agents that it spawns, the containers that its commands run in.  The   *)
(* parts share no variables: a behaviour is one of the part it begins with,   *)
(* and the others rest in their first states.                                 *)
EXTENDS ToolLoop, ToolBatch, AskUser, SubAgents, Containers

CONSTANTS TurnParts, m1, m2, x1

\* Two sessions of the main agent, whose workspace changes in between and the second of
\* which leaves a job, and an explorer that the first of them spawned.
MCSessionId == [s \in CallerSessions |-> IF s = x1 THEN m1 ELSE s]
MCCallsOf == [s \in CallerSessions |->
                IF s = m2 THEN {<<"w2", "job">>} ELSE {<<"w1", "python">>}]

VARIABLE part

turnVars == <<part, loopVars, batchVars, askVars, subVars, boxVars>>

MCLoopTurns ==
    {[fallback |-> TRUE, images |-> FALSE, enforced |-> TRUE, probed |-> TRUE],
     [fallback |-> FALSE, images |-> TRUE, enforced |-> FALSE, probed |-> FALSE]}

TurnInit ==
    /\ part \in TurnParts /\ LoopInit /\ BatchInit /\ AskInit /\ SubInit /\ BoxInit
    /\ part # "loop" => turn.images
    /\ part # "batch" => ~apiSession

TurnNext ==
    \/ part = "loop" /\ LoopNext /\ UNCHANGED <<part, batchVars, askVars, subVars, boxVars>>
    \/ part = "batch" /\ BatchNext /\ UNCHANGED <<part, loopVars, askVars, subVars, boxVars>>
    \/ part = "ask" /\ AskNext /\ UNCHANGED <<part, loopVars, batchVars, subVars, boxVars>>
    \/ part = "subagents" /\ SubNext /\ UNCHANGED <<part, loopVars, batchVars, askVars, boxVars>>
    \/ part = "containers" /\ BoxNext /\ UNCHANGED <<part, loopVars, batchVars, askVars, subVars>>

\* The fairness of LoopSpec, of BatchSpec, of SubSpec and of BoxSpec.
TurnFairness ==
    /\ WF_loopVars(part = "loop" /\ LoopStep)
    /\ WF_batchVars(part = "batch" /\ BatchStep)
    /\ WF_subVars(part = "subagents" /\ CleanupStep)
    /\ \A w \in Spawners : WF_subVars(part = "subagents" /\ SpawnStep(w))
    /\ WF_boxVars(part = "containers" /\ ReaperStep)

TurnSpec == TurnInit /\ [][TurnNext]_turnVars /\ TurnFairness

TurnTypeOK == LoopTypeOK /\ BatchTypeOK /\ AskTypeOK /\ SubTypeOK /\ BoxTypeOK

\* A turn ends, and so does each batch of tool calls in it; a sub-agent that it
\* left idle is used again or cleaned up, a container that the pool has lost removed.
TurnEnds == LoopEnds /\ BatchEnds /\ IdleSubGoes /\ OrphanGoes
=============================================================================
