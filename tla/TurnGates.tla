------------------------------ MODULE TurnGates ------------------------------
(***************************************************************************)
(* The locks a turn goes through, composed: a queue worker takes the turn,  *)
(* turn_gate() takes the agent's gate and then the model's, and under both  *)
(* the turn takes its session's lock (AgentRuntime._process_and_respond).   *)
(* A turn that runs a blocking sub-agent tool (sync Explore, or a waited-   *)
(* for agent message) dispatches a child turn and gives the model gate up   *)
(* while it waits (paused_model_gate).                                      *)
(*                                                                         *)
(* A gate is used here through what Semaphore promises of it: a permit is   *)
(* taken in one step when there is room.                                    *)
(***************************************************************************)
EXTENDS Naturals, FiniteSets

CONSTANTS Turn, Agent, Model, Session, None,
          AgentOf, SessionOf,   \* of each turn
          ModelOf,              \* the gated model of each turn, or None
          ChildOf,              \* the turn a turn may wait for, or None
          Workers,              \* size of the worker pool
          AgentLimit, ModelLimit  \* 0: unlimited

ASSUME TurnsAssumption ==
  /\ IsFiniteSet(Turn) /\ None \notin Turn \union Model \union Session
  /\ AgentOf \in [Turn -> Agent] /\ SessionOf \in [Turn -> Session]
  /\ ModelOf \in [Turn -> Model \union {None}]
  /\ ChildOf \in [Turn -> Turn \union {None}]
ASSUME LimitsAssumption ==
  Workers \in Nat \ {0} /\ AgentLimit \in Nat /\ ModelLimit \in Nat

VARIABLES pc,            \* where each turn is
          agentActive,   \* _active of each agent's gate
          modelActive,   \* _active of each model's gate
          sessionLock    \* the turn that owns each session's lock, or None

vars == <<pc, agentActive, modelActive, sessionLock>>

Room(limit, active) == limit = 0 \/ active < limit
Children == {c \in Turn : \E p \in Turn : ChildOf[p] = c}
Goto(t, s) == pc' = [pc EXCEPT ![t] = s]

\* A turn occupies a worker from the moment it is taken off the queue.
OnWorker == {t \in Turn : pc[t] \notin {"new", "queued", "done"}}

Init ==
  /\ pc = [t \in Turn |-> IF t \in Children THEN "new" ELSE "queued"]
  /\ agentActive = [a \in Agent |-> 0]
  /\ modelActive = [m \in Model |-> 0]
  /\ sessionLock = [s \in Session |-> None]

TakeTask(t) ==
  /\ pc[t] = "queued" /\ Cardinality(OnWorker) < Workers
  /\ Goto(t, "wants agent")
  /\ UNCHANGED <<agentActive, modelActive, sessionLock>>

AcquireAgent(t) ==
  /\ pc[t] = "wants agent" /\ Room(AgentLimit, agentActive[AgentOf[t]])
  /\ agentActive' = [agentActive EXCEPT ![AgentOf[t]] = @ + 1]
  /\ Goto(t, IF ModelOf[t] = None THEN "wants session" ELSE "wants model")
  /\ UNCHANGED <<modelActive, sessionLock>>

\* One permit of t's model gate, taken on the way in and after a pause.
TakeModelPermit(t, next) ==
  /\ Room(ModelLimit, modelActive[ModelOf[t]])
  /\ modelActive' = [modelActive EXCEPT ![ModelOf[t]] = @ + 1]
  /\ Goto(t, next)
  /\ UNCHANGED <<agentActive, sessionLock>>

AcquireModel(t) == pc[t] = "wants model" /\ TakeModelPermit(t, "wants session")

AcquireSession(t) ==
  /\ pc[t] = "wants session" /\ sessionLock[SessionOf[t]] = None
  /\ sessionLock' = [sessionLock EXCEPT ![SessionOf[t]] = t]
  /\ Goto(t, "running")
  /\ UNCHANGED <<agentActive, modelActive>>

\* The tool call: the child's message is sent before the gate is given up.
Dispatch(t) ==
  /\ pc[t] = "running" /\ ChildOf[t] # None
  /\ pc[ChildOf[t]] = "new"
  /\ pc' = [pc EXCEPT ![t] = "dispatched", ![ChildOf[t]] = "queued"]
  /\ UNCHANGED <<agentActive, modelActive, sessionLock>>

\* The parent waits with the gate in its hand.
MutPause(t) ==
  /\ pc[t] = "dispatched"
  /\ Goto(t, "waiting")
  /\ UNCHANGED <<agentActive, modelActive, sessionLock>>

\* paused_model_gate is a no-op for a turn without a gated model.
Pause(t) ==
  /\ pc[t] = "dispatched"
  /\ IF ModelOf[t] = None
     THEN UNCHANGED modelActive
     ELSE modelActive' = [modelActive EXCEPT ![ModelOf[t]] = @ - 1]
  /\ Goto(t, "waiting")
  /\ UNCHANGED <<agentActive, sessionLock>>

\* The wait ends with the child's answer, with /stop or with its timeout.
WaitOver(t) ==
  /\ pc[t] = "waiting"
  /\ Goto(t, IF ModelOf[t] = None THEN "running" ELSE "resuming")
  /\ UNCHANGED <<agentActive, modelActive, sessionLock>>

\* The parent carries on without its permit.
MutResume(t) ==
  /\ pc[t] = "resuming" /\ Goto(t, "running")
  /\ UNCHANGED <<agentActive, modelActive, sessionLock>>

Resume(t) == pc[t] = "resuming" /\ TakeModelPermit(t, "running")

\* The with-blocks are left inside out.
ReleaseSession(t) ==
  /\ pc[t] = "running"
  /\ sessionLock' = [sessionLock EXCEPT ![SessionOf[t]] = None]
  /\ Goto(t, IF ModelOf[t] = None THEN "leaves agent" ELSE "leaves model")
  /\ UNCHANGED <<agentActive, modelActive>>

ReleaseModel(t) ==
  /\ pc[t] = "leaves model"
  /\ modelActive' = [modelActive EXCEPT ![ModelOf[t]] = @ - 1]
  /\ Goto(t, "leaves agent")
  /\ UNCHANGED <<agentActive, sessionLock>>

\* The agent's permit is not handed back.
MutReleaseAgent(t) ==
  /\ pc[t] = "leaves agent" /\ Goto(t, "done")
  /\ UNCHANGED <<agentActive, modelActive, sessionLock>>

ReleaseAgent(t) ==
  /\ pc[t] = "leaves agent"
  /\ agentActive' = [agentActive EXCEPT ![AgentOf[t]] = @ - 1]
  /\ Goto(t, "done")
  /\ UNCHANGED <<modelActive, sessionLock>>

Step(t) ==
  \/ TakeTask(t) \/ AcquireAgent(t) \/ AcquireModel(t) \/ AcquireSession(t)
  \/ Dispatch(t) \/ Pause(t) \/ WaitOver(t) \/ Resume(t)
  \/ ReleaseSession(t) \/ ReleaseModel(t) \/ ReleaseAgent(t)

Next == \E t \in Turn : Step(t)

\* Every thread is scheduled; a wait for a child has a timeout; a turn ends.
Fairness == \A t \in Turn : WF_vars(Step(t))

Spec == Init /\ [][Next]_vars /\ Fairness

-----------------------------------------------------------------------------
AgentHolders(a) == {t \in Turn : AgentOf[t] = a /\
                      pc[t] \notin {"new", "queued", "wants agent", "done"}}
ModelHolders(m) == {t \in Turn : ModelOf[t] = m /\
                      pc[t] \in {"wants session", "running", "dispatched", "leaves model"}}
SessionHolders(s) == {t \in Turn : SessionOf[t] = s /\
                      pc[t] \in {"running", "dispatched", "waiting", "resuming"}}

TypeOK ==
  /\ pc \in [Turn -> {"new", "queued", "wants agent", "wants model", "wants session",
                      "running", "dispatched", "waiting", "resuming",
                      "leaves model", "leaves agent", "done"}]
  /\ agentActive \in [Agent -> Nat] /\ modelActive \in [Model -> Nat]
  /\ sessionLock \in [Session -> Turn \union {None}]

\* Whatever the order of pauses, resumptions and exits, a gate counts exactly
\* the turns that hold a permit of it (turn_gate, paused_model_gate).
GatesCountHolders ==
  /\ \A a \in Agent : agentActive[a] = Cardinality(AgentHolders(a))
  /\ \A m \in Model : modelActive[m] = Cardinality(ModelHolders(m))

\* A limited model is never driven by more turns at once than its limit, those
\* that come back from a pause included.
ModelLimitKept ==
  ModelLimit > 0 =>
    \A m \in Model :
      Cardinality({t \in Turn : ModelOf[t] = m /\ pc[t] \in {"running", "dispatched"}})
        <= ModelLimit

\* The turns one of which must move before t can; none if t is not blocked.
Blockers(t) ==
  CASE pc[t] = "queued" /\ Cardinality(OnWorker) >= Workers -> OnWorker
    [] pc[t] = "wants agent" /\ ~Room(AgentLimit, agentActive[AgentOf[t]]) ->
         AgentHolders(AgentOf[t])
    [] pc[t] \in {"wants model", "resuming"} /\ ~Room(ModelLimit, modelActive[ModelOf[t]]) ->
         ModelHolders(ModelOf[t])
    [] pc[t] = "wants session" /\ sessionLock[SessionOf[t]] # None ->
         {sessionLock[SessionOf[t]]}
    [] OTHER -> {}

\* No set of turns waits only on itself: "Re-acquire in finally is normal
\* contention, never a deadlock" (paused_model_gate).
NoDeadlock ==
  ~ \E D \in SUBSET Turn : D # {} /\ \A t \in D : Blockers(t) # {} /\ Blockers(t) \subseteq D

\* The gates as their turns use them are semaphores of a fixed number of permits.
AgentGate(a) == INSTANCE Semaphore WITH Thread <- Turn, Limit <- {AgentLimit},
                                        holders <- AgentHolders(a), limit <- AgentLimit
ModelGate(m) == INSTANCE Semaphore WITH Thread <- Turn, Limit <- {ModelLimit},
                                        holders <- ModelHolders(m), limit <- ModelLimit

\* However turns wait, pause, come back and leave, each gate is only ever taken
\* by a turn without a permit when there is room, and given back by one with a
\* permit (turn_gate, paused_model_gate).
GatesAreSemaphores ==
  /\ \A a \in Agent : AgentGate(a)!SemInit
  /\ \A m \in Model : ModelGate(m)!SemInit
  /\ [][/\ \A a \in Agent : UNCHANGED AgentGate(a)!semVars \/ AgentGate(a)!SemNext
        /\ \A m \in Model : UNCHANGED ModelGate(m)!semVars \/ ModelGate(m)!SemNext]_vars

\* Every turn that is queued runs to its end.
EveryTurnEnds == \A t \in Turn : pc[t] = "queued" ~> pc[t] = "done"
=============================================================================
