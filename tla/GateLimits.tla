------------------------------ MODULE GateLimits ------------------------------
(***************************************************************************)
(* How a limit set by an administrator reaches the gates: the refresh half  *)
(* of ConcurrencyManager (backend/agent_runtime/concurrency.py) together    *)
(* with the settings endpoints that write the setting and then call it.     *)
(* Gates are created on first use, by the turn threads, under _gates_lock;  *)
(* a refresh looks at the registries under that lock and then changes the   *)
(* gates one by one without it.  What a gate does with its limit is         *)
(* ConcurrencyGate's subject: here a gate is its limit.                     *)
(***************************************************************************)
EXTENDS Naturals, FiniteSets

CONSTANTS Agent, Model,
          KnownModel,   \* the models the database has a row of
          Admin,        \* the request threads that change settings
          Value,        \* the values of a setting; 0 stands for "no limit"
          NoGate,       \* a gate that does not exist yet
          MaxWrites     \* bound: settings written in a behaviour

ASSUME ValueAssumption ==
  Value \subseteq Nat /\ 1 \in Value /\ NoGate \notin Value /\ KnownModel \subseteq Model

VARIABLES
  agentSetting,   \* db: max_concurrent_llm_per_agent
  globalSetting,  \* db: max_concurrent_llm_per_model
  modelSetting,   \* db: model_max_concurrent of each model
  defaultLimit,   \* _default_agent_limit
  agentGate,      \* limit of each agent's gate, or NoGate
  modelGate,      \* limit of each model's gate, or NoGate
  creating,       \* models whose gate is being created, with the limit read
  admin,          \* per admin thread: what is left of its request
  writes

settings == <<agentSetting, globalSetting, modelSetting, writes>>
gates == <<defaultLimit, agentGate, modelGate, creating>>
limitVars == <<settings, gates, admin>>

\* A model's own limit, or the global default when it has none; 1 for a model that
\* is not found.  Reads of the database succeed.
EffectiveModelLimit(m) ==
  IF m \notin KnownModel THEN 1
  ELSE IF modelSetting[m] > 0 THEN modelSetting[m] ELSE globalSetting

Idle == [pc |-> "idle"]

\* Existing gates, as a refresh sees them in one look under _gates_lock.
AgentGates == {a \in Agent : agentGate[a] # NoGate}
ModelGates == {m \in Model : modelGate[m] # NoGate}

\* _gates_lock is held over the two steps of a model gate's creation.
GatesLockFree == creating = {}

LimitInit ==
  /\ agentSetting \in Value
  /\ globalSetting \in Value
  /\ modelSetting \in [Model -> Value]
  /\ defaultLimit = agentSetting
  /\ agentGate = [a \in Agent |-> NoGate]
  /\ modelGate = [m \in Model |-> NoGate]
  /\ creating = {}
  /\ admin = [x \in Admin |-> Idle]
  /\ writes = 0

-----------------------------------------------------------------------------
(* Turn threads: _get_agent_gate and _get_model_gate, which reads the limit *)
(* from the database with the lock held.                                    *)

CreateAgentGate(a) ==
  /\ GatesLockFree /\ agentGate[a] = NoGate
  /\ agentGate' = [agentGate EXCEPT ![a] = defaultLimit]
  /\ UNCHANGED <<settings, defaultLimit, modelGate, creating, admin>>

LoadModelLimit(m) ==
  /\ GatesLockFree /\ modelGate[m] = NoGate
  /\ creating' = {[model |-> m, limit |-> EffectiveModelLimit(m)]}
  /\ UNCHANGED <<settings, defaultLimit, agentGate, modelGate, admin>>

CreateModelGate ==
  \E c \in creating :
    /\ modelGate' = [modelGate EXCEPT ![c.model] = c.limit]
    /\ creating' = {}
    /\ UNCHANGED <<settings, defaultLimit, agentGate, admin>>

-----------------------------------------------------------------------------
(* Requests: the setting is written, then the refresh is called. *)

At(x, pc) == admin[x].pc = pc
Go(x, next) == admin' = [admin EXCEPT ![x] = next]

Write(x, next) ==
  /\ At(x, "idle") /\ writes < MaxWrites
  /\ writes' = writes + 1
  /\ Go(x, next)
  /\ UNCHANGED gates

WriteAgentSetting(x, v) ==
  /\ Write(x, [pc |-> "read agent limit"])
  /\ agentSetting' = v /\ UNCHANGED <<globalSetting, modelSetting>>

WriteGlobalSetting(x, v) ==
  /\ Write(x, [pc |-> "list models"])
  /\ globalSetting' = v /\ UNCHANGED <<agentSetting, modelSetting>>

WriteModelSetting(x, m, v) ==
  /\ Write(x, [pc |-> "models", left |-> {m}])
  /\ modelSetting' = [modelSetting EXCEPT ![m] = v]
  /\ UNCHANGED <<agentSetting, globalSetting>>

-----------------------------------------------------------------------------
(* refresh_agent_limit *)

ReadAgentLimit(x) ==
  /\ At(x, "read agent limit")
  /\ Go(x, [pc |-> "set default", limit |-> agentSetting])
  /\ UNCHANGED <<settings, gates>>

SetDefaultLimit(x) ==
  /\ At(x, "set default")
  /\ defaultLimit' = admin[x].limit
  /\ Go(x, [admin[x] EXCEPT !.pc = "snapshot"])
  /\ UNCHANGED <<settings, agentGate, modelGate, creating>>

SnapshotAgentGates(x) ==
  /\ At(x, "snapshot") /\ GatesLockFree
  /\ Go(x, [pc |-> "set gates", limit |-> admin[x].limit, left |-> AgentGates])
  /\ UNCHANGED <<settings, gates>>

SetAgentGate(x) ==
  /\ At(x, "set gates")
  /\ \E a \in admin[x].left :
       /\ agentGate' = [agentGate EXCEPT ![a] = admin[x].limit]
       /\ Go(x, [admin[x] EXCEPT !.left = @ \ {a}])
  /\ UNCHANGED <<settings, defaultLimit, modelGate, creating>>

-----------------------------------------------------------------------------
(* refresh_all_model_limits, and refresh_model_limit, which reads the limit *)
(* before it looks the gate up.                                             *)

\* The registry is listed without its lock, past a gate being created.
MutListModelGates(x) ==
  /\ At(x, "list models")
  /\ Go(x, [pc |-> "models", left |-> ModelGates])
  /\ UNCHANGED <<settings, gates>>

ListModelGates(x) ==
  /\ At(x, "list models") /\ GatesLockFree
  /\ Go(x, [pc |-> "models", left |-> ModelGates])
  /\ UNCHANGED <<settings, gates>>

ReadModelLimit(x) ==
  /\ At(x, "models")
  /\ \E m \in admin[x].left :
       Go(x, [pc |-> "look up", left |-> admin[x].left \ {m},
              model |-> m, limit |-> EffectiveModelLimit(m)])
  /\ UNCHANGED <<settings, gates>>

LookUpModelGate(x) ==
  /\ At(x, "look up") /\ GatesLockFree
  /\ \/ /\ admin[x].model \in ModelGates
        /\ Go(x, [admin[x] EXCEPT !.pc = "set model gate"])
     \/ /\ admin[x].model \notin ModelGates
        /\ Go(x, [pc |-> "models", left |-> admin[x].left])
  /\ UNCHANGED <<settings, gates>>

SetModelGate(x) ==
  /\ At(x, "set model gate")
  /\ modelGate' = [modelGate EXCEPT ![admin[x].model] = admin[x].limit]
  /\ Go(x, [pc |-> "models", left |-> admin[x].left])
  /\ UNCHANGED <<settings, defaultLimit, agentGate, creating>>

RefreshDone(x) ==
  /\ At(x, "set gates") \/ At(x, "models")
  /\ admin[x].left = {}
  /\ Go(x, Idle)
  /\ UNCHANGED <<settings, gates>>

-----------------------------------------------------------------------------
LimitNext ==
  \/ \E a \in Agent : CreateAgentGate(a)
  \/ \E m \in Model : LoadModelLimit(m)
  \/ CreateModelGate
  \/ \E x \in Admin :
       \/ \E v \in Value : WriteAgentSetting(x, v) \/ WriteGlobalSetting(x, v)
       \/ \E v \in Value, m \in KnownModel : WriteModelSetting(x, m, v)
       \/ ReadAgentLimit(x) \/ SetDefaultLimit(x) \/ SnapshotAgentGates(x)
       \/ SetAgentGate(x) \/ ListModelGates(x) \/ ReadModelLimit(x)
       \/ LookUpModelGate(x) \/ SetModelGate(x) \/ RefreshDone(x)

LimitSpec == LimitInit /\ [][LimitNext]_limitVars

-----------------------------------------------------------------------------
LimitTypeOK ==
  /\ agentSetting \in Value /\ globalSetting \in Value /\ defaultLimit \in Value
  /\ modelSetting \in [Model -> Value]
  /\ agentGate \in [Agent -> Value \union {NoGate}]
  /\ modelGate \in [Model -> Value \union {NoGate}]
  /\ creating \subseteq [model : Model, limit : Value] /\ Cardinality(creating) <= 1
  /\ writes \in 0..MaxWrites

NobodyRefreshes == \A x \in Admin : admin[x] = Idle

\* Once the refreshes that were started are over, every agent gate enforces the
\* stored setting, the gates created while a refresh ran included
\* (refresh_agent_limit against _get_agent_gate).
AgentLimitsSettle == NobodyRefreshes => \A a \in AgentGates : agentGate[a] = agentSetting

\* The same for model gates, whose creation reads the setting for itself
\* (refresh_model_limit and refresh_all_model_limits against _get_model_gate).
ModelLimitsSettle ==
  NobodyRefreshes => \A m \in ModelGates : modelGate[m] = EffectiveModelLimit(m)

\* Once the refreshes are over every gate enforces the stored limit.
LimitsSettle == AgentLimitsSettle /\ ModelLimitsSettle
=============================================================================
