--------------------------- MODULE TurnGatesProofs ---------------------------
(***************************************************************************)
(* The gates a turn passes count exactly the turns that hold a permit, they *)
(* are semaphores of their limits, a model is never driven by more turns    *)
(* than its limit, and agents with one permit do not deadlock, for every    *)
(* number of turns, agents, models and sessions and every way children are  *)
(* waited for.  The invariant adds that a gate is never above its limit,    *)
(* that only turns with a gated model wait for one, and that a session's    *)
(* lock is held by a turn of the session.                                   *)
(***************************************************************************)
EXTENDS TurnGates, FiniteSetTheorems, TLAPS

GatedTurnsWait ==
  \A t \in Turn : pc[t] \in {"wants model", "resuming", "leaves model"} => ModelOf[t] \in Model

AgentsWithinLimit == AgentLimit > 0 => \A a \in Agent : agentActive[a] <= AgentLimit
GatesWithinLimit == ModelLimit > 0 => \A m \in Model : modelActive[m] <= ModelLimit

\* The owner of a session's lock is inside the lock.
LocksHaveHolders ==
  \A x \in Session : sessionLock[x] # None => sessionLock[x] \in SessionHolders(x)

IInv == /\ TypeOK /\ GatesCountHolders /\ GatedTurnsWait
        /\ AgentsWithinLimit /\ GatesWithinLimit /\ LocksHaveHolders

HoldsAgent(s) == s \notin {"new", "queued", "wants agent", "done"}
HoldsModel(s) == s \in {"wants session", "running", "dispatched", "leaves model"}
HoldsSession(s) == s \in {"running", "dispatched", "waiting", "resuming"}

\* The holders of a gate are turns, and finitely many.
LEMMA HolderSetsFinite ==
  ASSUME NEW a, NEW m
  PROVE  /\ IsFiniteSet(AgentHolders(a)) /\ Cardinality(AgentHolders(a)) \in Nat
         /\ IsFiniteSet(ModelHolders(m)) /\ Cardinality(ModelHolders(m)) \in Nat
<1>1. AgentHolders(a) \subseteq Turn /\ ModelHolders(m) \subseteq Turn
  BY DEF AgentHolders, ModelHolders
<1>2. IsFiniteSet(AgentHolders(a)) /\ IsFiniteSet(ModelHolders(m))
  BY <1>1, TurnsAssumption, FS_Subset
<1>3. QED
  BY <1>2, FS_CardinalityType

\* Who holds a permit changes by the turn that moves, if at all.
LEMMA AgentHoldersChange ==
  ASSUME TypeOK, NEW t \in Turn, NEW s, pc' = [pc EXCEPT ![t] = s], NEW a
  PROVE  /\ AgentOf[t] # a => AgentHolders(a)' = AgentHolders(a)
         /\ (HoldsAgent(pc[t]) <=> HoldsAgent(s)) => AgentHolders(a)' = AgentHolders(a)
         /\ AgentOf[t] = a /\ ~HoldsAgent(pc[t]) /\ HoldsAgent(s) =>
              AgentHolders(a)' = AgentHolders(a) \union {t} /\ t \notin AgentHolders(a)
         /\ AgentOf[t] = a /\ HoldsAgent(pc[t]) /\ ~HoldsAgent(s) =>
              AgentHolders(a)' = AgentHolders(a) \ {t} /\ t \in AgentHolders(a)
<1>1. pc'[t] = s /\ \A u \in Turn : u # t => pc'[u] = pc[u]
  BY DEF TypeOK
<1>2. AgentOf[t] # a => AgentHolders(a)' = AgentHolders(a)
  BY <1>1 DEF AgentHolders
<1>3. (HoldsAgent(pc[t]) <=> HoldsAgent(s)) => AgentHolders(a)' = AgentHolders(a)
  BY <1>1 DEF AgentHolders, HoldsAgent
<1>4. AgentOf[t] = a /\ ~HoldsAgent(pc[t]) /\ HoldsAgent(s) =>
        AgentHolders(a)' = AgentHolders(a) \union {t} /\ t \notin AgentHolders(a)
  BY <1>1 DEF AgentHolders, HoldsAgent
<1>5. AgentOf[t] = a /\ HoldsAgent(pc[t]) /\ ~HoldsAgent(s) =>
        AgentHolders(a)' = AgentHolders(a) \ {t} /\ t \in AgentHolders(a)
  BY <1>1 DEF AgentHolders, HoldsAgent
<1>6. QED
  BY <1>2, <1>3, <1>4, <1>5

\* What a turn's move does to the number of its agent gate's holders.
LEMMA AgentHoldersMove ==
  ASSUME TypeOK, NEW t \in Turn, NEW s, pc' = [pc EXCEPT ![t] = s], NEW a
  PROVE  /\ AgentOf[t] # a => AgentHolders(a)' = AgentHolders(a)
         /\ (HoldsAgent(pc[t]) <=> HoldsAgent(s)) => AgentHolders(a)' = AgentHolders(a)
         /\ AgentOf[t] = a /\ ~HoldsAgent(pc[t]) /\ HoldsAgent(s) =>
              Cardinality(AgentHolders(a)') = Cardinality(AgentHolders(a)) + 1
         /\ AgentOf[t] = a /\ HoldsAgent(pc[t]) /\ ~HoldsAgent(s) =>
              Cardinality(AgentHolders(a)') = Cardinality(AgentHolders(a)) - 1
<1>1. IsFiniteSet(AgentHolders(a)) /\ Cardinality(AgentHolders(a)) \in Nat
  BY HolderSetsFinite
<1>2. /\ \A x : x \notin AgentHolders(a) =>
              Cardinality(AgentHolders(a) \union {x}) = Cardinality(AgentHolders(a)) + 1
      /\ \A x \in AgentHolders(a) :
              Cardinality(AgentHolders(a) \ {x}) = Cardinality(AgentHolders(a)) - 1
  BY <1>1, FS_AddElement, FS_RemoveElement
<1>3. QED
  BY <1>2, AgentHoldersChange

\* A turn may leave and enter a model gate several times.
LEMMA ModelHoldersChange ==
  ASSUME TypeOK, NEW t \in Turn, NEW s, pc' = [pc EXCEPT ![t] = s], NEW m
  PROVE  /\ ModelOf[t] # m => ModelHolders(m)' = ModelHolders(m)
         /\ (HoldsModel(pc[t]) <=> HoldsModel(s)) => ModelHolders(m)' = ModelHolders(m)
         /\ ModelOf[t] = m /\ ~HoldsModel(pc[t]) /\ HoldsModel(s) =>
              ModelHolders(m)' = ModelHolders(m) \union {t} /\ t \notin ModelHolders(m)
         /\ ModelOf[t] = m /\ HoldsModel(pc[t]) /\ ~HoldsModel(s) =>
              ModelHolders(m)' = ModelHolders(m) \ {t} /\ t \in ModelHolders(m)
<1>1. pc'[t] = s /\ \A u \in Turn : u # t => pc'[u] = pc[u]
  BY DEF TypeOK
<1>2. ModelOf[t] # m => ModelHolders(m)' = ModelHolders(m)
  BY <1>1 DEF ModelHolders
<1>3. (HoldsModel(pc[t]) <=> HoldsModel(s)) => ModelHolders(m)' = ModelHolders(m)
  BY <1>1 DEF ModelHolders, HoldsModel
<1>4. ModelOf[t] = m /\ ~HoldsModel(pc[t]) /\ HoldsModel(s) =>
        ModelHolders(m)' = ModelHolders(m) \union {t} /\ t \notin ModelHolders(m)
  BY <1>1 DEF ModelHolders, HoldsModel
<1>5. ModelOf[t] = m /\ HoldsModel(pc[t]) /\ ~HoldsModel(s) =>
        ModelHolders(m)' = ModelHolders(m) \ {t} /\ t \in ModelHolders(m)
  BY <1>1 DEF ModelHolders, HoldsModel
<1>6. QED
  BY <1>2, <1>3, <1>4, <1>5

\* The same for the model gate.
LEMMA ModelHoldersMove ==
  ASSUME TypeOK, NEW t \in Turn, NEW s, pc' = [pc EXCEPT ![t] = s], NEW m
  PROVE  /\ ModelOf[t] # m => ModelHolders(m)' = ModelHolders(m)
         /\ (HoldsModel(pc[t]) <=> HoldsModel(s)) => ModelHolders(m)' = ModelHolders(m)
         /\ ModelOf[t] = m /\ ~HoldsModel(pc[t]) /\ HoldsModel(s) =>
              Cardinality(ModelHolders(m)') = Cardinality(ModelHolders(m)) + 1
         /\ ModelOf[t] = m /\ HoldsModel(pc[t]) /\ ~HoldsModel(s) =>
              Cardinality(ModelHolders(m)') = Cardinality(ModelHolders(m)) - 1
<1>1. IsFiniteSet(ModelHolders(m)) /\ Cardinality(ModelHolders(m)) \in Nat
  BY HolderSetsFinite
<1>2. /\ \A x : x \notin ModelHolders(m) =>
              Cardinality(ModelHolders(m) \union {x}) = Cardinality(ModelHolders(m)) + 1
      /\ \A x \in ModelHolders(m) :
              Cardinality(ModelHolders(m) \ {x}) = Cardinality(ModelHolders(m)) - 1
  BY <1>1, FS_AddElement, FS_RemoveElement
<1>3. QED
  BY <1>2, ModelHoldersChange

Places == {"new", "queued", "wants agent", "wants model", "wants session", "running",
           "dispatched", "waiting", "resuming", "leaves model", "leaves agent", "done"}

\* A turn's move and the change of its agent's counter go together.
AgentCountFollows(t, s) ==
  \/ /\ ~HoldsAgent(pc[t]) /\ HoldsAgent(s)
     /\ Room(AgentLimit, agentActive[AgentOf[t]])
     /\ agentActive' = [agentActive EXCEPT ![AgentOf[t]] = @ + 1]
  \/ /\ HoldsAgent(pc[t]) /\ ~HoldsAgent(s)
     /\ agentActive' = [agentActive EXCEPT ![AgentOf[t]] = @ - 1]
  \/ (HoldsAgent(pc[t]) <=> HoldsAgent(s)) /\ agentActive' = agentActive

ModelCountFollows(t, s) ==
  \/ /\ ~HoldsModel(pc[t]) /\ HoldsModel(s) /\ ModelOf[t] \in Model
     /\ Room(ModelLimit, modelActive[ModelOf[t]])
     /\ modelActive' = [modelActive EXCEPT ![ModelOf[t]] = @ + 1]
  \/ /\ HoldsModel(pc[t]) /\ ~HoldsModel(s) /\ ModelOf[t] \in Model
     /\ modelActive' = [modelActive EXCEPT ![ModelOf[t]] = @ - 1]
  \/ /\ (HoldsModel(pc[t]) <=> HoldsModel(s)) \/ ModelOf[t] \notin Model
     /\ modelActive' = modelActive

\* A counter that follows the moves stays the number of holders, and a natural
\* number: a turn that leaves is one of them.  Who enters has found room.
LEMMA AgentCountKept ==
  ASSUME IInv, NEW t \in Turn, NEW s, pc' = [pc EXCEPT ![t] = s], AgentCountFollows(t, s)
  PROVE  /\ agentActive' \in [Agent -> Nat]
         /\ \A a \in Agent : agentActive'[a] = Cardinality(AgentHolders(a)')
         /\ AgentsWithinLimit'
<1>1. AgentOf[t] \in Agent
  BY TurnsAssumption
<1>2. \A a \in Agent : /\ agentActive[a] = Cardinality(AgentHolders(a))
                       /\ agentActive[a] \in Nat
  BY DEF IInv, GatesCountHolders, TypeOK
<1>3. \A a \in Agent : agentActive'[a] = Cardinality(AgentHolders(a)')
  <2> SUFFICES ASSUME NEW a \in Agent
               PROVE  agentActive'[a] = Cardinality(AgentHolders(a)')
    OBVIOUS
  <2>1. CASE AgentOf[t] # a
    BY <1>1, <1>2, <2>1, AgentHoldersMove DEF AgentCountFollows, IInv, TypeOK
  <2>2. CASE AgentOf[t] = a
    <3>1. TypeOK /\ agentActive \in [Agent -> Nat]
      BY DEF IInv, TypeOK
    <3>2. CASE ~HoldsAgent(pc[t]) /\ HoldsAgent(s) /\ agentActive' = [agentActive EXCEPT ![AgentOf[t]] = @ + 1]
      <4>1. Cardinality(AgentHolders(a)') = Cardinality(AgentHolders(a)) + 1
        BY <2>2, <3>1, <3>2, AgentHoldersMove
      <4>2. QED
        BY <1>2, <2>2, <3>1, <3>2, <4>1
    <3>3. CASE HoldsAgent(pc[t]) /\ ~HoldsAgent(s) /\ agentActive' = [agentActive EXCEPT ![AgentOf[t]] = @ - 1]
      <4>1. Cardinality(AgentHolders(a)') = Cardinality(AgentHolders(a)) - 1
        BY <2>2, <3>1, <3>3, AgentHoldersMove
      <4>2. QED
        BY <1>2, <2>2, <3>1, <3>3, <4>1
    <3>4. CASE (HoldsAgent(pc[t]) <=> HoldsAgent(s)) /\ agentActive' = agentActive
      <4>1. AgentHolders(a)' = AgentHolders(a)
        BY <3>1, <3>4, AgentHoldersMove
      <4>2. QED
        BY <1>2, <3>4, <4>1
    <3>5. QED
      BY <2>2, <3>2, <3>3, <3>4 DEF AgentCountFollows
  <2>3. QED
    BY <2>1, <2>2
<1>4. \A a \in Agent : Cardinality(AgentHolders(a)') \in Nat
  <2> SUFFICES ASSUME NEW a \in Agent PROVE Cardinality(AgentHolders(a)') \in Nat
    OBVIOUS
  <2>1. AgentHolders(a)' \subseteq Turn
    BY DEF AgentHolders
  <2>2. QED
    BY <2>1, TurnsAssumption, FS_Subset, FS_CardinalityType
<1>5. DOMAIN agentActive' = Agent /\ agentActive' = [a \in Agent |-> agentActive'[a]]
  BY DEF AgentCountFollows, IInv, TypeOK
<1>6. AgentsWithinLimit'
  <2> SUFFICES ASSUME AgentLimit > 0, NEW a \in Agent PROVE agentActive'[a] <= AgentLimit
    BY DEF AgentsWithinLimit
  <2>1. agentActive \in [Agent -> Nat] /\ agentActive[a] <= AgentLimit
    BY DEF IInv, TypeOK, AgentsWithinLimit
  <2>2. CASE /\ Room(AgentLimit, agentActive[AgentOf[t]])
             /\ agentActive' = [agentActive EXCEPT ![AgentOf[t]] = @ + 1]
    BY <2>1, <2>2, LimitsAssumption DEF Room
  <2>3. CASE agentActive' = [agentActive EXCEPT ![AgentOf[t]] = @ - 1]
    BY <2>1, <2>3, LimitsAssumption
  <2>4. CASE agentActive' = agentActive
    BY <2>1, <2>4
  <2>5. QED
    BY <2>2, <2>3, <2>4 DEF AgentCountFollows
<1>7. QED
  BY <1>3, <1>4, <1>5, <1>6

\* For a model gate also the limit is kept: who enters has found room.
LEMMA ModelCountKept ==
  ASSUME IInv, NEW t \in Turn, NEW s, pc' = [pc EXCEPT ![t] = s], ModelCountFollows(t, s)
  PROVE  /\ modelActive' \in [Model -> Nat]
         /\ \A m \in Model : modelActive'[m] = Cardinality(ModelHolders(m)')
         /\ GatesWithinLimit'
<1>2. \A m \in Model : /\ modelActive[m] = Cardinality(ModelHolders(m))
                       /\ modelActive[m] \in Nat
  BY DEF IInv, GatesCountHolders, TypeOK
<1>3. \A m \in Model : modelActive'[m] = Cardinality(ModelHolders(m)')
  <2> SUFFICES ASSUME NEW m \in Model
               PROVE  modelActive'[m] = Cardinality(ModelHolders(m)')
    OBVIOUS
  <2>1. CASE ModelOf[t] # m
    BY <1>2, <2>1, ModelHoldersMove DEF ModelCountFollows, IInv, TypeOK
  <2>2. CASE ModelOf[t] = m
    <3>1. TypeOK /\ modelActive \in [Model -> Nat]
      BY DEF IInv, TypeOK
    <3>2. CASE ~HoldsModel(pc[t]) /\ HoldsModel(s) /\ modelActive' = [modelActive EXCEPT ![ModelOf[t]] = @ + 1]
      <4>1. Cardinality(ModelHolders(m)') = Cardinality(ModelHolders(m)) + 1
        BY <2>2, <3>1, <3>2, ModelHoldersMove
      <4>2. QED
        BY <1>2, <2>2, <3>1, <3>2, <4>1
    <3>3. CASE HoldsModel(pc[t]) /\ ~HoldsModel(s) /\ modelActive' = [modelActive EXCEPT ![ModelOf[t]] = @ - 1]
      <4>1. Cardinality(ModelHolders(m)') = Cardinality(ModelHolders(m)) - 1
        BY <2>2, <3>1, <3>3, ModelHoldersMove
      <4>2. QED
        BY <1>2, <2>2, <3>1, <3>3, <4>1
    <3>4. CASE (HoldsModel(pc[t]) <=> HoldsModel(s)) /\ modelActive' = modelActive
      <4>1. ModelHolders(m)' = ModelHolders(m)
        BY <3>1, <3>4, ModelHoldersMove
      <4>2. QED
        BY <1>2, <3>4, <4>1
    <3>5. QED
      BY <2>2, <3>2, <3>3, <3>4 DEF ModelCountFollows
  <2>3. QED
    BY <2>1, <2>2
<1>4. \A m \in Model : Cardinality(ModelHolders(m)') \in Nat
  <2> SUFFICES ASSUME NEW m \in Model PROVE Cardinality(ModelHolders(m)') \in Nat
    OBVIOUS
  <2>1. ModelHolders(m)' \subseteq Turn
    BY DEF ModelHolders
  <2>2. QED
    BY <2>1, TurnsAssumption, FS_Subset, FS_CardinalityType
<1>5. DOMAIN modelActive' = Model /\ modelActive' = [m \in Model |-> modelActive'[m]]
  BY DEF ModelCountFollows, IInv, TypeOK
<1>6. GatesWithinLimit'
  <2> SUFFICES ASSUME ModelLimit > 0, NEW m \in Model PROVE modelActive'[m] <= ModelLimit
    BY DEF GatesWithinLimit
  <2>1. modelActive \in [Model -> Nat] /\ modelActive[m] <= ModelLimit
    BY DEF IInv, TypeOK, GatesWithinLimit
  <2>2. CASE /\ Room(ModelLimit, modelActive[ModelOf[t]])
             /\ modelActive' = [modelActive EXCEPT ![ModelOf[t]] = @ + 1]
    BY <2>1, <2>2, LimitsAssumption DEF Room
  <2>3. CASE modelActive' = [modelActive EXCEPT ![ModelOf[t]] = @ - 1]
    BY <2>1, <2>3, LimitsAssumption
  <2>4. CASE modelActive' = modelActive
    BY <2>1, <2>4
  <2>5. QED
    BY <2>2, <2>3, <2>4 DEF ModelCountFollows
<1>7. QED
  BY <1>3, <1>4, <1>5, <1>6

\* A turn enters its session's lock when it takes it, and frees it when it leaves.
LocksFollow(t, s) ==
  \/ HoldsSession(s) /\ sessionLock' = [sessionLock EXCEPT ![SessionOf[t]] = t]
  \/ sessionLock' = [sessionLock EXCEPT ![SessionOf[t]] = None]
  \/ (HoldsSession(pc[t]) => HoldsSession(s)) /\ sessionLock' = sessionLock

LEMMA LocksKept ==
  ASSUME IInv, NEW t \in Turn, NEW s, pc' = [pc EXCEPT ![t] = s], LocksFollow(t, s)
  PROVE  /\ sessionLock' \in [Session -> Turn \union {None}]
         /\ LocksHaveHolders'
<1>1. pc'[t] = s /\ \A u \in Turn : u # t => pc'[u] = pc[u]
  BY DEF IInv, TypeOK
<1>2. /\ sessionLock \in [Session -> Turn \union {None}] /\ SessionOf[t] \in Session
      /\ None \notin Turn
  BY TurnsAssumption DEF IInv, TypeOK
<1>3. sessionLock' \in [Session -> Turn \union {None}]
  BY <1>2 DEF LocksFollow
<1>4. ASSUME NEW x \in Session, sessionLock'[x] # None
      PROVE  sessionLock'[x] \in SessionHolders(x)'
  <2> DEFINE u == sessionLock'[x]
  <2>1. u \in Turn
    BY <1>3, <1>4
  <2>2. CASE u = t /\ x = SessionOf[t] /\ HoldsSession(s)
    BY <1>1, <2>2 DEF SessionHolders, HoldsSession
  <2>3. CASE sessionLock[x] = u /\ (u = t /\ HoldsSession(pc[t]) => HoldsSession(s))
    <3>1. u \in SessionHolders(x)
      BY <1>2, <1>4, <2>3 DEF IInv, LocksHaveHolders
    <3>2. SessionOf[u] = x /\ HoldsSession(pc[u])
      BY <3>1 DEF SessionHolders, HoldsSession
    <3>3. HoldsSession(pc'[u])
      BY <1>1, <2>1, <2>3, <3>2
    <3>4. QED
      BY <2>1, <3>2, <3>3 DEF SessionHolders, HoldsSession
  <2>4. CASE HoldsSession(s) /\ sessionLock' = [sessionLock EXCEPT ![SessionOf[t]] = t]
    <3>1. IF x = SessionOf[t] THEN u = t ELSE u = sessionLock[x]
      BY <1>2, <2>4
    <3>2. QED
      BY <2>2, <2>3, <2>4, <3>1
  <2>5. CASE sessionLock' = [sessionLock EXCEPT ![SessionOf[t]] = None]
    <3>1. x # SessionOf[t] /\ sessionLock[x] = u
      BY <1>2, <1>4, <2>5
    <3>2. u = t => SessionOf[t] = x
      BY <1>2, <1>4, <3>1 DEF IInv, LocksHaveHolders, SessionHolders
    <3>3. QED
      BY <2>3, <3>1, <3>2
  <2>6. CASE (HoldsSession(pc[t]) => HoldsSession(s)) /\ sessionLock' = sessionLock
    BY <2>3, <2>6
  <2>7. QED
    BY <2>4, <2>5, <2>6 DEF LocksFollow
<1>5. QED
  BY <1>3, <1>4 DEF LocksHaveHolders

\* A move of one turn: the counters and the lock follow it, and the turn asks for
\* a model's permit only when it has a model.
Move(t, s) ==
  /\ s \in Places /\ Goto(t, s)
  /\ AgentCountFollows(t, s) /\ ModelCountFollows(t, s) /\ LocksFollow(t, s)
  /\ s \in {"wants model", "resuming", "leaves model"} => ModelOf[t] \in Model

LEMMA MoveKeepsInv ==
  ASSUME IInv, NEW t \in Turn, NEW s, Move(t, s)
  PROVE  IInv'
<1> USE DEF Move
<1>1. pc' = [pc EXCEPT ![t] = s]
  BY DEF Goto
<1>2. TypeOK'
  BY <1>1, AgentCountKept, ModelCountKept, LocksKept DEF IInv, TypeOK, Places
<1>3. GatesCountHolders' /\ AgentsWithinLimit' /\ GatesWithinLimit' /\ LocksHaveHolders'
  BY <1>1, AgentCountKept, ModelCountKept, LocksKept DEF GatesCountHolders
<1>4. GatedTurnsWait'
  BY <1>1 DEF IInv, GatedTurnsWait, TypeOK
<1>5. QED
  BY <1>2, <1>3, <1>4 DEF IInv

\* At the start every gate is empty.
LEMMA InitEstablishesInv == Init => IInv
<1> SUFFICES ASSUME Init PROVE IInv
  OBVIOUS
<1>1. \A a \in Agent : AgentHolders(a) = {}
  BY DEF Init, AgentHolders
<1>2. \A m \in Model : ModelHolders(m) = {}
  BY DEF Init, ModelHolders
<1>3. GatesCountHolders
  BY <1>1, <1>2, FS_EmptySet DEF Init, GatesCountHolders
<1>4. TypeOK
  BY DEF Init, TypeOK
<1>5. GatedTurnsWait
  BY DEF Init, GatedTurnsWait
<1>6. AgentsWithinLimit /\ GatesWithinLimit /\ LocksHaveHolders
  BY LimitsAssumption DEF Init, AgentsWithinLimit, GatesWithinLimit, LocksHaveHolders
<1>7. QED
  BY <1>3, <1>4, <1>5, <1>6 DEF IInv

\* The child is not yet anywhere when its parent sends it on its way.
LEMMA DispatchKeepsInv ==
  ASSUME IInv, NEW t \in Turn, Dispatch(t)
  PROVE  IInv'
<1> DEFINE c == ChildOf[t]
<1>1. c \in Turn /\ c # t /\ pc[t] = "running" /\ pc[c] = "new"
  BY TurnsAssumption DEF Dispatch
<1>2. pc' = [pc EXCEPT ![t] = "dispatched", ![c] = "queued"]
  BY DEF Dispatch
<1>3. pc'[t] = "dispatched" /\ pc'[c] = "queued" /\ \A u \in Turn : u \notin {t, c} => pc'[u] = pc[u]
  BY <1>1, <1>2 DEF IInv, TypeOK
<1>4. \A a : AgentHolders(a)' = AgentHolders(a)
  BY <1>1, <1>3 DEF AgentHolders
<1>5. \A m : ModelHolders(m)' = ModelHolders(m)
  BY <1>1, <1>3 DEF ModelHolders
<1>6. UNCHANGED <<agentActive, modelActive, sessionLock>>
  BY DEF Dispatch
<1>7. TypeOK'
  BY <1>1, <1>2, <1>6 DEF IInv, TypeOK
<1>8. GatesCountHolders'
  BY <1>4, <1>5, <1>6 DEF IInv, GatesCountHolders
<1>9. GatedTurnsWait'
  BY <1>1, <1>3 DEF IInv, GatedTurnsWait
<1>10. AgentsWithinLimit' /\ GatesWithinLimit'
  BY <1>6 DEF IInv, AgentsWithinLimit, GatesWithinLimit
<1>11. LocksHaveHolders'
  <2>1. \A x : SessionHolders(x) \subseteq SessionHolders(x)'
    BY <1>1, <1>3 DEF SessionHolders
  <2>2. QED
    BY <1>6, <2>1 DEF IInv, LocksHaveHolders
<1>12. QED
  BY <1>7, <1>8, <1>9, <1>10, <1>11 DEF IInv

\* Each action but Dispatch is such a move.
LEMMA StepIsMove ==
  ASSUME IInv, NEW t \in Turn, Step(t)
  PROVE  Dispatch(t) \/ \E s : Move(t, s)
<1> USE DEF HoldsAgent, HoldsModel, HoldsSession, Places, AgentCountFollows,
            ModelCountFollows, LocksFollow
<1>a. ModelOf[t] = None \/ ModelOf[t] \in Model
  BY TurnsAssumption
<1>b. None \notin Model
  BY TurnsAssumption
<1>c. pc[t] \in {"wants model", "resuming", "leaves model"} => ModelOf[t] \in Model
  BY DEF IInv, GatedTurnsWait
<1>1. CASE TakeTask(t)
  <2>1. Move(t, "wants agent")
    BY <1>1 DEF TakeTask, Move
  <2>2. QED
    BY <2>1
<1>2. CASE AcquireAgent(t)
  <2>1. ModelOf[t] = None => Move(t, "wants session")
    BY <1>2, <1>b DEF AcquireAgent, Move
  <2>2. ModelOf[t] # None => Move(t, "wants model")
    BY <1>2, <1>a DEF AcquireAgent, Move
  <2>3. QED
    BY <2>1, <2>2
<1>3. CASE AcquireModel(t)
  <2>1. Move(t, "wants session")
    BY <1>3, <1>c DEF AcquireModel, TakeModelPermit, Move
  <2>2. QED
    BY <2>1
<1>4. CASE AcquireSession(t)
  <2>1. Move(t, "running")
    BY <1>4 DEF AcquireSession, Move
  <2>2. QED
    BY <2>1
<1>5. CASE Dispatch(t)
  BY <1>5
<1>6. CASE Pause(t)
  <2>1. ModelOf[t] = None => Move(t, "waiting")
    BY <1>6, <1>b DEF Pause, Move
  <2>2. ModelOf[t] # None => Move(t, "waiting")
    BY <1>6, <1>a DEF Pause, Move
  <2>3. QED
    BY <2>1, <2>2
<1>7. CASE WaitOver(t)
  <2>1. ModelOf[t] = None => Move(t, "running")
    BY <1>7, <1>b DEF WaitOver, Move
  <2>2. ModelOf[t] # None => Move(t, "resuming")
    BY <1>7, <1>a DEF WaitOver, Move
  <2>3. QED
    BY <2>1, <2>2
<1>8. CASE Resume(t)
  <2>1. Move(t, "running")
    BY <1>8, <1>c DEF Resume, TakeModelPermit, Move
  <2>2. QED
    BY <2>1
<1>9. CASE ReleaseSession(t)
  <2>1. ModelOf[t] = None => Move(t, "leaves agent")
    BY <1>9, <1>b DEF ReleaseSession, Move
  <2>2. ModelOf[t] # None => Move(t, "leaves model")
    BY <1>9, <1>a DEF ReleaseSession, Move
  <2>3. QED
    BY <2>1, <2>2
<1>10. CASE ReleaseModel(t)
  <2>1. Move(t, "leaves agent")
    BY <1>10, <1>c DEF ReleaseModel, Move
  <2>2. QED
    BY <2>1
<1>11. CASE ReleaseAgent(t)
  <2>1. Move(t, "done")
    BY <1>11 DEF ReleaseAgent, Move
  <2>2. QED
    BY <2>1
<1>12. QED
  BY <1>1, <1>2, <1>3, <1>4, <1>5, <1>6, <1>7, <1>8, <1>9, <1>10, <1>11 DEF Step

LEMMA StepKeepsInv ==
  ASSUME IInv, NEW t \in Turn, Step(t)
  PROVE  IInv'
BY StepIsMove, MoveKeepsInv, DispatchKeepsInv

\* Every step and every stutter keeps the invariant.
LEMMA NextKeepsInv == IInv /\ [Next]_vars => IInv'
<1> SUFFICES ASSUME IInv, [Next]_vars PROVE IInv'
  OBVIOUS
<1>1. CASE Next
  BY <1>1, StepKeepsInv DEF Next
<1>2. CASE UNCHANGED vars
  <2>1. TypeOK' /\ GatesCountHolders' /\ GatedTurnsWait'
    BY <1>2 DEF vars, IInv, TypeOK, GatesCountHolders, AgentHolders, ModelHolders,
                GatedTurnsWait
  <2>2. AgentsWithinLimit' /\ GatesWithinLimit' /\ LocksHaveHolders'
    BY <1>2 DEF vars, IInv, AgentsWithinLimit, GatesWithinLimit, LocksHaveHolders,
                SessionHolders
  <2>3. QED
    BY <2>1, <2>2 DEF IInv
<1>3. QED
  BY <1>1, <1>2

\* The turns a model is working for are among the holders of its gate.
LEMMA InvKeepsModelLimit == IInv => ModelLimitKept
<1> SUFFICES ASSUME IInv, ModelLimit > 0, NEW m \in Model
             PROVE  Cardinality({t \in Turn : ModelOf[t] = m /\ pc[t] \in {"running", "dispatched"}})
                      <= ModelLimit
  BY DEF ModelLimitKept
<1> DEFINE D == {t \in Turn : ModelOf[t] = m /\ pc[t] \in {"running", "dispatched"}}
<1>1. D \subseteq ModelHolders(m)
  BY DEF ModelHolders
<1>2. Cardinality(D) <= Cardinality(ModelHolders(m)) /\ Cardinality(D) \in Nat
  BY <1>1, HolderSetsFinite, FS_Subset, FS_CardinalityType
<1>3. Cardinality(ModelHolders(m)) <= ModelLimit
  BY DEF IInv, GatesCountHolders, GatesWithinLimit
<1>4. QED
  BY <1>2, <1>3, HolderSetsFinite, LimitsAssumption

\* The counters of the gates are the numbers of the turns inside, whoever
\* pauses, resumes or leaves in whatever order (turn_gate, paused_model_gate).
THEOREM GateCountsExact == Spec => []GatesCountHolders
<1>1. Spec => []IInv
  BY InitEstablishesInv, NextKeepsInv, PTL DEF Spec
<1>2. IInv => GatesCountHolders
  BY DEF IInv
<1>3. QED
  BY <1>1, <1>2, PTL

\* No model is ever driven by more turns at once than its limit, for any set of
\* turns, sessions and agents and any pattern of waits inside them.
THEOREM ModelLimitHolds == Spec => []ModelLimitKept
<1>1. Spec => []IInv
  BY InitEstablishesInv, NextKeepsInv, PTL DEF Spec
<1>2. QED
  BY <1>1, InvKeepsModelLimit, PTL
-----------------------------------------------------------------------------
(* The gates implement semaphores.                                           *)

\* What a move means for one agent's gate: nothing, a permit taken while there
\* is room, or a permit given back by its holder.
LEMMA AgentGateStep ==
  ASSUME IInv, NEW t \in Turn, NEW s, Move(t, s), NEW a \in Agent
  PROVE  [AgentGate(a)!SemNext]_(AgentGate(a)!semVars)
<1>1. TypeOK /\ pc' = [pc EXCEPT ![t] = s] /\ AgentLimit' = AgentLimit
  BY DEF IInv, Move, Goto
<1>2. agentActive[a] = Cardinality(AgentHolders(a))
  BY DEF IInv, GatesCountHolders
<1>3. CASE AgentHolders(a)' = AgentHolders(a)
  BY <1>1, <1>3 DEF AgentGate!semVars
<1>4. CASE AgentOf[t] = a /\ ~HoldsAgent(pc[t]) /\ HoldsAgent(s)
  <2>1. Room(AgentLimit, agentActive[a])
    BY <1>4 DEF Move, AgentCountFollows
  <2>2. Cardinality(AgentHolders(a)) = AgentGate(a)!Cardinality(AgentHolders(a))
    BY DEF AgentGate!Cardinality, Cardinality, AgentGate!IsFiniteSet, IsFiniteSet
  <2>3. AgentGate(a)!Room
    BY <1>2, <2>1, <2>2 DEF Room, AgentGate!Room
  <2>4. AgentGate(a)!Take(t)
    BY <1>1, <1>4, <2>3, AgentHoldersChange DEF AgentGate!Take
  <2>5. QED
    BY <2>4 DEF AgentGate!SemNext
<1>5. CASE AgentOf[t] = a /\ HoldsAgent(pc[t]) /\ ~HoldsAgent(s)
  <2>1. AgentGate(a)!Give(t)
    BY <1>1, <1>5, AgentHoldersChange DEF AgentGate!Give
  <2>2. QED
    BY <2>1 DEF AgentGate!SemNext
<1>6. QED
  BY <1>1, <1>3, <1>4, <1>5, AgentHoldersChange

\* The same for one model's gate.
LEMMA ModelGateStep ==
  ASSUME IInv, NEW t \in Turn, NEW s, Move(t, s), NEW m \in Model
  PROVE  [ModelGate(m)!SemNext]_(ModelGate(m)!semVars)
<1>1. TypeOK /\ pc' = [pc EXCEPT ![t] = s] /\ ModelLimit' = ModelLimit
  BY DEF IInv, Move, Goto
<1>2. modelActive[m] = Cardinality(ModelHolders(m))
  BY DEF IInv, GatesCountHolders
<1>3. CASE ModelHolders(m)' = ModelHolders(m)
  BY <1>1, <1>3 DEF ModelGate!semVars
<1>4. CASE ModelOf[t] = m /\ ~HoldsModel(pc[t]) /\ HoldsModel(s)
  <2>1. Room(ModelLimit, modelActive[m])
    BY <1>4 DEF Move, ModelCountFollows
  <2>2. Cardinality(ModelHolders(m)) = ModelGate(m)!Cardinality(ModelHolders(m))
    BY DEF ModelGate!Cardinality, Cardinality, ModelGate!IsFiniteSet, IsFiniteSet
  <2>3. ModelGate(m)!Room
    BY <1>2, <2>1, <2>2 DEF Room, ModelGate!Room
  <2>4. ModelGate(m)!Take(t)
    BY <1>1, <1>4, <2>3, ModelHoldersChange DEF ModelGate!Take
  <2>5. QED
    BY <2>4 DEF ModelGate!SemNext
<1>5. CASE ModelOf[t] = m /\ HoldsModel(pc[t]) /\ ~HoldsModel(s)
  <2>1. ModelGate(m)!Give(t)
    BY <1>1, <1>5, ModelHoldersChange DEF ModelGate!Give
  <2>2. QED
    BY <2>1 DEF ModelGate!SemNext
<1>6. QED
  BY <1>1, <1>3, <1>4, <1>5, ModelHoldersChange

\* Sending a child on its way touches no gate.
LEMMA DispatchHoldsGates ==
  ASSUME IInv, NEW t \in Turn, Dispatch(t)
  PROVE  /\ \A a : AgentHolders(a)' = AgentHolders(a)
         /\ \A m : ModelHolders(m)' = ModelHolders(m)
<1>1. /\ pc[t] = "running" /\ pc[ChildOf[t]] = "new"
      /\ \A u \in Turn : IF u = t THEN pc'[u] = "dispatched"
                        ELSE IF u = ChildOf[t] THEN pc'[u] = "queued" ELSE pc'[u] = pc[u]
  BY DEF Dispatch, IInv, TypeOK
<1>2. QED
  BY <1>1 DEF AgentHolders, ModelHolders

GateSteps ==
  /\ \A a \in Agent : UNCHANGED AgentGate(a)!semVars \/ AgentGate(a)!SemNext
  /\ \A m \in Model : UNCHANGED ModelGate(m)!semVars \/ ModelGate(m)!SemNext

LEMMA StepMovesGates == IInv /\ [Next]_vars => GateSteps
<1> SUFFICES ASSUME IInv, [Next]_vars PROVE GateSteps
  OBVIOUS
<1>1. ASSUME \A a : AgentHolders(a)' = AgentHolders(a), \A m : ModelHolders(m)' = ModelHolders(m)
      PROVE  GateSteps
  BY <1>1 DEF GateSteps, AgentGate!semVars, ModelGate!semVars
<1>2. CASE UNCHANGED vars
  BY <1>1, <1>2 DEF vars, AgentHolders, ModelHolders
<1>3. ASSUME NEW t \in Turn, Step(t) PROVE GateSteps
  <2>1. CASE Dispatch(t)
    BY <1>1, <2>1, DispatchHoldsGates
  <2>2. ASSUME NEW s, Move(t, s) PROVE GateSteps
    BY <2>2, AgentGateStep, ModelGateStep DEF GateSteps
  <2>3. QED
    BY <1>3, <2>1, <2>2, StepIsMove
<1>4. QED
  BY <1>2, <1>3 DEF Next

LEMMA GatesBeginEmpty ==
  Init => /\ \A a \in Agent : AgentGate(a)!SemInit
          /\ \A m \in Model : ModelGate(m)!SemInit
BY DEF Init, AgentHolders, ModelHolders, AgentGate!SemInit, ModelGate!SemInit

\* Each gate, as the turns that wait, pause, come back and leave use it, is a
\* semaphore: the abstract specification that ConcurrencyGate implements
\* (turn_gate, paused_model_gate).
THEOREM GatesRefineSemaphores == Spec => GatesAreSemaphores
<1>1. Spec => []IInv
  BY InitEstablishesInv, NextKeepsInv, PTL DEF Spec
<1>2. IInv /\ [Next]_vars => [GateSteps]_vars
  BY StepMovesGates
<1>3. Spec => [][GateSteps]_vars
  BY <1>1, <1>2, PTL DEF Spec
<1>4. QED
  BY <1>3, GatesBeginEmpty DEF Spec, GatesAreSemaphores, GateSteps

\* Of one agent: all that turns do to its gate is a behaviour of Semaphore.
THEOREM AgentGateIsSemaphore ==
  ASSUME NEW a \in Agent
  PROVE  Spec => AgentGate(a)!SemSpec
<1>1. Spec => []IInv
  BY InitEstablishesInv, NextKeepsInv, PTL DEF Spec
<1>2. IInv /\ [Next]_vars => [AgentGate(a)!SemNext]_(AgentGate(a)!semVars)
  BY StepMovesGates DEF GateSteps
<1>3. Init => AgentGate(a)!SemInit
  BY GatesBeginEmpty
<1>4. QED
  BY <1>1, <1>2, <1>3, PTL DEF Spec, AgentGate!SemSpec

-----------------------------------------------------------------------------
(* No deadlock of agents with one permit.                                    *)

\* Two turns are two.
LEMMA PairHasTwo ==
  ASSUME NEW t, NEW u, t # u
  PROVE  Cardinality({t, u}) = 2
<1>1. IsFiniteSet({t}) /\ Cardinality({t}) = 1 /\ u \notin {t}
  BY FS_Singleton
<1>2. Cardinality({t} \union {u}) = 1 + 1
  BY <1>1, FS_AddElement
<1>3. {t} \union {u} = {t, u}
  OBVIOUS
<1>4. QED
  BY <1>2, <1>3

\* A gate of one permit has one holder.
LEMMA OneHolder ==
  ASSUME IInv, AgentLimit = 1, NEW a \in Agent,
         NEW t \in AgentHolders(a), NEW u \in AgentHolders(a), t # u
  PROVE  FALSE
<1> DEFINE c == Cardinality(AgentHolders(a))
<1>1. IsFiniteSet(AgentHolders(a)) /\ c \in Nat
  BY HolderSetsFinite
<1>2. agentActive[a] = c
  BY DEF IInv, GatesCountHolders
<1>3. agentActive[a] <= 1
  BY DEF IInv, AgentsWithinLimit
<1>4. Cardinality({t, u}) = 2 /\ {t, u} \in SUBSET AgentHolders(a)
  BY PairHasTwo
<1>5. Cardinality({t, u}) <= c
  BY <1>1, <1>4, FS_Subset
<1> HIDE DEF c
<1>6. 2 <= c /\ c <= 1
  BY <1>2, <1>3, <1>4, <1>5
<1>7. QED
  BY <1>1, <1>6

\* With one permit per agent a session's lock is never waited for: its owner is
\* inside the gate that the other turn would have to be inside, too.
LEMMA LockIsFree ==
  ASSUME IInv, AgentLimit = 1, NEW t \in Turn, pc[t] = "wants session",
         \A v, w \in Turn : SessionOf[v] = SessionOf[w] => AgentOf[v] = AgentOf[w]
  PROVE  sessionLock[SessionOf[t]] = None
<1> SUFFICES ASSUME sessionLock[SessionOf[t]] # None PROVE FALSE
  OBVIOUS
<1> DEFINE u == sessionLock[SessionOf[t]]
           a == AgentOf[t]
<1>1. SessionOf[t] \in Session /\ a \in Agent
  BY TurnsAssumption
<1>2. u \in Turn /\ SessionOf[u] = SessionOf[t] /\ pc[u] \in {"running", "dispatched", "waiting", "resuming"}
  BY <1>1 DEF IInv, LocksHaveHolders, SessionHolders
<1>3. u # t /\ AgentOf[u] = a
  BY <1>2
<1>4. t \in AgentHolders(a) /\ u \in AgentHolders(a)
  BY <1>2, <1>3 DEF AgentHolders
<1>5. QED
  BY <1>1, <1>3, <1>4, OneHolder

\* Where nothing waits for a session, the order of the waits is workers, agent,
\* model, and who has a model's permit goes on.
LEMMA NobodyWaitsInACircle ==
  ASSUME IInv, AgentLimit = 1,
         \A v, w \in Turn : SessionOf[v] = SessionOf[w] => AgentOf[v] = AgentOf[w]
  PROVE  NoDeadlock
<1> SUFFICES ASSUME NEW D \in SUBSET Turn, D # {},
                    \A t \in D : Blockers(t) # {} /\ Blockers(t) \subseteq D
             PROVE  FALSE
  BY DEF NoDeadlock
<1>1. \A t \in D : pc[t] \in {"queued", "wants agent", "wants model", "resuming"}
  BY LockIsFree DEF Blockers
<1>2. ASSUME NEW t \in D, pc[t] \in {"wants model", "resuming"} PROVE FALSE
  <2>1. Blockers(t) = ModelHolders(ModelOf[t])
    BY <1>2 DEF Blockers
  <2>2. PICK u \in D : u \in ModelHolders(ModelOf[t])
    BY <2>1
  <2>3. QED
    BY <1>1, <2>2 DEF ModelHolders
<1>3. ASSUME NEW t \in D, pc[t] = "wants agent" PROVE FALSE
  <2>1. Blockers(t) = AgentHolders(AgentOf[t])
    BY <1>3 DEF Blockers
  <2>2. PICK u \in D : u \in AgentHolders(AgentOf[t])
    BY <2>1
  <2>3. pc[u] \in {"wants model", "resuming"}
    BY <1>1, <2>2 DEF AgentHolders
  <2>4. QED
    BY <1>2, <2>3
<1>4. ASSUME NEW t \in D, pc[t] = "queued" PROVE FALSE
  <2>1. Blockers(t) = OnWorker
    BY <1>4 DEF Blockers
  <2>2. PICK u \in D : u \in OnWorker
    BY <2>1
  <2>3. QED
    BY <1>1, <1>2, <1>3, <2>2 DEF OnWorker
<1>5. QED
  BY <1>1, <1>2, <1>3, <1>4

\* Agents that run one turn at a time (the default) never wait in a circle,
\* whatever model gates are given up and taken back in the middle of turns and
\* however small the pool of workers is: "normal contention, never a deadlock"
\* (concurrency.py 31) is true of them.  A session belongs to one agent.
THEOREM OnePermitNeverDeadlocks ==
  ASSUME AgentLimit = 1,
         \A v, w \in Turn : SessionOf[v] = SessionOf[w] => AgentOf[v] = AgentOf[w]
  PROVE  Spec => []NoDeadlock
<1>1. Spec => []IInv
  BY InitEstablishesInv, NextKeepsInv, PTL DEF Spec
<1>2. IInv => NoDeadlock
  BY NobodyWaitsInACircle
<1>3. QED
  BY <1>1, <1>2, PTL

\* Without a limit on models a turn that comes back from a pause waits for nobody,
\* so that the owner of a session's lock always goes on.
LEMMA OwnersGoOn ==
  ASSUME IInv, ModelLimit = 0
  PROVE  NoDeadlock
<1> SUFFICES ASSUME NEW D \in SUBSET Turn, D # {},
                    \A t \in D : Blockers(t) # {} /\ Blockers(t) \subseteq D
             PROVE  FALSE
  BY DEF NoDeadlock
<1>1. \A t \in D : pc[t] \in {"queued", "wants agent", "wants session"}
  BY DEF Blockers, Room
<1>2. ASSUME NEW t \in D, pc[t] = "wants session" PROVE FALSE
  <2> DEFINE u == sessionLock[SessionOf[t]]
  <2>1. Blockers(t) = {u} /\ u # None /\ u \in D
    BY <1>2 DEF Blockers
  <2>2. SessionOf[t] \in Session
    BY TurnsAssumption
  <2>3. u \in SessionHolders(SessionOf[t])
    BY <2>1, <2>2 DEF IInv, LocksHaveHolders
  <2>4. QED
    BY <1>1, <2>1, <2>3 DEF SessionHolders
<1>3. ASSUME NEW t \in D, pc[t] = "wants agent" PROVE FALSE
  <2>1. Blockers(t) = AgentHolders(AgentOf[t])
    BY <1>3 DEF Blockers
  <2>2. PICK u \in D : u \in AgentHolders(AgentOf[t])
    BY <2>1
  <2>3. QED
    BY <1>1, <1>2, <2>2 DEF AgentHolders
<1>4. ASSUME NEW t \in D, pc[t] = "queued" PROVE FALSE
  <2>1. Blockers(t) = OnWorker
    BY <1>4 DEF Blockers
  <2>2. PICK u \in D : u \in OnWorker
    BY <2>1
  <2>3. QED
    BY <1>1, <1>2, <1>3, <2>2 DEF OnWorker
<1>5. QED
  BY <1>1, <1>2, <1>3, <1>4

\* The circle needs a limited model, too: with unlimited models any number of
\* turns per agent is safe (paused_model_gate, turn_gate).
THEOREM UnlimitedModelsNeverDeadlock ==
  ASSUME ModelLimit = 0
  PROVE  Spec => []NoDeadlock
<1>1. Spec => []IInv
  BY InitEstablishesInv, NextKeepsInv, PTL DEF Spec
<1>2. IInv => NoDeadlock
  BY OwnersGoOn
<1>3. QED
  BY <1>1, <1>2, PTL
=============================================================================
