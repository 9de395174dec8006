----------------------- MODULE ConcurrencyGateProofs -----------------------
(***************************************************************************)
(* The gate's invariants and its refinement of Semaphore, for any finite    *)
(* set of threads and any set of limits.  The inductive invariant is the    *)
(* conjunction of the three invariants themselves.  Then the refresh of     *)
(* the limits of the gates, for one administrator.                          *)
(***************************************************************************)
EXTENDS ConcurrencyGate, GateLimits, FiniteSetTheorems, TLAPS

IInv == TypeOK /\ PermitsAccountedFor /\ NoLostWakeup

\* The sets of threads the invariants count are finite.
LEMMA ThreadSetsFinite ==
  ASSUME TypeOK
  PROVE  /\ IsFiniteSet(Holders) /\ Cardinality(Holders) \in Nat
         /\ IsFiniteSet(Notified) /\ Cardinality(Notified) \in Nat
         /\ max \in Nat
<1>1. Holders \subseteq Thread /\ Notified \subseteq Thread
  BY DEF Holders, Notified
<1>2. IsFiniteSet(Holders) /\ IsFiniteSet(Notified)
  BY <1>1, ThreadAssumption, FS_Subset
<1>3. QED
  BY <1>2, FS_CardinalityType, LimitAssumption DEF TypeOK

\* Taking one element out of a finite set costs at most one in cardinality.
LEMMA AtMostOneFewer ==
  ASSUME NEW S, IsFiniteSet(S), NEW x
  PROVE  Cardinality(S \ {x}) \in Nat /\ Cardinality(S \ {x}) >= Cardinality(S) - 1
<1>0. Cardinality(S) \in Nat
  BY FS_CardinalityType
<1>1. CASE x \in S
  <2>1. Cardinality(S \ {x}) = Cardinality(S) - 1 /\ IsFiniteSet(S \ {x})
    BY <1>1, FS_RemoveElement
  <2>2. Cardinality(S \ {x}) \in Nat
    BY <2>1, FS_CardinalityType
  <2>3. QED
    BY <1>0, <2>1, <2>2
<1>2. CASE x \notin S
  <2>1. S \ {x} = S
    BY <1>2
  <2>2. QED
    BY <1>0, <2>1
<1>3. QED
  BY <1>1, <1>2

\* What a successful look at the counter does to the sets.
LEMMA PermitTaken ==
  ASSUME TypeOK, NEW t \in Thread, t \notin Holders,
         pc' = [pc EXCEPT ![t] = "inside"]
  PROVE  /\ Holders' = Holders \union {t}
         /\ Cardinality(Holders') = Cardinality(Holders) + 1
         /\ Sleeping' = Sleeping \ {t}
         /\ Notified' = Notified \ {t}
<1>1. Holders' = Holders \union {t} /\ Sleeping' = Sleeping \ {t} /\ Notified' = Notified \ {t}
  BY DEF Holders, Sleeping, Notified, TypeOK
<1>2. Cardinality(Holders') = Cardinality(Holders) + 1
  BY <1>1, ThreadSetsFinite, FS_AddElement
<1>3. QED
  BY <1>1, <1>2

\* A look at the counter, whether it takes the permit or waits, keeps the
\* invariant: a notified thread that goes back to sleep found the gate full.
LEMMA TryAcquireKeepsInv ==
  ASSUME IInv, NEW t \in Thread, pc[t] \in {"outside", "timedout", "notified"},
         TryAcquire(t)
  PROVE  IInv'
<1> USE DEF IInv
<1>0. t \notin Holders
  BY DEF Holders
<1>1. CASE ~Full /\ active' = active + 1 /\ pc' = [pc EXCEPT ![t] = "inside"] /\ UNCHANGED max
  <2>1. TypeOK'
    BY <1>1 DEF TypeOK
  <2>2. PermitsAccountedFor'
    BY <1>0, <1>1, PermitTaken DEF PermitsAccountedFor
  <2>3. Cardinality(Notified') \in Nat /\ Cardinality(Notified') >= Cardinality(Notified) - 1
    BY <1>0, <1>1, PermitTaken, ThreadSetsFinite, AtMostOneFewer
  <2>4. Sleeping' \subseteq Sleeping
    BY <1>0, <1>1, PermitTaken
  <2>5. NoLostWakeup'
    BY <1>1, <2>3, <2>4, ThreadSetsFinite DEF NoLostWakeup, TypeOK
  <2>6. QED
    BY <2>1, <2>2, <2>5
<1>2. CASE Full /\ pc' = [pc EXCEPT ![t] = "sleeping"] /\ UNCHANGED <<active, max>>
  <2>1. TypeOK'
    BY <1>2 DEF TypeOK
  <2>2. Holders' = Holders
    BY <1>0, <1>2 DEF Holders, TypeOK
  <2>3. PermitsAccountedFor'
    BY <1>2, <2>2 DEF PermitsAccountedFor
  <2>4. Notified' \subseteq Notified
    BY <1>2 DEF Notified, TypeOK
  <2>5. Cardinality(Notified') \in Nat
    BY <2>4, ThreadSetsFinite, FS_Subset, FS_CardinalityType
  <2>6. NoLostWakeup'
    BY <1>2, <2>5, ThreadSetsFinite DEF NoLostWakeup, Full, TypeOK
  <2>7. QED
    BY <2>1, <2>3, <2>6
<1>3. QED
  BY <1>1, <1>2 DEF TryAcquire

\* Giving a permit back keeps the invariant: the permit that becomes free is
\* matched by a waiter that becomes notified, if anybody waits.
LEMMA ReleaseKeepsInv ==
  ASSUME IInv, NEW t \in Thread, Release(t)
  PROVE  IInv'
<1> USE DEF IInv
<1>1. t \in Holders /\ active' = active - 1 /\ UNCHANGED max
  BY DEF Release
<1>2. Cardinality(Holders \ {t}) = Cardinality(Holders) - 1 /\ Cardinality(Holders \ {t}) \in Nat
  BY <1>1, ThreadSetsFinite, FS_RemoveElement, FS_CardinalityType
<1>3. active - 1 \in Nat
  BY <1>2 DEF PermitsAccountedFor
<1>4. CASE Listed = {} /\ pc' = [pc EXCEPT ![t] = "outside"]
  <2>1. TypeOK'
    BY <1>1, <1>3, <1>4 DEF TypeOK
  <2>2. Holders' = Holders \ {t} /\ Sleeping' = {}
    BY <1>1, <1>4 DEF Holders, Sleeping, Listed, TypeOK
  <2>3. QED
    BY <1>1, <1>2, <2>1, <2>2 DEF PermitsAccountedFor, NoLostWakeup
<1>5. CASE \E w \in Listed : pc' = [pc EXCEPT ![t] = "outside", ![w] = "notified"]
  <2>1. PICK w \in Listed : pc' = [pc EXCEPT ![t] = "outside", ![w] = "notified"]
    BY <1>5
  <2>2. w \in Thread /\ w # t /\ w \notin Notified
    BY <1>1, <2>1 DEF Listed, Sleeping, TimedOut, Holders, Notified
  <2>3. TypeOK'
    BY <1>1, <1>3, <2>1, <2>2 DEF TypeOK
  <2>4. /\ Holders' = Holders \ {t}
        /\ Notified' = Notified \union {w}
        /\ Sleeping' \subseteq Sleeping
    BY <1>1, <2>1, <2>2 DEF Holders, Notified, Sleeping, Listed, TimedOut, TypeOK
  <2>5. PermitsAccountedFor'
    BY <1>1, <1>2, <2>4 DEF PermitsAccountedFor
  <2>6. Cardinality(Notified') = Cardinality(Notified) + 1
    BY <2>2, <2>4, ThreadSetsFinite, FS_AddElement
  <2>7. NoLostWakeup'
    BY <1>1, <2>4, <2>6, ThreadSetsFinite DEF NoLostWakeup, TypeOK
  <2>8. QED
    BY <2>3, <2>5, <2>7
<1>6. QED
  BY <1>4, <1>5 DEF Release

\* A new limit leaves nobody asleep.
LEMMA SetMaxKeepsInv ==
  ASSUME IInv, NEW n \in Limit, SetMax(n)
  PROVE  IInv'
<1> USE DEF IInv
<1>1. TypeOK'
  BY DEF SetMax, TypeOK
<1>2. Holders' = Holders /\ Sleeping' = {}
  BY DEF SetMax, Holders, Sleeping, Listed, TimedOut, TypeOK
<1>3. QED
  BY <1>1, <1>2 DEF SetMax, PermitsAccountedFor, NoLostWakeup

LEMMA InitEstablishesInv == Init => IInv
<1> SUFFICES ASSUME Init PROVE IInv
  OBVIOUS
<1>1. TypeOK
  BY DEF Init, TypeOK
<1>2. Holders = {} /\ Sleeping = {}
  BY DEF Init, Holders, Sleeping
<1>3. QED
  BY <1>1, <1>2, FS_EmptySet DEF Init, IInv, PermitsAccountedFor, NoLostWakeup

LEMMA NextKeepsInv == IInv /\ [Next]_vars => IInv'
<1> SUFFICES ASSUME IInv, [Next]_vars PROVE IInv'
  OBVIOUS
<1>1. ASSUME NEW t \in Thread, Acquire(t) PROVE IInv'
  BY <1>1, TryAcquireKeepsInv DEF Acquire, Outside
<1>2. ASSUME NEW t \in Thread, Wake(t) PROVE IInv'
  BY <1>2, TryAcquireKeepsInv DEF Wake, Notified, TimedOut
<1>3. ASSUME NEW t \in Thread, WaitTimeout(t) PROVE IInv'
  <2>1. TypeOK'
    BY <1>3 DEF WaitTimeout, IInv, TypeOK
  <2>2. Holders' = Holders /\ Notified' = Notified /\ Sleeping' \subseteq Sleeping
    BY <1>3 DEF WaitTimeout, Holders, Notified, Sleeping, IInv, TypeOK
  <2>3. QED
    BY <1>3, <2>1, <2>2 DEF WaitTimeout, IInv, PermitsAccountedFor, NoLostWakeup
<1>4. ASSUME NEW t \in Thread, Release(t) PROVE IInv'
  BY <1>4, ReleaseKeepsInv
<1>5. ASSUME NEW n \in Limit, SetMax(n) PROVE IInv'
  BY <1>5, SetMaxKeepsInv
<1>6. CASE UNCHANGED vars
  BY <1>6 DEF vars, IInv, TypeOK, PermitsAccountedFor, NoLostWakeup, Holders, Sleeping, Notified
<1>7. QED
  BY <1>1, <1>2, <1>3, <1>4, <1>5, <1>6 DEF Next

\* The gate's bookkeeping holds for ever: types, one counted permit per thread
\* inside, and a notified thread on its way for every permit that is free
\* while somebody sleeps (acquire(), release() and set_max() together).
THEOREM GateInvariant == Spec => [](TypeOK /\ PermitsAccountedFor /\ NoLostWakeup)
<1>1. Spec => []IInv
  BY InitEstablishesInv, NextKeepsInv, PTL DEF Spec
<1>2. QED
  BY <1>1 DEF IInv

\* No permit lies idle beside a sleeping thread that nobody wakes (the notify() of
\* release() and the notify_all() of set_max()).
THEOREM NoWakeupIsLost == Spec => []NoPermitLiesIdle
<1>1. PermitsAccountedFor /\ NoLostWakeup => NoPermitLiesIdle
  BY DEF PermitsAccountedFor, NoLostWakeup, NoPermitLiesIdle
<1> QED BY GateInvariant, <1>1, PTL

-----------------------------------------------------------------------------
\* A look at the counter is a Take of the semaphore, or nothing.
LEMMA TryAcquireRefines ==
  ASSUME IInv, NEW t \in Thread, t \notin Holders, TryAcquire(t)
  PROVE  Sem!SemNext \/ UNCHANGED Sem!semVars
<1>1. CASE ~Full /\ active' = active + 1 /\ pc' = [pc EXCEPT ![t] = "inside"] /\ UNCHANGED max
  <2>1. Holders' = Holders \union {t}
    BY <1>1, PermitTaken DEF IInv
  <2>2. max = 0 \/ Cardinality(Holders) < max
    BY <1>1, ThreadSetsFinite DEF IInv, TypeOK, Full, PermitsAccountedFor
  <2>3. Sem!Room
    BY <2>2 DEF Sem!Room, Sem!Cardinality, Cardinality, Sem!IsFiniteSet, IsFiniteSet
  <2>4. QED
    BY <1>1, <2>1, <2>3 DEF Sem!SemNext, Sem!Take
<1>2. CASE Full /\ pc' = [pc EXCEPT ![t] = "sleeping"] /\ UNCHANGED <<active, max>>
  <2>1. Holders' = Holders
    BY <1>2 DEF Holders, IInv, TypeOK
  <2>2. QED
    BY <1>2, <2>1 DEF Sem!semVars
<1>3. QED
  BY <1>1, <1>2 DEF TryAcquire

LEMMA ReleaseRefines ==
  ASSUME IInv, NEW t \in Thread, Release(t)
  PROVE  Sem!SemNext
<1>1. t \in Holders /\ UNCHANGED max
  BY DEF Release
<1>2. Holders' = Holders \ {t}
  BY <1>1 DEF Release, Holders, Listed, Sleeping, TimedOut, IInv, TypeOK
<1>3. QED
  BY <1>1, <1>2 DEF Sem!SemNext, Sem!Give

LEMMA StepRefines == IInv /\ [Next]_vars => [Sem!SemNext]_(Sem!semVars)
<1> SUFFICES ASSUME IInv, [Next]_vars PROVE Sem!SemNext \/ UNCHANGED Sem!semVars
  OBVIOUS
<1>1. ASSUME NEW t \in Thread, Acquire(t) PROVE Sem!SemNext \/ UNCHANGED Sem!semVars
  BY <1>1, TryAcquireRefines DEF Acquire, Outside, Holders
<1>2. ASSUME NEW t \in Thread, Wake(t) PROVE Sem!SemNext \/ UNCHANGED Sem!semVars
  BY <1>2, TryAcquireRefines DEF Wake, Notified, TimedOut, Holders
<1>3. ASSUME NEW t \in Thread, WaitTimeout(t) PROVE UNCHANGED Sem!semVars
  BY <1>3 DEF WaitTimeout, Sleeping, Holders, Sem!semVars, IInv, TypeOK
<1>4. ASSUME NEW t \in Thread, Release(t) PROVE Sem!SemNext
  BY <1>4, ReleaseRefines
<1>5. ASSUME NEW n \in Limit, SetMax(n) PROVE Sem!SemNext
  <2>1. Holders' = Holders
    BY <1>5 DEF SetMax, Holders, Listed, Sleeping, TimedOut, IInv, TypeOK
  <2>2. QED
    BY <1>5, <2>1 DEF SetMax, Sem!SemNext, Sem!Resize
<1>6. CASE UNCHANGED vars
  BY <1>6 DEF vars, Holders, Sem!semVars
<1>7. QED
  BY <1>1, <1>2, <1>3, <1>4, <1>5, <1>6 DEF Next

\* The gate built from a counter and a condition variable is a resizable
\* semaphore: a permit is only ever handed out below the limit in force.
THEOREM GateRefinesSemaphore == Spec => RefinesSemaphore
<1>1. Init => Sem!SemInit
  BY DEF Init, Sem!SemInit, Holders
<1>2. Spec => []IInv
  BY InitEstablishesInv, NextKeepsInv, PTL DEF Spec
<1>3. QED
  BY <1>1, <1>2, StepRefines, PTL DEF Spec, RefinesSemaphore, Sem!SemSpec

-----------------------------------------------------------------------------
(* The limits of the gates: which gates a refresh has still to set. *)

AgentsOk ==
    /\ defaultLimit = agentSetting
    /\ \A a \in Agent : agentGate[a] \in {NoGate, agentSetting}

\* The gate of a model, or the one that is being created, has the limit of now.
ModelOk(m) ==
    /\ modelGate[m] \in {NoGate, EffectiveModelLimit(m)}
    /\ \A c \in creating : c.model = m => c.limit = EffectiveModelLimit(m)

LimitsTyped ==
    /\ DOMAIN admin = Admin /\ DOMAIN agentGate = Agent /\ DOMAIN modelGate = Model
    /\ DOMAIN modelSetting = Model
    /\ \A c \in creating : c.model \in Model /\ modelGate[c.model] = NoGate

AgentRefresh == {"read agent limit", "set default", "snapshot", "set gates"}
ModelRefresh == {"list models", "models", "look up", "set model gate"}

RefreshTyped(r) ==
    /\ r.pc \in {"idle"} \union AgentRefresh \union ModelRefresh
    /\ r.pc \in {"set default", "snapshot"} => DOMAIN r = {"pc", "limit"}
    /\ r.pc = "set gates" => DOMAIN r = {"pc", "limit", "left"}
    /\ r.pc = "models" => r.left \subseteq Model
    /\ r.pc \in {"look up", "set model gate"} =>
         DOMAIN r = {"pc", "left", "model", "limit"} /\ r.left \subseteq Model /\ r.model \in Model

\* The default is set before the gates are listed, so that later gates have it.
AgentRefreshOk(r) ==
    /\ r.pc \in {"idle"} \union ModelRefresh => AgentsOk
    /\ r.pc \in {"set default", "snapshot", "set gates"} => r.limit = agentSetting
    /\ r.pc \in {"snapshot", "set gates"} => defaultLimit = agentSetting
    /\ r.pc = "set gates" => \A a \in Agent \ r.left : agentGate[a] \in {NoGate, agentSetting}

\* A limit is read before its gate is looked up, and a gate is created with the limit of now.
ModelRefreshOk(r) ==
    /\ r.pc \in {"idle"} \union AgentRefresh => \A m \in Model : ModelOk(m)
    /\ r.pc = "models" => \A m \in Model \ r.left : ModelOk(m)
    /\ r.pc \in {"look up", "set model gate"} =>
         /\ r.limit = EffectiveModelLimit(r.model)
         /\ \A m \in Model \ (r.left \union {r.model}) : ModelOk(m)
    /\ r.pc = "set model gate" => r.model \in ModelGates

RefreshOk(r) == RefreshTyped(r) /\ AgentRefreshOk(r) /\ ModelRefreshOk(r)

LimitsInv == LimitsTyped /\ \A x \in Admin : RefreshOk(admin[x])

LEMMA LimitsInvInit == LimitInit => LimitsInv
<1> SUFFICES ASSUME LimitInit PROVE LimitsInv
  OBVIOUS
<1>1. LimitsTyped /\ AgentsOk /\ \A m \in Model : ModelOk(m)
  BY DEF LimitInit, LimitsTyped, AgentsOk, ModelOk
<1>2. \A x \in Admin : admin[x].pc = "idle" BY DEF LimitInit, Idle
<1> QED BY <1>1, <1>2 DEF LimitsInv, RefreshOk, RefreshTyped, AgentRefreshOk, ModelRefreshOk,
                         AgentRefresh, ModelRefresh

\* Threads create gates: with the default, or with a limit read under the lock.
LEMMA GatesAreCreated ==
    ASSUME LimitsInv,
           (\E a \in Agent : CreateAgentGate(a)) \/ (\E m \in Model : LoadModelLimit(m)) \/ CreateModelGate
    PROVE  LimitsInv'
<1> USE DEF LimitsInv
<1>1. CASE \E a \in Agent : CreateAgentGate(a)
  <2>1. PICK a \in Agent : CreateAgentGate(a) BY <1>1
  <2>2. /\ DOMAIN agentGate' = Agent /\ \A b \in Agent \ {a} : agentGate'[b] = agentGate[b]
        /\ agentGate'[a] = defaultLimit /\ UNCHANGED <<settings, defaultLimit, modelGate, creating, admin>>
    BY <2>1 DEF CreateAgentGate, LimitsTyped
  <2>3. LimitsTyped' BY <2>2 DEF LimitsTyped, settings
  <2>4. \A m \in Model : ModelOk(m)' <=> ModelOk(m)
    BY <2>2 DEF ModelOk, EffectiveModelLimit, settings
  <2>5. AgentsOk => AgentsOk' BY <2>2 DEF AgentsOk, settings
  <2>6. \A x \in Admin : AgentRefreshOk(admin[x])'
    BY <2>2, <2>5 DEF RefreshOk, AgentRefreshOk, settings
  <2>7. \A x \in Admin : ModelRefreshOk(admin[x])'
    BY <2>2, <2>4 DEF RefreshOk, ModelRefreshOk, EffectiveModelLimit, settings, ModelGates, RefreshTyped
  <2>8. \A x \in Admin : RefreshTyped(admin[x])' BY <2>2 DEF RefreshOk, RefreshTyped
  <2> QED BY <2>3, <2>6, <2>7, <2>8 DEF RefreshOk
<1>2. CASE \E m \in Model : LoadModelLimit(m)
  <2>1. PICK m \in Model : LoadModelLimit(m) BY <1>2
  <2>2. /\ modelGate[m] = NoGate /\ creating = {} /\ \A c \in creating' : c.model = m /\ c.limit = EffectiveModelLimit(m)
        /\ UNCHANGED <<settings, defaultLimit, agentGate, modelGate, admin>>
    BY <2>1 DEF LoadModelLimit, GatesLockFree
  <2>3. LimitsTyped' BY <2>2 DEF LimitsTyped, settings
  <2>4. \A n \in Model : EffectiveModelLimit(n)' = EffectiveModelLimit(n)
    BY <2>2 DEF EffectiveModelLimit, settings
  <2>5. \A n \in Model : ModelOk(n) => ModelOk(n)' BY <2>2, <2>4 DEF ModelOk
  <2>6. \A x \in Admin : AgentRefreshOk(admin[x])'
    BY <2>2 DEF RefreshOk, AgentRefreshOk, AgentsOk, settings
  <2>7. \A x \in Admin : ModelRefreshOk(admin[x])'
    BY <2>2, <2>4, <2>5 DEF RefreshOk, ModelRefreshOk, ModelGates, RefreshTyped
  <2>8. \A x \in Admin : RefreshTyped(admin[x])' BY <2>2 DEF RefreshOk, RefreshTyped
  <2> QED BY <2>3, <2>6, <2>7, <2>8 DEF RefreshOk
<1>3. CASE CreateModelGate
  <2>1. PICK c \in creating : modelGate' = [modelGate EXCEPT ![c.model] = c.limit]
    BY <1>3 DEF CreateModelGate
  <2>2. /\ creating' = {} /\ UNCHANGED <<settings, defaultLimit, agentGate, admin>>
    BY <1>3 DEF CreateModelGate
  <2>3. /\ c.model \in Model /\ modelGate'[c.model] = c.limit /\ DOMAIN modelGate' = Model
        /\ \A n \in Model \ {c.model} : modelGate'[n] = modelGate[n]
        /\ modelGate[c.model] = NoGate
    BY <2>1 DEF LimitsTyped
  <2>4. LimitsTyped' BY <2>2, <2>3 DEF LimitsTyped, settings
  <2>5. \A n \in Model : EffectiveModelLimit(n)' = EffectiveModelLimit(n)
    BY <2>2 DEF EffectiveModelLimit, settings
  <2>6. \A n \in Model : ModelOk(n) => ModelOk(n)' BY <2>2, <2>3, <2>5 DEF ModelOk
  <2>7. \A x \in Admin : AgentRefreshOk(admin[x])'
    BY <2>2 DEF RefreshOk, AgentRefreshOk, AgentsOk, settings
  <2>8. \A x \in Admin : admin[x].pc = "set model gate" => admin[x].model \in ModelGates'
    BY <2>3 DEF RefreshOk, RefreshTyped, ModelRefreshOk, ModelGates
  <2>9. \A x \in Admin : ModelRefreshOk(admin[x])'
    BY <2>2, <2>5, <2>6, <2>8 DEF RefreshOk, ModelRefreshOk, RefreshTyped
  <2>10. \A x \in Admin : RefreshTyped(admin[x])' BY <2>2 DEF RefreshOk, RefreshTyped
  <2> QED BY <2>4, <2>7, <2>9, <2>10 DEF RefreshOk
<1> QED BY <1>1, <1>2, <1>3

-----------------------------------------------------------------------------
\* The one administrator goes on to r.
LEMMA RequestGoesOn ==
    ASSUME NEW x, Admin = {x}, LimitsInv, NEW r, Go(x, r), LimitsTyped',
           RefreshTyped(r), AgentRefreshOk(r)', ModelRefreshOk(r)'
    PROVE  LimitsInv'
<1>1. admin' = [admin EXCEPT ![x] = r] /\ x \in Admin /\ DOMAIN admin = Admin
  BY DEF Go, LimitsInv, LimitsTyped
<1>2. admin'[x] = r BY <1>1
<1>3. RefreshTyped(r)' BY DEF RefreshTyped
<1>4. \A y \in Admin : y = x BY <1>1
<1>5. RefreshOk(admin[x])' BY <1>2, <1>3 DEF RefreshOk
<1> QED BY <1>4, <1>5 DEF LimitsInv

LEMMA LimitsTypedStays ==
    ASSUME LimitsInv, NEW x \in Admin, NEW r, Go(x, r), UNCHANGED <<modelSetting, agentGate, modelGate, creating>>
    PROVE  LimitsTyped'
BY DEF LimitsInv, LimitsTyped, Go

LEMMA LimitIsWritten ==
    ASSUME NEW x, Admin = {x}, LimitsInv,
           NEW v \in Value,
           WriteAgentSetting(x, v) \/ WriteGlobalSetting(x, v) \/ \E m \in Model : WriteModelSetting(x, m, v)
    PROVE  LimitsInv'
<1>1. x \in Admin OBVIOUS
<1>2. /\ admin[x].pc = "idle" /\ RefreshOk(admin[x]) /\ UNCHANGED gates
  BY <1>1 DEF WriteAgentSetting, WriteGlobalSetting, WriteModelSetting, Write, At, LimitsInv
<1>3. AgentsOk /\ \A n \in Model : ModelOk(n)
  BY <1>2 DEF RefreshOk, AgentRefreshOk, ModelRefreshOk
<1>4. CASE WriteAgentSetting(x, v)
  <2> DEFINE made == [pc |-> "read agent limit"]
  <2>1. /\ Go(x, made) /\ UNCHANGED <<gates, globalSetting, modelSetting>>
    BY <1>4 DEF WriteAgentSetting, Write
  <2>2. made.pc = "read agent limit" OBVIOUS
  <2> HIDE DEF made
  <2>0. PICK r : r = made OBVIOUS
  <2>3. LimitsTyped' BY <2>0, <1>1, <2>1, LimitsTypedStays DEF gates
  <2>4. \A n \in Model : ModelOk(n)' BY <2>0, <1>3, <2>1 DEF ModelOk, EffectiveModelLimit, gates
  <2>5. RefreshTyped(r) /\ AgentRefreshOk(r)' /\ ModelRefreshOk(r)'
    BY <2>0, <2>2, <2>4 DEF RefreshTyped, AgentRefreshOk, ModelRefreshOk, AgentRefresh, ModelRefresh
  <2> QED BY <2>0, <2>1, <2>3, <2>5, RequestGoesOn
<1>5. CASE WriteGlobalSetting(x, v)
  <2> DEFINE made == [pc |-> "list models"]
  <2>1. /\ Go(x, made) /\ UNCHANGED <<gates, agentSetting, modelSetting>>
    BY <1>5 DEF WriteGlobalSetting, Write
  <2>2. made.pc = "list models" OBVIOUS
  <2> HIDE DEF made
  <2>0. PICK r : r = made OBVIOUS
  <2>3. LimitsTyped' BY <2>0, <1>1, <2>1, LimitsTypedStays DEF gates
  <2>4. AgentsOk' BY <2>0, <1>3, <2>1 DEF AgentsOk, gates
  <2>5. RefreshTyped(r) /\ AgentRefreshOk(r)' /\ ModelRefreshOk(r)'
    BY <2>0, <2>2, <2>4 DEF RefreshTyped, AgentRefreshOk, ModelRefreshOk, AgentRefresh, ModelRefresh
  <2> QED BY <2>0, <2>1, <2>3, <2>5, RequestGoesOn
<1>6. ASSUME NEW m \in Model, WriteModelSetting(x, m, v) PROVE LimitsInv'
  <2> DEFINE made == [pc |-> "models", left |-> {m}]
  <2>1. /\ Go(x, made) /\ UNCHANGED <<gates, agentSetting, globalSetting>>
        /\ modelSetting' = [modelSetting EXCEPT ![m] = v]
    BY <1>6 DEF WriteModelSetting, Write
  <2>2. made.pc = "models" /\ made.left = {m} OBVIOUS
  <2> HIDE DEF made
  <2>0. PICK r : r = made OBVIOUS
  <2>3. LimitsTyped' BY <2>0, <1>1, <2>1 DEF LimitsInv, LimitsTyped, Go, gates
  <2>4. AgentsOk' BY <2>0, <1>3, <2>1 DEF AgentsOk, gates
  <2>5. \A n \in Model \ {m} : EffectiveModelLimit(n)' = EffectiveModelLimit(n)
    BY <2>0, <2>1 DEF LimitsInv, LimitsTyped, EffectiveModelLimit
  <2>6. \A n \in Model \ {m} : ModelOk(n)' BY <2>0, <1>3, <2>1, <2>5 DEF ModelOk, gates
  <2>7. RefreshTyped(r) /\ AgentRefreshOk(r)' /\ ModelRefreshOk(r)'
    BY <2>0, <2>2, <2>4, <2>6 DEF RefreshTyped, AgentRefreshOk, ModelRefreshOk, AgentRefresh, ModelRefresh
  <2> QED BY <2>0, <2>1, <2>3, <2>7, RequestGoesOn
<1> QED BY <1>4, <1>5, <1>6

LEMMA AgentLimitIsRefreshed ==
    ASSUME NEW x, Admin = {x}, LimitsInv,
           ReadAgentLimit(x) \/ SetDefaultLimit(x) \/ SnapshotAgentGates(x) \/ SetAgentGate(x)
    PROVE  LimitsInv'
<1>1. x \in Admin /\ RefreshOk(admin[x]) /\ LimitsTyped BY DEF LimitsInv
<1>2. \A n \in Model : ModelOk(n)
  BY <1>1 DEF RefreshOk, ModelRefreshOk, AgentRefresh, ReadAgentLimit, SetDefaultLimit,
             SnapshotAgentGates, SetAgentGate, At
<1>3. UNCHANGED <<settings, modelGate, creating>>
  BY DEF ReadAgentLimit, SetDefaultLimit, SnapshotAgentGates, SetAgentGate, gates
<1>4. \A n \in Model : ModelOk(n)' BY <1>2, <1>3 DEF ModelOk, EffectiveModelLimit, settings
<1>5. CASE ReadAgentLimit(x)
  <2> DEFINE made == [pc |-> "set default", limit |-> agentSetting]
  <2>1. Go(x, made) /\ UNCHANGED <<settings, gates>> BY <1>5 DEF ReadAgentLimit
  <2>2. made.pc = "set default" /\ made.limit = agentSetting /\ DOMAIN made = {"pc", "limit"} OBVIOUS
  <2> HIDE DEF made
  <2>0. PICK r : r = made OBVIOUS
  <2>3. LimitsTyped' BY <2>0, <1>1, <2>1, LimitsTypedStays DEF gates, settings
  <2>4. RefreshTyped(r) /\ AgentRefreshOk(r)' /\ ModelRefreshOk(r)'
    BY <2>0, <1>4, <2>1, <2>2 DEF RefreshTyped, AgentRefreshOk, ModelRefreshOk, AgentRefresh, ModelRefresh, settings
  <2> QED BY <2>0, <2>1, <2>3, <2>4, RequestGoesOn
<1>6. CASE SetDefaultLimit(x)
  <2> DEFINE made == [admin[x] EXCEPT !.pc = "snapshot"]
  <2>1. /\ Go(x, made) /\ defaultLimit' = admin[x].limit /\ UNCHANGED <<settings, agentGate>>
        /\ admin[x].pc = "set default"
    BY <1>6 DEF SetDefaultLimit, At
  <2>2. DOMAIN admin[x] = {"pc", "limit"} /\ admin[x].limit = agentSetting
    BY <1>1, <2>1 DEF RefreshOk, RefreshTyped, AgentRefreshOk
  <2>3. made.pc = "snapshot" /\ made.limit = agentSetting /\ DOMAIN made = {"pc", "limit"} BY <2>2
  <2> HIDE DEF made
  <2>0. PICK r : r = made OBVIOUS
  <2>4. LimitsTyped' BY <2>0, <1>1, <1>3, <2>1, LimitsTypedStays DEF settings
  <2>5. RefreshTyped(r) /\ AgentRefreshOk(r)' /\ ModelRefreshOk(r)'
    BY <2>0, <1>4, <2>1, <2>2, <2>3
    DEF RefreshTyped, AgentRefreshOk, ModelRefreshOk, AgentRefresh, ModelRefresh, settings
  <2> QED BY <2>0, <2>1, <2>4, <2>5, RequestGoesOn
<1>7. CASE SnapshotAgentGates(x)
  <2> DEFINE made == [pc |-> "set gates", limit |-> admin[x].limit, left |-> AgentGates]
  <2>1. /\ Go(x, made) /\ UNCHANGED <<settings, gates>> /\ admin[x].pc = "snapshot"
    BY <1>7 DEF SnapshotAgentGates, At
  <2>2. admin[x].limit = agentSetting /\ defaultLimit = agentSetting
    BY <1>1, <2>1 DEF RefreshOk, AgentRefreshOk
  <2>3. /\ made.pc = "set gates" /\ made.limit = agentSetting /\ made.left = AgentGates
        /\ DOMAIN made = {"pc", "limit", "left"}
    BY <2>2
  <2> HIDE DEF made
  <2>0. PICK r : r = made OBVIOUS
  <2>4. LimitsTyped' BY <2>0, <1>1, <1>3, <2>1, LimitsTypedStays DEF settings, gates
  <2>5. RefreshTyped(r) /\ AgentRefreshOk(r)' /\ ModelRefreshOk(r)'
    BY <2>0, <1>4, <2>1, <2>2, <2>3
    DEF RefreshTyped, AgentRefreshOk, ModelRefreshOk, AgentRefresh, ModelRefresh, settings, gates, AgentGates
  <2> QED BY <2>0, <2>1, <2>4, <2>5, RequestGoesOn
<1>8. CASE SetAgentGate(x)
  <2>1. PICK a \in admin[x].left :
           /\ agentGate' = [agentGate EXCEPT ![a] = admin[x].limit]
           /\ Go(x, [admin[x] EXCEPT !.left = @ \ {a}])
    BY <1>8 DEF SetAgentGate
  <2>2. UNCHANGED <<settings, defaultLimit>> /\ admin[x].pc = "set gates"
    BY <1>8 DEF SetAgentGate, At
  <2> DEFINE made == [admin[x] EXCEPT !.left = @ \ {a}]
  <2>3. /\ DOMAIN admin[x] = {"pc", "limit", "left"} /\ admin[x].limit = agentSetting
        /\ defaultLimit = agentSetting
        /\ \A b \in Agent \ admin[x].left : agentGate[b] \in {NoGate, agentSetting}
    BY <1>1, <2>2 DEF RefreshOk, RefreshTyped, AgentRefreshOk
  <2>4. /\ made.pc = "set gates" /\ made.limit = agentSetting /\ made.left = admin[x].left \ {a}
        /\ DOMAIN made = {"pc", "limit", "left"}
    BY <2>2, <2>3
  <2>5. Go(x, made) BY <2>1
  <2> HIDE DEF made
  <2>0. PICK r : r = made OBVIOUS
  <2>6. LimitsTyped' BY <2>0, <1>1, <1>3, <2>1, <2>5 DEF LimitsTyped, Go, settings
  <2>7. \A b \in Agent \ r.left : agentGate'[b] \in {NoGate, agentSetting}
    BY <2>0, <1>1, <2>1, <2>3, <2>4 DEF LimitsTyped
  <2>8. RefreshTyped(r) /\ AgentRefreshOk(r)' /\ ModelRefreshOk(r)'
    BY <2>0, <1>4, <2>2, <2>3, <2>4, <2>7
    DEF RefreshTyped, AgentRefreshOk, ModelRefreshOk, AgentRefresh, ModelRefresh, settings
  <2> QED BY <2>0, <2>5, <2>6, <2>8, RequestGoesOn
<1> QED BY <1>5, <1>6, <1>7, <1>8

LEMMA ModelLimitsAreRefreshed ==
    ASSUME NEW x, Admin = {x}, LimitsInv,
           ListModelGates(x) \/ ReadModelLimit(x) \/ LookUpModelGate(x) \/ SetModelGate(x)
    PROVE  LimitsInv'
<1>1. x \in Admin /\ RefreshOk(admin[x]) /\ LimitsTyped BY DEF LimitsInv
<1>2. AgentsOk
  BY <1>1 DEF RefreshOk, AgentRefreshOk, ModelRefresh, ListModelGates, ReadModelLimit,
             LookUpModelGate, SetModelGate, At
<1>3. UNCHANGED <<settings, agentGate, defaultLimit, creating>>
  BY DEF ListModelGates, ReadModelLimit, LookUpModelGate, SetModelGate, gates
<1>4. AgentsOk' BY <1>2, <1>3 DEF AgentsOk, settings
<1>5. \A m \in Model : EffectiveModelLimit(m)' = EffectiveModelLimit(m)
  BY <1>3 DEF EffectiveModelLimit, settings
<1>6. ASSUME UNCHANGED modelGate, NEW m \in Model, ModelOk(m) PROVE ModelOk(m)'
  BY <1>3, <1>5, <1>6 DEF ModelOk
<1>7. CASE ListModelGates(x)
  <2> DEFINE made == [pc |-> "models", left |-> ModelGates]
  <2>1. Go(x, made) /\ UNCHANGED modelGate /\ creating = {}
    BY <1>7 DEF ListModelGates, GatesLockFree, gates
  <2>2. made.pc = "models" /\ made.left = ModelGates OBVIOUS
  <2> HIDE DEF made
  <2>0. PICK r : r = made OBVIOUS
  <2>3. LimitsTyped' BY <2>0, <1>1, <1>3, <2>1, LimitsTypedStays DEF settings
  <2>4. \A m \in Model \ r.left : ModelOk(m)'
    BY <2>0, <1>3, <2>1, <2>2 DEF ModelOk, ModelGates
  <2>5. RefreshTyped(r) /\ AgentRefreshOk(r)' /\ ModelRefreshOk(r)'
    BY <2>0, <1>4, <2>2, <2>4
    DEF RefreshTyped, AgentRefreshOk, ModelRefreshOk, AgentRefresh, ModelRefresh, ModelGates
  <2> QED BY <2>0, <2>1, <2>3, <2>5, RequestGoesOn
<1>8. CASE ReadModelLimit(x)
  <2>1. PICK m \in admin[x].left :
           Go(x, [pc |-> "look up", left |-> admin[x].left \ {m}, model |-> m,
                  limit |-> EffectiveModelLimit(m)])
    BY <1>8 DEF ReadModelLimit
  <2>2. UNCHANGED modelGate /\ admin[x].pc = "models" BY <1>8 DEF ReadModelLimit, At, gates
  <2> DEFINE made == [pc |-> "look up", left |-> admin[x].left \ {m}, model |-> m,
                   limit |-> EffectiveModelLimit(m)]
  <2>3. admin[x].left \subseteq Model /\ \A n \in Model \ admin[x].left : ModelOk(n)
    BY <1>1, <2>2 DEF RefreshOk, RefreshTyped, ModelRefreshOk
  <2>4. /\ made.pc = "look up" /\ made.left = admin[x].left \ {m} /\ made.model = m
        /\ made.limit = EffectiveModelLimit(m) /\ DOMAIN made = {"pc", "left", "model", "limit"}
    OBVIOUS
  <2>5. Go(x, made) BY <2>1
  <2> HIDE DEF made
  <2>0. PICK r : r = made OBVIOUS
  <2>6. LimitsTyped' BY <2>0, <1>1, <1>3, <2>2, <2>5, LimitsTypedStays DEF settings
  <2>7. \A n \in Model \ (r.left \union {r.model}) : ModelOk(n)' BY <2>0, <1>6, <2>2, <2>3, <2>4
  <2>8. r.model \in Model /\ r.limit = EffectiveModelLimit(r.model)' BY <2>0, <1>5, <2>3, <2>4
  <2>9. RefreshTyped(r) /\ AgentRefreshOk(r)' /\ ModelRefreshOk(r)'
    BY <2>0, <1>4, <2>3, <2>4, <2>7, <2>8 DEF RefreshTyped, AgentRefreshOk, ModelRefreshOk, AgentRefresh, ModelRefresh
  <2> QED BY <2>0, <2>5, <2>6, <2>9, RequestGoesOn
<1>9. CASE LookUpModelGate(x)
  <2>1. /\ creating = {} /\ admin[x].pc = "look up" /\ UNCHANGED modelGate
    BY <1>9 DEF LookUpModelGate, At, GatesLockFree, gates
  <2>2. /\ DOMAIN admin[x] = {"pc", "left", "model", "limit"} /\ admin[x].left \subseteq Model
        /\ admin[x].model \in Model /\ admin[x].limit = EffectiveModelLimit(admin[x].model)
        /\ \A n \in Model \ (admin[x].left \union {admin[x].model}) : ModelOk(n)
    BY <1>1, <2>1 DEF RefreshOk, RefreshTyped, ModelRefreshOk
  <2>3. CASE admin[x].model \in ModelGates /\ Go(x, [admin[x] EXCEPT !.pc = "set model gate"])
    <3> DEFINE made == [admin[x] EXCEPT !.pc = "set model gate"]
    <3>1. /\ made.pc = "set model gate" /\ made.left = admin[x].left /\ made.model = admin[x].model
          /\ made.limit = admin[x].limit /\ DOMAIN made = {"pc", "left", "model", "limit"}
      BY <2>2
    <3>2. Go(x, made) BY <2>3
    <3> HIDE DEF made
    <3>0. PICK r : r = made OBVIOUS
    <3>3. LimitsTyped' BY <3>0, <1>1, <1>3, <2>1, <3>2, LimitsTypedStays DEF settings
    <3>4. \A n \in Model \ (r.left \union {r.model}) : ModelOk(n)' BY <3>0, <1>6, <2>1, <2>2, <3>1
    <3>5. r.limit = EffectiveModelLimit(r.model)' BY <3>0, <1>5, <2>2, <3>1
    <3>6. r.model \in ModelGates' BY <3>0, <2>1, <2>3, <3>1 DEF ModelGates
    <3>7. RefreshTyped(r) /\ AgentRefreshOk(r)' /\ ModelRefreshOk(r)'
      BY <3>0, <1>4, <2>2, <3>1, <3>4, <3>5, <3>6 DEF RefreshTyped, AgentRefreshOk, ModelRefreshOk, AgentRefresh, ModelRefresh
    <3> QED BY <3>0, <3>2, <3>3, <3>7, RequestGoesOn
  <2>4. CASE admin[x].model \notin ModelGates /\ Go(x, [pc |-> "models", left |-> admin[x].left])
    <3> DEFINE made == [pc |-> "models", left |-> admin[x].left]
    <3>1. made.pc = "models" /\ made.left = admin[x].left OBVIOUS
    <3>2. Go(x, made) BY <2>4
    <3> HIDE DEF made
    <3>0. PICK r : r = made OBVIOUS
    <3>3. LimitsTyped' BY <3>0, <1>1, <1>3, <2>1, <3>2, LimitsTypedStays DEF settings
    <3>4. ModelOk(admin[x].model) BY <3>0, <2>1, <2>2, <2>4 DEF ModelOk, ModelGates
    <3>5. \A n \in Model \ r.left : ModelOk(n)' BY <3>0, <1>6, <2>1, <2>2, <3>1, <3>4
    <3>6. RefreshTyped(r) /\ AgentRefreshOk(r)' /\ ModelRefreshOk(r)'
      BY <3>0, <1>4, <2>2, <3>1, <3>5 DEF RefreshTyped, AgentRefreshOk, ModelRefreshOk, AgentRefresh, ModelRefresh
    <3> QED BY <3>0, <3>2, <3>3, <3>6, RequestGoesOn
  <2> QED BY <1>9, <2>3, <2>4 DEF LookUpModelGate
<1>10. CASE SetModelGate(x)
  <2>1. /\ modelGate' = [modelGate EXCEPT ![admin[x].model] = admin[x].limit]
        /\ admin[x].pc = "set model gate" /\ Go(x, [pc |-> "models", left |-> admin[x].left])
    BY <1>10 DEF SetModelGate, At
  <2>2. PICK m \in Model : m = admin[x].model
    BY <1>1, <2>1 DEF RefreshOk, RefreshTyped
  <2>3. /\ admin[x].left \subseteq Model /\ admin[x].limit = EffectiveModelLimit(m) /\ modelGate[m] # NoGate
        /\ \A n \in Model \ (admin[x].left \union {m}) : ModelOk(n)
    BY <1>1, <2>1, <2>2 DEF RefreshOk, RefreshTyped, ModelRefreshOk, ModelGates
  <2>4. /\ modelGate'[m] = EffectiveModelLimit(m) /\ DOMAIN modelGate' = Model
        /\ \A n \in Model \ {m} : modelGate'[n] = modelGate[n]
    BY <1>1, <2>1, <2>2, <2>3 DEF LimitsTyped
  <2> DEFINE made == [pc |-> "models", left |-> admin[x].left]
  <2>5. made.pc = "models" /\ made.left = admin[x].left OBVIOUS
  <2>6. Go(x, made) BY <2>1
  <2> HIDE DEF made
  <2>0. PICK r : r = made OBVIOUS
  <2>7. \A c \in creating : c.model # m BY <2>0, <1>1, <2>3 DEF LimitsTyped
  <2>8. LimitsTyped' BY <2>0, <1>1, <1>3, <2>4, <2>6, <2>7 DEF LimitsTyped, Go, settings
  <2>9. ModelOk(m)' BY <2>0, <1>3, <1>5, <2>4, <2>7 DEF ModelOk
  <2>10. \A n \in Model \ (r.left \union {m}) : ModelOk(n)'
    BY <2>0, <1>3, <1>5, <2>3, <2>4, <2>5 DEF ModelOk
  <2>11. RefreshTyped(r) /\ AgentRefreshOk(r)' /\ ModelRefreshOk(r)'
    BY <2>0, <1>4, <2>3, <2>5, <2>9, <2>10 DEF RefreshTyped, AgentRefreshOk, ModelRefreshOk, AgentRefresh, ModelRefresh
  <2> QED BY <2>0, <2>6, <2>8, <2>11, RequestGoesOn
<1> QED BY <1>7, <1>8, <1>9, <1>10

LEMMA RefreshEnds ==
    ASSUME NEW x, Admin = {x}, LimitsInv, RefreshDone(x)
    PROVE  LimitsInv'
<1>1. x \in Admin /\ RefreshOk(admin[x]) BY DEF LimitsInv
<1>2. /\ admin[x].left = {} /\ Go(x, Idle) /\ UNCHANGED <<settings, gates>>
      /\ admin[x].pc \in {"set gates", "models"}
  BY DEF RefreshDone, At
<1>3. AgentsOk /\ \A m \in Model : ModelOk(m)
  BY <1>1, <1>2 DEF RefreshOk, AgentRefreshOk, ModelRefreshOk, AgentRefresh, ModelRefresh, AgentsOk
<1>4. AgentsOk' /\ \A m \in Model : ModelOk(m)'
  BY <1>2, <1>3 DEF AgentsOk, ModelOk, EffectiveModelLimit, settings, gates
<1>5. LimitsTyped' BY <1>1, <1>2, LimitsTypedStays DEF settings, gates
<1>6. Idle.pc = "idle" BY DEF Idle
<1>7. RefreshTyped(Idle) /\ AgentRefreshOk(Idle)' /\ ModelRefreshOk(Idle)'
  BY <1>4, <1>6 DEF RefreshTyped, AgentRefreshOk, ModelRefreshOk, AgentRefresh, ModelRefresh
<1> QED BY <1>2, <1>5, <1>7, RequestGoesOn

LEMMA LimitsInvStep ==
    ASSUME NEW x, Admin = {x}, LimitsInv, [LimitNext]_limitVars
    PROVE  LimitsInv'
<1>1. CASE UNCHANGED limitVars
  <2>1. LimitsTyped' BY <1>1 DEF LimitsInv, LimitsTyped, limitVars, settings, gates
  <2>2. admin' = admin /\ (AgentsOk' <=> AgentsOk) /\ ModelGates' = ModelGates
    BY <1>1 DEF AgentsOk, ModelGates, limitVars, settings, gates
  <2>3. \A m \in Model : EffectiveModelLimit(m)' = EffectiveModelLimit(m) /\ (ModelOk(m)' <=> ModelOk(m))
    BY <1>1 DEF ModelOk, EffectiveModelLimit, limitVars, settings, gates
  <2>4. \A y \in Admin : RefreshTyped(admin[y])' BY <2>2 DEF LimitsInv, RefreshOk, RefreshTyped
  <2>5. \A y \in Admin : AgentRefreshOk(admin[y])'
    BY <1>1, <2>2 DEF LimitsInv, RefreshOk, AgentRefreshOk, limitVars, settings, gates
  <2>6. \A y \in Admin : ModelRefreshOk(admin[y])'
    BY <2>2, <2>3 DEF LimitsInv, RefreshOk, ModelRefreshOk, RefreshTyped
  <2> QED BY <2>1, <2>4, <2>5, <2>6 DEF LimitsInv, RefreshOk
<1>2. CASE (\E a \in Agent : CreateAgentGate(a)) \/ (\E m \in Model : LoadModelLimit(m)) \/ CreateModelGate
  BY <1>2, GatesAreCreated
<1>3. CASE \E v \in Value : WriteAgentSetting(x, v) \/ WriteGlobalSetting(x, v)
  BY <1>3, LimitIsWritten
<1>4. CASE \E v \in Value, m \in KnownModel : WriteModelSetting(x, m, v)
  BY <1>4, LimitIsWritten, ValueAssumption
<1>5. CASE ReadAgentLimit(x) \/ SetDefaultLimit(x) \/ SnapshotAgentGates(x) \/ SetAgentGate(x)
  BY <1>5, AgentLimitIsRefreshed
<1>6. CASE ListModelGates(x) \/ ReadModelLimit(x) \/ LookUpModelGate(x) \/ SetModelGate(x)
  BY <1>6, ModelLimitsAreRefreshed
<1>7. CASE RefreshDone(x) BY <1>7, RefreshEnds
<1> QED BY <1>1, <1>2, <1>3, <1>4, <1>5, <1>6, <1>7 DEF LimitNext

\* With one administrator, every gate enforces the stored limit once the refreshes are over,
\* whatever gates the turns created meanwhile (refresh_agent_limit, refresh_model_limit and
\* refresh_all_model_limits against _get_agent_gate and _get_model_gate).  With two the older
\* value may be written last.
THEOREM LimitsAreEnforced ==
    ASSUME NEW x, Admin = {x}
    PROVE  LimitSpec => []LimitsSettle
<1>1. LimitInit => LimitsInv BY LimitsInvInit
<1>2. LimitsInv /\ [LimitNext]_limitVars => LimitsInv' BY LimitsInvStep
<1>3. LimitsInv => LimitsSettle
  <2> SUFFICES ASSUME LimitsInv, NobodyRefreshes PROVE AgentsOk /\ \A m \in Model : ModelOk(m)
    BY DEF LimitsSettle, AgentLimitsSettle, ModelLimitsSettle, AgentsOk, ModelOk, AgentGates, ModelGates
  <2>1. RefreshOk(admin[x]) /\ admin[x].pc = "idle" BY DEF LimitsInv, NobodyRefreshes, Idle
  <2> QED BY <2>1 DEF RefreshOk, AgentRefreshOk, ModelRefreshOk
<1> QED BY <1>1, <1>2, <1>3, PTL DEF LimitSpec
=============================================================================
