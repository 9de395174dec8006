------------------------------ MODULE SubAgents ------------------------------
(* SubAgentManager: the registry of in-memory sub-agents, the threads that    *)
(* spawn them, the turns they run, and the timer that destroys the idle ones. *)
(* Spawning takes the id under one acquisition of the lock and registers the  *)
(* sub-agent under another; the clean-up lists the expired sub-agents under   *)
(* the lock and destroys them one by one after it.                            *)
EXTENDS Naturals, FiniteSets

CONSTANTS
    Parents, Spawners,      \* agents with sub-agents; threads that spawn them
    MaxSubAgents,           \* _MAX_SUBAGENTS_PER_PARENT
    MaxSpawned              \* bound: sub-agents a parent spawns in all

VARIABLES
    counter,    \* _counters
    spawning,   \* of each spawner: the id it holds and how far it is
    subs,       \* ids in _subagents
    known,      \* history: ids that were ever registered
    idleSubs,   \* sub-agents whose last_active_at is older than the TTL
    subTurn,    \* turn of each sub-agent: "none", "queued" or "running"
    timer,      \* the clean-up timer: "unset", "armed", "sweeping"
    doomed,     \* ids the clean-up found expired and has not destroyed yet
    raced,      \* history: turns that started while their sub-agent was doomed
    cutOff      \* history: sub-agents destroyed under a running turn

subVars == <<counter, spawning, subs, known, idleSubs, subTurn, timer, doomed, raced, cutOff>>

SubIds == Parents \X (1 .. MaxSpawned)
SubsOf(p) == {s \in subs : s[1] = p}
NotSpawning == [id |-> <<>>, at |-> "idle"]

SubTypeOK ==
    /\ counter \in [Parents -> 0 .. MaxSpawned]
    /\ \A w \in Spawners : spawning[w].id \in SubIds \union {<<>>}
    /\ idleSubs \subseteq subs /\ subs \subseteq known /\ known \subseteq SubIds
    /\ doomed \subseteq known /\ raced \subseteq known /\ cutOff \subseteq known
    /\ subTurn \in [SubIds -> {"none", "queued", "running"}]
    /\ timer \in {"unset", "armed", "sweeping"}

SubInit ==
    /\ counter = [p \in Parents |-> 0]
    /\ spawning = [w \in Spawners |-> NotSpawning]
    /\ subs = {} /\ known = {} /\ idleSubs = {}
    /\ subTurn = [s \in SubIds |-> "none"]
    /\ timer = "unset" /\ doomed = {} /\ raced = {} /\ cutOff = {}

-----------------------------------------------------------------------------
(* spawn and spawn_explorer. *)

\* The id is the number of sub-agents the parent has, plus one.
MutTakeId(w, p) ==
    /\ spawning[w] = NotSpawning
    /\ Cardinality(SubsOf(p)) < MaxSubAgents
    /\ counter[p] < MaxSpawned
    /\ counter' = [counter EXCEPT ![p] = Cardinality(SubsOf(p)) + 1]
    /\ spawning' = [spawning EXCEPT ![w] = [id |-> <<p, counter'[p]>>, at |-> "insert"]]
    /\ UNCHANGED <<subs, known, idleSubs, subTurn, timer, doomed, raced, cutOff>>

\* Under the lock: the cap and the number.
TakeId(w, p) ==
    /\ spawning[w] = NotSpawning
    /\ Cardinality(SubsOf(p)) < MaxSubAgents
    /\ counter[p] < MaxSpawned
    /\ counter' = [counter EXCEPT ![p] = @ + 1]
    /\ spawning' = [spawning EXCEPT ![w] = [id |-> <<p, counter'[p]>>, at |-> "insert"]]
    /\ UNCHANGED <<subs, known, idleSubs, subTurn, timer, doomed, raced, cutOff>>

\* Under the lock again: the registration.
InsertSub(w) ==
    /\ spawning[w].at = "insert"
    /\ subs' = subs \union {spawning[w].id} /\ known' = known \union {spawning[w].id}
    /\ spawning' = [spawning EXCEPT ![w].at = "ensure"]
    /\ UNCHANGED <<counter, idleSubs, subTurn, timer, doomed, raced, cutOff>>

\* _ensure_cleanup: the first spawn arms the timer for good.
EnsureCleanup(w) ==
    /\ spawning[w].at = "ensure"
    /\ timer' = IF timer = "unset" THEN "armed" ELSE timer
    /\ spawning' = [spawning EXCEPT ![w] = NotSpawning]
    /\ UNCHANGED <<counter, subs, known, idleSubs, subTurn, doomed, raced, cutOff>>

-----------------------------------------------------------------------------
(* The turns of a sub-agent. *)

\* handle_message and notify_agent look the sub-agent up with get, which touches it.
MessageSub(s) ==
    /\ s \in subs /\ subTurn[s] = "none"
    /\ subTurn' = [subTurn EXCEPT ![s] = "queued"]
    /\ idleSubs' = idleSubs \ {s}
    /\ UNCHANGED <<counter, spawning, subs, known, timer, doomed, raced, cutOff>>

\* Nothing touches the sub-agent when its tool loop begins.
MutStartSubTurn(s) ==
    /\ subTurn[s] = "queued"
    /\ subTurn' = [subTurn EXCEPT ![s] = "running"]
    /\ raced' = IF s \in doomed THEN raced \union {s} ELSE raced
    /\ UNCHANGED <<counter, spawning, subs, known, idleSubs, timer, doomed, cutOff>>

\* The tool loop: a touch before it begins, another every 30 s of it.
StartSubTurn(s) ==
    /\ subTurn[s] = "queued"
    /\ subTurn' = [subTurn EXCEPT ![s] = "running"]
    /\ idleSubs' = idleSubs \ {s}
    /\ raced' = IF s \in doomed THEN raced \union {s} ELSE raced
    /\ UNCHANGED <<counter, spawning, subs, known, timer, doomed, cutOff>>

EndSubTurn(s) ==
    /\ subTurn[s] = "running"
    /\ subTurn' = [subTurn EXCEPT ![s] = "none"]
    /\ UNCHANGED <<counter, spawning, subs, known, idleSubs, timer, doomed, raced, cutOff>>

\* Ten minutes without a touch; the heartbeat of a running loop prevents them.
FallIdle(s) ==
    /\ s \in subs \ idleSubs /\ subTurn[s] # "running"
    /\ idleSubs' = idleSubs \union {s}
    /\ UNCHANGED <<counter, spawning, subs, known, subTurn, timer, doomed, raced, cutOff>>

-----------------------------------------------------------------------------
(* _cleanup_expired. *)

ListExpired ==
    /\ timer = "armed"
    /\ timer' = "sweeping" /\ doomed' = idleSubs
    /\ UNCHANGED <<counter, spawning, subs, known, idleSubs, subTurn, raced, cutOff>>

\* destroy: out of the registry; its chat database and its files go with it.
DestroySub(s) ==
    /\ s \in doomed
    /\ doomed' = doomed \ {s}
    /\ subs' = subs \ {s} /\ idleSubs' = idleSubs \ {s}
    /\ cutOff' = IF subTurn[s] = "running" THEN cutOff \union {s} ELSE cutOff
    /\ UNCHANGED <<counter, spawning, known, subTurn, timer, raced>>

\* The timer is armed again only while there are sub-agents that were idle.
Rearm ==
    /\ timer = "sweeping" /\ doomed = {}
    /\ timer' = "armed"
    /\ UNCHANGED <<counter, spawning, subs, known, idleSubs, subTurn, doomed, raced, cutOff>>

CleanupStep == ListExpired \/ Rearm \/ \E s \in SubIds : DestroySub(s)
SpawnStep(w) == InsertSub(w) \/ EnsureCleanup(w)

SubNext ==
    \/ CleanupStep
    \/ \E w \in Spawners : SpawnStep(w) \/ \E p \in Parents : TakeId(w, p)
    \/ \E s \in SubIds : MessageSub(s) \/ StartSubTurn(s) \/ EndSubTurn(s) \/ FallIdle(s)

\* The timer thread runs, and so does a thread that spawns.
SubSpec ==
    /\ SubInit /\ [][SubNext]_subVars
    /\ WF_subVars(CleanupStep) /\ \A w \in Spawners : WF_subVars(SpawnStep(w))

-----------------------------------------------------------------------------
(* Properties. *)

\* The clean-up takes no sub-agent from under a running turn, but for one whose
\* turn began between the listing and the destruction.
RunningSubIsKept == cutOff \subseteq raced

\* An id is given to one sub-agent only: a message meant for a destroyed one
\* never reaches its successor.
SubIdNamesOne == [][\A s \in subs' \ subs : s \notin known]_subVars

\* Both together, over the whole life of the registry: an id names one sub-agent,
\* and that one lives until its turns are over.
SubStaysItself == []RunningSubIsKept /\ SubIdNamesOne

\* A sub-agent that stays idle goes.
IdleSubGoes == \A s \in SubIds : s \in idleSubs ~> s \notin idleSubs
=============================================================================
