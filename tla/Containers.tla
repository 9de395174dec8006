----------------------------- MODULE Containers -----------------------------
(* The containers that commands of agents run in.  All sessions of a main     *)
(* agent share one container, which survives restarts; a sub-agent's session  *)
(* has one of its own.  Every call looks its container up in a pool under a   *)
(* lock and does the rest - destroying, evicting, creating, executing -       *)
(* outside of it; a reaper drops idle containers and reconciles the pool with *)
(* Docker; a stop kills what runs in the container of the session's command.  *)
EXTENDS Naturals, FiniteSets

CONSTANTS
    CallerSessions, \* sessions whose agents run commands in a container
    MainSessions,   \* those of the main agent
    AgentKey,       \* the main agent's id, its container's pool key
    AdoptedKey,     \* pool key of that container after a restart: its name
    SessionId,      \* _container_session_id: an explorer has its parent session's
    CallsOf,        \* of each session: the workspaces and the sorts of its calls, "bash",
                    \* "job" (a script that leaves one behind), "python" or "file"
    MaxPool,        \* SANDBOX_MAX_CONTAINERS
    MaxBoxes,       \* bound: containers created
    MaxCalls,       \* bound: calls
    MaxTroubles     \* bound: docker commands that fail, stops, crashes and exits

KeyOf(s) == IF s \in MainSessions THEN AgentKey ELSE SessionId[s]
OwnsBox(s) == SessionId[s] = s

BoxKeys == {KeyOf(s) : s \in CallerSessions} \union {SessionId[s] : s \in CallerSessions}
PoolKeys == BoxKeys \union {AdoptedKey}
Boxes == 1 .. MaxBoxes
Reaper == "reaper"
Nobody == "none"        \* no workspace, no entry, no call

\* A container's name has a prefix that ids of agents and sessions lack.
ASSUME ContainerAssumption ==
    /\ {MaxBoxes, MaxCalls, MaxTroubles} \subseteq Nat
    /\ AdoptedKey \notin BoxKeys /\ Reaper \notin CallerSessions

CallersCalls == UNION {CallsOf[s] : s \in CallerSessions}
Workspaces == {c[1] : c \in CallersCalls} \union {Nobody}
Sorts == {c[2] : c \in CallersCalls} \union {"file"}

NoEntry == [box |-> 0, ws |-> Nobody, idle |-> FALSE]
NoHand == [key |-> AdoptedKey, entry |-> NoEntry]
NoContainerCall == [at |-> "idle", ws |-> Nobody, box |-> 0, sort |-> "file", again |-> FALSE]
NoReaper == [at |-> "off", sweeping |-> FALSE, key |-> AdoptedKey,
             live |-> {}, orphans |-> {}, phantoms |-> {}]

VARIABLES
    boxes,    \* Docker: name, workspace and state of each container, by id
    pool,     \* _containers
    boxCall,  \* of each session: the call it is in
    hand,     \* entries that _destroy_container has popped and not removed yet
    cleaner,  \* the reaper thread
    stopping, \* process_tracker._stop_pending
    detached, \* of each session: the container its background job runs in
    calls, troubles

boxVars == <<boxes, pool, boxCall, hand, cleaner, stopping, detached, calls, troubles>>

Exists(b) == boxes[b].up \in {"running", "exited"}
Named(n) == {b \in Boxes : Exists(b) /\ boxes[b].name = n}
Lasting(b) == boxes[b].name = AgentKey          \* label evonic.persistent=1
Pooled == {k \in PoolKeys : pool[k] # NoEntry}
PoolNames == {boxes[pool[k].box].name : k \in Pooled}
Trouble == troubles < MaxTroubles /\ troubles' = troubles + 1

Gone(bs) == [b \in Boxes |-> IF b \in bs THEN [boxes[b] EXCEPT !.up = "gone"] ELSE boxes[b]]

CallPlaces == {"idle", "stale", "room", "run", "rerun", "insert", "start",
               "running", "killed"}

BoxStates == {"none", "running", "exited", "gone"}
ReaperPlaces == {"off", "sweep", "list", "snap", "fix", "asleep", "pop"}

BoxRecords == [name : BoxKeys \union {Nobody}, ws : Workspaces, up : BoxStates]
Entries == [box : 0 .. MaxBoxes, ws : Workspaces, idle : BOOLEAN]
ContainerCalls == [at : CallPlaces, ws : Workspaces, box : 0 .. MaxBoxes, sort : Sorts,
                   again : BOOLEAN]

BoxTypeOK ==
    /\ boxes \in [Boxes -> BoxRecords]
    /\ \A b \in Boxes : boxes[b].up # "none" => boxes[b].name \in BoxKeys
    /\ pool \in [PoolKeys -> Entries]
    /\ boxCall \in [CallerSessions -> ContainerCalls]
    /\ hand \in [CallerSessions \union {Reaper} -> [key : PoolKeys, entry : Entries]]
    /\ cleaner \in [at : ReaperPlaces, sweeping : BOOLEAN, key : PoolKeys,
                    live : SUBSET BoxKeys, orphans : SUBSET BoxKeys, phantoms : SUBSET PoolKeys]
    /\ stopping \subseteq CallerSessions /\ detached \in [CallerSessions -> 0 .. MaxBoxes]
    /\ calls \in 0 .. MaxCalls /\ troubles \in 0 .. MaxTroubles

BoxInit ==
    /\ boxes = [b \in Boxes |-> [name |-> Nobody, ws |-> Nobody, up |-> "none"]]
    /\ pool = [k \in PoolKeys |-> NoEntry]
    /\ boxCall = [s \in CallerSessions |-> NoContainerCall]
    /\ hand = [x \in CallerSessions \union {Reaper} |-> NoHand]
    /\ cleaner = NoReaper /\ stopping = {} /\ detached = [s \in CallerSessions |-> 0]
    /\ calls = 0 /\ troubles = 0

-----------------------------------------------------------------------------
(* _destroy_container: the entry is popped under the lock, and put back when  *)
(* Docker refuses the removal.                                                *)

Pop(x, k) ==
    /\ pool' = [pool EXCEPT ![k] = NoEntry]
    /\ hand' = [hand EXCEPT ![x] = IF pool[k] = NoEntry THEN NoHand ELSE [key |-> k, entry |-> pool[k]]]

RemoveBox(x) ==
    /\ hand[x] # NoHand /\ hand' = [hand EXCEPT ![x] = NoHand]
    /\ boxes' = Gone({hand[x].entry.box})
    /\ UNCHANGED <<pool, boxCall, cleaner, stopping, detached, calls, troubles>>

\* Docker is unreachable, or has no such container.
RemoveFails(x) ==
    LET missing == ~Exists(hand[x].entry.box)
    IN  /\ hand[x] # NoHand /\ hand' = [hand EXCEPT ![x] = NoHand]
        /\ IF missing THEN UNCHANGED troubles ELSE Trouble
        /\ pool' = [pool EXCEPT ![hand[x].key] = hand[x].entry]
        /\ UNCHANGED <<boxes, boxCall, cleaner, stopping, detached, calls>>

\* docker rm takes longer than _docker waits: the exception leaves through the call,
\* or through the reaper's round, and the entry is put back by nobody.  Docker may
\* remove the container after all.
RemoveTimesOut(x) ==
    /\ hand[x] # NoHand /\ hand' = [hand EXCEPT ![x] = NoHand] /\ Trouble
    /\ boxes' \in {boxes, Gone({hand[x].entry.box})}
    /\ boxCall' = IF x = Reaper THEN boxCall ELSE [boxCall EXCEPT ![x] = NoContainerCall]
    /\ UNCHANGED <<pool, cleaner, stopping, detached, calls>>

-----------------------------------------------------------------------------
(* A call: run_bash, run_python and the file operations.                      *)

Goes(s, place) == boxCall' = [boxCall EXCEPT ![s].at = place]
Free(s) == hand[s] = NoHand

MutLookUp(s, c, p) ==
    LET k == KeyOf(s)
    IN  IF p[k] = NoEntry THEN
            boxCall' = [boxCall EXCEPT ![s] = [c EXCEPT !.at = "room"]] /\ pool' = p
        ELSE /\ boxCall' = [boxCall EXCEPT ![s] = [c EXCEPT !.at = "start", !.box = p[k].box]]
             /\ pool' = [p EXCEPT ![k].idle = FALSE]

\* The first part of _get_or_create_container, under the lock, in the pool p.
LookUp(s, c, p) ==
    LET k == KeyOf(s)
    IN  IF p[k] = NoEntry THEN
            boxCall' = [boxCall EXCEPT ![s] = [c EXCEPT !.at = "room"]] /\ pool' = p
        ELSE IF p[k].ws # c.ws THEN
            boxCall' = [boxCall EXCEPT ![s] = [c EXCEPT !.at = "stale"]] /\ pool' = p
        ELSE /\ boxCall' = [boxCall EXCEPT ![s] = [c EXCEPT !.at = "start", !.box = p[k].box]]
             /\ pool' = [p EXCEPT ![k].idle = FALSE]

\* A file operation asks for no stop.
BeginCall(s, ws, sort) ==
    /\ boxCall[s].at = "idle" /\ Free(s) /\ (sort = "file" \/ s \notin stopping)
    /\ calls < MaxCalls /\ calls' = calls + 1
    /\ LookUp(s, [NoContainerCall EXCEPT !.ws = ws, !.sort = sort], pool)
    /\ UNCHANGED <<boxes, hand, cleaner, stopping, detached, troubles>>

\* The workspace has changed.
DropStale(s) ==
    /\ boxCall[s].at = "stale" /\ Free(s) /\ Pop(s, KeyOf(s)) /\ Goes(s, "room")
    /\ UNCHANGED <<boxes, cleaner, stopping, detached, calls, troubles>>

\* The pool is counted, then _evict_lru takes its victim; any entry may be the one
\* that was used longest ago.
MakeRoom(s) ==
    LET passing == {k \in Pooled : ~Lasting(pool[k].box)}
    IN  /\ boxCall[s].at = "room" /\ Free(s) /\ Goes(s, "run")
        /\ IF Cardinality(Pooled) < MaxPool THEN UNCHANGED <<pool, hand>>
           ELSE \E k \in IF passing # {} THEN passing ELSE Pooled : Pop(s, k)
        /\ UNCHANGED <<boxes, cleaner, stopping, detached, calls, troubles>>

CreatesBox(s) ==
    \E b \in Boxes :
        /\ boxes[b].up = "none" /\ (\A d \in 1 .. b - 1 : boxes[d].up # "none")
        /\ boxes' = [boxes EXCEPT ![b] = [name |-> KeyOf(s), ws |-> boxCall[s].ws, up |-> "running"]]
        /\ boxCall' = [boxCall EXCEPT ![s].at = "insert", ![s].box = b]

DockerRun(s) ==
    /\ boxCall[s].at \in {"run", "rerun"} /\ Free(s)
    /\ Named(KeyOf(s)) = {} /\ CreatesBox(s)
    /\ UNCHANGED <<pool, hand, cleaner, stopping, detached, calls, troubles>>

\* The name is taken: whichever container has it is removed, whoever uses it.
ClearName(s) ==
    /\ boxCall[s].at = "run" /\ Free(s) /\ Named(KeyOf(s)) # {}
    /\ Goes(s, "rerun") /\ boxes' = Gone(Named(KeyOf(s)))
    /\ UNCHANGED <<pool, hand, cleaner, stopping, detached, calls, troubles>>

\* The call returns the error; a second conflict is one.
RunFails(s) ==
    /\ boxCall[s].at \in {"run", "rerun"} /\ Free(s)
    /\ \/ boxCall[s].at = "rerun" /\ Named(KeyOf(s)) # {} /\ UNCHANGED troubles
       \/ Trouble
    /\ boxCall' = [boxCall EXCEPT ![s] = NoContainerCall]
    /\ UNCHANGED <<boxes, pool, hand, cleaner, stopping, detached, calls>>

\* The first container that is created starts the reaper.
InsertBox(s) ==
    /\ boxCall[s].at = "insert" /\ Goes(s, "start")
    /\ pool' = [pool EXCEPT ![KeyOf(s)] =
         [box |-> boxCall[s].box, ws |-> boxCall[s].ws, idle |-> FALSE]]
    /\ cleaner' = IF cleaner.at = "off" THEN [NoReaper EXCEPT !.at = "sweep", !.sweeping = TRUE]
                  ELSE cleaner
    /\ UNCHANGED <<boxes, hand, stopping, detached, calls, troubles>>

\* docker exec; a job is left to tmux, screen or nohup.
Execute(s) ==
    LET c == boxCall[s]
    IN  /\ c.at = "start" /\ boxes[c.box].up = "running" /\ Goes(s, "running")
        /\ detached' = IF c.sort = "job" THEN [detached EXCEPT ![s] = c.box] ELSE detached
        /\ UNCHANGED <<boxes, pool, hand, cleaner, stopping, calls, troubles>>

IsGone(s) == boxCall[s].at = "start" /\ boxes[boxCall[s].box].up # "running"
TriesAgain(s) == boxCall[s].sort = "python" /\ ~boxCall[s].again

\* The container is gone: the entry of the session - not that of its pool key - is
\* dropped, and looked up once more.
LookAgain(s) ==
    /\ IsGone(s) /\ TriesAgain(s)
    /\ LookUp(s, [boxCall[s] EXCEPT !.again = TRUE, !.box = 0],
              [pool EXCEPT ![SessionId[s]] = NoEntry])
    /\ UNCHANGED <<boxes, hand, cleaner, stopping, detached, calls, troubles>>

\* Every other call returns the error.
ReturnGone(s) ==
    /\ IsGone(s) /\ ~TriesAgain(s) /\ boxCall' = [boxCall EXCEPT ![s] = NoContainerCall]
    /\ UNCHANGED <<boxes, pool, hand, cleaner, stopping, detached, calls, troubles>>

\* The command ends, was killed, or its container went; the entry counts as used.
FinishCommand(s) ==
    /\ boxCall[s].at \in {"running", "killed"}
    /\ boxCall' = [boxCall EXCEPT ![s] = NoContainerCall]
    /\ pool' = [k \in PoolKeys |-> IF pool[k] # NoEntry /\ pool[k].box = boxCall[s].box
                                   THEN [pool[k] EXCEPT !.idle = FALSE] ELSE pool[k]]
    /\ UNCHANGED <<boxes, hand, cleaner, stopping, detached, calls, troubles>>

\* The tools' action "destroy": the entry of the session, not that of its pool key.
DestroyAsked(s) ==
    /\ boxCall[s].at = "idle" /\ Free(s) /\ OwnsBox(s) /\ pool[SessionId[s]] # NoEntry
    /\ calls < MaxCalls /\ calls' = calls + 1
    /\ Pop(s, SessionId[s])
    /\ UNCHANGED <<boxes, boxCall, cleaner, stopping, detached, troubles>>

-----------------------------------------------------------------------------
(* ProcessTracker.kill, of request_stop.  The marker aborts the calls that    *)
(* begin after it, stop_for_session's own script among them.  A registered    *)
(* command is killed with everything else that runs in its container.         *)

StopCommand(s) ==
    LET c == boxCall[s]
        registered == c.at = "running" /\ c.sort # "file"
        Hit(t) == registered /\ boxCall[t].at = "running" /\ boxCall[t].box = c.box
    IN  /\ s \notin stopping /\ stopping' = stopping \union {s} /\ Trouble
        /\ boxCall' = [t \in CallerSessions |-> IF Hit(t) THEN [boxCall[t] EXCEPT !.at = "killed"]
                                                ELSE boxCall[t]]
        /\ detached' = [t \in CallerSessions |-> IF registered /\ detached[t] = c.box THEN 0
                                                 ELSE detached[t]]
        /\ UNCHANGED <<boxes, pool, hand, cleaner, calls>>

\* The marker's time is over, or a new message clears it.
StopPasses(s) ==
    /\ s \in stopping /\ stopping' = stopping \ {s}
    /\ UNCHANGED <<boxes, pool, boxCall, hand, cleaner, detached, calls, troubles>>

-----------------------------------------------------------------------------
(* _reaper_loop. *)

\* SANDBOX_IDLE_TIMEOUT is longer than any command may take.
EntryRests(k) ==
    /\ pool[k] # NoEntry /\ ~pool[k].idle
    /\ \A s \in CallerSessions : boxCall[s].box # pool[k].box
    /\ pool' = [pool EXCEPT ![k].idle = TRUE]
    /\ UNCHANGED <<boxes, boxCall, hand, cleaner, stopping, detached, calls, troubles>>

\* _startup_sweep restarts the main agent's container that an exit left stopped.
AdoptBox(b) ==
    /\ cleaner.at = "sweep" /\ boxes[b].up = "exited" /\ Lasting(b)
    /\ boxes' = [boxes EXCEPT ![b].up = "running"]
    /\ pool' = IF boxes[b].name \in PoolNames THEN pool
               ELSE [pool EXCEPT ![AdoptedKey] = [box |-> b, ws |-> Nobody, idle |-> FALSE]]
    /\ UNCHANGED <<boxCall, hand, cleaner, stopping, detached, calls, troubles>>

\* Docker may fail to list the stopped containers, or to start one.
AdoptionEnds ==
    /\ cleaner.at = "sweep" /\ cleaner' = [cleaner EXCEPT !.at = "list"]
    /\ \/ (\A b \in Boxes : boxes[b].up = "exited" => ~Lasting(b)) /\ UNCHANGED troubles
       \/ Trouble
    /\ UNCHANGED <<boxes, pool, boxCall, hand, stopping, detached, calls>>

\* docker ps, for the sweep and for _reconcile_with_docker.
ListBoxes ==
    /\ cleaner.at = "list"
    /\ cleaner' = [cleaner EXCEPT !.at = "snap", !.live = {boxes[b].name : b \in {d \in Boxes : Exists(d)}}]
    /\ UNCHANGED <<boxes, pool, boxCall, hand, stopping, detached, calls, troubles>>

MutCompare ==
    /\ cleaner.at = "snap"
    /\ cleaner' = [cleaner EXCEPT !.at = "fix",
         !.orphans = cleaner.live \ PoolNames,
         !.phantoms = IF cleaner.sweeping THEN {}
                      ELSE {k \in Pooled : boxes[pool[k].box].name \notin cleaner.live}]
    /\ UNCHANGED <<boxes, pool, boxCall, hand, stopping, detached, calls, troubles>>

\* The list against a later snapshot of the pool.  The sweep destroys every orphan.
Compare ==
    LET lasting == IF cleaner.sweeping THEN {} ELSE {AgentKey}
    IN  /\ cleaner.at = "snap"
        /\ cleaner' = [cleaner EXCEPT !.at = "fix",
             !.orphans = (cleaner.live \ PoolNames) \ lasting,
             !.phantoms = IF cleaner.sweeping THEN {}
                          ELSE {k \in Pooled : boxes[pool[k].box].name \notin cleaner.live}]
        /\ UNCHANGED <<boxes, pool, boxCall, hand, stopping, detached, calls, troubles>>

MutKillOrphan(n) ==
    /\ cleaner.at = "fix" /\ n \in cleaner.orphans
    /\ cleaner' = [cleaner EXCEPT !.orphans = @ \ {n}]
    /\ boxes' = Gone({b \in Named(n) : boxes[b].up = "exited"})
    /\ UNCHANGED <<pool, boxCall, hand, stopping, detached, calls, troubles>>

\* By name: whatever container has it by now.
KillOrphan(n) ==
    /\ cleaner.at = "fix" /\ n \in cleaner.orphans
    /\ cleaner' = [cleaner EXCEPT !.orphans = @ \ {n}] /\ boxes' = Gone(Named(n))
    /\ UNCHANGED <<pool, boxCall, hand, stopping, detached, calls, troubles>>

ForgetPhantom(k) ==
    /\ cleaner.at = "fix" /\ cleaner.orphans = {} /\ k \in cleaner.phantoms
    /\ cleaner' = [cleaner EXCEPT !.phantoms = @ \ {k}] /\ pool' = [pool EXCEPT ![k] = NoEntry]
    /\ UNCHANGED <<boxes, boxCall, hand, stopping, detached, calls, troubles>>

RoundEnds ==
    /\ cleaner.at = "fix" /\ cleaner.orphans = {} /\ cleaner.phantoms = {}
    /\ cleaner' = [NoReaper EXCEPT !.at = "asleep"]
    /\ UNCHANGED <<boxes, pool, boxCall, hand, stopping, detached, calls, troubles>>

MutCheckIdle(k) ==
    /\ cleaner.at = "asleep" /\ Free(Reaper)
    /\ pool[k] # NoEntry /\ pool[k].idle
    /\ cleaner' = [cleaner EXCEPT !.at = "pop", !.key = k]
    /\ UNCHANGED <<boxes, pool, boxCall, hand, stopping, detached, calls, troubles>>

\* An idle entry is checked again under the lock, and popped under another
\* acquisition of it.
CheckIdle(k) ==
    /\ cleaner.at = "asleep" /\ Free(Reaper)
    /\ pool[k] # NoEntry /\ ~Lasting(pool[k].box) /\ pool[k].idle
    /\ cleaner' = [cleaner EXCEPT !.at = "pop", !.key = k]
    /\ UNCHANGED <<boxes, pool, boxCall, hand, stopping, detached, calls, troubles>>

PopIdle ==
    /\ cleaner.at = "pop" /\ Pop(Reaper, cleaner.key)
    /\ cleaner' = [cleaner EXCEPT !.at = "asleep", !.key = AdoptedKey]
    /\ UNCHANGED <<boxes, boxCall, stopping, detached, calls, troubles>>

ReconcileBegins ==
    /\ cleaner.at = "asleep" /\ Free(Reaper) /\ cleaner' = [cleaner EXCEPT !.at = "list"]
    /\ UNCHANGED <<boxes, pool, boxCall, hand, stopping, detached, calls, troubles>>

-----------------------------------------------------------------------------
(* The process ends and is started again. *)

ProcessIsNew ==
    /\ Trouble
    /\ pool' = [k \in PoolKeys |-> NoEntry]
    /\ boxCall' = [s \in CallerSessions |-> NoContainerCall]
    /\ hand' = [x \in CallerSessions \union {Reaper} |-> NoHand]
    /\ cleaner' = NoReaper /\ stopping' = {} /\ UNCHANGED <<detached, calls>>

PoolCrash == ProcessIsNew /\ UNCHANGED boxes

\* _cleanup_all: lasting containers are stopped, the others of the pool removed.
PoolExit ==
    LET out == {pool[k].box : k \in Pooled}
    IN  /\ ProcessIsNew
        /\ boxes' = [b \in Boxes |->
             IF b \in out /\ Exists(b)
             THEN [boxes[b] EXCEPT !.up = IF Lasting(b) THEN "exited" ELSE "gone"] ELSE boxes[b]]

CallStep(s) ==
    \/ DropStale(s) \/ MakeRoom(s) \/ DockerRun(s) \/ ClearName(s)
    \/ InsertBox(s) \/ Execute(s) \/ LookAgain(s) \/ ReturnGone(s) \/ FinishCommand(s) \/ RemoveBox(s)

ReaperStep ==
    \/ \E b \in Boxes : AdoptBox(b)
    \/ AdoptionEnds \/ ListBoxes \/ Compare
    \/ \E n \in BoxKeys : KillOrphan(n)
    \/ \E k \in PoolKeys : ForgetPhantom(k) \/ CheckIdle(k)
    \/ RoundEnds \/ PopIdle \/ ReconcileBegins \/ RemoveBox(Reaper)

BoxNext ==
    \/ \E s \in CallerSessions :
         \/ \E c \in CallsOf[s] : BeginCall(s, c[1], c[2])
         \/ CallStep(s) \/ RunFails(s) \/ DestroyAsked(s)
         \/ StopCommand(s) \/ StopPasses(s)
    \/ \E x \in CallerSessions \union {Reaper} : RemoveFails(x) \/ RemoveTimesOut(x)
    \/ \E k \in PoolKeys : EntryRests(k)
    \/ ReaperStep \/ PoolCrash \/ PoolExit

BoxSpec == BoxInit /\ [][BoxNext]_boxVars /\ WF_boxVars(ReaperStep)

-----------------------------------------------------------------------------
(* Properties. *)

\* A command runs in the container of its own pool key and with the workspace it was
\* called for, whatever other calls, evictions, the reaper and restarts did meanwhile.
RunsInOwnContainer ==
    \A s \in CallerSessions :
        boxCall[s].at \in {"insert", "start", "running", "killed"} =>
            /\ boxes[boxCall[s].box].name = KeyOf(s)
            /\ boxes[boxCall[s].box].ws = boxCall[s].ws

\* A step of the reaper: its rounds, and what its _destroy_container does.
ReaperActs == cleaner' # cleaner \/ hand'[Reaper] # hand[Reaper]

\* Once the sweep is over the reaper removes no container of a main agent: not as an
\* idle one, however long it rests, and not as an orphan when its entry was lost.
ReaperSparesLasting ==
    [][ ReaperActs /\ ~cleaner.sweeping /\ cleaner'.at # "off"
            => \A b \in Boxes : Lasting(b) => boxes'[b] = boxes[b] ]_boxVars

\* Containers that the pool has lost - by a crash, a failed insertion, an entry dropped
\* by mistake - do not stay: the reaper removes them, or their names are pooled again.
Orphans == {b \in Boxes : Exists(b) /\ ~Lasting(b) /\ boxes[b].name \notin PoolNames}
OrphanGoes == (cleaner.at # "off" /\ Orphans # {}) ~> (cleaner.at = "off" \/ Orphans = {})

-----------------------------------------------------------------------------
(* What the code is said or meant to do and does not. *)

\* Nothing takes the container from under a command.  Refuted: the victim of an
\* eviction is not asked what it runs, and the reaper pops an entry that was used again
\* since it was found idle; two first calls of an agent remove each other's container.
NoCommandIsCut ==
    \A s \in CallerSessions : boxCall[s].at = "running" => boxes[boxCall[s].box].up = "running"

\* SANDBOX_MAX_CONTAINERS bounds the pool.  Refuted: calls count it, then insert.
PoolIsBounded == Cardinality(Pooled) <= MaxPool

\* The main agent's container goes when its entry is evicted or stale, and only then:
\* it survives restarts.  Refuted: no call finds it under its own key afterwards.
LastingSurvives ==
    [][ \A b \in Boxes : Lasting(b) /\ Exists(b) /\ ~Exists(b)' =>
            \E x \in CallerSessions \union {Reaper} : hand[x].entry.box = b ]_boxVars

\* A stop ends the background job of the session.  Refuted: the marker that the stop
\* has just set aborts the script that would end it.
StopEndsJob ==
    [][ \A s \in CallerSessions : s \in stopping' \ stopping => detached'[s] = 0 ]_boxVars

\* A command that a stop found between its check and its registration does not run.
\* Refuted: the marker is not looked at again.
StoppedCallDoesNotRun ==
    [][ \A s \in stopping : boxCall'[s].at = "running" =>
            boxCall[s].at = "running" \/ boxCall[s].sort = "file" ]_boxVars
=============================================================================
