------------------------------ MODULE TurnReaper ------------------------------
(* The durable turn rows (active_turns) and the events that tell a browser    *)
(* about them: workers that begin and finish turns, the process that dies and *)
(* is started again, and the reaper that closes turns others left behind.     *)
EXTENDS Naturals, FiniteSets

CONSTANTS
    ReaperTurns,   \* turns of one agent, each of a session of its own
    MaxBoots       \* bound: times the server is started

NoOne == "none"

VARIABLES
    boot,       \* number of the server process, its pid
    serverUp,   \* that process runs
    turnRow,    \* of each turn: "new", "queued", "running" or "gone"
    ownerPid,   \* process that queued or started the turn
    silent,     \* the turn published nothing for STALE_TURN_HEARTBEAT_MS
    turnWorker, \* where the turn's worker is
    reaper,     \* the thread that finalizes turns: why, which are left, where it is
    begun,      \* turns with a turn_begin event in the journal
    done,       \* done events of each turn in the journal
    reapedAlive \* history: turns that were finalized while their worker ran

reaperVars == <<boot, serverUp, turnRow, ownerPid, silent, turnWorker, reaper, begun, done,
                reapedAlive>>

Idle == [why |-> NoOne, left |-> {}, turn |-> NoOne, at |-> "pick"]
Rows == {t \in ReaperTurns : turnRow[t] \in {"queued", "running"}}

ReaperTypeOK ==
    /\ boot \in 1 .. MaxBoots /\ serverUp \in BOOLEAN
    /\ turnRow \in [ReaperTurns -> {"new", "queued", "running", "gone"}]
    /\ ownerPid \in [ReaperTurns -> 0 .. MaxBoots]
    /\ silent \subseteq ReaperTurns /\ begun \subseteq ReaperTurns
    /\ reapedAlive \subseteq ReaperTurns
    /\ turnWorker \in [ReaperTurns -> {NoOne, "waiting", "started", "working", "finishing", "over"}]
    /\ reaper.left \subseteq ReaperTurns
    /\ done \in [ReaperTurns -> 0 .. 3]

ReaperInit ==
    /\ boot = 1 /\ serverUp = TRUE
    /\ turnRow = [t \in ReaperTurns |-> "new"]
    /\ ownerPid = [t \in ReaperTurns |-> 0]
    /\ silent = {} /\ turnWorker = [t \in ReaperTurns |-> NoOne]
    /\ reaper = Idle /\ begun = {} /\ done = [t \in ReaperTurns |-> 0]
    /\ reapedAlive = {}

-----------------------------------------------------------------------------
(* A turn from the queue to its end.                                         *)

\* queue_turn: the row, and its task in the memory of the process.
QueueTurnRow(t) ==
    /\ serverUp /\ turnRow[t] = "new"
    /\ turnRow' = [turnRow EXCEPT ![t] = "queued"]
    /\ ownerPid' = [ownerPid EXCEPT ![t] = boot]
    /\ turnWorker' = [turnWorker EXCEPT ![t] = "waiting"]
    /\ UNCHANGED <<boot, serverUp, silent, reaper, begun, done, reapedAlive>>

\* start_turn: only a queued row can be started; otherwise the task is dropped.
StartTurnRow(t) ==
    /\ serverUp /\ turnWorker[t] = "waiting"
    /\ IF turnRow[t] = "queued"
       THEN /\ turnRow' = [turnRow EXCEPT ![t] = "running"]
            /\ ownerPid' = [ownerPid EXCEPT ![t] = boot]
            /\ turnWorker' = [turnWorker EXCEPT ![t] = "started"]
       ELSE turnWorker' = [turnWorker EXCEPT ![t] = "over"] /\ UNCHANGED <<turnRow, ownerPid>>
    /\ UNCHANGED <<boot, serverUp, silent, reaper, begun, done, reapedAlive>>

\* _do_process: turn_begin, the turn itself, and turn_complete of a turn that
\* ends by itself or with an exception; each event is a heartbeat.
PublishBegin(t) ==
    /\ serverUp /\ turnWorker[t] = "started"
    /\ begun' = begun \union {t} /\ silent' = silent \ {t}
    /\ turnWorker' = [turnWorker EXCEPT ![t] = "working"]
    /\ UNCHANGED <<boot, serverUp, turnRow, ownerPid, reaper, done, reapedAlive>>

PublishDone(t) ==
    /\ serverUp /\ turnWorker[t] = "working"
    /\ done' = [done EXCEPT ![t] = @ + 1] /\ silent' = silent \ {t}
    /\ turnWorker' = [turnWorker EXCEPT ![t] = "finishing"]
    /\ UNCHANGED <<boot, serverUp, turnRow, ownerPid, reaper, begun, reapedAlive>>

\* finish_turn in the finally clause.
FinishTurnRow(t) ==
    /\ serverUp /\ turnWorker[t] = "finishing"
    /\ turnRow' = [turnRow EXCEPT ![t] = "gone"]
    /\ turnWorker' = [turnWorker EXCEPT ![t] = "over"]
    /\ UNCHANGED <<boot, serverUp, ownerPid, silent, reaper, begun, done, reapedAlive>>

\* A turn that waits for its model, its tools or a person for too long.
FallSilent(t) ==
    /\ serverUp /\ turnRow[t] = "running" /\ t \notin silent
    /\ silent' = silent \union {t}
    /\ UNCHANGED <<boot, serverUp, turnRow, ownerPid, turnWorker, reaper, begun, done, reapedAlive>>

-----------------------------------------------------------------------------
(* The server dies, and the next one closes what it finds at boot.           *)

Crash ==
    /\ serverUp /\ boot < MaxBoots
    /\ serverUp' = FALSE
    /\ turnWorker' = [t \in ReaperTurns |-> IF turnRow[t] = "new" THEN NoOne ELSE "over"]
    /\ reaper' = Idle
    /\ UNCHANGED <<boot, turnRow, ownerPid, silent, begun, done, reapedAlive>>

\* Boot recovery closes only turns that fell silent.
MutBoot ==
    /\ ~serverUp
    /\ serverUp' = TRUE /\ boot' = boot + 1
    /\ turnRow' = [t \in ReaperTurns |-> IF turnRow[t] = "running" THEN "gone" ELSE turnRow[t]]
    /\ UNCHANGED <<ownerPid, silent, turnWorker, reaper, begun, done, reapedAlive>>

\* interrupt_stale_turns: every row, once per process.
Boot ==
    /\ ~serverUp
    /\ serverUp' = TRUE /\ boot' = boot + 1
    /\ reaper' = [Idle EXCEPT !.why = "server_restart", !.left = Rows]
    /\ UNCHANGED <<turnRow, ownerPid, silent, turnWorker, begun, done, reapedAlive>>

\* reap_stale_turns: running rows of this process that fell silent, and any row
\* of another process.
Stale == {t \in Rows : \/ ownerPid[t] # boot
                       \/ turnRow[t] = "running" /\ t \in silent}

Reap ==
    /\ serverUp /\ reaper = Idle /\ Stale # {}
    /\ reaper' = [Idle EXCEPT !.why = "stale", !.left = Stale]
    /\ UNCHANGED <<boot, serverUp, turnRow, ownerPid, silent, turnWorker, begun, done, reapedAlive>>

\* Nobody looks for a done event.
MutLookForDone(t) ==
    /\ serverUp /\ reaper.at = "pick" /\ t \in reaper.left
    /\ reaper' = [reaper EXCEPT !.turn = t, !.left = @ \ {t}, !.at = "publish"]
    /\ reapedAlive' = IF turnWorker[t] \in {"started", "working", "finishing"}
                      THEN reapedAlive \union {t} ELSE reapedAlive
    /\ UNCHANGED <<boot, serverUp, turnRow, ownerPid, silent, turnWorker, begun, done>>

\* _finalize_turn, turn after turn: is there a done event already; if not, one is
\* published; then the row goes.
LookForDone(t) ==
    /\ serverUp /\ reaper.at = "pick" /\ t \in reaper.left
    /\ reaper' = [reaper EXCEPT !.turn = t, !.left = @ \ {t},
                                !.at = IF done[t] > 0 THEN "finish" ELSE "publish"]
    /\ reapedAlive' = IF turnWorker[t] \in {"started", "working", "finishing"}
                      THEN reapedAlive \union {t} ELSE reapedAlive
    /\ UNCHANGED <<boot, serverUp, turnRow, ownerPid, silent, turnWorker, begun, done>>

PublishInterrupted ==
    /\ serverUp /\ reaper.at = "publish"
    /\ done' = [done EXCEPT ![reaper.turn] = @ + 1]
    /\ reaper' = [reaper EXCEPT !.at = "finish"]
    /\ UNCHANGED <<boot, serverUp, turnRow, ownerPid, silent, turnWorker, begun, reapedAlive>>

FinishInterrupted ==
    /\ serverUp /\ reaper.at = "finish"
    /\ turnRow' = [turnRow EXCEPT ![reaper.turn] = "gone"]
    /\ reaper' = IF reaper.left = {} THEN Idle
                 ELSE [reaper EXCEPT !.turn = NoOne, !.at = "pick"]
    /\ UNCHANGED <<boot, serverUp, ownerPid, silent, turnWorker, begun, done, reapedAlive>>

\* A sweep that found nothing to do.
NothingStale ==
    /\ reaper.why # NoOne /\ reaper.at = "pick" /\ reaper.left = {}
    /\ reaper' = Idle
    /\ UNCHANGED <<boot, serverUp, turnRow, ownerPid, silent, turnWorker, begun, done, reapedAlive>>

\* What a live server gets done.  Whether a turn is queued, falls silent or the
\* server dies is nobody's duty; a worker that waits for ever stays "working".
Progress ==
    \/ Boot \/ Reap \/ PublishInterrupted \/ FinishInterrupted \/ NothingStale
    \/ \E t \in ReaperTurns :
          StartTurnRow(t) \/ PublishBegin(t) \/ FinishTurnRow(t) \/ LookForDone(t)

ReaperNext ==
    \/ Progress \/ Crash
    \/ \E t \in ReaperTurns : QueueTurnRow(t) \/ PublishDone(t) \/ FallSilent(t)

\* A turn that does not end falls silent in the end.
TurnEndsOrFallsSilent(t) == PublishDone(t) \/ FallSilent(t)

ReaperFairness ==
    /\ WF_reaperVars(Progress)
    /\ \A t \in ReaperTurns : WF_reaperVars(TurnEndsOrFallsSilent(t))

ReaperSpec == ReaperInit /\ [][ReaperNext]_reaperVars /\ ReaperFairness

-----------------------------------------------------------------------------
(* Properties. *)

\* A turn the browser was told of is closed for it, crash and restart included.
BegunTurnIsClosed == \A t \in ReaperTurns : t \in begun ~> done[t] > 0

\* It is closed once, unless the reaper took the turn away from a live worker.
ClosedOnce == \A t \in ReaperTurns : done[t] <= 1 \/ t \in reapedAlive

\* No row is left of a turn nobody works on, so no agent stays busy for good.
NoRowIsLeft == \A t \in ReaperTurns : turnRow[t] = "running" ~> turnRow[t] = "gone"
=============================================================================
