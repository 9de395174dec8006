----------------------------- MODULE TurnPipeline -----------------------------
(***************************************************************************)
(* How the messages of one chat session become turns: message ingress       *)
(* (AgentRuntime.handle_message), the debounce timers, the task queue and   *)
(* its workers, the durable rows of active_turns, mid-turn injection, /stop *)
(* and the notes held while a turn runs.  Sessions share nothing here but   *)
(* the queue and the workers; the gates in front of a turn are TurnGates'.  *)
(*                                                                         *)
(* Every handler runs on a thread of its own.  What runs under _buffer_lock *)
(* or in one database transaction is one step; what a thread reads and then *)
(* acts on without a lock is two.                                           *)
(***************************************************************************)
EXTENDS Naturals, Sequences

CONSTANTS Message,     \* user messages, each with a handler thread
          Buffering,   \* the sets of messages that may be debounced
          Note,        \* [SYSTEM] notes, each with a thread
          Spare,       \* turn ids for tasks the workers queue themselves
          Worker, None,
          MaxRounds,   \* bound: LLM calls of a turn (max_tool_iterations)
          MaxStops,    \* bound: /stop requests
          MaxReaps     \* bound: turns the stale-turn reaper takes away

ASSUME PipelineAssumption ==
  /\ Buffering \subseteq SUBSET Message /\ None \notin Message \union Spare
  /\ Message \intersect Spare = {}
  /\ MaxRounds \in Nat \ {0} /\ MaxStops \in Nat /\ MaxReaps \in Nat

TurnId == Message \union Spare   \* a task brings the id of its own turn along

VARIABLES
  buffered,  \* the messages to debounce: message_buffer_seconds and not skip_buffer
  handler,   \* per message: where handle_message is
  log,       \* messages saved in the chat log
  ticket,    \* per task owner: the turn id its task carries (ctx.turn_id)
  timer,     \* per message: state of its debounce timer
  slot,      \* _buffer_timers of the session: the message whose timer it holds
  queue,     \* _message_queue: task owners
  row,       \* active_turns: state of each turn
  busy, stop,  \* the session's _busy flag and stop event
  inject,    \* the session's injection queue
  worker,    \* per worker: [pc, task, seen, rounds]
  note, held,  \* per note: where add_session_note is; the pending notes
  heard,     \* history: messages an LLM call or a canned reply has answered
  cancelled, \* history: turns cancelled by /stop
  stops, reaps

ingress == <<handler, log, ticket, timer, slot>>
flags == <<busy, stop, inject>>
notes == <<note, held>>
history == <<heard, cancelled>>
environment == <<buffered, stops, reaps>>
vars == <<ingress, queue, row, flags, worker, notes, history, environment>>

IdleWorker == [pc |-> "idle", task |-> None, seen |-> {}, rounds |-> 0]

\* The session's lock is held from "locked" until the worker is idle again.
WantsLock == {"idle", "taken"}
\* A worker that has started its turn and not yet finished it.
InTurn == {"started", "building", "draining", "calling", "leaving", "unbusied", "flushed"}
\* A worker between _set_busy(True) and _set_busy(False).
MarkedBusy == {"building", "draining", "calling", "leaving"}

Live == \E t \in TurnId : row[t] = "running"        \* _has_live_turn
QueuedRows == {t \in TurnId : row[t] = "queued"}

Init ==
  /\ buffered \in Buffering
  /\ handler = [m \in Message |-> "new"] /\ log = {}
  /\ ticket = [t \in TurnId |-> None]
  /\ timer = [m \in Message |-> "none"] /\ slot = None
  /\ queue = <<>>
  /\ row = [t \in TurnId |-> "none"]
  /\ busy = FALSE /\ stop = FALSE /\ inject = <<>>
  /\ worker = [w \in Worker |-> IdleWorker]
  /\ note = [n \in Note |-> "new"] /\ held = {}
  /\ heard = {} /\ cancelled = {}
  /\ stops = 0 /\ reaps = 0

-----------------------------------------------------------------------------
(* handle_message *)

Save(m) ==
  /\ handler[m] = "new"
  /\ handler' = [handler EXCEPT ![m] = "saved"]
  /\ log' = log \union {m}
  /\ UNCHANGED <<ticket, timer, slot, queue, row, flags, worker, notes, history, environment>>

\* A step of the handler that only decides where to go next.
Decide(m, from, to) ==
  /\ handler[m] = from
  /\ handler' = [handler EXCEPT ![m] = to]
  /\ UNCHANGED <<log, ticket, timer, slot, queue, row, worker, notes, history, environment>>

CheckBusy(m) ==
  Decide(m, "saved", IF busy THEN "probe" ELSE "queue") /\ UNCHANGED flags

CheckLive(m) ==
  Decide(m, "probe", IF Live THEN "inject" ELSE "stale") /\ UNCHANGED flags

ClearStaleBusy(m) ==
  Decide(m, "stale", "queue") /\ busy' = FALSE /\ UNCHANGED <<stop, inject>>

Inject(m) ==
  Decide(m, "inject", "returned") /\ inject' = Append(inject, m) /\ UNCHANGED <<busy, stop>>

\* queue_turn: the task joins a turn that is already queued, or queues its own.
\* The mutated form joins a running turn, too.
MutQueueTurn(o) ==
  IF QueuedRows # {} \/ Live
  THEN \E t \in TurnId : row[t] \in {"queued", "running"} /\ ticket' = [ticket EXCEPT ![o] = t] /\ UNCHANGED row
  ELSE ticket' = [ticket EXCEPT ![o] = o] /\ row' = [row EXCEPT ![o] = "queued"]

QueueTurn(o) ==
  IF QueuedRows # {}
  THEN \E t \in QueuedRows : ticket' = [ticket EXCEPT ![o] = t] /\ UNCHANGED row
  ELSE ticket' = [ticket EXCEPT ![o] = o] /\ row' = [row EXCEPT ![o] = "queued"]

\* _mark_task_queued: queueing accepts the message and clears the stop event.
MarkQueued(m) ==
  /\ handler[m] = "queue"
  /\ handler' = [handler EXCEPT ![m] = "marked"]
  /\ QueueTurn(m)
  /\ stop' = FALSE
  /\ UNCHANGED <<log, timer, slot, queue, busy, inject, worker, notes, history, environment>>

PutTask(m) ==
  /\ handler[m] = "marked" /\ m \notin buffered
  /\ handler' = [handler EXCEPT ![m] = "waiting"]
  /\ queue' = Append(queue, m)
  /\ UNCHANGED <<log, ticket, timer, slot, row, flags, worker, notes, history, environment>>

-----------------------------------------------------------------------------
(* Debouncing: the latest message's timer replaces the one before.          *)

\* Timer.cancel() on whatever the slot holds: without effect once it fires.
CancelSlot(tm) ==
  [m \in Message |-> IF m = slot /\ tm[m] \in {"stored", "armed"} THEN "cancelled" ELSE tm[m]]

StoreTimer(m) ==
  /\ handler[m] = "marked" /\ m \in buffered
  /\ handler' = [handler EXCEPT ![m] = "stored"]
  /\ timer' = [CancelSlot(timer) EXCEPT ![m] = "stored"]
  /\ slot' = m
  /\ UNCHANGED <<log, ticket, queue, row, flags, worker, notes, history, environment>>

\* A timer that was cancelled before it starts runs nothing.
StartTimer(m) ==
  /\ handler[m] = "stored"
  /\ handler' = [handler EXCEPT ![m] = "returned"]
  /\ timer' = [timer EXCEPT ![m] = IF @ = "stored" THEN "armed" ELSE @]
  /\ UNCHANGED <<log, ticket, slot, queue, row, flags, worker, notes, history, environment>>

TimerFires(m) ==
  /\ timer[m] = "armed"
  /\ timer' = [timer EXCEPT ![m] = "firing"]
  /\ UNCHANGED <<handler, log, ticket, slot, queue, row, flags, worker, notes, history, environment>>

\* _enqueue_buffered empties the slot, whichever timer it holds by now.
EnqueueBuffered(m) ==
  /\ timer[m] = "firing"
  /\ timer' = [timer EXCEPT ![m] = "done"]
  /\ slot' = None
  /\ queue' = Append(queue, m)
  /\ UNCHANGED <<handler, log, ticket, row, flags, worker, notes, history, environment>>

\* The periodic sweep forgets a timer whose thread is not alive.
StaleTimerCleanup ==
  /\ slot # None /\ timer[slot] \notin {"armed", "firing"}
  /\ slot' = None
  /\ UNCHANGED <<handler, log, ticket, timer, queue, row, flags, worker, notes, history, environment>>

-----------------------------------------------------------------------------
(* /stop and the reaper *)

\* The stop leaves the rows of queued turns alone.
MutRequestStop ==
  /\ stops < MaxStops /\ stops' = stops + 1
  /\ stop' = TRUE
  /\ timer' = CancelSlot(timer) /\ slot' = None
  /\ cancelled' = cancelled \union QueuedRows
  /\ UNCHANGED <<handler, log, ticket, queue, row, busy, inject, worker, notes, heard, buffered, reaps>>

RequestStop ==
  /\ stops < MaxStops /\ stops' = stops + 1
  /\ stop' = TRUE
  /\ timer' = CancelSlot(timer) /\ slot' = None
  /\ row' = [t \in TurnId |-> IF t \in QueuedRows THEN "gone" ELSE row[t]]
  /\ cancelled' = cancelled \union QueuedRows
  /\ UNCHANGED <<handler, log, ticket, queue, busy, inject, worker, notes, heard, buffered, reaps>>

\* reap_stale_turns: a running turn without a heartbeat loses its row.
ReapStaleTurn ==
  /\ reaps < MaxReaps /\ reaps' = reaps + 1
  /\ \E t \in TurnId : row[t] = "running" /\ row' = [row EXCEPT ![t] = "gone"]
  /\ UNCHANGED <<ingress, queue, flags, worker, notes, history, buffered, stops>>

-----------------------------------------------------------------------------
(* Workers: _worker, _process_and_respond and _do_process *)

At(w, pc) == worker[w].pc = pc
Go(w, pc) == worker' = [worker EXCEPT ![w].pc = pc]
TurnOf(w) == ticket[worker[w].task]

Take(w) ==
  /\ At(w, "idle") /\ queue # <<>>
  /\ worker' = [worker EXCEPT ![w] = [IdleWorker EXCEPT !.pc = "taken", !.task = Head(queue)]]
  /\ queue' = Tail(queue)
  /\ UNCHANGED <<ingress, row, flags, notes, history, environment>>

\* The session's lock is not taken: the gates are thought to be enough.
MutLockSession(w) ==
  /\ At(w, "taken")
  /\ Go(w, "locked")
  /\ UNCHANGED <<ingress, queue, row, flags, notes, history, environment>>

LockSession(w) ==
  /\ At(w, "taken")
  /\ \A v \in Worker : worker[v].pc \in WantsLock
  /\ Go(w, "locked")
  /\ UNCHANGED <<ingress, queue, row, flags, notes, history, environment>>

\* The task is over: its event is set and the caller that waits for it returns.
TaskDone(w) ==
  /\ worker' = [worker EXCEPT ![w] = IdleWorker]
  /\ handler' = [m \in Message |->
       IF m = worker[w].task /\ handler[m] = "waiting" THEN "returned" ELSE handler[m]]

\* start_turn: only a row that is still queued may run.
StartTurn(w) ==
  /\ At(w, "locked") /\ row[TurnOf(w)] = "queued"
  /\ row' = [row EXCEPT ![TurnOf(w)] = "running"]
  /\ Go(w, "started")
  /\ UNCHANGED <<ingress, queue, flags, notes, history, environment>>

\* The early return skips the task's event.
MutRefuseTurn(w) ==
  /\ At(w, "locked") /\ row[TurnOf(w)] # "queued"
  /\ worker' = [worker EXCEPT ![w] = IdleWorker]
  /\ UNCHANGED <<ingress, queue, row, flags, notes, history, environment>>

RefuseTurn(w) ==
  /\ At(w, "locked") /\ row[TurnOf(w)] # "queued"
  /\ TaskDone(w)
  /\ UNCHANGED <<log, ticket, timer, slot, queue, row, flags, notes, history, environment>>

SetBusy(w) ==
  /\ At(w, "started")
  /\ busy' = TRUE
  /\ Go(w, "building")
  /\ UNCHANGED <<ingress, queue, row, stop, inject, notes, history, environment>>

\* The history of the turn is read from the chat log.
BuildContext(w) ==
  /\ At(w, "building")
  /\ worker' = [worker EXCEPT ![w].seen = log, ![w].pc = "draining"]
  /\ UNCHANGED <<ingress, queue, row, flags, notes, history, environment>>

\* The workplace is offline, or the context cannot be built: a canned reply.
ReplyEarly(w) ==
  /\ At(w, "building")
  /\ heard' = heard \union log
  /\ Go(w, "leaving")
  /\ UNCHANGED <<ingress, queue, row, flags, notes, cancelled, environment>>

\* Top of the tool loop: injected messages join the context, the LLM is called.
CallLLM(w) ==
  /\ At(w, "draining")
  /\ inject' = <<>>
  /\ heard' = heard \union worker[w].seen \union {inject[i] : i \in DOMAIN inject}
  /\ worker' = [worker EXCEPT ![w].pc = "calling", ![w].rounds = @ + 1]
  /\ UNCHANGED <<ingress, queue, row, busy, stop, notes, cancelled, environment>>

\* The stop event is checked after the call (and again after the tools ran).
ObeyStop(w) ==
  /\ At(w, "calling") /\ stop
  /\ stop' = FALSE
  /\ Go(w, "leaving")
  /\ UNCHANGED <<ingress, queue, row, busy, inject, notes, history, environment>>

\* Tools ran, and the loop goes round again.
NextRound(w) ==
  /\ At(w, "calling") /\ ~stop
  /\ worker[w].rounds < MaxRounds
  /\ Go(w, "draining")
  /\ UNCHANGED <<ingress, queue, row, flags, notes, history, environment>>

\* The final answer, or an error.
EndLoop(w) ==
  /\ At(w, "calling")
  /\ Go(w, "leaving")
  /\ UNCHANGED <<ingress, queue, row, flags, notes, history, environment>>

\* The finally block of _do_process, in its order.
ClearBusy(w) ==
  /\ At(w, "leaving")
  /\ busy' = FALSE
  /\ Go(w, "unbusied")
  /\ UNCHANGED <<ingress, queue, row, stop, inject, notes, history, environment>>

FlushNotes(w) ==
  /\ At(w, "unbusied")
  /\ held' = {}
  /\ note' = [n \in Note |-> IF n \in held THEN "written" ELSE note[n]]
  /\ Go(w, "flushed")
  /\ UNCHANGED <<ingress, queue, row, flags, history, environment>>

FinishTurn(w) ==
  /\ At(w, "flushed")
  /\ row' = [row EXCEPT ![TurnOf(w)] = "gone"]
  /\ Go(w, "finished")
  /\ UNCHANGED <<ingress, queue, flags, notes, history, environment>>

NoOrphans(w) ==
  /\ At(w, "finished") /\ inject = <<>>
  /\ TaskDone(w)
  /\ UNCHANGED <<log, ticket, timer, slot, queue, row, flags, notes, history, environment>>

\* Messages injected too late for the loop: a new task is queued for them.
TakeOrphans(w) ==
  /\ At(w, "finished") /\ inject # <<>>
  /\ inject' = <<>>
  /\ Go(w, "orphans")
  /\ UNCHANGED <<ingress, queue, row, busy, stop, notes, history, environment>>

\* A turn is queued for the orphans, and no task is put for it.
MutRequeueOrphans(w) ==
  /\ At(w, "orphans")
  /\ \E s \in Spare : ticket[s] = None /\ QueueTurn(s)
  /\ stop' = FALSE
  /\ TaskDone(w)
  /\ UNCHANGED <<log, timer, slot, queue, busy, inject, notes, history, environment>>

RequeueOrphans(w) ==
  /\ At(w, "orphans")
  /\ \E s \in Spare :
       /\ ticket[s] = None
       /\ QueueTurn(s)
       /\ queue' = Append(queue, s)
  /\ stop' = FALSE
  /\ TaskDone(w)
  /\ UNCHANGED <<log, timer, slot, busy, inject, notes, history, environment>>

-----------------------------------------------------------------------------
(* add_session_note: a note is held while a turn runs, else written at once *)

CheckNote(n) ==
  /\ note[n] = "new"
  /\ note' = [note EXCEPT ![n] = IF busy /\ Live THEN "hold" ELSE "write"]
  /\ UNCHANGED <<ingress, queue, row, flags, worker, held, history, environment>>

\* The flag is not looked at again under its guard.
MutHoldNote(n) ==
  /\ note[n] = "hold"
  /\ note' = [note EXCEPT ![n] = "held"] /\ held' = held \union {n}
  /\ UNCHANGED <<ingress, queue, row, flags, worker, history, environment>>

HoldNote(n) ==
  /\ note[n] = "hold"
  /\ IF busy
     THEN note' = [note EXCEPT ![n] = "held"] /\ held' = held \union {n}
     ELSE note' = [note EXCEPT ![n] = "write"] /\ UNCHANGED held
  /\ UNCHANGED <<ingress, queue, row, flags, worker, history, environment>>

WriteNote(n) ==
  /\ note[n] = "write"
  /\ note' = [note EXCEPT ![n] = "written"]
  /\ UNCHANGED <<ingress, queue, row, flags, worker, held, history, environment>>

-----------------------------------------------------------------------------
HandlerStep(m) ==
  \/ CheckBusy(m) \/ CheckLive(m) \/ ClearStaleBusy(m) \/ Inject(m)
  \/ MarkQueued(m) \/ PutTask(m) \/ StoreTimer(m) \/ StartTimer(m)

TimerStep(m) == TimerFires(m) \/ EnqueueBuffered(m)

WorkerStep(w) ==
  \/ Take(w) \/ LockSession(w) \/ StartTurn(w) \/ RefuseTurn(w) \/ SetBusy(w)
  \/ BuildContext(w) \/ ReplyEarly(w) \/ CallLLM(w) \/ ObeyStop(w) \/ NextRound(w)
  \/ EndLoop(w) \/ ClearBusy(w) \/ FlushNotes(w) \/ FinishTurn(w)
  \/ NoOrphans(w) \/ TakeOrphans(w) \/ RequeueOrphans(w)

NoteStep(n) == CheckNote(n) \/ HoldNote(n) \/ WriteNote(n)

Next ==
  \/ \E m \in Message : Save(m) \/ HandlerStep(m) \/ TimerStep(m)
  \/ \E w \in Worker : WorkerStep(w)
  \/ \E n \in Note : NoteStep(n)
  \/ StaleTimerCleanup \/ RequestStop \/ ReapStaleTurn

\* Threads are scheduled and timers fire; an LLM call returns (it has a
\* timeout).  Nobody has to send a message, stop a turn or reap one.
Fairness ==
  /\ \A m \in Message : WF_vars(HandlerStep(m)) /\ WF_vars(TimerStep(m))
  /\ \A w \in Worker : WF_vars(WorkerStep(w))
  /\ \A n \in Note : WF_vars(NoteStep(n))

Spec == Init /\ [][Next]_vars /\ Fairness

-----------------------------------------------------------------------------
HandlerPlace == {"new", "saved", "probe", "inject", "stale", "queue", "marked", "stored",
                 "waiting", "returned"}
TimerState == {"none", "stored", "armed", "firing", "cancelled", "done"}
RowState == {"none", "queued", "running", "gone"}
NotePlace == {"new", "hold", "held", "write", "written"}
WorkerState ==
  [pc : {"idle", "taken", "locked", "finished", "orphans"} \union InTurn,
   task : TurnId \union {None}, seen : SUBSET Message, rounds : 0..MaxRounds]

TypeOK ==
  /\ handler \in [Message -> HandlerPlace]
  /\ log \subseteq Message /\ heard \subseteq Message
  /\ ticket \in [TurnId -> TurnId \union {None}]
  /\ timer \in [Message -> TimerState] /\ slot \in Message \union {None}
  /\ queue \in Seq(TurnId) /\ inject \in Seq(Message)
  /\ row \in [TurnId -> RowState]
  /\ busy \in BOOLEAN /\ stop \in BOOLEAN
  /\ worker \in [Worker -> WorkerState]
  /\ \A w \in Worker : worker[w].seen \subseteq log
  /\ buffered \in Buffering
  /\ note \in [Note -> NotePlace] /\ held \subseteq Note
  /\ cancelled \subseteq TurnId
  /\ stops \in 0..MaxStops /\ reaps \in 0..MaxReaps

\* The messages whose task is with their handler or behind their timer.
Undelivered ==
  {m \in Message : handler[m] = "marked" \/ timer[m] \in {"stored", "armed", "firing"}}

\* A task that will still look at turn t: queued, on a worker that has not
\* started it, behind a timer, or about to be handed over by its handler.
HasTask(t) ==
  \/ \E i \in DOMAIN queue : ticket[queue[i]] = t
  \/ \E w \in Worker : worker[w].pc \in {"taken", "locked"} /\ TurnOf(w) = t
  \/ \E m \in Undelivered : ticket[m] = t

\* Every queued row has its task: "Queued rows of a live process are never
\* reaped: their task is still in that process's in-memory queue"
\* (reap_stale_turns).  A row without one shows its agent as busy, and its
\* messages unanswered, until the session's next message happens to join it.
\* Two debounced messages can break it (they may store their timers in the other
\* order), so it is said of sessions with at most one.
EveryQueuedRowHasTask == \A t \in QueuedRows : HasTask(t)
OneDebounced == \A m, o \in buffered : m = o
QueuedRowHasTask == OneDebounced => EveryQueuedRowHasTask

\* A turn that /stop has cancelled is never started, whichever worker, timer or
\* handler still holds a task that carries its id.
CancelledTurnNeverRuns ==
  \A w \in Worker : worker[w].pc \in InTurn => TurnOf(w) \notin cancelled

\* No two turns of the session are in progress at once, and a turn in
\* progress is the only one of its id.
OneTurnAtATime ==
  \A v, w \in Worker : worker[v].pc \in InTurn /\ worker[w].pc \in InTurn => v = w

\* The turns a session shows are those of SessionTurns: the handlers, timers, workers,
\* stops and the reaper together queue a turn once and alone, start it once, alone and
\* only if no stop was before it, and answer messages in no other place.
InProgress == [w \in Worker |-> IF worker[w].pc \in InTurn THEN TurnOf(w) ELSE None]
Session == INSTANCE SessionTurns WITH runs <- InProgress
TurnsAreTheSessions == Session!TurnsSpec

\* A note held for the end of a turn still has that end to come: the worker that
\* will flush it has not flushed yet (add_session_note, "a note queued here is
\* never stranded").
HeldNoteIsFlushed ==
  held # {} => \E w \in Worker : worker[w].pc \in MarkedBusy \union {"unbusied"}

\* A message whose task was accepted into a turn is answered, or that turn was
\* stopped by the user: joining another task's turn, being debounced away by a
\* later message or losing a race for the session loses no message.
QueuedMessageIsHeard ==
  \A m \in Message :
    (ticket[m] # None /\ OneDebounced)
      ~> (m \in heard \/ ticket[m] \in cancelled)

\* A caller that waits for its task is released.
WaitingCallerReturns ==
  \A m \in Message : handler[m] = "waiting" ~> handler[m] = "returned"

\* An accepted message is served: it is heard, and whoever waits for that returns.
AcceptedMessageIsServed == QueuedMessageIsHeard /\ WaitingCallerReturns

-----------------------------------------------------------------------------
(* What comments of the code say and its interleavings refute. *)

\* What is in the injection queue has a turn that will still drain it: "Drain any
\* messages that arrived in the injection queue just as the loop was finishing".
InjectedMessageHasTurn ==
  inject # <<>> => \E w \in Worker : worker[w].pc \in InTurn \union {"finished"}

\* The busy flag says "whether a session is currently being processed": while a
\* turn's loop runs under a live row the flag is set.
LiveTurnIsMarkedBusy ==
  \A w \in Worker :
    worker[w].pc \in MarkedBusy /\ row[TurnOf(w)] = "running" => busy

\* "a stop racing before it applies to the old turn": only the turn that obeys it
\* takes the stop event back while a turn is in its loop.
StopReachesRunningTurn ==
  [][stop /\ ~stop' =>
       \A w \in Worker : worker[w].pc \in {"draining", "calling"} => worker'[w].pc = "leaving"]_vars
=============================================================================
