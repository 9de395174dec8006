# A verification of Evonic's agent runtime

Evonic runs LLM agents for chat users. A message that arrives over a channel or
the web becomes a *turn*: a worker thread builds a context from the session's
log, calls a model, runs tools and answers. Most of what can go wrong lies
between the threads that do this, in the rows and files they share, and in what
a crash leaves of both. That is what these modules are about.

* `*.tla` without prefix or suffix: one module per component, translated from
  the code. `MC*.tla` and `*.cfg`: small instances for TLC, most of them of
  several components. `*Proofs.tla`: theorems for every value of the constants,
  checked by TLAPS.
* `PROJECT.json`: the components, the runs, for each property a mutant of the
  model that violates it, the source lines of every definition, the findings,
  the hazards and the theorems.

To repeat a run: `tlc -config MCX.cfg MCY` as listed below; to repeat a proof:
`tlapm XProofs.tla`.

Contents: [the system](#the-system) | [how the parts interact](#how-the-parts-interact) |
[inventory](#inventory) | [modules and code](#modules-and-code) | [runs](#runs) |
[bounds](#bounds) | [fairness](#fairness) | [findings](#findings) |
[statements the model refutes](#statements-the-model-refutes) | [met while reading](#met-while-reading) |
[proofs](#proofs) | [not modelled](#what-is-not-modelled-and-why) | [plan](#plan)

## The system

One Python process (`src/app.py`) holds the web server, the channels and the
runtime. The runtime (`src/backend/agent_runtime/`) has a queue with a pool of
worker threads; each message has a handler thread of its own (an HTTP request or
a channel's callback). State is kept in

* SQLite tables (`models/`: sessions, messages, settings, `active_turns`, the
  realtime journal, schedules, escalations, evaluation runs, the state rows of
  agents and sessions), JSONL chat logs (`models/chatlog.py`) and knowledge base
  pages on disk,
* dictionaries of the runtime object, one entry per session, each with a lock
  of its own (`runtime.py` 458-536),
* in-process registries (gates, prefetch cache, approvals, questions, jobs,
  sub-agents, plugin hooks, the queue of a chat, the connections of a relay).

There is no lock over a whole session's state. The code relies on short critical
sections, on database transactions, and on the order in which it takes several
looks at state that other threads change. The models therefore make every
critical section and every transaction one step, and split a handler wherever
it reads something and acts on it later.

## How the parts interact

```
 channel / web request        admin request        timers: schedules, monitors, scans
        |                         | settings               |
        v                         v                        v
 handle_message <----------- GateLimits -> gates     Schedules, Monitors, Kanban
   |   |  \--(busy)--> inject queue   \                    | (messages to an agent)
   |   |   +--(focus)--> deferred ---- Redelivery <--------+
   |   +--> debounce timer
   v            v                        turn on a worker thread:
 active_turns <--- task queue ---------> gates, session lock      (TurnGates)
   |   (TurnPipeline, SessionSweep)      context                  (TurnContext)
   |                                     rounds of the loop       (ToolLoop)
   |                                       +- a batch of calls    (ToolBatch)
   |                                       |    +- approval, question (AskUser)
   |                                       |    +- sub-agents     (SubAgents)
   |                                       |    +- commands       (Containers)
   |                                       |    +- other agents   (Delegation)
   |                                       |    +- other machines (TunnelCalls)
   |                                       +- mode, plan, goal    (SessionState)
   v                                     summary -> pages         (KnowledgeBase)
 journal (RealtimeJournal, TurnReaper)   answer -> chat queue     (OutboundDispatch)
   |
   v
 browser stream (cursor, replay floor)
```

* *Calls*: a worker calls the gates, the session's lock, the context builder,
  the tool loop; the loop calls tools, some of which start other turns and wait.
* *Shared state*: the per-session dictionaries are used by handlers, workers,
  `/stop`, notes, timers and the idle sweep; the rows of `active_turns` by all of
  these and by the reaper; the summary by the turn, the prefetch, the
  summarizer, the remember tool and `/clear`; the state rows by turns, commands,
  web requests, the kanban plugin and the goal gate.
* *Messages*: tasks in the queue, injected messages, requests to another agent or
  machine, events with their ids.
* *Callbacks*: timers (debounce, free notification, sweep, schedules, polls) and
  listeners of the event stream, which run on four threads in any order.

## Inventory

Each row: state and operations | what is hard | what makes it correct. The
components in **bold** have a module; `PROJECT.json` says what of each is
modelled and what is left out.

### The way of a message to its answer

| Component | State and operations | What is hard | Properties |
|---|---|---|---|
| **concurrency gate** (`concurrency.py` 56-97) | a counter, a limit, a condition variable; acquire, release, change the limit | lost wake-ups: barging, time-outs, limits that change under sleepers | permits counted exactly; no free permit beside a sleeper; a gate is a resizable semaphore |
| **gate limits** (`concurrency.py` 121-189, `routes/settings.py`, `routes/models.py`) | two registries of gates, a default limit; create on first use, refresh after a setting is stored | a gate that is created while a refresh runs; two refreshes at once | when refreshes are over every gate has the stored limit |
| **turn gates** (`turn_gate`, `paused_model_gate`, `_process_and_respond`) | worker pool, agent gate, model gate, session lock; enter, leave, pause during a blocking tool | nested locks taken in two orders, parents that wait for children | counts equal holders; model limit kept; nobody waits in a circle; every turn ends |
| **message pipeline** (`runtime.py`) | rows of turns, task queue, timers, busy flag, stop event, injection queue, held notes; message, debounce, inject, stop, worker, reaper, note | a dozen threads with one session, flags read before they are acted on | one turn at a time; cancelled turns never run; accepted messages are answered; notes are flushed; each queued row has its task |
| **idle sweep** (`_cleanup_idle_sessions`) | ages of sessions; drops the per-session objects | objects dropped under a user that came back | a lock stays with who took it; one turn at a time; tasks get their turn |
| **turn context** (`prefetch.py`, `summarizer.py`, `runtime.py` 2091-2373) | log, summary with its watermark, cache of prefetched contexts | the three are read and written at different moments by five threads | summary and watermark agree; nothing missing, nothing twice; the user's message is in |
| **LLM tool loop** (`llm_loop.py`) | retries, nudges, follow-ups, interceptors, goals, iteration and call counts | budgets that interact, a merge that resets one of them, a stop anywhere | it ends; a stop is heeded within a round; the rounds are bounded |
| **tool batch and echo guard** (`llm_loop.py` 157-241, `runtime.py` 55-124) | the calls of a reply, open batches, deferred echoes | abandoned threads that write late; stops and deadlines between calls | every call is told its own outcome, in order, with nothing in between |
| **tool approval** (`approval.py`) | pending approvals; create, resolve, remove | a decision races a stop or the deadline | a risky call ran only after somebody approved it |
| **ask-user** (`ask_user_question.py`, `ask_user_store.py`) | a pending question; answer, dismiss, cancel | two browsers answer; an answer in the last moment | an answer that was accepted in time is the result |
| **redelivery** (`agent_runtime/__init__.py`, `app.py` 528-629) | deferred sessions, timers; the last entry of each log | events out of order; crashes; a rejection or an acknowledgement in the log | what a user sent is answered in the end |
| **realtime journal** (`realtime_store.py`, `routes/realtime.py`) | events with ids, expiry, replay floor; publish, finish, clean up, purge, stream | a browser that reconnects while events expire | no silent gap; live turns replayable; delivery without the heartbeat |
| **durable turns** (`realtime_store.py` 351-377, 671-755) | a row per turn with process and heartbeat; begin, finish, reap | a crash between event and row; reaper against worker | a begun turn is closed for the browser, once per life of its row |
| event stream (`event_stream.py`) | listeners per event; emit to four threads | order is not kept | the environment of Redelivery and RealtimeJournal |
| LLM serializer (`runtime.py` 635-652) | a semaphore that is replaced when its setting changes | permits of the old one are still held | the calls in flight stay below the larger of the two limits |
| shutdown (`runtime.py` 705-760, 801-828) | stop flag, timers, worker poison pills | timers that re-arm themselves | after shutdown nothing starts |

### Agents and their helpers

| Component | State and operations | What is hard | Properties |
|---|---|---|---|
| **sub-agent manager** (`subagent_manager.py`) | sub-agents, counters per parent; spawn, use, expire, destroy | an id taken in one critical section and used in another; expiry against use | an id names one sub-agent; one that runs a turn is not destroyed |
| **execution containers** (`docker_backend.py`, `process_tracker.py`) | a pool of containers by agent or session; look up, create, evict, execute, destroy, sweep, reconcile, stop | the lock covers the lookup only; names that are taken; entries and containers that drift apart over failures and restarts | a command runs in its own container; what the pool has lost is removed, a main agent's container is not |
| **agent messaging** (`tools/agent_messaging.py`, `agent_report_to.py`) | waits for answers, the request each session works on | answers to a wait that timed out, two requests in one turn | a reply resumes the newest question; who waits is registered |
| **escalations** (`escalation_routing.py`) | questions to the person behind a request | a question is replaced or expires while its person types | the same |
| **goals**, **agent state** (`agent_state.py`, `active_goal.py`, `goal_runtime.py`) | two JSON rows: mode, plan, goal, preferences, focus, fallback | rows are read, changed and written whole by five kinds of threads | keys a writer does not own are kept; nobody executes without an approved plan |
| **background jobs, monitors** (`background_jobs.py`, `monitors.py`) | jobs by id, rows of monitors; refresh, stop, poll | deadline, limit of runs, manual poll, failed probe, restart | the agent is told of the end, once |
| **knowledge base** (`memory_manager.py`, `evomem_writer.py`) | cursors, the organizer's slot, pages; claim, organize, apply | threads that outlive their slot; pages that are renamed while they are written | a cursor passes only what was given to a model; what was written is not overwritten |
| memories (`memory_manager.py`) | a ledger of facts with what they replace | two remember calls at once | only the pin is modelled (TurnContext) |
| **kanban plugin** (`plugins/kanban`) | the board; per agent: task in hand, active, paused, pending; three scans | scans, tools, people and events change board and dictionaries in different order | work is offered, reminded of or cleared |
| **scheduler** (`scheduler.py`) | schedules in the database and jobs of a library | run_now, edits, crash during a run | no more runs than allowed |
| **evaluator** (`evaluator/engine.py`) | a run's flags in memory, its rows; start, stop, resume, reset, delete, replay | threads of a stopped run that go on; a replay of a test during the summary | each test counts once and a score is of all results of its level |

### Around the runtime

| Component | State and operations | What is hard | Properties |
|---|---|---|---|
| **channels** (`whatsapp_dispatcher.py`) | WhatsApp: queue, worker, pool and quota of a chat | a worker that ends as a text arrives; text put back | text has a worker and is read in order |
| **workplaces, connector relay, Evonet client** | connections, pending requests, the client's cache of requests | replay after a reconnect, restart of the device | a request runs at most once |
| **plugins** (`plugin_lifecycle.py`) | instances, hooks, listeners, database and files | requests without a lock, reload during an install | an enabled, sound plugin is heard |
| **update manager, restart** (`update_manager.py`) | the tree, the state file, the lock; update, roll back, check | a step fails half way; web and command line at once | when nobody is at work the tree boots |
| bundled plugins | each its own | | add-ons, not part of the core |
| rate limits | windows and stream counters per identity | counters that leak when a stream breaks | count equals open streams |
| databases, chat log | tables and files | each call is atomic for its callers | taken as atomic steps |
| session archive, transfers | archives | partial failure | an archive is whole or absent |
| providers, other tools and backends, safety checker, filters, skills, templates, web pages and CLI, portals | mostly none | I/O, text, packaging | outside what a model checker shows |

The hazards found in these parts, each at its line and with the properties that
cover it, are listed in `PROJECT.json`.

## Modules and code

Definitions keep the names of the code where they can; `PROJECT.json` gives the
lines of each one.

### The runtime

**`ConcurrencyGate`, `Semaphore`.** A gate is `active`, `max` and, per thread, a
`pc`. Everything under the condition's lock is one step; `wait()` gives the lock
up, so a thread sleeps, times out (but is still on the list of waiters, where a
`notify` may be spent on it) or is notified, and looks again in a step of its
own. `Semaphore` is what callers are promised; `RefinesSemaphore` maps
`holders` to the threads inside and `limit` to `max`.

**`GateLimits`.** What a limit set by an administrator does: the write of the
setting, the read of it (1 for a model without a row), the new default, the look at
the registry under `_gates_lock`, and then gate by gate. Turn threads create gates meanwhile; for
a model's gate the limit is read from the database with the lock held, which is
why creation has two steps.

**`TurnGates`.** Composes the pool, the two gates and the session's lock around
a turn that may send a child turn and wait for it with its model gate paused.
A gate appears as `Semaphore` promises it: a permit is taken in one step when
there is room. Two refinements license that: `ConcurrencyGate` implements
`Semaphore` (`RefinesSemaphore`), and what turns do to each gate are steps of
`Semaphore` (`GatesAreSemaphores`).

**`TurnPipeline`, `SessionTurns`.** One session. `handle_message` is split where it looks
(`CheckBusy`, `CheckLive`) and acts (`ClearStaleBusy`, `Inject`, `MarkQueued`,
`PutTask`); debouncing has its slot and the life of each timer (stored, armed,
firing); `/stop` sets the event, cancels the timer and drops queued rows; the
reaper may take any running row; a worker takes a task, the session's lock, the
row (`StartTurn`, refused when the row is not queued any more), runs rounds that
drain the injection queue, and leaves through the `finally` block in its order:
busy flag, held notes, row, orphans. `stop` has an event, `row` the durable rows,
`ticket` the turn id that a task carries, which is another task's when the
message joined a queued turn. `SessionTurns` is what a session promises of its
turns, whoever handles them; in `TurnsAreTheSessions` a worker has in progress the
turn it has started, from the row it claimed to the row it drops (`InProgress`).

**`SessionSweep`.** The same session's objects, as identities: an entry that is
popped and needed again is a new lock, or a new queue. The sweep lists the stale
sessions and then pops one dictionary after the other.

**`TurnContext`.** A log entry is its timestamp, its type and the user's text; a summary is the
set of entries it was made from, its watermark and whether it has the pin. The
turn reads summary, cache and log in three steps; the prefetch reads summary and
log in two and stores later (without a watermark both read only the last
`HistoryLimit` messages, 50 in the code); the summarizer reads both, waits for the model, and
overwrites the row; `/clear` empties log and row and drops the cache in two
steps, between which another `/clear` may come. A hit hands out the cached list itself, so the turn's later appends reach
the cache (`alias`); the turn adds the newest message unless the list ends with
the same text from the user, whichever message that was (`EndsWith`).

**`ToolLoop`.** One turn of `run_tool_loop`, whose counters are the state: the
rounds, the calls to the model, the failed attempts, the follow-ups, the repeated
texts, the force-stop grace, the goal's nudges. Each way back to the top and each
way out is an action with the code's own test. A turn whose agent has a fallback persisted
begins with the probe of its primary model; a context that is exceeded is compacted,
once, by calls of the compaction's own (`compactCalls`), and a call that is given up
may go to the fallback model: each of these calls has a place where the thread waits
for it, and `lateRounds` and `lateSide` count what began after the stop. Nudges and
reminders the code gives once may come again in the model, within the rounds it has:
which of them was given is not told apart. A batch is one
step here: the state of a batch is `ToolBatch`'s.

**`ToolBatch`.** The calls of one reply: read-only calls in threads under a
deadline, the others in order, a risky one through the approval registry. The
log is the sequence of rows (call, output, echo); a thread that the deadline
abandoned goes on and may write an echo, which the guard appends, or defers to
the end of the batch. `RepairToolPairs` is what the next request makes of a call
without an output.

**`AskUser`.** The waiting tool, the registry of the one pending question, two
threads that submit, a message typed into the chat, `/stop` and the switch.

**`Redelivery`.** The kind of the last log entry of each session (a user message,
an acknowledgement, a rejection, an interim message, an answer), the agent's
focus mode, the deferred set, the events and the timer, a crash that takes all
of memory, and the scan at startup.

**`RealtimeJournal`.** Events by id with a state (kept, dated, expired, deleted),
the stored floor, the rows of turns, emitters that look the turn up, publish and
notify in three steps, and one browser: its stream (poll, send, wait, asleep) and
its cursor, which survives a disconnect. `got`, `since` and `lost` are history
variables that say what the browser was sent.

**`TurnReaper`.** The rows themselves, with process and heartbeat, and the count
of begin and done events of each turn: a worker may fall silent at any step, the
server may die and boot (which reaps the rows of dead processes), and the reaper
of a living one closes stale rows in three steps.

### Agents and their helpers

**`SubAgents`.** The registry by id with the state of each sub-agent, spawners
that take an id, insert, and start the clean-up, and the clean-up, which lists
the expired and destroys them one by one.

**`Containers`.** Docker's containers with their names and workspaces, the pool by
key, and of each session the call it is in: look up, drop a stale entry, count and
evict, `docker run` with the retry after a conflict of names, insert, execute, look
again when the container is gone. `hand` holds what `_destroy_container` has popped
and not removed yet; a removal that fails puts it back, one that times out does not,
whether the container is gone by then or not. The reaper sweeps, lists
Docker, compares with a later snapshot of the pool, removes orphans by name, forgets
phantoms and pops idle entries in two steps. A stop sets its marker and kills
everything in the container of a registered command. A main agent's sessions have
the agent's key, an explorer the id of its parent's session. Which entry is the least
recently used is left open, and so is what a command does, but for the job it leaves.

**`Delegation`.** The agent A with two sessions with people and its one session
with B. A request is registered, sent and, if its sender waits, waited for; a
turn of B takes everything that lies in its session; the listener forwards the
answer to the session of the newest request, unless somebody waits or a question
is open. A question is created (replacing others), shown, marked, answered,
cancelled or expires; `asked` keeps the order in which they were created.

**`SessionState`.** The two JSON rows. A turn restores mode, plan and preferences
from both, works in memory, and merges its `AgentState` into each row by a read
and a later write; each command and request has its own read, change and write.
History variables say for which session a plan was made and which keys a writer
was told to change.

**`KnowledgeBase`.** The threads that summaries, commands and restarts start: the
interval and delta checks, the claim of the slot, what the organizer or the
author was given and answers, the cursors, and the application of each operation
to a page under the lock of the name it uses. A write puts back what was read with the
new text, or less of it: an edit may replace a fact, and the clean-up of a page cuts
it off at a copy of its header. A fact counts as written until a write that had read
it takes it out. What an operation raises is caught in the writer, or ends the batch.

**`Monitors`.** Processes with their names, the registry of jobs the server
believes in, refreshes and stops that list, probe and then mark, and monitors with
a poller by timer and one by hand, each with its count.

**`Kanban`.** The board of one agent, its five dictionaries (`hand`), what its
turn may call in the order the guard allows, three scans of two to five steps
(offer, comment, remind), the watchdog that clears a stuck hand, and people who
move and comment on tasks.

**`Schedules`.** The row, the job, the two executors (timer and `run_now`) with
the run count each has read, edits, a crash at any step and the reload.

**`Evaluation`.** The flags and rows of runs, a thread per start with one worker
per domain, requests, a replay that runs beside the threads, and the death of the
server. The score of a level is the set of tests it was made from (`of`).

### Around the runtime

**`OutboundDispatch`.** The queue of one chat as items (the texts merged into
each, its fields), its worker's look, take, send and put back, quota, restriction
and shutdown.

**`TunnelCalls`.** Three processes: callers of the backend, the relay with a
thread per connection, the client with its executor. A link breaks for each side
in its own step; a request is sent again after a reconnect.

**`Updates`.** The tree, the state file, the memory of the server that runs, and
pipelines of two web threads and a command line. A step may fail, which is undone, or
raise, which is not; git may refuse the undo, whose result nobody looks at. `astray` is
set by the ends that leave the tree where it is, and reset by a smoke test that passes.

**`Plugins`.** Requests of two administrators, each a sequence of steps over the
dictionaries of instances, listeners, hooks and commands; the command line, which
changes only database and files.

### Compositions

Modules that interact through state are composed in one module (`TurnGates`:
four locks; `TurnContext`: five threads). Beyond that, `MCAgents`, `MCTurns`,
`MCStore`, `MCServices` and `MCRedelivery` put several components into one
instance for TLC. The parts of such an instance share no variables: a behaviour
begins with a value of `part`, is a behaviour of that component, and leaves the
others in their initial state. The states of an instance are therefore the sum and
not the product of its parts, and each property holds of its own part exactly as
it would alone. A run of one part: put its name alone into `AgentParts`,
`TurnParts`, `StoreParts`, `ServiceParts` or `WaitParts`.

| Instance | Parts (as named in the configuration) |
|---|---|
| `MCAgents` | `TurnGates` (`"gates"`), `Kanban` (`"board"`) |
| `MCTurns` | `ToolLoop` (`"loop"`), `ToolBatch` (`"batch"`), `AskUser` (`"ask"`), `SubAgents` (`"subagents"`), `Containers` (`"containers"`) |
| `MCStore` | `RealtimeJournal` (`"journal"`), `TurnReaper` (`"rows"`), `SessionSweep` (`"sweep"`), `Evaluation` (`"eval"`) |
| `MCRedelivery` | `Redelivery` (`"sessions"`), `Monitors` (`"monitors"`) |
| `MCServices` | `ConcurrencyGate` (`"gate"`), `GateLimits` (`"limits"`), `Delegation` (`"delegation"`), `OutboundDispatch` (`"dispatch"`), `Schedules` (`"schedule"`), `TunnelCalls` (`"tunnel"`), `Updates` (`"update"`), `Plugins` (`"plugins"`), `SessionState` (`"state"`), `KnowledgeBase` (`"knowledge"`) |

A property of two closely related sentences is a conjunction with a name:
`BatchIsToldWhole` is `EchoFollowsOutputs` and `ResultsReachTheModel`. Each
module has a type invariant (`...TypeOK`), the base of the proofs; it is checked
as part of the inductive invariants there and is no property of a run.

## Runs

`tlc -config <cfg>.cfg <module>`. States are distinct states; each run takes
between a few seconds and about four minutes with two workers.

| Run | Module, configuration | States | What it shows |
|---|---|---|---|
| `services` | `MCServices` | 1,784,768 | Ten services around a turn, part by part; see below |
| `turn_context` | `MCTurnContext` | 4,411,063 | What a turn tells its model |
| `turns` | `MCTurns` | 479,562 | What happens inside a turn |
| `pipeline` | `MCTurnPipeline` | 300,368 | How the messages of a session become turns |
| `redelivery` | `MCRedelivery` | 225,773 | What is answered or reported later, over a restart |
| `store` | `MCStore` | 218,340 | What outlives a turn or a run |
| `agents` | `MCAgents` | 150,298 | Turns that wait for other turns, and a board of tasks |
| `turn_gates_deadlock` | `MCAgents`, `MCTurnGatesDeadlock` | violation | With two turns of one agent allowed, a circle of session lock and model permit |
| `context_history` | `MCTurnContext`, `MCTurnContextHistory` | violation | A prefetched context without the last answer |
| `session_sweep_overlap` | `MCStore`, `MCSessionSweepOverlap` | violation | A turn that overlaps the sweep's look at the ages runs beside another of its session |
| `dispatcher` | `MCServices`, `MCDispatchWorker` | violation | Text that was put back kills the worker of its chat and stays |
| `plugin_switch` | `MCServices`, `MCPluginSwitch` | violation | A plugin that is switched off goes on listening |

The properties of the passing runs, in a line each:

* `agents`: `GatesCountHolders` (permits equal the turns that hold them),
  `GatesAreSemaphores` (what turns do to a gate, pauses included, is what `Semaphore`
  lets its threads do: a permit is taken only while one is free, and given back by who
  holds it), `AgentsMoveOn` (a gated turn ends; as long as
  there is open work and nothing is paused, a scan offers it, reminds of it or
  clears the hand that is in the way).
* `pipeline`: `QueuedRowHasTask` (a queued row has a task or a timer that brings
  it), `CancelledTurnNeverRuns` (no round for a row that was cancelled before it
  started), `TurnsAreTheSessions` (what happens to the turns is what `SessionTurns`
  lets happen: queued once and alone, started once and alone, not after a stop took
  them, answered while in progress), `HeldNoteIsFlushed` (a held note has a turn that
  will write it), `AcceptedMessageIsServed` (an accepted message is put into a
  round or was stopped, and the caller that waits for it returns).
* `turn_context`: `SummaryMatchesMark` (a summary covers what is below its
  watermark and nothing else), `HistoryIsToldWhole` (a turn that reads the log
  misses nothing that a summary it uses does not cover, but for messages with
  `HistoryLimit` others after them when it has no watermark, and a user who waits is
  quoted nothing twice), `PatientUserIsHeard` (the message of a user who waits for
  answers is in the context of its turn, or the prefetched context ends with the same
  text, which the code takes for it).
* `redelivery`: `UnansweredIsInHand` (what a log ends with unanswered is with a
  handler, a turn, the deferred sessions, a drain or the scan at every moment),
  `ReportsOnce` (a monitor tells the agent of the end of a process at most once),
  `NobodyWaitsForever` (a message is picked up, a rejection that a crash leaves
  is answered, a monitor reports).
* `store`: `NoSilentGap` (a browser has every event below its cursor or is told to
  reload), `LiveTurnIsReplayable`, `LockIsItsHolders`;
  `StoreMovesOn` (an event is delivered without the heartbeat, a turn that was begun for
  the browser is closed, and a task that was taken gets its turn);
  `ClosedOnce` (it is closed once, unless the reaper took it from a live worker);
  `RunAddsUp` (each test has one result, and the score of a completed run is made
  from all of them, as long as no two threads were at work on it).
* `turns`: `StopIsHeeded` (after a stop at most one more round's call
  begins, retries included, and beside it no more calls than one recovery has: the probe,
  the compaction with its attempts, the fallback), `ToolRoundsAreBounded`, `TurnEnds` (the loop, the batch, the
  sub-agents left idle, and the containers that the pool has lost); `BatchIsToldWhole` (no echo lies between the calls of a batch
  and its outputs, and the model is told of each call what it came to),
  `RiskyCallWasApproved`, `AnswerInTimeCounts`, `SubStaysItself` (an id names one
  sub-agent, and none is destroyed in a turn); `RunsInOwnContainer` (with the workspace
  it was called for), `ReaperSparesLasting` (after its sweep the reaper removes no
  container of a main agent, neither as idle nor as an orphan).
* `services`: `NoPermitLiesIdle` (beside a thread that sleeps at a gate, every permit nobody
  holds has a notified thread coming for it), `RefinesSemaphore`;
  `LimitsSettle`; `ReplyAnswersNewestQuestion` (the question whose answer resumes the agent
  is the last that was asked in its session); `ChatIsServed` (a chat with text has
  a worker, and reads its texts in order); `RunsWithinMax`; `RunsOnce`;
  `TreeStaysBootable` (when nobody is at work the tree boots, or a pipeline ended without
  its own undo and none has passed the smoke test since); `PluginIsHeard` (when the
  requests for it are over, a plugin that database and manifest switch on and whose code
  is sound listens, with the code in its directory); `SessionKeepsItsState` (unless a writer wrote over another, a session has
  the goal and the preference that were asked for last; and one in execute mode has
  a plan, was found trivial or was told to by a command); `KnowledgeIsKept` (a cursor passes only what an organizer or author was
  given, and no write takes a fact off its page that it had not read there, unless the page was
  written under two names at once or another was renamed onto it).

Each property of a passing run is violated by a mutant of the model: an operator
`Mut...` next to the definition it replaces, such as a release that does not
notify, a requeue that forgets the row, a purge that does not raise the floor.
`PROJECT.json` pairs them.

## Bounds

All are constants of the configurations.

| Constant | Value | Why it is enough |
|---|---|---|
| threads and limits of a gate | 4 threads, limits 0 to 3 | two sleepers, a barging thread and one that times out; a limit can shrink below the holders and grow again. The proofs are for any number |
| `GateLimits`: agents, models, writes, administrators | 2, 3 (`KnownModel` has two of them), 2, 1 | a gate that exists and one that is created during the refresh, of each kind, and one of a model without a row; two writes make the second refresh see gates of the first. Two administrators do not settle: see [below](#statements-the-model-refutes) |
| `TurnGates`: turns, workers | 5, 3 | parent, child, a bystander of the parent's agent, one that waits without a gated model, and its child: more turns than workers, each pair of locks contended. `AgentLimit` is 1, the default, in the passing run, where `NoDeadlock` is proved; the violation run has 2 |
| `TurnPipeline`: messages, rounds, stops, reaps, notes | 2, 2, 1, 1, 1 | two messages meet in every state of each other: in the buffer, the row, the injection queue, the last drain. Each of the four disturbances happens at any moment. `Buffering`: the three paths of `handle_message` and their mix |
| `SessionSweep`: workers, objects, sweeps | 2, 3, 2 | an entry that is dropped is replaced by a new object, twice |
| `TurnContext`: messages, clears, pins | 3 messages and clears together, of them 2 clears; 2 pins | a summary, messages after it, one that arrives while it is written; two clears that overlap. The proofs are for any number. `TailSize` and `Threshold` 1 let a summary happen with two entries; `HistoryLimit` 2 cuts the first of three. The second message has the text of the first and the third another (`Script`): a repeated text, after which the context does not end with the message, and a new one. Messages are symmetric: only their order of arrival counts |
| `ToolLoop`: every budget | 1 or 2, as small as the code's order of them allows | a budget is used up, is used up together with another, and is reset by a merge while another is not. `MinImageRetries` is above the time-out retries, as in the code. `CompactAttempts` is 2, so that a compaction has a first call, one that is repeated and a last one |
| `ToolBatch`: calls, batches, kinds, echo threads | 2, 2, 5, 1 | a pair of every two kinds; a thread abandoned in the first batch writes in the second |
| `AskUser`: typed messages | 2 | one before and one after an answer |
| `SubAgents`: parents, spawners, per parent, in all | 1, 2, 1, 2 | two spawners race for the last place; an id is used again |
| `Containers`: sessions, calls, containers, pool, troubles | 3 (two of the agent, an explorer), 2, 2, 1, 1 | two first calls of one agent, two workspaces, an eviction, a container lost by a crash or a failure; a trouble is a failure of Docker, a stop, a crash or an exit |
| `Delegation`: sessions, requests, questions, turns of B | 2, 2, 2, 2 | two requests in one turn or in two, a question replaced by another |
| `SessionState`: sessions, turns at once, steps, commands, nudges | 2, 1, 2, 1, 1 | a session beside another, a command between a turn's read and write, a second turn after it; the limit of one turn per agent is the default |
| `KnowledgeBase`: sessions, facts, titles, threads, restarts | 1, 2, 2, 2, 1 | two threads meet on a page, under one name or two, and one outlives its slot |
| `Kanban`: tasks, acts | 2, 2 | one task in hand, another that is moved; acts that close what was opened are not counted, so the agent can always finish |
| `Monitors`: names, refreshers, interval, hands, crashes | 1, 1, 1, 1, 1 | deadline, poll by hand and crash in the last polls of a monitor |
| `Redelivery`: sessions, messages, crashes | 2, 1 each, 1 | one session holds the permit or the focus that makes the other one rejected |
| `Schedules`: runs, edits | 2, 1 of each | a run after the first; an edit and a crash at any step of it |
| `Evaluation`: tests, runs, threads, requests | 3 on two levels (`NumLevels`; the code has five) and two domains, 1, 3, 2 | a run that is resumed twice with two requests between; a domain without a test on a level |
| `RealtimeJournal`: turns, emitters, events, page | 1, 1, 3, 2 | events inside and outside a turn, more events than a page, so that an expiry can hit one page and not the other. The proofs are for any number |
| `TurnReaper`: turns, boots | 2, 3 | a row left by a process that died, and one left by the process after it |
| `OutboundDispatch`: texts | 4, the third ends an answer | a merged item, one that ends it, one after it |
| `TunnelCalls`: calls, links, restarts | 1, 2, 1 | a request on two connections, and a device that has forgotten it |
| `Updates`: commits, pipelines | 3 (one does not boot), 2 | an update over an update, a rollback over it, each with a failing step |
| `Plugins`: plugins, versions, administrators, requests | 2, 2 (the newer one broken), 2, 2 | two requests for one plugin or for two, at every step of each other |

`CHECK_DEADLOCK FALSE` is set where the bounded inputs run out and the system
then rests. `NoDeadlock` in `turn_gates_deadlock` states directly that a turn that is
not finished can move. It is refuted for two permits per agent and proved for one, the
default, where `AgentsMoveOn` has it that the turn does move.

## Fairness

| Module | Fair | Not fair | Why |
|---|---|---|---|
| `TurnGates` | every turn's `Step` | | model calls and tools have time-outs; locks are eventually handed over |
| `TurnPipeline` | handlers, timers, workers, notes | messages, `/stop`, the reaper, the handler's clean-up of a stale timer | a thread that runs goes on; a user need not do anything |
| `SessionSweep` | workers (strong), sweep (weak) | new tasks | a lock that is free again and again is obtained some time; nothing else of the queue's order is used |
| `ToolLoop` | `LoopStep` | injected messages, stop | the model call has a time-out, the batch is shown to end in `ToolBatch` |
| `ToolBatch` | `BatchStep`: the thread of the turn with its deadlines | decisions, the abandoned threads, echoes | a batch ends although nobody decides and no worker returns |
| `SubAgents` | spawners, the timer and its clean-up | messages to sub-agents | the timer arms itself again |
| `Containers` | the reaper | calls, stops, failures, restarts | a thread that loops for ever and catches what goes wrong in a round |
| `Redelivery` | handlers, turns, listeners, timer, scan; `ReleaseFocus` (strong) | messages, crash | an agent in focus mode has a task in hand, which the kanban watchdogs end; where it has none (`FocusHasTask` below) nothing ends the focus, and this is assumed away |
| `Monitors` | the timer's ticks, the steps of a poll, the restart | refreshes, polls by hand, crash | the scheduler's interval job |
| `Kanban` | strong: the scan begins, its offer becomes a turn, lost tasks are found and reminded of; weak: the other steps of scan and reminder, the watchdog | the agent, people, comments | three interval jobs that re-arm themselves. By the defaults the watchdog looks every 60 s and the scan every 300 s: were it the other way round, the scan's self-heal (`handler.py` 475-481) would fill the hand again before the watchdog could find it |
| `RealtimeJournal` | publish and notify of an event that was begun, the server's loop | browser, clean-up, heartbeat | the heartbeat repairs a lost notification within seconds; delivery without it is what is worth knowing |
| `TurnReaper` | the living process's steps, boot, and that a turn ends or falls silent | crash | a process that is gone is started again |
| `OutboundDispatch` | worker, pool window, end of the pause (weak); take and successful delivery (strong) | quota, restriction, shutdown | a quota that refuses for ever is not the dispatcher's doing |
| `ConcurrencyGate`, `GateLimits`, `TurnContext`, `AskUser`, `Delegation`, `Schedules`, `TunnelCalls`, `Updates`, `Plugins`, `SessionState`, `KnowledgeBase`, `Evaluation` | none in the runs | | safety only. (`ConcurrencyGate`'s `FreePermitIsUsed`, with fair `Wake`, is defined for a run of its own) |

## Findings

Five runs end in a violation; each contradicts a sentence of the repository.

* **A parent and a queued message deadlock** (`turn_gates_deadlock`).
  `paused_model_gate` gives the model permit away while a tool waits, and takes it
  back (`concurrency.py:53`) with session lock and agent permit in hand. `turn_gate`
  is entered before the session lock (`runtime.py:1879-1908`). With
  `AgentLimit` 2 a second turn of the parent's session takes the agent's second
  permit and the model permit in the pause, and waits for the session; the parent
  waits for the model permit. `concurrency.py:31`: "Re-acquire in finally is
  normal contention, never a deadlock". The wait of a gate only logs when it lasts
  (`concurrency.py:70-81`), so both remain. With one turn at a time per agent, or
  with models without a limit, this cannot happen (`OnePermitNeverDeadlocks`,
  `UnlimitedModelsNeverDeadlock`).
* **Two turns of a session after a sweep** (`session_sweep_overlap`). The sweep
  chooses the sessions first and pops their locks later without another look
  (`runtime.py:805-817`). `runtime.py:486-487`: the locks "Prevent concurrent
  processing of messages for the same session_id by different worker threads."
* **A context without the last answer** (`context_history`). `prefetch.py:284-287`
  removes trailing assistant messages; the turn that uses the cache appends only
  the new message. `runtime.py:2283-2284`: "Prefetch already contains the full
  conversation history (system prompt + all prior turns)."
* **A chat whose worker died** (`dispatcher`). An item that was merged has no
  `queued_at` and no `is_final` (`whatsapp_dispatcher.py:436-440`). When quota or
  restriction refuse it, it is put back at the head (393), and the worker's next
  look dies of a `KeyError` (364) without leaving `_workers`; nobody starts another
  for this chat (299-301). `whatsapp_dispatcher.py:54-55`: "One processing worker
  thread per active chat; created on demand and terminates when the queue is
  drained."
* **A plugin that is switched off and listens** (`plugin_switch`).
  `set_plugin_enabled` stores the switch in the database and reloads the plugin
  (`plugin_lifecycle.py:762-775`); the reload looks at `plugin.json` only (330-332).
  `plugin_lifecycle.py:93`: "DB is authoritative; absent = disabled."

## Statements the model refutes

These properties are defined in the modules and are in no listed run. Put the
name in place of the properties of the configuration, with the changes given, and
TLC shows the behaviour. (INVARIANT, unless PROPERTY is said. "Part x" means that
x is the only part.)

### Messages and turns

| Property | What the repository says | What happens | Configuration |
|---|---|---|---|
| `EveryQueuedRowHasTask` | `realtime_store.py:722`: the task of a queued row of a live process "is still in that process's in-memory queue" | a debounced message marks its row (`runtime.py:1811`) and stores its timer later (1814-1817); a handler overtaken in between cancels the timer of the newer row | `MCTurnPipeline`, `Message = {m1, m2, m3}`, `Buffering = {Message}` |
| `InjectedMessageHasTurn` | `runtime.py:2003-2005`: messages that arrive "just as the loop was finishing" become a new task | a handler that has seen the session busy injects after the last drain; nobody reads it until the next turn | `MCTurnPipeline` with three messages, `Buffering = {{}}`, `Note = {}` |
| `LiveTurnIsMarkedBusy` | `runtime.py:527`: "Track whether a session is currently being processed" | the handler clears the flag (`runtime.py:1775`) after a probe that is out of date | the same |
| `StopReachesRunningTurn` (PROPERTY) | `runtime.py:1098-1099`: a stop before the insertion "applies to the old turn" | `_mark_task_queued` clears the stop event of the old turn (`runtime.py:1100`) before it was seen | the same |
| `AgentLimitsSettle` | `concurrency.py:168`: "Re-read the global per-agent setting and update all existing gates" | of two refreshes at once the one that read first may write last | `MCServices`, part `"limits"`, `Admin = {x1, x2}` |
| `LoopHasTheQueue` | `runtime.py:521`: queues "are never removed while a session is active" | as in the finding on the sweep | `MCSessionSweepOverlap` |
| `RepeatedTextIsHeard` | `runtime.py:2290-2291`: the guard is for a prefetch that "already includes" the new message | the guard compares the texts. A prefetched context ends with the message before, whose answer was dropped, so a user who writes the same text twice in a row is not quoted the second time | `MCTurnContext` |
| `HitHearsItsUser` | `prefetch.py:34-36`: the content of the last user message tells a stale cache | no code makes that check, and only the last message of the log is appended | `MCTurnContext` |
| `ClearedStaysCleared` | `slash_commands.py:261`: "Clear chat history and agent LLM log" | a summarizer that waited for its model writes the old summary back | `MCTurnContext` |
| `NotedFactIsKept` | `memory_manager.py:2052-2053`: a pin is "immediately visible for the rest of the session" | the first summary starts from nothing, and one that read the row before the pin overwrites it | `MCTurnContext` |
| `CurrentMessageIsGiven` | `runtime.py:2330-2331`: "the summary + the current user message" | a second message raises the watermark past the first one's turn | `MCTurnContext` |
| `DelegatorIsTold` | `llm_loop.py:3080-3082`: error exits emit `final_answer` "so downstream consumers ... still fire" | the exits over budget (1325) and exhausted (3173-3186) do not | `MCTurns`, part `"loop"` |
| `DeferralHasWakeup` | `agent_runtime/__init__.py:63-64`: answered "without a user nudge" | the focus ends between the rejection and the deferral | `MCRedelivery`, part `"sessions"` |
| `AckedMessageIsAnswered` (PROPERTY) | `runtime.py:1678-1679`: the message "will be processed once the gate frees up" | a crash after the acknowledgement: the scan sees an acknowledgement at the end of the log | the same |

### Agents and their helpers

| Property | What the repository says | What happens | Configuration |
|---|---|---|---|
| `ReplyReachesItsSession` | `agent_messaging.py:984-985`: the reply "is delivered to the exact session" | two requests share B's turns; the answer goes to the newest one's session | `MCServices`, part `"delegation"`, `Questions = {}` |
| `NewGoalIsKept` (PROPERTY) | `goal_runtime.py` 7-8: a nudge "advances the nudge counter, persists the updated goal" | the judgement of the old one, begun before, writes it back | `MCServices`, part `"state"`, `MaxCommands = 2` |
| `PreferenceIsKept` | `llm_loop.py:282-283`: merged "so extra keys set by other components ... are preserved" | read and write of the merge are two steps | `MCServices`, part `"state"` |
| `ClearedChatIsFresh` | `slash_commands.py:283`: the next turn starts with "no stale execute state" | a turn under way persists its mode and plan again | the same |
| `FallbackIsKept` (PROPERTY) | `llm_loop.py:271-272`: merged "to preserve extra keys set by other components (e.g. active_fallback_model_id)" | `/unfocus` and kanban write a whole `AgentState` over the row | the same |
| `NoLostUpdate` | `memory_manager.py:2025-2026`: "serialise read-modify-write on a single KB page so concurrent background extractions can't lost-update each other" | the lock has the title's name while the page that is written has the hinted one; a rename replaces an existing page | `MCServices`, part `"knowledge"`, `MaxFilings = 3` |
| `FiledIsOnPages` | the cursor says what was filed | the cursors are saved before the operations are applied | `MCServices`, part `"knowledge"` |
| `NotifiesOnce` | `monitors.py:16`: each way "notifies exactly once" | a crash between the report and the cancel repeats it | `MCRedelivery`, part `"monitors"`, `Name = {k1, k2}`, `MaxSpawns = 2` |
| `DoneJobHasEnded`, `ShownMonitorIsReal`, `RunningProcessIsListed` | `background_jobs.py` 18-22: the list only goes blank over a restart; monitors "keep everything they need" | job ids begin again after a restart, so an old monitor marks the new job; a refresh that listed before marks after | the same |
| `HandHasAge` | `plugins/kanban/handler.py`: the watchdog finds a stuck hand by its age | a roll-back takes the age of what was booked since | `MCAgents`, part `"board"` |
| `FocusHasTask` | `llm_loop.py:651-654`: without `kanban:finish` the agent "can never close it, leaving focus held"; the tool is kept for that | the listener empties the hand, the turn ends without `kanban:finish`, and no scan looks at such an agent | the same |
| `PausedTaskResumes` | `handler.py:2037`: tells the agent to resume the paused task | a pause by `kanban_update_status` stores a number (2396), the resume compares text (1934) | the same |
| `CommentIsNotPassedOver` (PROPERTY) | `handler.py:1348-1352`: comments are given back "so a later scan can retry" | a task that was reopened, whose agent could not be told, is completed again | the same, `MaxActs = 3` |
| `ChainGoesOn` | `scheduler.py:735`: the next date is calculated "from completion time" | it is calculated from the time of firing: after a run that was long it lies in the past; and a crash leaves the log row `running`, so that the chain is skipped for ever | `MCServices`, part `"schedule"` |
| `CompletedRunIsWhole` | `evaluator/engine.py`: the summary and the scores are made from the results of the run | a thread of a stopped run ends a run that another resumed | `MCStore`, part `"eval"`, `MaxEvalRuns = 2` |
| `OneRunAtATime` | `evaluator/engine.py:82`: "Evaluation already running" | the flag is free before the thread is | the same |
| `RunningRunHasThread` | `evaluator/engine.py:161`: "Run ... is still running" | an error or a crash leaves the row `running` | the same |
| `TestCountsOnce` | a resumed run skips the tests it has results of | two threads run the same test of a run | the same |

### Containers

All of them: `MCTurns`, part `"containers"`.

| Property | What the repository says | What happens |
|---|---|---|
| `StopEndsJob` (PROPERTY) | `runtime.py:1224`: "Also stop detached tmux/screen/nohup jobs owned by this session." | the script goes through `run_bash`, which the marker set two lines above aborts (`docker_backend.py:652`); the backend it asks for, made without the agent, would be another container anyway |
| `StoppedCallDoesNotRun` (PROPERTY) | `process_tracker.py:61-62`: aborts a subprocess that starts "between kill running and the backend calling register" | the marker is looked at before the container is, and not at the registration |
| `LastingSurvives` (PROPERTY) | `docker_backend.py:424-428`: the container "survives `evonic` restarts with all installed state preserved" | the sweep adopts it under its name, the calls look under the agent's id: the first one meets the taken name and removes it. After a crash it is running, not stopped, and the sweep for "non-persistent orphans (only)" (240) looks at no label |
| `NoCommandIsCut` | `docker_backend.py:4-6`: one container, "reused for subsequent calls", destroyed "on idle timeout, LRU eviction, or process exit" | an eviction, a conflict of names between two first calls of an agent, or the sweep removes it under a command |
| `PoolIsBounded` | `SANDBOX_MAX_CONTAINERS` | calls count the pool and insert later |

### Around the runtime

| Property | What the repository says | What happens | Configuration |
|---|---|---|---|
| `NewSessionIsKept` | `connector_relay.py:159-161`: without the guard a late disconnect "would clobber the newer session" | the guard is looked at under the lock, the backend is told after it: a newer connection may have come in between | `MCServices`, part `"tunnel"` |
| `FailedUpdateIsUndone` (PROPERTY) | `update_manager.py:475-477`: "If a gating step fails, the tree is reset back to the prior commit so the running server stays bootable" | the result of that reset is ignored (507, 521), and a step that raises leaves through `finally` (526) without it | `MCServices`, part `"update"` |
| `RollbackIsDeterministic` | `update_manager.py:428`: "Persist the pre-update commit so rollback is deterministic" | the previous commit is lost when the module is imported again | `MCServices`, part `"update"` |
| `EnabledPluginIsLoaded` | as `plugin_switch` | the reload after the switch looks at `plugin.json`, which says `"enabled": false` | `MCServices`, part `"plugins"`, `SwitchedOn = {2}` |
| `PluginKeepsItsHooks`, `OneListener`, `UninstalledPluginIsGone`, `CommandsAreDeclared`, `NavShowsEnabled` | `plugin_lifecycle.py`: `uninstall_plugin` "unload handlers then delete directory", the navigation is that "declared by all enabled plugins" (520) | two requests without a lock, a failing import between unload and load, a command line that changes only files | `MCServices`, part `"plugins"` |

### Met while reading

Behaviour that was seen while a module was written and that is part of the model
or lies beside it; none of it is a run.

* *Runtime.* `routes/sessions.py:368` calls `agent_runtime._maybe_summarize`, which
  does not exist. `AgentRuntime.clear_session` (`runtime.py:3155`) leaves the
  prefetched context. `runtime.py:479-480` says that all four dictionaries "share
  the same set of session_id keys at any instant", which the sweep's pops break for
  a moment. `event_stream.emit` swallows a failure of the journal.
* *Loop and batch.* With a fallback model a provider error is never retried, though
  the comment (`llm_loop.py` 1415-1416) says "only retry once". Serial tools have no
  deadline. A message that is injected during the last round finds the loop over.
  Results that follow a force-stop message in the middle of a batch are replaced by
  synthetic ones. A late approval is told "resolved" although the call was
  rejected. An exception between opening and closing leaves a batch open for the
  echo guard.
* *Sub-agents.* Spawns that overlap may exceed the cap (`subagent_manager.py`
  82-108), and `register_ephemeral` checks and inserts apart (205-211).
* *Containers.* When a container is gone, `run_python` drops the entry of the session
  and not that of the agent's key (`docker_backend.py` 726), so that the retry finds
  the dead one again; `destroy` has the same key (1092) and may hit an explorer's
  container. "Sub-agents and explorers share their parent agent's container"
  (`exec_backend.py` 279-280): sub-agents have one of their own, and an explorer has
  one for its parent's session. A stop kills what other sessions run in the shared
  container. An entry that a failed removal puts back may replace a newer one.
* *Agents.* The depth of a chain (`agent_messaging.py`, "prevent infinite chain
  reactions") is not carried by forwarded replies. A forward held back by a question
  that expires later is lost.
* *State.* The kanban plugin's preset execute mode has no effect on a session that
  has a row, but is copied into each new session by the one-time migration
  (`models/chat.py` 456-499). The goal evaluator fails open.
* *Knowledge base.* An organizer that timed out works on after its slot was
  released, and `/kb-organize` takes none ("at most ONE organizer sub-agent runs per
  agent at a time", `memory_manager.py:1155`). `_on_doc_updated` reads
  `event['payload']`, which `emit` does not send. Two `remember` calls at once leave
  two current rows of one key, though `store_memory`'s docstring keeps the newest.
* *Monitors.* Two polls by hand may use up the runs of a monitor, which then ends
  without a word.
* *Scheduler.* `run_now` beside the timer loses a count; a cancel during a run arms
  the job again.
* *Evaluator.* A replay removes the old result first: if it fails there is none; it
  does not score the level again.
* *Updates.* The smoke test imports the application in a process of its own, which
  reads and writes the state file. The check for updates sets `checking` over
  `updating`.
* *Plugins.* `plugin hotreload-enable` prints "Plugin will automatically reload when
  files change" (`cli/commands.py` 565-575), from a process that ends at once.
* *Relay.* Results of calls that timed out stay in `_results`.

## Proofs

Eight modules hold the theorems. Each section of them is about one component: an
inductive invariant (`...Inv`, a conjunction of named parts, each a sentence about the code),
`Init => Inv`, `Inv /\ [Next]_vars => Inv'` by one lemma per action or group of actions,
`Inv => Property`, and `PTL`. The type invariant is a part of the invariant. A property
that a step may not break (`[][A]_vars`) comes from the same lemmas.

### What is proved

"Assumption" is the named `ASSUME` of the component's module; TLC evaluates all of them
in the runs. Where it says only that a bound is a natural number, nothing stands there.

| Theorem (module) | For every | Assumption | Argument |
|---|---|---|---|
| `GateInvariant`, `NoWakeupIsLost` (`ConcurrencyGateProofs`) | set of threads, limits | the threads are finitely many | `IInv` is `TypeOK`, `PermitsAccountedFor` and `NoLostWakeup`. The last compares the free permits with the notified threads, so a step is a question of two cardinalities: `AtMostOneFewer` and `PermitTaken` bound how far they move, and `Release` and `SetMax` notify as many as they free. Both parts together are `NoPermitLiesIdle`, which speaks of holders where the counter stood |
| `GateRefinesSemaphore` (the same) | the same | the same | the gate's `active`, `max` and the threads inside are the semaphore's variables; `StepRefines` maps each action to take, give back, resize or a stutter. A release needs the invariant: the counter is positive when somebody is inside |
| `LimitsAreEnforced` (the same) | models, agents, limits; one administrator | `NoGate` is no limit; in the theorem, `Admin = {x}` | a gate has the limit of now, or the one refresh under way will still come to it: the default is set before the gates are listed (`AgentRefreshOk`), a limit is read before its gate is looked up (`ModelRefreshOk`). With two administrators the statement is false ([above](#statements-the-model-refutes)) |
| `GateCountsExact`, `ModelLimitHolds` (`TurnGatesProofs`) | turns, agents, models, sessions, who waits for whom | finite turns, types of the maps | `ModelLimitKept` needs that the gates count their holders, that only turns with a gated model wait at it (`GatedTurnsWait`) and that counts stay in the limit. All actions are moves of one turn (`StepIsMove`), and two lemmas say how such a move changes the sets of holders |
| `GatesRefineSemaphores`, `AgentGateIsSemaphore` (the same) | the same | the same | the turns past a gate are the holders of its semaphore. A move of one turn adds it to the holders of a gate, takes it from them or leaves them; it is added only when the gate had room, and the count of the gate is the number of holders (`AgentsWithinLimit`) |
| `OnePermitNeverDeadlocks`, `UnlimitedModelsNeverDeadlock` (the same) | the same | as stated: `AgentLimit` is 1 and a session has one agent; or `ModelLimit` is 0 | if nothing can move, every unfinished turn waits for a holder that is itself stuck (`LocksHaveHolders`). With one permit per agent the holder of a session's lock holds its agent's permit, so nobody who waits for the session has a model permit, and the chain agent, session, model ends with a turn that can move; without model limits it has one link less |
| `PipelineInvariant`, `OneTurnRuns` (`TurnPipelineProofs`) | messages, notes, workers, rounds | `None` is no message, spare ids are no messages | between two looks at the queue one worker is past the lock (`LockHasOneHolder`); the rest of `IInv` is the books of a session: tasks have tickets, tickets have rows, one row is queued |
| `TurnsImplementSession` (the same) | the same | the same | the rows and what each worker has in progress are the variables of `SessionTurns`; each action maps to queue, start, answer, finish, cancel, reap or a stutter. A new ticket goes to a task that had none, so what is in progress stays (`QueueingIsQueue`, `ProgressStays`); that a turn starts alone is `LockHasOneHolder` |
| `CancelledStaysCancelled`, `QueuedRowsHaveTasks`, `HeldNotesAreFlushed` (the same) | the same | the same | a cancelled row is gone and only a queued row is started; the task of the queued row moves with it through buffer, timer, queue and worker, which a second debounced message breaks, so the property has `OneDebounced`; a note is held only while the flag is set, and the worker that set it clears it before it flushes |
| `SummaryKeepsItsMark`, `HistoryHasNoGaps`, `WaitingUserIsHeard` (`TurnContextProofs`) | messages, tail size, threshold, notes, clears | | the summary agrees with the log up to its mark, and so does every copy that may be written back, at every point the summarizer may stop (`SummaryInv`); for the user who waits, one message is under way and nothing in the log is newer, so that a context read at any time ends with a message of the user or is read again (`WaitedInv`), and no limit of the history reaches it. That the entries after an old one never get fewer (`SaidAfterGrows`) keeps what the limit cut off excused |
| `NothingIsSkipped`, `LiveTurnIsKept` (`RealtimeJournalProofs`) | turns, emitters, events, page size | a page has room; `None` is no turn | `NoSilentGap` needs where the cursor can be (`CursorIsKnown`), that what is lost while a stream is open was recorded (`LossesAreSeen`), and that a page is the next undeleted events (`PageIsNext`, by the least element of a set of ids); an emitter about to publish has looked the row up (`TurnsAreStarted`) |
| `FloorIsExact` (the same) | the same | the same | `FloorCoversDeleted`, proved and therefore in no run: the greatest element of a union (`HighestOfUnion`), for clean-up and purge |
| `StopEndsTheRounds` (`TurnPartsProofs`) | budgets, replies, failures | | a round's call that began after the stop is the only one and is still going on: Check A follows it. A recovery is entered from a reply only, so the calls of its own since the stop are part of one, and how many are left of it is known from where the thread is |
| `InjectionsGiveBoundedRounds` (the same) | the same | the budget is positive | the rounds so far are those that counted merges gave back and those since the last of them (`RoundsAddUp`) |
| `RiskyCallIsApproved` (the same) | calls, batches, threads | | while the loop waits, what the registry accepted is the decision it holds |
| `BatchIsWhole` (the same) | the same | | results are told up to the current call and in order (`ToldInOrder`), so a batch that ends has all of them and the repair adds nothing (`WholeIsNotRepaired`); rows held back are written when the batch is closed, rows of threads past the guard are of earlier batches (`EchoesWait`) |
| `AnswerIsTold` (the same) | typed messages | | what was accepted in time stands in the registry until it is told (`AnswerStands`) |
| `SubAgentsStay` (the same) | parents, spawning threads, bounds | | a number is counted before its id can be registered, and no two threads hold the same (`IdsAreCounted`); what the clean-up lists was idle, so a turn that runs began after the listing (`DoomedWasIdle`) |
| `CommandsStayApart`, `ReaperLeavesLasting` (the same) | sessions, calls, keys, failures | the key under which containers are adopted is no caller's key | what pool, calls and clean-up say of a container stays true of it (`EntriesFit`, `CallsFit`), because containers that were created change in nothing but whether they are up (`BoxesKeep`); outside the sweep no lasting container is on the reaper's list, and the key that it pops or has popped is that of a session's own container (`LastingIsSafe`) |
| `LockStaysWithItsHolder`, `SweepTypeCorrect` (`StoreProofs`) | workers, objects, sweeps | `Nobody` is no worker | objects are numbered as they are made; a lock in a hand was taken at its creation or later (`LockWasTaken`), so a new object is in nobody's hand |
| `TurnsAreClosedOnce` (the same) | turns, processes | | the reaper has in hand only turns that have begun and whose worker is gone or silent; one of worker and reaper publishes the end (`DoneByOne`) |
| `UnansweredStaysInHand` (the same) | sessions, gate limit, messages, crashes | the gate has a limit | `UnansweredIsInHand` follows each message from hand to hand: handler, row, turn; rejection, deferred sessions, drain, row; log, scan, row. A drain must be known to hold sessions only while it resumes them (`DrainHoldsWhileResuming`), for the next one replaces what it holds |
| `MonitorsReportOnce` (the same) | jobs, monitors, polls, crashes | | a poll that may still report counts as a report to come, and a report too many was excused when it became possible (`ReportsAreExcused`) |
| `RunsAddUp` (the same) | runs, tests, levels, threads | levels of tests are among the levels, tests finitely many | a thread that has its run to itself is alone (`AloneIsAlone`); tests ahead of it have no result but an earlier thread's, those in a worker's hand not yet, those behind are counted, unless the run was stopped or deleted (`WorkIsWhole`) |
| `RequestRunsOnce` (`ServicesProofs`) | requests, links, restarts | | what the device does not know it has not run since it forgot (`UnknownWasNotRun`); without deduplication nothing is on its way twice |
| `ScheduleKeepsItsLimit` (the same) | limits, edits, crashes | the limit is positive | every action is in the stored count, about to be counted, excused by an edit or lost in a crash (`CountsKeepUp`) |
| `TreeIsLeftBootable` (the same) | commits, pipelines | the first commit boots | the tree boots unless it was left astray or the pipeline with the lock has moved it, and that one knows where to return (`TreeCanBeSaved`) |
| `ReplyIsForTheNewest`, `WaitersAreFound` (the same) | sessions, requests, questions | `NoSession` is no session | questions stand in `asked` in the order of their creation (`AskedInOrder`), and one that may still be answered is the last of its session (`LiveIsNewest`), since creating one cancels the others; the registry has the entry of every call that can be woken |
| `PluginsAreHeard` (the same) | plugins, versions, requests | | a plugin that works (the database's switch included) listens, or a request under way will load what is in its directory (`HeardOrLoaded`) |
| `SessionIsKept` (the same) | chats, turns, commands | | no copy of a row that a turn, a command or an object holds is in execute mode without a reason, and while nothing was torn the copies have the goal and preference of the row (`SessionOk`) |
| `FactsAreKept` (the same) | sessions, facts, titles, threads | `"none"` is no title | what a thread has to file is what its organizer is asked about (`CursorInv`); a thread that writes has the lock of the name it was given, so two on one page have torn it (`PageInv`) |
| `ChatIsServedInOrder` (the same) | texts | | an entry in `_workers` stands for a worker, which leaves it in the step that sees the queue empty (`WorkerInv`). What was sent, what the worker holds and every item of the queue are in order and in this order (`ChatInv`), and joining items keeps that. The join is a recursive function over the queue (`FlattenSeq`); what it returns for a queue of any length is shown by the least length at which it would not (`NoGapUpTo`, `FlattenOrdered`) |

A theorem is about the component's own specification. The run that shows the same
property has the component as a part of a composition, whose behaviours of that
part are those of the component.

### What the proofs changed

A step that would not go through was most often a fault of the model.

* `Evaluation` stopped at the first level without a test; the engine goes through all
  five (`engine.py` 553), and tests are of these (`test_loader.py` 455). `NumLevels` has them.
* `Containers` allowed the key of adopted containers to be one a call looks up. `ToolLoop`
  allowed a budget of no rounds; settings clamp it to 1 to 1000 (`settings.py` 855, 1150).
* `LimitsSettle` was stated without saying how many administrators there are. The theorem
  has one as its hypothesis; with two it fails.
* `Schedules`: a chain that ends because its agent is disabled counts from the number read
  when the run began, so it may overwrite a newer one; `AgentDisabled` did not say so.
* `TurnContext` had at most one note and one `/clear`, a bound its proofs never used; both
  are bounds of the instance now, and clears may overlap. It was restated, with the same behaviours, with sets of stamps for
  sequences. `ToolBatch` has the missing results of `repair_tool_pairs` by their rank,
  `Evaluation` its new threads and workers as whole records.
* `KnowledgeBase` has `"none" \notin Title`: the name is the mark for "no page".

### What is only model-checked

* Liveness (`AgentsMoveOn`, `AcceptedMessageIsServed`, `StoreMovesOn`, `TurnEnds`,
  `NobodyWaitsForever`): the prover has neither fairness nor ENABLED.
* The violations: each is one behaviour, which TLC exhibits.
* `Kanban` has liveness properties only.

No module declares a RECURSIVE operator.

## What is not modelled, and why

* **Text and I/O**: model providers, the other tools and backends, the safety checker, the compressor and
  prompt filter, skills and templates, web pages, the command line and portals. They
  have no state that several actors share; where a request or a command drives a
  modelled part, it is an action of that module.
* **The databases**: a statement under its lock is one step. What lies between
  two statements is modelled where it matters (summaries, rows of turns, state rows,
  limits, schedules, evaluation runs).
* **The model's answers**: a turn ends after any number of rounds up to the bound,
  with any of its outcomes; an organizer answers with any operations on the facts it
  was given.
* **Several processes**: `TurnReaper` has a process that dies and one that is started
  after it, `Updates` the command line beside the server. Two servers on one database
  are not modelled.
* **Crashes** in `Redelivery`, `TurnReaper`, `Schedules`, `TunnelCalls`, `Updates`,
  `Monitors`, `Evaluation`, `KnowledgeBase` and `Containers`, where something durable is left; the
  others are about memory that a crash takes away as a whole.
* **Order of time**: a deadline may pass at any moment. Exceptions are `OutlivesTTL`
  (a turn may last longer than the sweep's TTL or not) and the order of the default
  intervals in `Kanban`.
* **Plugin hot reload** (`plugin_hot_reload.py`): its watcher is started only by
  command line processes, which end at once.
* **LLM serializer, shutdown, rate limits, event stream, bundled plugins, session
  archive, the ledger of memories**: small or optional, and next in the plan. The
  event stream appears as the environment of `Redelivery` and `RealtimeJournal`.
* **Failing reads of the database**: the reads that a modelled step makes succeed. So
  `_load_model_limit` has the 1 of a model that is not found, and not that of a read that
  raises, and nothing is refreshed half-way by an exception.
* **Calls beside the loop's own**: what a tool, a plugin, the goal evaluator or the
  retries inside `LLMClient` send to a model is not counted in `StopIsHeeded`.
* **The history's limit**: `HistoryLimit` counts the entries that are modelled;
  in the code intermediate messages count as well, and `trail_history_full_agents` may raise it
  (`context.py` 580-597).
* **Half a reset**: `git reset --hard` moves the tree or leaves it.
* **The text of a rename**: a body that a rename brings along is appended to the page
  and is no fact of the model; what its clean-up may cut off is (`Written`).
* Of each modelled component, the note in `PROJECT.json` names what is left out.

The map covers the control of these components, not the text around it. Most of the
implementation's lines are pages, commands, prompts, tools, parsing and formatting,
which are in the list above.

## Plan

Done in the order of what a mistake costs a user: the way of a message to its answer,
what happens inside a turn, what outlives it, and the services around it. Next:

1. LLM serializer as a part of `GateLimits`, shutdown as a part of `TurnPipeline`,
   rate limits and the ledger of memories as parts of `MCServices`.
2. Escalations with the depth of a chain in `Delegation`, and the goals of
   `SessionState` in the loop of `ToolLoop`, composed over their shared row.
