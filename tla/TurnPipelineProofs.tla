-------------------------- MODULE TurnPipelineProofs --------------------------
(***************************************************************************)
(* The safety of one session's messages and turns, for any messages, notes, *)
(* workers and bounds.  The four properties are not inductive: they rest on *)
(* who holds the session's lock, on a task never being without a ticket, a  *)
(* ticket never without a row, and on one row at most being queued.         *)
(***************************************************************************)
EXTENDS TurnPipeline, TLAPS

\* Between two looks at the queue only one worker is past the session's lock.
LockHasOneHolder ==
  \A v, w \in Worker :
    worker[v].pc \notin WantsLock /\ worker[w].pc \notin WantsLock => v = w

\* A task that was put in the queue, armed or taken carries the id of a turn.
TasksHaveTickets ==
  /\ \A i \in DOMAIN queue : ticket[queue[i]] # None
  /\ \A w \in Worker : worker[w].pc # "idle" =>
       worker[w].task \in TurnId /\ ticket[worker[w].task] # None
  /\ \A m \in Undelivered : ticket[m] # None

\* A message gets its ticket when it is marked, and not before.
Unmarked ==
  {m \in Message : handler[m] \in {"new", "saved", "probe", "inject", "stale", "queue"}}
NewMessagesHaveNone == \A m \in Unmarked : ticket[m] = None

\* Whoever has a row has a ticket; whoever has a ticket, has one for a row.
TicketsHaveRows ==
  \A t \in TurnId :
    /\ row[t] # "none" => ticket[t] # None
    /\ ticket[t] # None => row[ticket[t]] # "none"

OneQueuedRow == \A s, t \in QueuedRows : s = t

\* A turn that was started is running or over, and never queued again.
StartedTurnsHaveRows ==
  \A w \in Worker : worker[w].pc \in InTurn => row[TurnOf(w)] \in {"running", "gone"}

CancelledRowsAreGone == \A t \in cancelled : row[t] = "gone"

SlotIsDebounced == slot # None => slot \in buffered

\* The busy flag is set by a worker that has not yet cleared it.
BusyHasItsWorker == busy => \E w \in Worker : worker[w].pc \in MarkedBusy

\* The loop is entered with a round left.
RoundsAreLeft ==
  \A w \in Worker :
    /\ worker[w].pc \in {"taken", "locked", "started", "building"} => worker[w].rounds = 0
    /\ worker[w].pc = "draining" => worker[w].rounds < MaxRounds

Books == TasksHaveTickets /\ NewMessagesHaveNone /\ TicketsHaveRows /\ OneQueuedRow

IInv ==
  /\ TypeOK /\ RoundsAreLeft /\ LockHasOneHolder /\ Books
  /\ StartedTurnsHaveRows /\ CancelledRowsAreGone /\ CancelledTurnNeverRuns
  /\ SlotIsDebounced /\ QueuedRowHasTask /\ BusyHasItsWorker /\ HeldNoteIsFlushed

-----------------------------------------------------------------------------
\* At the start nothing is queued, taken, cancelled or held.
LEMMA InitEstablishesInv == Init => IInv
<1> SUFFICES ASSUME Init PROVE IInv
  OBVIOUS
<1>1. TypeOK
  <2>1. IdleWorker \in WorkerState
    BY PipelineAssumption DEF IdleWorker, WorkerState
  <2>2. worker \in [Worker -> WorkerState] /\ \A w \in Worker : worker[w].seen \subseteq log
    BY <2>1 DEF Init, IdleWorker
  <2>3. stops \in 0..MaxStops /\ reaps \in 0..MaxReaps
    BY PipelineAssumption DEF Init
  <2>4. queue \in Seq(TurnId) /\ inject \in Seq(Message)
    BY DEF Init
  <2>5. handler \in [Message -> {"new"}] /\ ticket \in [TurnId -> {None}]
        /\ timer \in [Message -> {"none"}] /\ row \in [TurnId -> {"none"}] /\ note \in [Note -> {"new"}]
    BY DEF Init
  <2>6. QED
    BY <2>2, <2>3, <2>4, <2>5 DEF Init, TypeOK, HandlerPlace, TimerState, RowState, NotePlace
<1>2. RoundsAreLeft /\ LockHasOneHolder /\ StartedTurnsHaveRows /\ CancelledTurnNeverRuns
  <2>1. \A w \in Worker : worker[w].pc = "idle"
    BY DEF Init, IdleWorker
  <2>2. QED
    BY <2>1 DEF RoundsAreLeft, LockHasOneHolder, StartedTurnsHaveRows, CancelledTurnNeverRuns,
                InTurn, WantsLock
<1>3. Books
  <2>1. \A i \in DOMAIN queue : ticket[queue[i]] # None
    BY DEF Init
  <2>2. \A w \in Worker : worker[w].pc = "idle"
    BY DEF Init, IdleWorker
  <2>3. TasksHaveTickets
    BY <2>1, <2>2 DEF Init, TasksHaveTickets, Undelivered
  <2>4. NewMessagesHaveNone /\ TicketsHaveRows /\ OneQueuedRow
    BY DEF Init, NewMessagesHaveNone, Unmarked, TicketsHaveRows, OneQueuedRow, QueuedRows, TurnId
  <2>5. QED
    BY <2>3, <2>4 DEF Books
<1>4. CancelledRowsAreGone /\ SlotIsDebounced /\ QueuedRowHasTask /\ BusyHasItsWorker /\ HeldNoteIsFlushed
  BY DEF Init, CancelledRowsAreGone, SlotIsDebounced, QueuedRowHasTask, EveryQueuedRowHasTask,
         QueuedRows, BusyHasItsWorker, HeldNoteIsFlushed
<1>5. QED
  BY <1>1, <1>2, <1>3, <1>4 DEF IInv

\* What the invariant says of turns, apart from busy flag, notes and types.
TurnsInv ==
  /\ RoundsAreLeft /\ LockHasOneHolder /\ Books /\ StartedTurnsHaveRows
  /\ CancelledRowsAreGone /\ CancelledTurnNeverRuns /\ SlotIsDebounced /\ QueuedRowHasTask

\* A step that moves no task, and marks no message or takes the mark of none,
\* leaves the turns as they are.
LEMMA TurnsUntouched ==
  ASSUME IInv, UNCHANGED <<ticket, slot, queue, row, worker, cancelled, buffered>>,
         Undelivered' = Undelivered, Unmarked' \subseteq Unmarked
  PROVE  TurnsInv'
<1>1. RoundsAreLeft' /\ LockHasOneHolder' /\ StartedTurnsHaveRows' /\ CancelledTurnNeverRuns'
  BY DEF IInv, RoundsAreLeft, LockHasOneHolder, StartedTurnsHaveRows, CancelledTurnNeverRuns, TurnOf
<1>2. Books'
  <2>1. TasksHaveTickets'
    BY DEF IInv, Books, TasksHaveTickets
  <2>2. NewMessagesHaveNone'
    BY DEF IInv, Books, NewMessagesHaveNone
  <2>3. TicketsHaveRows' /\ OneQueuedRow'
    BY DEF IInv, Books, TicketsHaveRows, OneQueuedRow, QueuedRows
  <2>4. QED
    BY <2>1, <2>2, <2>3 DEF Books
<1>3. CancelledRowsAreGone' /\ SlotIsDebounced'
  BY DEF IInv, CancelledRowsAreGone, SlotIsDebounced
<1>4. QueuedRowHasTask'
  BY DEF IInv, QueuedRowHasTask, OneDebounced, EveryQueuedRowHasTask, QueuedRows, HasTask, TurnOf
<1>5. QED
  BY <1>1, <1>2, <1>3, <1>4 DEF TurnsInv

\* The busy flag and the held notes are safe where neither is raised and no worker moves.
LEMMA NoBusierThanBefore ==
  ASSUME IInv, UNCHANGED worker, busy' => busy, held' # {} => held # {}
  PROVE  BusyHasItsWorker' /\ HeldNoteIsFlushed'
BY DEF IInv, BusyHasItsWorker, HeldNoteIsFlushed

\* Steps of a handler before its message is marked, and of a note.
LEMMA EarlyHandlerKeepsInv ==
  ASSUME IInv, NEW m \in Message,
         Save(m) \/ CheckBusy(m) \/ CheckLive(m) \/ ClearStaleBusy(m) \/ Inject(m)
  PROVE  IInv'
<1>1. UNCHANGED <<ticket, timer, slot, queue, row, worker, notes, cancelled, environment>>
  BY DEF Save, CheckBusy, CheckLive, ClearStaleBusy, Inject, Decide, history
<1>2. PICK s \in {"saved", "probe", "queue", "inject", "stale", "returned"} :
        handler' = [handler EXCEPT ![m] = s]
  BY DEF Save, CheckBusy, CheckLive, ClearStaleBusy, Inject, Decide
<1>3. handler[m] \in {"new", "saved", "probe", "stale", "inject"}
  BY DEF Save, CheckBusy, CheckLive, ClearStaleBusy, Inject, Decide
<1>4. TypeOK'
  <2>1. log \subseteq log' /\ log' \subseteq Message /\ heard' = heard
    BY DEF IInv, TypeOK, Save, CheckBusy, CheckLive, ClearStaleBusy, Inject, Decide, history
  <2>2. busy' \in BOOLEAN /\ stop' \in BOOLEAN /\ inject' \in Seq(Message)
    <3>1. (busy' = busy \/ busy' = FALSE) /\ stop' = stop
      BY DEF Save, CheckBusy, CheckLive, ClearStaleBusy, Inject, flags
    <3>2. inject' = inject \/ inject' = Append(inject, m)
      BY DEF Save, CheckBusy, CheckLive, ClearStaleBusy, Inject, flags
    <3>3. busy' \in BOOLEAN /\ stop' \in BOOLEAN
      <4>1. busy \in BOOLEAN /\ stop \in BOOLEAN
        BY DEF IInv, TypeOK
      <4>2. CASE busy' = busy
        BY <3>1, <4>1, <4>2
      <4>3. CASE busy' = FALSE
        BY <3>1, <4>1, <4>3
      <4>4. QED
        BY <3>1, <4>2, <4>3
    <3>4. inject' \in Seq(Message)
      <4>1. inject \in Seq(Message)
        BY DEF IInv, TypeOK
      <4>2. Append(inject, m) \in Seq(Message)
        BY <4>1
      <4>3. QED
        BY <3>2, <4>1, <4>2
    <3>5. QED
      BY <3>3, <3>4
  <2>3. s \in HandlerPlace /\ handler \in [Message -> HandlerPlace]
    BY DEF HandlerPlace, IInv, TypeOK
  <2>4. handler' \in [Message -> HandlerPlace]
    BY <1>2, <2>3
  <2>5. \A w \in Worker : worker'[w].seen \subseteq log'
    BY <1>1, <2>1 DEF IInv, TypeOK
  <2>6. QED
    BY <1>1, <2>1, <2>2, <2>4, <2>5 DEF IInv, TypeOK, notes, environment
<1>5. TurnsInv'
  <2>1. handler'[m] = s /\ \A k \in Message : k # m => handler'[k] = handler[k]
    BY <1>2 DEF IInv, TypeOK
  <2>2. Undelivered' = Undelivered
    BY <1>1, <1>3, <2>1 DEF Undelivered
  <2>3. Unmarked' \subseteq Unmarked
    BY <1>3, <2>1 DEF Unmarked
  <2>4. QED
    BY <1>1, <2>2, <2>3, TurnsUntouched DEF environment
<1>6. BusyHasItsWorker' /\ HeldNoteIsFlushed'
  BY <1>1, NoBusierThanBefore DEF Save, CheckBusy, CheckLive, ClearStaleBusy, Inject, Decide, flags, notes
<1>7. QED
  BY <1>4, <1>5, <1>6 DEF IInv, TurnsInv

\* A note is held only beside a set flag, and so beside the worker that set it.
LEMMA NoteKeepsInv ==
  ASSUME IInv, NEW n \in Note, NoteStep(n)
  PROVE  IInv'
<1>1. UNCHANGED <<ingress, queue, row, flags, worker, history, environment>>
  BY DEF NoteStep, CheckNote, HoldNote, WriteNote
<1>2. TypeOK'
  <2>1. note' \in [Note -> NotePlace] /\ held' \subseteq Note
    BY DEF IInv, TypeOK, NotePlace, NoteStep, CheckNote, HoldNote, WriteNote
  <2>2. QED
    BY <1>1, <2>1 DEF IInv, TypeOK, ingress, flags, history, environment
<1>3. TurnsInv'
  <2>1. Undelivered' = Undelivered /\ Unmarked' = Unmarked
    BY <1>1 DEF Undelivered, Unmarked, ingress
  <2>2. QED
    BY <1>1, <2>1, TurnsUntouched DEF ingress, history, environment
<1>4. BusyHasItsWorker'
  BY <1>1 DEF IInv, BusyHasItsWorker, flags
<1>5. HeldNoteIsFlushed'
  <2>1. CASE HoldNote(n) /\ busy
    BY <1>1, <2>1 DEF IInv, BusyHasItsWorker, HeldNoteIsFlushed
  <2>2. CASE ~(HoldNote(n) /\ busy)
    BY <1>1, <2>2 DEF IInv, HeldNoteIsFlushed, NoteStep, CheckNote, HoldNote, WriteNote
  <2>3. QED
    BY <2>1, <2>2
<1>6. QED
  BY <1>2, <1>3, <1>4, <1>5 DEF IInv, TurnsInv

-----------------------------------------------------------------------------
\* A ticket that was given stays: queueing a turn writes only one that is free.
LEMMA TicketsStay ==
  ASSUME IInv, NEW o \in TurnId, NEW t, ticket[o] = None, ticket' = [ticket EXCEPT ![o] = t]
  PROVE  /\ \A p \in TurnId : ticket[p] # None => ticket'[p] = ticket[p]
         /\ \A w \in Worker : worker[w].pc # "idle" =>
              ticket'[worker[w].task] = ticket[worker[w].task]
<1>1. \A p \in TurnId : ticket[p] # None => ticket'[p] = ticket[p]
  BY DEF IInv, TypeOK
<1>2. QED
  BY <1>1 DEF IInv, Books, TasksHaveTickets

\* queue_turn: whoever joins or queues, one row is queued, and no other row has changed.
LEMMA QueueTurnQueuesOne ==
  ASSUME IInv, NEW o \in TurnId, ticket[o] = None, QueueTurn(o)
  PROVE  \E t \in TurnId :
           /\ ticket' = [ticket EXCEPT ![o] = t]
           /\ row' \in [TurnId -> RowState] /\ QueuedRows' = {t}
           /\ \A s \in TurnId : s # o \/ row[s] # "none" => row'[s] = row[s]
<1>1. row \in [TurnId -> RowState] /\ "queued" \in RowState
  BY DEF IInv, TypeOK, RowState
<1>2. row[o] = "none"
  BY DEF IInv, Books, TicketsHaveRows
<1>3. CASE QueuedRows # {}
  <2>1. PICK t \in QueuedRows : ticket' = [ticket EXCEPT ![o] = t] /\ row' = row
    BY <1>3 DEF QueueTurn
  <2>2. QueuedRows = {t}
    BY <2>1 DEF IInv, Books, OneQueuedRow
  <2>3. t \in TurnId /\ QueuedRows' = {t}
    BY <2>1, <2>2 DEF QueuedRows
  <2>4. QED
    BY <1>1, <2>1, <2>3
<1>4. CASE QueuedRows = {}
  <2>1. ticket' = [ticket EXCEPT ![o] = o] /\ row' = [row EXCEPT ![o] = "queued"]
    BY <1>4 DEF QueueTurn
  <2>2. QueuedRows' = {o}
    BY <1>1, <1>4, <2>1 DEF QueuedRows
  <2>3. QED
    BY <1>1, <1>2, <2>1, <2>2
<1>5. QED
  BY <1>3, <1>4

\* What holds of tickets and rows when a turn is queued for a new owner.
LEMMA QueueTurnKeepsRows ==
  ASSUME IInv, NEW o \in TurnId, NEW t \in TurnId, ticket[o] = None,
         ticket' = [ticket EXCEPT ![o] = t],
         row' \in [TurnId -> RowState], QueuedRows' = {t},
         \A s \in TurnId : s # o \/ row[s] # "none" => row'[s] = row[s],
         cancelled' = cancelled
  PROVE  /\ ticket' \in [TurnId -> TurnId \union {None}]
         /\ TicketsHaveRows' /\ OneQueuedRow' /\ CancelledRowsAreGone'
         /\ \A w \in Worker : worker[w].pc \in InTurn =>
              /\ ticket'[worker[w].task] \notin cancelled
              /\ row'[ticket'[worker[w].task]] \in {"running", "gone"}
<1>1. ticket \in [TurnId -> TurnId \union {None}] /\ None \notin TurnId
  BY PipelineAssumption DEF IInv, TypeOK, TurnId
<1>2. \A s \in TurnId : row[s] # "none" => ticket[s] # None
  BY DEF IInv, Books, TicketsHaveRows
<1>3. \A s \in TurnId : ticket[s] # None => row[ticket[s]] # "none" /\ ticket[s] \in TurnId
  BY <1>1 DEF IInv, Books, TicketsHaveRows
<1>4. row'[t] = "queued" /\ \A s \in TurnId : row'[s] = "queued" => s = t
  BY DEF QueuedRows
<1>5. TicketsHaveRows'
  <2> SUFFICES ASSUME NEW s \in TurnId
               PROVE  /\ row'[s] # "none" => ticket'[s] # None
                      /\ ticket'[s] # None => row'[ticket'[s]] # "none"
    BY DEF TicketsHaveRows
  <2>1. CASE s = o
    BY <1>1, <1>4, <2>1
  <2>2. CASE s # o
    BY <1>1, <1>2, <1>3, <2>2
  <2>3. QED
    BY <2>1, <2>2
<1>6. OneQueuedRow'
  BY DEF OneQueuedRow
<1>7. CancelledRowsAreGone'
  BY DEF IInv, TypeOK, CancelledRowsAreGone
<1>8. ASSUME NEW w \in Worker, worker[w].pc \in InTurn
      PROVE  /\ ticket'[worker[w].task] \notin cancelled
             /\ row'[ticket'[worker[w].task]] \in {"running", "gone"}
  <2>1. worker[w].pc # "idle"
    BY <1>8 DEF InTurn
  <2>2. ticket'[worker[w].task] = ticket[worker[w].task]
    BY <2>1, TicketsStay
  <2>3. ticket[worker[w].task] \in TurnId
    BY <1>1, <2>1 DEF IInv, Books, TasksHaveTickets
  <2>4. QED
    BY <1>8, <2>2, <2>3 DEF IInv, StartedTurnsHaveRows, CancelledTurnNeverRuns, TurnOf
<1>9. QED
  BY <1>1, <1>5, <1>6, <1>7, <1>8

\* A marked message has the task of the one queued row.
LEMMA MarkQueuedKeepsInv ==
  ASSUME IInv, NEW m \in Message, MarkQueued(m)
  PROVE  IInv'
<1>1. m \in TurnId /\ ticket[m] = None
  BY DEF MarkQueued, IInv, Books, NewMessagesHaveNone, Unmarked, TurnId
<1>2. PICK t \in TurnId :
        /\ ticket' = [ticket EXCEPT ![m] = t]
        /\ row' \in [TurnId -> RowState] /\ QueuedRows' = {t}
        /\ \A s \in TurnId : s # m \/ row[s] # "none" => row'[s] = row[s]
  BY <1>1, QueueTurnQueuesOne DEF MarkQueued
<1>3. /\ handler' = [handler EXCEPT ![m] = "marked"] /\ stop' = FALSE
      /\ UNCHANGED <<log, timer, slot, queue, busy, inject, worker, notes, history, environment>>
  BY DEF MarkQueued
<1>4. handler \in [Message -> HandlerPlace] /\ handler' \in [Message -> HandlerPlace]
  BY <1>3 DEF IInv, TypeOK, HandlerPlace
<1>5. /\ ticket' \in [TurnId -> TurnId \union {None}]
      /\ TicketsHaveRows' /\ OneQueuedRow' /\ CancelledRowsAreGone'
      /\ \A w \in Worker : worker[w].pc \in InTurn =>
           /\ ticket'[worker[w].task] \notin cancelled
           /\ row'[ticket'[worker[w].task]] \in {"running", "gone"}
  BY <1>1, <1>2, <1>3, QueueTurnKeepsRows DEF history
<1>6. TypeOK'
  BY <1>2, <1>3, <1>4, <1>5 DEF IInv, TypeOK, notes, history, environment
<1>7. ticket'[m] = t /\ t # None
  BY <1>1, <1>2, PipelineAssumption DEF IInv, TypeOK, TurnId
<1>8. TasksHaveTickets'
  <2>1. \A i \in DOMAIN queue' : ticket'[queue'[i]] # None
    <3>1. queue' = queue /\ \A i \in DOMAIN queue : queue[i] \in TurnId /\ ticket[queue[i]] # None
      BY <1>3 DEF IInv, TypeOK, Books, TasksHaveTickets
    <3>2. QED
      BY <1>1, <1>2, <3>1, TicketsStay
  <2>2. \A w \in Worker : worker'[w].pc # "idle" =>
          worker'[w].task \in TurnId /\ ticket'[worker'[w].task] # None
    BY <1>1, <1>2, <1>3, TicketsStay DEF IInv, Books, TasksHaveTickets
  <2>3. \A k \in Undelivered' : ticket'[k] # None
    <3>1. \A k \in Undelivered' : k \in Undelivered \/ k = m
      BY <1>3, <1>4 DEF Undelivered
    <3>2. \A k \in Undelivered : ticket[k] # None /\ k \in TurnId
      BY DEF IInv, Books, TasksHaveTickets, Undelivered, TurnId
    <3>3. QED
      BY <1>1, <1>2, <1>7, <3>1, <3>2, TicketsStay
  <2>4. QED
    BY <2>1, <2>2, <2>3 DEF TasksHaveTickets
<1>9. NewMessagesHaveNone'
  <2>1. \A k \in Unmarked' : k \in Unmarked /\ k # m
    BY <1>3, <1>4 DEF Unmarked
  <2>2. \A k \in Unmarked : k # m => ticket'[k] = ticket[k]
    BY <1>2 DEF IInv, TypeOK, TurnId, Unmarked
  <2>3. QED
    BY <2>1, <2>2 DEF IInv, Books, NewMessagesHaveNone
<1>10. RoundsAreLeft' /\ LockHasOneHolder' /\ StartedTurnsHaveRows' /\ CancelledTurnNeverRuns'
  BY <1>3, <1>5 DEF IInv, RoundsAreLeft, LockHasOneHolder, StartedTurnsHaveRows,
                    CancelledTurnNeverRuns, TurnOf, history
<1>11. QueuedRowHasTask'
  <2>1. handler'[m] = "marked"
    BY <1>3, <1>4
  <2>2. HasTask(t)'
    BY <1>7, <2>1 DEF HasTask, Undelivered
  <2>3. QED
    BY <1>2, <2>2 DEF QueuedRowHasTask, EveryQueuedRowHasTask
<1>12. SlotIsDebounced' /\ BusyHasItsWorker' /\ HeldNoteIsFlushed'
  BY <1>3, NoBusierThanBefore DEF IInv, SlotIsDebounced, environment, notes
<1>13. QED
  BY <1>5, <1>6, <1>8, <1>9, <1>10, <1>11, <1>12 DEF IInv, Books

-----------------------------------------------------------------------------
\* A task that is put into the queue by its handler or its timer is still there.
LEMMA PutKeepsInv ==
  ASSUME IInv, NEW m \in Message, PutTask(m) \/ EnqueueBuffered(m)
  PROVE  IInv'
<1>1. /\ queue' = Append(queue, m) /\ (slot' = slot \/ slot' = None)
      /\ UNCHANGED <<log, ticket, row, flags, worker, notes, history, environment>>
  BY DEF PutTask, EnqueueBuffered
<1>2. /\ handler \in [Message -> HandlerPlace] /\ timer \in [Message -> TimerState]
      /\ queue \in Seq(TurnId) /\ m \in TurnId
  BY DEF IInv, TypeOK, TurnId
<1>3. /\ handler' \in [Message -> HandlerPlace] /\ timer' \in [Message -> TimerState]
      /\ m \in Undelivered /\ Undelivered' \subseteq Undelivered
      /\ Undelivered \subseteq Undelivered' \union {m} /\ Unmarked' = Unmarked
  <2>1. CASE PutTask(m)
    <3>1. handler[m] = "marked" /\ handler' = [handler EXCEPT ![m] = "waiting"] /\ timer' = timer
      BY <2>1 DEF PutTask
    <3>2. QED
      BY <1>2, <3>1 DEF Undelivered, Unmarked, HandlerPlace
  <2>2. CASE EnqueueBuffered(m)
    <3>1. timer[m] = "firing" /\ timer' = [timer EXCEPT ![m] = "done"] /\ handler' = handler
      BY <2>2 DEF EnqueueBuffered
    <3>2. QED
      BY <1>2, <3>1 DEF Undelivered, Unmarked, TimerState
  <2>3. QED
    BY <2>1, <2>2
<1>4. ticket[m] # None
  BY <1>3 DEF IInv, Books, TasksHaveTickets
<1>5. /\ queue' \in Seq(TurnId) /\ DOMAIN queue \subseteq DOMAIN queue'
      /\ Len(queue) + 1 \in DOMAIN queue' /\ queue'[Len(queue) + 1] = m
      /\ \A i \in DOMAIN queue' : queue'[i] = m \/ i \in DOMAIN queue
      /\ \A i \in DOMAIN queue : queue'[i] = queue[i]
  BY <1>1, <1>2
<1>6. TypeOK'
  <2>1. slot' \in Message \union {None}
    BY <1>1 DEF IInv, TypeOK
  <2>2. QED
    BY <1>1, <1>3, <1>5, <2>1 DEF IInv, TypeOK, flags, notes, history, environment
<1>7. TasksHaveTickets'
  <2>1. \A i \in DOMAIN queue' : ticket'[queue'[i]] # None
    BY <1>1, <1>4, <1>5 DEF IInv, Books, TasksHaveTickets
  <2>2. QED
    BY <1>1, <1>3, <2>1 DEF IInv, Books, TasksHaveTickets
<1>8. NewMessagesHaveNone' /\ TicketsHaveRows' /\ OneQueuedRow'
  BY <1>1, <1>3 DEF IInv, Books, NewMessagesHaveNone, TicketsHaveRows, OneQueuedRow, QueuedRows
<1>9. RoundsAreLeft' /\ LockHasOneHolder' /\ StartedTurnsHaveRows' /\ CancelledTurnNeverRuns'
  BY <1>1 DEF IInv, RoundsAreLeft, LockHasOneHolder, StartedTurnsHaveRows, CancelledTurnNeverRuns,
              TurnOf, history
<1>10. QueuedRowHasTask'
  <2> SUFFICES ASSUME NEW t, HasTask(t) PROVE HasTask(t)'
    BY <1>1 DEF IInv, QueuedRowHasTask, OneDebounced, EveryQueuedRowHasTask, QueuedRows, environment
  <2>1. CASE \E i \in DOMAIN queue : ticket[queue[i]] = t
    BY <1>1, <1>5, <2>1 DEF HasTask
  <2>2. CASE \E w \in Worker : worker[w].pc \in {"taken", "locked"} /\ TurnOf(w) = t
    BY <1>1, <2>2 DEF HasTask, TurnOf
  <2>3. CASE \E k \in Undelivered : ticket[k] = t
    <3>1. PICK k \in Undelivered : ticket[k] = t
      BY <2>3
    <3>2. CASE k = m
      BY <1>1, <1>5, <3>1, <3>2 DEF HasTask
    <3>3. CASE k # m
      BY <1>1, <1>3, <3>1, <3>3 DEF HasTask
    <3>4. QED
      BY <3>2, <3>3
  <2>4. QED
    BY <2>1, <2>2, <2>3 DEF HasTask
<1>11. CancelledRowsAreGone' /\ SlotIsDebounced' /\ BusyHasItsWorker' /\ HeldNoteIsFlushed'
  BY <1>1, NoBusierThanBefore DEF IInv, CancelledRowsAreGone, SlotIsDebounced, flags, notes, history,
                                  environment
<1>12. QED
  BY <1>6, <1>7, <1>8, <1>9, <1>10, <1>11 DEF IInv, Books

\* A step of a timer, or of whoever cancels it, that takes the task of no queued row.
LEMMA TimerMoves ==
  ASSUME IInv,
         UNCHANGED <<log, ticket, queue, row, flags, worker, notes, history, environment>>,
         handler' \in [Message -> HandlerPlace], timer' \in [Message -> TimerState],
         slot' \in (Message \intersect buffered) \union {slot, None},
         Unmarked' \subseteq Unmarked, Undelivered' \subseteq Undelivered,
         OneDebounced => Undelivered' = Undelivered
  PROVE  IInv'
<1>1. TypeOK'
  <2>1. slot' \in Message \union {None}
    BY DEF IInv, TypeOK
  <2>2. QED
    BY <2>1 DEF IInv, TypeOK, flags, notes, history, environment
<1>2. Books'
  BY DEF IInv, Books, TasksHaveTickets, NewMessagesHaveNone, TicketsHaveRows, OneQueuedRow, QueuedRows
<1>3. RoundsAreLeft' /\ LockHasOneHolder' /\ StartedTurnsHaveRows' /\ CancelledTurnNeverRuns'
  BY DEF IInv, RoundsAreLeft, LockHasOneHolder, StartedTurnsHaveRows, CancelledTurnNeverRuns, TurnOf,
         history
<1>4. QueuedRowHasTask'
  BY DEF IInv, QueuedRowHasTask, OneDebounced, EveryQueuedRowHasTask, QueuedRows, HasTask, TurnOf,
         environment
<1>5. CancelledRowsAreGone' /\ SlotIsDebounced' /\ BusyHasItsWorker' /\ HeldNoteIsFlushed'
  BY NoBusierThanBefore DEF IInv, CancelledRowsAreGone, SlotIsDebounced, flags, notes, history, environment
<1>6. QED
  BY <1>1, <1>2, <1>3, <1>4, <1>5 DEF IInv

\* The timer that a new one cancels is that of the same message, if only one is debounced.
LEMMA StoreTimerKeepsInv ==
  ASSUME IInv, NEW m \in Message, StoreTimer(m)
  PROVE  IInv'
<1>1. /\ handler \in [Message -> HandlerPlace] /\ timer \in [Message -> TimerState]
      /\ handler[m] = "marked" /\ m \in buffered /\ slot' = m
      /\ UNCHANGED <<log, ticket, queue, row, flags, worker, notes, history, environment>>
  BY DEF StoreTimer, IInv, TypeOK
<1>2. /\ handler' = [handler EXCEPT ![m] = "stored"]
      /\ timer' = [CancelSlot(timer) EXCEPT ![m] = "stored"]
  BY DEF StoreTimer
<1>3. handler' \in [Message -> HandlerPlace] /\ timer' \in [Message -> TimerState]
  BY <1>1, <1>2 DEF CancelSlot, HandlerPlace, TimerState
<1>4. handler'[m] = "stored" /\ timer'[m] = "stored"
  BY <1>1, <1>2 DEF CancelSlot
<1>5. \A k \in Message : k # m =>
        /\ timer'[k] = IF k = slot /\ timer[k] \in {"stored", "armed"} THEN "cancelled" ELSE timer[k]
        /\ handler'[k] = handler[k]
  BY <1>1, <1>2 DEF CancelSlot
<1>6. OneDebounced => \A k \in Message : k # m => k # slot
  BY <1>1, PipelineAssumption DEF IInv, SlotIsDebounced, OneDebounced
<1>7. Unmarked' \subseteq Unmarked
  BY <1>4, <1>5 DEF Unmarked
<1>8. m \in Undelivered /\ m \in Undelivered'
  BY <1>1, <1>4 DEF Undelivered
<1>9. ASSUME NEW k \in Message, k # m
      PROVE  /\ k \in Undelivered' => k \in Undelivered
             /\ OneDebounced => (k \in Undelivered' <=> k \in Undelivered)
  BY <1>5, <1>6, <1>9 DEF Undelivered
<1>10. Undelivered' \subseteq Undelivered /\ (OneDebounced => Undelivered' = Undelivered)
  <2>1. Undelivered \subseteq Message /\ Undelivered' \subseteq Message
    BY DEF Undelivered
  <2>2. QED
    BY <1>8, <1>9, <2>1
<1>11. slot' \in (Message \intersect buffered) \union {slot, None}
  BY <1>1
<1>12. QED
  BY <1>1, <1>3, <1>7, <1>10, <1>11, TimerMoves

\* A timer that starts or fires keeps its task; the sweep of the slot takes none.
LEMMA TimerStepKeepsInv ==
  ASSUME IInv, StaleTimerCleanup \/ \E m \in Message : StartTimer(m) \/ TimerFires(m)
  PROVE  IInv'
<1>1. handler \in [Message -> HandlerPlace] /\ timer \in [Message -> TimerState]
  BY DEF IInv, TypeOK
<1>2. CASE StaleTimerCleanup
  <2>1. Undelivered' = Undelivered /\ Unmarked' = Unmarked
    BY <1>2 DEF StaleTimerCleanup, Undelivered, Unmarked
  <2>2. QED
    BY <1>1, <1>2, <2>1, TimerMoves DEF StaleTimerCleanup
<1>3. ASSUME NEW m \in Message, StartTimer(m) PROVE IInv'
  <2>1. /\ handler[m] = "stored" /\ handler' = [handler EXCEPT ![m] = "returned"] /\ slot' = slot
        /\ timer' = [timer EXCEPT ![m] = IF @ = "stored" THEN "armed" ELSE @]
        /\ UNCHANGED <<log, ticket, queue, row, flags, worker, notes, history, environment>>
    BY <1>3 DEF StartTimer
  <2>2. handler' \in [Message -> HandlerPlace] /\ timer' \in [Message -> TimerState]
    BY <1>1, <2>1 DEF HandlerPlace, TimerState
  <2>3. Undelivered' = Undelivered /\ Unmarked' = Unmarked
    BY <1>1, <2>1 DEF Undelivered, Unmarked
  <2>4. QED
    BY <2>1, <2>2, <2>3, TimerMoves
<1>4. ASSUME NEW m \in Message, TimerFires(m) PROVE IInv'
  <2>1. /\ timer[m] = "armed" /\ timer' = [timer EXCEPT ![m] = "firing"]
        /\ UNCHANGED <<handler, slot>>
        /\ UNCHANGED <<log, ticket, queue, row, flags, worker, notes, history, environment>>
    BY <1>4 DEF TimerFires
  <2>2. timer' \in [Message -> TimerState]
    BY <1>1, <2>1 DEF TimerState
  <2>3. Undelivered' = Undelivered /\ Unmarked' = Unmarked
    BY <1>1, <2>1 DEF Undelivered, Unmarked
  <2>4. QED
    BY <1>1, <2>1, <2>2, <2>3, TimerMoves
<1>5. QED
  BY <1>2, <1>3, <1>4

\* A stop cancels what is queued, and nothing that is queued is started.
LEMMA RequestStopKeepsInv ==
  ASSUME IInv, RequestStop
  PROVE  IInv'
<1>1. /\ stops < MaxStops /\ stops' = stops + 1 /\ stop' = TRUE
      /\ timer' = CancelSlot(timer) /\ slot' = None
      /\ row' = [t \in TurnId |-> IF t \in QueuedRows THEN "gone" ELSE row[t]]
      /\ cancelled' = cancelled \union QueuedRows
      /\ UNCHANGED <<handler, log, ticket, queue, busy, inject, worker, notes, heard, buffered, reaps>>
  BY DEF RequestStop
<1>2. row \in [TurnId -> RowState] /\ row' \in [TurnId -> RowState]
  BY <1>1 DEF IInv, TypeOK, RowState
<1>3. timer' \in [Message -> TimerState] /\ stops' \in 0..MaxStops
  <2>1. timer' \in [Message -> TimerState]
    BY <1>1 DEF IInv, TypeOK, CancelSlot, TimerState
  <2>2. stops' \in 0..MaxStops
    BY <1>1, PipelineAssumption DEF IInv, TypeOK
  <2>3. QED
    BY <2>1, <2>2
<1>4. TypeOK'
  BY <1>1, <1>2, <1>3 DEF IInv, TypeOK, QueuedRows, notes
<1>5. QueuedRows' = {} /\ \A t \in TurnId : row[t] # "none" <=> row'[t] # "none"
  BY <1>1, <1>2 DEF QueuedRows
<1>6. Undelivered' \subseteq Undelivered /\ Unmarked' = Unmarked
  BY <1>1 DEF Undelivered, Unmarked, CancelSlot
<1>7. TasksHaveTickets' /\ NewMessagesHaveNone'
  BY <1>1, <1>6 DEF IInv, Books, TasksHaveTickets, NewMessagesHaveNone
<1>8. TicketsHaveRows' /\ OneQueuedRow'
  <2>1. \A t \in TurnId : ticket[t] # None => ticket[t] \in TurnId
    BY DEF IInv, TypeOK
  <2>2. QED
    BY <1>1, <1>5, <2>1 DEF IInv, Books, TicketsHaveRows, OneQueuedRow
<1>9. ASSUME NEW w \in Worker, worker[w].pc \in InTurn
      PROVE  TurnOf(w) \notin QueuedRows /\ row'[TurnOf(w)] \in {"running", "gone"}
  <2>1. TurnOf(w) \in TurnId
    BY <1>9 DEF IInv, TypeOK, Books, TasksHaveTickets, TurnOf, InTurn
  <2>2. QED
    BY <1>1, <1>9, <2>1 DEF IInv, StartedTurnsHaveRows, QueuedRows
<1>10. StartedTurnsHaveRows' /\ CancelledTurnNeverRuns'
  BY <1>1, <1>9 DEF IInv, StartedTurnsHaveRows, CancelledTurnNeverRuns, TurnOf
<1>11. CancelledRowsAreGone'
  BY <1>1 DEF IInv, TypeOK, CancelledRowsAreGone, QueuedRows
<1>12. RoundsAreLeft' /\ LockHasOneHolder' /\ QueuedRowHasTask' /\ SlotIsDebounced'
  BY <1>1, <1>5 DEF IInv, RoundsAreLeft, LockHasOneHolder, QueuedRowHasTask, EveryQueuedRowHasTask,
                    SlotIsDebounced
<1>13. BusyHasItsWorker' /\ HeldNoteIsFlushed'
  BY <1>1, NoBusierThanBefore DEF notes
<1>14. QED
  BY <1>4, <1>7, <1>8, <1>10, <1>11, <1>12, <1>13 DEF IInv, Books

\* A reaped turn was running: it is not queued, before or after.
LEMMA ReapKeepsInv ==
  ASSUME IInv, ReapStaleTurn
  PROVE  IInv'
<1>1. /\ reaps < MaxReaps /\ reaps' = reaps + 1
      /\ UNCHANGED <<handler, log, ticket, timer, slot, queue, flags, worker, notes, history, buffered, stops>>
  BY DEF ReapStaleTurn, ingress
<1>2. PICK r \in TurnId : row[r] = "running" /\ row' = [row EXCEPT ![r] = "gone"]
  BY DEF ReapStaleTurn
<1>3. row \in [TurnId -> RowState] /\ row' \in [TurnId -> RowState]
  BY <1>2 DEF IInv, TypeOK, RowState
<1>4. TypeOK'
  <2>1. reaps' \in 0..MaxReaps
    BY <1>1, PipelineAssumption DEF IInv, TypeOK
  <2>2. QED
    BY <1>1, <1>3, <2>1 DEF IInv, TypeOK, flags, notes, history
<1>5. QueuedRows' = QueuedRows
  BY <1>2, <1>3 DEF QueuedRows
<1>6. \A t \in TurnId : /\ row[t] # "none" <=> row'[t] # "none"
                        /\ row[t] \in {"running", "gone"} => row'[t] \in {"running", "gone"}
                        /\ row[t] = "gone" => row'[t] = "gone"
  BY <1>2, <1>3
<1>7. Undelivered' = Undelivered /\ Unmarked' = Unmarked
  BY <1>1 DEF Undelivered, Unmarked
<1>8. \A t \in TurnId : ticket[t] # None => ticket[t] \in TurnId
  BY DEF IInv, TypeOK
<1>9. Books'
  BY <1>1, <1>5, <1>6, <1>7, <1>8 DEF IInv, Books, TasksHaveTickets, NewMessagesHaveNone,
                                    TicketsHaveRows, OneQueuedRow
<1>10. StartedTurnsHaveRows'
  <2>1. \A w \in Worker : worker[w].pc \in InTurn => TurnOf(w) \in TurnId
    BY <1>8 DEF IInv, Books, TasksHaveTickets, TurnOf, InTurn
  <2>2. QED
    BY <1>1, <1>6, <2>1 DEF IInv, StartedTurnsHaveRows, TurnOf
<1>11. CancelledRowsAreGone' /\ CancelledTurnNeverRuns'
  BY <1>1, <1>6 DEF IInv, TypeOK, CancelledRowsAreGone, CancelledTurnNeverRuns, TurnOf, history
<1>12. RoundsAreLeft' /\ LockHasOneHolder' /\ SlotIsDebounced'
  BY <1>1 DEF IInv, RoundsAreLeft, LockHasOneHolder, SlotIsDebounced
<1>13. QueuedRowHasTask'
  BY <1>1, <1>5, <1>7 DEF IInv, QueuedRowHasTask, OneDebounced, EveryQueuedRowHasTask, HasTask, TurnOf
<1>14. BusyHasItsWorker' /\ HeldNoteIsFlushed'
  BY <1>1, NoBusierThanBefore DEF flags, notes
<1>15. QED
  BY <1>4, <1>9, <1>10, <1>11, <1>12, <1>13, <1>14 DEF IInv

-----------------------------------------------------------------------------
\* The head of the queue goes to the worker with its ticket; the others move up.
LEMMA TakeKeepsInv ==
  ASSUME IInv, NEW w \in Worker, Take(w)
  PROVE  IInv'
<1>1. /\ worker[w].pc = "idle" /\ queue # <<>> /\ queue' = Tail(queue)
      /\ worker' = [worker EXCEPT ![w] = [IdleWorker EXCEPT !.pc = "taken", !.task = Head(queue)]]
      /\ UNCHANGED <<handler, log, ticket, timer, slot, row, flags, notes, history, environment>>
  BY DEF Take, At, ingress
<1>2. queue \in Seq(TurnId) /\ worker \in [Worker -> WorkerState]
  BY DEF IInv, TypeOK
<1>3. /\ queue' \in Seq(TurnId) /\ Head(queue) \in TurnId /\ 1 \in DOMAIN queue /\ Head(queue) = queue[1]
      /\ \A i \in DOMAIN queue' : i + 1 \in DOMAIN queue /\ queue'[i] = queue[i + 1]
      /\ \A i \in DOMAIN queue : i = 1 \/ (i - 1 \in DOMAIN queue' /\ queue'[i - 1] = queue[i])
  BY <1>1, <1>2
<1>4. /\ worker'[w].pc = "taken" /\ worker'[w].task = Head(queue) /\ worker'[w].rounds = 0
      /\ worker'[w].seen = {} /\ worker'[w] \in WorkerState
      /\ \A v \in Worker : v # w => worker'[v] = worker[v]
  <2>1. worker'[w] = [pc |-> "taken", task |-> Head(queue), seen |-> {}, rounds |-> 0]
    BY <1>1, <1>2 DEF IdleWorker
  <2>2. worker'[w] \in WorkerState
    BY <1>3, <2>1, PipelineAssumption DEF WorkerState
  <2>3. QED
    BY <1>1, <1>2, <2>1, <2>2
<1>5. TypeOK'
  <2>1. worker' \in [Worker -> WorkerState]
    BY <1>1, <1>2, <1>4
  <2>2. \A v \in Worker : worker'[v].seen \subseteq log'
    BY <1>1, <1>4 DEF IInv, TypeOK
  <2>3. QED
    BY <1>1, <1>3, <2>1, <2>2 DEF IInv, TypeOK, flags, notes, history, environment
<1>6. ticket[Head(queue)] # None
  BY <1>3 DEF IInv, Books, TasksHaveTickets
<1>7. Undelivered' = Undelivered /\ Unmarked' = Unmarked /\ QueuedRows' = QueuedRows
  BY <1>1 DEF Undelivered, Unmarked, QueuedRows
<1>8. Books'
  <2>1. \A i \in DOMAIN queue' : ticket'[queue'[i]] # None
    BY <1>1, <1>3 DEF IInv, Books, TasksHaveTickets
  <2>2. \A v \in Worker : worker'[v].pc # "idle" =>
          worker'[v].task \in TurnId /\ ticket'[worker'[v].task] # None
    BY <1>1, <1>3, <1>4, <1>6 DEF IInv, Books, TasksHaveTickets
  <2>3. TasksHaveTickets'
    BY <1>1, <1>7, <2>1, <2>2 DEF IInv, Books, TasksHaveTickets
  <2>4. NewMessagesHaveNone' /\ TicketsHaveRows' /\ OneQueuedRow'
    BY <1>1, <1>7 DEF IInv, Books, NewMessagesHaveNone, TicketsHaveRows, OneQueuedRow
  <2>5. QED
    BY <2>3, <2>4 DEF Books
<1>9. RoundsAreLeft' /\ LockHasOneHolder' /\ StartedTurnsHaveRows' /\ CancelledTurnNeverRuns'
  BY <1>1, <1>4 DEF IInv, RoundsAreLeft, LockHasOneHolder, StartedTurnsHaveRows,
                    CancelledTurnNeverRuns, TurnOf, InTurn, WantsLock, history
<1>10. QueuedRowHasTask'
  <2> SUFFICES ASSUME NEW t, HasTask(t) PROVE HasTask(t)'
    BY <1>1, <1>7 DEF IInv, QueuedRowHasTask, OneDebounced, EveryQueuedRowHasTask, environment
  <2>1. CASE \E i \in DOMAIN queue : ticket[queue[i]] = t
    <3>1. PICK i \in DOMAIN queue : ticket[queue[i]] = t
      BY <2>1
    <3>2. CASE i = 1
      BY <1>1, <1>3, <1>4, <3>1, <3>2 DEF HasTask, TurnOf
    <3>3. CASE i # 1
      BY <1>1, <1>3, <3>1, <3>3 DEF HasTask
    <3>4. QED
      BY <3>2, <3>3
  <2>2. CASE \E v \in Worker : worker[v].pc \in {"taken", "locked"} /\ TurnOf(v) = t
    <3>1. PICK v \in Worker : worker[v].pc \in {"taken", "locked"} /\ TurnOf(v) = t
      BY <2>2
    <3>2. worker'[v] = worker[v]
      BY <1>1, <1>4, <3>1
    <3>3. QED
      BY <1>1, <3>1, <3>2 DEF HasTask, TurnOf
  <2>3. CASE \E k \in Undelivered : ticket[k] = t
    BY <1>1, <1>7, <2>3 DEF HasTask
  <2>4. QED
    BY <2>1, <2>2, <2>3 DEF HasTask
<1>11. CancelledRowsAreGone' /\ SlotIsDebounced'
  BY <1>1 DEF IInv, CancelledRowsAreGone, SlotIsDebounced, history, environment
<1>12. BusyHasItsWorker' /\ HeldNoteIsFlushed'
  <2>1. \A v \in Worker : worker[v].pc \in MarkedBusy \union {"unbusied"} => worker'[v] = worker[v]
    BY <1>1, <1>4 DEF MarkedBusy
  <2>2. QED
    BY <1>1, <2>1 DEF IInv, BusyHasItsWorker, HeldNoteIsFlushed, flags, notes
<1>13. QED
  BY <1>5, <1>8, <1>9, <1>10, <1>11, <1>12 DEF IInv

\* The lock is free: nobody else is past it.
LEMMA LockSessionKeepsInv ==
  ASSUME IInv, NEW w \in Worker, LockSession(w)
  PROVE  IInv'
<1>1. /\ worker[w].pc = "taken" /\ \A v \in Worker : worker[v].pc \in WantsLock
      /\ worker' = [worker EXCEPT ![w].pc = "locked"]
      /\ UNCHANGED <<handler, log, ticket, timer, slot, queue, row, flags, notes, history, environment>>
  BY DEF LockSession, At, Go, ingress
<1>2. /\ worker' \in [Worker -> WorkerState] /\ worker'[w].pc = "locked"
      /\ \A v \in Worker : /\ worker'[v].task = worker[v].task /\ worker'[v].seen = worker[v].seen
                           /\ worker'[v].rounds = worker[v].rounds
                           /\ v # w => worker'[v] = worker[v]
  BY <1>1 DEF IInv, TypeOK, WorkerState
<1>3. TypeOK'
  BY <1>1, <1>2 DEF IInv, TypeOK, flags, notes, history, environment
<1>4. Undelivered' = Undelivered /\ Unmarked' = Unmarked /\ QueuedRows' = QueuedRows
  BY <1>1 DEF Undelivered, Unmarked, QueuedRows
<1>5. Books'
  <2>1. \A v \in Worker : worker'[v].pc # "idle" => worker[v].pc # "idle"
    BY <1>1, <1>2
  <2>2. \A i \in DOMAIN queue' : ticket'[queue'[i]] # None
    BY <1>1 DEF IInv, Books, TasksHaveTickets
  <2>3. TasksHaveTickets'
    BY <1>1, <1>2, <1>4, <2>1, <2>2 DEF IInv, Books, TasksHaveTickets
  <2>4. NewMessagesHaveNone' /\ TicketsHaveRows' /\ OneQueuedRow'
    BY <1>1, <1>4 DEF IInv, Books, NewMessagesHaveNone, TicketsHaveRows, OneQueuedRow
  <2>5. QED
    BY <2>3, <2>4 DEF Books
<1>6. RoundsAreLeft' /\ LockHasOneHolder'
  BY <1>1, <1>2 DEF IInv, RoundsAreLeft, LockHasOneHolder
<1>7. StartedTurnsHaveRows' /\ CancelledTurnNeverRuns'
  BY <1>1, <1>2 DEF IInv, StartedTurnsHaveRows, CancelledTurnNeverRuns, TurnOf, InTurn, history
<1>8. QueuedRowHasTask'
  <2> SUFFICES ASSUME NEW t, HasTask(t) PROVE HasTask(t)'
    BY <1>1, <1>4 DEF IInv, QueuedRowHasTask, OneDebounced, EveryQueuedRowHasTask, environment
  <2>1. \A v \in Worker : worker[v].pc \in {"taken", "locked"} => worker'[v].pc \in {"taken", "locked"}
    BY <1>2
  <2>2. QED
    BY <1>1, <1>2, <1>4, <2>1 DEF HasTask, TurnOf
<1>9. CancelledRowsAreGone' /\ SlotIsDebounced'
  BY <1>1 DEF IInv, CancelledRowsAreGone, SlotIsDebounced, history, environment
<1>10. BusyHasItsWorker' /\ HeldNoteIsFlushed'
  <2>1. \A v \in Worker : worker[v].pc \in MarkedBusy \union {"unbusied"} => worker'[v] = worker[v]
    BY <1>1, <1>2 DEF MarkedBusy
  <2>2. QED
    BY <1>1, <2>1 DEF IInv, BusyHasItsWorker, HeldNoteIsFlushed, flags, notes
<1>11. QED
  BY <1>3, <1>5, <1>6, <1>7, <1>8, <1>9, <1>10 DEF IInv

\* A move of a worker that has the lock and keeps its task leaves the turns alone,
\* if it does not enter the turn by it.
LEMMA MoveKeepsTurns ==
  ASSUME IInv, NEW w \in Worker,
         UNCHANGED <<handler, ticket, timer, slot, queue, row, cancelled, buffered>>,
         \A v \in Worker : v # w => worker'[v] = worker[v],
         worker[w].pc \in InTurn \union {"finished"}, worker'[w].task = worker[w].task,
         worker'[w].pc \in (InTurn \ {"started"}) \union {"finished", "orphans"},
         worker'[w].pc \in InTurn => worker[w].pc \in InTurn,
         worker'[w].pc = "building" => worker'[w].rounds = 0,
         worker'[w].pc = "draining" => worker'[w].rounds < MaxRounds
  PROVE  TurnsInv'
<1>1. Undelivered' = Undelivered /\ Unmarked' = Unmarked /\ QueuedRows' = QueuedRows
  BY DEF Undelivered, Unmarked, QueuedRows
<1>2. worker[w].pc # "idle" /\ worker[w].pc \notin WantsLock /\ worker[w].pc \notin {"taken", "locked"}
  BY DEF InTurn, WantsLock
<1>3. RoundsAreLeft'
  BY DEF IInv, RoundsAreLeft, InTurn
<1>4. LockHasOneHolder'
  BY <1>2 DEF IInv, LockHasOneHolder
<1>5. Books'
  <2>1. \A i \in DOMAIN queue' : ticket'[queue'[i]] # None
    BY DEF IInv, Books, TasksHaveTickets
  <2>2. TasksHaveTickets'
    BY <1>1, <1>2, <2>1 DEF IInv, Books, TasksHaveTickets
  <2>3. NewMessagesHaveNone' /\ TicketsHaveRows' /\ OneQueuedRow'
    BY <1>1 DEF IInv, Books, NewMessagesHaveNone, TicketsHaveRows, OneQueuedRow
  <2>4. QED
    BY <2>2, <2>3 DEF Books
<1>6. StartedTurnsHaveRows' /\ CancelledTurnNeverRuns'
  BY DEF IInv, StartedTurnsHaveRows, CancelledTurnNeverRuns, TurnOf
<1>7. QueuedRowHasTask'
  <2> SUFFICES ASSUME NEW t, HasTask(t) PROVE HasTask(t)'
    BY <1>1 DEF IInv, QueuedRowHasTask, OneDebounced, EveryQueuedRowHasTask
  <2>1. \A v \in Worker : worker[v].pc \in {"taken", "locked"} => worker'[v] = worker[v]
    BY <1>2
  <2>2. QED
    BY <1>1, <2>1 DEF HasTask, TurnOf
<1>8. CancelledRowsAreGone' /\ SlotIsDebounced'
  BY DEF IInv, CancelledRowsAreGone, SlotIsDebounced
<1>9. QED
  BY <1>3, <1>4, <1>5, <1>6, <1>7, <1>8 DEF TurnsInv

\* What Go does to a worker's record.
LEMMA GoMoves ==
  ASSUME IInv, NEW w \in Worker, NEW s \in {"finished", "orphans"} \union InTurn, Go(w, s)
  PROVE  /\ worker' \in [Worker -> WorkerState] /\ worker'[w].pc = s
         /\ worker'[w].task = worker[w].task /\ worker'[w].rounds = worker[w].rounds
         /\ \A v \in Worker : v # w => worker'[v] = worker[v]
         /\ \A v \in Worker : worker'[v].seen \subseteq log
BY DEF IInv, TypeOK, WorkerState, Go

\* The flag is set by the worker that will clear it.
LEMMA SetBusyKeepsInv ==
  ASSUME IInv, NEW w \in Worker, SetBusy(w)
  PROVE  IInv'
<1>1. /\ worker[w].pc = "started" /\ Go(w, "building") /\ busy' = TRUE
      /\ UNCHANGED <<handler, log, ticket, timer, slot, queue, row, stop, inject, notes, history, environment>>
  BY DEF SetBusy, At, ingress
<1>2. /\ worker' \in [Worker -> WorkerState] /\ worker'[w].pc = "building"
      /\ worker'[w].task = worker[w].task /\ worker'[w].rounds = worker[w].rounds
      /\ \A v \in Worker : v # w => worker'[v] = worker[v]
      /\ \A v \in Worker : worker'[v].seen \subseteq log
  BY <1>1, GoMoves DEF InTurn
<1>3. TypeOK'
  BY <1>1, <1>2 DEF IInv, TypeOK, notes, history, environment
<1>4. worker[w].rounds = 0
  BY <1>1 DEF IInv, RoundsAreLeft
<1>5. TurnsInv'
  BY <1>1, <1>2, <1>4, MoveKeepsTurns DEF InTurn, history, environment
<1>6. BusyHasItsWorker' /\ HeldNoteIsFlushed'
  BY <1>2 DEF BusyHasItsWorker, HeldNoteIsFlushed, MarkedBusy
<1>7. QED
  BY <1>3, <1>5, <1>6 DEF IInv, TurnsInv

\* The steps of the loop, from building the context to leaving: the worker
\* stays between setting the flag and clearing it.
LEMMA LoopStepKeepsInv ==
  ASSUME IInv, NEW w \in Worker,
         BuildContext(w) \/ ReplyEarly(w) \/ CallLLM(w) \/ ObeyStop(w) \/ NextRound(w) \/ EndLoop(w)
  PROVE  IInv'
<1>1. UNCHANGED <<handler, log, ticket, timer, slot, queue, row, busy, notes, cancelled, environment>>
  BY DEF BuildContext, ReplyEarly, CallLLM, ObeyStop, NextRound, EndLoop, flags, history, ingress
<1>2. worker \in [Worker -> WorkerState] /\ log \subseteq Message /\ heard \subseteq Message
  BY DEF IInv, TypeOK
<1>3. worker[w].pc \in {"building", "draining", "calling"}
  BY DEF BuildContext, ReplyEarly, CallLLM, ObeyStop, NextRound, EndLoop, At
<1>4. /\ worker' \in [Worker -> WorkerState] /\ \A v \in Worker : v # w => worker'[v] = worker[v]
      /\ worker'[w].task = worker[w].task /\ worker'[w].seen \subseteq log
      /\ worker'[w].pc \in {"draining", "calling", "leaving"}
      /\ worker'[w].pc = "draining" => worker'[w].rounds < MaxRounds
  <2>1. CASE BuildContext(w)
    <3>1. worker[w].pc = "building" /\ worker' = [worker EXCEPT ![w].seen = log, ![w].pc = "draining"]
      BY <2>1 DEF BuildContext, At
    <3>2. worker[w].rounds = 0
      BY <3>1 DEF IInv, RoundsAreLeft
    <3>3. QED
      BY <1>2, <3>1, <3>2, PipelineAssumption DEF WorkerState, InTurn
  <2>2. CASE CallLLM(w)
    <3>1. worker[w].pc = "draining" /\ worker' = [worker EXCEPT ![w].pc = "calling", ![w].rounds = @ + 1]
      BY <2>2 DEF CallLLM, At
    <3>2. worker[w].rounds < MaxRounds /\ worker[w].seen \subseteq log
      BY <3>1 DEF IInv, TypeOK, RoundsAreLeft
    <3>3. QED
      BY <1>2, <3>1, <3>2, PipelineAssumption DEF WorkerState, InTurn
  <2>3. CASE ReplyEarly(w) \/ ObeyStop(w) \/ EndLoop(w)
    BY <2>3, GoMoves DEF ReplyEarly, ObeyStop, EndLoop, InTurn
  <2>4. CASE NextRound(w)
    BY <2>4, GoMoves DEF NextRound, InTurn
  <2>5. QED
    BY <2>1, <2>2, <2>3, <2>4
<1>5. TypeOK'
  <2>1. heard' \subseteq Message
    <3>1. CASE CallLLM(w)
      <4>1. \A i \in DOMAIN inject : inject[i] \in Message
        BY DEF IInv, TypeOK
      <4>2. worker[w].seen \subseteq Message
        BY <1>2 DEF WorkerState
      <4>3. QED
        BY <1>2, <3>1, <4>1, <4>2 DEF CallLLM
    <3>2. CASE ~CallLLM(w)
      BY <1>2, <3>2 DEF BuildContext, ReplyEarly, ObeyStop, NextRound, EndLoop, history
    <3>3. QED
      BY <3>1, <3>2
  <2>2. inject' \in Seq(Message)
    <3>1. inject' = inject \/ inject' = <<>>
      BY DEF BuildContext, ReplyEarly, CallLLM, ObeyStop, NextRound, EndLoop, flags
    <3>2. CASE inject' = inject
      BY <3>2 DEF IInv, TypeOK
    <3>3. CASE inject' = <<>>
      BY <3>3
    <3>4. QED
      BY <3>1, <3>2, <3>3
  <2>3. stop' \in BOOLEAN
    <3>1. stop' = stop \/ stop' = FALSE
      BY DEF BuildContext, ReplyEarly, CallLLM, ObeyStop, NextRound, EndLoop, flags
    <3>2. CASE stop' = stop
      BY <3>2 DEF IInv, TypeOK
    <3>3. CASE stop' = FALSE
      BY <3>3
    <3>4. QED
      BY <3>1, <3>2, <3>3
  <2>4. \A v \in Worker : worker'[v].seen \subseteq log'
    BY <1>1, <1>4 DEF IInv, TypeOK
  <2>5. QED
    BY <1>1, <1>4, <2>1, <2>2, <2>3, <2>4 DEF IInv, TypeOK, notes, environment
<1>6. TurnsInv'
  BY <1>1, <1>3, <1>4, MoveKeepsTurns DEF InTurn, environment
<1>7. BusyHasItsWorker' /\ HeldNoteIsFlushed'
  BY <1>1, <1>4 DEF IInv, BusyHasItsWorker, HeldNoteIsFlushed, MarkedBusy, notes
<1>8. QED
  BY <1>5, <1>6, <1>7 DEF IInv, TurnsInv

\* The end of a turn: the flag is cleared before the notes are flushed, so that a
\* note that was held before is flushed and none is held after.
LEMMA LeaveKeepsInv ==
  ASSUME IInv, NEW w \in Worker, ClearBusy(w) \/ FlushNotes(w) \/ TakeOrphans(w)
  PROVE  IInv'
<1>1. UNCHANGED <<handler, log, ticket, timer, slot, queue, row, stop, history, environment>>
  BY DEF ClearBusy, FlushNotes, TakeOrphans, flags, ingress
<1>2. PICK s \in {"unbusied", "flushed", "orphans"} :
        /\ Go(w, s) /\ (s \in InTurn => worker[w].pc \in InTurn)
        /\ worker[w].pc \in InTurn \union {"finished"}
  BY DEF ClearBusy, FlushNotes, TakeOrphans, At, InTurn
<1>3. /\ worker' \in [Worker -> WorkerState] /\ worker'[w].pc = s
      /\ worker'[w].task = worker[w].task
      /\ \A v \in Worker : v # w => worker'[v] = worker[v]
      /\ \A v \in Worker : worker'[v].seen \subseteq log
  BY <1>2, GoMoves DEF InTurn
<1>4. TypeOK'
  <2>1. inject' \in Seq(Message)
    <3>1. inject' = inject \/ inject' = <<>>
      BY DEF ClearBusy, FlushNotes, TakeOrphans, flags
    <3>2. CASE inject' = inject
      BY <3>2 DEF IInv, TypeOK
    <3>3. CASE inject' = <<>>
      BY <3>3
    <3>4. QED
      BY <3>1, <3>2, <3>3
  <2>2. busy' \in BOOLEAN
    <3>1. busy' = busy \/ busy' = FALSE
      BY DEF ClearBusy, FlushNotes, TakeOrphans, flags
    <3>2. CASE busy' = busy
      BY <3>2 DEF IInv, TypeOK
    <3>3. CASE busy' = FALSE
      BY <3>3
    <3>4. QED
      BY <3>1, <3>2, <3>3
  <2>3. note' \in [Note -> NotePlace] /\ held' \subseteq Note
    <3>1. note \in [Note -> NotePlace] /\ held \subseteq Note /\ "written" \in NotePlace
      BY DEF IInv, TypeOK, NotePlace
    <3>2. QED
      BY <3>1 DEF ClearBusy, FlushNotes, TakeOrphans, notes
  <2>4. QED
    BY <1>1, <1>3, <2>1, <2>2, <2>3 DEF IInv, TypeOK, history, environment
<1>5. TurnsInv'
  BY <1>1, <1>2, <1>3, MoveKeepsTurns DEF InTurn, history, environment
<1>6. BusyHasItsWorker' /\ HeldNoteIsFlushed'
  <2>1. CASE ClearBusy(w)
    <3>1. busy' = FALSE /\ worker'[w].pc = "unbusied"
      BY <2>1, GoMoves DEF ClearBusy, InTurn
    <3>2. QED
      BY <3>1 DEF BusyHasItsWorker, HeldNoteIsFlushed
  <2>2. CASE FlushNotes(w)
    <3>1. held' = {} /\ busy' = busy /\ worker[w].pc = "unbusied"
      BY <2>2 DEF FlushNotes, flags, At
    <3>2. QED
      BY <1>3, <3>1 DEF IInv, BusyHasItsWorker, HeldNoteIsFlushed, MarkedBusy
  <2>3. CASE TakeOrphans(w)
    <3>1. held' = held /\ busy' = busy /\ worker[w].pc = "finished"
      BY <2>3 DEF TakeOrphans, notes, At
    <3>2. \A v \in Worker : worker[v].pc \in MarkedBusy \union {"unbusied"} => worker'[v] = worker[v]
      BY <1>3, <3>1 DEF MarkedBusy
    <3>3. QED
      BY <3>1, <3>2 DEF IInv, BusyHasItsWorker, HeldNoteIsFlushed
  <2>4. QED
    BY <2>1, <2>2, <2>3
<1>7. QED
  BY <1>4, <1>5, <1>6 DEF IInv, TurnsInv

\* A row that is written by its worker was not cancelled when the turn starts,
\* and stays gone once it is; no other row changes.
LEMMA RowStepKeepsInv ==
  ASSUME IInv, NEW w \in Worker, StartTurn(w) \/ FinishTurn(w)
  PROVE  IInv'
<1> DEFINE t == TurnOf(w)
<1>1. PICK s \in {"running", "gone"}, pc \in {"started", "finished"} :
        /\ row' = [row EXCEPT ![t] = s] /\ Go(w, pc)
        /\ worker[w].pc \in {"locked", "flushed"}
        /\ pc = "started" => row[t] = "queued" /\ s = "running" /\ worker[w].pc = "locked"
        /\ pc = "finished" => s = "gone" /\ worker[w].pc = "flushed"
  BY DEF StartTurn, FinishTurn, At
<1>2. UNCHANGED <<handler, log, ticket, timer, slot, queue, flags, notes, history, environment>>
  BY DEF StartTurn, FinishTurn, ingress
<1>3. /\ worker' \in [Worker -> WorkerState] /\ worker'[w].pc = pc
      /\ worker'[w].task = worker[w].task /\ worker'[w].rounds = worker[w].rounds
      /\ \A v \in Worker : v # w => worker'[v] = worker[v]
      /\ \A v \in Worker : worker'[v].seen \subseteq log
  BY <1>1, GoMoves DEF InTurn
<1>4. t \in TurnId /\ row[t] \in {"queued", "running", "gone"} /\ row \in [TurnId -> RowState]
  <2>1. worker[w].task \in TurnId /\ t # None /\ t \in TurnId \union {None}
    BY <1>1 DEF IInv, TypeOK, Books, TasksHaveTickets, TurnOf
  <2>2. row[t] # "none" /\ row \in [TurnId -> RowState]
    BY <2>1 DEF IInv, TypeOK, Books, TicketsHaveRows, TurnOf
  <2>3. QED
    BY <2>1, <2>2 DEF RowState
<1>5. /\ row' \in [TurnId -> RowState] /\ row'[t] = s
      /\ \A r \in TurnId : r # t => row'[r] = row[r]
  BY <1>1, <1>4 DEF RowState
<1>6. TypeOK'
  BY <1>2, <1>3, <1>5 DEF IInv, TypeOK, flags, notes, history, environment
<1>7. /\ Undelivered' = Undelivered /\ Unmarked' = Unmarked
      /\ QueuedRows' \subseteq QueuedRows /\ t \notin QueuedRows'
  BY <1>2, <1>5 DEF Undelivered, Unmarked, QueuedRows
<1>8. Books'
  <2>1. \A i \in DOMAIN queue' : ticket'[queue'[i]] # None
    BY <1>2 DEF IInv, Books, TasksHaveTickets
  <2>2. \A v \in Worker : worker'[v].pc # "idle" => worker[v].pc # "idle" /\ worker'[v].task = worker[v].task
    BY <1>1, <1>3
  <2>3. TasksHaveTickets'
    BY <1>2, <1>7, <2>1, <2>2 DEF IInv, Books, TasksHaveTickets
  <2>4. NewMessagesHaveNone' /\ OneQueuedRow'
    BY <1>2, <1>7 DEF IInv, Books, NewMessagesHaveNone, OneQueuedRow
  <2>5. \A r \in TurnId : row'[r] # "none" <=> row[r] # "none"
    BY <1>4, <1>5
  <2>6. \A r \in TurnId : ticket[r] # None => ticket[r] \in TurnId
    BY DEF IInv, TypeOK
  <2>7. TicketsHaveRows'
    BY <1>2, <2>5, <2>6 DEF IInv, Books, TicketsHaveRows
  <2>8. QED
    BY <2>3, <2>4, <2>7 DEF Books
<1>9. \A v \in Worker : worker[v].pc \notin WantsLock => v = w
  BY <1>1 DEF IInv, LockHasOneHolder, WantsLock
<1>10. RoundsAreLeft' /\ LockHasOneHolder'
  BY <1>1, <1>3, <1>9 DEF IInv, RoundsAreLeft, LockHasOneHolder, WantsLock
<1>11. CancelledRowsAreGone'
  BY <1>1, <1>2, <1>4, <1>5 DEF IInv, TypeOK, CancelledRowsAreGone, history
<1>12. \A v \in Worker : worker'[v].pc \in InTurn => v = w /\ pc = "started"
  BY <1>3, <1>9 DEF InTurn, WantsLock
<1>13. StartedTurnsHaveRows' /\ CancelledTurnNeverRuns'
  <2>1. pc = "started" => t \notin cancelled /\ row'[t] = "running"
    BY <1>1, <1>5 DEF IInv, CancelledRowsAreGone
  <2>2. TurnOf(w)' = t
    BY <1>2, <1>3 DEF TurnOf
  <2>3. QED
    BY <1>2, <1>12, <2>1, <2>2 DEF StartedTurnsHaveRows, CancelledTurnNeverRuns, history
<1>14. QueuedRowHasTask'
  <2> SUFFICES ASSUME NEW r \in QueuedRows', HasTask(r) PROVE HasTask(r)'
    BY <1>2, <1>7 DEF IInv, QueuedRowHasTask, OneDebounced, EveryQueuedRowHasTask, environment
  <2>1. \A v \in Worker : TurnOf(v) = r => v # w
    BY <1>7
  <2>2. CASE \E v \in Worker : worker[v].pc \in {"taken", "locked"} /\ TurnOf(v) = r
    <3>1. PICK v \in Worker : worker[v].pc \in {"taken", "locked"} /\ TurnOf(v) = r
      BY <2>2
    <3>2. worker'[v] = worker[v]
      BY <1>3, <2>1, <3>1
    <3>3. QED
      BY <1>2, <3>1, <3>2 DEF HasTask, TurnOf
  <2>3. CASE ~ \E v \in Worker : worker[v].pc \in {"taken", "locked"} /\ TurnOf(v) = r
    BY <1>2, <1>7, <2>3 DEF HasTask
  <2>4. QED
    BY <2>2, <2>3
<1>15. SlotIsDebounced'
  BY <1>2 DEF IInv, SlotIsDebounced, environment
<1>16. BusyHasItsWorker' /\ HeldNoteIsFlushed'
  <2>1. \A v \in Worker : worker[v].pc \in MarkedBusy \union {"unbusied"} => worker'[v] = worker[v]
    BY <1>1, <1>3 DEF MarkedBusy
  <2>2. QED
    BY <1>2, <2>1 DEF IInv, BusyHasItsWorker, HeldNoteIsFlushed, flags, notes
<1>17. QED
  BY <1>6, <1>8, <1>10, <1>11, <1>13, <1>14, <1>15, <1>16 DEF IInv

\* The end of a task: the worker is idle, and nobody's task is touched.
LEMMA TaskDoneMoves ==
  ASSUME IInv, NEW w \in Worker, TaskDone(w), UNCHANGED <<timer, log>>
  PROVE  /\ handler' \in [Message -> HandlerPlace]
         /\ Undelivered' = Undelivered /\ Unmarked' = Unmarked
         /\ worker' \in [Worker -> WorkerState]
         /\ worker'[w].pc = "idle" /\ worker'[w].rounds = 0
         /\ \A v \in Worker : v # w => worker'[v] = worker[v]
         /\ \A v \in Worker : worker'[v].seen \subseteq log'
<1>1. handler \in [Message -> HandlerPlace] /\ worker \in [Worker -> WorkerState]
  BY DEF IInv, TypeOK
<1>2. handler' = [m \in Message |->
        IF m = worker[w].task /\ handler[m] = "waiting" THEN "returned" ELSE handler[m]]
  BY DEF TaskDone
<1>3. handler' \in [Message -> HandlerPlace] /\ Undelivered' = Undelivered /\ Unmarked' = Unmarked
  BY <1>1, <1>2 DEF HandlerPlace, Undelivered, Unmarked
<1>4. IdleWorker \in WorkerState
  BY PipelineAssumption DEF IdleWorker, WorkerState
<1>5. worker' = [worker EXCEPT ![w] = IdleWorker]
  BY DEF TaskDone
<1>6. worker' \in [Worker -> WorkerState] /\ worker'[w].pc = "idle" /\ worker'[w].rounds = 0
  BY <1>1, <1>4, <1>5 DEF IdleWorker
<1>7. \A v \in Worker : v # w => worker'[v] = worker[v]
  BY <1>1, <1>5
<1>8. \A v \in Worker : worker'[v].seen \subseteq log'
  BY <1>1, <1>5, <1>7 DEF IInv, TypeOK, IdleWorker
<1>9. QED
  BY <1>3, <1>6, <1>7, <1>8

\* A worker that goes idle gives up the lock and is in no turn.
LEMMA IdlingKeepsLock ==
  ASSUME IInv, NEW w \in Worker, worker'[w].pc = "idle", worker'[w].rounds = 0,
         \A v \in Worker : v # w => worker'[v] = worker[v], worker[w].pc \notin MarkedBusy \union {"unbusied"}
  PROVE  /\ RoundsAreLeft' /\ LockHasOneHolder'
         /\ \A v \in Worker : worker'[v].pc \in InTurn => worker'[v] = worker[v]
         /\ \A v \in Worker : worker[v].pc \in MarkedBusy \union {"unbusied"} => worker'[v] = worker[v]
<1>1. RoundsAreLeft' /\ LockHasOneHolder'
  BY DEF IInv, RoundsAreLeft, LockHasOneHolder, WantsLock
<1>2. QED
  BY <1>1 DEF InTurn

\* A task whose turn may not start, or that has ended, leaves no queued row behind.
LEMMA EndTaskKeepsInv ==
  ASSUME IInv, NEW w \in Worker, RefuseTurn(w) \/ NoOrphans(w)
  PROVE  IInv'
<1>1. /\ TaskDone(w)
      /\ UNCHANGED <<log, ticket, timer, slot, queue, row, flags, notes, history, environment>>
      /\ worker[w].pc \in {"locked", "finished"}
      /\ worker[w].pc = "locked" => row[TurnOf(w)] # "queued"
  BY DEF RefuseTurn, NoOrphans, At
<1>2. /\ handler' \in [Message -> HandlerPlace]
      /\ Undelivered' = Undelivered /\ Unmarked' = Unmarked
      /\ worker' \in [Worker -> WorkerState]
      /\ worker'[w].pc = "idle" /\ worker'[w].rounds = 0
      /\ \A v \in Worker : v # w => worker'[v] = worker[v]
      /\ \A v \in Worker : worker'[v].seen \subseteq log'
  BY <1>1, TaskDoneMoves
<1>3. /\ RoundsAreLeft' /\ LockHasOneHolder'
      /\ \A v \in Worker : worker'[v].pc \in InTurn => worker'[v] = worker[v]
      /\ \A v \in Worker : worker[v].pc \in MarkedBusy \union {"unbusied"} => worker'[v] = worker[v]
  BY <1>1, <1>2, IdlingKeepsLock DEF MarkedBusy
<1>4. TypeOK'
  BY <1>1, <1>2 DEF IInv, TypeOK, flags, notes, history, environment
<1>5. Books'
  <2>1. \A i \in DOMAIN queue' : ticket'[queue'[i]] # None
    BY <1>1 DEF IInv, Books, TasksHaveTickets
  <2>2. \A v \in Worker : worker'[v].pc # "idle" => worker'[v] = worker[v]
    BY <1>2
  <2>3. TasksHaveTickets'
    BY <1>1, <1>2, <2>1, <2>2 DEF IInv, Books, TasksHaveTickets
  <2>4. NewMessagesHaveNone' /\ TicketsHaveRows' /\ OneQueuedRow'
    BY <1>1, <1>2 DEF IInv, Books, NewMessagesHaveNone, TicketsHaveRows, OneQueuedRow, QueuedRows
  <2>5. QED
    BY <2>3, <2>4 DEF Books
<1>6. StartedTurnsHaveRows' /\ CancelledTurnNeverRuns'
  BY <1>1, <1>3 DEF IInv, StartedTurnsHaveRows, CancelledTurnNeverRuns, TurnOf, history
<1>7. CancelledRowsAreGone' /\ SlotIsDebounced'
  BY <1>1 DEF IInv, CancelledRowsAreGone, SlotIsDebounced, history, environment
<1>8. QueuedRowHasTask'
  <2> SUFFICES ASSUME NEW t \in QueuedRows, HasTask(t) PROVE HasTask(t)'
    BY <1>1 DEF IInv, QueuedRowHasTask, OneDebounced, EveryQueuedRowHasTask, QueuedRows, environment
  <2>1. \A v \in Worker : worker[v].pc \in {"taken", "locked"} /\ TurnOf(v) = t => worker'[v] = worker[v]
    BY <1>1, <1>2 DEF QueuedRows
  <2>2. QED
    BY <1>1, <1>2, <2>1 DEF HasTask, TurnOf
<1>9. BusyHasItsWorker' /\ HeldNoteIsFlushed'
  BY <1>1, <1>3 DEF IInv, BusyHasItsWorker, HeldNoteIsFlushed, flags, notes
<1>10. QED
  BY <1>3, <1>4, <1>5, <1>6, <1>7, <1>8, <1>9 DEF IInv

\* The task for the orphans is in the queue, with the ticket of the queued row.
LEMMA RequeueOrphansKeepsInv ==
  ASSUME IInv, NEW w \in Worker, RequeueOrphans(w)
  PROVE  IInv'
<1>1. PICK s \in Spare : ticket[s] = None /\ QueueTurn(s) /\ queue' = Append(queue, s)
  BY DEF RequeueOrphans
<1>2. /\ TaskDone(w) /\ worker[w].pc = "orphans" /\ stop' = FALSE
      /\ UNCHANGED <<log, timer, slot, busy, inject, notes, history, environment>>
  BY DEF RequeueOrphans, At
<1>3. s \in TurnId /\ s # None
  BY PipelineAssumption DEF TurnId
<1>4. PICK t \in TurnId :
        /\ ticket' = [ticket EXCEPT ![s] = t]
        /\ row' \in [TurnId -> RowState] /\ QueuedRows' = {t}
        /\ \A r \in TurnId : r # s \/ row[r] # "none" => row'[r] = row[r]
  BY <1>1, <1>3, QueueTurnQueuesOne
<1>5. /\ handler' \in [Message -> HandlerPlace]
      /\ Undelivered' = Undelivered /\ Unmarked' = Unmarked
      /\ worker' \in [Worker -> WorkerState]
      /\ worker'[w].pc = "idle" /\ worker'[w].rounds = 0
      /\ \A v \in Worker : v # w => worker'[v] = worker[v]
      /\ \A v \in Worker : worker'[v].seen \subseteq log'
  BY <1>2, TaskDoneMoves
<1>6. /\ RoundsAreLeft' /\ LockHasOneHolder'
      /\ \A v \in Worker : worker'[v].pc \in InTurn => worker'[v] = worker[v]
      /\ \A v \in Worker : worker[v].pc \in MarkedBusy \union {"unbusied"} => worker'[v] = worker[v]
  BY <1>2, <1>5, IdlingKeepsLock DEF MarkedBusy
<1>7. /\ ticket' \in [TurnId -> TurnId \union {None}]
      /\ TicketsHaveRows' /\ OneQueuedRow' /\ CancelledRowsAreGone'
      /\ \A v \in Worker : worker[v].pc \in InTurn =>
           /\ ticket'[worker[v].task] \notin cancelled
           /\ row'[ticket'[worker[v].task]] \in {"running", "gone"}
  BY <1>1, <1>2, <1>3, <1>4, QueueTurnKeepsRows DEF history
<1>8. queue \in Seq(TurnId) /\ ticket \in [TurnId -> TurnId \union {None}]
  BY DEF IInv, TypeOK
<1>9. /\ queue' \in Seq(TurnId) /\ Len(queue) + 1 \in DOMAIN queue' /\ queue'[Len(queue) + 1] = s
      /\ \A i \in DOMAIN queue' : queue'[i] = s \/ (i \in DOMAIN queue /\ queue'[i] = queue[i])
  BY <1>1, <1>3, <1>8
<1>10. ticket'[s] = t /\ t # None
  BY <1>3, <1>4, <1>8, PipelineAssumption DEF TurnId
<1>11. TypeOK'
  BY <1>2, <1>4, <1>5, <1>7, <1>9 DEF IInv, TypeOK, notes, history, environment
<1>12. TasksHaveTickets'
  <2>1. \A p \in TurnId : ticket[p] # None => ticket'[p] # None
    BY <1>1, <1>3, <1>4, TicketsStay
  <2>2. \A i \in DOMAIN queue' : ticket'[queue'[i]] # None
    <3>1. \A i \in DOMAIN queue : queue[i] \in TurnId /\ ticket[queue[i]] # None
      BY <1>8 DEF IInv, Books, TasksHaveTickets
    <3>2. QED
      BY <1>9, <1>10, <2>1, <3>1
  <2>3. \A v \in Worker : worker'[v].pc # "idle" =>
          worker'[v].task \in TurnId /\ ticket'[worker'[v].task] # None
    BY <1>5, <2>1 DEF IInv, Books, TasksHaveTickets
  <2>4. \A k \in Undelivered' : ticket'[k] # None
    BY <1>5, <2>1 DEF IInv, Books, TasksHaveTickets, Undelivered, TurnId
  <2>5. QED
    BY <2>2, <2>3, <2>4 DEF TasksHaveTickets
<1>13. NewMessagesHaveNone'
  <2>1. \A k \in Unmarked : k \in TurnId /\ k # s
    BY PipelineAssumption DEF Unmarked, TurnId
  <2>2. \A k \in Unmarked : ticket'[k] = None
    BY <1>4, <1>8, <2>1 DEF IInv, Books, NewMessagesHaveNone
  <2>3. QED
    BY <1>5, <2>2 DEF NewMessagesHaveNone
<1>14. StartedTurnsHaveRows' /\ CancelledTurnNeverRuns'
  BY <1>2, <1>6, <1>7 DEF StartedTurnsHaveRows, CancelledTurnNeverRuns, TurnOf, history
<1>15. QueuedRowHasTask'
  BY <1>4, <1>9, <1>10 DEF QueuedRowHasTask, EveryQueuedRowHasTask, HasTask
<1>16. SlotIsDebounced' /\ BusyHasItsWorker' /\ HeldNoteIsFlushed'
  BY <1>2, <1>6 DEF IInv, SlotIsDebounced, BusyHasItsWorker, HeldNoteIsFlushed, notes, environment
<1>17. QED
  BY <1>6, <1>7, <1>11, <1>12, <1>13, <1>14, <1>15, <1>16 DEF IInv, Books

-----------------------------------------------------------------------------
LEMMA NextKeepsInv == IInv /\ [Next]_vars => IInv'
<1> SUFFICES ASSUME IInv, [Next]_vars PROVE IInv'
  OBVIOUS
<1>1. ASSUME NEW m \in Message, Save(m) \/ HandlerStep(m) \/ TimerStep(m) PROVE IInv'
  <2>1. CASE Save(m) \/ CheckBusy(m) \/ CheckLive(m) \/ ClearStaleBusy(m) \/ Inject(m)
    BY <2>1, EarlyHandlerKeepsInv
  <2>2. CASE MarkQueued(m)
    BY <2>2, MarkQueuedKeepsInv
  <2>3. CASE PutTask(m) \/ EnqueueBuffered(m)
    BY <2>3, PutKeepsInv
  <2>4. CASE StoreTimer(m)
    BY <2>4, StoreTimerKeepsInv
  <2>5. CASE StartTimer(m) \/ TimerFires(m)
    BY <2>5, TimerStepKeepsInv
  <2>6. QED
    BY <1>1, <2>1, <2>2, <2>3, <2>4, <2>5 DEF HandlerStep, TimerStep
<1>2. ASSUME NEW w \in Worker, WorkerStep(w) PROVE IInv'
  <2>1. CASE Take(w) \/ LockSession(w)
    BY <2>1, TakeKeepsInv, LockSessionKeepsInv
  <2>2. CASE StartTurn(w) \/ FinishTurn(w)
    BY <2>2, RowStepKeepsInv
  <2>3. CASE SetBusy(w)
    BY <2>3, SetBusyKeepsInv
  <2>4. CASE BuildContext(w) \/ ReplyEarly(w) \/ CallLLM(w) \/ ObeyStop(w) \/ NextRound(w) \/ EndLoop(w)
    BY <2>4, LoopStepKeepsInv
  <2>5. CASE ClearBusy(w) \/ FlushNotes(w) \/ TakeOrphans(w)
    BY <2>5, LeaveKeepsInv
  <2>6. CASE RefuseTurn(w) \/ NoOrphans(w)
    BY <2>6, EndTaskKeepsInv
  <2>7. CASE RequeueOrphans(w)
    BY <2>7, RequeueOrphansKeepsInv
  <2>8. QED
    BY <1>2, <2>1, <2>2, <2>3, <2>4, <2>5, <2>6, <2>7 DEF WorkerStep
<1>3. ASSUME NEW n \in Note, NoteStep(n) PROVE IInv'
  BY <1>3, NoteKeepsInv
<1>4. CASE StaleTimerCleanup
  BY <1>4, TimerStepKeepsInv
<1>5. CASE RequestStop \/ ReapStaleTurn
  BY <1>5, RequestStopKeepsInv, ReapKeepsInv
<1>6. CASE UNCHANGED vars
  <2>1. UNCHANGED <<handler, log, ticket, timer, slot, queue, row, busy, stop, inject, worker, note,
                    held, heard, cancelled, buffered, stops, reaps>>
    BY <1>6 DEF vars, ingress, flags, notes, history, environment
  <2>2. Undelivered' = Undelivered /\ Unmarked' = Unmarked
    BY <2>1 DEF Undelivered, Unmarked
  <2>3. TurnsInv' /\ BusyHasItsWorker' /\ HeldNoteIsFlushed'
    BY <2>1, <2>2, TurnsUntouched, NoBusierThanBefore
  <2>4. TypeOK'
    BY <2>1 DEF IInv, TypeOK
  <2>5. QED
    BY <2>3, <2>4 DEF IInv, TurnsInv
<1>7. QED
  BY <1>1, <1>2, <1>3, <1>4, <1>5, <1>6 DEF Next

\* The books of a session (types, who has the lock, tickets, rows and tasks) are
\* right in every state of every behaviour of TurnPipeline.
THEOREM PipelineInvariant == Spec => []IInv
BY InitEstablishesInv, NextKeepsInv, PTL DEF Spec

\* The session lock of _process_and_respond lets one turn run at a time: a worker
\* that has started a turn is the only one past the lock.
THEOREM OneTurnRuns == Spec => []OneTurnAtATime
<1>1. IInv => OneTurnAtATime
  BY DEF IInv, LockHasOneHolder, OneTurnAtATime, InTurn, WantsLock
<1>2. QED
  BY <1>1, PipelineInvariant, PTL

\* A turn that /stop has cancelled never starts, whoever still has a task with its
\* id: its row is gone, and start_turn takes only rows that are queued.
THEOREM CancelledStaysCancelled == Spec => []CancelledTurnNeverRuns
<1>1. IInv => CancelledTurnNeverRuns
  BY DEF IInv
<1>2. QED
  BY <1>1, PipelineInvariant, PTL

\* With one debounced message at most, a queued row always has a task that will
\* look at it: in the queue, on a worker, behind a timer or with its handler.
THEOREM QueuedRowsHaveTasks == Spec => []QueuedRowHasTask
<1>1. IInv => QueuedRowHasTask
  BY DEF IInv
<1>2. QED
  BY <1>1, PipelineInvariant, PTL

\* A note that add_session_note holds back has a worker that has yet to flush it.
THEOREM HeldNotesAreFlushed == Spec => []HeldNoteIsFlushed
<1>1. IInv => HeldNoteIsFlushed
  BY DEF IInv
<1>2. QED
  BY <1>1, PipelineInvariant, PTL

-----------------------------------------------------------------------------
(* The steps of a session are those of SessionTurns. *)

\* A worker in its turn has a task, the task a ticket, and the ticket is a turn.
LEMMA TurnInProgress ==
  ASSUME IInv, NEW w \in Worker, worker[w].pc # "idle"
  PROVE  /\ worker[w].task \in TurnId /\ TurnOf(w) \in TurnId /\ TurnOf(w) # None
         /\ worker[w].pc \in InTurn => InProgress[w] = TurnOf(w)
<1>1. worker[w].task \in TurnId /\ ticket[worker[w].task] # None
  BY DEF IInv, Books, TasksHaveTickets
<1>2. ticket \in [TurnId -> TurnId \union {None}]
  BY DEF IInv, TypeOK
<1>3. QED
  BY <1>1, <1>2 DEF TurnOf, InProgress

\* A worker that stays in its turn, or out of one, leaves what is in progress.
LEMMA ProgressStays ==
  ASSUME IInv,
         \A v \in Worker : worker[v].pc \in InTurn => ticket'[worker[v].task] = ticket[worker[v].task],
         \A v \in Worker : worker'[v].pc \in InTurn <=> worker[v].pc \in InTurn,
         \A v \in Worker : worker[v].pc \in InTurn => worker'[v].task = worker[v].task
  PROVE  InProgress' = InProgress
BY DEF InProgress, TurnOf

LEMMA OneWorkerMoves ==
  ASSUME IInv, UNCHANGED ticket, NEW w \in Worker,
         \A v \in Worker : v # w => worker'[v] = worker[v],
         worker'[w].pc \in InTurn <=> worker[w].pc \in InTurn,
         worker[w].pc \in InTurn => worker'[w].task = worker[w].task
  PROVE  InProgress' = InProgress
<1>1. \A v \in Worker : worker'[v].pc \in InTurn <=> worker[v].pc \in InTurn
  OBVIOUS
<1>2. \A v \in Worker : worker[v].pc \in InTurn => worker'[v].task = worker[v].task
  OBVIOUS
<1>3. QED
  BY <1>1, <1>2, ProgressStays

\* Queueing gives a ticket to a task that had none, so to none that is in progress.
LEMMA QueueingIsQueue ==
  ASSUME IInv, NEW o \in TurnId, o # None, ticket[o] = None, QueueTurn(o)
  PROVE  /\ \A v \in Worker : worker[v].pc \in InTurn => ticket'[worker[v].task] = ticket[worker[v].task]
         /\ UNCHANGED row \/ (row[o] = "none" /\ QueuedRows = {} /\ row' = [row EXCEPT ![o] = "queued"])
<1>1. ticket \in [TurnId -> TurnId \union {None}] /\ row[o] = "none"
  BY DEF IInv, TypeOK, Books, TicketsHaveRows
<1>2. \A p \in TurnId : p # o => ticket'[p] = ticket[p]
  BY <1>1 DEF QueueTurn
<1>3. \A v \in Worker : worker[v].pc \in InTurn => worker[v].task \in TurnId /\ worker[v].task # o
  BY TurnInProgress DEF IInv, Books, TasksHaveTickets, InTurn
<1>4. QED
  BY <1>1, <1>2, <1>3 DEF QueueTurn

SameTurns == UNCHANGED <<row, InProgress, cancelled, heard>>

LEMMA IngressKeepsTurns ==
  ASSUME IInv, NEW m \in Message,
         \/ Save(m) \/ CheckBusy(m) \/ CheckLive(m) \/ ClearStaleBusy(m) \/ Inject(m)
         \/ PutTask(m) \/ StoreTimer(m) \/ StartTimer(m) \/ TimerStep(m)
  PROVE  SameTurns
<1>1. UNCHANGED <<row, ticket, worker, cancelled, heard>>
  BY DEF Save, CheckBusy, CheckLive, ClearStaleBusy, Inject, Decide, PutTask, StoreTimer, StartTimer,
         TimerStep, TimerFires, EnqueueBuffered, history
<1>2. QED
  BY <1>1 DEF SameTurns, InProgress, TurnOf

LEMMA MarkingIsQueue ==
  ASSUME IInv, NEW m \in Message, MarkQueued(m)
  PROVE  SameTurns \/ Session!Queue(m)
<1>1. m \in TurnId /\ m # None /\ ticket[m] = None /\ QueueTurn(m)
  BY PipelineAssumption DEF MarkQueued, TurnId, IInv, Books, NewMessagesHaveNone, Unmarked
<1>2. UNCHANGED <<worker, cancelled, heard>>
  BY DEF MarkQueued, history
<1>3. InProgress' = InProgress
  BY <1>1, <1>2, QueueingIsQueue, ProgressStays
<1>4. QED
  BY <1>1, <1>2, <1>3, QueueingIsQueue DEF SameTurns, Session!Queue, Session!Waiting, QueuedRows

LEMMA RequeueingIsQueue ==
  ASSUME IInv, NEW w \in Worker, RequeueOrphans(w)
  PROVE  SameTurns \/ \E s \in TurnId : Session!Queue(s)
<1>1. PICK s \in Spare : ticket[s] = None /\ QueueTurn(s)
  BY DEF RequeueOrphans
<1>2. s \in TurnId /\ s # None
  BY PipelineAssumption DEF TurnId
<1>3. UNCHANGED <<cancelled, heard>> /\ TaskDone(w) /\ worker[w].pc = "orphans"
  BY DEF RequeueOrphans, history, At
<1>4. worker \in [Worker -> WorkerState]
  BY DEF IInv, TypeOK
<1>5. worker'[w].pc = "idle" /\ \A v \in Worker : v # w => worker'[v] = worker[v]
  BY <1>3, <1>4 DEF TaskDone, IdleWorker
<1>6. /\ \A v \in Worker : worker'[v].pc \in InTurn <=> worker[v].pc \in InTurn
      /\ \A v \in Worker : worker[v].pc \in InTurn => worker'[v].task = worker[v].task
  BY <1>3, <1>5 DEF InTurn
<1>7. InProgress' = InProgress
  BY <1>1, <1>2, <1>6, QueueingIsQueue, ProgressStays
<1>8. SameTurns \/ Session!Queue(s)
  BY <1>1, <1>2, <1>3, <1>7, QueueingIsQueue DEF SameTurns, Session!Queue, Session!Waiting, QueuedRows
<1>9. QED
  BY <1>2, <1>8

LEMMA StartingIsStart ==
  ASSUME IInv, NEW w \in Worker, StartTurn(w)
  PROVE  Session!Start(w, TurnOf(w)) /\ TurnOf(w) \in TurnId
<1>1. /\ worker[w].pc = "locked" /\ row[TurnOf(w)] = "queued"
      /\ row' = [row EXCEPT ![TurnOf(w)] = "running"]
      /\ worker' = [worker EXCEPT ![w].pc = "started"] /\ UNCHANGED <<ticket, cancelled, heard>>
  BY DEF StartTurn, At, Go, ingress, history
<1>2. worker \in [Worker -> WorkerState]
  BY DEF IInv, TypeOK
<1>3. /\ worker'[w].pc = "started" /\ worker'[w].task = worker[w].task
      /\ \A v \in Worker : v # w => worker'[v] = worker[v]
  BY <1>1, <1>2 DEF WorkerState
<1>4. \A v \in Worker : worker[v].pc \notin InTurn
  BY <1>1 DEF IInv, LockHasOneHolder, WantsLock, InTurn
<1>5. \A v \in Worker : InProgress[v] = None
  BY <1>4 DEF InProgress
<1>6. InProgress' = [InProgress EXCEPT ![w] = TurnOf(w)]
  <2> DEFINE turn == TurnOf(w)
             now == [v \in Worker |-> IF v = w THEN turn ELSE None]
  <2>1. ticket'[worker'[w].task] = turn
    BY <1>1, <1>3 DEF TurnOf
  <2>2. "started" \in InTurn
    BY DEF InTurn
  <2>3. \A v \in Worker : v # w => worker'[v].pc \notin InTurn
    BY <1>3, <1>4
  <2>4. InProgress' = [v \in Worker |-> IF worker'[v].pc \in InTurn THEN ticket'[worker'[v].task] ELSE None]
    BY DEF InProgress, TurnOf
  <2> HIDE DEF turn
  <2>5. InProgress' = now
    BY <1>3, <2>1, <2>2, <2>3, <2>4
  <2>6. InProgress = [v \in Worker |-> None]
    BY <1>4 DEF InProgress
  <2>7. [InProgress EXCEPT ![w] = turn] = now
    BY <2>6
  <2>8. QED
    BY <2>5, <2>7 DEF turn
<1>7. TurnOf(w) \in TurnId
  BY <1>1, TurnInProgress
<1>8. QED
  BY <1>1, <1>5, <1>6, <1>7 DEF Session!Start

LEMMA FinishingIsFinish ==
  ASSUME IInv, NEW w \in Worker, FinishTurn(w)
  PROVE  Session!Finish(w)
<1>1. /\ worker[w].pc = "flushed" /\ row' = [row EXCEPT ![TurnOf(w)] = "gone"]
      /\ worker' = [worker EXCEPT ![w].pc = "finished"] /\ UNCHANGED <<ticket, cancelled, heard>>
  BY DEF FinishTurn, At, Go, ingress, history
<1>2. worker \in [Worker -> WorkerState]
  BY DEF IInv, TypeOK
<1>3. worker'[w].pc = "finished" /\ \A v \in Worker : v # w => worker'[v] = worker[v]
  BY <1>1, <1>2 DEF WorkerState
<1>4. InProgress[w] = TurnOf(w) /\ TurnOf(w) # None
  BY <1>1, TurnInProgress DEF InTurn
<1>5. InProgress' = [InProgress EXCEPT ![w] = None]
  <2>1. InProgress' = [v \in Worker |-> IF worker'[v].pc \in InTurn THEN ticket[worker'[v].task] ELSE None]
    BY <1>1 DEF InProgress, TurnOf
  <2>2. InProgress = [v \in Worker |-> IF worker[v].pc \in InTurn THEN ticket[worker[v].task] ELSE None]
    BY DEF InProgress, TurnOf
  <2>3. "finished" \notin InTurn
    BY DEF InTurn
  <2>4. QED
    BY <1>3, <2>1, <2>2, <2>3
<1>6. QED
  BY <1>1, <1>4, <1>5 DEF Session!Finish

LEMMA AnsweringIsAnswer ==
  ASSUME IInv, NEW w \in Worker, ReplyEarly(w) \/ CallLLM(w)
  PROVE  Session!Answer(w)
<1>1. /\ worker[w].pc \in {"building", "draining"} /\ UNCHANGED <<row, ticket, cancelled>>
  BY DEF ReplyEarly, CallLLM, At, ingress
<1>2. worker \in [Worker -> WorkerState] /\ log \subseteq Message /\ inject \in Seq(Message)
      /\ worker[w].seen \subseteq log
  BY DEF IInv, TypeOK
<1>3. /\ worker'[w].pc \in {"leaving", "calling"} /\ worker'[w].task = worker[w].task
      /\ \A v \in Worker : v # w => worker'[v] = worker[v]
  BY <1>2 DEF ReplyEarly, CallLLM, Go, WorkerState
<1>4. InProgress' = InProgress
  BY <1>1, <1>3, OneWorkerMoves DEF InTurn
<1>5. InProgress[w] # None
  BY <1>1, TurnInProgress DEF InTurn
<1>6. \E S \in SUBSET Message : heard' = heard \union S
  <2>1. CASE ReplyEarly(w)
    BY <1>2, <2>1 DEF ReplyEarly
  <2>2. CASE CallLLM(w)
    <3> DEFINE S == worker[w].seen \union {inject[i] : i \in DOMAIN inject}
    <3>1. S \in SUBSET Message
      BY <1>2
    <3>2. heard' = heard \union S
      BY <2>2 DEF CallLLM
    <3> HIDE DEF S
    <3>3. QED
      BY <3>1, <3>2
  <2>3. QED
    BY <2>1, <2>2
<1>7. QED
  BY <1>1, <1>4, <1>5, <1>6 DEF Session!Answer

\* The other steps of a worker.
LEMMA WorkingKeepsTurns ==
  ASSUME IInv, NEW w \in Worker,
         \/ Take(w) \/ LockSession(w) \/ RefuseTurn(w) \/ SetBusy(w) \/ BuildContext(w) \/ ObeyStop(w)
         \/ NextRound(w) \/ EndLoop(w) \/ ClearBusy(w) \/ FlushNotes(w) \/ NoOrphans(w) \/ TakeOrphans(w)
  PROVE  SameTurns
<1>1. UNCHANGED <<row, ticket, cancelled, heard>>
  BY DEF Take, LockSession, RefuseTurn, SetBusy, BuildContext, ObeyStop, NextRound, EndLoop, ClearBusy,
         FlushNotes, NoOrphans, TakeOrphans, ingress, history
<1>2. worker \in [Worker -> WorkerState]
  BY DEF IInv, TypeOK
<1>3. \A v \in Worker : v # w => worker'[v] = worker[v]
  BY <1>2 DEF Take, LockSession, RefuseTurn, SetBusy, BuildContext, ObeyStop, NextRound, EndLoop, ClearBusy,
              FlushNotes, NoOrphans, TakeOrphans, Go, TaskDone
<1>4. CASE Take(w) \/ LockSession(w) \/ RefuseTurn(w) \/ NoOrphans(w) \/ TakeOrphans(w)
  <2>1. worker[w].pc \notin InTurn /\ worker'[w].pc \notin InTurn
    <3>1. worker[w].pc \in {"idle", "taken", "locked", "finished"}
      BY <1>4 DEF Take, LockSession, RefuseTurn, NoOrphans, TakeOrphans, At
    <3>2. worker'[w].pc \in {"taken", "locked", "idle", "orphans"}
      <4>0. CASE Take(w)
        <5> DEFINE r == [IdleWorker EXCEPT !.pc = "taken", !.task = Head(queue)]
        <5>1. worker' = [worker EXCEPT ![w] = r]
          BY <4>0 DEF Take
        <5>2. r.pc = "taken"
          BY DEF IdleWorker
        <5> HIDE DEF r
        <5>3. QED
          BY <1>2, <5>1, <5>2
      <4>1. CASE RefuseTurn(w) \/ NoOrphans(w)
        BY <1>2, <4>1 DEF RefuseTurn, NoOrphans, TaskDone, IdleWorker
      <4>2. CASE LockSession(w) \/ TakeOrphans(w)
        BY <1>2, <4>2 DEF LockSession, TakeOrphans, Go, WorkerState
      <4>3. QED
        BY <1>4, <4>0, <4>1, <4>2
    <3>3. QED
      BY <3>1, <3>2 DEF InTurn
  <2>2. QED
    BY <1>1, <1>3, <2>1, OneWorkerMoves DEF SameTurns
<1>5. CASE \/ SetBusy(w) \/ BuildContext(w) \/ ObeyStop(w) \/ NextRound(w) \/ EndLoop(w) \/ ClearBusy(w)
           \/ FlushNotes(w)
  <2>1. worker[w].pc \in InTurn /\ worker'[w].pc \in InTurn /\ worker'[w].task = worker[w].task
    BY <1>2, <1>5 DEF SetBusy, BuildContext, ObeyStop, NextRound, EndLoop, ClearBusy, FlushNotes, At, Go,
                      InTurn, WorkerState
  <2>2. QED
    BY <1>1, <1>3, <2>1, OneWorkerMoves DEF SameTurns
<1>6. QED
  BY <1>4, <1>5

LEMMA StopIsCancel ==
  ASSUME IInv, RequestStop
  PROVE  Session!Cancel
<1>1. InProgress' = InProgress
  BY DEF RequestStop, InProgress, TurnOf
<1>2. QED
  BY <1>1 DEF RequestStop, Session!Cancel, Session!Waiting, QueuedRows

LEMMA ReapIsReap ==
  ASSUME IInv, ReapStaleTurn
  PROVE  \E t \in TurnId : Session!Reap(t)
<1>1. InProgress' = InProgress /\ UNCHANGED <<cancelled, heard>>
  BY DEF ReapStaleTurn, ingress, history, InProgress, TurnOf
<1>2. QED
  BY <1>1 DEF ReapStaleTurn, Session!Reap

LEMMA RestKeepsTurns ==
  ASSUME IInv, (\E n \in Note : NoteStep(n)) \/ StaleTimerCleanup \/ UNCHANGED vars
  PROVE  SameTurns
<1>1. UNCHANGED <<row, ticket, worker, cancelled, heard>>
  BY DEF NoteStep, CheckNote, HoldNote, WriteNote, StaleTimerCleanup, vars, ingress, history
<1>2. QED
  BY <1>1 DEF SameTurns, InProgress, TurnOf

\* What the many threads of a session do to its turns is what SessionTurns lets them do:
\* a turn is queued once, beside no other queued one, and started once, with no other in
\* progress and no stop before it (queue_turn, start_turn, finish_turn and their callers).
THEOREM TurnsImplementSession == Spec => TurnsAreTheSessions
<1>1. Init => Session!TurnsInit
  BY DEF Init, IdleWorker, InProgress, InTurn, Session!TurnsInit
<1>2. IInv /\ [Next]_vars => [Session!TurnsNext]_(Session!turnVars)
  <2> SUFFICES ASSUME IInv, [Next]_vars PROVE Session!TurnsNext \/ SameTurns
    BY DEF Session!turnVars, SameTurns
  <2>1. ASSUME NEW m \in Message, Save(m) \/ HandlerStep(m) \/ TimerStep(m)
        PROVE  Session!TurnsNext \/ SameTurns
    <3>1. CASE MarkQueued(m)
      BY <3>1, MarkingIsQueue DEF Session!TurnsNext, TurnId
    <3>2. CASE ~MarkQueued(m)
      BY <2>1, <3>2, IngressKeepsTurns DEF HandlerStep
    <3>3. QED
      BY <3>1, <3>2
  <2>2. ASSUME NEW w \in Worker, WorkerStep(w) PROVE Session!TurnsNext \/ SameTurns
    <3>1. CASE StartTurn(w)
      BY <3>1, StartingIsStart DEF Session!TurnsNext
    <3>2. CASE FinishTurn(w)
      BY <3>2, FinishingIsFinish DEF Session!TurnsNext
    <3>3. CASE ReplyEarly(w) \/ CallLLM(w)
      BY <3>3, AnsweringIsAnswer DEF Session!TurnsNext
    <3>4. CASE RequeueOrphans(w)
      BY <3>4, RequeueingIsQueue DEF Session!TurnsNext
    <3>5. CASE ~(StartTurn(w) \/ FinishTurn(w) \/ ReplyEarly(w) \/ CallLLM(w) \/ RequeueOrphans(w))
      BY <2>2, <3>5, WorkingKeepsTurns DEF WorkerStep
    <3>6. QED
      BY <3>1, <3>2, <3>3, <3>4, <3>5
  <2>3. CASE RequestStop \/ ReapStaleTurn
    BY <2>3, StopIsCancel, ReapIsReap DEF Session!TurnsNext
  <2>4. CASE (\E n \in Note : NoteStep(n)) \/ StaleTimerCleanup \/ UNCHANGED vars
    BY <2>4, RestKeepsTurns
  <2>5. QED
    BY <2>1, <2>2, <2>3, <2>4 DEF Next
<1>3. QED
  BY <1>1, <1>2, PipelineInvariant, PTL DEF Spec, TurnsAreTheSessions, Session!TurnsSpec
=============================================================================
