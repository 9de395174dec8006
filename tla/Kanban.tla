-------------------------------- MODULE Kanban --------------------------------
(* The kanban plugin for one agent: the board's rows, the dictionaries that   *)
(* say which task the agent has in hand (plugins/kanban/handler.py), the      *)
(* scans that offer tasks, answer comments and remind of lost tasks, and the  *)
(* agent's own calls of state() and kanban_update_status in its turns.        *)
(* What the agent decides is open: a turn makes any calls that are allowed.   *)
(* Dependencies, delays and the wording of messages are left out; whether a   *)
(* person approved a task, and whether a comment asks for work, is a model's  *)
(* judgement and may turn out either way; so may autopilot, a setting.        *)
EXTENDS Naturals, FiniteSets

CONSTANTS
    Tasks, NoTask,
    MaxActs        \* bound: calls of the agent that change something and moves of people;
                   \* calls that close what was opened are not counted

ASSUME KanbanAssumption == NoTask \notin Tasks

VARIABLES
    status,        \* rows: status of each task; all are assigned to the agent
    completed,     \* rows: tasks with a completed_at
    comments,      \* done tasks with a comment after completed_at that no scan consumed
    pending, active, paused,   \* _pending_tasks, _active_tasks, _paused_tasks
    aged,          \* the agent has an entry in _task_state_since
    inFocus,       \* focus of the persisted agent state
    inTurn,        \* is_agent_busy
    toolEvents,    \* tool_executed events no listener has run for yet
    offer,         \* of each thread that offers tasks: where it is
    scanned,       \* tasks the scan read as todo and has not come to yet
    reminder,      \* the thread of the stale scan, with its snapshot
    acts

board == <<status, completed, comments>>
hand == <<pending, active, paused, aged>>
threads == <<offer, scanned, reminder>>
kanbanVars == <<board, hand, inFocus, inTurn, toolEvents, threads, acts>>

\* An entry of _paused_tasks is the text of an id or, from a tool's result, the
\* number; the dictionaries compare unequal then.
PausedEntries == {[task |-> t, text |-> b] : t \in Tasks, b \in BOOLEAN}
AsText(t) == [task |-> t, text |-> TRUE]
AsNumber(t) == [task |-> t, text |-> FALSE]

Offerers == {"scan", "trigger"}
NoOffer == [at |-> "idle", task |-> NoTask]
NoHand == [pending |-> NoTask, active |-> NoTask, paused |-> NoTask, aged |-> FALSE,
           inFocus |-> FALSE]
NoReminder == [at |-> "idle", task |-> NoTask, was |-> NoHand]

KanbanTypeOK ==
    /\ status \in [Tasks -> {"todo", "in-progress", "paused", "done"}]
    /\ comments \subseteq Tasks /\ completed \subseteq Tasks
    /\ {pending, active} \subseteq Tasks \union {NoTask}
    /\ paused \in PausedEntries \union {NoTask}
    /\ {aged, inFocus, inTurn} \subseteq BOOLEAN
    /\ toolEvents \subseteq Tasks \X {"in-progress", "paused", "done"}
    /\ \A o \in Offerers : /\ offer[o].task \in Tasks \union {NoTask}
                           /\ offer[o].at \in {"idle", "free", "send", "turn", "book",
                                               "judge", "reopen", "tell", "followup", "answered"}
    /\ scanned \subseteq Tasks
    /\ reminder.at \in {"idle", "found", "mark", "send", "turn", "undo", "stuck"}
    /\ acts \in 0 .. MaxActs

KanbanInit ==
    /\ status = [t \in Tasks |-> "todo"] /\ completed = {} /\ comments = {}
    /\ pending = NoTask /\ active = NoTask /\ paused = NoTask /\ aged = FALSE
    /\ inFocus = FALSE /\ inTurn = FALSE /\ toolEvents = {}
    /\ offer = [o \in Offerers |-> NoOffer] /\ scanned = {} /\ reminder = NoReminder
    /\ acts = 0

Act == acts < MaxActs /\ acts' = acts + 1

InHand == {pending, active, paused} # {NoTask}          \* _busy_task_for
Begun == {t \in Tasks : status[t] \in {"in-progress", "done"}}
Started == {t \in Tasks : status[t] = "in-progress"}    \* get_active_task_for_agent

\* A row becomes done: completed_at is written once, and a comment made before
\* it is not looked at any more.
Complete(t) ==
    /\ completed' = completed \union {t}
    /\ comments' = IF t \in completed THEN comments ELSE comments \ {t}

SetStatus(t, s) ==
    /\ status' = [status EXCEPT ![t] = s]
    /\ IF s = "done" THEN Complete(t) ELSE UNCHANGED <<completed, comments>>

-----------------------------------------------------------------------------
(* Turns of the agent.  A turn that ends lets the callers that wait for it go *)
(* on.                                                                        *)

UserTurn ==
    /\ ~inTurn /\ Act /\ inTurn' = TRUE
    /\ UNCHANGED <<board, hand, inFocus, toolEvents, threads>>

AgentTurnEnds ==
    /\ inTurn /\ inTurn' = FALSE
    /\ offer' = [o \in Offerers |->
                    IF offer[o].at = "turn" THEN [offer[o] EXCEPT !.at = "book"]
                    ELSE IF offer[o].at = "followup" THEN [offer[o] EXCEPT !.at = "answered"]
                    ELSE offer[o]]
    /\ reminder' = IF reminder.at = "turn" THEN NoReminder ELSE reminder
    /\ UNCHANGED <<board, hand, inFocus, toolEvents, scanned, acts>>

-----------------------------------------------------------------------------
(* state("kanban:..."): allowed at any time by the tool guard.                *)

Call == inTurn /\ Act

Pick(t) ==
    /\ Call /\ active \in {NoTask, t}
    /\ pending' = t /\ aged' = TRUE
    /\ UNCHANGED <<board, active, paused, inFocus, inTurn, toolEvents, threads>>

\* An approval that is missing refuses the call, which changes nothing.
Activate(t) ==
    /\ Call
    /\ status' = [status EXCEPT ![t] = IF @ = "done" THEN @ ELSE "in-progress"]
    /\ pending' = NoTask /\ active' = t /\ aged' = TRUE /\ inFocus' = TRUE
    /\ UNCHANGED <<completed, comments, paused, inTurn, toolEvents, threads>>

EmptyHand == pending' = NoTask /\ active' = NoTask /\ paused' = NoTask /\ aged' = FALSE

Finish(t) ==
    /\ inTurn /\ status[t] = "done"
    /\ EmptyHand /\ inFocus' = FALSE
    /\ UNCHANGED <<board, inTurn, toolEvents, threads, acts>>

PauseTask(t) ==
    /\ Call /\ active = t
    /\ active' = NoTask /\ paused' = AsText(t) /\ aged' = TRUE /\ inFocus' = FALSE
    /\ IF status[t] = "in-progress" THEN SetStatus(t, "paused") ELSE UNCHANGED board
    /\ UNCHANGED <<pending, inTurn, toolEvents, threads>>

ResumeTask(t) ==
    /\ inTurn /\ paused = AsText(t)
    /\ paused' = NoTask /\ active' = t /\ aged' = TRUE /\ inFocus' = TRUE
    /\ IF status[t] = "paused" THEN SetStatus(t, "in-progress") ELSE UNCHANGED board
    /\ UNCHANGED <<pending, inTurn, toolEvents, threads, acts>>

Postpone(t) ==
    /\ inTurn /\ pending = t /\ pending' = NoTask
    /\ UNCHANGED <<board, active, paused, aged, inFocus, inTurn, toolEvents, threads, acts>>

-----------------------------------------------------------------------------
(* kanban_update_status: guarded, writes the row, and is announced to a       *)
(* listener that runs on a thread of its own.                                 *)

\* _tool_guard.  Without autopilot the call is refused while a task is pending,
\* unless that task has begun: its entry is dropped then.
GuardAllows == paused = NoTask

UpdateStatus(t, s) ==
    /\ Call /\ GuardAllows
    /\ SetStatus(t, s)
    /\ pending' \in {pending} \union (IF pending \in Begun THEN {NoTask} ELSE {})
    /\ toolEvents' = toolEvents \union {<<t, s>>}
    /\ UNCHANGED <<active, paused, aged, inFocus, inTurn, threads>>

\* Any other tool: it may run when a task that is pending has started.
UseTool ==
    /\ inTurn /\ paused = NoTask /\ pending \in Begun /\ pending' = NoTask
    /\ UNCHANGED <<board, active, paused, aged, inFocus, inTurn, toolEvents, threads, acts>>

\* on_tool_executed; events are handled in any order.  (on_kanban_task_updated
\* compares a number with the texts kept here: it clears nothing.)
ToolExecuted(t, s) ==
    /\ <<t, s>> \in toolEvents /\ toolEvents' = toolEvents \ {<<t, s>>}
    /\ \/ /\ s = "in-progress" /\ pending' = NoTask /\ active' = t /\ aged' = TRUE
          /\ UNCHANGED paused
       \/ /\ s = "paused" /\ pending' = NoTask /\ active' = NoTask /\ paused' = AsNumber(t)
          /\ aged' = TRUE
       \/ s = "done" /\ EmptyHand
    /\ UNCHANGED <<board, inFocus, inTurn, threads, acts>>

AgentStep ==
    \/ UseTool
    \/ \E t \in Tasks :
        \/ Pick(t) \/ Activate(t) \/ Finish(t) \/ PauseTask(t) \/ ResumeTask(t) \/ Postpone(t)
        \/ \E s \in {"in-progress", "paused", "done"} : UpdateStatus(t, s)

-----------------------------------------------------------------------------
(* _notify_agent: is the agent free, by the dictionaries and then by the      *)
(* board; send, which waits for the turn it starts; only then book the task.  *)

\* _pre_set_execute_mode: with autopilot a new agent state is written, out of focus.
PreSetMode == inFocus' \in {inFocus, FALSE}

At(o, from, to) == offer[o].at = from /\ offer' = [offer EXCEPT ![o].at = to]
Done(o) == offer' = [offer EXCEPT ![o] = NoOffer]

BeginScan ==
    /\ offer["scan"] = NoOffer /\ scanned = {}
    /\ scanned' = {t \in Tasks : status[t] = "todo"} /\ scanned' # {}
    /\ UNCHANGED <<board, hand, inFocus, inTurn, toolEvents, offer, reminder, acts>>

\* The next task of the scan, which is not read again.
CheckHand(t) ==
    /\ offer["scan"] = NoOffer /\ t \in scanned /\ scanned' = scanned \ {t}
    /\ offer' = IF InHand THEN offer
                ELSE [offer EXCEPT !["scan"] = [at |-> "free", task |-> t]]
    /\ UNCHANGED <<board, hand, inFocus, inTurn, toolEvents, reminder, acts>>

\* A started task on the board is put in the agent's hand.
CheckBoard ==
    /\ IF Started = {} THEN At("scan", "free", "send") /\ UNCHANGED hand
       ELSE /\ offer["scan"].at = "free" /\ Done("scan")
            /\ active' \in Started /\ aged' = TRUE /\ UNCHANGED <<pending, paused>>
    /\ UNCHANGED <<board, inFocus, inTurn, toolEvents, scanned, reminder, acts>>

\* A person triggers the agent: neither check, and what was pending is dropped.
Trigger(t) ==
    /\ offer["trigger"] = NoOffer /\ Act
    /\ offer' = [offer EXCEPT !["trigger"] = [at |-> "send", task |-> t]]
    /\ pending' = NoTask
    /\ UNCHANGED <<board, active, paused, aged, inFocus, inTurn, toolEvents, scanned,
                   reminder>>

\* The message starts a turn, and the sender waits for its end or, when the
\* channel collects messages, does not.
StartOfferedTurn(o) ==
    /\ ~inTurn /\ inTurn' = TRUE
    /\ (At(o, "send", "turn") \/ At(o, "send", "book")) /\ PreSetMode
    /\ UNCHANGED <<board, hand, toolEvents, scanned, reminder, acts>>

\* It joins the turn that runs, or is not sent at all.
OfferWithoutTurn(o) ==
    /\ offer[o].at = "send"
    /\ \/ inTurn /\ At(o, "send", "book")
       \/ Done(o)
    /\ PreSetMode
    /\ UNCHANGED <<board, hand, inTurn, toolEvents, scanned, reminder, acts>>

Book(o) ==
    /\ offer[o].at = "book" /\ Done(o)
    /\ pending' = offer[o].task /\ aged' = TRUE
    /\ UNCHANGED <<board, active, paused, inFocus, inTurn, toolEvents, scanned, reminder, acts>>

-----------------------------------------------------------------------------
(* _scan_comments_for_followup, by the thread of the scan after its tasks.    *)

\* A busy agent's comments are left for a later scan.
ConsumeComment(t) ==
    /\ offer["scan"] = NoOffer /\ scanned = {}
    /\ t \in comments /\ status[t] = "done" /\ ~InHand
    /\ comments' = comments \ {t}
    /\ offer' = [offer EXCEPT !["scan"] = [at |-> "judge", task |-> t]]
    /\ UNCHANGED <<status, completed, hand, inFocus, inTurn, toolEvents, scanned, reminder, acts>>

GiveBack == comments' = comments \union {offer["scan"].task}

\* The model says yes, says no, or does not answer.
JudgeComment ==
    /\ offer["scan"].at = "judge"
    /\ \/ At("scan", "judge", "reopen") /\ UNCHANGED comments
       \/ Done("scan") /\ UNCHANGED comments
       \/ Done("scan") /\ GiveBack
    /\ UNCHANGED <<status, completed, hand, inFocus, inTurn, toolEvents, scanned, reminder, acts>>

Reopen ==
    /\ At("scan", "reopen", "tell")
    /\ status' = [status EXCEPT ![offer["scan"].task] = "in-progress"]
    /\ completed' = completed \ {offer["scan"].task}
    /\ UNCHANGED <<comments, hand, inFocus, inTurn, toolEvents, scanned, reminder, acts>>

\* _notify_agent_followup
TellFollowup ==
    /\ offer["scan"].at = "tell"
    /\ \/ /\ ~InHand /\ UNCHANGED comments
          /\ \/ ~inTurn /\ inTurn' = TRUE /\ At("scan", "tell", "followup")
             \/ inTurn' = TRUE /\ At("scan", "tell", "answered")
       \/ Done("scan") /\ GiveBack /\ UNCHANGED inTurn
    /\ PreSetMode
    /\ UNCHANGED <<status, completed, hand, toolEvents, scanned, reminder, acts>>

BookFollowup ==
    /\ offer["scan"].at = "answered" /\ Done("scan")
    /\ pending' = offer["scan"].task /\ aged' = TRUE
    /\ UNCHANGED <<board, active, paused, inFocus, inTurn, toolEvents, scanned, reminder, acts>>

-----------------------------------------------------------------------------
(* _scan_stale_tasks: tasks that have started and are in nobody's hand, and   *)
(* then a hand that holds a task while the agent has no turn.                 *)

FindLost ==
    /\ reminder = NoReminder /\ ~InHand /\ ~inTurn
    /\ \E t \in Started : reminder' = [NoReminder EXCEPT !.at = "found", !.task = t]
    /\ UNCHANGED <<board, hand, inFocus, inTurn, toolEvents, offer, scanned, acts>>

\* _notify_stale_task looks again whether the agent is busy, and then keeps what
\* it is about to overwrite.
KeepHand ==
    /\ reminder.at = "found"
    /\ reminder' = IF inTurn THEN NoReminder
                   ELSE [reminder EXCEPT !.at = "mark",
                            !.was = [pending |-> pending, active |-> active,
                                     paused |-> paused, aged |-> aged,
                                     inFocus |-> inFocus]]
    /\ UNCHANGED <<board, hand, inFocus, inTurn, toolEvents, offer, scanned, acts>>

MarkActive ==
    /\ reminder.at = "mark" /\ reminder' = [reminder EXCEPT !.at = "send"]
    /\ pending' = NoTask /\ active' = reminder.task /\ paused' = NoTask /\ aged' = TRUE
    /\ PreSetMode
    /\ UNCHANGED <<board, inTurn, toolEvents, offer, scanned, acts>>

Remind ==
    /\ reminder.at = "send" /\ ~inTurn /\ inTurn' = TRUE
    /\ reminder' = [reminder EXCEPT !.at = "turn"]
    /\ UNCHANGED <<board, hand, inFocus, toolEvents, offer, scanned, acts>>

\* Not sent, joined a turn that runs, or collected for a later one.
RemindWithoutTurn ==
    /\ reminder.at = "send" /\ inTurn' \in BOOLEAN /\ (inTurn => inTurn')
    /\ reminder' = [reminder EXCEPT !.at = "undo"]
    /\ UNCHANGED <<board, hand, inFocus, toolEvents, offer, scanned, acts>>

\* _rollback_reservation; with autopilot it writes back the agent's old state.
RollBack ==
    /\ reminder.at = "undo" /\ reminder' = NoReminder
    /\ active' = reminder.was.active /\ aged' = reminder.was.aged
    /\ pending' = IF reminder.was.pending = NoTask THEN pending ELSE reminder.was.pending
    /\ paused' = IF reminder.was.paused = NoTask THEN paused ELSE reminder.was.paused
    /\ inFocus' \in {inFocus, reminder.was.inFocus}
    /\ UNCHANGED <<board, inTurn, toolEvents, offer, scanned, acts>>

FindStuck ==
    /\ reminder = NoReminder /\ {pending, active} # {NoTask} /\ aged /\ ~inTurn
    /\ reminder' = [NoReminder EXCEPT !.at = "stuck"]
    /\ UNCHANGED <<board, hand, inFocus, inTurn, toolEvents, offer, scanned, acts>>

MutClearStuck ==
    /\ reminder.at = "stuck" /\ reminder' = NoReminder
    /\ pending' = NoTask /\ inFocus' = FALSE
    /\ UNCHANGED <<board, active, paused, aged, inTurn, toolEvents, offer, scanned, acts>>

ClearStuck ==
    /\ reminder.at = "stuck" /\ reminder' = NoReminder
    /\ pending' = NoTask /\ active' = NoTask /\ aged' = FALSE /\ inFocus' = FALSE
    /\ UNCHANGED <<board, paused, inTurn, toolEvents, offer, scanned, acts>>

-----------------------------------------------------------------------------
(* People at the board. *)

Edit(t, s) ==
    /\ Act /\ s # status[t] /\ SetStatus(t, s)
    /\ UNCHANGED <<hand, inFocus, inTurn, toolEvents, threads>>

Comment(t) ==
    /\ Act
    /\ status[t] = "done" /\ t \in completed /\ comments' = comments \union {t}
    /\ UNCHANGED <<status, completed, hand, inFocus, inTurn, toolEvents, threads>>

Unfocus ==
    /\ inFocus /\ Act /\ inFocus' = FALSE
    /\ UNCHANGED <<board, hand, inTurn, toolEvents, threads>>

PeopleStep ==
    \/ UserTurn \/ Unfocus
    \/ \E t \in Tasks : \/ Trigger(t) \/ Comment(t)
                        \/ \E s \in {"todo", "in-progress", "paused", "done"} : Edit(t, s)

\* The steps of a thread that has begun.
OfferStep(o) ==
    \/ o = "scan" /\ (CheckBoard \/ \E t \in Tasks : CheckHand(t))
    \/ StartOfferedTurn(o) \/ OfferWithoutTurn(o) \/ Book(o)
    \/ o = "scan" /\ (JudgeComment \/ Reopen \/ TellFollowup \/ BookFollowup)

ReminderStep == KeepHand \/ MarkActive \/ Remind \/ RemindWithoutTurn \/ RollBack \/ ClearStuck

BoardEvent ==
    \E t \in Tasks, s \in {"in-progress", "paused", "done"} : ToolExecuted(t, s)

KanbanNext ==
    \/ PeopleStep \/ AgentStep \/ AgentTurnEnds \/ BoardEvent
    \/ BeginScan \/ \E t \in Tasks : ConsumeComment(t)
    \/ \E o \in Offerers : OfferStep(o)
    \/ FindLost \/ FindStuck \/ ReminderStep

\* The two schedules fire and their threads go on; a message that is sent again
\* and again starts a turn.  The reminders' schedule fires more often than that of
\* the offers, so that it meets an empty hand.  Nothing is asked of turns, of the
\* event threads or of people.
KanbanFairness ==
    /\ SF_kanbanVars(BeginScan) /\ WF_kanbanVars(OfferStep("scan"))
    /\ SF_kanbanVars(StartOfferedTurn("scan"))
    /\ SF_kanbanVars(FindLost) /\ WF_kanbanVars(FindStuck)
    /\ WF_kanbanVars(ReminderStep) /\ SF_kanbanVars(Remind)

KanbanSpec == KanbanInit /\ [][KanbanNext]_kanbanVars /\ KanbanFairness

-----------------------------------------------------------------------------
(* Properties *)

\* A hand that holds a task has an age, so that the stale scan can empty it.
\* Refuted: a roll-back takes the age of what was booked since the reminder.
HandHasAge == {pending, active} # {NoTask} => aged

\* The agent has no turn, there is work on the board, nothing is paused, and
\* what it has in hand can be found stale.
WorkWaits ==
    /\ ~inTurn /\ paused = NoTask /\ HandHasAge
    /\ \E t \in Tasks : status[t] \in {"todo", "in-progress"}

\* Work does not wait forever: the scans offer a task, remind of it, or empty
\* the agent's hand until one of them can.
WorkIsOffered == WorkWaits ~> ~WorkWaits

\* An agent that rests in focus mode has a task in hand.  Refuted: a task is
\* done, its listener empties the hand, and the turn ends without kanban:finish;
\* no scan looks at such an agent.
FocusHasTask == inFocus /\ ~inTurn => InHand

\* A paused task can be resumed.  Refuted: a pause by kanban_update_status.
PausedTaskResumes == paused # NoTask => paused.text

\* A comment that no scan consumed is not passed over.  Refuted: a task that was
\* reopened, but whose agent could not be told, is completed again.
CommentIsNotPassedOver ==
    [][comments \ comments' # {} => offer'["scan"].at = "judge"]_kanbanVars

=============================================================================
