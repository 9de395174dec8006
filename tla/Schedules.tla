------------------------------ MODULE Schedules ------------------------------
(* Scheduler: one persisted schedule, its APScheduler job, the timer thread   *)
(* and a run_now caller that may execute it at the same time, the user who    *)
(* toggles, moves or cancels it, and a process that crashes and reloads the   *)
(* schedule from the database.                                                *)
EXTENDS Naturals

CONSTANTS
    MaxRuns,    \* max_runs of a chain or interval (a one-shot has 1)
    MaxEdits    \* bound on toggles, updates and crashes, each

ASSUME ScheduleAssumption == MaxRuns \in Nat \ {0} /\ MaxEdits \in Nat

VARIABLES
    trigger,    \* "date", "interval" or "auto_extend"
    plan,       \* the row: whether it exists and is enabled, run_count, and
                \* whether run_date is ahead or past its misfire grace
    armed,      \* APScheduler has a job of the schedule
    lastLog,    \* whether the latest log says running, and the execution that wrote it
    execution,  \* of "timer" and "manual": where _execute_action is, and what it read
    schedUp,    \* the process runs
    edits,      \* toggles, updates and crashes so far
    actionRuns, \* history: actions started
    extraRuns,  \* history: times it was enabled again, and runs a crash left uncounted
    overlapped  \* history: a run was counted from a count that was no longer the row's

schedVars == <<trigger, plan, armed, lastLog, execution, schedUp, edits, actionRuns,
               extraRuns, overlapped>>

Executors == {"timer", "manual"}
NotRunning == [at |-> "idle", count |-> 0, ok |-> FALSE, slow |-> FALSE, last |-> FALSE,
               stale |-> FALSE]
ExecPlace == {"idle", "check", "log", "act", "close", "count", "arm"}
Quiet == \A e \in Executors : execution[e].at = "idle"
RunLimit == IF trigger = "date" THEN 1 ELSE MaxRuns

SchedTypeOK ==
    /\ trigger \in {"date", "interval", "auto_extend"}
    /\ plan \in [exists : BOOLEAN, enabled : BOOLEAN, count : Nat, due : {"ahead", "missed"}]
    /\ armed \in BOOLEAN /\ schedUp \in BOOLEAN /\ overlapped \in BOOLEAN
    /\ lastLog \in [by : Executors \union {"none"}, running : BOOLEAN]
    /\ execution \in [Executors -> [at : ExecPlace, count : Nat, ok : BOOLEAN, slow : BOOLEAN,
                                  last : BOOLEAN, stale : BOOLEAN]]
    /\ {actionRuns, extraRuns} \subseteq Nat
    /\ schedUp \/ ~armed

SchedInit ==
    /\ trigger \in {"date", "interval", "auto_extend"}
    /\ plan = [exists |-> TRUE, enabled |-> TRUE, count |-> 0, due |-> "ahead"]
    /\ armed = TRUE /\ lastLog = [by |-> "none", running |-> FALSE]
    /\ execution = [e \in Executors |-> NotRunning]
    /\ schedUp = TRUE /\ edits = [toggle |-> 0, update |-> 0, crash |-> 0]
    /\ actionRuns = 0 /\ extraRuns = 0 /\ overlapped = FALSE

Move(e, place) == execution' = [execution EXCEPT ![e].at = place]
Leave(e) == execution' = [execution EXCEPT ![e] = NotRunning]
May(kind) == edits[kind] < MaxEdits /\ edits' = [edits EXCEPT ![kind] = @ + 1]

-----------------------------------------------------------------------------
(* _execute_action. *)

\* The row is read; a schedule that is gone or disabled is not run.
Enter(e) ==
    IF plan.exists /\ plan.enabled
    THEN execution' = [execution EXCEPT ![e] =
            [NotRunning EXCEPT !.at = IF trigger = "auto_extend" THEN "check" ELSE "act",
                               !.count = plan.count]]
    ELSE UNCHANGED execution

\* The job of a date fires once and is gone, also when its last run is still
\* going on and this one is skipped (max_instances).
TimerFires ==
    /\ schedUp /\ armed /\ plan.due = "ahead"
    /\ armed' = (trigger = "interval")
    /\ IF execution["timer"].at = "idle" THEN Enter("timer") ELSE UNCHANGED execution
    /\ UNCHANGED <<trigger, plan, lastLog, schedUp, edits, actionRuns, extraRuns, overlapped>>

\* A date more than the grace time ago is not run, and the job is gone.
Misfire ==
    /\ schedUp /\ armed /\ plan.due = "missed" /\ armed' = FALSE
    /\ UNCHANGED <<trigger, plan, lastLog, execution, schedUp, edits, actionRuns, extraRuns, overlapped>>

RunNow ==
    /\ schedUp /\ plan.exists /\ execution["manual"].at = "idle" /\ Enter("manual")
    /\ UNCHANGED <<trigger, plan, armed, lastLog, schedUp, edits, actionRuns, extraRuns, overlapped>>

\* A chain looks at its latest log and at the agent.  The end that a disabled
\* agent puts to it counts from the count read at the start, too.
PreviousStillRuns(e) ==
    /\ execution[e].at = "check" /\ lastLog.running /\ Leave(e)
    /\ UNCHANGED <<trigger, plan, armed, lastLog, schedUp, edits, actionRuns, extraRuns, overlapped>>

AgentDisabled(e) ==
    /\ execution[e].at = "check" /\ ~lastLog.running /\ Leave(e)
    /\ lastLog' = [by |-> e, running |-> FALSE]
    /\ plan' = [plan EXCEPT !.count = IF plan.exists THEN execution[e].count + 1 ELSE @, !.enabled = FALSE]
    /\ armed' = FALSE /\ overlapped' = (overlapped \/ execution[e].stale)
    /\ UNCHANGED <<trigger, schedUp, edits, actionRuns, extraRuns>>

PassCheck(e) ==
    /\ execution[e].at = "check" /\ ~lastLog.running /\ Move(e, "log")
    /\ UNCHANGED <<trigger, plan, armed, lastLog, schedUp, edits, actionRuns, extraRuns, overlapped>>

OpenLog(e) ==
    /\ execution[e].at = "log" /\ Move(e, "act")
    /\ lastLog' = [by |-> e, running |-> TRUE]
    /\ UNCHANGED <<trigger, plan, armed, schedUp, edits, actionRuns, extraRuns, overlapped>>

\* The action: it may fail, take longer than the interval and the grace time,
\* or be a monitor that has resolved and asks for the schedule's end.
Act(e, ok, slow, last) ==
    /\ execution[e].at = "act"
    /\ (last => trigger = "interval" /\ ok) /\ (slow => trigger = "auto_extend" /\ ok)
    /\ execution' = [execution EXCEPT ![e] =
            [@ EXCEPT !.at = "close", !.ok = ok, !.slow = slow, !.last = last]]
    /\ actionRuns' = actionRuns + 1
    /\ overlapped' = (overlapped \/ execution[e].stale
                       \/ \E x \in Executors \ {e} : execution[x].at \in {"close", "count"})
    /\ UNCHANGED <<trigger, plan, armed, lastLog, schedUp, edits, extraRuns>>

CloseLog(e) ==
    /\ execution[e].at = "close" /\ Move(e, "count")
    /\ lastLog' = IF trigger # "auto_extend" THEN [by |-> e, running |-> FALSE]
                  ELSE IF lastLog.by = e THEN [lastLog EXCEPT !.running = FALSE] ELSE lastLog
    /\ UNCHANGED <<trigger, plan, armed, schedUp, edits, actionRuns, extraRuns, overlapped>>

\* The limit is checked one run late.
MutLimitReached(n) == n > RunLimit
LimitReached(n) == n >= RunLimit

\* The count read at the start is written back, plus one; the limit or a failed
\* link of a chain disables the schedule; a chain sets its next date.
CountRun(e) ==
    /\ execution[e].at = "count"
    /\ LET n       == execution[e].count + 1
           stops   == LimitReached(n) \/ (trigger = "auto_extend" /\ ~execution[e].ok)
           extends == trigger = "auto_extend" /\ ~stops
           ends    == execution[e].last
       IN /\ plan' = IF ~plan.exists THEN plan
                     ELSE [plan EXCEPT !.count = n, !.enabled = @ /\ ~stops,
                             !.exists = ~ends,
                             !.due = IF ~extends THEN @
                                     ELSE IF execution[e].slow THEN "missed" ELSE "ahead"]
          /\ armed' = (armed /\ ~stops /\ ~ends)
          /\ execution' = [x \in Executors |->
                IF x = e THEN [NotRunning EXCEPT !.at = IF extends THEN "arm" ELSE "idle"]
                ELSE [execution[x] EXCEPT !.stale = @ \/ execution[x].at # "idle"]]
    /\ UNCHANGED <<trigger, lastLog, schedUp, edits, actionRuns, extraRuns, overlapped>>

ArmNext(e) ==
    /\ execution[e].at = "arm" /\ Leave(e)
    /\ armed' = (armed \/ plan.exists)
    /\ UNCHANGED <<trigger, plan, lastLog, schedUp, edits, actionRuns, extraRuns, overlapped>>

-----------------------------------------------------------------------------
(* The user, time and the process. *)

Toggle ==
    /\ schedUp /\ plan.exists /\ May("toggle")
    /\ plan' = [plan EXCEPT !.enabled = ~@] /\ armed' = ~plan.enabled
    /\ extraRuns' = IF plan.enabled THEN extraRuns ELSE extraRuns + 1
    /\ UNCHANGED <<trigger, lastLog, execution, schedUp, actionRuns, overlapped>>

\* update_schedule with a new date; a disabled schedule gets no job.
UpdateSchedule ==
    /\ schedUp /\ plan.exists /\ May("update")
    /\ plan' = [plan EXCEPT !.due = "ahead"] /\ armed' = (armed \/ plan.enabled)
    /\ UNCHANGED <<trigger, lastLog, execution, schedUp, actionRuns, extraRuns, overlapped>>

CancelSchedule ==
    /\ schedUp /\ plan.exists
    /\ plan' = [plan EXCEPT !.exists = FALSE] /\ armed' = FALSE
    /\ lastLog' = [by |-> "none", running |-> FALSE]
    /\ UNCHANGED <<trigger, execution, schedUp, edits, actionRuns, extraRuns, overlapped>>

\* A date passes while there is no job to run it.
DatePasses ==
    /\ ~armed /\ trigger # "interval" /\ plan.due = "ahead"
    /\ plan' = [plan EXCEPT !.due = "missed"]
    /\ UNCHANGED <<trigger, armed, lastLog, execution, schedUp, edits, actionRuns, extraRuns, overlapped>>

SchedCrash ==
    /\ schedUp /\ May("crash")
    /\ schedUp' = FALSE /\ armed' = FALSE
    /\ extraRuns' = IF \E e \in Executors : execution[e].at \in {"close", "count"}
                    THEN extraRuns + 1 ELSE extraRuns
    /\ execution' = [e \in Executors |-> NotRunning]
    /\ lastLog' = [lastLog EXCEPT !.by = "none"]
    /\ UNCHANGED <<trigger, plan, actionRuns, overlapped>>

\* _load_from_db: an expired one-shot is disabled, a past-due chain gets a new
\* date, and every other enabled schedule its job.
LoadFromDb ==
    /\ ~schedUp /\ schedUp' = TRUE
    /\ LET late == plan.due = "missed" /\ plan.enabled
       IN /\ plan' = IF late /\ trigger = "date" THEN [plan EXCEPT !.enabled = FALSE]
                     ELSE IF late /\ trigger = "auto_extend" THEN [plan EXCEPT !.due = "ahead"]
                     ELSE plan
          /\ armed' = (plan.exists /\ plan'.enabled)
    /\ UNCHANGED <<trigger, lastLog, execution, edits, actionRuns, extraRuns, overlapped>>

ExecStep(e) ==
    \/ PreviousStillRuns(e) \/ AgentDisabled(e) \/ PassCheck(e) \/ OpenLog(e)
    \/ \E ok, slow, last \in BOOLEAN : Act(e, ok, slow, last)
    \/ CloseLog(e) \/ CountRun(e) \/ ArmNext(e)

SchedNext ==
    \/ \E e \in Executors : ExecStep(e)
    \/ TimerFires \/ Misfire \/ RunNow
    \/ Toggle \/ UpdateSchedule \/ CancelSchedule \/ DatePasses
    \/ SchedCrash \/ LoadFromDb

SchedSpec == SchedInit /\ [][SchedNext]_schedVars

-----------------------------------------------------------------------------
(* Properties. *)

\* Unless run_now overlapped another execution and wrote back the count it had
\* read, a schedule acts max_runs times, plus once for each time it was enabled
\* again and for each run whose count a crash took.
RunsWithinMax == overlapped \/ actionRuns <= RunLimit + extraRuns

\* "Calculate next run date from completion time" (scheduler.py): while a chain
\* is enabled and not at work, it has a job that takes it on.
ChainGoesOn ==
    trigger = "auto_extend" /\ plan.exists /\ plan.enabled /\ schedUp /\ Quiet => armed
=============================================================================
