----------------------------- MODULE SessionState -----------------------------
(* Two JSON rows of an agent's database and their writers.  agent_state holds *)
(* what all sessions share: focus, the fallback model in use, and what whole  *)
(* AgentStates written there left behind.  session_state holds mode, plan,    *)
(* goal and preferences of one session.  Turns keep an AgentState in memory   *)
(* and merge it into both rows; slash commands, web requests, the kanban      *)
(* plugin and the goal gate read a row, change it and write it back, each in  *)
(* its own thread and without a lock.  Tasks, states and CMP paths go where   *)
(* mode and plan go; "fast" stands for every preference of a session.         *)
EXTENDS Naturals, FiniteSets

CONSTANTS
    Chat,          \* sessions
    TurnsAtOnce,   \* max_concurrent_llm_per_agent, 0: no limit
    NudgeBudget,   \* max_goal_nudges
    MaxTurnSteps,  \* bound on turns, tool calls and answers
    MaxCommands    \* bound on commands and requests

ASSUME SessionStateAssumption == {TurnsAtOnce, NudgeBudget, MaxTurnSteps, MaxCommands} \subseteq Nat

VARIABLES
    agentRow, chatRow,
    turn,      \* the turn of each session: its place, its AgentState, what it last read
    cmd,       \* the thread of commands, likewise
    turnSteps,
    cmdsBegun, \* commands and requests so far
    goals,     \* goals set so far
    told       \* history, by session: the goal and the preference last asked for, whether a
               \* command allowed execute mode, whether a write lost another

stateVars == <<agentRow, chatRow, turn, cmd, turnSteps, cmdsBegun, goals, told>>
bounds == <<turnSteps, cmdsBegun, goals>>

FreshWork == [mode |-> "plan", plan |-> FALSE, trivial |-> FALSE]
NoGoal == [id |-> 0, used |-> 0]

\* A row that is not there reads as its defaults; "own": the keys of AgentState are in it.
NoAgentRow == [there |-> FALSE, work |-> FreshWork, focus |-> FALSE, fallback |-> FALSE]
NoChatRow == [there |-> FALSE, own |-> FALSE, work |-> FreshWork, goal |-> NoGoal, fast |-> FALSE]

NoTurn == [at |-> "idle", then |-> "loop", work |-> FreshWork, focus |-> FALSE, goal |-> NoGoal,
           agent |-> NoAgentRow, chat |-> NoChatRow, nudged |-> 0, onFallback |-> FALSE,
           outdated |-> FALSE]
NoCommand == [at |-> "idle", op |-> "none", c |-> CHOOSE c \in Chat : TRUE, work |-> FreshWork,
              agent |-> NoAgentRow, chat |-> NoChatRow]
ToldNothing == [goal |-> 0, fast |-> FALSE, earned |-> FALSE, torn |-> FALSE]

WorkPlans == [mode : {"plan", "execute"}, plan : BOOLEAN, trivial : BOOLEAN]
AgentRows == [there : BOOLEAN, work : WorkPlans, focus : BOOLEAN, fallback : BOOLEAN]
ChatRows == [there : BOOLEAN, own : BOOLEAN, work : WorkPlans, fast : BOOLEAN,
             goal : [id : 0 .. MaxCommands, used : 0 .. NudgeBudget]]

StateTypeOK ==
    /\ agentRow \in AgentRows /\ chatRow \in [Chat -> ChatRows]
    /\ \A c \in Chat : turn[c].agent \in AgentRows /\ turn[c].chat \in ChatRows
    /\ cmd.agent \in AgentRows /\ cmd.chat \in ChatRows /\ goals \in 0 .. MaxCommands

StateInit ==
    /\ agentRow = NoAgentRow /\ chatRow = [c \in Chat |-> NoChatRow]
    /\ turn = [c \in Chat |-> NoTurn] /\ cmd = NoCommand
    /\ turnSteps = 0 /\ cmdsBegun = 0 /\ goals = 0
    /\ told = [c \in Chat |-> ToldNothing]

TurnAt(c, place) == turn[c].at = place
TurnGoes(c, place) == turn' = [turn EXCEPT ![c].at = place]
Active(c) == ~TurnAt(c, "idle")

\* get_session_state: a session without a row gets one from the row of the agent.
Migrated(c) ==
    IF chatRow[c].there \/ ~agentRow.there THEN chatRow[c]
    ELSE [NoChatRow EXCEPT !.there = TRUE, !.own = TRUE, !.work = agentRow.work]

ReadChat(c) == chatRow' = [chatRow EXCEPT ![c] = Migrated(c)]

\* A row is written over whatever was written since it was read.
WriteChat(c, new) == chatRow' = [chatRow EXCEPT ![c] = [new EXCEPT !.there = TRUE]]
Torn(c, read) == told[c].torn \/ chatRow[c] # read

-----------------------------------------------------------------------------
(* A turn. *)

\* _restore_agent_state reads the agent's row first.
BeginTurn(c) ==
    /\ TurnAt(c, "idle") /\ turnSteps < MaxTurnSteps /\ turnSteps' = turnSteps + 1
    /\ TurnsAtOnce = 0 \/ Cardinality({d \in Chat : Active(d)}) < TurnsAtOnce
    /\ turn' = [turn EXCEPT ![c] = [NoTurn EXCEPT !.at = "restore", !.agent = agentRow]]
    /\ UNCHANGED <<agentRow, chatRow, cmd, cmdsBegun, goals, told>>

\* A turn with neither row is classified; a plan is approved by its message; a task
\* of the system begins a new plan.
MutRestored(work, new, asks) ==
    CASE new -> IF asks = "trivial" THEN [mode |-> "execute", plan |-> FALSE, trivial |-> TRUE]
                ELSE FreshWork
      [] ~new /\ work.mode = "plan" /\ asks = "approves" -> [work EXCEPT !.mode = "execute"]
      [] ~new /\ work.mode = "plan" /\ asks = "task" -> FreshWork
      [] OTHER -> work

Restored(work, new, asks) ==
    CASE new -> IF asks = "trivial" THEN [mode |-> "execute", plan |-> FALSE, trivial |-> TRUE]
                ELSE FreshWork
      [] ~new /\ work.mode = "plan" /\ asks = "approves" ->
           IF work.plan THEN [work EXCEPT !.mode = "execute"] ELSE work
      [] ~new /\ work.mode = "plan" /\ asks = "task" -> FreshWork
      [] OTHER -> work

RestoreState(c, asks) ==
    LET row == Migrated(c)
        read == turn[c].agent
        work == IF row.own THEN row.work ELSE read.work
        new == ~read.there /\ ~row.there
        reset == ~new /\ work.mode = "plan" /\ asks = "task"
    IN  /\ TurnAt(c, "restore") /\ ReadChat(c)
        /\ turn' = [turn EXCEPT ![c].at = "fallback", ![c].work = Restored(work, new, asks),
                                ![c].focus = read.focus /\ ~reset,
                                ![c].goal = IF reset THEN NoGoal ELSE row.goal]
        /\ UNCHANGED <<agentRow, cmd, bounds, told>>

\* A turn that finds a fallback in use tries the primary model first: seconds pass
\* between the reading of the row and its writing.
CheckFallback(c) ==
    /\ TurnAt(c, "fallback")
    /\ turn' = [turn EXCEPT ![c].agent = agentRow,
                            ![c].at = IF agentRow.fallback THEN "probe" ELSE "loop"]
    /\ UNCHANGED <<agentRow, chatRow, cmd, bounds, told>>

ProbeFails(c) ==
    /\ TurnAt(c, "probe") /\ turn' = [turn EXCEPT ![c].at = "loop", ![c].onFallback = TRUE]
    /\ UNCHANGED <<agentRow, chatRow, cmd, bounds, told>>

PrimaryRecovered(c) ==
    /\ TurnAt(c, "probe") /\ TurnGoes(c, "loop")
    /\ agentRow' = [turn[c].agent EXCEPT !.fallback = FALSE]
    /\ UNCHANGED <<chatRow, cmd, bounds, told>>

FallbackSucceeds(c) ==
    /\ TurnAt(c, "loop") /\ ~turn[c].onFallback
    /\ turn' = [turn EXCEPT ![c].at = "keepFallback", ![c].agent = agentRow, ![c].onFallback = TRUE]
    /\ UNCHANGED <<agentRow, chatRow, cmd, bounds, told>>

KeepFallback(c) ==
    /\ TurnAt(c, "keepFallback") /\ TurnGoes(c, "loop")
    /\ agentRow' = [turn[c].agent EXCEPT !.there = TRUE, !.fallback = TRUE]
    /\ UNCHANGED <<chatRow, cmd, bounds, told>>

\* set_mode and save_plan, by what becomes of mode and plan.
ModesAfter(work) ==
    {[work EXCEPT !.mode = "plan"], [work EXCEPT !.plan = TRUE]}
    \union (IF work.plan THEN {[work EXCEPT !.mode = "execute"]}
            ELSE {[work EXCEPT !.mode = "execute", !.trivial = TRUE]})

\* A tool that changes the state, or the state(...) of the kanban plugin, which
\* turns focus on and off; the rows follow at once.
ChangeState(c) ==
    /\ TurnAt(c, "loop") /\ turnSteps < MaxTurnSteps /\ turnSteps' = turnSteps + 1
    /\ \/ \E w \in ModesAfter(turn[c].work) :
            turn' = [turn EXCEPT ![c].at = "readAgent", ![c].work = w, ![c].then = "loop"]
       \/ \E on \in BOOLEAN :
            turn' = [turn EXCEPT ![c].at = "readAgent", ![c].focus = on, ![c].then = "loop"]
    /\ UNCHANGED <<agentRow, chatRow, cmd, cmdsBegun, goals, told>>

\* _persist_agent_state_split, in four steps.
PersistReadAgent(c) ==
    /\ TurnAt(c, "readAgent")
    /\ turn' = [turn EXCEPT ![c].at = "writeAgent", ![c].agent = agentRow]
    /\ UNCHANGED <<agentRow, chatRow, cmd, bounds, told>>

PersistAgent(c) ==
    /\ TurnAt(c, "writeAgent") /\ TurnGoes(c, "readChat")
    /\ agentRow' = [turn[c].agent EXCEPT !.there = TRUE, !.focus = turn[c].focus]
    /\ UNCHANGED <<chatRow, cmd, bounds, told>>

PersistReadChat(c) ==
    /\ TurnAt(c, "readChat") /\ ReadChat(c)
    /\ turn' = [turn EXCEPT ![c].at = "writeChat", ![c].chat = Migrated(c)]
    /\ UNCHANGED <<agentRow, cmd, bounds, told>>

\* The row is written anew, without the keys of others.
MutPersistChat(c) ==
    /\ TurnAt(c, "writeChat")
    /\ WriteChat(c, [NoChatRow EXCEPT !.own = TRUE, !.work = turn[c].work])
    /\ told' = [told EXCEPT ![c].torn = Torn(c, turn[c].chat)]
    /\ turn' = IF turn[c].then = "end" THEN [turn EXCEPT ![c] = NoTurn]
               ELSE [turn EXCEPT ![c].at = "loop"]
    /\ UNCHANGED <<agentRow, cmd, bounds>>

PersistChat(c) ==
    /\ TurnAt(c, "writeChat")
    /\ WriteChat(c, [turn[c].chat EXCEPT !.own = TRUE, !.work = turn[c].work])
    /\ told' = [told EXCEPT ![c].torn = Torn(c, turn[c].chat)]
    /\ turn' = IF turn[c].then = "end" THEN [turn EXCEPT ![c] = NoTurn]
               ELSE [turn EXCEPT ![c].at = "loop"]
    /\ UNCHANGED <<agentRow, cmd, bounds>>

\* _persist_context_usage, after a call of the model.
ReadForUsage(c) ==
    /\ TurnAt(c, "loop") /\ turnSteps < MaxTurnSteps /\ turnSteps' = turnSteps + 1 /\ ReadChat(c)
    /\ turn' = [turn EXCEPT ![c].at = "usage", ![c].chat = Migrated(c)]
    /\ UNCHANGED <<agentRow, cmd, cmdsBegun, goals, told>>

WriteUsage(c) ==
    /\ TurnAt(c, "usage") /\ TurnGoes(c, "loop") /\ WriteChat(c, turn[c].chat)
    /\ told' = [told EXCEPT ![c].torn = Torn(c, turn[c].chat)]
    /\ UNCHANGED <<agentRow, cmd, bounds>>

\* A candidate answer: with a goal it is judged, without one it is final.
CandidateAnswer(c) ==
    /\ TurnAt(c, "loop")
    /\ turn' = [turn EXCEPT ![c].at = IF turn[c].goal = NoGoal THEN "readAgent" ELSE "judge",
                            ![c].then = "end"]
    /\ UNCHANGED <<agentRow, chatRow, cmd, bounds, told>>

\* The ways out that keep nothing.
LeaveTurn(c) ==
    /\ TurnAt(c, "loop") /\ turn' = [turn EXCEPT ![c] = NoTurn]
    /\ UNCHANGED <<agentRow, chatRow, cmd, bounds, told>>

\* evaluate_active_goal: an evaluator that fails, or a stop, keeps the goal.
Exhausted(goal) == goal.used >= NudgeBudget

Judge(c, verdict) ==
    LET nudge == verdict = "continue" /\ ~Exhausted(turn[c].goal)
    IN  /\ TurnAt(c, "judge")
        /\ turn' = [turn EXCEPT
             ![c].at = CASE verdict = "failed" -> "readAgent" [] nudge -> "nudge" [] OTHER -> "clear",
             ![c].goal.used = IF nudge THEN @ + 1 ELSE @,
             ![c].nudged = IF nudge THEN @ + 1 ELSE @]
        /\ UNCHANGED <<agentRow, chatRow, cmd, bounds, told>>

\* record_goal_nudge and clear_active_goal read the row, and write it with their goal.
ReadForGoal(c) ==
    /\ TurnAt(c, "nudge") \/ TurnAt(c, "clear")
    /\ ReadChat(c)
    /\ turn' = [turn EXCEPT ![c].at = IF TurnAt(c, "nudge") THEN "writeNudge" ELSE "writeClear",
                            ![c].chat = Migrated(c)]
    /\ UNCHANGED <<agentRow, cmd, bounds, told>>

WriteGoal(c) ==
    LET nudge == TurnAt(c, "writeNudge")
        goal == IF nudge THEN turn[c].goal ELSE NoGoal
    IN  /\ TurnAt(c, "writeNudge") \/ TurnAt(c, "writeClear")
        /\ WriteChat(c, [turn[c].chat EXCEPT !.goal = goal])
        /\ told' = [told EXCEPT ![c].torn = Torn(c, turn[c].chat)
                                            \/ turn[c].chat.goal.id # turn[c].goal.id,
                                ![c].goal = goal.id]
        /\ turn' = [turn EXCEPT ![c].at = IF nudge THEN "loop" ELSE "readAgent", ![c].goal = goal]
        /\ UNCHANGED <<agentRow, cmd, bounds>>

-----------------------------------------------------------------------------
(* Commands and requests, one after the other in a thread of their own. *)

Ops == {"plan", "exec", "goal", "fast", "clear", "webclear", "agentclear", "unfocus", "reset",
        "preset"}
CmdAt(place) == cmd.at = place
Asks(op) == cmd.op = op
CmdGoes(place) == cmd' = [cmd EXCEPT !.at = place]
CmdDone == cmd' = NoCommand

BeginCommand(op, c, place) ==
    /\ CmdAt("idle") /\ cmdsBegun < MaxCommands /\ cmdsBegun' = cmdsBegun + 1
    /\ cmd' = [NoCommand EXCEPT !.at = place, !.op = op, !.c = c]

\* /plan, /exec, /goal, and /fast or another model for the session.
ChangeByCommand(c, op) ==
    /\ BeginCommand(op, c, IF op = "fast" THEN "readRow" ELSE "readState")
    /\ op \in {"plan", "exec", "goal", "fast"}
    /\ UNCHANGED <<agentRow, chatRow, turn, turnSteps, goals, told>>

ReadState ==
    /\ CmdAt("readState") /\ ReadChat(cmd.c)
    /\ cmd' = [cmd EXCEPT !.at = "readRow",
                          !.work = [Migrated(cmd.c).work EXCEPT
                                      !.mode = IF Asks("plan") THEN "plan" ELSE "execute"]]
    /\ UNCHANGED <<agentRow, turn, bounds, told>>

ReadRow ==
    /\ CmdAt("readRow") /\ ReadChat(cmd.c)
    /\ cmd' = [cmd EXCEPT !.at = "writeRow", !.chat = Migrated(cmd.c)]
    /\ UNCHANGED <<agentRow, turn, bounds, told>>

WriteRow ==
    LET c == cmd.c
        row == cmd.chat
        goal == [id |-> goals + 1, used |-> 0]
        new == CASE Asks("fast") -> [row EXCEPT !.fast = ~@]
                 [] Asks("goal") -> [row EXCEPT !.own = TRUE, !.work = cmd.work, !.goal = goal]
                 [] OTHER -> [row EXCEPT !.own = TRUE, !.work = cmd.work]
    IN  /\ CmdAt("writeRow") /\ WriteChat(c, new)
        /\ goals' = IF Asks("goal") THEN goals + 1 ELSE goals
        /\ told' = [told EXCEPT ![c].torn = Torn(c, row), ![c].fast = new.fast,
                                ![c].goal = IF Asks("goal") THEN goal.id ELSE @,
                                ![c].earned = @ \/ cmd.op \in {"exec", "goal"}]
        /\ IF Asks("plan") THEN CmdGoes("readAgent") ELSE CmdDone
        /\ UNCHANGED <<agentRow, turn, turnSteps, cmdsBegun>>

\* /clear, the web's clear and the clear between agents: the row goes.
ClearSession(c, op) ==
    /\ op \in {"clear", "webclear", "agentclear"}
    /\ BeginCommand(op, c, CASE op = "clear" -> "freshRow" [] op = "webclear" -> "wipe"
                             [] OTHER -> "readAgent")
    /\ chatRow' = [chatRow EXCEPT ![c] = NoChatRow]
    /\ told' = [told EXCEPT ![c].goal = 0, ![c].fast = FALSE]
    /\ turn' = IF Active(c) THEN [turn EXCEPT ![c].outdated = TRUE] ELSE turn
    /\ UNCHANGED <<agentRow, turnSteps, goals>>

\* /clear writes rows of its own, whatever is there.
WriteFreshRow ==
    LET c == cmd.c
    IN  /\ CmdAt("freshRow") /\ CmdGoes("wipe")
        /\ WriteChat(c, [NoChatRow EXCEPT !.own = TRUE])
        /\ told' = [told EXCEPT ![c].goal = 0, ![c].fast = FALSE]
        /\ UNCHANGED <<agentRow, turn, bounds>>

WipeAgentRow ==
    /\ CmdAt("wipe") /\ CmdDone /\ agentRow' = [NoAgentRow EXCEPT !.there = TRUE]
    /\ UNCHANGED <<chatRow, turn, bounds, told>>

\* /unfocus and the self-heal of the kanban plugin, the reset of the fallback model,
\* and the plugin's reminder, which sets the agent to execute mode.
ChangeAgent(op) ==
    /\ BeginCommand(op, cmd.c, "readAgent") /\ op \in {"unfocus", "reset", "preset"}
    /\ UNCHANGED <<agentRow, chatRow, turn, turnSteps, goals, told>>

ReadAgent ==
    /\ CmdAt("readAgent") /\ cmd' = [cmd EXCEPT !.at = "writeAgent", !.agent = agentRow]
    /\ UNCHANGED <<agentRow, chatRow, turn, bounds, told>>

WriteAgent ==
    LET row == cmd.agent
    IN  /\ CmdAt("writeAgent")
        /\ CASE Asks("plan") -> agentRow' = [row EXCEPT !.there = TRUE, !.focus = FALSE]
             [] Asks("unfocus") ->    \* an AgentState, whole
                  agentRow' = IF row.focus THEN [row EXCEPT !.focus = FALSE, !.fallback = FALSE]
                              ELSE agentRow
             [] Asks("preset") ->
                  agentRow' = [there |-> TRUE, focus |-> FALSE, fallback |-> FALSE,
                               work |-> [mode |-> "execute", plan |-> TRUE, trivial |-> FALSE]]
             [] OTHER ->
                  agentRow' = IF row.fallback THEN [row EXCEPT !.fallback = FALSE] ELSE agentRow
        /\ IF Asks("preset") /\ row.there THEN CmdGoes("remind") ELSE CmdDone
        /\ UNCHANGED <<chatRow, turn, bounds, told>>

\* A reminder that began no turn is taken back.
Reminded(delivered) ==
    /\ CmdAt("remind") /\ CmdDone
    /\ agentRow' = IF delivered THEN agentRow ELSE cmd.agent
    /\ UNCHANGED <<chatRow, turn, bounds, told>>

StateNext ==
    \/ \E c \in Chat :
         \/ BeginTurn(c) \/ CheckFallback(c) \/ ProbeFails(c) \/ PrimaryRecovered(c)
         \/ \E asks \in {"trivial", "approves", "task", "other"} : RestoreState(c, asks)
         \/ FallbackSucceeds(c) \/ KeepFallback(c) \/ ChangeState(c)
         \/ PersistReadAgent(c) \/ PersistAgent(c) \/ PersistReadChat(c) \/ PersistChat(c)
         \/ ReadForUsage(c) \/ WriteUsage(c) \/ CandidateAnswer(c) \/ LeaveTurn(c)
         \/ \E verdict \in {"continue", "over", "failed"} : Judge(c, verdict)
         \/ ReadForGoal(c) \/ WriteGoal(c)
         \/ \E op \in Ops : ChangeByCommand(c, op) \/ ClearSession(c, op)
    \/ ReadState \/ ReadRow \/ WriteRow \/ WriteFreshRow \/ WipeAgentRow
    \/ \E op \in Ops : ChangeAgent(op)
    \/ ReadAgent \/ WriteAgent \/ \E delivered \in BOOLEAN : Reminded(delivered)

StateSpec == StateInit /\ [][StateNext]_stateVars

-----------------------------------------------------------------------------
\* Unless a writer wrote over another one, a session keeps the goal and the preference
\* that were last asked for, however turns, nudges, commands and clears follow each other.
KeysAreKept ==
    \A c \in Chat : ~told[c].torn => /\ chatRow[c].goal.id = told[c].goal
                                     /\ chatRow[c].fast = told[c].fast

\* A session in execute mode has a plan, was found trivial or was told to by a command,
\* whatever its turns, the agent's row and commands wrote over each other.
ExecuteIsEarned ==
    \A c \in Chat : LET w == chatRow[c].work
                    IN  w.mode = "execute" => w.plan \/ w.trivial \/ told[c].earned

\* The rows that turns and commands write whole keep what belongs to each of them, and
\* nobody comes to execute without an approved plan.
SessionKeepsItsState == KeysAreKept /\ ExecuteIsEarned

\* A goal asks for no more than its budget, in one turn or over many.
NudgesStayInBudget ==
    \A c \in Chat : chatRow[c].goal.used <= NudgeBudget /\ turn[c].nudged <= NudgeBudget

\* Not kept by the code (README):
\* A goal stays until it is over, cleared or replaced: an older one does not come back.
NewGoalIsKept ==
    [][\A c \in Chat : LET old == chatRow[c].goal.id  new == chatRow'[c].goal.id
                       IN  new = 0 \/ new >= old]_stateVars

\* A preference of the session survives the merges of its turns.
PreferenceIsKept == \A c \in Chat : chatRow[c].fast = told[c].fast

\* A turn that was under way when its session was cleared leaves it fresh.
ClearedChatIsFresh == \A c \in Chat : turn[c].outdated => chatRow[c].work = FreshWork

\* Only a reset, a clear or a primary model that works again takes the fallback away.
FallbackIsKept ==
    [][agentRow.fallback /\ ~agentRow'.fallback =>
         \/ cmd.op \in {"reset", "clear", "webclear", "agentclear"}
         \/ \E c \in Chat : TurnAt(c, "probe")]_stateVars
=============================================================================
