------------------------------ MODULE Redelivery ------------------------------
(***************************************************************************)
(* How a user message that is not answered at once is answered later: a     *)
(* message rejected while the agent is focused elsewhere is deferred and    *)
(* resumed when the agent is free (backend/agent_runtime/__init__.py), and  *)
(* after a restart the startup scan resumes sessions whose log ends with an *)
(* unanswered message (app.py).  One agent; what a turn goes through is     *)
(* TurnPipeline's subject, here it starts, may write an interim message,    *)
(* may turn focus mode on or off, and answers.                              *)
(***************************************************************************)
EXTENDS Naturals, Sequences, FiniteSets, SequencesExt

CONSTANTS Session,
          WorkSession,   \* the sessions whose turns use focus mode
          Capacity,      \* limit of the agent's gate
          EventThreads,  \* size of the event executor
          MaxMessages,   \* bound: user messages per session
          MaxCrashes     \* bound

ASSUME RedeliveryAssumption ==
  WorkSession \subseteq Session /\ Capacity \in Nat \ {0} /\ EventThreads \in Nat \ {0}

VARIABLES
  tail,      \* durable: kind of the last entry of each session's log
  focus,     \* durable: the agent's focus mode
  up, scan,  \* is the process up; what the startup scan still has to do
  sent, crashes,
  handler,   \* per session: where handle_message is
  queued, running, ending,   \* turns: with a queued row, running, announcing their end
  bus,       \* agent_busy_changed events no listener has run for yet
  arming,    \* listener threads between their look and arming the timer
  deferred,  \* _deferred_resume_pending
  freeTimer, \* _free_notify_timers: is one armed
  firing     \* the thread of a timer that fired: [pc, left]

durable == <<tail, focus>>
process == <<up, scan, sent, crashes>>
turns == <<queued, running, ending>>
notifier == <<bus, arming, freeTimer, firing>>
redeliveryVars == <<durable, process, handler, turns, notifier, deferred>>

NotFiring == [pc |-> "none", left |-> {}]
NotScanning == [pc |-> "none", left |-> {}]
Busy == queued \union running # {}             \* is_agent_busy

RedeliveryInit ==
  /\ tail = [s \in Session |-> "empty"] /\ focus = FALSE
  /\ up = TRUE /\ scan = NotScanning /\ crashes = 0
  /\ sent = [s \in Session |-> 0]
  /\ handler = [s \in Session |-> "idle"]
  /\ queued = {} /\ running = {} /\ ending = {}
  /\ bus = <<>> /\ arming = 0 /\ freeTimer = FALSE /\ firing = NotFiring
  /\ deferred = {}

-----------------------------------------------------------------------------
(* handle_message *)

Step(s, from, to) == handler[s] = from /\ handler' = [handler EXCEPT ![s] = to]
Write(s, kind) == tail' = [tail EXCEPT ![s] = kind] /\ UNCHANGED focus

Receive(s) ==
  /\ up /\ sent[s] < MaxMessages /\ sent' = [sent EXCEPT ![s] = @ + 1]
  /\ s \notin running
  /\ Step(s, "idle", "saved") /\ Write(s, "user")
  /\ UNCHANGED <<up, scan, crashes, turns, notifier, deferred>>

\* The agent's gate is full: the message is acknowledged, and goes on.
CheckGate(s) ==
  /\ Step(s, "saved", "guard")
  /\ IF Cardinality(running) >= Capacity /\ s \notin running
     THEN Write(s, "ack") ELSE UNCHANGED durable
  /\ UNCHANGED <<process, turns, notifier, deferred>>

CheckAgentBusy(s) ==
  /\ Step(s, "guard", IF Busy /\ s \notin queued \union running THEN "focus" ELSE "queue")
  /\ UNCHANGED <<durable, process, turns, notifier, deferred>>

CheckFocus(s) ==
  /\ Step(s, "focus", IF focus THEN "reject" ELSE "queue")
  /\ UNCHANGED <<durable, process, turns, notifier, deferred>>

Reject(s) ==
  /\ Step(s, "reject", "defer") /\ Write(s, "rejection")
  /\ UNCHANGED <<process, turns, notifier, deferred>>

\* The mutated handler answers with the rejection and leaves it at that.
MutDefer(s) ==
  /\ Step(s, "defer", "idle")
  /\ UNCHANGED <<durable, process, turns, notifier, deferred>>

Defer(s) ==
  /\ Step(s, "defer", "idle")
  /\ deferred' = deferred \union {s}
  /\ UNCHANGED <<durable, process, turns, notifier>>

Enqueue(s) ==
  /\ Step(s, "queue", "idle")
  /\ queued' = queued \union {s}
  /\ UNCHANGED <<durable, process, running, ending, notifier, deferred>>

-----------------------------------------------------------------------------
(* Turns, and the events they emit *)

Emit(b) == bus' = Append(bus, b)

StartTurn(s) ==
  /\ s \in queued \ (running \union ending) /\ Cardinality(running) < Capacity
  /\ queued' = queued \ {s} /\ running' = running \union {s}
  /\ Emit(TRUE)
  /\ UNCHANGED <<durable, process, handler, ending, arming, freeTimer, firing, deferred>>

WriteInterim(s) ==
  /\ s \in running /\ tail[s] # "interim"
  /\ Write(s, "interim")
  /\ UNCHANGED <<process, handler, turns, notifier, deferred>>

SetFocus(s) ==
  /\ s \in running \intersect WorkSession /\ focus' = ~focus
  /\ UNCHANGED <<tail, process, handler, turns, notifier, deferred>>

\* Watchdogs end a focus that no turn ends.
ReleaseFocus ==
  /\ up /\ focus /\ running = {} /\ focus' = FALSE
  /\ UNCHANGED <<tail, process, handler, turns, notifier, deferred>>

\* The mutated turn keeps its permit.
MutEndTurn(s) ==
  /\ s \in running
  /\ Write(s, "answer")
  /\ ending' = ending \union {s}
  /\ UNCHANGED <<process, handler, queued, running, notifier, deferred>>

\* The turn writes its answer and drops its row.
EndTurn(s) ==
  /\ s \in running
  /\ Write(s, "answer")
  /\ running' = running \ {s} /\ ending' = ending \union {s}
  /\ UNCHANGED <<process, handler, queued, notifier, deferred>>

AnnounceEnd(s) ==
  /\ s \in ending /\ ending' = ending \ {s}
  /\ Emit(Busy)
  /\ UNCHANGED <<durable, process, handler, queued, running, arming, freeTimer, firing, deferred>>

-----------------------------------------------------------------------------
(* _on_agent_busy_changed, on any thread of the event executor *)

HandleEvent(i) ==
  /\ i \in 1..Len(bus) /\ i <= EventThreads
  /\ bus' = RemoveAt(bus, i)
  /\ freeTimer' = (freeTimer /\ ~bus[i])
  /\ arming' = IF ~bus[i] /\ deferred # {} THEN arming + 1 ELSE arming
  /\ UNCHANGED <<durable, process, handler, turns, firing, deferred>>

ArmTimer ==
  /\ arming > 0 /\ arming' = arming - 1 /\ freeTimer' = TRUE
  /\ UNCHANGED <<durable, process, handler, turns, bus, firing, deferred>>

(* _send_free_notification and _drain_deferred_resumes *)

Fire ==
  /\ freeTimer /\ firing.pc = "none"
  /\ freeTimer' = FALSE /\ firing' = [NotFiring EXCEPT !.pc = "busy?"]
  /\ UNCHANGED <<durable, process, handler, turns, bus, arming, deferred>>

RecheckBusy ==
  /\ firing.pc = "busy?"
  /\ firing' = IF Busy THEN NotFiring ELSE [firing EXCEPT !.pc = "focus?"]
  /\ UNCHANGED <<durable, process, handler, turns, bus, arming, freeTimer, deferred>>

\* Idle but still focused: the timer is armed again.
RecheckFocus ==
  /\ firing.pc = "focus?"
  /\ IF focus THEN freeTimer' = TRUE /\ firing' = NotFiring
              ELSE firing' = [firing EXCEPT !.pc = "drain"] /\ UNCHANGED freeTimer
  /\ UNCHANGED <<durable, process, handler, turns, bus, arming, deferred>>

Drain ==
  /\ firing.pc = "drain"
  /\ firing' = [pc |-> "resume", left |-> deferred] /\ deferred' = {}
  /\ UNCHANGED <<durable, process, handler, turns, bus, arming, freeTimer>>

\* The tails a drain still takes for unanswered.
ResumableTail == {"user", "rejection", "ack"}

ResumeDeferred ==
  /\ firing.pc = "resume"
  /\ IF firing.left = {}
     THEN firing' = NotFiring /\ UNCHANGED queued
     ELSE \E s \in firing.left :
            /\ firing' = [firing EXCEPT !.left = @ \ {s}]
            /\ queued' = IF tail[s] \in ResumableTail THEN queued \union {s} ELSE queued
  /\ UNCHANGED <<durable, process, handler, running, ending, bus, arming, freeTimer, deferred>>

-----------------------------------------------------------------------------
(* Crash, boot and the startup scan *)

AppDies ==
  /\ up /\ crashes < MaxCrashes /\ crashes' = crashes + 1
  /\ up' = FALSE /\ scan' = NotScanning
  /\ handler' = [s \in Session |-> "idle"]
  /\ queued' = {} /\ running' = {} /\ ending' = {}
  /\ bus' = <<>> /\ arming' = 0 /\ freeTimer' = FALSE /\ firing' = NotFiring
  /\ deferred' = {}
  /\ UNCHANGED <<durable, sent>>

\* interrupt_stale_turns has dropped the rows before anything else runs.
AppRestarts ==
  /\ ~up /\ up' = TRUE /\ scan' = [pc |-> "read", left |-> {}]
  /\ UNCHANGED <<durable, sent, crashes, handler, turns, notifier, deferred>>

\* The mutated scan knows only of user messages at the end of a log.
MutUnrepliedTail == {"user"}
UnrepliedTail == {"user", "rejection"}

ScanSessions ==
  /\ scan.pc = "read"
  /\ scan' = [pc |-> "resume", left |-> {s \in Session : tail[s] \in UnrepliedTail}]
  /\ UNCHANGED <<durable, up, sent, crashes, handler, turns, notifier, deferred>>

ResumeScanned ==
  /\ scan.pc = "resume"
  /\ IF scan.left = {}
     THEN scan' = NotScanning /\ UNCHANGED queued
     ELSE \E s \in scan.left :
            scan' = [scan EXCEPT !.left = @ \ {s}] /\ queued' = queued \union {s}
  /\ UNCHANGED <<durable, up, sent, crashes, handler, running, ending, notifier, deferred>>

-----------------------------------------------------------------------------
HandlerStep(s) ==
  \/ CheckGate(s) \/ CheckAgentBusy(s) \/ CheckFocus(s)
  \/ Reject(s) \/ Defer(s) \/ Enqueue(s)
ListenerStep == ArmTimer \/ \E i \in 1..EventThreads : HandleEvent(i)
TimerStep == Fire \/ RecheckBusy \/ RecheckFocus \/ Drain \/ ResumeDeferred
ScanStep == AppRestarts \/ ScanSessions \/ ResumeScanned
TurnEnds(s) == EndTurn(s) \/ AnnounceEnd(s)

RedeliveryNext ==
  \/ \E s \in Session :
       \/ Receive(s) \/ HandlerStep(s) \/ StartTurn(s) \/ WriteInterim(s)
       \/ SetFocus(s) \/ TurnEnds(s)
  \/ ReleaseFocus \/ ListenerStep \/ TimerStep \/ ScanStep \/ AppDies

\* Threads run, timers fire, a turn ends, a focus is released in the end, and
\* the process is started again after a crash.
RedeliveryFairness ==
  /\ \A s \in Session : WF_redeliveryVars(HandlerStep(s)) /\ WF_redeliveryVars(StartTurn(s)) /\ WF_redeliveryVars(TurnEnds(s))
  /\ SF_redeliveryVars(ReleaseFocus) /\ WF_redeliveryVars(ListenerStep) /\ WF_redeliveryVars(TimerStep) /\ WF_redeliveryVars(ScanStep)

RedeliverySpec == RedeliveryInit /\ [][RedeliveryNext]_redeliveryVars /\ RedeliveryFairness

-----------------------------------------------------------------------------
RedeliveryTypeOK ==
  /\ tail \in [Session -> {"empty", "user", "ack", "rejection", "interim", "answer"}]
  /\ focus \in BOOLEAN /\ up \in BOOLEAN /\ freeTimer \in BOOLEAN
  /\ handler \in [Session -> {"idle", "saved", "guard", "focus", "reject", "defer", "queue"}]
  /\ queued \subseteq Session /\ running \subseteq Session /\ ending \subseteq Session
  /\ Cardinality(running) <= Capacity
  /\ deferred \subseteq Session /\ arming \in Nat
  /\ firing.pc \in {"none", "busy?", "focus?", "drain", "resume"}
  /\ scan.pc \in {"none", "read", "resume"}

\* What a log ends with and nobody has answered is in somebody's hand, at every step of
\* handle_message, the listener, the drain, a turn and the startup scan: a message with
\* its handler or a turn, a rejection with the handler that defers it, the deferred
\* sessions, a drain or a turn, and after a crash each with the scan.
StartupHas(s) == ~up \/ scan.pc = "read" \/ s \in scan.left
TurnHas(s) == s \in queued \union running
MessageIsInHand(s) ==
  handler[s] \in {"saved", "guard", "focus", "reject", "queue"} \/ TurnHas(s) \/ StartupHas(s)
RejectionIsInHand(s) ==
  handler[s] = "defer" \/ s \in deferred \union firing.left \/ TurnHas(s) \/ StartupHas(s)
UnansweredIsInHand ==
  \A s \in Session :
    /\ tail[s] = "user" => MessageIsInHand(s)
    /\ tail[s] = "rejection" => RejectionIsInHand(s)

\* A message that waits at the end of a log is picked up, across a crash at
\* any point between the save and the turn ("these users may have been left
\* hanging after a restart or deployment").
UserMessageIsPickedUp ==
  \A s \in Session : tail[s] = "user" ~> tail[s] # "user"

\* A rejected message that a crash finds unanswered is answered after it, the
\* focus of the crashed process notwithstanding.
CrashedRejectionIsAnswered ==
  \A s \in Session : (~up /\ tail[s] = "rejection") ~> tail[s] \in {"interim", "answer"}

-----------------------------------------------------------------------------
(* What comments of the code say and the model refutes. *)

\* "so the pending message is answered without a user nudge": while the agent is
\* idle a deferred session has a timer, a listener or a turn's end to come that
\* will drain it.
DeferralHasWakeup ==
  deferred # {} /\ ~Busy /\ ending = {} =>
    freeTimer \/ firing.pc # "none" \/ arming > 0 \/ bus # <<>>

\* "The message is already saved to DB above and will be processed once the gate
\* frees up".
AckedMessageIsAnswered ==
  \A s \in Session : tail[s] = "ack" ~> tail[s] \in {"interim", "answer"}
=============================================================================
