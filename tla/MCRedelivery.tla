----------------------------- MODULE MCRedelivery -----------------------------
(* What somebody waits for, one part at a time: users whose message arrives   *)
(* while the agent is busy or before a crash, in a session whose turns use    *)
(* focus mode and one whose turns do not; and an agent that attached a        *)
(* monitor to a background process.  The parts share no variables: a          *)
(* behaviour is one of the part it begins with.                               *)
EXTENDS Redelivery, Monitors

CONSTANT WaitParts

VARIABLE part

waitVars == <<part, redeliveryVars, monitorVars>>

WaitInit == part \in WaitParts /\ RedeliveryInit /\ MonitorInit

WaitNext ==
    \/ part = "sessions" /\ RedeliveryNext /\ UNCHANGED <<part, monitorVars>>
    \/ part = "monitors" /\ MonitorNext /\ UNCHANGED <<part, redeliveryVars>>

\* The fairness of RedeliverySpec and of MonitorSpec.
WaitFairness ==
    /\ \A s \in Session :
         /\ WF_redeliveryVars(part = "sessions" /\ HandlerStep(s))
         /\ WF_redeliveryVars(part = "sessions" /\ StartTurn(s))
         /\ WF_redeliveryVars(part = "sessions" /\ TurnEnds(s))
    /\ SF_redeliveryVars(part = "sessions" /\ ReleaseFocus)
    /\ WF_redeliveryVars(part = "sessions" /\ ListenerStep)
    /\ WF_redeliveryVars(part = "sessions" /\ TimerStep)
    /\ WF_redeliveryVars(part = "sessions" /\ ScanStep)
    /\ \A m \in Watch :
         /\ WF_monitorVars(part = "monitors" /\ Tick(m))
         /\ \A e \in Pollers : WF_monitorVars(part = "monitors" /\ PollStep(m, e))
    /\ WF_monitorVars(part = "monitors" /\ StartAgain)

WaitSpec == WaitInit /\ [][WaitNext]_waitVars /\ WaitFairness

\* A message at the end of a log is picked up, a rejection that a crash left there is
\* answered, and an agent that attached a monitor hears of the end of its process.
NobodyWaitsForever == UserMessageIsPickedUp /\ CrashedRejectionIsAnswered /\ MonitorReports
=============================================================================
