------------------------------- MODULE MCStore -------------------------------
(* What outlives a turn or a run, one part at a time: the journal with a      *)
(* browser that follows it, the rows of turns with the reaper that closes     *)
(* them, the objects of a session with the sweep that drops them, and the     *)
(* runs of the evaluator.  The parts share no variables: a behaviour is one   *)
(* of the part it begins with.                                                *)
EXTENDS RealtimeJournal, TurnReaper, SessionSweep, Evaluation

CONSTANT StoreParts

\* A domain with a level of two tests, and one whose only level is the second.
MCEvalTests == {<<"d1", 1, 1>>, <<"d1", 1, 2>>, <<"d2", 2, 1>>}

VARIABLE part

storeVars == <<part, vars, reaperVars, sweepVars, evalVars>>

StoreInit == part \in StoreParts /\ Init /\ ReaperInit /\ SweepInit /\ EvalInit

StoreNext ==
    \/ part = "journal" /\ Next /\ UNCHANGED <<part, reaperVars, sweepVars, evalVars>>
    \/ part = "rows" /\ ReaperNext /\ UNCHANGED <<part, vars, sweepVars, evalVars>>
    \/ part = "sweep" /\ SweepNext /\ UNCHANGED <<part, vars, reaperVars, evalVars>>
    \/ part = "eval" /\ EvalNext /\ UNCHANGED <<part, vars, reaperVars, sweepVars>>

\* The fairness of Spec, of ReaperSpec and of SweepSpec.
StoreFairness ==
    /\ \A x \in Emitter : WF_vars(part = "journal" /\ (Publish(x) \/ Notify(x)))
    /\ WF_vars(part = "journal" /\ Serve)
    /\ WF_reaperVars(part = "rows" /\ Progress)
    /\ \A t \in ReaperTurns : WF_reaperVars(part = "rows" /\ TurnEndsOrFallsSilent(t))
    /\ \A w \in Worker : SF_sweepVars(part = "sweep" /\ Work(w))
    /\ WF_sweepVars(part = "sweep" /\ Sweep)

StoreSpec == StoreInit /\ [][StoreNext]_storeVars /\ StoreFairness

StoreTypeOK == TypeOK /\ ReaperTypeOK /\ SweepTypeOK /\ EvalTypeOK

\* An event reaches the browser that waits for it without the heartbeat, a turn that
\* shows in the journal gets its end, crashes and restarts included, and a task the
\* worker that took it: none is passed over forever.
StoreMovesOn == EventIsDelivered /\ BegunTurnIsClosed /\ EveryTaskGetsItsTurn
=============================================================================
