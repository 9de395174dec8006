------------------------------ MODULE ToolLoop ------------------------------
(* run_tool_loop: the rounds of one turn between the turn gate and the row   *)
(* that ends it.  A round drains the injection queue, plans a request, calls *)
(* the model and acts on the reply; a reply with tool calls runs a batch     *)
(* (module ToolBatch), which is one step here.                               *)
EXTENDS Naturals, FiniteSets

CONSTANTS
    MaxToolIterations,   \* max_tool_iterations, a setting
    CallsPerIteration,   \* _max_llm_calls is this many times the setting (10)
    MaxInjections,       \* MAX_INJECTIONS_PER_LOOP
    MaxTimeoutRetries,   \* agent_timeout_retries, a setting
    MinImageRetries,     \* MIN_IMAGE_RETRIES
    MaxFollowUps,        \* follow-ups to empty replies (2)
    MaxDuplicates,       \* repeated texts before the force-stop message (3)
    ForceStopGrace,      \* counter value past which tool calls end the turn (3)
    CompactAttempts,     \* AGENT_SUMMARY_COMPACT_ATTEMPTS, 0 to 5 (2)
    BatchSize,           \* bound: tool calls in one reply
    MaxArrivals,         \* bound: user messages injected while the loop runs
    GoalBudgets,         \* bound: nudges the active goal has left
    Turns                \* bound: kinds of turns: fallback model, images, enforced
                         \* budget, a fallback persisted by an earlier turn

\* The settings page keeps max_tool_iterations between 1 and 1000.
ASSUME LoopAssumption ==
    MaxToolIterations \in Nat \ {0} /\ MaxInjections \in Nat /\ CompactAttempts \in Nat

VARIABLES
    loopAt,      \* a member of Places
    turn,        \* what is fixed for the turn: fallback, images, enforced, probed
    iteration, llmCalls, injections, retries, followUps, dups, postForce, goal,
    repaired,    \* a broken request was repaired, which is tried once
    forced,      \* _any_force_stop_injected
    injected,    \* messages in inject_queue
    arrivals,    \* messages that were injected so far
    stopSet,     \* stop_event
    closing,     \* rows and events that closed the turn, in order
    compactCalls, \* calls of the compaction under way; any: _compaction_attempted
    toolRounds,  \* history: batches that ran
    lateRounds,  \* history: calls of a round begun since the stop event was set
    lateSide     \* history: other calls begun since: probe, compaction, fallback

loopVars == <<loopAt, turn, iteration, llmCalls, injections, retries, followUps,
              dups, postForce, goal, repaired, forced, injected, arrivals, stopSet,
              closing, compactCalls, toolRounds, lateRounds, lateSide>>

\* Where the thread is; at "probing", "calling", "compacting" and "fallback" it
\* waits for the reply to a call.
Places == {"gate", "probing", "head", "calling", "reply", "compacting", "fallback",
           "answer", "batch", "checkB", "ended"}

LoopTypeOK ==
    /\ loopAt \in Places
    /\ turn \in Turns
    /\ iteration \in 0 .. MaxToolIterations
    /\ llmCalls \in 0 .. (CallsPerIteration * MaxToolIterations + 1)
    /\ {injections, arrivals, injected} \subseteq 0 .. MaxArrivals
    /\ compactCalls \in 0 .. 1 + CompactAttempts
    /\ {repaired, forced, stopSet} \subseteq BOOLEAN
    /\ {retries, followUps, dups, postForce, goal, toolRounds} \subseteq Nat
    /\ {lateRounds, lateSide} \subseteq Nat

LoopInit ==
    /\ loopAt = "gate" /\ turn \in Turns /\ goal \in GoalBudgets
    /\ iteration = 0 /\ llmCalls = 0 /\ injections = 0 /\ retries = 0
    /\ followUps = 0 /\ dups = 0 /\ postForce = 0 /\ repaired = FALSE /\ forced = FALSE
    /\ injected = 0 /\ arrivals = 0 /\ stopSet = FALSE
    /\ closing = <<>> /\ toolRounds = 0 /\ compactCalls = 0 /\ lateRounds = 0 /\ lateSide = 0

rounds == <<iteration, llmCalls, injections, toolRounds>>
callCounts == <<compactCalls, lateRounds, lateSide>>
counters == <<rounds, callCounts>>
recovery == <<retries, followUps, dups, postForce, goal, repaired, forced>>
outside  == <<injected, arrivals, stopSet>>

-----------------------------------------------------------------------------
(* Ways out.  Every one that tells the channel writes its row, then turn_end,*)
(* then emits final_answer.                                                  *)

End(rows) == loopAt' = "ended" /\ closing' = rows

\* _finalize_gate_response: a plugin's gate answers for the agent.
GateResponse == End(<<"final", "turn_end", "final_answer">>)

\* An error row that is reported to whoever waits for the answer.
ErrorExit == End(<<"error", "turn_end", "final_answer">>)

\* The answer of a stop request; the flag is consumed.
StoppedExit ==
    /\ stopSet' = FALSE
    /\ End(<<"final", "system", "turn_end", "final_answer">>)

\* The loop condition fails or the call cap is hit: no final_answer.
ExhaustedExit == End(<<"error", "turn_end">>)

-----------------------------------------------------------------------------
\* A call of the loop's own, beside those of the rounds, begins.
SideCall == lateSide' = IF stopSet THEN lateSide + 1 ELSE lateSide

\* While a fallback model is persisted, the turn first sends the primary a "Ping".
TurnGate ==
    /\ loopAt = "gate"
    /\ \/ GateResponse /\ UNCHANGED lateSide
       \/ ~turn.probed /\ loopAt' = "head" /\ UNCHANGED <<closing, lateSide>>
       \/ turn.probed /\ loopAt' = "probing" /\ SideCall /\ UNCHANGED closing
    /\ UNCHANGED <<turn, rounds, compactCalls, lateRounds, recovery, outside>>

\* The primary or the persisted fallback: which of them answers is not told apart.
ProbeReturns ==
    /\ loopAt = "probing" /\ loopAt' = "head"
    /\ UNCHANGED <<turn, counters, recovery, outside, closing>>

MutRunOut ==
    /\ loopAt = "head" /\ iteration = MaxToolIterations
    /\ ExhaustedExit
    /\ UNCHANGED <<turn, counters, recovery, outside>>

\* The while condition and the cap on model calls, which is tested after the
\* counter was raised.
RunOut ==
    /\ loopAt = "head"
    /\ \/ iteration = MaxToolIterations
       \/ llmCalls >= CallsPerIteration * MaxToolIterations
    /\ ExhaustedExit
    /\ UNCHANGED <<turn, counters, recovery, outside>>

\* Every merge gives the rounds back.
MutDrainInjected ==
    IF injected = 0
    THEN UNCHANGED <<injections, injected, iteration>>
    ELSE injections' = injections + 1 /\ injected' = 0 /\ iteration' = 0

\* Messages that arrived are merged into one user message; the first
\* MaxInjections merges give the turn its tool rounds back.
DrainInjected ==
    IF injected = 0
    THEN UNCHANGED <<injections, injected, iteration>>
    ELSE /\ injections' = injections + 1
         /\ injected' = 0
         /\ iteration' = IF injections' <= MaxInjections THEN 0 ELSE iteration

\* A round up to the model call.  The plan of the request may find it broken
\* (one repair, then an error) or too large, but only where it is enforced.
BeginRound ==
    /\ loopAt = "head"
    /\ iteration < MaxToolIterations
    /\ llmCalls < CallsPerIteration * MaxToolIterations
    /\ llmCalls' = llmCalls + 1
    /\ DrainInjected
    /\ \/ loopAt' = "calling" /\ UNCHANGED <<repaired, closing>>
       \/ turn.enforced /\ ~repaired /\ repaired' = TRUE /\ UNCHANGED <<loopAt, closing>>
       \/ turn.enforced /\ ErrorExit /\ UNCHANGED repaired
       \/ turn.enforced /\ End(<<>>) /\ UNCHANGED repaired
    /\ lateRounds' = IF stopSet /\ loopAt' = "calling" THEN lateRounds + 1 ELSE lateRounds
    /\ UNCHANGED <<turn, retries, followUps, dups, postForce, goal, forced,
                   arrivals, stopSet, toolRounds, compactCalls, lateSide>>

\* The stop check skips calls that may be retried.
MutCheckA ==
    /\ loopAt = "calling"
    /\ \/ stopSet /\ StoppedExit
       \/ loopAt' = "reply" /\ UNCHANGED <<stopSet, closing>>
    /\ UNCHANGED <<turn, counters, recovery, injected, arrivals>>

\* Check A, the first thing done after the call returns, whatever it returned.
CheckA ==
    /\ loopAt = "calling"
    /\ IF stopSet THEN StoppedExit
                  ELSE loopAt' = "reply" /\ UNCHANGED <<stopSet, closing>>
    /\ UNCHANGED <<turn, counters, recovery, injected, arrivals>>

-----------------------------------------------------------------------------
(* A failed call: its type, and whether the provider says that the context  *)
(* is exceeded.                                                              *)

Failures == [type : {"bad_call", "provider", "timeout", "unknown"}, context : BOOLEAN]

\* Failures that are retried with the same model, each counted in timeout_retries.
\* With a fallback configured a provider error is counted but not retried.
Retried(f) ==
    \/ /\ retries < MaxTimeoutRetries
       /\ f.type \in {"bad_call", "timeout"} \/ (f.type = "provider" /\ ~turn.fallback)
    \/ retries < 1 /\ f.type = "unknown" /\ ~f.context

RetriesCounted(f) ==
    IF f.type = "provider" /\ retries < MaxTimeoutRetries THEN retries + 1 ELSE retries

RetriedForImages(f) ==
    /\ turn.images /\ f.type # "bad_call" /\ ~f.context
    /\ RetriesCounted(f) < MinImageRetries

RetryCall ==
    /\ loopAt = "reply"
    /\ \E f \in Failures :
          \/ Retried(f) /\ retries' = retries + 1
          \/ ~Retried(f) /\ RetriedForImages(f) /\ retries' = RetriesCounted(f) + 1
    /\ loopAt' = "head"
    /\ UNCHANGED <<turn, counters, followUps, dups, postForce, goal, repaired, forced,
                   outside, closing>>

\* The fallback model is asked, if there is one and the request fits it.
TryFallback ==
    \/ turn.fallback /\ loopAt' = "fallback" /\ SideCall /\ UNCHANGED closing
    \/ ErrorExit /\ UNCHANGED lateSide

\* A context that is exceeded is compacted once in a turn, by a call to the model.
GiveUpOnCall ==
    /\ loopAt = "reply"
    /\ \E f \in Failures :
          /\ ~Retried(f) /\ ~RetriedForImages(f)
          /\ retries' = RetriesCounted(f)
          /\ IF f.context /\ compactCalls = 0
             THEN /\ loopAt' = "compacting" /\ compactCalls' = 1 /\ SideCall
                  /\ UNCHANGED closing
             ELSE TryFallback /\ UNCHANGED compactCalls
    /\ UNCHANGED <<turn, rounds, lateRounds, followUps, dups, postForce, goal, repaired,
                   forced, outside>>

\* A call of the compaction returns.  A first one that failed leaves a truncation,
\* or the fallback when there is nothing to cut off; a summary that is too long is
\* rewritten, attempt after attempt whether they fail or not, and then pruned.
Compact ==
    /\ loopAt = "compacting"
    /\ \/ loopAt' = "head" /\ compactCalls' = 1 /\ UNCHANGED <<lateSide, closing>>
       \/ /\ compactCalls <= CompactAttempts
          /\ compactCalls' = compactCalls + 1 /\ SideCall
          /\ UNCHANGED <<loopAt, closing>>
       \/ compactCalls = 1 /\ TryFallback /\ UNCHANGED compactCalls
    /\ UNCHANGED <<turn, rounds, lateRounds, recovery, outside>>

\* The fallback's success is used in place of the primary's reply.
FallbackReturns ==
    /\ loopAt = "fallback"
    /\ \/ loopAt' = "answer" /\ UNCHANGED closing
       \/ ErrorExit
    /\ UNCHANGED <<turn, counters, recovery, outside>>

CallSucceeds ==
    /\ loopAt = "reply" /\ loopAt' = "answer"
    /\ UNCHANGED <<turn, counters, recovery, outside, closing>>

-----------------------------------------------------------------------------
(* A reply. *)

AnswerTo(next) == loopAt = "answer" /\ loopAt' = next

\* Thinking past its budget, which is noticed once, or calls written as text, any
\* number of times: the two nudges are not told apart.
NudgeModel ==
    /\ AnswerTo("head")
    /\ UNCHANGED <<turn, counters, recovery, outside, closing>>

EmptyReply ==
    /\ AnswerTo("head")
    /\ followUps < MaxFollowUps /\ followUps' = followUps + 1
    /\ UNCHANGED <<turn, counters, retries, dups, postForce, goal, repaired, forced,
                   outside, closing>>

\* Interceptors and the local-path guard send the model back any number of
\* times; the bookkeeping reminder, which comes once, is not told apart.
AnswerIntercepted ==
    /\ AnswerTo("head")
    /\ UNCHANGED <<turn, counters, recovery, outside, closing>>

\* The goal evaluator wants more work and the goal has nudges left.
NudgeGoal ==
    /\ AnswerTo("head")
    /\ goal > 0 /\ ~stopSet /\ goal' = goal - 1
    /\ UNCHANGED <<turn, counters, retries, followUps, dups, postForce, repaired, forced,
                   outside, closing>>

AcceptAnswer ==
    /\ loopAt = "answer"
    /\ End(<<"final", "turn_end", "final_answer">>)
    /\ UNCHANGED <<turn, counters, recovery, outside>>

\* A reply with tool calls.  Text that repeats the text before it ends the turn
\* once a force-stop message was given.
CallTools ==
    /\ loopAt = "answer"
    /\ \E text \in {"none", "new", "repeated"} :
          /\ dups' = CASE text = "repeated" -> dups + 1
                       [] text = "new" -> 0
                       [] OTHER -> dups
          /\ IF text = "repeated" /\ forced THEN ErrorExit
             ELSE loopAt' = "batch" /\ UNCHANGED closing
    /\ UNCHANGED <<turn, counters, retries, followUps, postForce, goal, repaired, forced,
                   outside>>

-----------------------------------------------------------------------------
(* The batch of a reply.  A call that ran counts against the grace once the *)
(* force-stop message was given; calls that failed to parse or were skipped *)
(* by a stop do not.                                                         *)

\* Calls past the grace end the turn inside the batch.  A result gate does too.
BatchEndsTurn ==
    /\ loopAt = "batch"
    /\ toolRounds' = toolRounds + 1
    /\ \/ postForce > 0 /\ postForce + BatchSize > ForceStopGrace /\ ErrorExit
       \/ GateResponse
    /\ UNCHANGED <<turn, iteration, llmCalls, injections, callCounts, recovery, outside>>

\* The same call with the same arguments too often puts the message in, once.
BatchDone ==
    /\ loopAt = "batch" /\ loopAt' = "checkB"
    /\ toolRounds' = toolRounds + 1
    /\ iteration' = iteration + 1
    /\ \E ran \in 0 .. BatchSize :
          IF postForce > 0
          THEN /\ postForce' = postForce + ran /\ postForce' <= ForceStopGrace
               /\ UNCHANGED forced
          ELSE \/ UNCHANGED <<postForce, forced>>
               \/ ran > 0 /\ postForce' = ran /\ postForce' <= ForceStopGrace
                    /\ forced' = TRUE
    /\ UNCHANGED <<turn, llmCalls, injections, callCounts, retries, followUps, dups, goal,
                   repaired, outside, closing>>

\* Check B, then the force-stop message against repeated texts.
CheckB ==
    /\ loopAt = "checkB"
    /\ IF stopSet
       THEN StoppedExit /\ UNCHANGED <<dups, forced>>
       ELSE /\ loopAt' = "head"
            /\ dups' = IF dups >= MaxDuplicates THEN 0 ELSE dups
            /\ forced' = (forced \/ dups >= MaxDuplicates)
            /\ UNCHANGED <<stopSet, closing>>
    /\ UNCHANGED <<turn, counters, retries, followUps, postForce, goal, repaired, injected,
                   arrivals>>

-----------------------------------------------------------------------------
(* What other threads do to a running loop. *)

\* handle_message puts a message of the session into the loop's queue.
Inject ==
    /\ loopAt # "ended" /\ arrivals < MaxArrivals
    /\ arrivals' = arrivals + 1 /\ injected' = injected + 1
    /\ UNCHANGED <<loopAt, turn, counters, recovery, stopSet, closing>>

\* A stop command sets the event of the session.
StopTurn ==
    /\ loopAt # "ended" /\ ~stopSet /\ stopSet' = TRUE
    /\ UNCHANGED <<loopAt, turn, counters, recovery, injected, arrivals, closing>>

LoopStep ==
    \/ TurnGate \/ ProbeReturns \/ RunOut \/ BeginRound \/ CheckA
    \/ RetryCall \/ GiveUpOnCall \/ Compact \/ FallbackReturns \/ CallSucceeds
    \/ NudgeModel \/ EmptyReply \/ AnswerIntercepted \/ NudgeGoal \/ AcceptAnswer \/ CallTools
    \/ BatchEndsTurn \/ BatchDone \/ CheckB

LoopNext == LoopStep \/ Inject \/ StopTurn

LoopFairness == WF_loopVars(LoopStep)

LoopSpec == LoopInit /\ [][LoopNext]_loopVars /\ LoopFairness

-----------------------------------------------------------------------------
(* Properties. *)

\* The turn ends, whatever the model, the plugins and the users do: retries are
\* counted and what may repeat without end is cut off by the cap on the calls.
LoopEnds == (loopAt # "gate") ~> (loopAt = "ended")

\* The most calls that one recovery makes: a compaction with all its attempts, or
\* one that fails at once and is followed by the fallback.
RecoveryCalls == IF CompactAttempts = 0 THEN 2 ELSE 1 + CompactAttempts

\* A stop request is noticed at the next check: after it at most one more round's
\* call begins, retries and repairs included, and beside it no more calls than the
\* one recovery makes, or the probe, that the request came too late to prevent.
StopIsHeeded == lateRounds <= 1 /\ lateSide <= RecoveryCalls

\* Injected messages give the turn its rounds back, but not without end: a turn
\* has one budget of its own and, because a message that comes during the last
\* round finds the loop over, one less than a budget for each counted merge.
ToolRoundsAreBounded ==
    toolRounds <= MaxToolIterations + MaxInjections * (MaxToolIterations - 1)

\* Who waits for the answer of the turn, a delegating agent above all, is told
\* when it ends: the code says of its error exits that they emit final_answer
\* "so downstream consumers (e.g. sub-agent -> parent auto-forward) still fire".
DelegatorIsTold ==
    loopAt = "ended" => \E i \in DOMAIN closing : closing[i] = "final_answer"
=============================================================================
