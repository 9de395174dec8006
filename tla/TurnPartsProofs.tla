-------------------------- MODULE TurnPartsProofs ---------------------------
(* The parts of a turn: the rounds of the tool loop, the calls of a batch,   *)
(* the answer to a question, sub-agents, the container of a command.  They   *)
(* share no variables; each section states the inductive invariant of one.   *)
EXTENDS ToolLoop, ToolBatch, AskUser, SubAgents, Containers, FiniteSetTheorems,
        SequenceTheorems, TLAPS

-----------------------------------------------------------------------------
(* The tool loop: a stop and the budget of rounds. *)

\* After a stop the loop has as many calls left as lie between where it was and the
\* next check: a round's call is followed by Check A, and what a recovery may still
\* call depends on how far it has come.
LateCallIsCalling ==
    /\ lateRounds \in {0, 1} /\ lateSide \in 0 .. RecoveryCalls
    /\ compactCalls \in 0 .. 1 + CompactAttempts
    /\ loopAt \notin {"calling", "ended"} => lateRounds = 0
    /\ loopAt # "ended" /\ ~stopSet => lateRounds = 0 /\ lateSide = 0
    /\ loopAt \in {"gate", "reply"} => lateSide = 0
    /\ loopAt = "compacting" => lateSide <= compactCalls /\ compactCalls >= 1

LEMMA RecoveryIsLong ==
    /\ CompactAttempts \in Nat /\ RecoveryCalls \in Nat
    /\ RecoveryCalls >= 2 /\ RecoveryCalls >= 1 + CompactAttempts
BY LoopAssumption DEF LoopAssumption, RecoveryCalls

LEMMA LateCallStays ==
    ASSUME LateCallIsCalling, LoopNext
    PROVE  LateCallIsCalling'
<1> USE RecoveryIsLong DEF LateCallIsCalling, End, callCounts, counters, outside, recovery
<1>0. RecoveryCalls' = RecoveryCalls BY DEF RecoveryCalls
<1>1. CASE TurnGate BY <1>0, <1>1 DEF TurnGate, GateResponse, SideCall
<1>2. CASE RunOut BY <1>0, <1>2 DEF RunOut, ExhaustedExit
<1>3. CASE BeginRound
  <2>1. /\ loopAt = "head" /\ loopAt' \in {"calling", "head", "ended"}
        /\ UNCHANGED <<stopSet, compactCalls, lateSide>>
        /\ lateRounds' = IF stopSet /\ loopAt' = "calling" THEN lateRounds + 1 ELSE lateRounds
    BY <1>3 DEF BeginRound, ErrorExit
  <2> QED BY <1>0, <2>1
<1>4. CASE CheckA BY <1>0, <1>4 DEF CheckA, StoppedExit
<1>5. CASE RetryCall BY <1>0, <1>5 DEF RetryCall
<1>6. CASE GiveUpOnCall
  <2>1. /\ loopAt = "reply" /\ UNCHANGED <<stopSet, lateRounds>>
        /\ \/ loopAt' = "compacting" /\ compactCalls' = 1 /\ SideCall
           \/ TryFallback /\ UNCHANGED compactCalls
    BY <1>6 DEF GiveUpOnCall
  <2> QED BY <1>0, <2>1 DEF TryFallback, ErrorExit, SideCall
<1>7. CASE Compact
  <2>1. loopAt = "compacting" /\ UNCHANGED <<stopSet, lateRounds>> BY <1>7 DEF Compact
  <2>2. CASE loopAt' = "head" /\ compactCalls' = 1 /\ UNCHANGED lateSide BY <1>0, <2>1, <2>2
  <2>3. CASE /\ compactCalls <= CompactAttempts /\ compactCalls' = compactCalls + 1
             /\ SideCall /\ UNCHANGED loopAt
    BY <1>0, <2>1, <2>3 DEF SideCall
  <2>4. CASE compactCalls = 1 /\ TryFallback /\ UNCHANGED compactCalls
    BY <1>0, <2>1, <2>4 DEF TryFallback, ErrorExit, SideCall
  <2> QED BY <1>7, <2>2, <2>3, <2>4 DEF Compact
<1>8. CASE ProbeReturns \/ FallbackReturns \/ CallSucceeds
  BY <1>0, <1>8 DEF ProbeReturns, FallbackReturns, CallSucceeds, ErrorExit
<1>9. CASE NudgeModel \/ EmptyReply \/ AnswerIntercepted \/ NudgeGoal \/ AcceptAnswer
  BY <1>0, <1>9 DEF NudgeModel, EmptyReply, AnswerIntercepted, NudgeGoal, AcceptAnswer, AnswerTo
<1>10. CASE CallTools
  <2>1. /\ loopAt = "answer" /\ loopAt' \in {"batch", "ended"}
        /\ UNCHANGED <<stopSet, compactCalls, lateRounds, lateSide>>
    BY <1>10 DEF CallTools, ErrorExit
  <2> QED BY <1>0, <2>1
<1>11. CASE BatchEndsTurn BY <1>0, <1>11 DEF BatchEndsTurn, ErrorExit, GateResponse
<1>12. CASE BatchDone BY <1>0, <1>12 DEF BatchDone
<1>13. CASE CheckB BY <1>0, <1>13 DEF CheckB, StoppedExit
<1>14. CASE Inject BY <1>0, <1>14 DEF Inject
<1>15. CASE StopTurn BY <1>0, <1>15 DEF StopTurn
<1> QED BY <1>1, <1>2, <1>3, <1>4, <1>5, <1>6, <1>7, <1>8, <1>9, <1>10, <1>11, <1>12, <1>13,
           <1>14, <1>15 DEF LoopNext, LoopStep

\* StopIsHeeded, for all limits and any replies and failures: after a stop
\* run_tool_loop begins at most one more round, as Check A follows every round's
\* call, and makes no more other calls than one recovery has.
THEOREM StopEndsTheRounds == LoopSpec => []StopIsHeeded
<1>1. LoopInit => LateCallIsCalling BY RecoveryIsLong DEF LoopInit, LateCallIsCalling
<1>2. LateCallIsCalling /\ [LoopNext]_loopVars => LateCallIsCalling'
  <2> SUFFICES ASSUME LateCallIsCalling, UNCHANGED loopVars PROVE LateCallIsCalling'
    BY LateCallStays
  <2> QED BY DEF loopVars, LateCallIsCalling, RecoveryCalls
<1>3. LateCallIsCalling => StopIsHeeded BY RecoveryIsLong DEF LateCallIsCalling, StopIsHeeded
<1> QED BY <1>1, <1>2, <1>3, PTL DEF LoopSpec

-----------------------------------------------------------------------------
CountedMerges == IF injections <= MaxInjections THEN injections ELSE MaxInjections

\* The rounds that n merges gave the turn, one less than a budget each.
Given(n) == n * (MaxToolIterations - 1)

InRound == {"calling", "reply", "compacting", "fallback", "answer", "batch"}

\* The rounds so far are those that the merges gave and those since the last of
\* them; a round that has begun has not used the budget up.
RoundsAddUp ==
    /\ injections \in Nat /\ iteration \in 0 .. MaxToolIterations /\ toolRounds \in Nat
    /\ loopAt \in InRound => iteration < MaxToolIterations
    /\ toolRounds <= Given(CountedMerges)
         + IF loopAt = "ended" THEN MaxToolIterations ELSE iteration

LEMMA GivenGrows ==
    /\ \A n \in Nat : Given(n) \in Nat
    /\ \A n \in Nat : Given(n + 1) = Given(n) + MaxToolIterations - 1
    /\ Given(0) = 0
<1>1. MaxToolIterations - 1 \in Nat BY LoopAssumption DEF LoopAssumption
<1>2. ASSUME NEW n \in Nat, NEW m \in Nat
      PROVE  n * m \in Nat /\ (n + 1) * m = n * m + m /\ 0 * m = 0
  OBVIOUS
<1> QED BY <1>1, <1>2, LoopAssumption DEF Given, LoopAssumption

\* Rounds and merges stay as they are, or the turn ends with the rounds it had.
LEMMA RoundsStay ==
    ASSUME RoundsAddUp, UNCHANGED <<injections, iteration, toolRounds>>,
           loopAt' \notin InRound \/ loopAt \in InRound,
           loopAt = "ended" => loopAt' = "ended"
    PROVE  RoundsAddUp'
<1>1. Given(CountedMerges) \in Nat
  BY GivenGrows, LoopAssumption DEF RoundsAddUp, CountedMerges, LoopAssumption
<1>2. MaxToolIterations \in Nat BY LoopAssumption DEF LoopAssumption
<1>3. CountedMerges' = CountedMerges BY DEF CountedMerges
<1> QED BY <1>1, <1>2, <1>3 DEF RoundsAddUp, Given

LEMMA DrainAddsUp ==
    ASSUME RoundsAddUp, loopAt = "head", iteration < MaxToolIterations,
           UNCHANGED toolRounds, DrainInjected, loopAt' \in {"calling", "head", "ended"}
    PROVE  RoundsAddUp'
<1> USE DEF RoundsAddUp
<1>1. MaxToolIterations \in Nat \ {0} /\ MaxInjections \in Nat
  BY LoopAssumption DEF LoopAssumption
<1>2. CountedMerges \in Nat /\ Given(CountedMerges) \in Nat
  BY <1>1, GivenGrows DEF CountedMerges
<1>3. CASE UNCHANGED <<injections, iteration>>
  <2>1. CountedMerges' = CountedMerges BY <1>3 DEF CountedMerges
  <2> QED BY <1>1, <1>2, <1>3, <2>1 DEF Given
<1>4. CASE injections' = injections + 1 /\ injections' <= MaxInjections /\ iteration' = 0
  <2>1. CountedMerges = injections /\ CountedMerges' = injections + 1
    BY <1>1, <1>4 DEF CountedMerges
  <2>2. Given(injections + 1) = Given(injections) + MaxToolIterations - 1 /\ Given(injections) \in Nat
    BY GivenGrows
  <2>3. toolRounds <= Given(injections) + iteration BY <2>1
  <2>4. toolRounds' <= Given(injections + 1) BY <1>1, <2>2, <2>3
  <2>5. Given(CountedMerges)' = Given(injections + 1) BY <2>1 DEF Given
  <2>6. Given(CountedMerges)' \in Nat BY <2>5, GivenGrows
  <2> QED BY <1>1, <1>4, <2>4, <2>5, <2>6
<1>5. CASE injections' = injections + 1 /\ ~(injections' <= MaxInjections) /\ UNCHANGED iteration
  <2>1. CountedMerges' = CountedMerges BY <1>1, <1>5 DEF CountedMerges
  <2> QED BY <1>1, <1>2, <1>5, <2>1 DEF Given
<1> QED BY <1>3, <1>4, <1>5 DEF DrainInjected

LEMMA RoundEndsAddsUp ==
    ASSUME RoundsAddUp, loopAt = "batch", toolRounds' = toolRounds + 1, UNCHANGED injections,
           \/ loopAt' = "checkB" /\ iteration' = iteration + 1
           \/ loopAt' = "ended" /\ UNCHANGED iteration
    PROVE  RoundsAddUp'
<1> USE DEF RoundsAddUp
<1>1. MaxToolIterations \in Nat \ {0} /\ MaxInjections \in Nat
  BY LoopAssumption DEF LoopAssumption
<1>2. Given(CountedMerges) \in Nat /\ CountedMerges' = CountedMerges
  BY <1>1, GivenGrows DEF CountedMerges
<1> QED BY <1>1, <1>2 DEF Given, InRound

LEMMA RoundsStep ==
    ASSUME RoundsAddUp, LoopNext
    PROVE  RoundsAddUp'
<1> USE DEF End, rounds, counters, outside, recovery
<1> DEFINE Rests == UNCHANGED <<injections, iteration, toolRounds>>
<1>1. CASE TurnGate \/ ProbeReturns
  <2>1. loopAt \in {"gate", "probing"} /\ loopAt' \in {"head", "probing", "ended"} /\ Rests
    BY <1>1 DEF TurnGate, ProbeReturns, GateResponse
  <2> QED BY <2>1, RoundsStay DEF InRound
<1>2. CASE RunOut
  <2>1. loopAt = "head" /\ loopAt' = "ended" /\ Rests BY <1>2 DEF RunOut, ExhaustedExit
  <2> QED BY <2>1, RoundsStay DEF InRound
<1>3. CASE BeginRound
  <2>1. /\ loopAt = "head" /\ iteration < MaxToolIterations /\ UNCHANGED toolRounds
        /\ DrainInjected /\ loopAt' \in {"calling", "head", "ended"}
    BY <1>3 DEF BeginRound, ErrorExit
  <2> QED BY <2>1, DrainAddsUp
<1>4. CASE CheckA
  <2>1. loopAt = "calling" /\ Rests BY <1>4 DEF CheckA, StoppedExit
  <2> QED BY <2>1, RoundsStay DEF InRound
<1>5. CASE RetryCall \/ GiveUpOnCall \/ CallSucceeds
  <2>1. loopAt = "reply" /\ Rests BY <1>5 DEF RetryCall, GiveUpOnCall, CallSucceeds
  <2> QED BY <2>1, RoundsStay DEF InRound
<1>6. CASE Compact
  <2>1. loopAt = "compacting" /\ Rests BY <1>6 DEF Compact
  <2> QED BY <2>1, RoundsStay DEF InRound
<1>7. CASE FallbackReturns
  <2>1. loopAt = "fallback" /\ Rests BY <1>7 DEF FallbackReturns
  <2> QED BY <2>1, RoundsStay DEF InRound
<1>8. CASE NudgeModel \/ EmptyReply \/ AnswerIntercepted \/ NudgeGoal \/ AcceptAnswer
  <2>1. loopAt = "answer" /\ Rests
    BY <1>8 DEF NudgeModel, EmptyReply, AnswerIntercepted, NudgeGoal, AcceptAnswer, AnswerTo
  <2> QED BY <2>1, RoundsStay DEF InRound
<1>9. CASE CallTools
  <2>1. loopAt = "answer" /\ Rests BY <1>9 DEF CallTools
  <2> QED BY <2>1, RoundsStay DEF InRound
<1>10. CASE BatchEndsTurn
  <2>1. /\ loopAt = "batch" /\ loopAt' = "ended" /\ toolRounds' = toolRounds + 1
        /\ UNCHANGED <<injections, iteration>>
    BY <1>10 DEF BatchEndsTurn, ErrorExit, GateResponse
  <2> QED BY <2>1, RoundEndsAddsUp
<1>11. CASE BatchDone
  <2>1. /\ loopAt = "batch" /\ loopAt' = "checkB" /\ toolRounds' = toolRounds + 1
        /\ UNCHANGED injections /\ iteration' = iteration + 1
    BY <1>11 DEF BatchDone
  <2> QED BY <2>1, RoundEndsAddsUp
<1>12. CASE CheckB
  <2>1. loopAt = "checkB" /\ loopAt' \in {"head", "ended"} /\ Rests
    BY <1>12 DEF CheckB, StoppedExit
  <2> QED BY <2>1, RoundsStay DEF InRound
<1>13. CASE Inject \/ StopTurn
  <2>1. loopAt # "ended" /\ UNCHANGED loopAt /\ Rests BY <1>13 DEF Inject, StopTurn
  <2> QED BY <2>1, LoopAssumption DEF RoundsAddUp, CountedMerges, Given
<1> QED BY <1>1, <1>2, <1>3, <1>4, <1>5, <1>6, <1>7, <1>8, <1>9, <1>10, <1>11, <1>12, <1>13
        DEF LoopNext, LoopStep

\* ToolRoundsAreBounded, for all limits: however many messages are injected, the
\* first MaxInjections merges alone give rounds back, one less than a budget each.
THEOREM InjectionsGiveBoundedRounds == LoopSpec => []ToolRoundsAreBounded
<1>1. LoopInit => RoundsAddUp
  BY GivenGrows, LoopAssumption DEF LoopInit, RoundsAddUp, CountedMerges, LoopAssumption
<1>2. RoundsAddUp /\ [LoopNext]_loopVars => RoundsAddUp'
  <2>1. RoundsAddUp /\ UNCHANGED loopVars => RoundsAddUp'
    BY DEF loopVars, RoundsAddUp, CountedMerges, Given
  <2> QED BY <2>1, RoundsStep
<1>3. RoundsAddUp => ToolRoundsAreBounded
  <2> SUFFICES ASSUME RoundsAddUp PROVE ToolRoundsAreBounded OBVIOUS
  <2>1. MaxToolIterations \in Nat \ {0} /\ MaxInjections \in Nat
    BY LoopAssumption DEF LoopAssumption
  <2>2. CountedMerges \in Nat /\ CountedMerges <= MaxInjections
    BY <2>1 DEF CountedMerges, RoundsAddUp
  <2>3. Given(CountedMerges) <= MaxInjections * (MaxToolIterations - 1)
    <3>1. MaxToolIterations - 1 \in Nat BY <2>1
    <3>2. ASSUME NEW n \in Nat, NEW j \in Nat, NEW m \in Nat, n <= j PROVE n * m <= j * m
      BY <3>2
    <3> QED BY <2>1, <2>2, <3>1, <3>2 DEF Given
  <2>4. toolRounds <= Given(CountedMerges) + MaxToolIterations
    BY <2>1, <2>2, GivenGrows DEF RoundsAddUp
  <2>5. Given(CountedMerges) \in Nat /\ MaxInjections * (MaxToolIterations - 1) \in Nat
    BY <2>1, <2>2, GivenGrows DEF Given
  <2> QED BY <2>1, <2>3, <2>4, <2>5 DEF ToolRoundsAreBounded, RoundsAddUp
<1> QED BY <1>1, <1>2, <1>3, PTL DEF LoopSpec

-----------------------------------------------------------------------------
(* A batch: the approval that a risky call runs on. *)

Decisions == {"approve", "reject"}

\* While the loop waits, what the registry accepted is the decision it holds; an
\* approval the loop has read is the only decision that was accepted.
ApprovalIsTheOneAccepted ==
    /\ decision \in Decisions \union {None}
    /\ pendingApproval => batchAt \in {"asking", "decided"}
    /\ batchAt = "asking" => accepted = IF decision = None THEN <<>> ELSE <<decision>>
    /\ batchAt = "decided" /\ chosen = "approve" => accepted = <<"approve">> /\ decision # None
    /\ ranRisky \subseteq {<<"approve">>}

LEMMA BatchStepsKeepApproval ==
    ASSUME ApprovalIsTheOneAccepted, BatchStep
    PROVE  ApprovalIsTheOneAccepted'
<1> USE DEF ApprovalIsTheOneAccepted, approvalVars, None, Decisions
<1>1. CASE BeginBatch BY <1>1 DEF BeginBatch
<1>2. CASE Collect BY <1>2 DEF Collect
<1>3. CASE CollectDone BY <1>3 DEF CollectDone
<1>4. CASE SkipCall BY <1>4 DEF SkipCall
<1>5. CASE PublishParallel BY <1>5 DEF PublishParallel
<1>6. CASE RunCall BY <1>6 DEF RunCall
<1>7. CASE RejectForApi BY <1>7 DEF RejectForApi
<1>8. CASE AskApproval BY <1>8 DEF AskApproval
<1>9. CASE StopWaiting BY <1>9 DEF StopWaiting
<1>10. CASE ActOnDecision
  <2>1. /\ batchAt = "decided" /\ batchAt' = "serial" /\ ~pendingApproval' /\ decision' = None
        /\ ranRisky' \in {ranRisky, ranRisky \union {accepted}}
        /\ ranRisky' # ranRisky => chosen = "approve"
    BY <1>10 DEF ActOnDecision
  <2> QED BY <2>1
<1>11. CASE EndBatch BY <1>11 DEF EndBatch
<1>12. CASE LeaveBatch BY <1>12 DEF LeaveBatch
<1> QED BY <1>1, <1>2, <1>3, <1>4, <1>5, <1>6, <1>7, <1>8, <1>9, <1>10, <1>11, <1>12 DEF BatchStep

LEMMA ResolvingKeepsApproval ==
    ASSUME ApprovalIsTheOneAccepted, NEW d \in Decisions, Resolve(d)
    PROVE  ApprovalIsTheOneAccepted'
<1>1. /\ pendingApproval /\ decision = None /\ decision' = d /\ accepted' = Append(accepted, d)
      /\ UNCHANGED <<batchAt, pendingApproval, chosen, ranRisky>>
  BY DEF Resolve
<1>2. batchAt = "asking" => accepted' = <<d>>
  BY <1>1 DEF ApprovalIsTheOneAccepted
<1>3. d # None BY DEF Decisions, None
<1> QED BY <1>1, <1>2, <1>3 DEF ApprovalIsTheOneAccepted

\* RiskyCallWasApproved, for any calls, batches and threads: execute_tool_calls
\* runs a risky call on the one decision ApprovalRegistry accepted, an approval.
THEOREM RiskyCallIsApproved == BatchSpec => []RiskyCallWasApproved
<1>1. BatchInit => ApprovalIsTheOneAccepted
  BY DEF BatchInit, ApprovalIsTheOneAccepted, Decisions
<1>2. ApprovalIsTheOneAccepted /\ [BatchNext]_batchVars => ApprovalIsTheOneAccepted'
  <2>1. ASSUME ApprovalIsTheOneAccepted,
               UNCHANGED <<batchAt, approvalVars>>
        PROVE  ApprovalIsTheOneAccepted'
    BY <2>1 DEF ApprovalIsTheOneAccepted, approvalVars
  <2>2. StopBatch => UNCHANGED <<batchAt, approvalVars>> BY DEF StopBatch
  <2>3. \A c \in Calls : WorkerDone(c) => UNCHANGED <<batchAt, approvalVars>> BY DEF WorkerDone
  <2>4. \A t \in EchoThreads : EchoEnter(t) \/ EchoAppend(t) => UNCHANGED <<batchAt, approvalVars>>
    BY DEF EchoEnter, EchoAppend
  <2>5. UNCHANGED batchVars => UNCHANGED <<batchAt, approvalVars>> BY DEF batchVars, approvalVars
  <2> QED BY <2>1, <2>2, <2>3, <2>4, <2>5, BatchStepsKeepApproval, ResolvingKeepsApproval
          DEF BatchNext, Decisions
<1>3. ApprovalIsTheOneAccepted => RiskyCallWasApproved
  BY DEF ApprovalIsTheOneAccepted, RiskyCallWasApproved
<1> QED BY <1>1, <1>2, <1>3, PTL DEF BatchSpec

-----------------------------------------------------------------------------
(* A batch: what the model is told of it, and the rows of its log. *)

InBatch == batchAt \notin {"idle", "ended"}

UpTo(n) == [c \in 1 .. n |-> c]

\* The results told so far are those of the calls up to the current one, in order.
ToldInOrder ==
    /\ current \in Nat \ {0} /\ tail \in Seq(Nat)
    /\ InBatch => current <= NumCalls + 1 /\ request = <<>>
    /\ batchAt \in {"asking", "decided"} => current <= NumCalls
    /\ InBatch /\ Urgent \notin ToSet(tail) => tail = UpTo(current - 1)
    /\ ResultsReachTheModel

LEMMA CallIsTold ==
    ASSUME ToldInOrder, InBatch, current <= NumCalls, batchAt' = "serial",
           current' = current + 1, UNCHANGED request,
           tail' = Append(tail, current) \/ tail' = tail \o <<current, Urgent>>
    PROVE  ToldInOrder'
<1> NumCalls \in Nat BY BatchAssumption DEF BatchAssumption
<1>1. current \in Nat \ {0} /\ tail \in Seq(Nat) /\ request = <<>>
      /\ (Urgent \notin ToSet(tail) => tail = UpTo(current - 1))
  BY DEF ToldInOrder, InBatch
<1>2. tail' \in Seq(Nat)
  <2>1. Append(tail, current) \in Seq(Nat) BY <1>1
  <2>2. <<current, Urgent>> \in Seq(Nat) BY <1>1 DEF Urgent
  <2>3. tail \o <<current, Urgent>> \in Seq(Nat) BY <1>1, <2>2, ConcatProperties
  <2> QED BY <2>1, <2>3
<1>3. ASSUME Urgent \notin ToSet(tail)' PROVE tail' = UpTo(current)
  <2>1. tail' = Append(tail, current)
    <3>1. ASSUME tail' = tail \o <<current, Urgent>> PROVE Urgent \in ToSet(tail)'
      <4>1. Len(tail') = Len(tail) + 2 /\ tail'[Len(tail) + 2] = Urgent BY <1>1, <3>1 DEF Urgent
      <4>2. Len(tail) + 2 \in DOMAIN tail' BY <1>1, <1>2, <4>1
      <4> QED BY <4>1, <4>2 DEF ToSet
    <3> QED BY <1>3, <3>1
  <2>2. Urgent \notin ToSet(tail)
    <3>1. ASSUME NEW i \in DOMAIN tail PROVE i \in DOMAIN tail' /\ tail'[i] = tail[i]
      BY <1>1, <2>1, <3>1
    <3> QED BY <1>3, <3>1 DEF ToSet
  <2>3. tail = UpTo(current - 1) BY <1>1, <2>2
  <2>4. Len(tail) = current - 1 /\ \A i \in 1 .. Len(tail) : tail[i] = i
    BY <1>1, <2>3 DEF UpTo
  <2>5. Len(tail') = current /\ \A i \in 1 .. current : tail'[i] = i
    BY <1>1, <2>1, <2>4
  <2> QED BY <1>1, <1>2, <2>5 DEF UpTo
<1>4. current' - 1 = current BY <1>1
<1> QED BY <1>1, <1>2, <1>3, <1>4 DEF ToldInOrder, InBatch, ResultsReachTheModel

\* repair_tool_pairs leaves a whole batch as it is.
LEMMA WholeIsNotRepaired ==
    ASSUME NumCalls \in Nat, NEW t, t = UpTo(NumCalls), Urgent \notin ToSet(t)
    PROVE  RepairToolPairs(t) = [c \in Calls |-> <<c, result[c]>>]
<1>1. t \in Seq(Nat) /\ Len(t) = NumCalls /\ \A i \in 1 .. NumCalls : t[i] = i BY DEF UpTo
<1>2. Calls \ ToSet(t) = {} BY <1>1 DEF Calls, ToSet
<1>3. Cardinality(Calls \ ToSet(t)) = 0 BY <1>2, FS_EmptySet
<1> DEFINE told == [n \in 1 .. Len(t) |-> <<t[n], result[t[n]]>>]
           Nth(n) == CHOOSE c \in Calls \ ToSet(t) :
                        Cardinality({d \in Calls \ ToSet(t) : d < c}) = n - 1
           made == [n \in 1 .. Cardinality(Calls \ ToSet(t)) |-> <<Nth(n), "interrupted">>]
<1>4. RepairToolPairs(t) = told \o made
  <2> DEFINE kept == IF Urgent \in ToSet(t)
                     THEN SubSeq(t, 1, (CHOOSE n \in DOMAIN t : t[n] = Urgent) - 1) ELSE t
             Repaired(run) ==
               [n \in 1 .. Len(run) |-> <<run[n], result[run[n]]>>]
                 \o [n \in 1 .. Cardinality(Calls \ ToSet(run)) |->
                       <<CHOOSE c \in Calls \ ToSet(run) :
                           Cardinality({d \in Calls \ ToSet(run) : d < c}) = n - 1, "interrupted">>]
  <2>1. RepairToolPairs(t) = Repaired(kept) BY Zenon DEF RepairToolPairs
  <2>2. kept = t OBVIOUS
  <2>3. Repaired(t) = told \o made BY Zenon
  <2> HIDE DEF kept, Repaired, told, made
  <2> QED BY <2>1, <2>2, <2>3
<1>5. made = <<>>
  <2> DEFINE N == 1 .. Cardinality(Calls \ ToSet(t))
             S == {<<Nth(n), "interrupted">> : n \in N}
  <2>1. made \in [N -> S]
    <3> HIDE DEF Nth
    <3> QED BY Zenon
  <2> HIDE DEF made, S
  <2>2. N = 1 .. 0 BY <1>3
  <2> HIDE DEF N
  <2>3. made \in [1 .. 0 -> S] BY <2>1, <2>2
  <2>4. made \in Seq(S) /\ Len(made) = 0 BY <2>3
  <2> QED BY <2>4, EmptySeq
<1>6. told = [c \in Calls |-> <<c, result[c]>>] BY <1>1 DEF Calls
<1>7. told \in Seq({<<c, result[c]>> : c \in Calls})
  <2> SUFFICES [c \in Calls |-> <<c, result[c]>>] \in Seq({<<c, result[c]>> : c \in Calls}) BY <1>6
  <2> QED BY IsASeq DEF Calls
<1> HIDE DEF told, made
<1>8. told \o made = told BY <1>5, <1>7, ConcatEmptySeq
<1> QED BY <1>4, <1>6, <1>8

LEMMA ToldStep ==
    ASSUME ToldInOrder, BatchNext PROVE ToldInOrder'
<1> NumCalls \in Nat BY BatchAssumption DEF BatchAssumption
<1>1. ASSUME UNCHANGED <<current, tail, request, result>>, InBatch' => InBatch,
             batchAt' \in {"asking", "decided"} => current <= NumCalls
      PROVE  ToldInOrder'
  BY <1>1 DEF ToldInOrder, InBatch, ResultsReachTheModel
<1>2. ASSUME UNCHANGED <<current, tail, request>>, InBatch, InBatch', batchAt' \notin {"asking", "decided"}
      PROVE  ToldInOrder'
  BY <1>2 DEF ToldInOrder, InBatch, ResultsReachTheModel
<1>3. CASE BeginBatch
  <2>1. current' = 1 /\ tail' = <<>> /\ request' = <<>> /\ batchAt' = "parallel" BY <1>3 DEF BeginBatch
  <2>2. UpTo(0) = <<>> BY DEF UpTo
  <2>3. 1 - 1 = 0 OBVIOUS
  <2> QED BY <2>1, <2>2, <2>3 DEF ToldInOrder, InBatch, ResultsReachTheModel
<1>4. CASE Collect BY <1>2, <1>4 DEF Collect, InBatch
<1>5. CASE CollectDone \/ StopBatch \/ AskApproval \/ StopWaiting \/ LeaveBatch
  <2>1. UNCHANGED <<current, tail, request, result>>
    BY <1>5 DEF CollectDone, StopBatch, AskApproval, StopWaiting, LeaveBatch
  <2>2. /\ InBatch' => InBatch
        /\ batchAt' \in {"asking", "decided"} => batchAt \in {"asking", "decided"} \/ current <= NumCalls
    BY <1>5 DEF CollectDone, StopBatch, AskApproval, StopWaiting, LeaveBatch, InBatch, AtCall
  <2>3. batchAt' \in {"asking", "decided"} => current <= NumCalls BY <2>2 DEF ToldInOrder
  <2> QED BY <1>1, <2>1, <2>2, <2>3
<1>6. CASE SkipCall \/ PublishParallel \/ RunCall \/ RejectForApi \/ ActOnDecision
  <2>1. /\ batchAt \in {"serial", "decided"} /\ batchAt' = "serial" /\ current <= NumCalls
        /\ UNCHANGED request
    BY <1>6 DEF SkipCall, PublishParallel, RunCall, RejectForApi, ActOnDecision, AtCall, ToldInOrder
  <2>2. /\ current' = current + 1
        /\ tail' = Append(tail, current) \/ tail' = tail \o <<current, Urgent>>
    BY <1>6 DEF SkipCall, PublishParallel, RunCall, RejectForApi, ActOnDecision, Publish
  <2>3. InBatch BY <2>1 DEF InBatch
  <2> QED BY <2>1, <2>2, <2>3, CallIsTold
<1>7. CASE EndBatch
  <2>1. /\ batchAt = "serial" /\ current > NumCalls /\ batchAt' \in {"idle", "ended"}
        /\ UNCHANGED <<current, result, tail>> /\ request' = RepairToolPairs(tail)
    BY <1>7 DEF EndBatch
  <2>2. current \in Nat \ {0} /\ current - 1 = NumCalls BY <2>1 DEF ToldInOrder, InBatch
  <2>3. Urgent \notin ToSet(tail) => tail = UpTo(NumCalls) BY <2>1, <2>2 DEF ToldInOrder, InBatch
  <2>4. Urgent \notin ToSet(tail) => request' = [c \in Calls |-> <<c, result[c]>>]
    BY <2>1, <2>3, WholeIsNotRepaired
  <2>5. ResultsReachTheModel' BY <2>1, <2>4 DEF ResultsReachTheModel
  <2> QED BY <2>1, <2>2, <2>5 DEF ToldInOrder, InBatch
<1>8. ASSUME NEW c \in Calls, WorkerDone(c) PROVE ToldInOrder'
  BY <1>8 DEF WorkerDone, ToldInOrder, InBatch, ResultsReachTheModel
<1>9. ASSUME NEW d \in {"approve", "reject"}, Resolve(d) PROVE ToldInOrder'
  BY <1>9 DEF Resolve, ToldInOrder, InBatch, ResultsReachTheModel
<1>10. ASSUME NEW t \in EchoThreads, EchoEnter(t) \/ EchoAppend(t) PROVE ToldInOrder'
  BY <1>10 DEF EchoEnter, EchoAppend, ToldInOrder, InBatch, ResultsReachTheModel
<1> QED BY <1>3, <1>4, <1>5, <1>6, <1>7, <1>8, <1>9, <1>10 DEF BatchNext, BatchStep

LogRows(n) == [what : {"call", "output", "echo"}, batch : 0 .. n]
EchoRows(n) == [what : {"echo"}, batch : 0 .. n]

\* A thread that has passed the guard did so before an open batch began.
PassedBefore == IF echoOpen THEN batch - 1 ELSE batch

EchoesTyped ==
    /\ batch \in Nat /\ echoOpen \in BOOLEAN
    /\ chatlog \in Seq(LogRows(batch)) /\ echoPending \in Seq(EchoRows(batch))
    /\ echoing \in [EchoThreads -> [at : {"new", "appending", "gone"}, rows : Seq(EchoRows(batch))]]

\* No echo among the calls and outputs of the batch that is open is its own.
OpenBatchIsClean ==
    echoOpen =>
        \A e \in 1 .. Len(chatlog) :
            chatlog[e].what = "echo" /\ (\E k \in 1 .. e : chatlog[k] = [what |-> "call", batch |-> batch])
            => chatlog[e].batch < batch

LogInOrder == chatlog \in Seq(LogRows(batch)) /\ OpenBatchIsClean /\ EchoFollowsOutputs

EchoesWait ==
    /\ EchoesTyped /\ OpenBatchIsClean /\ EchoFollowsOutputs
    /\ InBatch => echoOpen
    /\ \A t \in EchoThreads : echoing[t].at = "appending" => echoing[t].rows \in Seq(EchoRows(PassedBefore))

LEMMA SeqOfMore ==
    ASSUME NEW S, NEW T, S \subseteq T, NEW s \in Seq(S) PROVE s \in Seq(T)
BY SeqMonotonic

LEMMA LogGrows ==
    ASSUME NEW S, chatlog \in Seq(S), NEW rows \in Seq(S), chatlog' = chatlog \o rows
    PROVE  /\ chatlog' \in Seq(S) /\ Len(chatlog') = Len(chatlog) + Len(rows)
           /\ \A i \in 1 .. Len(chatlog) : chatlog'[i] = chatlog[i]
           /\ \A i \in 1 .. Len(chatlog') : i > Len(chatlog) => chatlog'[i] \in S
           /\ \A i \in 1 .. Len(chatlog') : i > Len(chatlog) =>
                 i - Len(chatlog) \in 1 .. Len(rows) /\ chatlog'[i] = rows[i - Len(chatlog)]
<1>1. /\ Len(chatlog') = Len(chatlog) + Len(rows) /\ chatlog' \in Seq(S)
      /\ Len(chatlog) \in Nat /\ Len(rows) \in Nat
      /\ \A i \in 1 .. Len(chatlog) + Len(rows) :
            chatlog'[i] = IF i <= Len(chatlog) THEN chatlog[i] ELSE rows[i - Len(chatlog)]
  BY ConcatProperties
<1>2. \A i \in 1 .. Len(chatlog) : chatlog'[i] = chatlog[i] BY <1>1
<1>3. \A i \in 1 .. Len(chatlog') : i > Len(chatlog) =>
         i - Len(chatlog) \in 1 .. Len(rows) /\ chatlog'[i] = rows[i - Len(chatlog)]
  BY <1>1
<1>4. \A i \in 1 .. Len(rows) : rows[i] \in S BY ElementOfSeq
<1> QED BY <1>1, <1>2, <1>3, <1>4

\* Echoes at the end of the log come after every output.
LEMMA EchoesCome ==
    ASSUME EchoesWait, NEW n \in Int, NEW rows \in Seq(EchoRows(n)), n <= batch, chatlog' = chatlog \o rows,
           UNCHANGED batch, echoOpen' => echoOpen /\ n < batch
    PROVE  LogInOrder'
<1>0. batch \in Nat /\ chatlog \in Seq(LogRows(batch)) BY DEF EchoesWait, EchoesTyped
<1>1. rows \in Seq(LogRows(batch))
  <2>1. EchoRows(n) \subseteq LogRows(batch) BY <1>0 DEF EchoRows, LogRows
  <2> QED BY <2>1, SeqOfMore
<1>2. /\ chatlog' \in Seq(LogRows(batch)) /\ Len(chatlog') = Len(chatlog) + Len(rows)
      /\ \A i \in 1 .. Len(chatlog) : chatlog'[i] = chatlog[i]
      /\ \A i \in 1 .. Len(chatlog') : i > Len(chatlog) =>
            i - Len(chatlog) \in 1 .. Len(rows) /\ chatlog'[i] = rows[i - Len(chatlog)]
  BY <1>0, <1>1, LogGrows
<1>3. Len(chatlog) \in Nat /\ Len(chatlog') \in Nat BY <1>0, <1>2
<1>4. \A i \in 1 .. Len(rows) : rows[i].what = "echo" /\ rows[i].batch \in 0 .. n
  <2>1. \A i \in 1 .. Len(rows) : rows[i] \in EchoRows(n) BY ElementOfSeq
  <2> QED BY <2>1 DEF EchoRows
<1>5. \A i \in 1 .. Len(chatlog') :
         i > Len(chatlog) => chatlog'[i].what = "echo" /\ chatlog'[i].batch \in 0 .. n
  BY <1>2, <1>4
<1>6. OpenBatchIsClean'
  <2> SUFFICES ASSUME echoOpen', NEW e \in 1 .. Len(chatlog'), chatlog'[e].what = "echo",
                      NEW k \in 1 .. e, chatlog'[k] = [what |-> "call", batch |-> batch]
               PROVE  chatlog'[e].batch < batch
    BY DEF OpenBatchIsClean
  <2>1. CASE e > Len(chatlog) BY <1>0, <1>5, <2>1
  <2>2. CASE ~(e > Len(chatlog))
    <3>1. e \in 1 .. Len(chatlog) /\ k \in 1 .. Len(chatlog) BY <1>3, <2>2
    <3> QED BY <1>2, <3>1 DEF EchoesWait, OpenBatchIsClean
  <2> QED BY <2>1, <2>2
<1>7. EchoFollowsOutputs'
  <2> SUFFICES ASSUME NEW e \in DOMAIN chatlog', NEW o \in DOMAIN chatlog', chatlog'[e].what = "echo",
                      chatlog'[o].what = "output", e < o,
                      NEW k \in 1 .. e, chatlog'[k] = [what |-> "call", batch |-> chatlog'[o].batch]
               PROVE  chatlog'[e].batch < chatlog'[o].batch
    BY DEF EchoFollowsOutputs
  <2>1. DOMAIN chatlog' = 1 .. Len(chatlog') /\ DOMAIN chatlog = 1 .. Len(chatlog) BY <1>0, <1>2
  <2>2. ~(o > Len(chatlog)) BY <1>5, <2>1
  <2>3. e \in 1 .. Len(chatlog) /\ o \in 1 .. Len(chatlog) /\ k \in 1 .. Len(chatlog)
    BY <1>3, <2>1, <2>2
  <2> QED BY <1>2, <2>1, <2>3 DEF EchoesWait, EchoFollowsOutputs
<1> QED BY <1>2, <1>6, <1>7 DEF LogInOrder

\* An output of the open batch finds no echo of its own batch before it.
LEMMA OutputComes ==
    ASSUME EchoesWait, InBatch, chatlog' = chatlog \o Output, UNCHANGED <<batch, echoOpen>>
    PROVE  LogInOrder'
<1>0. batch \in Nat /\ chatlog \in Seq(LogRows(batch)) /\ echoOpen BY DEF EchoesWait, EchoesTyped
<1> DEFINE row == [what |-> "output", batch |-> batch]
<1>1. row \in LogRows(batch) /\ Output = <<row>> BY <1>0 DEF LogRows, Output, Row
<1>2. Output \in Seq(LogRows(batch)) /\ Len(Output) = 1 /\ Output[1] = row BY <1>1
<1> HIDE DEF row
<1>3. /\ chatlog' \in Seq(LogRows(batch)) /\ Len(chatlog') = Len(chatlog) + 1
      /\ \A i \in 1 .. Len(chatlog) : chatlog'[i] = chatlog[i]
      /\ \A i \in 1 .. Len(chatlog') : i > Len(chatlog) =>
            i - Len(chatlog) \in 1 .. 1 /\ chatlog'[i] = Output[i - Len(chatlog)]
  BY <1>0, <1>2, LogGrows
<1>4. Len(chatlog) \in Nat BY <1>0
<1>5. \A i \in 1 .. Len(chatlog') : i > Len(chatlog) =>
         chatlog'[i].what = "output" /\ chatlog'[i].batch = batch
  <2>1. row.what = "output" /\ row.batch = batch BY DEF row
  <2>2. ASSUME NEW i \in 1 .. Len(chatlog'), i > Len(chatlog) PROVE chatlog'[i] = row
    <3>1. i - Len(chatlog) = 1 BY <1>3, <1>4, <2>2
    <3> QED BY <1>2, <1>3, <2>2, <3>1
  <2> QED BY <2>1, <2>2
<1>6. OpenBatchIsClean'
  <2> SUFFICES ASSUME NEW e \in 1 .. Len(chatlog'), chatlog'[e].what = "echo",
                      NEW k \in 1 .. e, chatlog'[k] = [what |-> "call", batch |-> batch]
               PROVE  chatlog'[e].batch < batch
    BY DEF OpenBatchIsClean
  <2>1. ~(e > Len(chatlog)) BY <1>5
  <2>2. e \in 1 .. Len(chatlog) /\ k \in 1 .. Len(chatlog) BY <1>3, <1>4, <2>1
  <2> QED BY <1>0, <1>3, <2>2 DEF EchoesWait, OpenBatchIsClean
<1>7. EchoFollowsOutputs'
  <2> SUFFICES ASSUME NEW e \in DOMAIN chatlog', NEW o \in DOMAIN chatlog', chatlog'[e].what = "echo",
                      chatlog'[o].what = "output", e < o,
                      NEW k \in 1 .. e, chatlog'[k] = [what |-> "call", batch |-> chatlog'[o].batch]
               PROVE  chatlog'[e].batch < chatlog'[o].batch
    BY DEF EchoFollowsOutputs
  <2>1. DOMAIN chatlog' = 1 .. Len(chatlog') /\ DOMAIN chatlog = 1 .. Len(chatlog) BY <1>0, <1>3
  <2>2. e \in 1 .. Len(chatlog) /\ k \in 1 .. Len(chatlog) BY <1>3, <1>4, <1>5, <2>1
  <2>3. CASE o > Len(chatlog)
    <3>1. chatlog'[o].batch = batch BY <1>5, <2>1, <2>3
    <3>2. chatlog[e].what = "echo" /\ chatlog[k] = [what |-> "call", batch |-> batch]
      BY <1>3, <2>2, <3>1
    <3>3. chatlog[e].batch < batch BY <1>0, <2>2, <3>2 DEF EchoesWait, OpenBatchIsClean
    <3> QED BY <1>3, <2>2, <3>1, <3>3
  <2>4. CASE ~(o > Len(chatlog))
    <3>1. o \in 1 .. Len(chatlog) BY <1>3, <1>4, <2>1, <2>4
    <3> QED BY <1>3, <2>1, <2>2, <3>1 DEF EchoesWait, EchoFollowsOutputs
  <2> QED BY <2>3, <2>4
<1> QED BY <1>3, <1>6, <1>7 DEF LogInOrder

LEMMA EchoRowsGrow ==
    ASSUME NEW m \in Int, NEW n \in Int, m <= n
    PROVE  Seq(EchoRows(m)) \subseteq Seq(EchoRows(n)) /\ Seq(LogRows(m)) \subseteq Seq(LogRows(n))
<1>1. EchoRows(m) \subseteq EchoRows(n) /\ LogRows(m) \subseteq LogRows(n) BY DEF EchoRows, LogRows
<1> QED BY <1>1, SeqMonotonic

LEMMA BatchOpens == ASSUME EchoesWait, BeginBatch PROVE EchoesWait'
<1> NumCalls \in Nat BY BatchAssumption DEF BatchAssumption
<1> DEFINE call == [what |-> "call", batch |-> batch']
           opening == [c \in Calls |-> call]
<1>1. /\ batch' = batch + 1 /\ echoOpen' = TRUE /\ UNCHANGED <<echoPending, echoing>>
      /\ chatlog' = chatlog \o opening
  BY DEF BeginBatch
<1>2. batch \in Nat /\ batch' \in Nat /\ batch' = batch + 1 BY <1>1 DEF EchoesWait, EchoesTyped
<1>3. opening \in Seq(LogRows(batch'))
  <2>1. call \in LogRows(batch') BY <1>2 DEF LogRows
  <2> HIDE DEF call
  <2> QED BY <2>1, IsASeq DEF Calls
<1>4. \A i \in 1 .. Len(opening) : opening[i].what = "call" BY DEF Calls
<1> HIDE DEF opening
<1>5. /\ Seq(LogRows(batch)) \subseteq Seq(LogRows(batch')) /\ Seq(EchoRows(batch)) \subseteq Seq(EchoRows(batch'))
  BY <1>2, EchoRowsGrow
<1>6. chatlog \in Seq(LogRows(batch')) /\ chatlog \in Seq(LogRows(batch))
  BY <1>5 DEF EchoesWait, EchoesTyped
<1>7. /\ chatlog' \in Seq(LogRows(batch')) /\ Len(chatlog') = Len(chatlog) + Len(opening)
      /\ \A i \in 1 .. Len(chatlog) : chatlog'[i] = chatlog[i]
      /\ \A i \in 1 .. Len(chatlog') : i > Len(chatlog) =>
            i - Len(chatlog) \in 1 .. Len(opening) /\ chatlog'[i] = opening[i - Len(chatlog)]
  <2> PICK n : n = batch' OBVIOUS
  <2> QED BY <1>1, <1>3, <1>6, LogGrows
<1>8. Len(chatlog) \in Nat /\ Len(opening) \in Nat BY <1>3, <1>6
<1>9. \A i \in 1 .. Len(chatlog') : i > Len(chatlog) => chatlog'[i].what = "call" BY <1>4, <1>7
<1>10. \A i \in 1 .. Len(chatlog) : chatlog[i].batch \in 0 .. batch
  <2>1. \A i \in 1 .. Len(chatlog) : chatlog[i] \in LogRows(batch) BY <1>6, ElementOfSeq
  <2> QED BY <2>1 DEF LogRows
<1>11. OpenBatchIsClean'
  <2> SUFFICES ASSUME NEW e \in 1 .. Len(chatlog'), chatlog'[e].what = "echo",
                      NEW k \in 1 .. e, chatlog'[k] = [what |-> "call", batch |-> batch']
               PROVE  chatlog'[e].batch < batch'
    BY DEF OpenBatchIsClean
  <2>1. e \in 1 .. Len(chatlog) BY <1>7, <1>8, <1>9
  <2> QED BY <1>2, <1>7, <1>10, <2>1
<1>12. EchoFollowsOutputs'
  <2> SUFFICES ASSUME NEW e \in DOMAIN chatlog', NEW o \in DOMAIN chatlog', chatlog'[e].what = "echo",
                      chatlog'[o].what = "output", e < o,
                      NEW k \in 1 .. e, chatlog'[k] = [what |-> "call", batch |-> chatlog'[o].batch]
               PROVE  chatlog'[e].batch < chatlog'[o].batch
    BY DEF EchoFollowsOutputs
  <2>1. DOMAIN chatlog' = 1 .. Len(chatlog') /\ DOMAIN chatlog = 1 .. Len(chatlog) BY <1>6, <1>7
  <2>2. e \in 1 .. Len(chatlog) /\ o \in 1 .. Len(chatlog) /\ k \in 1 .. Len(chatlog)
    <3>1. ~(o > Len(chatlog)) BY <1>9, <2>1
    <3>2. o \in 1 .. Len(chatlog) BY <1>7, <1>8, <2>1, <3>1
    <3>3. e \in 1 .. Len(chatlog) BY <1>8, <2>1, <3>2
    <3> QED BY <1>8, <3>2, <3>3
  <2>3. /\ chatlog[e].what = "echo" /\ chatlog[o].what = "output"
        /\ chatlog[k] = [what |-> "call", batch |-> chatlog[o].batch]
        /\ chatlog'[e] = chatlog[e] /\ chatlog'[o] = chatlog[o]
    BY <1>7, <2>2
  <2>4. chatlog[e].batch < chatlog[o].batch BY <2>1, <2>2, <2>3 DEF EchoesWait, EchoFollowsOutputs
  <2> QED BY <2>3, <2>4
<1>13. EchoesTyped' BY <1>1, <1>2, <1>5, <1>7 DEF EchoesWait, EchoesTyped
<1>14. \A t \in EchoThreads : echoing'[t].at = "appending" => echoing'[t].rows \in Seq(EchoRows(PassedBefore'))
  <2>1. PassedBefore' = batch BY <1>1, <1>2 DEF PassedBefore
  <2> QED BY <1>1, <2>1 DEF EchoesWait, EchoesTyped
<1> QED BY <1>1, <1>11, <1>12, <1>13, <1>14 DEF EchoesWait

LEMMA EchoPasses == ASSUME EchoesWait, NEW t \in EchoThreads, EchoEnter(t) PROVE EchoesWait'
<1> DEFINE row == Row("echo")
           held == Append(echoPending, row)
           next == IF echoOpen THEN [at |-> "gone", rows |-> <<>>] ELSE [at |-> "appending", rows |-> held]
<1>1. /\ UNCHANGED <<batchAt, batch, chatlog, echoOpen>>
      /\ echoPending' = IF echoOpen THEN held ELSE <<>>
      /\ echoing' = [echoing EXCEPT ![t] = next]
  BY DEF EchoEnter
<1>2. batch \in Nat /\ row \in EchoRows(batch) BY DEF EchoesWait, EchoesTyped, EchoRows, Row
<1>3. held \in Seq(EchoRows(batch)) BY <1>2 DEF EchoesWait, EchoesTyped
<1>4. next \in [at : {"new", "appending", "gone"}, rows : Seq(EchoRows(batch))]
      /\ (next.at = "appending" => ~echoOpen /\ next.rows = held)
  BY <1>3
<1> HIDE DEF row, held, next
<1>5. EchoesTyped' BY <1>1, <1>3, <1>4 DEF EchoesWait, EchoesTyped
<1>6. OpenBatchIsClean' /\ EchoFollowsOutputs'
  BY <1>1 DEF EchoesWait, OpenBatchIsClean, EchoFollowsOutputs
<1>7. PassedBefore' = PassedBefore /\ (~echoOpen => PassedBefore = batch) BY <1>1 DEF PassedBefore
<1>8. \A u \in EchoThreads : echoing'[u].at = "appending" => echoing'[u].rows \in Seq(EchoRows(PassedBefore'))
  BY <1>1, <1>3, <1>4, <1>7 DEF EchoesWait, EchoesTyped
<1> QED BY <1>1, <1>5, <1>6, <1>8 DEF EchoesWait, InBatch

LEMMA EchoIsWritten == ASSUME EchoesWait, NEW t \in EchoThreads, EchoAppend(t) PROVE EchoesWait'
<1>1. /\ UNCHANGED <<batchAt, batch, echoOpen, echoPending>> /\ chatlog' = chatlog \o echoing[t].rows
      /\ echoing' = [echoing EXCEPT ![t] = [at |-> "gone", rows |-> <<>>]]
      /\ echoing[t].at = "appending"
  BY DEF EchoAppend
<1>2. batch \in Nat /\ echoing[t].rows \in Seq(EchoRows(PassedBefore))
  BY <1>1 DEF EchoesWait, EchoesTyped
<1>3. PassedBefore \in Int /\ PassedBefore <= batch /\ (echoOpen => PassedBefore < batch) /\ PassedBefore' = PassedBefore
  BY <1>1, <1>2 DEF PassedBefore
<1>4. LogInOrder'
  <2> PICK n : n = PassedBefore OBVIOUS
  <2> PICK rows : rows = echoing[t].rows OBVIOUS
  <2> QED BY <1>1, <1>2, <1>3, EchoesCome
<1>5. EchoesTyped' BY <1>1, <1>4 DEF EchoesWait, EchoesTyped, LogInOrder
<1>6. \A u \in EchoThreads : echoing'[u].at = "appending" => echoing'[u].rows \in Seq(EchoRows(PassedBefore'))
  BY <1>1, <1>3 DEF EchoesWait, EchoesTyped
<1> QED BY <1>1, <1>4, <1>5, <1>6 DEF EchoesWait, LogInOrder, InBatch

LEMMA EchoesStep ==
    ASSUME EchoesWait, BatchNext PROVE EchoesWait'
<1>1. ASSUME UNCHANGED <<batch, chatlog, echoVars>>, InBatch' => InBatch PROVE EchoesWait'
  BY <1>1 DEF EchoesWait, EchoesTyped, OpenBatchIsClean, EchoFollowsOutputs, PassedBefore, echoVars
<1>2. CASE Collect \/ CollectDone \/ RejectForApi \/ AskApproval \/ StopWaiting \/ StopBatch
  <2>1. UNCHANGED <<batch, chatlog, echoVars>> /\ (InBatch' => InBatch)
    BY <1>2 DEF Collect, CollectDone, RejectForApi, AskApproval, StopWaiting, StopBatch, AtCall, InBatch
  <2> QED BY <1>1, <2>1
<1>3. ASSUME \/ \E c \in Calls : WorkerDone(c)
             \/ \E d \in {"approve", "reject"} : Resolve(d)
      PROVE  EchoesWait'
  <2>1. UNCHANGED <<batch, chatlog, echoVars, batchAt>> BY <1>3 DEF WorkerDone, Resolve
  <2> QED BY <1>1, <2>1 DEF InBatch
<1>4. CASE SkipCall \/ PublishParallel \/ RunCall \/ ActOnDecision
  <2>1. /\ batchAt \in {"serial", "decided"} /\ batchAt' = "serial" /\ UNCHANGED <<batch, echoOpen, echoing>>
        /\ chatlog' = chatlog \o Output
        /\ echoPending' \in {echoPending, Append(echoPending, Row("echo"))}
    BY <1>4 DEF SkipCall, PublishParallel, RunCall, ActOnDecision, AtCall, Publish, echoVars
  <2>2. InBatch /\ LogInOrder' BY <2>1, OutputComes DEF InBatch
  <2>3. echoPending' \in Seq(EchoRows(batch))
    <3>1. Row("echo") \in EchoRows(batch) BY DEF EchoesWait, EchoesTyped, EchoRows, Row
    <3>2. echoPending \in Seq(EchoRows(batch)) BY DEF EchoesWait, EchoesTyped
    <3> QED BY <2>1, <3>1, <3>2
  <2>4. EchoesTyped' BY <2>1, <2>2, <2>3 DEF EchoesWait, EchoesTyped, LogInOrder
  <2> QED BY <2>1, <2>2, <2>4 DEF EchoesWait, LogInOrder, InBatch, PassedBefore
<1>5. CASE EndBatch \/ LeaveBatch
  <2>1. /\ batchAt' \in {"idle", "ended"} /\ UNCHANGED <<batch, echoing>>
        /\ echoOpen' = FALSE /\ echoPending' = <<>> /\ chatlog' = chatlog \o echoPending
    BY <1>5 DEF EndBatch, LeaveBatch, CloseGuard
  <2>2. batch \in Nat /\ echoPending \in Seq(EchoRows(batch)) BY DEF EchoesWait, EchoesTyped
  <2>3. LogInOrder'
    <3> PICK n : n = batch OBVIOUS
    <3> QED BY <2>1, <2>2, EchoesCome
  <2>4. EchoesTyped'
    <3>1. echoPending' \in Seq(EchoRows(batch)) BY <2>1
    <3> QED BY <2>1, <2>3, <3>1 DEF EchoesWait, EchoesTyped, LogInOrder
  <2>5. \A t \in EchoThreads : echoing'[t].at = "appending" => echoing'[t].rows \in Seq(EchoRows(PassedBefore'))
    BY <2>1 DEF EchoesWait, EchoesTyped, PassedBefore
  <2> QED BY <2>1, <2>3, <2>4, <2>5 DEF EchoesWait, LogInOrder, InBatch
<1> QED BY <1>2, <1>3, <1>4, <1>5, BatchOpens, EchoPasses, EchoIsWritten DEF BatchNext, BatchStep

\* BatchIsToldWhole, for any number of calls, replies and threads: the live
\* messages and the log hold a batch whole, as results are published in call order
\* and the echo guard holds back the rows of others until end_tool_batch.
THEOREM BatchIsWhole == BatchSpec => []BatchIsToldWhole
<1>1. BatchInit => ToldInOrder /\ EchoesWait
  <2> SUFFICES ASSUME BatchInit PROVE ToldInOrder /\ EchoesWait OBVIOUS
  <2>1. ToldInOrder BY DEF BatchInit, ToldInOrder, InBatch, ResultsReachTheModel
  <2>2. EchoesTyped
    <3>1. \A S : <<>> \in Seq(S) OBVIOUS
    <3>2. batch \in Nat /\ echoOpen \in BOOLEAN /\ chatlog = <<>> /\ echoPending = <<>>
          /\ echoing = [t \in EchoThreads |-> [at |-> "new", rows |-> <<>>]]
      BY DEF BatchInit
    <3> QED BY <3>1, <3>2 DEF EchoesTyped
  <2>3. OpenBatchIsClean /\ EchoFollowsOutputs BY DEF BatchInit, OpenBatchIsClean, EchoFollowsOutputs
  <2>4. \A t \in EchoThreads : echoing[t].at = "new" BY DEF BatchInit
  <2> QED BY <2>1, <2>2, <2>3, <2>4 DEF EchoesWait, InBatch, BatchInit
<1>2. ToldInOrder /\ EchoesWait /\ [BatchNext]_batchVars => (ToldInOrder /\ EchoesWait)'
  <2>1. ToldInOrder /\ UNCHANGED batchVars => ToldInOrder'
    BY DEF batchVars, ToldInOrder, InBatch, ResultsReachTheModel
  <2>2. EchoesWait /\ UNCHANGED batchVars => EchoesWait'
    BY DEF batchVars, EchoesWait, EchoesTyped, OpenBatchIsClean, EchoFollowsOutputs, InBatch, PassedBefore
  <2> QED BY <2>1, <2>2, ToldStep, EchoesStep
<1>3. ToldInOrder /\ EchoesWait => BatchIsToldWhole
  BY DEF ToldInOrder, EchoesWait, BatchIsToldWhole
<1> QED BY <1>1, <1>2, <1>3, PTL DEF BatchSpec

-----------------------------------------------------------------------------
(* ask_user_question: an answer that was accepted in time. *)

\* What was accepted in time stands in the registry until the tool has told it;
\* after that nothing more is accepted in time.
AnswerStands ==
    /\ inTime # "none" => IF asking \in {"before", "waiting", "deciding"} THEN question = inTime
                          ELSE outcome = inTime
    /\ inTime \in {"none", "answered", "dismissed"}
    /\ asking \in {"before", "waiting", "deciding"} => outcome = "none"
    /\ asking = "before" => question = "none"

\* An open question was not answered, and of the answers to one that is not at
\* most one was accepted.
OneWasAccepted ==
    /\ answerer \in [Answerers -> {"idle", "wake", "accepted", "refused"}]
    /\ question \in {"none", "open"} => \A a \in Answerers : answerer[a] \in {"idle", "refused"}
    /\ \E a \in Answerers : answerer[a] \in {"idle", "refused"}

AskInv == AnswerStands /\ OneWasAccepted

LEMMA AskingKeepsAnswer ==
    ASSUME AskInv, AskNothing \/ Ask \/ AskWoken \/ Polled \/ Decide \/ RemoveQuestion
    PROVE  AskInv'
<1> USE DEF AskInv, AnswerStands, OneWasAccepted
<1>1. CASE AskNothing BY <1>1 DEF AskNothing
<1>2. CASE Ask BY <1>2 DEF Ask
<1>3. CASE AskWoken BY <1>3 DEF AskWoken
<1>4. CASE Polled BY <1>4 DEF Polled
<1>5. CASE Decide BY <1>5 DEF Decide
<1>6. CASE RemoveQuestion BY <1>6 DEF RemoveQuestion
<1> QED BY <1>1, <1>2, <1>3, <1>4, <1>5, <1>6

LEMMA AnsweringKeepsAnswer ==
    ASSUME AskInv, NEW a \in Answerers, NEW how \in {"answered", "dismissed"},
           Submit(a, how) \/ Wake(a)
    PROVE  AskInv'
<1> USE DEF AskInv, AnswerStands, OneWasAccepted
<1>1. CASE Submit(a, how) /\ question = "open" BY <1>1 DEF Submit, Answerers
<1>2. CASE Submit(a, how) /\ question # "open" BY <1>2 DEF Submit
<1>3. CASE Wake(a) BY <1>3 DEF Wake
<1> QED BY <1>1, <1>2, <1>3

\* AnswerInTimeCounts, for any number of messages typed meanwhile: execute tells
\* the model what QuestionRegistry accepted before it looked, and of a web page
\* and Telegram only one is accepted.
THEOREM AnswerIsTold == AskSpec => []AnswerInTimeCounts
<1>1. AskInit => AskInv BY DEF AskInit, AskInv, AnswerStands, OneWasAccepted, Answerers
<1>2. AskInv /\ [AskNext]_askVars => AskInv'
  <2>1. ASSUME AskInv, Type \/ StopAsked \/ SwitchOff \/ UNCHANGED askVars PROVE AskInv'
    BY <2>1 DEF Type, StopAsked, SwitchOff, askVars, AskInv, AnswerStands, OneWasAccepted
  <2> QED BY <2>1, AskingKeepsAnswer, AnsweringKeepsAnswer DEF AskNext
<1>3. AskInv => AnswerInTimeCounts
  BY DEF AskInv, AnswerStands, OneWasAccepted, AnswerInTimeCounts
<1> QED BY <1>1, <1>2, <1>3, PTL DEF AskSpec

-----------------------------------------------------------------------------
(* The sub-agents: an id names one, and a running one is kept. *)

Holds(w) == spawning[w].at = "insert"

SubTyped ==
    /\ counter \in [Parents -> Nat]
    /\ spawning \in [Spawners -> [id : (Parents \X Nat) \union {<<>>}, at : {"idle", "insert", "ensure"}]]
    /\ \A w \in Spawners : spawning[w].at # "idle" => spawning[w].id \in Parents \X Nat
    /\ known \subseteq Parents \X Nat
    /\ subTurn \in [SubIds -> {"none", "queued", "running"}]

\* A turn that runs has touched its sub-agent; what the clean-up lists is idle, so
\* a running turn of a doomed one began after the listing.
DoomedWasIdle ==
    /\ cutOff \subseteq raced
    /\ \A s \in SubIds : subTurn[s] = "running" => s \notin idleSubs /\ (s \in doomed => s \in raced)

\* The number of an id was counted, and no two threads hold the same.
IdsAreCounted ==
    /\ \A p \in Parents, n \in Nat : <<p, n>> \in known => n <= counter[p]
    /\ \A w \in Spawners, p \in Parents, n \in Nat :
          Holds(w) /\ spawning[w].id = <<p, n>> => n <= counter[p] /\ <<p, n>> \notin known
    /\ \A v, w \in Spawners : Holds(v) /\ Holds(w) /\ v # w => spawning[v].id # spawning[w].id

SubsInv == SubTyped /\ DoomedWasIdle /\ IdsAreCounted

LEMMA SpawnKeepsIds ==
    ASSUME SubTyped, IdsAreCounted, NEW w \in Spawners, SpawnStep(w) \/ \E p \in Parents : TakeId(w, p)
    PROVE  SubTyped' /\ IdsAreCounted' /\ (\A s \in subs' \ subs : s \notin known)
<1> USE DEF Holds
<1>1. ASSUME NEW p \in Parents, TakeId(w, p) PROVE SubTyped' /\ IdsAreCounted' /\ subs' = subs
  <2> DEFINE n == counter[p] + 1
  <2>1. n \in Nat /\ counter'[p] = n /\ counter' \in [Parents -> Nat]
        /\ \A q \in Parents \ {p} : counter'[q] = counter[q]
    BY <1>1 DEF TakeId, SubTyped
  <2>2. spawning' = [spawning EXCEPT ![w] = [id |-> <<p, n>>, at |-> "insert"]]
        /\ UNCHANGED <<known, subTurn, subs>>
    BY <1>1, <2>1 DEF TakeId
  <2> HIDE DEF n
  <2>3. /\ spawning'[w].id = <<p, n>> /\ spawning'[w].at = "insert"
        /\ \A v \in Spawners \ {w} : spawning'[v] = spawning[v]
    BY <2>2 DEF SubTyped
  <2>4. SubTyped'
    <3>1. <<p, n>> \in Parents \X Nat BY <2>1
    <3>2. spawning' \in [Spawners -> [id : (Parents \X Nat) \union {<<>>}, at : {"idle", "insert", "ensure"}]]
      BY <2>2, <3>1 DEF SubTyped
    <3> QED BY <2>1, <2>2, <2>3, <3>1, <3>2 DEF SubTyped, SubIds
  <2>5. \A q \in Parents : counter[q] <= counter'[q] /\ counter[q] \in Nat /\ counter'[q] \in Nat
    <3>1. n = counter[p] + 1 /\ counter[p] \in Nat BY DEF n, SubTyped
    <3> QED BY <2>1, <3>1 DEF SubTyped
  <2>6. \A q \in Parents, i \in Nat : <<q, i>> \in known => i <= counter'[q]
    BY <2>5 DEF IdsAreCounted
  <2>7. <<p, n>> \notin known
    <3>1. counter[p] \in Nat /\ n = counter[p] + 1 BY DEF n, SubTyped
    <3> QED BY <2>1, <3>1 DEF IdsAreCounted
  <2>8. ASSUME NEW v \in Spawners \ {w}, Holds(v) PROVE spawning[v].id # <<p, n>>
    <3>1. counter[p] \in Nat /\ n = counter[p] + 1 BY DEF n, SubTyped
    <3>2. spawning[v].id = <<p, n>> => n <= counter[p] BY <2>1, <2>8 DEF IdsAreCounted
    <3> QED BY <3>1, <3>2
  <2>9. \A v \in Spawners, q \in Parents, i \in Nat :
          Holds(v)' /\ spawning'[v].id = <<q, i>> => i <= counter'[q] /\ <<q, i>> \notin known
    <3> SUFFICES ASSUME NEW v \in Spawners, NEW q \in Parents, NEW i \in Nat,
                        Holds(v)', spawning'[v].id = <<q, i>>
                 PROVE  i <= counter'[q] /\ <<q, i>> \notin known
      OBVIOUS
    <3>1. CASE v = w BY <2>1, <2>3, <2>7, <3>1
    <3>2. CASE v # w
      <4>1. i <= counter[q] /\ <<q, i>> \notin known BY <2>3, <3>2 DEF IdsAreCounted
      <4> QED BY <2>5, <4>1
    <3> QED BY <3>1, <3>2
  <2>10. \A u, v \in Spawners : Holds(u)' /\ Holds(v)' /\ u # v => spawning'[u].id # spawning'[v].id
    BY <2>3, <2>8 DEF IdsAreCounted
  <2>11. IdsAreCounted' BY <2>2, <2>6, <2>9, <2>10 DEF IdsAreCounted
  <2> QED BY <2>2, <2>4, <2>11
<1>2. ASSUME InsertSub(w) PROVE SubTyped' /\ IdsAreCounted' /\ (\A s \in subs' \ subs : s \notin known)
  <2>1. /\ Holds(w) /\ UNCHANGED <<counter, subTurn>>
        /\ subs' = subs \union {spawning[w].id} /\ known' = known \union {spawning[w].id}
        /\ spawning' = [spawning EXCEPT ![w].at = "ensure"]
    BY <1>2 DEF InsertSub
  <2>2. /\ spawning'[w].at = "ensure" /\ spawning'[w].id = spawning[w].id
        /\ \A v \in Spawners \ {w} : spawning'[v] = spawning[v]
        /\ spawning' \in [Spawners -> [id : (Parents \X Nat) \union {<<>>}, at : {"idle", "insert", "ensure"}]]
    BY <2>1 DEF SubTyped
  <2>3. PICK p \in Parents, n \in Nat : spawning[w].id = <<p, n>> BY <2>1 DEF SubTyped
  <2>4. n <= counter[p] /\ <<p, n>> \notin known BY <2>1, <2>3 DEF IdsAreCounted
  <2>5. SubTyped' BY <2>1, <2>2, <2>3 DEF SubTyped, SubIds
  <2>6. \A v \in Spawners : Holds(v)' => v # w /\ Holds(v) /\ spawning'[v] = spawning[v] /\ spawning[v].id # <<p, n>>
    BY <2>1, <2>2, <2>3 DEF IdsAreCounted
  <2>7. IdsAreCounted' BY <2>1, <2>3, <2>4, <2>6 DEF IdsAreCounted
  <2> QED BY <2>1, <2>3, <2>4, <2>5, <2>7
<1>3. ASSUME EnsureCleanup(w) PROVE SubTyped' /\ IdsAreCounted' /\ subs' = subs
  <2>1. /\ spawning' = [spawning EXCEPT ![w] = NotSpawning] /\ UNCHANGED <<counter, known, subTurn, subs>>
    BY <1>3 DEF EnsureCleanup
  <2>2. /\ ~Holds(w)' /\ spawning'[w].at = "idle"
        /\ \A v \in Spawners \ {w} : spawning'[v] = spawning[v]
        /\ spawning' \in [Spawners -> [id : (Parents \X Nat) \union {<<>>}, at : {"idle", "insert", "ensure"}]]
    BY <2>1 DEF SubTyped, NotSpawning
  <2>3. SubTyped' BY <2>1, <2>2 DEF SubTyped, SubIds
  <2>4. IdsAreCounted' BY <2>1, <2>2 DEF IdsAreCounted
  <2> QED BY <2>1, <2>3, <2>4
<1> QED BY <1>1, <1>2, <1>3 DEF SpawnStep

LEMMA SubTurnsKeepInv ==
    ASSUME SubsInv, NEW s \in SubIds,
           MessageSub(s) \/ StartSubTurn(s) \/ EndSubTurn(s) \/ FallIdle(s)
    PROVE  SubsInv' /\ subs' = subs
<1>1. UNCHANGED <<counter, spawning, known, subs>> /\ SubTyped'
  BY DEF MessageSub, StartSubTurn, EndSubTurn, FallIdle, SubsInv, SubTyped, SubIds
<1>2. IdsAreCounted' BY <1>1 DEF SubsInv, IdsAreCounted, Holds
<1>3. DoomedWasIdle'
  <2> USE DEF SubsInv, SubTyped, DoomedWasIdle, SubIds
  <2>1. CASE MessageSub(s) BY <2>1 DEF MessageSub
  <2>2. CASE StartSubTurn(s) BY <2>2 DEF StartSubTurn
  <2>3. CASE EndSubTurn(s) BY <2>3 DEF EndSubTurn
  <2>4. CASE FallIdle(s) BY <2>4 DEF FallIdle
  <2> QED BY <2>1, <2>2, <2>3, <2>4
<1> QED BY <1>1, <1>2, <1>3 DEF SubsInv

LEMMA CleanupKeepsInv ==
    ASSUME SubsInv, CleanupStep PROVE SubsInv' /\ subs' \subseteq subs
<1>1. UNCHANGED <<counter, spawning, known, subTurn>> /\ subs' \subseteq subs
  BY DEF CleanupStep, ListExpired, Rearm, DestroySub
<1>2. SubTyped' /\ IdsAreCounted' BY <1>1 DEF SubsInv, SubTyped, IdsAreCounted, Holds, SubIds
<1>3. DoomedWasIdle'
  <2> USE DEF SubsInv, DoomedWasIdle
  <2>1. CASE ListExpired \/ Rearm BY <2>1 DEF ListExpired, Rearm
  <2>2. ASSUME NEW s \in SubIds, DestroySub(s) PROVE DoomedWasIdle' BY <2>2 DEF DestroySub
  <2> QED BY <2>1, <2>2 DEF CleanupStep
<1> QED BY <1>1, <1>2, <1>3 DEF SubsInv

LEMMA SubsStep ==
    ASSUME SubsInv, SubNext PROVE SubsInv' /\ (\A s \in subs' \ subs : s \notin known)
<1>1. ASSUME NEW w \in Spawners, SpawnStep(w) \/ \E p \in Parents : TakeId(w, p)
      PROVE  SubsInv' /\ (\A s \in subs' \ subs : s \notin known)
  <2>1. UNCHANGED <<subTurn, idleSubs, doomed, raced, cutOff>>
    BY <1>1 DEF SpawnStep, InsertSub, EnsureCleanup, TakeId
  <2>2. SubTyped' /\ IdsAreCounted' /\ (\A s \in subs' \ subs : s \notin known)
    BY <1>1, SpawnKeepsIds DEF SubsInv
  <2>3. DoomedWasIdle' BY <2>1 DEF SubsInv, DoomedWasIdle
  <2> QED BY <2>2, <2>3 DEF SubsInv
<1>2. ASSUME NEW s \in SubIds, MessageSub(s) \/ StartSubTurn(s) \/ EndSubTurn(s) \/ FallIdle(s)
      PROVE  SubsInv' /\ (\A t \in subs' \ subs : t \notin known)
  BY <1>2, SubTurnsKeepInv
<1>3. ASSUME CleanupStep PROVE SubsInv' /\ (\A s \in subs' \ subs : s \notin known)
  BY <1>3, CleanupKeepsInv
<1> QED BY <1>1, <1>2, <1>3 DEF SubNext

\* SubStaysItself, for any parents, spawning threads and bounds: SubAgentManager
\* gives an id once, as its number is counted before anybody can register it, and
\* _cleanup_expired destroys a sub-agent under a running turn only when the turn
\* began between the listing and the destruction.
THEOREM SubAgentsStay == SubSpec => SubStaysItself
<1>1. SubInit => SubsInv
  <2> USE DEF SubInit, NotSpawning
  <2>1. SubInit => SubTyped BY DEF SubTyped
  <2>2. SubInit => DoomedWasIdle BY DEF DoomedWasIdle
  <2>3. SubInit => IdsAreCounted BY DEF IdsAreCounted, Holds
  <2> QED BY <2>1, <2>2, <2>3 DEF SubsInv
<1>2. SubsInv /\ [SubNext]_subVars => SubsInv' /\ [\A s \in subs' \ subs : s \notin known]_subVars
  <2>1. SubsInv /\ UNCHANGED subVars => SubsInv'
    BY DEF subVars, SubsInv, SubTyped, DoomedWasIdle, IdsAreCounted, Holds, SubIds
  <2> QED BY <2>1, SubsStep
<1>3. SubsInv => RunningSubIsKept BY DEF SubsInv, DoomedWasIdle, RunningSubIsKept
<1> QED BY <1>1, <1>2, <1>3, PTL DEF SubSpec, SubStaysItself, SubIdNamesOne

-----------------------------------------------------------------------------
(* Containers: what the pool and the calls say of a container stays true of it. *)

InContainer == {"insert", "start", "running", "killed"}
Hands == CallerSessions \union {Reaper}

\* An entry's container was created for its key and its workspace.  What the
\* sweep adopts is the main agent's, under a key that no call looks up.
Fits(bx, k, e) ==
    e # NoEntry =>
        /\ e.box \in Boxes /\ bx[e.box].up # "none"
        /\ IF k = AdoptedKey THEN bx[e.box].name = AgentKey
           ELSE bx[e.box].name = k /\ bx[e.box].ws = e.ws

EntriesFit ==
    /\ \A k \in PoolKeys : Fits(boxes, k, pool[k])
    /\ \A x \in Hands : Fits(boxes, hand[x].key, hand[x].entry)

CallFits(s, bx, call) ==
    call.at \in InContainer =>
        /\ call.box \in Boxes /\ bx[call.box].up # "none"
        /\ bx[call.box].name = KeyOf(s) /\ bx[call.box].ws = call.ws

CallsFit == \A s \in CallerSessions : CallFits(s, boxes, boxCall[s])

ContainersInv == BoxTypeOK /\ EntriesFit /\ CallsFit

\* What a step may do to a container that was created: change whether it is up.
BoxesKeep ==
    \A b \in Boxes : boxes[b].up # "none" =>
        boxes'[b].up # "none" /\ boxes'[b].name = boxes[b].name /\ boxes'[b].ws = boxes[b].ws

PoolMoves ==
    \A k \in PoolKeys :
        \/ pool'[k] = NoEntry
        \/ pool[k] # NoEntry /\ pool'[k].box = pool[k].box /\ pool'[k].ws = pool[k].ws
        \/ \E x \in Hands : hand[x].key = k /\ pool'[k] = hand[x].entry

HandsMove ==
    \A x \in Hands :
        \/ hand'[x].entry = NoEntry
        \/ hand'[x] = hand[x]
        \/ \E k \in PoolKeys : hand'[x] = [key |-> k, entry |-> pool[k]]

CallMoves(s) ==
    boxCall'[s].at \in InContainer =>
        /\ boxCall[s].at \in InContainer
        /\ boxCall'[s].box = boxCall[s].box /\ boxCall'[s].ws = boxCall[s].ws

-----------------------------------------------------------------------------
LEMMA Spaces ==
    /\ MaxBoxes \in Nat /\ MaxCalls \in Nat /\ MaxTroubles \in Nat
    /\ 0 \notin Boxes /\ 0 \in 0 .. MaxBoxes /\ Boxes \subseteq 0 .. MaxBoxes
    /\ Nobody \in Workspaces /\ "file" \in Sorts
    /\ NoEntry \in Entries /\ NoContainerCall \in ContainerCalls
    /\ BoxKeys \subseteq PoolKeys /\ AdoptedKey \in PoolKeys
    /\ NoHand \in [key : PoolKeys, entry : Entries]
    /\ Reaper \in Hands /\ CallerSessions \subseteq Hands /\ Reaper \notin CallerSessions
BY ContainerAssumption DEF ContainerAssumption, Boxes, Workspaces, Sorts, NoEntry, Entries,
   NoContainerCall, ContainerCalls, CallPlaces, PoolKeys, NoHand, Hands

LEMMA KeysOfCalls ==
    ASSUME NEW s \in CallerSessions
    PROVE  /\ KeyOf(s) \in BoxKeys /\ KeyOf(s) \in PoolKeys /\ KeyOf(s) # AdoptedKey
           /\ SessionId[s] \in BoxKeys /\ SessionId[s] \in PoolKeys
           /\ \A c \in CallsOf[s] : c[1] \in Workspaces /\ c[2] \in Sorts
BY ContainerAssumption DEF ContainerAssumption, BoxKeys, PoolKeys, CallersCalls, Workspaces, Sorts

LEMMA EntryStays ==
    ASSUME BoxesKeep, NEW k, NEW e, Fits(boxes, k, e)
    PROVE  Fits(boxes', k, e)
BY DEF BoxesKeep, Fits

LEMMA EntriesStay ==
    ASSUME EntriesFit, BoxesKeep, PoolMoves, HandsMove
    PROVE  EntriesFit'
<1>1. ASSUME NEW k \in PoolKeys PROVE Fits(boxes', k, pool'[k])
  <2>1. CASE pool'[k] = NoEntry BY <2>1 DEF Fits
  <2>2. CASE pool[k] # NoEntry /\ pool'[k].box = pool[k].box /\ pool'[k].ws = pool[k].ws
    <3>1. Fits(boxes', k, pool[k]) BY EntryStays DEF EntriesFit
    <3> QED BY <2>2, <3>1 DEF Fits
  <2>3. CASE \E x \in Hands : hand[x].key = k /\ pool'[k] = hand[x].entry
    BY <2>3, EntryStays DEF EntriesFit
  <2> QED BY <2>1, <2>2, <2>3 DEF PoolMoves
<1>2. ASSUME NEW x \in Hands PROVE Fits(boxes', hand'[x].key, hand'[x].entry)
  <2>1. CASE hand'[x].entry = NoEntry BY <2>1 DEF Fits
  <2>2. CASE hand'[x] = hand[x] BY <2>2, EntryStays DEF EntriesFit
  <2>3. CASE \E k \in PoolKeys : hand'[x] = [key |-> k, entry |-> pool[k]]
    BY <2>3, EntryStays DEF EntriesFit
  <2> QED BY <2>1, <2>2, <2>3 DEF HandsMove
<1> QED BY <1>1, <1>2 DEF EntriesFit

LEMMA CallStays ==
    ASSUME CallsFit, BoxesKeep, NEW s \in CallerSessions, CallMoves(s)
    PROVE  CallFits(s, boxes', boxCall'[s])
BY DEF CallsFit, BoxesKeep, CallMoves, CallFits

LEMMA NothingMoves ==
    ASSUME UNCHANGED <<pool, hand>>
    PROVE  PoolMoves /\ HandsMove
BY DEF PoolMoves, HandsMove, NoEntry

LEMMA BoxesRest == ASSUME UNCHANGED boxes PROVE BoxesKeep
BY DEF BoxesKeep

LEMMA GoneIsKept ==
    ASSUME BoxTypeOK, NEW bs, \A b \in bs \intersect Boxes : boxes[b].up # "none",
           boxes' = Gone(bs)
    PROVE  /\ BoxesKeep /\ boxes' \in [Boxes -> BoxRecords]
           /\ \A b \in Boxes : boxes'[b].up # "none" => boxes'[b].name \in BoxKeys
<1>1. ASSUME NEW b \in Boxes
      PROVE  /\ boxes'[b] \in BoxRecords /\ boxes'[b].name = boxes[b].name /\ boxes'[b].ws = boxes[b].ws
             /\ boxes'[b].up = "none" <=> boxes[b].up = "none"
  BY DEF Gone, BoxTypeOK, BoxRecords, BoxStates
<1>2. boxes' \in [Boxes -> BoxRecords] BY <1>1 DEF Gone
<1>3. BoxesKeep BY <1>1 DEF BoxesKeep
<1>4. \A b \in Boxes : boxes[b].up # "none" => boxes[b].name \in BoxKeys BY DEF BoxTypeOK
<1>5. ASSUME NEW b \in Boxes, boxes'[b].up # "none" PROVE boxes'[b].name \in BoxKeys
  BY <1>1, <1>4, <1>5
<1> QED BY <1>2, <1>3, <1>5

LEMMA InvStays ==
    ASSUME ContainersInv, BoxTypeOK', BoxesKeep, PoolMoves, HandsMove,
           \A s \in CallerSessions : CallMoves(s)
    PROVE  ContainersInv'
<1>1. EntriesFit' BY EntriesStay DEF ContainersInv
<1>2. CallsFit' BY CallStays DEF CallsFit, ContainersInv
<1> QED BY <1>1, <1>2 DEF ContainersInv

-----------------------------------------------------------------------------
\* A call that returns.
LEMMA ReturnMoves ==
    ASSUME BoxTypeOK, NEW s \in CallerSessions,
           boxCall' = [boxCall EXCEPT ![s] = NoContainerCall]
    PROVE  /\ boxCall' \in [CallerSessions -> ContainerCalls]
           /\ \A t \in CallerSessions : CallMoves(t)
<1>1. boxCall \in [CallerSessions -> ContainerCalls] BY DEF BoxTypeOK
<1>2. boxCall' \in [CallerSessions -> ContainerCalls] BY <1>1, Spaces
<1>3. boxCall'[s].at = "idle" BY <1>1 DEF NoContainerCall
<1>4. \A t \in CallerSessions : t # s => boxCall'[t] = boxCall[t] BY <1>1
<1>5. \A t \in CallerSessions : CallMoves(t) BY <1>3, <1>4 DEF CallMoves, InContainer
<1> QED BY <1>2, <1>5

LEMMA RemoveBoxKeeps ==
    ASSUME ContainersInv, NEW x \in Hands, RemoveBox(x)
    PROVE  ContainersInv'
<1> USE DEF ContainersInv
<1>1. \A b \in {hand[x].entry.box} \intersect Boxes : boxes[b].up # "none"
  BY Spaces DEF EntriesFit, Fits, NoEntry
<1>2. /\ BoxesKeep /\ boxes' \in [Boxes -> BoxRecords]
      /\ \A b \in Boxes : boxes'[b].up # "none" => boxes'[b].name \in BoxKeys
  <2> DEFINE bs == {hand[x].entry.box}
  <2>1. boxes' = Gone(bs) /\ (\A b \in bs \intersect Boxes : boxes[b].up # "none")
    BY <1>1 DEF RemoveBox
  <2> HIDE DEF bs
  <2> QED BY <2>1, GoneIsKept
<1>3. hand' = [hand EXCEPT ![x] = NoHand] BY DEF RemoveBox
<1>4. BoxTypeOK'
  <2>1. hand' \in [Hands -> [key : PoolKeys, entry : Entries]]
    BY <1>3, Spaces DEF BoxTypeOK, Hands
  <2> QED BY <1>2, <2>1 DEF BoxTypeOK, RemoveBox, Hands
<1>5. PoolMoves BY DEF PoolMoves, RemoveBox, NoEntry
<1>6. HandsMove BY <1>3 DEF HandsMove, NoHand, BoxTypeOK, Hands
<1>7. \A s \in CallerSessions : CallMoves(s) BY DEF CallMoves, RemoveBox
<1> QED BY <1>2, <1>4, <1>5, <1>6, <1>7, InvStays

LEMMA RemoveFailsKeeps ==
    ASSUME ContainersInv, NEW x \in Hands, RemoveFails(x)
    PROVE  ContainersInv'
<1> USE DEF ContainersInv
<1>1. /\ hand' = [hand EXCEPT ![x] = NoHand]
      /\ pool' = [pool EXCEPT ![hand[x].key] = hand[x].entry]
      /\ UNCHANGED <<boxes, boxCall, cleaner, stopping, detached, calls>>
      /\ troubles' \in 0 .. MaxTroubles
  BY Spaces DEF RemoveFails, Trouble, BoxTypeOK
<1>2. hand[x].key \in PoolKeys /\ hand[x].entry \in Entries BY DEF BoxTypeOK, Hands
<1>3. BoxTypeOK'
  <2>1. hand' \in [Hands -> [key : PoolKeys, entry : Entries]]
    BY <1>1, Spaces DEF BoxTypeOK, Hands
  <2>2. pool' \in [PoolKeys -> Entries] BY <1>1, <1>2 DEF BoxTypeOK
  <2> QED BY <1>1, <2>1, <2>2 DEF BoxTypeOK, Hands
<1>4. PoolMoves
  <2>1. ASSUME NEW k \in PoolKeys, k # hand[x].key
        PROVE  pool'[k] = pool[k]
    BY <1>1, <2>1 DEF BoxTypeOK
  <2>2. pool'[hand[x].key] = hand[x].entry BY <1>1, <1>2 DEF BoxTypeOK
  <2> QED BY <2>1, <2>2 DEF PoolMoves
<1>5. HandsMove BY <1>1 DEF HandsMove, NoHand, BoxTypeOK, Hands
<1>6. BoxesKeep /\ \A s \in CallerSessions : CallMoves(s) BY <1>1 DEF CallMoves, BoxesKeep
<1> QED BY <1>3, <1>4, <1>5, <1>6, InvStays

LEMMA RemoveTimesOutKeeps ==
    ASSUME ContainersInv, NEW x \in Hands, RemoveTimesOut(x)
    PROVE  ContainersInv'
<1> USE DEF ContainersInv
<1> DEFINE bs == {hand[x].entry.box}
<1>1. /\ hand' = [hand EXCEPT ![x] = NoHand] /\ boxes' \in {boxes, Gone(bs)}
      /\ UNCHANGED <<pool, cleaner, stopping, detached, calls>>
      /\ troubles' \in 0 .. MaxTroubles
  BY Spaces DEF RemoveTimesOut, Trouble, BoxTypeOK
<1>2. \A b \in bs \intersect Boxes : boxes[b].up # "none"
  BY Spaces DEF EntriesFit, Fits, NoEntry
<1> HIDE DEF bs
<1>3. /\ BoxesKeep /\ boxes' \in [Boxes -> BoxRecords]
      /\ \A b \in Boxes : boxes'[b].up # "none" => boxes'[b].name \in BoxKeys
  <2>1. CASE boxes' = boxes BY <2>1, BoxesRest DEF BoxTypeOK
  <2>2. CASE boxes' = Gone(bs) BY <2>2, <1>2, GoneIsKept
  <2> QED BY <1>1, <2>1, <2>2
<1>4. /\ boxCall' \in [CallerSessions -> ContainerCalls]
      /\ \A t \in CallerSessions : CallMoves(t)
  <2>1. CASE boxCall' = boxCall BY <2>1 DEF BoxTypeOK, CallMoves
  <2>2. CASE x \in CallerSessions /\ boxCall' = [boxCall EXCEPT ![x] = NoContainerCall]
    BY <2>2, ReturnMoves
  <2> QED BY <2>1, <2>2 DEF RemoveTimesOut, Hands
<1>5. hand' \in [Hands -> [key : PoolKeys, entry : Entries]]
  BY <1>1, Spaces DEF BoxTypeOK, Hands
<1>6. BoxTypeOK' BY <1>1, <1>3, <1>4, <1>5 DEF BoxTypeOK, Hands
<1>7. PoolMoves BY <1>1 DEF PoolMoves, NoEntry
<1>8. HandsMove BY <1>1 DEF HandsMove, NoHand, BoxTypeOK, Hands
<1> QED BY <1>3, <1>4, <1>6, <1>7, <1>8, InvStays

LEMMA PopMoves ==
    ASSUME BoxTypeOK, NEW x \in Hands, NEW k \in PoolKeys, Pop(x, k)
    PROVE  /\ PoolMoves /\ HandsMove
           /\ pool' \in [PoolKeys -> Entries]
           /\ hand' \in [Hands -> [key : PoolKeys, entry : Entries]]
<1>1. pool' = [pool EXCEPT ![k] = NoEntry] BY DEF Pop
<1>2. pool[k] \in Entries /\ pool \in [PoolKeys -> Entries] BY DEF BoxTypeOK
<1>3. hand \in [Hands -> [key : PoolKeys, entry : Entries]] BY DEF BoxTypeOK, Hands
<1>4. \/ hand' = [hand EXCEPT ![x] = NoHand]
      \/ hand' = [hand EXCEPT ![x] = [key |-> k, entry |-> pool[k]]]
  BY DEF Pop
<1>5. hand' \in [Hands -> [key : PoolKeys, entry : Entries]] BY <1>2, <1>3, <1>4, Spaces
<1>6. PoolMoves
  BY <1>1, <1>2 DEF PoolMoves
<1>7. HandsMove BY <1>3, <1>4 DEF HandsMove, NoHand
<1> QED BY <1>1, <1>2, <1>5, <1>6, <1>7, Spaces

LEMMA GoesTyped ==
    ASSUME BoxTypeOK, NEW s \in CallerSessions, NEW place \in CallPlaces, Goes(s, place)
    PROVE  /\ boxCall' \in [CallerSessions -> ContainerCalls]
           /\ \A t \in CallerSessions :
                /\ boxCall'[t].box = boxCall[t].box /\ boxCall'[t].ws = boxCall[t].ws
                /\ boxCall'[t].at = IF t = s THEN place ELSE boxCall[t].at
<1>1. boxCall' = [boxCall EXCEPT ![s].at = place] BY DEF Goes
<1>2. ASSUME NEW t \in CallerSessions PROVE boxCall[t] \in ContainerCalls BY DEF BoxTypeOK
<1> QED BY <1>1, <1>2 DEF BoxTypeOK, ContainerCalls

LEMMA DropStaleKeeps ==
    ASSUME ContainersInv, NEW s \in CallerSessions, DropStale(s)
    PROVE  ContainersInv'
<1> USE DEF ContainersInv
<1>1. /\ PoolMoves /\ HandsMove
      /\ pool' \in [PoolKeys -> Entries]
      /\ hand' \in [Hands -> [key : PoolKeys, entry : Entries]]
  BY PopMoves, Spaces, KeysOfCalls DEF DropStale
<1>2. Goes(s, "room") /\ UNCHANGED boxes BY DEF DropStale
<1>3. /\ boxCall' \in [CallerSessions -> ContainerCalls]
      /\ \A t \in CallerSessions :
            /\ boxCall'[t].box = boxCall[t].box /\ boxCall'[t].ws = boxCall[t].ws
            /\ boxCall'[t].at = IF t = s THEN "room" ELSE boxCall[t].at
  BY <1>2, GoesTyped DEF CallPlaces
<1>4. BoxTypeOK' BY <1>1, <1>3 DEF BoxTypeOK, DropStale, Hands
<1>5. \A t \in CallerSessions : CallMoves(t) BY <1>3 DEF CallMoves, InContainer
<1> QED BY <1>1, <1>2, <1>4, <1>5, BoxesRest, InvStays

LEMMA MakeRoomKeeps ==
    ASSUME ContainersInv, NEW s \in CallerSessions, MakeRoom(s)
    PROVE  ContainersInv'
<1> USE DEF ContainersInv
<1>1. Goes(s, "run") /\ UNCHANGED <<boxes, cleaner, stopping, detached, calls, troubles>>
  BY DEF MakeRoom
<1>2. UNCHANGED <<pool, hand>> \/ \E k \in PoolKeys : Pop(s, k)
  BY DEF MakeRoom, Pooled
<1>3. /\ PoolMoves /\ HandsMove
      /\ pool' \in [PoolKeys -> Entries]
      /\ hand' \in [Hands -> [key : PoolKeys, entry : Entries]]
  <2>1. CASE UNCHANGED <<pool, hand>> BY <2>1, NothingMoves DEF BoxTypeOK, Hands
  <2>2. CASE \E k \in PoolKeys : Pop(s, k) BY <2>2, PopMoves, Spaces
  <2> QED BY <1>2, <2>1, <2>2
<1>4. /\ boxCall' \in [CallerSessions -> ContainerCalls]
      /\ \A t \in CallerSessions :
            /\ boxCall'[t].box = boxCall[t].box /\ boxCall'[t].ws = boxCall[t].ws
            /\ boxCall'[t].at = IF t = s THEN "run" ELSE boxCall[t].at
  BY <1>1, GoesTyped DEF CallPlaces
<1>5. BoxTypeOK' BY <1>1, <1>3, <1>4 DEF BoxTypeOK, Hands
<1>6. \A t \in CallerSessions : CallMoves(t) BY <1>4 DEF CallMoves, InContainer
<1> QED BY <1>1, <1>3, <1>5, <1>6, BoxesRest, InvStays

LEMMA LookUpMoves ==
    ASSUME ContainersInv, UNCHANGED boxes, NEW s \in CallerSessions,
           NEW c \in ContainerCalls, c.box = 0,
           NEW p \in [PoolKeys -> Entries], LookUp(s, c, p),
           \A k \in PoolKeys : p[k] = NoEntry \/ p[k] = pool[k]
    PROVE  /\ boxCall' \in [CallerSessions -> ContainerCalls]
           /\ pool' \in [PoolKeys -> Entries]
           /\ PoolMoves
           /\ CallsFit'
<1> DEFINE k == KeyOf(s)
<1>1. k \in PoolKeys /\ k # AdoptedKey BY KeysOfCalls
<1>2. boxCall \in [CallerSessions -> ContainerCalls] BY DEF ContainersInv, BoxTypeOK
<1>3. \A t \in CallerSessions : CallFits(t, boxes, boxCall[t]) BY DEF ContainersInv, CallsFit
<1> HIDE DEF k
<1>4. CASE \/ p[k] = NoEntry /\ boxCall' = [boxCall EXCEPT ![s] = [c EXCEPT !.at = "room"]] /\ pool' = p
           \/ boxCall' = [boxCall EXCEPT ![s] = [c EXCEPT !.at = "stale"]] /\ pool' = p
  <2> PICK place \in {"room", "stale"} : boxCall' = [boxCall EXCEPT ![s] = [c EXCEPT !.at = place]]
    BY <1>4
  <2> DEFINE new == [c EXCEPT !.at = place]
  <2>1. new \in ContainerCalls /\ new.at \notin InContainer
    BY DEF ContainerCalls, CallPlaces, InContainer
  <2>2. boxCall' = [boxCall EXCEPT ![s] = new] OBVIOUS
  <2> HIDE DEF new
  <2>3. boxCall' \in [CallerSessions -> ContainerCalls] BY <1>2, <2>1, <2>2
  <2>4. \A t \in CallerSessions : boxCall'[t] = IF t = s THEN new ELSE boxCall[t] BY <1>2, <2>2
  <2>5. ASSUME NEW t \in CallerSessions PROVE CallFits(t, boxes', boxCall'[t])
    <3>1. boxes' = boxes OBVIOUS
    <3>2. CASE t = s
      <4>1. boxCall'[t] = new BY <2>4, <3>2
      <4> QED BY <2>1, <4>1 DEF CallFits
    <3>3. CASE t # s
      <4>1. boxCall'[t] = boxCall[t] BY <2>4, <3>3
      <4> QED BY <1>3, <3>1, <4>1
    <3> QED BY <3>2, <3>3
  <2>6. PoolMoves BY <1>4 DEF PoolMoves
  <2> QED BY <1>4, <2>3, <2>5, <2>6 DEF CallsFit
<1>5. CASE /\ p[k] # NoEntry /\ p[k].ws = c.ws
           /\ boxCall' = [boxCall EXCEPT ![s] = [c EXCEPT !.at = "start", !.box = p[k].box]]
           /\ pool' = [p EXCEPT ![k].idle = FALSE]
  <2> DEFINE new == [c EXCEPT !.at = "start", !.box = p[k].box]
  <2>1. p[k] \in Entries /\ p[k] = pool[k] BY <1>1, <1>5
  <2>2. new \in ContainerCalls /\ new.box = pool[k].box /\ new.ws = pool[k].ws
    BY <1>5, <2>1 DEF ContainerCalls, CallPlaces, Entries
  <2>3. boxCall' = [boxCall EXCEPT ![s] = new] BY <1>5
  <2> HIDE DEF new
  <2>4. boxCall' \in [CallerSessions -> ContainerCalls] BY <1>2, <2>2, <2>3
  <2>5. \A t \in CallerSessions : boxCall'[t] = IF t = s THEN new ELSE boxCall[t] BY <1>2, <2>3
  <2>6. Fits(boxes, k, pool[k]) BY <1>1 DEF ContainersInv, EntriesFit
  <2>7. CallFits(s, boxes, new) BY <1>1, <1>5, <2>1, <2>2, <2>6 DEF CallFits, Fits, k
  <2>8. ASSUME NEW t \in CallerSessions PROVE CallFits(t, boxes', boxCall'[t])
    <3>1. boxes' = boxes OBVIOUS
    <3>2. CASE t = s BY <2>5, <2>7, <3>1, <3>2
    <3>3. CASE t # s
      <4>1. boxCall'[t] = boxCall[t] BY <2>5, <3>3
      <4> QED BY <1>3, <3>1, <4>1
    <3> QED BY <3>2, <3>3
  <2>9. /\ pool' \in [PoolKeys -> Entries]
        /\ \A j \in PoolKeys : j # k => pool'[j] = p[j]
        /\ pool'[k].box = pool[k].box /\ pool'[k].ws = pool[k].ws
    BY <1>1, <1>5, <2>1 DEF Entries
  <2>10. PoolMoves BY <1>5, <2>1, <2>9 DEF PoolMoves
  <2> QED BY <2>4, <2>8, <2>9, <2>10 DEF CallsFit
<1> QED BY <1>4, <1>5 DEF LookUp, k

LEMMA BeginCallKeeps ==
    ASSUME ContainersInv, NEW s \in CallerSessions, NEW d \in CallsOf[s],
           BeginCall(s, d[1], d[2])
    PROVE  ContainersInv'
<1> DEFINE c == [NoContainerCall EXCEPT !.ws = d[1], !.sort = d[2]]
<1>1. c \in ContainerCalls /\ c.box = 0
  BY Spaces, KeysOfCalls DEF NoContainerCall, ContainerCalls
<1>2. /\ LookUp(s, c, pool) /\ calls' \in 0 .. MaxCalls
      /\ UNCHANGED <<boxes, hand, cleaner, stopping, detached, troubles>>
  BY Spaces DEF BeginCall, ContainersInv, BoxTypeOK
<1>3. pool \in [PoolKeys -> Entries] BY DEF ContainersInv, BoxTypeOK
<1> HIDE DEF c
<1>4. /\ boxCall' \in [CallerSessions -> ContainerCalls]
      /\ pool' \in [PoolKeys -> Entries]
      /\ PoolMoves
      /\ CallsFit'
  BY <1>1, <1>2, <1>3, LookUpMoves
<1>5. BoxTypeOK' BY <1>2, <1>4 DEF ContainersInv, BoxTypeOK
<1>6. HandsMove BY <1>2 DEF HandsMove
<1>7. EntriesFit' BY <1>2, <1>4, <1>6, EntriesStay, BoxesRest DEF ContainersInv
<1> QED BY <1>4, <1>5, <1>7 DEF ContainersInv

LEMMA LookAgainKeeps ==
    ASSUME ContainersInv, NEW s \in CallerSessions, LookAgain(s)
    PROVE  ContainersInv'
<1> DEFINE c == [boxCall[s] EXCEPT !.again = TRUE, !.box = 0]
           p == [pool EXCEPT ![SessionId[s]] = NoEntry]
<1>0. boxCall[s] \in ContainerCalls /\ pool \in [PoolKeys -> Entries]
  BY DEF ContainersInv, BoxTypeOK
<1>1. c \in ContainerCalls /\ c.box = 0
  BY <1>0, Spaces DEF ContainerCalls
<1>2. /\ LookUp(s, c, p)
      /\ UNCHANGED <<boxes, hand, cleaner, stopping, detached, calls, troubles>>
  BY DEF LookAgain, IsGone
<1>3. p \in [PoolKeys -> Entries] /\ \A k \in PoolKeys : p[k] = NoEntry \/ p[k] = pool[k]
  BY <1>0, Spaces
<1> HIDE DEF c, p
<1>4. /\ boxCall' \in [CallerSessions -> ContainerCalls]
      /\ pool' \in [PoolKeys -> Entries]
      /\ PoolMoves
      /\ CallsFit'
  BY <1>1, <1>2, <1>3, LookUpMoves
<1>5. BoxTypeOK' BY <1>2, <1>4 DEF ContainersInv, BoxTypeOK
<1>6. HandsMove BY <1>2 DEF HandsMove
<1>7. EntriesFit' BY <1>2, <1>4, <1>6, EntriesStay, BoxesRest DEF ContainersInv
<1> QED BY <1>4, <1>5, <1>7 DEF ContainersInv

LEMMA DockerRunKeeps ==
    ASSUME ContainersInv, NEW s \in CallerSessions, DockerRun(s)
    PROVE  ContainersInv'
<1> USE DEF ContainersInv
<1> DEFINE Made(b) == [name |-> KeyOf(s), ws |-> boxCall[s].ws, up |-> "running"]
<1>1. PICK b \in Boxes :
        /\ boxes[b].up = "none" /\ boxes' = [boxes EXCEPT ![b] = Made(b)]
        /\ boxCall' = [boxCall EXCEPT ![s].at = "insert", ![s].box = b]
  BY DEF DockerRun, CreatesBox
<1>2. UNCHANGED <<pool, hand, cleaner, stopping, detached, calls, troubles>> BY DEF DockerRun
<1>3. boxCall[s] \in ContainerCalls /\ boxCall \in [CallerSessions -> ContainerCalls]
      /\ boxes \in [Boxes -> BoxRecords]
  BY DEF BoxTypeOK
<1>4. Made(b) \in BoxRecords /\ Made(b).name = KeyOf(s) /\ Made(b).ws = boxCall[s].ws
      /\ Made(b).up = "running" /\ Made(b).name \in BoxKeys
  BY <1>3, KeysOfCalls DEF BoxRecords, BoxStates, ContainerCalls
<1> HIDE DEF Made
<1>5. /\ boxes' \in [Boxes -> BoxRecords] /\ boxes'[b] = Made(b)
      /\ \A d \in Boxes : d # b => boxes'[d] = boxes[d]
  BY <1>1, <1>3, <1>4
<1>6. BoxesKeep BY <1>1, <1>5 DEF BoxesKeep
<1>7. /\ boxCall' \in [CallerSessions -> ContainerCalls]
      /\ \A t \in CallerSessions : t # s => boxCall'[t] = boxCall[t]
      /\ boxCall'[s].box = b /\ boxCall'[s].ws = boxCall[s].ws
  BY <1>1, <1>3, Spaces DEF ContainerCalls, CallPlaces
<1>8. BoxTypeOK' BY <1>2, <1>4, <1>5, <1>7 DEF BoxTypeOK
<1>9. EntriesFit' BY <1>2, <1>6, EntriesStay, NothingMoves
<1>10. ASSUME NEW t \in CallerSessions PROVE CallFits(t, boxes', boxCall'[t])
  <2>1. CASE t = s BY <2>1, <1>4, <1>5, <1>7 DEF CallFits
  <2>2. CASE t # s BY <2>2, <1>6, <1>7, CallStays DEF CallMoves
  <2> QED BY <2>1, <2>2
<1> QED BY <1>8, <1>9, <1>10 DEF CallsFit

LEMMA ClearNameKeeps ==
    ASSUME ContainersInv, NEW s \in CallerSessions, ClearName(s)
    PROVE  ContainersInv'
<1> USE DEF ContainersInv
<1>1. /\ Goes(s, "rerun") /\ boxes' = Gone(Named(KeyOf(s))) /\ boxCall[s].at = "run"
      /\ UNCHANGED <<pool, hand, cleaner, stopping, detached, calls, troubles>>
  BY DEF ClearName
<1> DEFINE bs == Named(KeyOf(s))
<1>2. \A b \in bs \intersect Boxes : boxes[b].up # "none" BY DEF Named, Exists
<1>3. boxes' = Gone(bs) BY <1>1
<1> HIDE DEF bs
<1>4. /\ BoxesKeep /\ boxes' \in [Boxes -> BoxRecords]
      /\ \A b \in Boxes : boxes'[b].up # "none" => boxes'[b].name \in BoxKeys
  BY <1>2, <1>3, GoneIsKept
<1>5. /\ boxCall' \in [CallerSessions -> ContainerCalls]
      /\ \A t \in CallerSessions :
            /\ boxCall'[t].box = boxCall[t].box /\ boxCall'[t].ws = boxCall[t].ws
            /\ boxCall'[t].at = IF t = s THEN "rerun" ELSE boxCall[t].at
  BY <1>1, GoesTyped DEF CallPlaces
<1>6. BoxTypeOK' BY <1>1, <1>4, <1>5 DEF BoxTypeOK
<1>7. \A t \in CallerSessions : CallMoves(t) BY <1>5 DEF CallMoves, InContainer
<1> QED BY <1>1, <1>4, <1>6, <1>7, NothingMoves, InvStays

LEMMA CallEndsKeeps ==
    ASSUME ContainersInv, NEW s \in CallerSessions, RunFails(s) \/ ReturnGone(s)
    PROVE  ContainersInv'
<1> USE DEF ContainersInv
<1>1. /\ boxCall' = [boxCall EXCEPT ![s] = NoContainerCall]
      /\ UNCHANGED <<boxes, pool, hand, cleaner, stopping, detached, calls>>
      /\ troubles' \in 0 .. MaxTroubles
  BY Spaces DEF RunFails, ReturnGone, Trouble, BoxTypeOK
<1>2. /\ boxCall' \in [CallerSessions -> ContainerCalls]
      /\ \A t \in CallerSessions : CallMoves(t)
  BY <1>1, ReturnMoves
<1>3. BoxTypeOK' BY <1>1, <1>2 DEF BoxTypeOK
<1> QED BY <1>1, <1>2, <1>3, NothingMoves, BoxesRest, InvStays

LEMMA InsertBoxKeeps ==
    ASSUME ContainersInv, NEW s \in CallerSessions, InsertBox(s)
    PROVE  ContainersInv'
<1> USE DEF ContainersInv
<1> DEFINE k == KeyOf(s)
           e == [box |-> boxCall[s].box, ws |-> boxCall[s].ws, idle |-> FALSE]
<1>1. /\ Goes(s, "start") /\ boxCall[s].at = "insert" /\ pool' = [pool EXCEPT ![k] = e]
      /\ UNCHANGED <<boxes, hand, stopping, detached, calls, troubles>>
  BY DEF InsertBox
<1>2. k \in PoolKeys /\ k # AdoptedKey BY KeysOfCalls
<1>3. boxCall[s] \in ContainerCalls /\ pool \in [PoolKeys -> Entries] BY DEF BoxTypeOK
<1>4. CallFits(s, boxes, boxCall[s]) BY DEF CallsFit
<1>5. e \in Entries /\ Fits(boxes, k, e)
  BY <1>1, <1>2, <1>3, <1>4 DEF Entries, ContainerCalls, Fits, CallFits, InContainer
<1> HIDE DEF e, k
<1>6. /\ pool' \in [PoolKeys -> Entries] /\ pool'[k] = e
      /\ \A j \in PoolKeys : j # k => pool'[j] = pool[j]
  BY <1>1, <1>2, <1>3, <1>5
<1>7. /\ boxCall' \in [CallerSessions -> ContainerCalls]
      /\ \A t \in CallerSessions :
            /\ boxCall'[t].box = boxCall[t].box /\ boxCall'[t].ws = boxCall[t].ws
            /\ boxCall'[t].at = IF t = s THEN "start" ELSE boxCall[t].at
  BY <1>1, GoesTyped DEF CallPlaces
<1>8. cleaner' \in [at : ReaperPlaces, sweeping : BOOLEAN, key : PoolKeys,
                   live : SUBSET BoxKeys, orphans : SUBSET BoxKeys, phantoms : SUBSET PoolKeys]
  BY Spaces DEF InsertBox, BoxTypeOK, NoReaper, ReaperPlaces
<1>9. BoxTypeOK' BY <1>1, <1>6, <1>7, <1>8 DEF BoxTypeOK
<1>10. EntriesFit' BY <1>1, <1>5, <1>6 DEF EntriesFit
<1>11. \A t \in CallerSessions : CallMoves(t) BY <1>1, <1>7 DEF CallMoves, InContainer
<1>12. CallsFit' BY <1>1, <1>11, CallStays, BoxesRest DEF CallsFit
<1> QED BY <1>9, <1>10, <1>12

LEMMA ExecuteKeeps ==
    ASSUME ContainersInv, NEW s \in CallerSessions, Execute(s)
    PROVE  ContainersInv'
<1> USE DEF ContainersInv
<1>1. /\ Goes(s, "running") /\ boxCall[s].at = "start"
      /\ UNCHANGED <<boxes, pool, hand, cleaner, stopping, calls, troubles>>
  BY DEF Execute
<1>2. detached' \in [CallerSessions -> 0 .. MaxBoxes]
  BY DEF Execute, BoxTypeOK, ContainerCalls
<1>3. /\ boxCall' \in [CallerSessions -> ContainerCalls]
      /\ \A t \in CallerSessions :
            /\ boxCall'[t].box = boxCall[t].box /\ boxCall'[t].ws = boxCall[t].ws
            /\ boxCall'[t].at = IF t = s THEN "running" ELSE boxCall[t].at
  BY <1>1, GoesTyped DEF CallPlaces
<1>4. BoxTypeOK' BY <1>1, <1>2, <1>3 DEF BoxTypeOK
<1>5. \A t \in CallerSessions : CallMoves(t) BY <1>1, <1>3 DEF CallMoves, InContainer
<1> QED BY <1>1, <1>4, <1>5, NothingMoves, BoxesRest, InvStays

LEMMA FinishCommandKeeps ==
    ASSUME ContainersInv, NEW s \in CallerSessions, FinishCommand(s)
    PROVE  ContainersInv'
<1> USE DEF ContainersInv
<1>1. /\ boxCall' = [boxCall EXCEPT ![s] = NoContainerCall]
      /\ pool' = [k \in PoolKeys |-> IF pool[k] # NoEntry /\ pool[k].box = boxCall[s].box
                                     THEN [pool[k] EXCEPT !.idle = FALSE] ELSE pool[k]]
      /\ UNCHANGED <<boxes, hand, cleaner, stopping, detached, calls, troubles>>
  BY DEF FinishCommand
<1>2. ASSUME NEW k \in PoolKeys
      PROVE  /\ pool'[k] \in Entries
             /\ pool'[k] # pool[k] => /\ pool[k] # NoEntry
                                      /\ pool'[k].box = pool[k].box /\ pool'[k].ws = pool[k].ws
  BY <1>1 DEF BoxTypeOK, Entries
<1>3. pool' \in [PoolKeys -> Entries] BY <1>1, <1>2
<1>4. /\ boxCall' \in [CallerSessions -> ContainerCalls]
      /\ \A t \in CallerSessions : CallMoves(t)
  BY <1>1, ReturnMoves
<1>5. BoxTypeOK' BY <1>1, <1>3, <1>4 DEF BoxTypeOK
<1>6. PoolMoves BY <1>2 DEF PoolMoves
<1>7. HandsMove BY <1>1 DEF HandsMove
<1> QED BY <1>1, <1>4, <1>5, <1>6, <1>7, BoxesRest, InvStays

LEMMA DestroyAskedKeeps ==
    ASSUME ContainersInv, NEW s \in CallerSessions, DestroyAsked(s)
    PROVE  ContainersInv'
<1> USE DEF ContainersInv
<1>1. /\ PoolMoves /\ HandsMove
      /\ pool' \in [PoolKeys -> Entries]
      /\ hand' \in [Hands -> [key : PoolKeys, entry : Entries]]
  BY PopMoves, Spaces, KeysOfCalls DEF DestroyAsked
<1>2. /\ UNCHANGED <<boxes, boxCall, cleaner, stopping, detached, troubles>>
      /\ calls' \in 0 .. MaxCalls
  BY Spaces DEF DestroyAsked, BoxTypeOK
<1>3. BoxTypeOK' BY <1>1, <1>2 DEF BoxTypeOK, Hands
<1>4. \A t \in CallerSessions : CallMoves(t) BY <1>2 DEF CallMoves
<1> QED BY <1>1, <1>2, <1>3, <1>4, BoxesRest, InvStays

LEMMA StopCommandKeeps ==
    ASSUME ContainersInv, NEW s \in CallerSessions, StopCommand(s)
    PROVE  ContainersInv'
<1> USE DEF ContainersInv
<1>1. /\ \A t \in CallerSessions :
            \/ boxCall'[t] = boxCall[t]
            \/ boxCall[t].at = "running" /\ boxCall'[t] = [boxCall[t] EXCEPT !.at = "killed"]
      /\ boxCall' = [t \in CallerSessions |-> boxCall'[t]]
      /\ UNCHANGED <<boxes, pool, hand, cleaner, calls>>
      /\ stopping' \subseteq CallerSessions /\ troubles' \in 0 .. MaxTroubles
  BY Spaces DEF StopCommand, Trouble, BoxTypeOK
<1>2. detached' \in [CallerSessions -> 0 .. MaxBoxes]
  BY Spaces DEF StopCommand, BoxTypeOK
<1>3. ASSUME NEW t \in CallerSessions
      PROVE  boxCall'[t] \in ContainerCalls /\ CallMoves(t)
  <2>1. boxCall[t] \in ContainerCalls BY DEF BoxTypeOK
  <2> QED BY <1>1, <2>1 DEF ContainerCalls, CallPlaces, CallMoves, InContainer
<1>4. boxCall' \in [CallerSessions -> ContainerCalls] BY <1>1, <1>3
<1>5. BoxTypeOK' BY <1>1, <1>2, <1>4 DEF BoxTypeOK
<1> QED BY <1>1, <1>3, <1>5, NothingMoves, BoxesRest, InvStays

LEMMA StopPassesKeeps ==
    ASSUME ContainersInv, NEW s \in CallerSessions, StopPasses(s)
    PROVE  ContainersInv'
<1> USE DEF ContainersInv
<1>1. UNCHANGED <<boxes, pool, boxCall, hand, cleaner, detached, calls, troubles>>
  BY DEF StopPasses
<1>2. BoxTypeOK' BY <1>1 DEF StopPasses, BoxTypeOK
<1>3. \A t \in CallerSessions : CallMoves(t) BY <1>1 DEF CallMoves
<1> QED BY <1>1, <1>2, <1>3, NothingMoves, BoxesRest, InvStays

LEMMA EntryRestsKeeps ==
    ASSUME ContainersInv, NEW k \in PoolKeys, EntryRests(k)
    PROVE  ContainersInv'
<1> USE DEF ContainersInv
<1>1. /\ pool' = [pool EXCEPT ![k].idle = TRUE] /\ pool[k] # NoEntry
      /\ UNCHANGED <<boxes, boxCall, hand, cleaner, stopping, detached, calls, troubles>>
  BY DEF EntryRests
<1>2. /\ pool' \in [PoolKeys -> Entries]
      /\ \A j \in PoolKeys : j # k => pool'[j] = pool[j]
      /\ pool'[k].box = pool[k].box /\ pool'[k].ws = pool[k].ws
  BY <1>1 DEF BoxTypeOK, Entries
<1>3. BoxTypeOK' BY <1>1, <1>2 DEF BoxTypeOK
<1>4. PoolMoves BY <1>1, <1>2 DEF PoolMoves
<1>5. HandsMove /\ \A t \in CallerSessions : CallMoves(t) BY <1>1 DEF HandsMove, CallMoves
<1> QED BY <1>1, <1>3, <1>4, <1>5, BoxesRest, InvStays

-----------------------------------------------------------------------------
LEMMA AdoptBoxKeeps ==
    ASSUME ContainersInv, NEW b \in Boxes, AdoptBox(b)
    PROVE  ContainersInv'
<1> USE DEF ContainersInv
<1> DEFINE e == [box |-> b, ws |-> Nobody, idle |-> FALSE]
<1>1. /\ boxes' = [boxes EXCEPT ![b].up = "running"] /\ boxes[b].up = "exited"
      /\ pool' = pool \/ pool' = [pool EXCEPT ![AdoptedKey] = e]
      /\ UNCHANGED <<boxCall, hand, cleaner, stopping, detached, calls, troubles>>
  BY DEF AdoptBox
<1>2. e \in Entries /\ e.box = b BY Spaces DEF Entries
<1> HIDE DEF e
<1>3. boxes' \in [Boxes -> BoxRecords] /\ BoxesKeep /\ boxes'[b].up = "running"
      /\ \A d \in Boxes : boxes'[d].up # "none" => boxes'[d].name \in BoxKeys
  BY <1>1 DEF BoxTypeOK, BoxRecords, BoxStates, BoxesKeep
<1>4. /\ pool' \in [PoolKeys -> Entries]
      /\ pool'[AdoptedKey] = pool[AdoptedKey] \/ pool'[AdoptedKey] = e
      /\ \A k \in PoolKeys : k # AdoptedKey => pool'[k] = pool[k]
  BY <1>1, <1>2, Spaces DEF BoxTypeOK
<1>5. BoxTypeOK' BY <1>1, <1>3, <1>4 DEF BoxTypeOK
<1>6. ASSUME NEW k \in PoolKeys PROVE Fits(boxes', k, pool'[k])
  <2>1. CASE pool'[k] = pool[k] BY <2>1, <1>3, EntryStays DEF EntriesFit
  <2>2. CASE k = AdoptedKey /\ pool'[k] = e
    <3>1. boxes[b].name = AgentKey BY DEF AdoptBox, Lasting
    <3> QED BY <2>2, <3>1, <1>1, <1>2, <1>3 DEF Fits, BoxesKeep
  <2> QED BY <1>4, <2>1, <2>2
<1>7. \A x \in Hands : Fits(boxes', hand'[x].key, hand'[x].entry)
  BY <1>1, <1>3, EntryStays DEF EntriesFit
<1>8. \A t \in CallerSessions : CallMoves(t) BY <1>1 DEF CallMoves
<1>9. CallsFit' BY <1>3, <1>8, CallStays DEF CallsFit
<1> QED BY <1>5, <1>6, <1>7, <1>9 DEF EntriesFit

LEMMA KillOrphanKeeps ==
    ASSUME ContainersInv, NEW n \in BoxKeys, KillOrphan(n)
    PROVE  ContainersInv'
<1> USE DEF ContainersInv
<1>1. /\ boxes' = Gone(Named(n))
      /\ UNCHANGED <<pool, boxCall, hand, stopping, detached, calls, troubles>>
  BY DEF KillOrphan
<1> DEFINE bs == Named(n)
<1>2. (\A b \in bs \intersect Boxes : boxes[b].up # "none") /\ boxes' = Gone(bs)
  BY <1>1 DEF Named, Exists
<1> HIDE DEF bs
<1>3. /\ BoxesKeep /\ boxes' \in [Boxes -> BoxRecords]
      /\ \A b \in Boxes : boxes'[b].up # "none" => boxes'[b].name \in BoxKeys
  BY <1>2, GoneIsKept
<1>4. cleaner' \in [at : ReaperPlaces, sweeping : BOOLEAN, key : PoolKeys,
                   live : SUBSET BoxKeys, orphans : SUBSET BoxKeys, phantoms : SUBSET PoolKeys]
  BY DEF KillOrphan, BoxTypeOK
<1>5. BoxTypeOK' BY <1>1, <1>3, <1>4 DEF BoxTypeOK
<1>6. \A t \in CallerSessions : CallMoves(t) BY <1>1 DEF CallMoves
<1> QED BY <1>1, <1>3, <1>5, <1>6, NothingMoves, InvStays

LEMMA ForgetPhantomKeeps ==
    ASSUME ContainersInv, NEW k \in PoolKeys, ForgetPhantom(k)
    PROVE  ContainersInv'
<1> USE DEF ContainersInv
<1>1. /\ pool' = [pool EXCEPT ![k] = NoEntry]
      /\ UNCHANGED <<boxes, boxCall, hand, stopping, detached, calls, troubles>>
  BY DEF ForgetPhantom
<1>2. cleaner' \in [at : ReaperPlaces, sweeping : BOOLEAN, key : PoolKeys,
                   live : SUBSET BoxKeys, orphans : SUBSET BoxKeys, phantoms : SUBSET PoolKeys]
  BY DEF ForgetPhantom, BoxTypeOK
<1>3. pool' \in [PoolKeys -> Entries] /\ PoolMoves
  BY <1>1, Spaces DEF BoxTypeOK, PoolMoves
<1>4. BoxTypeOK' BY <1>1, <1>2, <1>3 DEF BoxTypeOK
<1>5. HandsMove /\ \A t \in CallerSessions : CallMoves(t) BY <1>1 DEF CallMoves, HandsMove
<1> QED BY <1>1, <1>3, <1>4, <1>5, BoxesRest, InvStays

LEMMA PopIdleKeeps ==
    ASSUME ContainersInv, PopIdle
    PROVE  ContainersInv'
<1> USE DEF ContainersInv
<1>1. /\ PoolMoves /\ HandsMove
      /\ pool' \in [PoolKeys -> Entries]
      /\ hand' \in [Hands -> [key : PoolKeys, entry : Entries]]
  BY PopMoves, Spaces DEF PopIdle, BoxTypeOK
<1>2. UNCHANGED <<boxes, boxCall, stopping, detached, calls, troubles>> BY DEF PopIdle
<1>3. cleaner' \in [at : ReaperPlaces, sweeping : BOOLEAN, key : PoolKeys,
                   live : SUBSET BoxKeys, orphans : SUBSET BoxKeys, phantoms : SUBSET PoolKeys]
  BY Spaces DEF PopIdle, BoxTypeOK, ReaperPlaces
<1>4. BoxTypeOK' BY <1>1, <1>2, <1>3 DEF BoxTypeOK, Hands
<1>5. \A t \in CallerSessions : CallMoves(t) BY <1>2 DEF CallMoves
<1> QED BY <1>1, <1>2, <1>4, <1>5, BoxesRest, InvStays

\* The steps of the reaper that change only its own state.
LEMMA ReaperKeeps ==
    ASSUME ContainersInv,
           \/ AdoptionEnds \/ ListBoxes \/ Compare \/ RoundEnds \/ ReconcileBegins
           \/ \E k \in PoolKeys : CheckIdle(k)
    PROVE  ContainersInv'
<1> USE DEF ContainersInv
<1> DEFINE Cleaners == [at : ReaperPlaces, sweeping : BOOLEAN, key : PoolKeys,
                        live : SUBSET BoxKeys, orphans : SUBSET BoxKeys,
                        phantoms : SUBSET PoolKeys]
<1>1. UNCHANGED <<boxes, pool, boxCall, hand, stopping, detached, calls>>
  BY DEF AdoptionEnds, ListBoxes, Compare, RoundEnds, ReconcileBegins, CheckIdle
<1>2. troubles' \in 0 .. MaxTroubles
  <2>1. troubles' = troubles \/ Trouble
    BY DEF AdoptionEnds, ListBoxes, Compare, RoundEnds, ReconcileBegins, CheckIdle
  <2> QED BY <2>1, Spaces DEF Trouble, BoxTypeOK
<1>3. cleaner' \in Cleaners
  <2>1. CASE AdoptionEnds BY <2>1 DEF AdoptionEnds, BoxTypeOK, ReaperPlaces
  <2>2. CASE ListBoxes
    <3>1. {boxes[b].name : b \in {d \in Boxes : Exists(d)}} \subseteq BoxKeys
      BY DEF BoxTypeOK, Exists
    <3> QED BY <2>2, <3>1 DEF ListBoxes, BoxTypeOK, ReaperPlaces
  <2>3. CASE Compare
    <3>1. {k \in Pooled : boxes[pool[k].box].name \notin cleaner.live} \subseteq PoolKeys
      BY DEF Pooled
    <3>2. cleaner \in Cleaners BY DEF BoxTypeOK
    <3> QED BY <2>3, <3>1, <3>2 DEF Compare, ReaperPlaces
  <2>4. CASE RoundEnds BY <2>4, Spaces DEF RoundEnds, NoReaper, ReaperPlaces
  <2>5. CASE ReconcileBegins BY <2>5 DEF ReconcileBegins, BoxTypeOK, ReaperPlaces
  <2>6. CASE \E k \in PoolKeys : CheckIdle(k) BY <2>6 DEF CheckIdle, BoxTypeOK, ReaperPlaces
  <2> QED BY <2>1, <2>2, <2>3, <2>4, <2>5, <2>6
<1>4. BoxTypeOK' BY <1>1, <1>2, <1>3 DEF BoxTypeOK
<1>5. \A t \in CallerSessions : CallMoves(t) BY <1>1 DEF CallMoves
<1> QED BY <1>1, <1>4, <1>5, NothingMoves, BoxesRest, InvStays

LEMMA RestartKeeps ==
    ASSUME ContainersInv, PoolCrash \/ PoolExit
    PROVE  ContainersInv'
<1> USE DEF ContainersInv
<1>1. ProcessIsNew BY DEF PoolCrash, PoolExit
<1>2. /\ boxes' \in [Boxes -> BoxRecords]
      /\ \A b \in Boxes : boxes'[b].up # "none" => boxes'[b].name \in BoxKeys
  <2>1. CASE PoolCrash BY <2>1 DEF PoolCrash, BoxTypeOK
  <2>2. CASE PoolExit
    <3>1. ASSUME NEW b \in Boxes
          PROVE  /\ boxes'[b] \in BoxRecords
                 /\ boxes'[b].up # "none" => boxes'[b].name \in BoxKeys
      BY <2>2 DEF PoolExit, BoxTypeOK, BoxRecords, BoxStates, Exists
    <3>2. boxes' = [b \in Boxes |-> boxes'[b]] BY <2>2 DEF PoolExit
    <3> QED BY <3>1, <3>2
  <2> QED BY <2>1, <2>2
<1>3. /\ pool' = [k \in PoolKeys |-> NoEntry]
      /\ boxCall' = [s \in CallerSessions |-> NoContainerCall]
      /\ hand' = [x \in Hands |-> NoHand]
      /\ cleaner' = NoReaper /\ stopping' = {} /\ UNCHANGED <<detached, calls>>
      /\ troubles' \in 0 .. MaxTroubles
  BY <1>1, Spaces DEF ProcessIsNew, Hands, Trouble, BoxTypeOK
<1>4. BoxTypeOK'
  BY <1>2, <1>3, Spaces DEF BoxTypeOK, NoReaper, ReaperPlaces, Hands
<1>5. EntriesFit' BY <1>3 DEF EntriesFit, Fits, NoHand
<1>6. CallsFit' BY <1>3 DEF CallsFit, CallFits, InContainer, NoContainerCall
<1> QED BY <1>4, <1>5, <1>6

LEMMA ContainersStart == BoxInit => ContainersInv
<1> SUFFICES ASSUME BoxInit PROVE ContainersInv OBVIOUS
<1>1. BoxTypeOK
  BY Spaces DEF BoxInit, BoxTypeOK, BoxRecords, BoxStates, NoReaper, ReaperPlaces, Hands
<1>2. EntriesFit BY DEF BoxInit, EntriesFit, Fits, NoHand, Hands
<1>3. CallsFit BY DEF BoxInit, CallsFit, CallFits, InContainer, NoContainerCall
<1> QED BY <1>1, <1>2, <1>3 DEF ContainersInv

LEMMA ContainersStep == ContainersInv /\ [BoxNext]_boxVars => ContainersInv'
<1> SUFFICES ASSUME ContainersInv, [BoxNext]_boxVars PROVE ContainersInv' OBVIOUS
<1>1. CASE UNCHANGED boxVars
  BY <1>1 DEF boxVars, ContainersInv, BoxTypeOK, EntriesFit, CallsFit
<1>2. ASSUME NEW s \in CallerSessions, \E c \in CallsOf[s] : BeginCall(s, c[1], c[2])
      PROVE  ContainersInv'
  BY <1>2, BeginCallKeeps
<1>3. ASSUME NEW s \in CallerSessions, CallStep(s) PROVE ContainersInv'
  BY <1>3, DropStaleKeeps, MakeRoomKeeps, DockerRunKeeps, ClearNameKeeps, InsertBoxKeeps,
     ExecuteKeeps, LookAgainKeeps, CallEndsKeeps, FinishCommandKeeps, RemoveBoxKeeps, Spaces
     DEF CallStep
<1>4. ASSUME NEW s \in CallerSessions,
             RunFails(s) \/ DestroyAsked(s) \/ StopCommand(s) \/ StopPasses(s)
      PROVE  ContainersInv'
  BY <1>4, CallEndsKeeps, DestroyAskedKeeps, StopCommandKeeps, StopPassesKeeps
<1>5. ASSUME NEW x \in Hands, RemoveFails(x) \/ RemoveTimesOut(x) PROVE ContainersInv'
  BY <1>5, RemoveFailsKeeps, RemoveTimesOutKeeps
<1>6. ASSUME NEW k \in PoolKeys, EntryRests(k) PROVE ContainersInv'
  BY <1>6, EntryRestsKeeps
<1>7. CASE ReaperStep
  BY <1>7, AdoptBoxKeeps, KillOrphanKeeps, ForgetPhantomKeeps, PopIdleKeeps, ReaperKeeps,
     RemoveBoxKeeps, Spaces DEF ReaperStep
<1>8. CASE PoolCrash \/ PoolExit BY <1>8, RestartKeeps
<1> QED BY <1>1, <1>2, <1>3, <1>4, <1>5, <1>6, <1>7, <1>8 DEF BoxNext, Hands

\* A command runs in the container of its own pool key and with the workspace
\* it was called for: of every container that is pooled, or that a call has
\* popped and may put back, the entry still tells what it was created for.
THEOREM CommandsStayApart == BoxSpec => []RunsInOwnContainer
<1>1. ContainersInv => RunsInOwnContainer
  BY DEF ContainersInv, CallsFit, CallFits, InContainer, RunsInOwnContainer
<1> QED BY <1>1, ContainersStart, ContainersStep, PTL DEF BoxSpec

-----------------------------------------------------------------------------
\* Outside the sweep no container of a main agent is on the reaper's list, and the
\* key that it pops, or has popped, is that of a session's own container.
LastingIsSafe ==
    /\ cleaner.orphans # {} => cleaner.at = "fix"
    /\ ~cleaner.sweeping => AgentKey \notin cleaner.orphans
    /\ cleaner.at = "pop" => cleaner.key \notin {AgentKey, AdoptedKey}
    /\ hand[Reaper] # NoHand => hand[Reaper].key \notin {AgentKey, AdoptedKey}

LastingRests == \A b \in Boxes : Lasting(b) => boxes'[b] = boxes[b]

\* What the reaper holds is not lasting, as its key is not the main agent's.
LEMMA ReaperRemoves ==
    ASSUME ContainersInv, LastingIsSafe, hand[Reaper] # NoHand,
           boxes' \in {boxes, Gone({hand[Reaper].entry.box})}
    PROVE  LastingRests
<1>1. Fits(boxes, hand[Reaper].key, hand[Reaper].entry)
  BY Spaces DEF ContainersInv, EntriesFit
<1>2. ASSUME NEW b \in Boxes, Lasting(b) PROVE b # hand[Reaper].entry.box
  BY <1>1, <1>2, Spaces DEF LastingIsSafe, Fits, Lasting, NoEntry
<1> QED BY <1>2 DEF LastingRests, Gone

\* A call leaves the reaper's hand alone.
LEMMA CallersHands ==
    ASSUME BoxTypeOK, NEW s \in CallerSessions, NEW v,
           hand' = [hand EXCEPT ![s] = v]
    PROVE  hand'[Reaper] = hand[Reaper]
BY Spaces DEF BoxTypeOK

LEMMA ReaperRestsOn ==
    ASSUME BoxTypeOK, NEW s \in CallerSessions,
           \/ \E c \in CallsOf[s] : BeginCall(s, c[1], c[2])
           \/ CallStep(s) /\ ~InsertBox(s)
           \/ RunFails(s) \/ DestroyAsked(s) \/ StopCommand(s) \/ StopPasses(s)
           \/ RemoveFails(s) \/ RemoveTimesOut(s)
    PROVE  cleaner' = cleaner /\ hand'[Reaper] = hand[Reaper]
<1>1. CASE DropStale(s) \/ MakeRoom(s) \/ DestroyAsked(s)
  <2>1. cleaner' = cleaner /\ (UNCHANGED hand \/ \E k : Pop(s, k))
    BY <1>1 DEF DropStale, MakeRoom, DestroyAsked
  <2> QED BY <2>1, CallersHands DEF Pop
<1>2. CASE RemoveBox(s) \/ RemoveFails(s) \/ RemoveTimesOut(s)
  <2>1. cleaner' = cleaner /\ hand' = [hand EXCEPT ![s] = NoHand]
    BY <1>2 DEF RemoveBox, RemoveFails, RemoveTimesOut
  <2> QED BY <2>1, CallersHands
<1>3. CASE \/ \E c \in CallsOf[s] : BeginCall(s, c[1], c[2])
           \/ DockerRun(s) \/ ClearName(s) \/ Execute(s) \/ LookAgain(s) \/ ReturnGone(s)
           \/ FinishCommand(s) \/ RunFails(s) \/ StopCommand(s) \/ StopPasses(s)
  BY <1>3 DEF BeginCall, DockerRun, ClearName, Execute, LookAgain, ReturnGone, FinishCommand,
     RunFails, StopCommand, StopPasses
<1> QED BY <1>1, <1>2, <1>3 DEF CallStep

\* What the reaper's own steps, and the insertion that starts it, do.
LEMMA ReaperMoves ==
    ASSUME BoxTypeOK, EntriesFit, LastingIsSafe, UNCHANGED boxes,
           \/ \E s \in CallerSessions : InsertBox(s)
           \/ AdoptionEnds \/ ListBoxes \/ Compare \/ RoundEnds \/ ReconcileBegins \/ PopIdle
           \/ \E k \in PoolKeys : CheckIdle(k) \/ ForgetPhantom(k)
    PROVE  LastingIsSafe'
<1> USE DEF LastingIsSafe
<1>1. CASE \E s \in CallerSessions : InsertBox(s)
  BY <1>1 DEF InsertBox, NoReaper, BoxTypeOK
<1>2. CASE AdoptionEnds \/ ListBoxes BY <1>2 DEF AdoptionEnds, ListBoxes, BoxTypeOK
<1>3. CASE Compare BY <1>3 DEF Compare, BoxTypeOK
<1>4. CASE RoundEnds \/ ReconcileBegins
  BY <1>4 DEF RoundEnds, ReconcileBegins, NoReaper, BoxTypeOK
<1>5. CASE PopIdle
  <2>1. /\ cleaner.at = "pop" /\ Pop(Reaper, cleaner.key) /\ UNCHANGED boxes
        /\ cleaner' = [cleaner EXCEPT !.at = "asleep", !.key = AdoptedKey]
    BY <1>5 DEF PopIdle
  <2>2. /\ cleaner'.at = "asleep" /\ cleaner'.orphans = cleaner.orphans
        /\ cleaner'.sweeping = cleaner.sweeping
    BY <2>1 DEF BoxTypeOK
  <2>3. hand'[Reaper] = NoHand \/ hand'[Reaper].key = cleaner.key
    BY <2>1, Spaces DEF Pop, BoxTypeOK, Hands
  <2> QED BY <2>1, <2>2, <2>3
<1>6. CASE \E k \in PoolKeys : CheckIdle(k)
  <2> PICK k \in PoolKeys : CheckIdle(k) BY <1>6
  <2>1. /\ pool[k] # NoEntry /\ ~Lasting(pool[k].box) /\ cleaner.at = "asleep" /\ UNCHANGED hand
        /\ cleaner' = [cleaner EXCEPT !.at = "pop", !.key = k]
    BY DEF CheckIdle
  <2>2. Fits(boxes, k, pool[k]) BY DEF EntriesFit
  <2>3. k \notin {AgentKey, AdoptedKey} BY <2>1, <2>2 DEF Fits, Lasting
  <2>4. /\ cleaner'.at = "pop" /\ cleaner'.key = k /\ cleaner'.orphans = cleaner.orphans
        /\ cleaner'.sweeping = cleaner.sweeping
    BY <2>1 DEF BoxTypeOK
  <2> QED BY <2>1, <2>3, <2>4
<1>7. CASE \E k \in PoolKeys : ForgetPhantom(k) BY <1>7 DEF ForgetPhantom, BoxTypeOK
<1> QED BY <1>1, <1>2, <1>3, <1>4, <1>5, <1>6, <1>7

LEMMA LastingIsLeft ==
    ASSUME ContainersInv, LastingIsSafe, BoxNext
    PROVE  /\ LastingIsSafe'
           /\ ReaperActs /\ ~cleaner.sweeping /\ cleaner'.at # "off" => LastingRests
<1> USE DEF ContainersInv
<1>1. CASE cleaner' = cleaner /\ hand'[Reaper] = hand[Reaper]
  BY <1>1 DEF LastingIsSafe, ReaperActs
<1>2. CASE PoolCrash \/ PoolExit
  <2>1. cleaner' = NoReaper /\ hand'[Reaper] = NoHand
    BY <1>2, Spaces DEF PoolCrash, PoolExit, ProcessIsNew, Hands
  <2> QED BY <2>1 DEF NoReaper, LastingIsSafe
<1>3. CASE \E n \in BoxKeys : KillOrphan(n)
  <2> PICK n \in BoxKeys : KillOrphan(n) BY <1>3
  <2>1. /\ cleaner' = [cleaner EXCEPT !.orphans = @ \ {n}] /\ boxes' = Gone(Named(n))
        /\ cleaner.at = "fix" /\ n \in cleaner.orphans /\ UNCHANGED hand
    BY DEF KillOrphan
  <2>2. /\ cleaner'.orphans \subseteq cleaner.orphans /\ cleaner'.at = cleaner.at
        /\ cleaner'.sweeping = cleaner.sweeping
    BY <2>1 DEF BoxTypeOK
  <2>3. LastingIsSafe' BY <2>1, <2>2 DEF LastingIsSafe
  <2>4. ASSUME ~cleaner.sweeping, NEW b \in Boxes, Lasting(b) PROVE boxes'[b] = boxes[b]
    BY <2>1, <2>4 DEF Gone, Named, Lasting, LastingIsSafe
  <2> QED BY <2>3, <2>4 DEF LastingRests
<1> DEFINE Quiet ==
      \/ \E s \in CallerSessions : InsertBox(s)
      \/ AdoptionEnds \/ ListBoxes \/ Compare \/ RoundEnds \/ ReconcileBegins \/ PopIdle
      \/ \E k \in PoolKeys : CheckIdle(k) \/ ForgetPhantom(k)
<1>4. CASE Quiet
  <2>1. UNCHANGED boxes
    BY <1>4 DEF InsertBox, AdoptionEnds, ListBoxes, Compare, RoundEnds, ReconcileBegins, PopIdle,
       CheckIdle, ForgetPhantom
  <2>2. LastingIsSafe' BY <1>4, <2>1, ReaperMoves
  <2> QED BY <2>1, <2>2 DEF LastingRests
<1>5. CASE RemoveBox(Reaper) \/ RemoveFails(Reaper) \/ RemoveTimesOut(Reaper)
  <2>1. /\ hand[Reaper] # NoHand /\ hand' = [hand EXCEPT ![Reaper] = NoHand] /\ UNCHANGED cleaner
        /\ boxes' \in {boxes, Gone({hand[Reaper].entry.box})}
    BY <1>5 DEF RemoveBox, RemoveFails, RemoveTimesOut
  <2>2. hand'[Reaper] = NoHand BY <2>1, Spaces DEF BoxTypeOK, Hands
  <2>3. LastingIsSafe' BY <2>1, <2>2 DEF LastingIsSafe
  <2> QED BY <2>1, <2>3, ReaperRemoves
<1>6. \/ cleaner' = cleaner /\ hand'[Reaper] = hand[Reaper]
      \/ PoolCrash \/ PoolExit \/ (\E n \in BoxKeys : KillOrphan(n)) \/ Quiet
      \/ RemoveBox(Reaper) \/ RemoveFails(Reaper) \/ RemoveTimesOut(Reaper)
  <2>1. ASSUME NEW s \in CallerSessions,
               \/ \E c \in CallsOf[s] : BeginCall(s, c[1], c[2])
               \/ CallStep(s)
               \/ RunFails(s) \/ DestroyAsked(s) \/ StopCommand(s) \/ StopPasses(s)
               \/ RemoveFails(s) \/ RemoveTimesOut(s)
        PROVE  InsertBox(s) \/ (cleaner' = cleaner /\ hand'[Reaper] = hand[Reaper])
    BY <2>1, ReaperRestsOn
  <2>2. ASSUME NEW b \in Boxes, AdoptBox(b) PROVE cleaner' = cleaner /\ hand'[Reaper] = hand[Reaper]
    BY <2>2 DEF AdoptBox
  <2>3. ASSUME NEW k \in PoolKeys, EntryRests(k)
        PROVE  cleaner' = cleaner /\ hand'[Reaper] = hand[Reaper]
    BY <2>3 DEF EntryRests
  <2> QED BY <2>1, <2>2, <2>3 DEF BoxNext, ReaperStep
<1> QED BY <1>1, <1>2, <1>3, <1>4, <1>5, <1>6

\* Once the sweep is over the reaper removes no container of a main agent: its list
\* of orphans was compared with the pool and leaves the lasting ones out, and what it
\* finds idle, pops and removes was pooled under the key of a session's own container.
THEOREM ReaperLeavesLasting == BoxSpec => ReaperSparesLasting
<1> DEFINE Spared ==
      ReaperActs /\ ~cleaner.sweeping /\ cleaner'.at # "off"
            => \A b \in Boxes : Lasting(b) => boxes'[b] = boxes[b]
<1>1. BoxInit => LastingIsSafe BY Spaces DEF BoxInit, LastingIsSafe, NoReaper, Hands
<1>2. ContainersInv /\ LastingIsSafe /\ [BoxNext]_boxVars => LastingIsSafe' /\ [Spared]_boxVars
  <2> SUFFICES ASSUME ContainersInv, LastingIsSafe, [BoxNext]_boxVars
               PROVE  LastingIsSafe' /\ [Spared]_boxVars
    OBVIOUS
  <2>1. CASE BoxNext BY <2>1, LastingIsLeft DEF LastingRests
  <2>2. CASE UNCHANGED boxVars BY <2>2 DEF boxVars, LastingIsSafe
  <2> QED BY <2>1, <2>2
<1> QED BY <1>1, <1>2, ContainersStart, ContainersStep, PTL DEF BoxSpec, ReaperSparesLasting
=============================================================================
