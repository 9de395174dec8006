------------------------------ MODULE ToolBatch ------------------------------
(* The tool calls of one reply: read-only calls run in parallel under a      *)
(* deadline, the others one by one, risky ones after somebody approved them; *)
(* results are written in call order, and chat rows that other threads want  *)
(* to write meanwhile are held back (tool batch echo guard).                 *)
EXTENDS Naturals, FiniteSets, Sequences, SequencesExt

CONSTANTS
    NumCalls,     \* bound: tool calls in a reply
    NumBatches,   \* bound: replies with tool calls in the turn
    CallKinds,    \* subset of AllKinds: the calls a model may ask for
    EchoThreads   \* bound: threads that send a file of their own (commands, plugins)

AllKinds == {"read", "write", "sendfile", "risky", "bad"}

ASSUME BatchAssumption == NumCalls \in Nat

Calls == 1 .. NumCalls
None == "none"

VARIABLES
    batchAt,      \* "idle", "parallel", "serial", "asking", "decided", "ended"
    batch,        \* number of the batch that runs or ran last
    apiSession,   \* the session belongs to an API consumer
    kind,         \* kind of each call of the batch
    current,      \* the call phase 3 works on
    future,       \* of each read-only call: "none", "running", "done", "left"
    result,       \* of each call: None or what is known of its outcome
    tail,         \* messages after the assistant message: calls, or Urgent
    chatlog,      \* rows of the session's log
    echoOpen,     \* the session is in _ECHO_OPEN
    echoPending,  \* _ECHO_PENDING of the session
    echoing,      \* of each echo thread: where it is and the rows it is about to append
    pendingApproval, \* the call has an entry in the registry
    decision,     \* PendingApproval.decision
    chosen,       \* the decision the loop read
    accepted,     \* history: decisions of the current approval told "resolved"
    ranRisky,     \* history: approvals the batch's risky calls ran under
    stopFlag,     \* stop_event
    request       \* history: results in the request after the batch, repaired

batchVars == <<batchAt, batch, apiSession, kind, current, future, result, tail, chatlog,
               echoOpen, echoPending, echoing, pendingApproval, decision, chosen,
               accepted, ranRisky, stopFlag, request>>

approvalVars == <<pendingApproval, decision, chosen, accepted, ranRisky>>
echoVars == <<echoOpen, echoPending, echoing>>

Urgent == 0   \* the force-stop message, among the calls of tail

Row(what) == [what |-> what, batch |-> batch]

BatchTypeOK ==
    /\ batchAt \in {"idle", "parallel", "serial", "asking", "decided", "ended"}
    /\ batch \in 0 .. NumBatches /\ apiSession \in BOOLEAN
    /\ kind \in [Calls -> AllKinds]
    /\ ToSet(tail) \subseteq Calls \union {Urgent} /\ current \in 1 .. NumCalls + 1
    /\ future \in [Calls -> {None, "running", "done", "left"}]
    /\ echoOpen \in BOOLEAN /\ pendingApproval \in BOOLEAN /\ stopFlag \in BOOLEAN

BatchInit ==
    /\ batchAt = "idle" /\ batch = 0 /\ apiSession \in BOOLEAN
    /\ kind = [c \in Calls |-> "bad"] /\ current = 1
    /\ future = [c \in Calls |-> None] /\ result = [c \in Calls |-> None]
    /\ tail = <<>> /\ chatlog = <<>> /\ request = <<>>
    /\ echoOpen = FALSE /\ echoPending = <<>> /\ echoing = [t \in EchoThreads |-> [at |-> "new", rows |-> <<>>]]
    /\ pendingApproval = FALSE /\ decision = None /\ chosen = None
    /\ accepted = <<>> /\ ranRisky = {} /\ stopFlag = FALSE

-----------------------------------------------------------------------------
(* The echo guard. *)

\* end_tool_batch: close, then append what was held back.
CloseGuard(log) ==
    /\ echoOpen' = FALSE /\ echoPending' = <<>>
    /\ chatlog' = log \o echoPending

\* The guard is looked at without the flag of the batch.
MutEchoEnter(t) ==
    /\ echoing[t].at = "new"
    /\ echoing' = [echoing EXCEPT ![t] = [at |-> "appending", rows |-> Append(echoPending, Row("echo"))]]
    /\ echoPending' = <<>>
    /\ UNCHANGED <<batchAt, batch, apiSession, kind, current, future, result, tail,
                   chatlog, echoOpen, approvalVars, stopFlag, request>>

\* append_or_defer_chatlog_echo up to the unlock.  An open batch defers the row;
\* otherwise the thread leaves with it, and with rows an aborted batch left.
EchoEnter(t) ==
    /\ echoing[t].at = "new"
    /\ IF echoOpen
       THEN /\ echoPending' = Append(echoPending, Row("echo"))
            /\ echoing' = [echoing EXCEPT ![t] = [at |-> "gone", rows |-> <<>>]]
       ELSE /\ echoing' = [echoing EXCEPT ![t] = [at |-> "appending", rows |-> Append(echoPending, Row("echo"))]]
            /\ echoPending' = <<>>
    /\ UNCHANGED <<batchAt, batch, apiSession, kind, current, future, result, tail,
                   chatlog, echoOpen, approvalVars, stopFlag, request>>

\* ... and after it.
EchoAppend(t) ==
    /\ echoing[t].at = "appending"
    /\ chatlog' = chatlog \o echoing[t].rows
    /\ echoing' = [echoing EXCEPT ![t] = [at |-> "gone", rows |-> <<>>]]
    /\ UNCHANGED <<batchAt, batch, apiSession, kind, current, future, result, tail,
                   echoOpen, echoPending, approvalVars, stopFlag, request>>

-----------------------------------------------------------------------------
(* Phases 1 and 2. *)

\* The assistant message and its tool_call rows are written, the guard opens and
\* the read-only calls are submitted.
BeginBatch ==
    /\ batchAt = "idle" /\ batch < NumBatches
    /\ batch' = batch + 1
    /\ kind' \in [Calls -> CallKinds]
    /\ chatlog' = chatlog \o [c \in Calls |-> [what |-> "call", batch |-> batch']]
    /\ echoOpen' = TRUE
    /\ batchAt' = "parallel" /\ current' = 1 /\ tail' = <<>> /\ request' = <<>>
    /\ result' = [c \in Calls |-> None]
    /\ future' = [c \in Calls |-> IF kind'[c] = "read" THEN "running" ELSE None]
    /\ ranRisky' = {}
    /\ UNCHANGED <<apiSession, echoPending, echoing, pendingApproval, decision, chosen,
                   accepted, stopFlag>>

\* A worker of the pool ends, while it is waited for or after it was abandoned.
WorkerDone(c) ==
    /\ future[c] = "running" /\ future' = [future EXCEPT ![c] = "done"]
    /\ UNCHANGED <<batchAt, batch, apiSession, kind, current, result, tail, chatlog,
                   echoVars, approvalVars, stopFlag, request>>

Awaited == {c \in Calls : kind[c] = "read" /\ result[c] = None}

\* _collect_parallel_tool_results: harvest, else stop, else the call's deadline.
Collect ==
    /\ batchAt = "parallel"
    /\ \/ \E c \in Awaited : future[c] = "done"
            /\ result' = [result EXCEPT ![c] = "real"]
            /\ future' = [future EXCEPT ![c] = "left"]
       \/ stopFlag /\ Awaited # {}
            /\ result' = [c \in Calls |-> IF c \in Awaited THEN "stopped" ELSE result[c]]
            /\ future' = [c \in Calls |-> IF c \in Awaited THEN "left" ELSE future[c]]
       \/ \E c \in Awaited :
            /\ result' = [result EXCEPT ![c] = "timeout"]
            /\ future' = [future EXCEPT ![c] = "left"]
    /\ UNCHANGED <<batchAt, batch, apiSession, kind, current, tail, chatlog, echoVars,
                   approvalVars, stopFlag, request>>

CollectDone ==
    /\ batchAt = "parallel" /\ Awaited = {} /\ batchAt' = "serial"
    /\ UNCHANGED <<batch, apiSession, kind, current, future, result, tail, chatlog,
                   echoVars, approvalVars, stopFlag, request>>

-----------------------------------------------------------------------------
(* Phase 3, call after call. *)

AtCall(k) == batchAt = "serial" /\ current <= NumCalls /\ kind[current] \in k

\* The result goes to the log and to the live messages, unless it is one the
\* code keeps from the log; a call repeated too often is followed by the
\* force-stop message.
Publish(outcome, rows) ==
    /\ result' = [result EXCEPT ![current] = outcome]
    /\ chatlog' = chatlog \o rows
    /\ \/ tail' = Append(tail, current)
       \/ /\ Urgent \notin ToSet(tail) /\ outcome = "real"
          /\ tail' = tail \o <<current, Urgent>>
    /\ current' = current + 1

Output == <<Row("output")>>

\* Calls that are not run: a stop landed, or their arguments did not parse.
SkipCall ==
    /\ AtCall(AllKinds)
    /\ result[current] = None
    /\ \/ stopFlag /\ kind[current] # "bad" /\ Publish("stopped", Output)
       \/ kind[current] = "bad" /\ Publish("parse", Output)
    /\ UNCHANGED <<batchAt, batch, apiSession, kind, future, echoVars, approvalVars,
                   stopFlag, request>>

\* The result of a parallel call that timed out is left out of the messages.
MutPublishParallel ==
    /\ AtCall({"read"})
    /\ current' = current + 1
    /\ tail' = IF result[current] = "timeout" THEN tail ELSE Append(tail, current)
    /\ chatlog' = chatlog \o Output
    /\ UNCHANGED <<batchAt, batch, apiSession, kind, future, result, echoVars, approvalVars,
                   stopFlag, request>>

PublishParallel ==
    /\ AtCall({"read"})
    /\ Publish(result[current], Output)
    /\ UNCHANGED <<batchAt, batch, apiSession, kind, future, echoVars, approvalVars,
                   stopFlag, request>>

\* A call that needs nobody's approval.  send_file records its own chat row, which
\* the guard holds back.
RunCall ==
    /\ AtCall({"write", "sendfile"}) /\ ~stopFlag
    /\ Publish("real", Output)
    /\ echoPending' = IF kind[current] = "sendfile" THEN Append(echoPending, Row("echo"))
                      ELSE echoPending
    /\ UNCHANGED <<batchAt, batch, apiSession, kind, future, echoOpen, echoing,
                   approvalVars, stopFlag, request>>

\* Nobody can approve for an API consumer: rejected, with no row in the log.
RejectForApi ==
    /\ AtCall({"risky"}) /\ ~stopFlag /\ apiSession
    /\ result' = [result EXCEPT ![current] = "rejected"]
    /\ tail' = Append(tail, current) /\ current' = current + 1
    /\ UNCHANGED <<batchAt, batch, apiSession, kind, future, chatlog, echoVars,
                   approvalVars, stopFlag, request>>

AskApproval ==
    /\ AtCall({"risky"}) /\ ~stopFlag /\ ~apiSession
    /\ pendingApproval' = TRUE /\ decision' = None /\ accepted' = <<>>
    /\ batchAt' = "asking"
    /\ UNCHANGED <<batch, apiSession, kind, current, future, result, tail, chatlog,
                   echoVars, chosen, ranRisky, stopFlag, request>>

\* A later decision replaces the first.
MutResolve(d) ==
    /\ pendingApproval
    /\ decision' = d /\ accepted' = Append(accepted, d)
    /\ UNCHANGED <<batchAt, batch, apiSession, kind, current, future, result, tail,
                   chatlog, echoVars, pendingApproval, chosen, ranRisky, stopFlag, request>>

\* ApprovalRegistry.resolve, by a browser, a channel or another agent: the first
\* decision counts, later ones are refused.
Resolve(d) ==
    /\ pendingApproval /\ decision = None
    /\ decision' = d /\ accepted' = Append(accepted, d)
    /\ UNCHANGED <<batchAt, batch, apiSession, kind, current, future, result, tail,
                   chatlog, echoVars, pendingApproval, chosen, ranRisky, stopFlag, request>>

\* The polling loop ends: decided, stopped (a rejection of its own, unless one
\* was faster) or past the deadline.  Then the decision is read.
StopWaiting ==
    /\ batchAt = "asking" /\ batchAt' = "decided"
    /\ \/ decision # None /\ UNCHANGED decision
       \/ stopFlag /\ decision' = (IF decision = None THEN "reject" ELSE decision)
       \/ UNCHANGED decision
    /\ chosen' = IF decision' = None THEN "reject" ELSE decision'
    /\ UNCHANGED <<batch, apiSession, kind, current, future, result, tail, chatlog,
                   echoVars, pendingApproval, accepted, ranRisky, stopFlag, request>>

\* The entry is removed, its decision with it; an approved call runs with the safety
\* check off.
ActOnDecision ==
    /\ batchAt = "decided" /\ batchAt' = "serial"
    /\ pendingApproval' = FALSE /\ decision' = None /\ chosen' = None /\ accepted' = <<>>
    /\ IF chosen = "approve"
       THEN Publish("real", Output) /\ ranRisky' = ranRisky \union {accepted}
       ELSE Publish("rejected", Output) /\ UNCHANGED ranRisky
    /\ UNCHANGED <<batch, apiSession, kind, future, echoVars, stopFlag, request>>

-----------------------------------------------------------------------------
(* Ways out of a batch. *)

\* repair_tool_pairs before the next request: the run of results after the
\* assistant message is kept, missing ones are made up in call order and results
\* further down are dropped.
RepairToolPairs(t) ==
    LET run == IF Urgent \in ToSet(t)
               THEN SubSeq(t, 1, (CHOOSE n \in DOMAIN t : t[n] = Urgent) - 1) ELSE t
        missing == Calls \ ToSet(run)
        Nth(n) == CHOOSE c \in missing : Cardinality({d \in missing : d < c}) = n - 1
    IN  [n \in 1 .. Len(run) |-> <<run[n], result[run[n]]>>]
        \o [n \in 1 .. Cardinality(missing) |-> <<Nth(n), "interrupted">>]

\* All calls answered: the guard closes, Check B ends the turn of a stopped
\* session, and otherwise the messages go to the model, repaired.
EndBatch ==
    /\ batchAt = "serial" /\ current > NumCalls
    /\ CloseGuard(chatlog)
    /\ batchAt' = IF stopFlag THEN "ended" ELSE "idle"
    /\ stopFlag' = FALSE
    /\ request' = RepairToolPairs(tail)
    /\ UNCHANGED <<batch, apiSession, kind, current, future, result, tail, echoing,
                   approvalVars>>

\* A result gate, or calls past the force-stop grace, end the turn in the middle:
\* the calls that are left have no output.
LeaveBatch ==
    /\ batchAt = "serial" /\ current > 1
    /\ \/ kind[current - 1] = "read"
       \/ result[current - 1] \in {"real", "rejected"} /\ ~(kind[current - 1] = "risky" /\ apiSession)
    /\ batchAt' = "ended"
    /\ CloseGuard(chatlog)
    /\ UNCHANGED <<batch, apiSession, kind, current, future, result, tail, echoing,
                   approvalVars, stopFlag, request>>

StopBatch ==
    /\ batchAt \notin {"idle", "ended"} /\ ~stopFlag /\ stopFlag' = TRUE
    /\ UNCHANGED <<batchAt, batch, apiSession, kind, current, future, result, tail,
                   chatlog, echoVars, approvalVars, request>>

BatchStep ==
    \/ BeginBatch \/ Collect \/ CollectDone \/ SkipCall \/ PublishParallel \/ RunCall
    \/ RejectForApi \/ AskApproval \/ StopWaiting \/ ActOnDecision \/ EndBatch \/ LeaveBatch

BatchNext ==
    \/ BatchStep \/ StopBatch
    \/ \E c \in Calls : WorkerDone(c)
    \/ \E d \in {"approve", "reject"} : Resolve(d)
    \/ \E t \in EchoThreads : EchoEnter(t) \/ EchoAppend(t)

BatchSpec == BatchInit /\ [][BatchNext]_batchVars /\ WF_batchVars(BatchStep)

-----------------------------------------------------------------------------
(* Properties. *)

\* No chat row of a tool or a thread lies between the calls of a batch and an
\* output of it, but rows whose thread had passed the guard before the batch.
EchoFollowsOutputs ==
    \A e, o \in DOMAIN chatlog :
        /\ chatlog[e].what = "echo" /\ chatlog[o].what = "output" /\ e < o
        /\ \E k \in 1 .. e : chatlog[k] = [what |-> "call", batch |-> chatlog[o].batch]
        => chatlog[e].batch < chatlog[o].batch

\* A risky call runs on the approval of somebody else, given while it waited, with
\* no second opinion accepted: stops, deadlines and late decisions do not run it.
RiskyCallWasApproved == ranRisky \subseteq {<<"approve">>}

\* The model is told, in call order, what its calls came to, but for results
\* after a force-stop message in the middle of a batch.
ResultsReachTheModel ==
    request # <<>> =>
        \/ Urgent \in ToSet(tail)
        \/ request = [c \in Calls |-> <<c, result[c]>>]

\* What the log shows and what the model is told agree on a batch: both hold it
\* whole, whichever threads were abandoned and whatever they echo.
BatchIsToldWhole == EchoFollowsOutputs /\ ResultsReachTheModel

\* A batch ends, though nobody decides and workers never return.
BatchEnds == batchAt \notin {"idle", "ended"} ~> batchAt \in {"idle", "ended"}
=============================================================================
