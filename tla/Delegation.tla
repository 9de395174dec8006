------------------------------ MODULE Delegation ------------------------------
(* One agent, A, delegates to another, B: requests that A sends from its human *)
(* sessions to the one inter-agent session it has with B, callers that wait    *)
(* for the reply, the listener that forwards B's answer, and the questions B   *)
(* escalates to the person behind the request.                                 *)
EXTENDS Naturals, Sequences, FiniteSets, SequencesExt

CONSTANTS
    HumanSessions,  \* A's sessions with people
    Requests,       \* send_agent_message calls
    Questions,      \* escalate_to_user calls
    MaxTurnsOfB     \* bound: turns B runs

NoSession == "none"

ASSUME SessionAssumption == NoSession \notin HumanSessions

VARIABLES
    origin,     \* human session a request was sent from
    waiter,     \* of each request: where the call that waits for its reply is
    registry,   \* _WAIT_REGISTRY
    reqLog,     \* requests in B's session, the newest last
    taskB,      \* B's session has a queued task
    turnB,      \* B's turn runs
    turnsB,     \* turns B has begun
    answers,    \* final_answer events the listener has not handled
    inbox,      \* forwarded replies of each human session: the requests they name
    question,   \* of each question: its session, its status and whether it was shown
    asked,      \* questions, the newest row last
    onScreen,   \* history: questions a session has been shown, the newest last
    resumedBy   \* history: questions whose answer resumed B

delegVars == <<origin, waiter, registry, reqLog, taskB, turnB, turnsB, answers, inbox,
               question, asked, onScreen, resumedBy>>

Unasked == [session |-> NoSession, status |-> "new"]
QuestionStatus == {"new", "delivering", "pending", "cancelled", "expired", "answered"}
LiveWaiter == {"registered", "waiting", "woken"}
WaiterState == LiveWaiter \union {"none", "replied", "timed_out", "failed", "async"}
Pending(h) == {q \in Questions : question[q] = [session |-> h, status |-> "pending"]}

DelegTypeOK ==
    /\ origin \in [Requests -> HumanSessions \union {NoSession}]
    /\ waiter \in [Requests -> WaiterState]
    /\ registry \subseteq Requests /\ reqLog \in Seq(Requests)
    /\ turnsB \in 0 .. MaxTurnsOfB /\ answers \in 0 .. MaxTurnsOfB
    /\ \A h \in HumanSessions : inbox[h] \subseteq Requests
    /\ question \in [Questions -> [session : HumanSessions \union {NoSession},
                                  status : QuestionStatus]]

DelegInit ==
    /\ origin = [r \in Requests |-> NoSession]
    /\ waiter = [r \in Requests |-> "none"] /\ registry = {}
    /\ reqLog = <<>> /\ taskB = FALSE /\ turnB = FALSE /\ turnsB = 0 /\ answers = 0
    /\ inbox = [h \in HumanSessions |-> {}]
    /\ question = [q \in Questions |-> Unasked] /\ asked = <<>>
    /\ onScreen = [h \in HumanSessions |-> <<>>] /\ resumedBy = {}

-----------------------------------------------------------------------------
(* _exec_send_agent_message, past its guards. *)

\* The reply queue is registered before the message is sent.
Register(r, h, wait) ==
    /\ origin[r] = NoSession
    /\ origin' = [origin EXCEPT ![r] = h]
    /\ waiter' = [waiter EXCEPT ![r] = IF wait THEN "registered" ELSE "async"]
    /\ registry' = IF wait THEN registry \union {r} ELSE registry
    /\ UNCHANGED <<reqLog, taskB, turnB, turnsB, answers, inbox, question, asked,
                   onScreen, resumedBy>>

Unsent(r) == origin[r] # NoSession /\ waiter[r] \in {"registered", "async"}
             /\ r \notin Range(reqLog)

\* notify_agent fails or raises: the entry is taken back.
DeliveryFails(r) ==
    /\ Unsent(r)
    /\ waiter' = [waiter EXCEPT ![r] = "failed"]
    /\ registry' = registry \ {r}
    /\ UNCHANGED <<origin, reqLog, taskB, turnB, turnsB, answers, inbox, question, asked,
                   onScreen, resumedBy>>

\* notify_agent: the request is a row of B's session; a running turn is given it
\* as an injection, otherwise a task is queued.
Deliver(r) ==
    /\ Unsent(r)
    /\ reqLog' = Append(reqLog, r)
    /\ taskB' = (taskB \/ ~turnB)
    /\ waiter' = [waiter EXCEPT ![r] = IF @ = "registered" THEN "waiting" ELSE @]
    /\ UNCHANGED <<origin, registry, turnB, turnsB, answers, inbox, question, asked,
                   onScreen, resumedBy>>

\* The wait: the reply, or wait_timeout; the finally clause takes the entry out.
Woken(r) ==
    /\ waiter[r] = "woken" /\ r \in Range(reqLog)
    /\ waiter' = [waiter EXCEPT ![r] = "replied"] /\ registry' = registry \ {r}
    /\ UNCHANGED <<origin, reqLog, taskB, turnB, turnsB, answers, inbox, question, asked,
                   onScreen, resumedBy>>

WaitTimesOut(r) ==
    /\ waiter[r] = "waiting"
    /\ waiter' = [waiter EXCEPT ![r] = "timed_out"] /\ registry' = registry \ {r}
    /\ UNCHANGED <<origin, reqLog, taskB, turnB, turnsB, answers, inbox, question, asked,
                   onScreen, resumedBy>>

-----------------------------------------------------------------------------
(* B. *)

BeginTurnB ==
    /\ taskB /\ ~turnB /\ turnsB < MaxTurnsOfB
    /\ taskB' = FALSE /\ turnB' = TRUE /\ turnsB' = turnsB + 1
    /\ UNCHANGED <<origin, waiter, registry, reqLog, answers, inbox, question, asked,
                   onScreen, resumedBy>>

AnswerOfB ==
    /\ turnB
    /\ turnB' = FALSE /\ answers' = answers + 1
    /\ UNCHANGED <<origin, waiter, registry, reqLog, taskB, turnsB, inbox, question, asked,
                   onScreen, resumedBy>>

\* _on_final_answer: the newest request of the session tells whom the answer is
\* for; a live question of the person there keeps it from being forwarded.
Forward ==
    /\ answers > 0 /\ answers' = answers - 1
    /\ LET r == Last(reqLog)
           h == origin[r]
       IN /\ registry' = registry \ {r}
          /\ waiter' = [waiter EXCEPT ![r] = IF r \in registry THEN "woken" ELSE @]
          /\ inbox' = IF Pending(h) = {} THEN [inbox EXCEPT ![h] = @ \union {r}] ELSE inbox
    /\ UNCHANGED <<origin, reqLog, taskB, turnB, turnsB, question, asked, onScreen, resumedBy>>

-----------------------------------------------------------------------------
(* escalate_to_user and the person's answer. *)

\* Of the earlier questions of the session only those on their way are cancelled.
MutCreateQuestion(q) ==
    /\ turnB /\ question[q] = Unasked /\ reqLog # <<>>
    /\ LET h == origin[Last(reqLog)]
       IN question' = [p \in Questions |->
              IF p = q THEN [session |-> h, status |-> "delivering"]
              ELSE IF question[p] = [session |-> h, status |-> "delivering"]
                   THEN [question[p] EXCEPT !.status = "cancelled"]
                   ELSE question[p]]
    /\ asked' = Append(asked, q)
    /\ UNCHANGED <<origin, waiter, registry, reqLog, taskB, turnB, turnsB, answers, inbox,
                   onScreen, resumedBy>>

\* create_user_escalation: the newest question of a session cancels the others.
CreateQuestion(q) ==
    /\ turnB /\ question[q] = Unasked /\ reqLog # <<>>
    /\ LET h == origin[Last(reqLog)]
       IN question' = [p \in Questions |->
              IF p = q THEN [session |-> h, status |-> "delivering"]
              ELSE IF question[p].session = h /\ question[p].status \in {"delivering", "pending"}
                   THEN [question[p] EXCEPT !.status = "cancelled"]
                   ELSE question[p]]
    /\ asked' = Append(asked, q)
    /\ UNCHANGED <<origin, waiter, registry, reqLog, taskB, turnB, turnsB, answers, inbox,
                   onScreen, resumedBy>>

\* notify_agent shows the question; only then is it marked pending, unless a
\* newer one cancelled it meanwhile.
ShowQuestion(q) ==
    /\ question[q].status \in {"delivering", "cancelled"}
    /\ \A h \in HumanSessions : q \notin Range(onScreen[h])
    /\ onScreen' = [onScreen EXCEPT ![question[q].session] = Append(@, q)]
    /\ UNCHANGED <<origin, waiter, registry, reqLog, taskB, turnB, turnsB, answers, inbox,
                   question, asked, resumedBy>>

MarkDelivered(q) ==
    /\ question[q].status = "delivering" /\ q \in Range(onScreen[question[q].session])
    /\ question' = [question EXCEPT ![q].status = "pending"]
    /\ UNCHANGED <<origin, waiter, registry, reqLog, taskB, turnB, turnsB, answers, inbox,
                   asked, onScreen, resumedBy>>

\* The question could not be delivered, or nobody answers it for a day.
CancelQuestion(q) ==
    /\ question[q].status = "delivering"
    /\ question' = [question EXCEPT ![q].status = "cancelled"]
    /\ UNCHANGED <<origin, waiter, registry, reqLog, taskB, turnB, turnsB, answers, inbox,
                   asked, onScreen, resumedBy>>

QuestionExpires(q) ==
    /\ question[q].status = "pending"
    /\ question' = [question EXCEPT ![q].status = "expired"]
    /\ UNCHANGED <<origin, waiter, registry, reqLog, taskB, turnB, turnsB, answers, inbox,
                   asked, onScreen, resumedBy>>

\* route_pending_escalation_reply: what a person writes in the session answers
\* its newest pending question and resumes B; it is no turn of A's.
HumanReply(h) ==
    /\ Pending(h) # {}
    /\ \E q \in Pending(h) :
          /\ \A p \in Pending(h) \ {q} : \E i, j \in DOMAIN asked :
                                            asked[i] = p /\ asked[j] = q /\ i < j
          /\ question' = [question EXCEPT ![q].status = "answered"]
          /\ resumedBy' = resumedBy \union {q}
    /\ taskB' = (taskB \/ ~turnB)
    /\ UNCHANGED <<origin, waiter, registry, reqLog, turnB, turnsB, answers, inbox, asked,
                   onScreen>>

DelegStep ==
    \/ BeginTurnB \/ AnswerOfB \/ Forward
    \/ \E r \in Requests : Deliver(r) \/ Woken(r) \/ WaitTimesOut(r)

DelegNext ==
    \/ DelegStep
    \/ \E r \in Requests : DeliveryFails(r)
          \/ \E h \in HumanSessions, wait \in BOOLEAN : Register(r, h, wait)
    \/ \E q \in Questions : CreateQuestion(q) \/ ShowQuestion(q) \/ MarkDelivered(q)
                            \/ CancelQuestion(q) \/ QuestionExpires(q)
    \/ \E h \in HumanSessions : HumanReply(h)

DelegSpec == DelegInit /\ [][DelegNext]_delegVars /\ WF_delegVars(DelegStep)

-----------------------------------------------------------------------------
(* Properties. *)

\* No reply queue outlives the call that reads it, and a call that waits and has
\* no reply is still in the registry, or nobody could wake it.
WaitersAreRegistered ==
    \A r \in Requests :
        /\ r \in registry => waiter[r] \in LiveWaiter
        /\ waiter[r] \in {"registered", "waiting"} => r \in registry

\* "A plain reply cannot disambiguate multiple outstanding questions in one session.
\* The newest escalation therefore supersedes older ones": the question whose answer
\* resumes B is the newest that was asked in its session, one that is still being
\* delivered, was cancelled or has expired included.
ReplyAnswersNewestQuestion ==
    [][\A q \in resumedBy' \ resumedBy :
          \E i \in DOMAIN asked :
              /\ asked[i] = q
              /\ \A j \in DOMAIN asked : question[asked[j]].session = question[q].session
                                        => j <= i]_delegVars

\* A reply reaches the session its request came from: "delivered to the exact
\* session".  It does not when two people's requests share B's turns.
ReplyReachesItsSession ==
    answers = 0 /\ ~turnB /\ ~taskB /\ Questions = {} =>
        \A r \in Range(reqLog) : r \in inbox[origin[r]]
=============================================================================
