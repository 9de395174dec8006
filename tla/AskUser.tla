------------------------------- MODULE AskUser -------------------------------
(* ask_user_question and QuestionRegistry: the tool that waits for an answer, *)
(* the two request threads (web page and Telegram) that answer or dismiss the *)
(* question, a message typed in the chat, a stop, and the switch that turns   *)
(* the tool off.                                                              *)
EXTENDS Naturals

CONSTANT MaxTyped  \* bound on messages the user types

ASSUME AskAssumption == MaxTyped \in Nat

VARIABLES
    asking,     \* the tool: "before", "waiting", "deciding", "removing" or "over"
    question,   \* the registry: "none", "open", "answered", "dismissed" or "removed"
    woken,      \* the event of the question
    broke,      \* why the wait ended without the event
    inbox,      \* messages in the inject queue of the session
    typed,      \* messages typed so far
    stopAsked, enabled,
    answerer,   \* of each request thread: what it has done, and what it was told
    outcome,    \* the status the model receives
    inTime      \* history: what the registry accepted before the tool made up its mind

askVars == <<asking, question, woken, broke, inbox, typed, stopAsked, enabled, answerer,
             outcome, inTime>>

Answerers == {"web", "telegram"}

AskTypeOK ==
    /\ asking \in {"before", "waiting", "deciding", "removing", "over"}
    /\ question \in {"none", "open", "answered", "dismissed", "removed"}
    /\ broke \in {"none", "cancelled", "disabled", "replied_in_chat"}
    /\ outcome \in {"none", "answered", "dismissed", "cancelled", "disabled", "replied_in_chat"}
    /\ inbox \in 0 .. typed
    /\ answerer \in [Answerers -> {"idle", "wake", "accepted", "refused"}]

AskInit ==
    /\ asking = "before" /\ question = "none" /\ woken = FALSE /\ broke = "none"
    /\ inbox = 0 /\ typed = 0 /\ stopAsked = FALSE /\ enabled = TRUE
    /\ answerer = [a \in Answerers |-> "idle"]
    /\ outcome = "none" /\ inTime = "none"

-----------------------------------------------------------------------------
(* execute. *)

\* A tool that is off, or a turn that was stopped, asks nothing.
AskNothing ==
    /\ asking = "before" /\ (~enabled \/ stopAsked)
    /\ asking' = "over" /\ outcome' = IF enabled THEN "cancelled" ELSE "disabled"
    /\ UNCHANGED <<question, woken, broke, inbox, typed, stopAsked, enabled, answerer, inTime>>

Ask ==
    /\ asking = "before" /\ enabled /\ ~stopAsked
    /\ asking' = "waiting" /\ question' = "open"
    /\ UNCHANGED <<woken, broke, inbox, typed, stopAsked, enabled, answerer, outcome, inTime>>

AskWoken ==
    /\ asking = "waiting" /\ woken /\ asking' = "deciding"
    /\ UNCHANGED <<question, woken, broke, inbox, typed, stopAsked, enabled, answerer, outcome,
                   inTime>>

\* Each poll looks for a stop, then at the switch, then at the inject queue,
\* where it leaves what it finds.
Polled ==
    /\ asking = "waiting" /\ (stopAsked \/ ~enabled \/ inbox > 0)
    /\ asking' = "deciding"
    /\ broke' = IF stopAsked THEN "cancelled" ELSE IF ~enabled THEN "disabled" ELSE "replied_in_chat"
    /\ UNCHANGED <<question, woken, inbox, typed, stopAsked, enabled, answerer, outcome, inTime>>

\* The reason of the wait's end wins over an answer.
MutDecide ==
    /\ asking = "deciding" /\ asking' = "removing"
    /\ outcome' = IF broke # "none" THEN broke ELSE question
    /\ UNCHANGED <<question, woken, broke, inbox, typed, stopAsked, enabled, answerer, inTime>>

\* An answer that came before the tool looks wins over the reason of the wait's end.
Decide ==
    /\ asking = "deciding" /\ asking' = "removing"
    /\ outcome' = IF question \in {"answered", "dismissed"} THEN question ELSE broke
    /\ UNCHANGED <<question, woken, broke, inbox, typed, stopAsked, enabled, answerer, inTime>>

RemoveQuestion ==
    /\ asking = "removing" /\ asking' = "over" /\ question' = "removed"
    /\ UNCHANGED <<woken, broke, inbox, typed, stopAsked, enabled, answerer, outcome, inTime>>

-----------------------------------------------------------------------------
(* QuestionRegistry.answer and dismiss, and the user. *)

\* Under the lock: a question that is gone, or was answered or closed, is refused.
Submit(a, how) ==
    /\ answerer[a] = "idle" /\ asking # "before"
    /\ IF question = "open"
       THEN /\ question' = how /\ answerer' = [answerer EXCEPT ![a] = "wake"]
            /\ inTime' = IF asking \in {"waiting", "deciding"} THEN how ELSE inTime
       ELSE answerer' = [answerer EXCEPT ![a] = "refused"] /\ UNCHANGED <<question, inTime>>
    /\ UNCHANGED <<asking, woken, broke, inbox, typed, stopAsked, enabled, outcome>>

\* The event is set after the lock is released.
Wake(a) ==
    /\ answerer[a] = "wake" /\ woken' = TRUE
    /\ answerer' = [answerer EXCEPT ![a] = "accepted"]
    /\ UNCHANGED <<asking, question, broke, inbox, typed, stopAsked, enabled, outcome, inTime>>

Type ==
    /\ typed < MaxTyped /\ typed' = typed + 1 /\ inbox' = inbox + 1
    /\ UNCHANGED <<asking, question, woken, broke, stopAsked, enabled, answerer, outcome, inTime>>

StopAsked ==
    /\ ~stopAsked /\ stopAsked' = TRUE
    /\ UNCHANGED <<asking, question, woken, broke, inbox, typed, enabled, answerer, outcome, inTime>>

SwitchOff ==
    /\ enabled /\ enabled' = FALSE
    /\ UNCHANGED <<asking, question, woken, broke, inbox, typed, stopAsked, answerer, outcome, inTime>>

AskNext ==
    \/ AskNothing \/ Ask \/ AskWoken \/ Polled \/ Decide \/ RemoveQuestion
    \/ \E a \in Answerers : Wake(a) \/ \E how \in {"answered", "dismissed"} : Submit(a, how)
    \/ Type \/ StopAsked \/ SwitchOff

AskSpec == AskInit /\ [][AskNext]_askVars

-----------------------------------------------------------------------------
(* Properties. *)

\* Whatever ended the wait - a stop, the switch, a message in the chat - what the
\* user answered before the tool looked is what the model is told, and of two
\* answers only one was accepted.
AnswerInTimeCounts ==
    /\ outcome # "none" /\ inTime # "none" => outcome = inTime
    /\ \E a \in Answerers : answerer[a] \in {"idle", "refused"}
=============================================================================
