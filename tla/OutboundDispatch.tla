--------------------------- MODULE OutboundDispatch ---------------------------
(* WhatsAppOutboundDispatcher, the queue of one chat: the threads that queue   *)
(* text, the worker that is created on demand and ends when the queue is      *)
(* drained, the outbound quota and the restriction of the account that put an *)
(* item back, and shutdown.  Text is merged while its pool window is open.    *)
EXTENDS Naturals, Sequences, SequencesExt

CONSTANTS
    Texts,      \* texts to be queued, numbered in the order in which they are
    FinalTexts  \* those that end an answer (is_final)

ASSUME DispatchAssumption == Texts \subseteq Nat \ {0} /\ FinalTexts \subseteq Texts

VARIABLES
    toSend,     \* next text to be queued
    chatQueue,  \* items of the chat: their texts, final or not, complete or put back
    poolOpen,   \* the pool deadline of the chat has not passed
    registered, \* _workers has an entry of the chat
    wPlace,     \* the worker: "none", "look", "deliver", "requeue", "exit" or "dead"
    wItem,      \* the texts it took from the queue
    restricted, \* the account must not send (_restriction_until)
    running,    \* _running
    sent,       \* texts handed to the bridge, in order
    given       \* history: texts of items that could not be sent and are given up

dispatchVars == <<toSend, chatQueue, poolOpen, registered, wPlace, wItem, restricted,
                  running, sent, given>>

\* An item that was put back has no is_final and no queued_at.
Item(texts, final) == [texts |-> texts, final |-> final, whole |-> TRUE]
PutBack(texts) == [texts |-> texts, final |-> FALSE, whole |-> FALSE]
TextsOf(q) == FlattenSeq([i \in DOMAIN q |-> q[i].texts])

DispatchTypeOK ==
    /\ toSend \in Nat
    /\ \A i \in DOMAIN chatQueue : Range(chatQueue[i].texts) \subseteq Texts
    /\ wPlace \in {"none", "look", "deliver", "requeue", "exit", "dead"}
    /\ wPlace \in {"look", "deliver", "requeue", "exit", "dead"} => registered
    /\ Range(sent) \subseteq Texts /\ given \subseteq Texts

DispatchInit ==
    /\ toSend = 1 /\ chatQueue = <<>> /\ poolOpen = FALSE
    /\ registered = FALSE /\ wPlace = "none" /\ wItem = <<>>
    /\ restricted = FALSE /\ running = TRUE /\ sent = <<>> /\ given = {}

-----------------------------------------------------------------------------
(* enqueue, under the lock of the chat. *)

\* The text joins the last item while the pool is open, or is an item of its own.
Pooled(t) ==
    IF chatQueue # <<>> /\ poolOpen
    THEN LET n == Len(chatQueue)
         IN [chatQueue EXCEPT ![n].texts = Append(@, t), ![n].final = @ \/ t \in FinalTexts]
    ELSE Append(chatQueue, Item(<<t>>, t \in FinalTexts))

\* The absorbed text is put behind the final one.
MutAbsorbed(q) ==
    LET finals == {i \in DOMAIN q : q[i].final}
        first  == CHOOSE i \in finals : \A j \in finals : i <= j
    IN IF finals = {} \/ Len(q) < 2 THEN q
       ELSE <<Item(q[first].texts \o TextsOf(SubSeq(q, 1, first - 1)), TRUE)>>
            \o SubSeq(q, first + 1, Len(q))

\* A final text takes the intermediate items up to the first final one with it.
Absorbed(q) ==
    LET finals == {i \in DOMAIN q : q[i].final}
        first  == CHOOSE i \in finals : \A j \in finals : i <= j
    IN IF finals = {} \/ Len(q) < 2 THEN q
       ELSE <<[q[first] EXCEPT !.texts = TextsOf(SubSeq(q, 1, first))]>>
            \o SubSeq(q, first + 1, Len(q))

\* An item that was put back at the head breaks the search for a final one:
\* what was taken out of the queue by then is lost, and the caller gets an error.
Enqueue ==
    /\ toSend \in Texts /\ toSend' = toSend + 1
    /\ IF ~running THEN UNCHANGED <<chatQueue, poolOpen, registered, wPlace, given>>
       ELSE LET q == Pooled(toSend)
                broken == toSend \in FinalTexts /\ Len(q) >= 2 /\ ~q[1].whole /\ ~q[1].final
            IN IF broken
               THEN /\ chatQueue' = Tail(q) /\ given' = given \union Range(q[1].texts)
                    /\ UNCHANGED <<poolOpen, registered, wPlace>>
               ELSE /\ chatQueue' = IF toSend \in FinalTexts THEN Absorbed(q) ELSE q
                    /\ poolOpen' = TRUE /\ registered' = TRUE
                    /\ wPlace' = IF registered THEN wPlace ELSE "look"
                    /\ UNCHANGED given
    /\ UNCHANGED <<wItem, restricted, running, sent>>

PoolCloses ==
    /\ poolOpen /\ poolOpen' = FALSE
    /\ UNCHANGED <<toSend, chatQueue, registered, wPlace, wItem, restricted, running, sent, given>>

-----------------------------------------------------------------------------
(* _worker. *)

\* An empty queue ends the worker; both locks are held, so that the next text
\* starts another one.
WorkerFindsNothing ==
    /\ wPlace = "look" /\ running /\ ~restricted /\ chatQueue = <<>>
    /\ registered' = FALSE /\ wPlace' = "none"
    /\ UNCHANGED <<toSend, chatQueue, poolOpen, wItem, restricted, running, sent, given>>

\* _pop_ready_impl: the items at the head that are final or whose window is over;
\* an item that was put back has no age, and the worker dies of it.
Ready(i) == chatQueue[i].final \/ ~poolOpen
WorkerTakes ==
    /\ wPlace = "look" /\ running /\ ~restricted /\ chatQueue # <<>>
    /\ IF ~chatQueue[1].whole
       THEN wPlace' = "dead" /\ UNCHANGED <<chatQueue, wItem>>
       ELSE \E n \in 1 .. Len(chatQueue) :
              /\ \A i \in 1 .. n : Ready(i) /\ chatQueue[i].whole
              /\ n < Len(chatQueue) => ~Ready(n + 1)
              /\ wItem' = TextsOf(SubSeq(chatQueue, 1, n))
              /\ chatQueue' = SubSeq(chatQueue, n + 1, Len(chatQueue))
              /\ wPlace' = "deliver"
    /\ UNCHANGED <<toSend, poolOpen, registered, restricted, running, sent, given>>

\* _deliver: sent, or refused by the bridge and given up.
DeliverText(ok) ==
    /\ wPlace = "deliver" /\ running /\ ~restricted
    /\ sent' = IF ok THEN sent \o wItem ELSE sent
    /\ given' = IF ok THEN given ELSE given \union Range(wItem)
    /\ wItem' = <<>> /\ wPlace' = "look"
    /\ UNCHANGED <<toSend, chatQueue, poolOpen, registered, restricted, running>>

\* No outbound slot, or a restriction that began during the typing delay.
Throttle ==
    /\ wPlace = "deliver" /\ running
    /\ wPlace' = "requeue"
    /\ UNCHANGED <<toSend, chatQueue, poolOpen, registered, wItem, restricted, running, sent, given>>

Requeue ==
    /\ wPlace = "requeue"
    /\ chatQueue' = <<PutBack(wItem)>> \o chatQueue
    /\ wItem' = <<>> /\ wPlace' = "look"
    /\ UNCHANGED <<toSend, poolOpen, registered, restricted, running, sent, given>>

\* A worker that was told to stop drops what it holds.
WorkerStops ==
    /\ \/ wPlace \in {"look", "deliver"} /\ ~running
       \/ wPlace = "exit"
    /\ registered' = FALSE /\ wPlace' = "none"
    /\ given' = given \union Range(wItem) /\ wItem' = <<>>
    /\ UNCHANGED <<toSend, chatQueue, poolOpen, restricted, running, sent>>

PauseSending ==
    /\ ~restricted /\ restricted' = TRUE
    /\ UNCHANGED <<toSend, chatQueue, poolOpen, registered, wPlace, wItem, running, sent, given>>

\* resume_after_restriction: by an operator, or at the deadline.
ResumeSending ==
    /\ restricted /\ restricted' = FALSE
    /\ UNCHANGED <<toSend, chatQueue, poolOpen, registered, wPlace, wItem, running, sent, given>>

ShutDown ==
    /\ running /\ running' = FALSE
    /\ UNCHANGED <<toSend, chatQueue, poolOpen, registered, wPlace, wItem, restricted, sent, given>>

WorkerStep == WorkerFindsNothing \/ WorkerTakes \/ DeliverText(TRUE) \/ Requeue \/ WorkerStops

DispatchNext ==
    \/ WorkerStep \/ Enqueue \/ PoolCloses \/ DeliverText(FALSE) \/ Throttle
    \/ PauseSending \/ ResumeSending \/ ShutDown

\* The worker runs; the quota of the last minute and every restriction pass.
DispatchFairness ==
    /\ WF_dispatchVars(WorkerStep) /\ WF_dispatchVars(PoolCloses)
    /\ WF_dispatchVars(ResumeSending)
    /\ SF_dispatchVars(WorkerTakes) /\ SF_dispatchVars(DeliverText(TRUE))

DispatchSpec == DispatchInit /\ [][DispatchNext]_dispatchVars /\ DispatchFairness

-----------------------------------------------------------------------------
(* Properties. *)

\* A queue with text in it has a worker, but for the one an item that was put
\* back has killed: nobody exits between the look at the queue and the entry.
QueueHasWorker == chatQueue # <<>> /\ running => wPlace \notin {"none", "exit"}

\* The chat reads its texts in the order in which they were queued, each once.
ChatReadsInOrder == \A i, j \in DOMAIN sent : i < j => sent[i] < sent[j]

\* A chat has a worker while it has text, and reads its texts in order.
ChatIsServed == QueueHasWorker /\ ChatReadsInOrder

\* What is queued is sent, or given up because the bridge refused it or the
\* channel stops.
QueuedTextLeaves ==
    \A t \in Texts : t \in Range(TextsOf(chatQueue)) ~>
                         t \in Range(sent) \union given \/ ~running
=============================================================================
