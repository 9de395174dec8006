---------------------------- MODULE RealtimeJournal ----------------------------
(***************************************************************************)
(* The durable journal of one session's realtime events                     *)
(* (backend/realtime_store.py) and a browser that follows it over           *)
(* /api/realtime (routes/realtime.py): publishing, expiry and clean-up, the *)
(* replay floor, and a stream that is dropped and resumed by its cursor.    *)
(*                                                                         *)
(* An event is its id; its payload, its channel and the deletion of live    *)
(* thinking previews are left out.  The one connection, under _conn_lock,   *)
(* makes every method of the store one step; what follows it is another.    *)
(***************************************************************************)
EXTENDS Naturals, Sequences, FiniteSets, FiniteSetsExt

CONSTANTS Turn, None,
          Emitter,     \* threads that emit events
          PageSize,    \* LIMIT of events_after
          MaxEvents    \* bound: events published

ASSUME JournalAssumption ==
  /\ None \notin Turn
  /\ PageSize \in Nat \ {0} /\ MaxEvents \in Nat

VARIABLES
  events,    \* every event ever published, by id: [turn, state]
  floor,     \* realtime_replay_floors of the session
  row,       \* active_turns
  emitter,   \* per thread: [pc, turn]
  stream,    \* the server's side of the connection: [pc, upTo, page]
  cursor,    \* the last event id the browser has (Last-Event-ID)
  since,     \* history: where the browser last loaded the whole session
  got,       \* history: ids the browser was sent since then
  lost       \* history: ids that expired or went while a stream was open

browser == <<cursor, since, got>>
vars == <<events, floor, row, emitter, stream, browser, lost>>

Ids == DOMAIN events
HighWater == Len(events)                       \* sqlite_sequence
InState(s) == {e \in Ids : events[e].state = s}
Visible == InState("kept") \union InState("dated")
Highest(S) == IF S = {} THEN 0 ELSE Max(S)
Live(t) == t # None /\ row[t] = "running"

Closed == [pc |-> "closed", upTo |-> 0, page |-> {}]
IsOpen == stream.pc # "closed"
IdleEmitter == [pc |-> "idle", turn |-> None]

Init ==
  /\ events = <<>> /\ floor = 0
  /\ row = [t \in Turn |-> "none"]
  /\ emitter = [x \in Emitter |-> IdleEmitter]
  /\ stream = Closed
  /\ cursor = 0 /\ since = 0 /\ got = {} /\ lost = {}

\* Events that stop being replayable; a stream that is open misses them.
MarkLost(S) == lost' = IF IsOpen THEN lost \union S ELSE lost

-----------------------------------------------------------------------------
(* Writers *)

StartTurn(t) ==
  /\ row[t] = "none" /\ row' = [row EXCEPT ![t] = "running"]
  /\ UNCHANGED <<events, floor, emitter, stream, browser, lost>>

\* record_internal_event: the event's turn is looked up, then it is published.
LookUpTurn(x) ==
  /\ emitter[x].pc = "idle" /\ HighWater < MaxEvents
  /\ \E t \in Turn \union {None} :
       /\ Live(t) \/ (t = None /\ \A u \in Turn : ~Live(u))
       /\ emitter' = [emitter EXCEPT ![x] = [pc |-> "publish", turn |-> t]]
  /\ UNCHANGED <<events, floor, row, stream, browser, lost>>

\* An event of a turn has no expiry before its turn is finished.
Publish(x) ==
  /\ emitter[x].pc = "publish" /\ HighWater < MaxEvents
  /\ LET t == emitter[x].turn
     IN events' = Append(events, [turn |-> t, state |-> IF t = None THEN "dated" ELSE "kept"])
  /\ emitter' = [emitter EXCEPT ![x].pc = "notify"]
  /\ UNCHANGED <<floor, row, stream, browser, lost>>

\* Nobody is told of the event.
MutNotify(x) ==
  /\ emitter[x].pc = "notify"
  /\ emitter' = [emitter EXCEPT ![x] = IdleEmitter]
  /\ UNCHANGED <<events, floor, row, stream, browser, lost>>

Notify(x) ==
  /\ emitter[x].pc = "notify"
  /\ emitter' = [emitter EXCEPT ![x] = IdleEmitter]
  /\ stream' = IF stream.pc = "asleep" /\ HighWater > stream.upTo
               THEN [stream EXCEPT !.pc = "poll"] ELSE stream
  /\ UNCHANGED <<events, floor, row, browser, lost>>

\* The expiry of all the turn's events is set, and the row deleted.
FinishTurn(t) ==
  /\ row[t] = "running" /\ row' = [row EXCEPT ![t] = "gone"]
  /\ events' = [e \in Ids |->
       IF events[e].turn = t /\ events[e].state # "deleted"
       THEN [events[e] EXCEPT !.state = "dated"] ELSE events[e]]
  /\ UNCHANGED <<floor, emitter, stream, browser, lost>>

-----------------------------------------------------------------------------
(* Expiry, clean-up and purge *)

Expire(e) ==
  /\ events[e].state = "dated"
  /\ events' = [events EXCEPT ![e].state = "expired"]
  /\ MarkLost({e})
  /\ UNCHANGED <<floor, row, emitter, stream, browser>>

Delete(S) == events' = [e \in Ids |-> IF e \in S THEN [events[e] EXCEPT !.state = "deleted"]
                                      ELSE events[e]]
AdvanceFloor(S) == floor' = Max({floor, Highest(S)})

Cleanup ==
  /\ InState("expired") # {}
  /\ Delete(InState("expired")) /\ AdvanceFloor(InState("expired"))
  /\ UNCHANGED <<row, emitter, stream, browser, lost>>

\* Events of a turn in progress survive a purge.
Purgeable == {e \in Ids : events[e].state # "deleted" /\ ~Live(events[e].turn)}

\* The purge takes the turn in progress along.
MutPurgeSession ==
  /\ Ids # {}
  /\ Delete(Ids) /\ AdvanceFloor(Ids) /\ MarkLost(Ids)
  /\ UNCHANGED <<row, emitter, stream, browser>>

\* purge_session; purge_all does the same for every session.
PurgeSession ==
  /\ Purgeable # {}
  /\ Delete(Purgeable) /\ AdvanceFloor(Purgeable) /\ MarkLost(Purgeable)
  /\ UNCHANGED <<row, emitter, stream, browser>>

-----------------------------------------------------------------------------
(* The stream *)

\* What is expired counts as gone although its row is still there.
ReplayFloor == Max({floor, Highest(InState("expired"))})

Connect ==
  /\ stream.pc = "closed"
  /\ IF cursor < ReplayFloor
     THEN \* history_resync_required: the browser loads the history afresh
       /\ cursor' = HighWater /\ since' = HighWater /\ got' = {} /\ lost' = {}
       /\ UNCHANGED stream
     ELSE stream' = [stream EXCEPT !.pc = "poll"] /\ UNCHANGED <<browser, lost>>
  /\ UNCHANGED <<events, floor, row, emitter>>

Poll ==
  /\ stream.pc = "poll"
  /\ LET news == {e \in Visible : e > cursor}
         page == {e \in news : Cardinality({d \in news : d < e}) < PageSize}
     IN stream' = [pc |-> IF page = {} THEN "wait" ELSE "send", upTo |-> HighWater, page |-> page]
  /\ UNCHANGED <<events, floor, row, emitter, browser, lost>>

\* The rest of the page is dropped with the first event that is sent.
MutSend ==
  /\ stream.pc = "send"
  /\ cursor' = Max(stream.page) /\ got' = got \union {Min(stream.page)}
  /\ stream' = [stream EXCEPT !.page = {}, !.pc = "poll"]
  /\ UNCHANGED <<events, floor, row, emitter, since, lost>>

Send ==
  /\ stream.pc = "send"
  /\ LET e == Min(stream.page)
         rest == stream.page \ {e}
     IN /\ cursor' = e /\ got' = got \union {e}
        /\ stream' = [stream EXCEPT !.page = rest, !.pc = IF rest = {} THEN "poll" ELSE "send"]
  /\ UNCHANGED <<events, floor, row, emitter, since, lost>>

\* wait_for_events looks at the high-water mark again before it sleeps.
Wait ==
  /\ stream.pc = "wait"
  /\ stream' = [stream EXCEPT !.pc = IF HighWater > stream.upTo THEN "poll" ELSE "asleep"]
  /\ UNCHANGED <<events, floor, row, emitter, browser, lost>>

Heartbeat ==
  /\ stream.pc = "asleep"
  /\ stream' = [stream EXCEPT !.pc = "poll"]
  /\ UNCHANGED <<events, floor, row, emitter, browser, lost>>

Disconnect ==
  /\ IsOpen /\ stream' = Closed
  /\ UNCHANGED <<events, floor, row, emitter, browser, lost>>

-----------------------------------------------------------------------------
Emit(x) == LookUpTurn(x) \/ Publish(x) \/ Notify(x)
Serve == Poll \/ Send \/ Wait

Next ==
  \/ \E t \in Turn : StartTurn(t) \/ FinishTurn(t)
  \/ \E x \in Emitter : Emit(x)
  \/ \E e \in Ids : Expire(e)
  \/ Cleanup \/ PurgeSession \/ Connect \/ Serve \/ Heartbeat \/ Disconnect

\* A thread that has published goes on to notify, and the generator is driven
\* by its connection.  The heartbeat is not counted on.
Fairness ==
  /\ \A x \in Emitter : WF_vars(Publish(x) \/ Notify(x))
  /\ WF_vars(Serve)

Spec == Init /\ [][Next]_vars /\ Fairness

-----------------------------------------------------------------------------
TypeOK ==
  /\ events \in Seq([turn : Turn \union {None}, state : {"kept", "dated", "expired", "deleted"}])
  /\ floor \in Nat /\ cursor \in Nat /\ since \in Nat
  /\ row \in [Turn -> {"none", "running", "gone"}]
  /\ emitter \in [Emitter -> [pc : {"idle", "publish", "notify"}, turn : Turn \union {None}]]
  /\ stream \in [pc : {"closed", "poll", "send", "wait", "asleep"}, upTo : Nat, page : SUBSET Ids]
  /\ got \subseteq Ids /\ lost \subseteq Ids

\* The floor covers every event that was deleted, and is no higher than the
\* highest one: a cursor at or above it has everything still to come
\* (replay_floor, "Highest session event ID that may no longer be replayable").
FloorCoversDeleted == floor = Highest(InState("deleted"))

\* A browser that was not told to reload has been sent every event up to its
\* cursor, over all its reconnects, but for those that expired or were purged
\* under a stream of its own (cursor, replay floor and page limit together).
NoSilentGap ==
  \A e \in Ids : since < e /\ e <= cursor => e \in got \union lost

\* No event of a turn that is in progress is ever withheld from a replay: until
\* its turn is finished it neither expires nor is cleaned up or purged.
LiveTurnIsReplayable ==
  \A e \in Ids : Live(events[e].turn) => events[e].state = "kept"

\* An event reaches a browser that stays connected without a heartbeat's help.
EventIsDelivered ==
  \A e \in 1..MaxEvents :
    (e \in Ids /\ IsOpen) ~>
      (~IsOpen \/ e \in got \/ e \in lost \/ e <= cursor)
=============================================================================
