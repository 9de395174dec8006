------------------------ MODULE RealtimeJournalProofs ------------------------
(***************************************************************************)
(* A browser that is not told to reload has every event up to its cursor,   *)
(* for any number of turns, emitters, events and any page size.             *)
(*                                                                         *)
(* NoSilentGap is not inductive.  What carries it from a page to the next   *)
(* is that an open stream knows of every loss above its cursor              *)
(* (LossesAreSeen, which the replay floor establishes when the stream is    *)
(* opened) and that a page leaves nothing out below its last event          *)
(* (PageIsNext).                                                            *)
(***************************************************************************)
EXTENDS RealtimeJournal, FiniteSetTheorems, SequenceTheorems, TLAPS

Gone(e) == events[e].state \in {"expired", "deleted"}

CursorIsKnown == cursor <= HighWater
LossesAreSeen == IsOpen => \A e \in Ids : e > cursor /\ Gone(e) => e \in lost
PageIsNext ==
  stream.pc = "send" =>
    /\ stream.page # {}
    /\ \A p \in stream.page :
         cursor < p /\ \A e \in Ids : cursor < e /\ e < p => e \in stream.page \union lost

BrowserInv == CursorIsKnown /\ LossesAreSeen /\ PageIsNext /\ NoSilentGap

\* Only a turn that was started has events, in the journal or on their way.
TurnsAreStarted ==
  /\ \A e \in Ids : events[e].turn # None => row[events[e].turn] # "none"
  /\ \A x \in Emitter : emitter[x].turn # None => row[emitter[x].turn] # "none"

RowInv == TurnsAreStarted /\ LiveTurnIsReplayable

IInv == TypeOK /\ FloorCoversDeleted /\ BrowserInv /\ RowInv

-----------------------------------------------------------------------------
\* Every nonempty set of numbers has a least one: among the segments below its
\* members one has no proper part that is another.
LEMMA LeastElement ==
  ASSUME NEW S \in SUBSET Nat, S # {}
  PROVE  \E n \in S : \A k \in S : n <= k
<1> DEFINE Segments == {1..n : n \in S}
<1>1. Segments \subseteq FiniteSubsetsOf(Nat)
  <2> SUFFICES ASSUME NEW n \in S PROVE 1..n \in FiniteSubsetsOf(Nat)
    OBVIOUS
  <2>1. IsFiniteSet(1..n)
    BY FS_Interval
  <2>2. QED
    BY <2>1 DEF FiniteSubsetsOf
<1>2. PICK s \in Segments : \A r \in Segments : <<r, s>> \notin StrictSubsetOrdering(Nat)
  <2>1. Segments # {}
    OBVIOUS
  <2> HIDE DEF Segments
  <2>2. QED
    BY <1>1, <2>1, FS_StrictSubsetOrderingWellFounded, WFMin
<1>3. PICK n \in S : s = 1..n
  OBVIOUS
<1>4. ASSUME NEW k \in S, k < n PROVE FALSE
  <2>1. 1..k \in Segments /\ 1..k \subseteq 1..n /\ n \in 1..n /\ n \notin 1..k
    BY <1>4
  <2>4. 1..k \in SUBSET Nat /\ 1..n \in SUBSET Nat
    OBVIOUS
  <2>2. <<1..k, s>> \in StrictSubsetOrdering(Nat)
    BY <1>3, <2>1, <2>4 DEF StrictSubsetOrdering
  <2>3. QED
    BY <1>2, <2>1, <2>2
<1>5. QED
  BY <1>4

\* Min and Max are what their names say, on the sets they are used for here.
LEMMA MinIsLeast ==
  ASSUME NEW S \in SUBSET Nat, S # {}
  PROVE  Min(S) \in S /\ \A k \in S : Min(S) <= k
BY LeastElement DEF Min

\* A bounded set is counted down from its bound.
LEMMA MaxIsGreatest ==
  ASSUME NEW n \in Nat, NEW S \in SUBSET (0..n), S # {}
  PROVE  Max(S) \in S /\ \A k \in S : k <= Max(S)
<1> DEFINE T == {n - k : k \in S}
<1>1. T \in SUBSET Nat /\ T # {}
  OBVIOUS
<1>2. PICK t \in T : \A k \in T : t <= k
  <2> HIDE DEF T
  <2>1. QED BY <1>1, LeastElement
<1>3. PICK m \in S : t = n - m
  OBVIOUS
<1>4. \A k \in S : m >= k
  BY <1>2, <1>3
<1>5. QED
  BY <1>4 DEF Max

\* The highest of some events is one of them and above the others, or 0.
LEMMA HighestIsGreatest ==
  ASSUME NEW n \in Nat, NEW S \in SUBSET (1..n)
  PROVE  /\ Highest(S) \in 0..n
         /\ S # {} => Highest(S) \in S
         /\ S = {} => Highest(S) = 0
         /\ \A k \in S : k <= Highest(S)
<1>1. CASE S = {}
  BY <1>1 DEF Highest
<1>2. CASE S # {}
  <2>1. S \in SUBSET (0..n)
    OBVIOUS
  <2>2. Max(S) \in S /\ \A k \in S : k <= Max(S)
    BY <1>2, <2>1, MaxIsGreatest
  <2>3. QED
    BY <1>2, <2>1, <2>2 DEF Highest
<1>3. QED
  BY <1>1, <1>2

\* The floor is advanced set by set: the result is the highest of them all.
LEMMA HighestOfUnion ==
  ASSUME NEW n \in Nat, NEW S \in SUBSET (1..n), NEW T \in SUBSET (1..n)
  PROVE  Max({Highest(S), Highest(T)}) = Highest(S \union T)
<1>1. /\ {Highest(S), Highest(T)} \subseteq 0..n
      /\ S \union T \in SUBSET (1..n)
  BY HighestIsGreatest
<1>2. /\ Max({Highest(S), Highest(T)}) \in {Highest(S), Highest(T)}
      /\ Max({Highest(S), Highest(T)}) >= Highest(S)
      /\ Max({Highest(S), Highest(T)}) >= Highest(T)
  BY <1>1, MaxIsGreatest
<1>3. CASE S \union T = {}
  BY <1>2, <1>3, HighestIsGreatest
<1>4. CASE S \union T # {}
  <2>1. /\ Highest(S \union T) \in S \union T
        /\ \A k \in S \union T : k <= Highest(S \union T)
    BY <1>1, <1>4, HighestIsGreatest
  <2>2. \A k \in S \union T : k <= Max({Highest(S), Highest(T)})
    BY <1>1, <1>2, HighestIsGreatest
  <2>3. Max({Highest(S), Highest(T)}) \in S \union T
    BY <1>1, <1>2, <1>4, HighestIsGreatest
  <2>4. \A k \in S \union T : k \in Nat
    OBVIOUS
  <2>5. Max({Highest(S), Highest(T)}) <= Highest(S \union T)
    BY <2>1, <2>3
  <2>6. Highest(S \union T) <= Max({Highest(S), Highest(T)})
    BY <2>1, <2>2
  <2>7. Max({Highest(S), Highest(T)}) \in Nat /\ Highest(S \union T) \in Nat
    BY <2>1, <2>3, <2>4
  <2> HIDE DEF Highest
  <2>8. QED
    BY <2>5, <2>6, <2>7
<1>5. QED
  BY <1>3, <1>4

-----------------------------------------------------------------------------
Event == [turn : Turn \union {None}, state : {"kept", "dated", "expired", "deleted"}]

\* The journal is a sequence, and its ids are the numbers up to its length.
LEMMA IdsAreNumbers ==
  ASSUME TypeOK
  PROVE  /\ HighWater \in Nat /\ Ids = 1..HighWater
         /\ events \in [Ids -> Event]
         /\ \A s : InState(s) \in SUBSET (1..HighWater)
<1>1. events \in Seq(Event)
  BY DEF TypeOK, Event
<1>2. QED
  BY <1>1, LenProperties DEF Ids, HighWater, InState

\* A change of the states of the events leaves the ids alone.
LEMMA StatesChange ==
  ASSUME TypeOK, events' \in [Ids -> Event]
  PROVE  /\ events' \in Seq([turn : Turn \union {None},
                             state : {"kept", "dated", "expired", "deleted"}])
         /\ HighWater' = HighWater /\ Ids' = Ids
<1>1. events' \in Seq(Event) /\ Len(events') \in Nat /\ DOMAIN events' = 1..Len(events')
  BY IdsAreNumbers, SeqDef, LenProperties
<1>2. QED
  BY <1>1, IdsAreNumbers DEF Ids, HighWater, Event

\* An event at the end of the journal has the next id.
LEMMA EventAppended ==
  ASSUME TypeOK, NEW ev \in Event, events' = Append(events, ev)
  PROVE  /\ events' \in Seq([turn : Turn \union {None},
                             state : {"kept", "dated", "expired", "deleted"}])
         /\ HighWater' = HighWater + 1 /\ Ids' = Ids \union {HighWater + 1}
         /\ HighWater + 1 \notin Ids
         /\ events'[HighWater + 1] = ev /\ \A e \in Ids : events'[e] = events[e]
<1>1. events \in Seq(Event)
  BY DEF TypeOK, Event
<1>2. QED
  BY <1>1, IdsAreNumbers, AppendProperties, LenProperties DEF Ids, HighWater, Event

-----------------------------------------------------------------------------
(* The types *)

\* The journal starts empty.
LEMMA InitIsTyped == Init => TypeOK
BY EmptySeq DEF Init, TypeOK, IdleEmitter, Closed, Ids

\* The ids that Delete marks keep their turns.
LEMMA DeleteIsTyped ==
  ASSUME TypeOK, NEW S, Delete(S)
  PROVE  /\ events' \in [Ids -> Event]
         /\ \A e \in Ids : /\ events'[e].turn = events[e].turn
                           /\ events'[e].state = IF e \in S THEN "deleted" ELSE events[e].state
BY IdsAreNumbers DEF Delete, Event

\* A purge takes events that exist.
LEMMA PurgeIsBounded ==
  ASSUME TypeOK
  PROVE  Purgeable \in SUBSET (1..HighWater)
BY IdsAreNumbers DEF Purgeable

\* The floor is a number, also after a clean-up or a purge.
LEMMA FloorAdvances ==
  ASSUME TypeOK, FloorCoversDeleted, NEW S \in SUBSET (1..HighWater), AdvanceFloor(S)
  PROVE  /\ floor' = Highest(InState("deleted") \union S)
         /\ floor' \in Nat
<1>1. floor' = Highest(InState("deleted") \union S)
  BY IdsAreNumbers, HighestOfUnion DEF AdvanceFloor, FloorCoversDeleted
<1>2. InState("deleted") \union S \in SUBSET (1..HighWater)
  BY IdsAreNumbers
<1>3. QED
  BY <1>1, <1>2, IdsAreNumbers, HighestIsGreatest

\* Every step keeps the types; Send needs to know that its page is not empty.
LEMMA NextIsTyped == IInv /\ [Next]_vars => TypeOK'
<1> SUFFICES ASSUME IInv, [Next]_vars PROVE TypeOK'
  OBVIOUS
<1> USE DEF IInv
<1>t. TypeOK
  OBVIOUS
<1>1. ASSUME NEW t \in Turn, StartTurn(t) PROVE TypeOK'
  BY <1>1 DEF StartTurn, TypeOK, browser, Ids
<1>2. ASSUME NEW t \in Turn, FinishTurn(t) PROVE TypeOK'
  <2>1. events' \in [Ids -> Event]
    BY <1>2, IdsAreNumbers DEF FinishTurn, Event
  <2>2. QED
    BY <1>2, <2>1, StatesChange DEF FinishTurn, TypeOK, browser
<1>3. ASSUME NEW x \in Emitter, LookUpTurn(x) PROVE TypeOK'
  BY <1>3 DEF LookUpTurn, TypeOK, browser, Ids
<1>4. ASSUME NEW x \in Emitter, Publish(x) PROVE TypeOK'
  <2>1. PICK ev \in Event : events' = Append(events, ev)
    BY <1>4 DEF Publish, Event, TypeOK
  <2>2. QED
    BY <1>4, <2>1, EventAppended DEF Publish, TypeOK, browser
<1>5. ASSUME NEW x \in Emitter, Notify(x) PROVE TypeOK'
  BY <1>5 DEF Notify, TypeOK, browser, Ids, IdleEmitter
<1>6. ASSUME NEW e \in Ids, Expire(e) PROVE TypeOK'
  <2>1. events' \in [Ids -> Event]
    BY <1>6, IdsAreNumbers DEF Expire, Event
  <2>2. QED
    BY <1>6, <2>1, StatesChange DEF Expire, TypeOK, browser, MarkLost
<1>7. CASE Cleanup
  <2>1. events' \in [Ids -> Event] /\ floor' \in Nat
    BY <1>7, DeleteIsTyped, FloorAdvances, IdsAreNumbers DEF Cleanup
  <2>2. QED
    BY <1>7, <2>1, StatesChange DEF Cleanup, TypeOK, browser
<1>8. CASE PurgeSession
  <2>1. events' \in [Ids -> Event] /\ floor' \in Nat
    BY <1>8, DeleteIsTyped, FloorAdvances, PurgeIsBounded DEF PurgeSession
  <2>2. Purgeable \subseteq Ids
    BY DEF Purgeable
  <2>3. QED
    BY <1>8, <2>1, <2>2, StatesChange DEF PurgeSession, TypeOK, browser, MarkLost
<1>9. CASE Connect
  BY <1>9, IdsAreNumbers DEF Connect, TypeOK, browser, Ids
<1>10. CASE Poll
  <2> DEFINE news == {e \in Visible : e > cursor}
             page == {e \in news : Cardinality({d \in news : d < e}) < PageSize}
  <2>1. page \subseteq Ids
    BY DEF Visible, InState
  <2>2. stream' = [pc |-> IF page = {} THEN "wait" ELSE "send", upTo |-> HighWater, page |-> page]
    BY <1>10 DEF Poll
  <2> HIDE DEF page
  <2>3. QED
    BY <1>10, <2>1, <2>2, IdsAreNumbers DEF Poll, TypeOK, browser, Ids
<1>11. CASE Send
  <2>1. stream.page \in SUBSET Nat /\ stream.page \subseteq Ids /\ stream.page # {}
    BY <1>11, IdsAreNumbers DEF Send, TypeOK, BrowserInv, PageIsNext
  <2>2. Min(stream.page) \in Ids /\ Min(stream.page) \in Nat
    BY <2>1, MinIsLeast
  <2>3. QED
    BY <1>11, <2>1, <2>2 DEF Send, TypeOK, Ids
<1>12. CASE Wait
  BY <1>12 DEF Wait, TypeOK, browser, Ids
<1>13. CASE Heartbeat
  BY <1>13 DEF Heartbeat, TypeOK, browser, Ids
<1>14. CASE Disconnect
  BY <1>14 DEF Disconnect, TypeOK, browser, Ids, Closed
<1>15. CASE UNCHANGED vars
  BY <1>15 DEF vars, TypeOK, browser, Ids
<1>16. QED
  BY <1>1, <1>2, <1>3, <1>4, <1>5, <1>6, <1>7, <1>8, <1>9, <1>10, <1>11, <1>12, <1>13,
     <1>14, <1>15 DEF Next, Emit, Serve

-----------------------------------------------------------------------------
(* The replay floor *)

\* An action that deletes no event, and leaves the floor, keeps them together.
LEMMA NothingDeleted ==
  ASSUME FloorCoversDeleted, floor' = floor, InState("deleted")' = InState("deleted")
  PROVE  FloorCoversDeleted'
BY DEF FloorCoversDeleted, Highest

\* Only Cleanup and PurgeSession delete, and both advance the floor.
LEMMA FloorKept == IInv /\ [Next]_vars => FloorCoversDeleted'
<1> SUFFICES ASSUME IInv, [Next]_vars PROVE FloorCoversDeleted'
  OBVIOUS
<1> USE DEF IInv
<1>1. CASE UNCHANGED <<events, floor>>
  BY <1>1, NothingDeleted DEF InState, Ids
<1>2. ASSUME NEW t \in Turn, FinishTurn(t) PROVE FloorCoversDeleted'
  <2>1. events' \in [Ids -> Event]
    BY <1>2, IdsAreNumbers DEF FinishTurn, Event
  <2>2. \A e \in Ids : events'[e].state = "deleted" <=> events[e].state = "deleted"
    BY <1>2, IdsAreNumbers DEF FinishTurn, Event
  <2>3. InState("deleted")' = InState("deleted")
    BY <2>1, <2>2, StatesChange DEF InState
  <2>4. QED
    BY <1>2, <2>3, NothingDeleted DEF FinishTurn
<1>3. ASSUME NEW x \in Emitter, Publish(x) PROVE FloorCoversDeleted'
  <2>1. PICK ev \in Event : events' = Append(events, ev) /\ ev.state # "deleted"
    BY <1>3 DEF Publish, Event, TypeOK
  <2>2. InState("deleted")' = InState("deleted")
    BY <2>1, EventAppended DEF InState
  <2>3. QED
    BY <1>3, <2>2, NothingDeleted DEF Publish
<1>4. ASSUME NEW e \in Ids, Expire(e) PROVE FloorCoversDeleted'
  <2>1. events' \in [Ids -> Event] /\ events[e].state = "dated" /\ events'[e].state = "expired"
        /\ \A d \in Ids : d # e => events'[d] = events[d]
    BY <1>4, IdsAreNumbers DEF Expire, Event
  <2>2. InState("deleted")' = InState("deleted")
    BY <2>1, StatesChange DEF InState
  <2>3. QED
    BY <1>4, <2>2, NothingDeleted DEF Expire
<1>5. ASSUME NEW S \in SUBSET (1..HighWater), Delete(S), AdvanceFloor(S)
      PROVE  FloorCoversDeleted'
  <2>1. InState("deleted")' = InState("deleted") \union S
    <3>1. Ids' = Ids /\ S \subseteq Ids
      BY <1>5, DeleteIsTyped, StatesChange, IdsAreNumbers
    <3>2. \A e \in Ids : events'[e].state = "deleted" <=> events[e].state = "deleted" \/ e \in S
      BY <1>5, DeleteIsTyped
    <3>3. QED
      BY <3>1, <3>2 DEF InState
  <2>2. floor' = Highest(InState("deleted") \union S)
    BY <1>5, FloorAdvances
  <2>3. QED
    BY <2>1, <2>2 DEF FloorCoversDeleted, Highest
<1>6. CASE Cleanup
  BY <1>5, <1>6, IdsAreNumbers DEF Cleanup
<1>7. CASE PurgeSession
  BY <1>5, <1>7, PurgeIsBounded DEF PurgeSession
<1>8. QED
  BY <1>1, <1>2, <1>3, <1>4, <1>6, <1>7
     DEF Next, Emit, Serve, StartTurn, LookUpTurn, Notify, Connect, Poll, Send, Wait,
         Heartbeat, Disconnect, vars

-----------------------------------------------------------------------------
(* The events of turns in progress *)

\* Only events that are not of a turn in progress are touched.
LEMMA RowKept == IInv /\ [Next]_vars => RowInv'
<1> SUFFICES ASSUME IInv, [Next]_vars PROVE RowInv'
  OBVIOUS
<1> USE DEF IInv, RowInv
<1>n. None \notin Turn
  BY JournalAssumption
<1>1. CASE UNCHANGED <<events, row, emitter>>
  BY <1>1 DEF TurnsAreStarted, LiveTurnIsReplayable, Live, Ids
<1>2. ASSUME NEW t \in Turn, StartTurn(t) PROVE RowInv'
  <2>1. \A u \in Turn : row'[u] = IF u = t THEN "running" ELSE row[u]
    BY <1>2 DEF StartTurn, TypeOK
  <2>2. \A e \in Ids : events[e].turn # t
    BY <1>2, <1>n DEF StartTurn, TurnsAreStarted
  <2>3. /\ \A e \in Ids : events[e].turn \in Turn \union {None}
        /\ \A x \in Emitter : emitter[x].turn \in Turn \union {None}
    BY IdsAreNumbers DEF Event, TypeOK
  <2>4. TurnsAreStarted'
    BY <1>2, <2>1, <2>3 DEF StartTurn, TurnsAreStarted, Ids
  <2>5. LiveTurnIsReplayable'
    BY <1>2, <2>1, <2>2, <2>3 DEF StartTurn, LiveTurnIsReplayable, Live, Ids
  <2>6. QED
    BY <2>4, <2>5
<1>3. ASSUME NEW t \in Turn, FinishTurn(t) PROVE RowInv'
  <2>1. events' \in [Ids -> Event]
    BY <1>3, IdsAreNumbers DEF FinishTurn, Event
  <2>2. \A u \in Turn : row'[u] = IF u = t THEN "gone" ELSE row[u]
    BY <1>3 DEF FinishTurn, TypeOK
  <2>3. \A e \in Ids : /\ events'[e].turn = events[e].turn
                       /\ events[e].turn # t => events'[e] = events[e]
    BY <1>3, IdsAreNumbers DEF FinishTurn, Event
  <2>4. /\ \A e \in Ids : events[e].turn \in Turn \union {None}
        /\ \A x \in Emitter : emitter[x].turn \in Turn \union {None}
    BY IdsAreNumbers DEF Event, TypeOK
  <2>5. emitter' = emitter /\ Ids' = Ids
    BY <1>3, <2>1, StatesChange DEF FinishTurn
  <2>6. TurnsAreStarted'
    BY <2>2, <2>3, <2>4, <2>5 DEF TurnsAreStarted
  <2>7. LiveTurnIsReplayable'
    BY <2>2, <2>3, <2>4, <2>5 DEF LiveTurnIsReplayable, Live
  <2>8. QED
    BY <2>6, <2>7
<1>4. ASSUME NEW x \in Emitter, LookUpTurn(x) PROVE RowInv'
  BY <1>4 DEF LookUpTurn, TurnsAreStarted, LiveTurnIsReplayable, Live, Ids, TypeOK
<1>5. ASSUME NEW x \in Emitter, Publish(x) PROVE RowInv'
  <2> DEFINE t == emitter[x].turn
             ev == [turn |-> t, state |-> IF t = None THEN "dated" ELSE "kept"]
  <2>1. ev \in Event /\ events' = Append(events, ev)
    BY <1>5 DEF Publish, Event, TypeOK
  <2>2. row' = row /\ \A y \in Emitter : emitter'[y].turn = emitter[y].turn
    BY <1>5 DEF Publish, TypeOK
  <2>3. /\ Ids' = Ids \union {HighWater + 1} /\ events'[HighWater + 1] = ev
        /\ \A e \in Ids : events'[e] = events[e]
    BY <2>1, EventAppended
  <2>4. QED
    BY <2>2, <2>3 DEF TurnsAreStarted, LiveTurnIsReplayable, Live
<1>6. ASSUME NEW x \in Emitter, Notify(x) PROVE RowInv'
  BY <1>6 DEF Notify, IdleEmitter, TurnsAreStarted, LiveTurnIsReplayable, Live, Ids, TypeOK
<1>7. ASSUME NEW e \in Ids, Expire(e) PROVE RowInv'
  <2>1. events' \in [Ids -> Event] /\ events[e].state = "dated"
        /\ events'[e].turn = events[e].turn
        /\ \A d \in Ids : d # e => events'[d] = events[d]
    BY <1>7, IdsAreNumbers DEF Expire, Event
  <2>2. UNCHANGED <<row, emitter>> /\ Ids' = Ids
    BY <1>7, <2>1, StatesChange DEF Expire
  <2>3. QED
    BY <2>1, <2>2 DEF TurnsAreStarted, LiveTurnIsReplayable, Live
<1>8. ASSUME NEW S, Delete(S), UNCHANGED <<row, emitter>>, \A e \in S \cap Ids : ~Live(events[e].turn)
      PROVE  RowInv'
  <2>1. events' \in [Ids -> Event]
        /\ \A e \in Ids : /\ events'[e].turn = events[e].turn
                          /\ events'[e].state = IF e \in S THEN "deleted" ELSE events[e].state
    BY <1>8, DeleteIsTyped
  <2>2. Ids' = Ids
    BY <2>1, StatesChange
  <2>3. QED
    BY <1>8, <2>1, <2>2 DEF TurnsAreStarted, LiveTurnIsReplayable, Live
<1>9. CASE Cleanup
  <2>1. \A e \in InState("expired") : ~Live(events[e].turn)
    BY DEF InState, LiveTurnIsReplayable
  <2>2. QED
    BY <1>8, <1>9, <2>1 DEF Cleanup
<1>10. CASE PurgeSession
  BY <1>8, <1>10 DEF PurgeSession, Purgeable
<1>11. QED
  BY <1>1, <1>2, <1>3, <1>4, <1>5, <1>6, <1>7, <1>9, <1>10
     DEF Next, Emit, Serve, Connect, Poll, Send, Wait, Heartbeat, Disconnect, vars

-----------------------------------------------------------------------------
(* What the browser has *)

\* A change of states that records what an open stream loses keeps the
\* browser's part of the invariant.
LEMMA LossesRecorded ==
  ASSUME TypeOK, BrowserInv, events' \in [Ids -> Event],
         UNCHANGED <<stream, cursor, since, got>>, lost \subseteq lost',
         \A e \in Ids : IsOpen /\ ~Gone(e) /\ events'[e].state \in {"expired", "deleted"}
                          => e \in lost'
  PROVE  BrowserInv'
<1>1. HighWater' = HighWater /\ Ids' = Ids
  BY StatesChange
<1>2. CursorIsKnown'
  BY <1>1 DEF BrowserInv, CursorIsKnown
<1>3. LossesAreSeen'
  BY <1>1 DEF BrowserInv, LossesAreSeen, IsOpen, Gone
<1>4. PageIsNext'
  BY <1>1 DEF BrowserInv, PageIsNext
<1>5. NoSilentGap'
  BY <1>1 DEF BrowserInv, NoSilentGap
<1>6. QED
  BY <1>2, <1>3, <1>4, <1>5 DEF BrowserInv

\* An event with a new id is above the cursor and above every page.
LEMMA PublishKeepsBrowser ==
  ASSUME IInv, NEW x \in Emitter, Publish(x)
  PROVE  BrowserInv'
<1>1. PICK ev \in Event : events' = Append(events, ev) /\ ev.state \in {"kept", "dated"}
  BY DEF Publish, Event, TypeOK, IInv
<1>2. /\ HighWater' = HighWater + 1 /\ Ids' = Ids \union {HighWater + 1}
      /\ events'[HighWater + 1] = ev /\ \A e \in Ids : events'[e] = events[e]
  BY <1>1, EventAppended DEF IInv
<1>3. UNCHANGED <<stream, cursor, since, got, lost>>
  BY DEF Publish, browser
<1>4. /\ HighWater \in Nat /\ cursor \in Nat /\ cursor <= HighWater
      /\ \A p \in stream.page : p \in Nat /\ p <= HighWater
  BY IdsAreNumbers DEF IInv, TypeOK, BrowserInv, CursorIsKnown
<1>5. CursorIsKnown'
  BY <1>2, <1>3, <1>4 DEF CursorIsKnown
<1>6. LossesAreSeen'
  BY <1>1, <1>2, <1>3 DEF IInv, BrowserInv, LossesAreSeen, IsOpen, Gone
<1>7. PageIsNext'
  BY <1>2, <1>3, <1>4 DEF IInv, BrowserInv, PageIsNext
<1>8. NoSilentGap'
  BY <1>2, <1>3, <1>4 DEF IInv, BrowserInv, NoSilentGap
<1>9. QED
  BY <1>5, <1>6, <1>7, <1>8 DEF BrowserInv

\* A stream is opened only with a cursor that is not below what is gone.
LEMMA ConnectKeepsBrowser ==
  ASSUME IInv, Connect
  PROVE  BrowserInv'
<1>1. events' = events /\ Ids' = Ids /\ HighWater' = HighWater
  BY DEF Connect, Ids, HighWater
<1>2. HighWater \in Nat /\ Ids = 1..HighWater /\ cursor \in Nat /\ stream.pc = "closed"
  BY IdsAreNumbers DEF Connect, IInv, TypeOK
<1>3. CASE cursor < ReplayFloor
  <2>1. cursor' = HighWater /\ since' = HighWater /\ stream' = stream
    BY <1>3 DEF Connect
  <2>2. QED
    BY <1>1, <1>2, <2>1 DEF BrowserInv, CursorIsKnown, LossesAreSeen, PageIsNext, NoSilentGap, IsOpen
<1>4. CASE ~(cursor < ReplayFloor)
  <2>1. stream'.pc = "poll" /\ UNCHANGED <<cursor, since, got, lost>>
    BY <1>4 DEF Connect, browser, IInv, TypeOK
  <2>2. ReplayFloor = Highest(InState("deleted") \union InState("expired"))
    BY IdsAreNumbers, HighestOfUnion DEF ReplayFloor, IInv, FloorCoversDeleted
  <2>3. \A e \in Ids : Gone(e) => e <= ReplayFloor
    <3>1. InState("deleted") \union InState("expired") \in SUBSET (1..HighWater)
      BY IdsAreNumbers DEF IInv
    <3>2. \A e \in Ids : Gone(e) => e \in InState("deleted") \union InState("expired")
      BY DEF Gone, InState
    <3>3. QED
      BY <1>2, <2>2, <3>1, <3>2, HighestIsGreatest
  <2>4. ReplayFloor \in Nat
    <3>1. InState("deleted") \union InState("expired") \in SUBSET (1..HighWater)
      BY IdsAreNumbers DEF IInv
    <3>2. QED
      BY <1>2, <2>2, <3>1, HighestIsGreatest
  <2>5. \A e \in Ids : Gone(e) => e <= cursor
    BY <1>2, <1>4, <2>3, <2>4
  <2>6. LossesAreSeen'
    BY <1>1, <1>2, <2>1, <2>5 DEF LossesAreSeen, Gone
  <2>7. QED
    BY <1>1, <2>1, <2>6 DEF IInv, BrowserInv, CursorIsKnown, PageIsNext, NoSilentGap
<1>5. QED
  BY <1>3, <1>4

\* A page is the lowest of the events that are there: what it skips is gone.
LEMMA PollKeepsBrowser ==
  ASSUME IInv, Poll
  PROVE  BrowserInv'
<1> DEFINE news == {e \in Visible : e > cursor}
           below(e) == {d \in news : d < e}
           page == {e \in news : Cardinality(below(e)) < PageSize}
<1>1. /\ stream'.pc = (IF page = {} THEN "wait" ELSE "send") /\ stream'.page = page
      /\ UNCHANGED <<events, cursor, since, got, lost>> /\ stream.pc = "poll"
      /\ Ids' = Ids /\ HighWater' = HighWater
  BY DEF Poll, browser, Ids, HighWater
<1>2. /\ HighWater \in Nat /\ Ids = 1..HighWater /\ cursor \in Nat
      /\ news \subseteq 1..HighWater /\ PageSize \in Nat
  BY IdsAreNumbers, JournalAssumption DEF IInv, TypeOK, Visible
<1>3. ASSUME NEW p \in page, NEW e \in Ids, cursor < e, e < p
      PROVE  e \in page \union lost
  <2>1. CASE e \in news
    <3>1. below(e) \subseteq below(p)
      BY <1>2, <1>3
    <3>2. below(p) \subseteq 1..HighWater /\ IsFiniteSet(1..HighWater)
      BY <1>2, FS_Interval
    <3>3. IsFiniteSet(below(p))
      BY <3>2, FS_Subset
    <3>4. /\ Cardinality(below(e)) \in Nat /\ Cardinality(below(p)) \in Nat
          /\ Cardinality(below(e)) <= Cardinality(below(p))
      BY <3>1, <3>3, FS_Subset, FS_CardinalityType
    <3>5. Cardinality(below(p)) < PageSize
      OBVIOUS
    <3>6. Cardinality(below(e)) < PageSize
      BY <1>2, <3>4, <3>5
    <3>7. QED
      BY <2>1, <3>6
  <2>2. CASE e \notin news
    <3>1. Gone(e)
      BY <1>2, <1>3, <2>2, IdsAreNumbers DEF Visible, InState, Gone, Event, IInv
    <3>2. QED
      BY <1>1, <1>2, <1>3, <3>1 DEF IInv, BrowserInv, LossesAreSeen, IsOpen
  <2>3. QED
    BY <2>1, <2>2
<1>4. \A p \in page : cursor < p
  BY <1>2
<1> HIDE DEF page
<1>5. PageIsNext'
  BY <1>1, <1>3, <1>4 DEF PageIsNext
<1>6. LossesAreSeen'
  BY <1>1 DEF IInv, BrowserInv, LossesAreSeen, IsOpen, Gone
<1>7. QED
  BY <1>1, <1>5, <1>6 DEF IInv, BrowserInv, CursorIsKnown, NoSilentGap

\* The lowest event of the page goes first: nothing below it is missing.
LEMMA SendKeepsBrowser ==
  ASSUME IInv, Send
  PROVE  BrowserInv'
<1> DEFINE e == Min(stream.page)
           rest == stream.page \ {e}
<1>1. /\ stream.pc = "send" /\ stream.page # {} /\ stream.page \subseteq Ids
      /\ HighWater \in Nat /\ Ids = 1..HighWater /\ cursor \in Nat
  BY IdsAreNumbers DEF Send, IInv, TypeOK, BrowserInv, PageIsNext
<1>2. e \in stream.page /\ \A p \in stream.page : e <= p
  <2>1. stream.page \in SUBSET Nat
    BY <1>1
  <2>2. QED
    BY <1>1, <2>1, MinIsLeast
<1>3. /\ cursor' = e /\ got' = got \union {e} /\ UNCHANGED <<events, since, lost>>
      /\ stream'.page = rest /\ stream'.pc = (IF rest = {} THEN "poll" ELSE "send")
      /\ Ids' = Ids /\ HighWater' = HighWater
  BY DEF Send, IInv, TypeOK, Ids, HighWater
<1>4. /\ e \in Ids /\ cursor < e
      /\ \A d \in Ids : cursor < d /\ d < e => d \in lost
  <2>1. \A d \in Ids : cursor < d /\ d < e => d \in stream.page \union lost
    BY <1>1, <1>2 DEF IInv, BrowserInv, PageIsNext
  <2>2. QED
    BY <1>1, <1>2, <2>1 DEF IInv, BrowserInv, PageIsNext
<1> HIDE DEF e
<1>5. CursorIsKnown'
  BY <1>1, <1>3, <1>4 DEF CursorIsKnown
<1>6. LossesAreSeen'
  BY <1>1, <1>3, <1>4 DEF IInv, BrowserInv, LossesAreSeen, IsOpen, Gone
<1>7. PageIsNext'
  <2> SUFFICES ASSUME stream'.pc = "send"
               PROVE  /\ rest # {}
                      /\ \A p \in rest : e < p /\ \A d \in Ids :
                           e < d /\ d < p => d \in rest \union lost
    BY <1>3 DEF PageIsNext
  <2>1. ASSUME NEW p \in rest PROVE e < p /\ p \in stream.page
    BY <1>1, <1>2, <1>4
  <2>2. ASSUME NEW p \in rest, NEW d \in Ids, e < d, d < p PROVE d \in rest \union lost
    BY <1>1, <1>4, <2>1, <2>2 DEF IInv, BrowserInv, PageIsNext
  <2>3. QED
    BY <1>3, <2>1, <2>2
<1>8. NoSilentGap'
  <2> SUFFICES ASSUME NEW d \in Ids, since < d, d <= e PROVE d \in got \union {e} \union lost
    BY <1>3 DEF NoSilentGap
  <2>1. d <= cursor \/ (cursor < d /\ d < e) \/ d = e
    BY <1>1, <1>4
  <2>2. QED
    BY <1>4, <2>1 DEF IInv, BrowserInv, NoSilentGap
<1>9. QED
  BY <1>5, <1>6, <1>7, <1>8 DEF BrowserInv

\* Steps of the stream that deliver nothing, and steps outside it.
LEMMA OthersKeepBrowser ==
  ASSUME IInv, UNCHANGED <<events, cursor, since, got, lost>>,
         \/ stream' = stream
         \/ stream'.pc # "send" /\ (IsOpen \/ stream'.pc = "closed")
  PROVE  BrowserInv'
BY DEF IInv, BrowserInv, CursorIsKnown, LossesAreSeen, PageIsNext, NoSilentGap, IsOpen, Gone,
       Ids, HighWater

\* Every step keeps what is known of the stream and its cursor.
LEMMA BrowserKept == IInv /\ [Next]_vars => BrowserInv'
<1> SUFFICES ASSUME IInv, [Next]_vars PROVE BrowserInv'
  OBVIOUS
<1> USE DEF IInv
<1>1. CASE UNCHANGED <<events, stream, browser, lost>>
  BY <1>1, OthersKeepBrowser DEF browser
<1>2. ASSUME NEW t \in Turn, FinishTurn(t) PROVE BrowserInv'
  <2>1. /\ events' \in [Ids -> Event]
        /\ \A e \in Ids : events'[e].state \in {"expired", "deleted"} => Gone(e)
    BY <1>2, IdsAreNumbers DEF FinishTurn, Event, Gone
  <2>2. QED
    BY <1>2, <2>1, LossesRecorded DEF FinishTurn, browser
<1>3. ASSUME NEW x \in Emitter, Publish(x) PROVE BrowserInv'
  BY <1>3, PublishKeepsBrowser
<1>4. ASSUME NEW x \in Emitter, Notify(x) PROVE BrowserInv'
  BY <1>4, OthersKeepBrowser DEF Notify, browser, TypeOK, IsOpen
<1>5. ASSUME NEW e \in Ids, Expire(e) PROVE BrowserInv'
  <2>1. /\ events' \in [Ids -> Event]
        /\ \A d \in Ids : d # e => events'[d] = events[d]
    BY <1>5, IdsAreNumbers DEF Expire, Event
  <2>2. lost \subseteq lost' /\ (IsOpen => e \in lost')
    BY <1>5 DEF Expire, MarkLost
  <2>3. QED
    BY <1>5, <2>1, <2>2, LossesRecorded DEF Expire, browser, Gone
<1>6. CASE Cleanup
  <2>1. /\ events' \in [Ids -> Event]
        /\ \A e \in Ids : events'[e].state \in {"expired", "deleted"} => Gone(e)
    BY <1>6, DeleteIsTyped DEF Cleanup, Gone, InState
  <2>2. QED
    BY <1>6, <2>1, LossesRecorded DEF Cleanup, browser
<1>7. CASE PurgeSession
  <2>1. /\ events' \in [Ids -> Event]
        /\ \A e \in Ids : events'[e].state \in {"expired", "deleted"} => Gone(e) \/ e \in Purgeable
    BY <1>7, DeleteIsTyped DEF PurgeSession, Gone
  <2>2. lost \subseteq lost' /\ (IsOpen => Purgeable \subseteq lost')
    BY <1>7 DEF PurgeSession, MarkLost
  <2>3. QED
    BY <1>7, <2>1, <2>2, LossesRecorded DEF PurgeSession, browser
<1>8. CASE Wait \/ Heartbeat \/ Disconnect
  BY <1>8, OthersKeepBrowser DEF Wait, Heartbeat, Disconnect, Closed, browser, TypeOK, IsOpen
<1>9. QED
  BY <1>1, <1>2, <1>3, <1>4, <1>5, <1>6, <1>7, <1>8,
     ConnectKeepsBrowser, PollKeepsBrowser, SendKeepsBrowser
     DEF Next, Emit, Serve, StartTurn, LookUpTurn, vars

-----------------------------------------------------------------------------
\* At the start there is no event, no turn and no stream.
LEMMA InitEstablishesInv == Init => IInv
<1> SUFFICES ASSUME Init PROVE IInv
  OBVIOUS
<1>1. Ids = {} /\ HighWater = 0
  BY EmptySeq DEF Init, Ids, HighWater
<1>2. FloorCoversDeleted
  BY <1>1 DEF Init, FloorCoversDeleted, InState, Highest
<1>3. BrowserInv
  BY <1>1 DEF Init, Closed, BrowserInv, CursorIsKnown, LossesAreSeen, PageIsNext, NoSilentGap
<1>4. RowInv
  BY <1>1 DEF Init, IdleEmitter, RowInv, TurnsAreStarted, LiveTurnIsReplayable
<1>5. QED
  BY <1>2, <1>3, <1>4, InitIsTyped DEF IInv

\* The invariant that the theorems below are read off.
LEMMA JournalInvariant == Spec => []IInv
<1>1. IInv /\ [Next]_vars => IInv'
  BY NextIsTyped, FloorKept, BrowserKept, RowKept DEF IInv
<1>2. QED
  BY <1>1, InitEstablishesInv, PTL DEF Spec

\* A browser that is not told to reload its history misses no event below its
\* cursor but those that expired or were purged under its own open stream, over
\* any number of reconnects (replay_floor, events_after and Last-Event-ID).
THEOREM NothingIsSkipped == Spec => []NoSilentGap
<1>1. IInv => NoSilentGap
  BY DEF IInv, BrowserInv
<1>2. QED
  BY <1>1, JournalInvariant, PTL

\* The stored floor is exactly the highest id ever deleted, whatever clean-ups
\* and purges came in whatever order (_advance_floor).
THEOREM FloorIsExact == Spec => []FloorCoversDeleted
<1>1. IInv => FloorCoversDeleted
  BY DEF IInv
<1>2. QED
  BY <1>1, JournalInvariant, PTL

\* No event of a turn in progress expires, is cleaned up or is purged: a browser
\* that reconnects can rebuild the turn (publish, purge_session, finish_turn).
THEOREM LiveTurnIsKept == Spec => []LiveTurnIsReplayable
<1>1. IInv => LiveTurnIsReplayable
  BY DEF IInv, RowInv
<1>2. QED
  BY <1>1, JournalInvariant, PTL
=============================================================================
