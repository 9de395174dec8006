----------------------------- MODULE StoreProofs -----------------------------
(* What outlives a turn: the lock of a session, the rows of turns, monitors,  *)
(* unanswered messages, the runs of the evaluator.  The parts share no        *)
(* variables; each section states the inductive invariant of one.             *)
EXTENDS SessionSweep, TurnReaper, Redelivery, Monitors, Evaluation, FiniteSetTheorems,
        TLAPS

-----------------------------------------------------------------------------
(* A session's lock is with the worker that took it, for any set of workers,  *)
(* any number of sweeps and turns of any length.  That alone is not           *)
(* inductive: a worker that waits must be known to wait for a lock that       *)
(* exists, or its acquisition would set nothing.                              *)

LockWasTaken ==
  \A w \in Worker : w \in InTurn \/ At(w, "locking") => worker[w].lock # 0

IInv == SweepTypeOK /\ LockWasTaken /\ LockIsItsHolders

\* 0 stands for no entry; the objects themselves are numbered from 1.
LEMMA ObjectNumbers ==
  0 \in Object /\ Object \subseteq Nat /\ Object \ {0} = 1..MaxObjects
BY SweepAssumption DEF Object

\* At the start no worker has a lock and no lock has been made.
LEMMA InitEstablishesInv == SweepInit => IInv
<1> SUFFICES ASSUME SweepInit PROVE IInv
  OBVIOUS
<1>1. SweepTypeOK
  <2>1. AtRest \in [pc : {"idle"}, lock : Object, queue : Object]
    BY ObjectNumbers DEF AtRest
  <2>2. worker \in [Worker -> [pc : {"idle", "touching", "looking", "locking", "starting",
                                   "busy", "looping", "leaving"}, lock : Object, queue : Object]]
    BY <2>1 DEF SweepInit
  <2>3. holder \in [1..MaxObjects -> Worker \union {Nobody}]
    BY DEF SweepInit
  <2>4. QED
    BY <2>2, <2>3, ObjectNumbers DEF SweepInit, SweepTypeOK
<1>2. LockWasTaken
  BY DEF SweepInit, LockWasTaken, InTurn, At, AtRest
<1>3. LockIsItsHolders
  BY SweepAssumption DEF SweepInit, LockIsItsHolders, InTurn, AtRest
<1>4. QED
  BY <1>1, <1>2, <1>3 DEF IInv

\* A step that moves one worker between two places on the same side of the
\* lock, and leaves its lock and all holders alone, keeps the invariant.
LEMMA MoveKeepsLocks ==
  ASSUME IInv, NEW w \in Worker, NEW s,
         worker' = [worker EXCEPT ![w].pc = s], UNCHANGED holder,
         \/ w \notin InTurn /\ s \in {"touching", "looking"}
         \/ w \in InTurn /\ s \in {"busy", "leaving"}
  PROVE  LockWasTaken' /\ LockIsItsHolders'
<1>1. \A v \in Worker : worker'[v].lock = worker[v].lock
  BY DEF IInv, SweepTypeOK
<1>2. InTurn' = InTurn
  BY DEF IInv, SweepTypeOK, InTurn
<1>3. \A v \in Worker : At(v, "locking")' => At(v, "locking")
  BY DEF IInv, SweepTypeOK, At
<1>4. QED
  BY <1>1, <1>2, <1>3 DEF IInv, LockWasTaken, LockIsItsHolders

\* A step of the sweep, or of time, touches no worker and no holder.
LEMMA OthersKeepLocks ==
  ASSUME IInv, UNCHANGED <<worker, holder>>
  PROVE  LockWasTaken' /\ LockIsItsHolders'
BY DEF IInv, LockWasTaken, LockIsItsHolders, InTurn, At

\* The entry a worker finds, or makes, is a lock and not yet its own.
LEMMA GetLockKeepsInv ==
  ASSUME IInv, NEW w \in Worker, GetLock(w)
  PROVE  IInv'
<1>1. PICK l \in Object \ {0} :
        worker' = [worker EXCEPT ![w].pc = "locking", ![w].lock = l]
  <2>1. CASE lock # 0
    BY <2>1 DEF GetLock, IInv, SweepTypeOK
  <2>2. CASE lock = 0
    <3>1. locks + 1 \in Object \ {0}
      BY <2>2, SweepAssumption DEF GetLock, IInv, SweepTypeOK, Object
    <3>2. worker' = [worker EXCEPT ![w].pc = "locking", ![w].lock = locks + 1]
      BY <2>2 DEF GetLock
    <3>3. QED
      BY <3>1, <3>2
  <2>3. QED
    BY <2>1, <2>2
<1>2. w \notin InTurn /\ holder' = holder
  BY DEF GetLock, At, InTurn
<1>3. SweepTypeOK'
  BY <1>1, SweepAssumption DEF GetLock, IInv, SweepTypeOK, Object
<1>4. InTurn' = InTurn
  BY <1>1, <1>2 DEF InTurn, IInv, SweepTypeOK
<1>5. \A v \in Worker : v # w => worker'[v] = worker[v]
  BY <1>1 DEF IInv, SweepTypeOK
<1>6. LockWasTaken'
  BY <1>1, <1>4, <1>5 DEF LockWasTaken, At, IInv, SweepTypeOK
<1>7. LockIsItsHolders'
  BY <1>2, <1>4, <1>5 DEF LockIsItsHolders, IInv
<1>8. QED
  BY <1>3, <1>6, <1>7 DEF IInv

\* A free lock has no worker in its turn with it.
LEMMA AcquireLockKeepsInv ==
  ASSUME IInv, NEW w \in Worker, AcquireLock(w)
  PROVE  IInv'
<1> DEFINE l == worker[w].lock
<1>1. l \in 1..MaxObjects /\ holder[l] = Nobody /\ w \notin InTurn
  BY SweepAssumption DEF AcquireLock, IInv, LockWasTaken, SweepTypeOK, Object, At, InTurn
<1>2. holder' = [holder EXCEPT ![l] = w] /\ worker' = [worker EXCEPT ![w].pc = "starting"]
  BY DEF AcquireLock, Go
<1>3. SweepTypeOK'
  BY <1>1, <1>2 DEF AcquireLock, IInv, SweepTypeOK
<1>4. InTurn' = InTurn \union {w}
  BY <1>2 DEF InTurn, IInv, SweepTypeOK
<1>5. \A v \in Worker : worker'[v].lock = worker[v].lock
  BY <1>2 DEF IInv, SweepTypeOK
<1>6. LockWasTaken'
  <2>1. \A v \in Worker : v # w => worker'[v] = worker[v]
    BY <1>2 DEF IInv, SweepTypeOK
  <2>2. QED
    BY <1>1, <1>4, <1>5, <2>1 DEF LockWasTaken, At, IInv
<1>7. LockIsItsHolders'
  <2> SUFFICES ASSUME NEW k \in 1..MaxObjects, NEW v \in Worker
               PROVE  holder'[k] = v <=> v \in InTurn' /\ worker'[v].lock = k
    BY DEF LockIsItsHolders
  <2>1. CASE k = l
    <3>1. v \in InTurn => worker[v].lock # l
      BY <1>1, SweepAssumption DEF IInv, LockIsItsHolders
    <3>2. QED
      BY <1>1, <1>2, <1>4, <1>5, <2>1, <3>1 DEF IInv, SweepTypeOK
  <2>2. CASE k # l
    BY <1>1, <1>2, <1>4, <1>5, <2>2 DEF IInv, SweepTypeOK, LockIsItsHolders
  <2>3. QED
    BY <2>1, <2>2
<1>8. QED
  BY <1>3, <1>6, <1>7 DEF IInv

\* Choosing a queue does not touch the lock.
LEMMA EnterLoopKeepsInv ==
  ASSUME IInv, NEW w \in Worker, EnterLoop(w)
  PROVE  IInv'
<1>1. PICK k \in Object :
        worker' = [worker EXCEPT ![w].pc = "looping", ![w].queue = k]
  <2>1. CASE inject # 0
    BY <2>1 DEF EnterLoop, IInv, SweepTypeOK
  <2>2. CASE inject = 0
    <3>1. queues + 1 \in Object
      BY <2>2, SweepAssumption DEF EnterLoop, IInv, SweepTypeOK, Object
    <3>2. worker' = [worker EXCEPT ![w].pc = "looping", ![w].queue = queues + 1]
      BY <2>2 DEF EnterLoop
    <3>3. QED
      BY <3>1, <3>2
  <2>3. QED
    BY <2>1, <2>2
<1>2. SweepTypeOK'
  BY <1>1, SweepAssumption DEF EnterLoop, IInv, SweepTypeOK, Object
<1>3. \A v \in Worker : worker'[v].lock = worker[v].lock
  BY <1>1 DEF IInv, SweepTypeOK
<1>4. InTurn' = InTurn
  BY <1>1 DEF EnterLoop, At, InTurn, IInv, SweepTypeOK
<1>5. \A v \in Worker : At(v, "locking")' => At(v, "locking")
  BY <1>1 DEF At, IInv, SweepTypeOK
<1>6. holder' = holder
  BY DEF EnterLoop
<1>7. QED
  BY <1>2, <1>3, <1>4, <1>5, <1>6 DEF IInv, LockWasTaken, LockIsItsHolders

\* The lock that is released is the one the worker took.
LEMMA ReleaseLockKeepsInv ==
  ASSUME IInv, NEW w \in Worker, ReleaseLock(w)
  PROVE  IInv'
<1> DEFINE l == worker[w].lock
<1>1. w \in InTurn
  BY DEF ReleaseLock, At, InTurn
<1>2. l \in 1..MaxObjects
  BY <1>1, SweepAssumption DEF IInv, LockWasTaken, SweepTypeOK, Object
<1>3. holder' = [holder EXCEPT ![l] = Nobody] /\ worker' = [worker EXCEPT ![w] = AtRest]
  BY DEF ReleaseLock
<1>4. SweepTypeOK'
  <2>1. AtRest \in [pc : {"idle"}, lock : Object, queue : Object]
    BY ObjectNumbers DEF AtRest
  <2>2. worker' \in [Worker -> [pc : {"idle", "touching", "looking", "locking", "starting",
                                    "busy", "looping", "leaving"}, lock : Object, queue : Object]]
    BY <1>3, <2>1 DEF IInv, SweepTypeOK
  <2>3. holder' \in [1..MaxObjects -> Worker \union {Nobody}]
    BY <1>2, <1>3 DEF IInv, SweepTypeOK
  <2>4. QED
    BY <2>2, <2>3 DEF ReleaseLock, IInv, SweepTypeOK
<1>5. InTurn' = InTurn \ {w}
  BY <1>3 DEF InTurn, IInv, SweepTypeOK, AtRest
<1>6. \A v \in Worker : v # w => worker'[v] = worker[v]
  BY <1>3 DEF IInv, SweepTypeOK
<1>7. LockWasTaken'
  BY <1>3, <1>5, <1>6 DEF LockWasTaken, At, IInv, SweepTypeOK, AtRest
<1>8. LockIsItsHolders'
  <2> SUFFICES ASSUME NEW k \in 1..MaxObjects, NEW v \in Worker
               PROVE  holder'[k] = v <=> v \in InTurn' /\ worker'[v].lock = k
    BY DEF LockIsItsHolders
  <2>1. holder[l] = w /\ (holder[k] = v <=> v \in InTurn /\ worker[v].lock = k)
    BY <1>1, <1>2 DEF IInv, LockIsItsHolders
  <2>2. CASE k = l
    BY <1>2, <1>3, <1>5, <1>6, <2>1, <2>2, SweepAssumption DEF IInv, SweepTypeOK
  <2>3. CASE k # l /\ v = w
    BY <1>1, <1>3, <1>5, <2>1, <2>3 DEF IInv, SweepTypeOK
  <2>4. CASE k # l /\ v # w
    BY <1>3, <1>5, <1>6, <2>1, <2>4 DEF IInv, SweepTypeOK
  <2>5. QED
    BY <2>2, <2>3, <2>4
<1>9. QED
  BY <1>4, <1>7, <1>8 DEF IInv

\* Every step and every stutter keeps the invariant.
LEMMA NextKeepsInv == IInv /\ [SweepNext]_sweepVars => IInv'
<1> SUFFICES ASSUME IInv, [SweepNext]_sweepVars PROVE IInv'
  OBVIOUS
<1>1. ASSUME NEW w \in Worker, TakeTask(w) PROVE IInv'
  <2>1. SweepTypeOK'
    BY <1>1 DEF TakeTask, Go, store, IInv, SweepTypeOK
  <2>2. QED
    BY <1>1, <2>1, MoveKeepsLocks DEF TakeTask, Go, At, InTurn, store, IInv
<1>2. ASSUME NEW w \in Worker, Touch(w) PROVE IInv'
  <2>1. SweepTypeOK'
    BY <1>2 DEF Touch, Go, store, IInv, SweepTypeOK
  <2>2. QED
    BY <1>2, <2>1, MoveKeepsLocks DEF Touch, Go, At, InTurn, store, IInv
<1>3. ASSUME NEW w \in Worker, SetBusy(w) PROVE IInv'
  <2>1. SweepTypeOK'
    BY <1>3 DEF SetBusy, Go, IInv, SweepTypeOK
  <2>2. QED
    BY <1>3, <2>1, MoveKeepsLocks DEF SetBusy, Go, At, InTurn, IInv
<1>4. ASSUME NEW w \in Worker, ClearBusy(w) PROVE IInv'
  <2>1. SweepTypeOK'
    BY <1>4 DEF ClearBusy, Go, IInv, SweepTypeOK
  <2>2. QED
    BY <1>4, <2>1, MoveKeepsLocks DEF ClearBusy, Go, At, InTurn, IInv
<1>5. CASE GrowOld \/ FindStale \/ Sweep
  <2>1. UNCHANGED <<worker, holder>>
    BY <1>5 DEF GrowOld, FindStale, Sweep, PopTTL, PopLock, PopInject, PopBusy, store
  <2>2. SweepTypeOK'
    BY <1>5, ObjectNumbers DEF GrowOld, FindStale, Sweep, PopTTL, PopLock, PopInject, PopBusy,
                               store, IInv, SweepTypeOK
  <2>3. QED
    BY <2>1, <2>2, OthersKeepLocks DEF IInv
<1>6. CASE UNCHANGED sweepVars
  <2>1. SweepTypeOK'
    BY <1>6 DEF sweepVars, store, IInv, SweepTypeOK
  <2>2. QED
    BY <1>6, <2>1, OthersKeepLocks DEF sweepVars, store, IInv
<1>7. QED
  BY <1>1, <1>2, <1>3, <1>4, <1>5, <1>6, GetLockKeepsInv, AcquireLockKeepsInv,
     EnterLoopKeepsInv, ReleaseLockKeepsInv DEF SweepNext, Work

\* Whatever the sweep drops from the store, and however often, a lock that was
\* handed out stays with the one worker that took it until that worker
\* releases it (_cleanup_idle_sessions against _get_session_lock).
THEOREM LockStaysWithItsHolder == SweepSpec => []LockIsItsHolders
<1>1. SweepSpec => []IInv
  BY InitEstablishesInv, NextKeepsInv, PTL DEF SweepSpec
<1>2. IInv => LockIsItsHolders
  BY DEF IInv
<1>3. QED
  BY <1>1, <1>2, PTL

\* Every worker is at a place of its protocol and every object number is within
\* its bound, in every behaviour.
THEOREM SweepTypeCorrect == SweepSpec => []SweepTypeOK
<1>1. SweepSpec => []IInv
  BY InitEstablishesInv, NextKeepsInv, PTL DEF SweepSpec
<1>2. IInv => SweepTypeOK
  BY DEF IInv
<1>3. QED
  BY <1>1, <1>2, PTL

-----------------------------------------------------------------------------
(* The rows of turns: what the reaper has in hand is no turn that waits.      *)

Begins == {NoOne, "waiting"}
TurnPlaces == {NoOne, "waiting", "started", "working", "finishing", "over"}
ReaperRecords == [why : {NoOne, "server_restart", "stale"}, left : SUBSET ReaperTurns,
                  turn : ReaperTurns \union {NoOne}, at : {"pick", "publish", "finish"}]

RowsOfTurnsTyped ==
    /\ boot \in Nat /\ serverUp \in BOOLEAN /\ done \in [ReaperTurns -> Nat]
    /\ turnRow \in [ReaperTurns -> {"new", "queued", "running", "gone"}]
    /\ ownerPid \in [ReaperTurns -> Nat] /\ turnWorker \in [ReaperTurns -> TurnPlaces]
    /\ reaper \in ReaperRecords
    /\ reaper.at # "pick" => reaper.turn \in ReaperTurns

DeadServerRunsNothing ==
    ~serverUp => reaper = Idle /\ \A t \in ReaperTurns : turnWorker[t] \in {NoOne, "over"}
WaitingTurnIsQueued ==
    \A t \in ReaperTurns :
        /\ turnWorker[t] = NoOne <=> turnRow[t] = "new"
        /\ turnWorker[t] = "waiting" => turnRow[t] = "queued" /\ ownerPid[t] = boot
InHand(t) == t \in reaper.left \/ (reaper.at # "pick" /\ reaper.turn = t)
ReaperHasBegunTurns == \A t \in ReaperTurns : InHand(t) => turnWorker[t] \notin Begins
\* Nobody but the worker, and the reaper after it, publishes that a turn is done.
DoneByOne ==
    \A t \in ReaperTurns \ reapedAlive :
        /\ done[t] <= 1
        /\ turnWorker[t] \in Begins \union {"started", "working"} => done[t] = 0
        /\ reaper.at = "publish" /\ reaper.turn = t => done[t] = 0 /\ turnWorker[t] = "over"

ReaperInv ==
    RowsOfTurnsTyped /\ DeadServerRunsNothing /\ WaitingTurnIsQueued /\ ReaperHasBegunTurns /\ DoneByOne

LEMMA ReaperInvInit == ReaperInit => ReaperInv
BY DEF ReaperInit, ReaperInv, RowsOfTurnsTyped, DeadServerRunsNothing, WaitingTurnIsQueued, InHand,
       ReaperHasBegunTurns, DoneByOne, Idle, TurnPlaces, Begins, NoOne, ReaperRecords

\* The worker of a turn goes on; the reaper and the other turns stay.
LEMMA WorkerOfTurnGoesOn ==
    ASSUME ReaperInv, NEW t \in ReaperTurns, NEW place \in TurnPlaces \ {NoOne}, serverUp,
           turnWorker' = [turnWorker EXCEPT ![t] = place],
           turnRow' \in [ReaperTurns -> {"new", "queued", "running", "gone"}], turnRow'[t] # "new",
           ownerPid' \in [ReaperTurns -> Nat], done' \in [ReaperTurns -> Nat],
           \A s \in ReaperTurns \ {t} :
             turnRow'[s] = turnRow[s] /\ ownerPid'[s] = ownerPid[s] /\ done'[s] = done[s],
           place = "waiting" => turnRow'[t] = "queued" /\ ownerPid'[t] = boot /\ ~InHand(t),
           t \notin reapedAlive =>
             /\ done'[t] <= 1 /\ (place \in {"waiting", "started", "working"} => done'[t] = 0)
             /\ reaper.at = "publish" /\ reaper.turn = t => done'[t] = 0 /\ place = "over",
           UNCHANGED <<boot, serverUp, reaper, reapedAlive>>
    PROVE  ReaperInv'
<1>1. /\ turnWorker' \in [ReaperTurns -> TurnPlaces] /\ turnWorker'[t] = place
      /\ \A s \in ReaperTurns \ {t} : turnWorker'[s] = turnWorker[s]
  BY DEF ReaperInv, RowsOfTurnsTyped
<1>2. RowsOfTurnsTyped' BY <1>1 DEF ReaperInv, RowsOfTurnsTyped
<1>3. DeadServerRunsNothing' BY DEF DeadServerRunsNothing
<1>4. WaitingTurnIsQueued' BY <1>1 DEF ReaperInv, WaitingTurnIsQueued
<1>5. ReaperHasBegunTurns'
  <2>1. \A s \in ReaperTurns : InHand(s)' <=> InHand(s) BY DEF InHand
  <2> QED BY <1>1, <2>1 DEF ReaperInv, ReaperHasBegunTurns, Begins
<1>6. DoneByOne'
  <2> SUFFICES ASSUME NEW s \in ReaperTurns \ reapedAlive
               PROVE  /\ done'[s] <= 1
                      /\ turnWorker'[s] \in Begins \union {"started", "working"} => done'[s] = 0
                      /\ reaper.at = "publish" /\ reaper.turn = s => done'[s] = 0 /\ turnWorker'[s] = "over"
    BY DEF DoneByOne
  <2>1. CASE s = t BY <1>1, <2>1 DEF Begins
  <2>2. CASE s # t BY <1>1, <2>2 DEF ReaperInv, DoneByOne
  <2> QED BY <2>1, <2>2
<1> QED BY <1>2, <1>3, <1>4, <1>5, <1>6 DEF ReaperInv

LEMMA TurnSteps ==
    ASSUME ReaperInv, NEW t \in ReaperTurns,
           \/ QueueTurnRow(t) \/ StartTurnRow(t) \/ PublishBegin(t) \/ PublishDone(t) \/ FinishTurnRow(t)
    PROVE  ReaperInv'
<1>1. CASE QueueTurnRow(t)
  <2>1. ~InHand(t) /\ turnWorker[t] = NoOne
    BY <1>1 DEF QueueTurnRow, ReaperInv, WaitingTurnIsQueued, ReaperHasBegunTurns, Begins
  <2>2. t \notin reapedAlive => done[t] = 0 BY <2>1 DEF ReaperInv, DoneByOne, Begins
  <2>3. "waiting" \in TurnPlaces \ {NoOne} BY DEF TurnPlaces, NoOne
  <2>4. ~(reaper.at = "publish" /\ reaper.turn = t) BY <2>1 DEF InHand
  <2>5. /\ turnRow' \in [ReaperTurns -> {"new", "queued", "running", "gone"}]
        /\ turnRow'[t] = "queued" /\ turnRow'[t] # "new"
        /\ ownerPid' \in [ReaperTurns -> Nat] /\ ownerPid'[t] = boot
        /\ done' \in [ReaperTurns -> Nat] /\ done'[t] = done[t]
        /\ \A s \in ReaperTurns \ {t} :
             turnRow'[s] = turnRow[s] /\ ownerPid'[s] = ownerPid[s] /\ done'[s] = done[s]
    BY <1>1, <2>1 DEF QueueTurnRow, ReaperInv, RowsOfTurnsTyped
  <2>6. /\ serverUp /\ UNCHANGED <<boot, serverUp, reaper, reapedAlive>>
        /\ turnWorker' = [turnWorker EXCEPT ![t] = "waiting"]
    BY <1>1, <2>1 DEF QueueTurnRow
  <2>7. t \notin reapedAlive =>
          /\ done'[t] <= 1 /\ ("waiting" \in {"waiting", "started", "working"} => done'[t] = 0)
          /\ reaper.at = "publish" /\ reaper.turn = t => done'[t] = 0 /\ "waiting" = "over"
    BY <2>2, <2>4, <2>5
  <2> QED BY <2>1, <2>3, <2>5, <2>6, <2>7, WorkerOfTurnGoesOn
<1>2. CASE StartTurnRow(t)
  <2>1. ~InHand(t) /\ turnRow[t] = "queued" /\ turnWorker[t] = "waiting"
    BY <1>2 DEF StartTurnRow, ReaperInv, WaitingTurnIsQueued, ReaperHasBegunTurns, Begins
  <2>2. t \notin reapedAlive => done[t] = 0 BY <2>1 DEF ReaperInv, DoneByOne, Begins
  <2>3. "started" \in TurnPlaces \ {NoOne} BY DEF TurnPlaces, NoOne
  <2>4. ~(reaper.at = "publish" /\ reaper.turn = t) BY <2>1 DEF InHand
  <2>5. /\ turnRow' \in [ReaperTurns -> {"new", "queued", "running", "gone"}]
        /\ turnRow'[t] = "running" /\ turnRow'[t] # "new"
        /\ ownerPid' \in [ReaperTurns -> Nat] /\ ownerPid'[t] = boot
        /\ done' \in [ReaperTurns -> Nat] /\ done'[t] = done[t]
        /\ \A s \in ReaperTurns \ {t} :
             turnRow'[s] = turnRow[s] /\ ownerPid'[s] = ownerPid[s] /\ done'[s] = done[s]
    BY <1>2, <2>1 DEF StartTurnRow, ReaperInv, RowsOfTurnsTyped
  <2>6. /\ serverUp /\ UNCHANGED <<boot, serverUp, reaper, reapedAlive>>
        /\ turnWorker' = [turnWorker EXCEPT ![t] = "started"]
    BY <1>2, <2>1 DEF StartTurnRow
  <2>7. t \notin reapedAlive =>
          /\ done'[t] <= 1 /\ ("started" \in {"waiting", "started", "working"} => done'[t] = 0)
          /\ reaper.at = "publish" /\ reaper.turn = t => done'[t] = 0 /\ "started" = "over"
    BY <2>2, <2>4, <2>5
  <2> QED BY <2>1, <2>3, <2>5, <2>6, <2>7, WorkerOfTurnGoesOn
<1>3. CASE PublishBegin(t)
  <2>1. turnWorker[t] = "started" /\ turnRow[t] # "new"
    BY <1>3 DEF PublishBegin, ReaperInv, WaitingTurnIsQueued, NoOne
  <2>2. t \notin reapedAlive => done[t] = 0 /\ ~(reaper.at = "publish" /\ reaper.turn = t)
    BY <2>1 DEF ReaperInv, DoneByOne
  <2>3. "working" \in TurnPlaces \ {NoOne} BY DEF TurnPlaces, NoOne
  <2>4. /\ serverUp /\ UNCHANGED <<boot, serverUp, reaper, reapedAlive, turnRow, ownerPid, done>>
        /\ turnWorker' = [turnWorker EXCEPT ![t] = "working"]
    BY <1>3 DEF PublishBegin
  <2>5. /\ turnRow \in [ReaperTurns -> {"new", "queued", "running", "gone"}]
        /\ ownerPid \in [ReaperTurns -> Nat] /\ done \in [ReaperTurns -> Nat]
    BY DEF ReaperInv, RowsOfTurnsTyped
  <2>6. t \notin reapedAlive =>
          /\ done'[t] <= 1 /\ ("working" \in {"waiting", "started", "working"} => done'[t] = 0)
          /\ reaper.at = "publish" /\ reaper.turn = t => done'[t] = 0 /\ "working" = "over"
    BY <2>2, <2>4
  <2> QED BY <2>1, <2>3, <2>4, <2>5, <2>6, WorkerOfTurnGoesOn
<1>4. CASE PublishDone(t)
  <2>1. turnWorker[t] = "working" /\ turnRow[t] # "new"
    BY <1>4 DEF PublishDone, ReaperInv, WaitingTurnIsQueued, NoOne
  <2>2. t \notin reapedAlive => done[t] = 0 /\ ~(reaper.at = "publish" /\ reaper.turn = t)
    BY <2>1 DEF ReaperInv, DoneByOne
  <2>3. "finishing" \in TurnPlaces \ {NoOne} BY DEF TurnPlaces, NoOne
  <2>4. /\ done' \in [ReaperTurns -> Nat] /\ done'[t] = done[t] + 1
        /\ \A s \in ReaperTurns \ {t} : done'[s] = done[s]
    BY <1>4 DEF PublishDone, ReaperInv, RowsOfTurnsTyped
  <2>5. /\ serverUp /\ UNCHANGED <<boot, serverUp, reaper, reapedAlive, turnRow, ownerPid>>
        /\ turnWorker' = [turnWorker EXCEPT ![t] = "finishing"]
    BY <1>4 DEF PublishDone
  <2>6. /\ turnRow \in [ReaperTurns -> {"new", "queued", "running", "gone"}]
        /\ ownerPid \in [ReaperTurns -> Nat] /\ done[t] \in Nat
    BY DEF ReaperInv, RowsOfTurnsTyped
  <2>7. t \notin reapedAlive =>
          /\ done'[t] <= 1 /\ ("finishing" \in {"waiting", "started", "working"} => done'[t] = 0)
          /\ reaper.at = "publish" /\ reaper.turn = t => done'[t] = 0 /\ "finishing" = "over"
    BY <2>2, <2>4
  <2> QED BY <2>1, <2>2, <2>3, <2>4, <2>5, <2>6, <2>7, WorkerOfTurnGoesOn
<1>5. CASE FinishTurnRow(t)
  <2>1. turnWorker[t] = "finishing" BY <1>5 DEF FinishTurnRow
  <2>2. t \notin reapedAlive => done[t] <= 1 /\ ~(reaper.at = "publish" /\ reaper.turn = t)
    BY <2>1 DEF ReaperInv, DoneByOne
  <2>3. "over" \in TurnPlaces \ {NoOne} BY DEF TurnPlaces, NoOne
  <2>4. /\ turnRow' \in [ReaperTurns -> {"new", "queued", "running", "gone"}] /\ turnRow'[t] = "gone"
        /\ \A s \in ReaperTurns \ {t} : turnRow'[s] = turnRow[s]
    BY <1>5 DEF FinishTurnRow, ReaperInv, RowsOfTurnsTyped
  <2> QED BY <1>5, <2>1, <2>2, <2>3, <2>4, WorkerOfTurnGoesOn
          DEF FinishTurnRow, ReaperInv, RowsOfTurnsTyped
<1> QED BY <1>1, <1>2, <1>3, <1>4, <1>5

\* The reaper goes on, and takes only turns that have begun or are over.
LEMMA ReaperGoesOn ==
    ASSUME ReaperInv, UNCHANGED <<ownerPid, turnWorker>>, boot' \in Nat, serverUp' \in BOOLEAN,
           serverUp', boot' = boot \/ ~serverUp,
           turnRow' \in [ReaperTurns -> {"new", "queued", "running", "gone"}],
           \A t \in ReaperTurns : turnRow'[t] = turnRow[t] \/ (turnRow'[t] = "gone" /\ InHand(t)),
           done' \in [ReaperTurns -> Nat], reapedAlive \subseteq reapedAlive',
           reaper' \in ReaperRecords, reaper'.at # "pick" => reaper'.turn \in ReaperTurns,
           \A t \in ReaperTurns : InHand(t)' => turnWorker[t] \notin Begins,
           \A t \in ReaperTurns \ reapedAlive' :
             /\ done'[t] <= 1 /\ (done'[t] = done[t] \/ turnWorker[t] = "over")
             /\ reaper'.at = "publish" /\ reaper'.turn = t => done'[t] = 0 /\ turnWorker[t] = "over"
    PROVE  ReaperInv'
<1>1. RowsOfTurnsTyped' BY DEF ReaperInv, RowsOfTurnsTyped
<1>2. DeadServerRunsNothing' BY DEF DeadServerRunsNothing
<1>3. WaitingTurnIsQueued'
  <2>1. \A t \in ReaperTurns : InHand(t) => turnWorker[t] \notin {NoOne, "waiting"}
    BY DEF ReaperInv, ReaperHasBegunTurns, Begins
  <2>2. ~serverUp => \A t \in ReaperTurns : turnWorker[t] # "waiting"
    BY DEF ReaperInv, DeadServerRunsNothing, NoOne
  <2> QED BY <2>1, <2>2 DEF ReaperInv, WaitingTurnIsQueued
<1>4. ReaperHasBegunTurns' BY DEF ReaperHasBegunTurns
<1>5. DoneByOne' BY DEF ReaperInv, DoneByOne, Begins, NoOne
<1> QED BY <1>1, <1>2, <1>3, <1>4, <1>5 DEF ReaperInv

LEMMA ReaperSteps ==
    ASSUME ReaperInv, \/ Boot \/ Reap \/ PublishInterrupted \/ FinishInterrupted \/ NothingStale
                      \/ \E t \in ReaperTurns : LookForDone(t)
    PROVE  ReaperInv'
<1>1. CASE Boot
  <2>1. reaper'.left = Rows /\ reaper'.at = "pick" /\ reaper' \in ReaperRecords
    BY <1>1 DEF Boot, Idle, ReaperRecords, Rows
  <2>2. \A t \in Rows : turnWorker[t] \notin Begins
    BY <1>1 DEF Boot, Rows, Begins, NoOne, ReaperInv, DeadServerRunsNothing, WaitingTurnIsQueued
  <2> QED BY <1>1, <2>1, <2>2, ReaperGoesOn
          DEF Boot, InHand, ReaperInv, RowsOfTurnsTyped, Rows, DoneByOne
<1>2. CASE Reap
  <2>1. reaper'.left = Stale /\ reaper'.at = "pick" /\ reaper' \in ReaperRecords
    BY <1>2 DEF Reap, Idle, ReaperRecords, Stale, Rows
  <2>2. Stale \subseteq ReaperTurns /\ \A t \in Stale : turnWorker[t] \notin Begins
    BY DEF Stale, Rows, Begins, NoOne, ReaperInv, WaitingTurnIsQueued
  <2> QED BY <1>2, <2>1, <2>2, ReaperGoesOn
          DEF Reap, InHand, ReaperInv, RowsOfTurnsTyped, DoneByOne
<1>3. CASE PublishInterrupted
  <2>1. PICK t \in ReaperTurns : t = reaper.turn
    BY <1>3 DEF PublishInterrupted, ReaperInv, RowsOfTurnsTyped
  <2>2. /\ done' \in [ReaperTurns -> Nat] /\ done'[t] = done[t] + 1
        /\ \A s \in ReaperTurns \ {t} : done'[s] = done[s]
    BY <1>3, <2>1 DEF PublishInterrupted, ReaperInv, RowsOfTurnsTyped
  <2>3. t \notin reapedAlive => done[t] = 0 /\ turnWorker[t] = "over"
    BY <1>3, <2>1 DEF PublishInterrupted, ReaperInv, DoneByOne
  <2>4. reaper'.left = reaper.left /\ reaper'.turn = reaper.turn /\ reaper'.at = "finish"
        /\ reaper' \in ReaperRecords
    BY <1>3 DEF PublishInterrupted, ReaperInv, RowsOfTurnsTyped, ReaperRecords
  <2>5. \A s \in ReaperTurns : InHand(s)' => InHand(s) BY <1>3, <2>4 DEF InHand, PublishInterrupted
  <2>6. \A s \in ReaperTurns \ reapedAlive : done'[s] <= 1 /\ (done'[s] = done[s] \/ turnWorker[s] = "over")
    BY <2>2, <2>3 DEF ReaperInv, DoneByOne
  <2> QED BY <1>3, <2>1, <2>2, <2>4, <2>5, <2>6, ReaperGoesOn
          DEF PublishInterrupted, ReaperInv, RowsOfTurnsTyped, ReaperHasBegunTurns
<1>4. CASE FinishInterrupted
  <2>1. PICK t \in ReaperTurns : t = reaper.turn /\ InHand(t)
    BY <1>4 DEF FinishInterrupted, ReaperInv, RowsOfTurnsTyped, InHand
  <2>2. reaper'.left \subseteq reaper.left /\ reaper'.at = "pick" /\ reaper' \in ReaperRecords
    BY <1>4 DEF FinishInterrupted, Idle, ReaperInv, RowsOfTurnsTyped, ReaperRecords
  <2>3. \A s \in ReaperTurns : InHand(s)' => InHand(s) BY <2>2 DEF InHand
  <2>4. /\ turnRow' \in [ReaperTurns -> {"new", "queued", "running", "gone"}] /\ turnRow'[t] = "gone"
        /\ \A s \in ReaperTurns \ {t} : turnRow'[s] = turnRow[s]
    BY <1>4, <2>1 DEF FinishInterrupted, ReaperInv, RowsOfTurnsTyped
  <2> QED BY <1>4, <2>1, <2>2, <2>3, <2>4, ReaperGoesOn
          DEF FinishInterrupted, ReaperInv, RowsOfTurnsTyped, ReaperHasBegunTurns, DoneByOne
<1>5. CASE NothingStale
  <2>1. reaper'.left = {} /\ reaper'.at = "pick" /\ reaper' \in ReaperRecords
    BY <1>5 DEF NothingStale, Idle, ReaperRecords
  <2>2. serverUp BY <1>5 DEF NothingStale, ReaperInv, DeadServerRunsNothing, Idle
  <2> QED BY <1>5, <2>1, <2>2, ReaperGoesOn
          DEF NothingStale, InHand, ReaperInv, RowsOfTurnsTyped, DoneByOne
<1>6. ASSUME NEW t \in ReaperTurns, LookForDone(t) PROVE ReaperInv'
  <2>1. /\ serverUp /\ t \in reaper.left /\ reaper'.left = reaper.left \ {t} /\ reaper'.turn = t
        /\ reaper'.at = IF done[t] > 0 THEN "finish" ELSE "publish"
        /\ reapedAlive \subseteq reapedAlive'
        /\ (turnWorker[t] \in {"started", "working", "finishing"} => t \in reapedAlive')
        /\ reaper' \in ReaperRecords
    BY <1>6 DEF LookForDone, ReaperInv, RowsOfTurnsTyped, ReaperRecords
  <2>2. turnWorker[t] \notin Begins
    BY <2>1 DEF ReaperInv, ReaperHasBegunTurns, InHand
  <2>3. turnWorker[t] = "over" \/ t \in reapedAlive'
    BY <2>1, <2>2 DEF Begins, ReaperInv, RowsOfTurnsTyped, TurnPlaces
  <2>4. \A s \in ReaperTurns : InHand(s)' => InHand(s) BY <2>1 DEF InHand
  <2>5. done[t] \in Nat BY DEF ReaperInv, RowsOfTurnsTyped
  <2>6. UNCHANGED <<boot, serverUp, turnRow, ownerPid, turnWorker, done>> BY <1>6 DEF LookForDone
  <2>7. \A s \in ReaperTurns \ reapedAlive' :
          /\ done[s] <= 1
          /\ reaper'.at = "publish" /\ reaper'.turn = s => done[s] = 0 /\ turnWorker[s] = "over"
    BY <2>1, <2>3, <2>5 DEF ReaperInv, DoneByOne
  <2>8. \A s \in ReaperTurns : InHand(s)' => turnWorker[s] \notin Begins
    BY <2>4 DEF ReaperInv, ReaperHasBegunTurns
  <2> QED BY <2>1, <2>6, <2>7, <2>8, ReaperGoesOn DEF ReaperInv, RowsOfTurnsTyped
<1> QED BY <1>1, <1>2, <1>3, <1>4, <1>5, <1>6

LEMMA ReaperInvStep == ReaperInv /\ [ReaperNext]_reaperVars => ReaperInv'
<1> SUFFICES ASSUME ReaperInv, [ReaperNext]_reaperVars PROVE ReaperInv'
  OBVIOUS
<1>1. ASSUME NEW t \in ReaperTurns, FallSilent(t) PROVE ReaperInv'
  <2>1. UNCHANGED <<boot, serverUp, turnRow, ownerPid, turnWorker, reaper, done, reapedAlive>>
    BY <1>1 DEF FallSilent
  <2> QED BY <2>1 DEF ReaperInv, RowsOfTurnsTyped, DeadServerRunsNothing, WaitingTurnIsQueued, InHand,
                      ReaperHasBegunTurns, DoneByOne
<1>2. CASE Crash
  <2>1. /\ reaper' = Idle /\ UNCHANGED <<boot, turnRow, ownerPid, done, reapedAlive>> /\ serverUp' = FALSE
        /\ turnWorker' = [t \in ReaperTurns |-> IF turnRow[t] = "new" THEN NoOne ELSE "over"]
    BY <1>2 DEF Crash
  <2>2. reaper'.left = {} /\ reaper'.at = "pick" BY <2>1 DEF Idle
  <2>3. RowsOfTurnsTyped'
    BY <2>1, <2>2 DEF ReaperInv, RowsOfTurnsTyped, TurnPlaces, ReaperRecords, Idle
  <2>4. DeadServerRunsNothing' /\ WaitingTurnIsQueued'
    BY <2>1 DEF DeadServerRunsNothing, WaitingTurnIsQueued, NoOne
  <2>5. ReaperHasBegunTurns' BY <2>2 DEF ReaperHasBegunTurns, InHand
  <2>6. DoneByOne'
    <3>1. \A t \in ReaperTurns : turnRow[t] = "new" => turnWorker[t] \in Begins
      BY DEF ReaperInv, WaitingTurnIsQueued, Begins
    <3> QED BY <2>1, <2>2, <3>1 DEF ReaperInv, DoneByOne, Begins, NoOne
  <2> QED BY <2>3, <2>4, <2>5, <2>6 DEF ReaperInv
<1>3. CASE UNCHANGED reaperVars
  BY <1>3 DEF reaperVars, ReaperInv, RowsOfTurnsTyped, DeadServerRunsNothing, WaitingTurnIsQueued, InHand,
              ReaperHasBegunTurns, DoneByOne
<1> QED BY <1>1, <1>2, <1>3, TurnSteps, ReaperSteps DEF ReaperNext, Progress

\* A turn is closed for the browser once, whichever of its worker, the boot of the next
\* server and the reaper (interrupt_stale_turns, reap_stale_turns) gets to it, unless the
\* reaper took it from a live worker.
THEOREM TurnsAreClosedOnce == ReaperSpec => []ClosedOnce
<1>1. ReaperInv => ClosedOnce BY DEF ReaperInv, DoneByOne, ClosedOnce
<1> QED BY ReaperInvInit, ReaperInvStep, <1>1, PTL DEF ReaperSpec


-----------------------------------------------------------------------------
(* Monitors: a poll that may still report counts as a report to come.         *)

MayReport == {"probe", "mark", "notify"}
HasReported == {"last", "cancel"}
ToCome(m, e) == IF poll[m][e].at \in MayReport THEN 1 ELSE 0

PollsTyped ==
    /\ DOMAIN monitor = Watch /\ DOMAIN poll = Watch
    /\ reports \in [Watch -> Nat] /\ excused \in [Watch -> Nat]
    /\ \A m \in Watch :
         /\ "at" \in DOMAIN monitor[m] /\ DOMAIN poll[m] = Pollers
         /\ \A e \in Pollers : "at" \in DOMAIN poll[m][e]

\* Only while a poll has reported and not cancelled is there a report too many.
ReportsAreExcused(m) ==
    /\ reports[m] + ToCome(m, "timer") + ToCome(m, "hand") <= 1 + excused[m]
    /\ monitor[m].at # "gone" /\ (\A e \in Pollers : poll[m][e].at \notin HasReported)
         => reports[m] <= excused[m]
PollInv == PollsTyped /\ \A m \in Watch : ReportsAreExcused(m)

LEMMA PollInvInit == MonitorInit => PollInv
BY DEF MonitorInit, PollInv, PollsTyped, ReportsAreExcused, ToCome, MayReport, NoPoll, NoMonitor, Pollers

\* One monitor is changed.
LEMMA MonitorGoesOn ==
    ASSUME PollInv, NEW m \in Watch, PollsTyped', ReportsAreExcused(m)',
           \A x \in Watch \ {m} : /\ monitor'[x] = monitor[x] /\ poll'[x] = poll[x]
                                  /\ reports'[x] = reports[x] /\ excused'[x] = excused[x]
    PROVE  PollInv'
BY DEF PollInv, ReportsAreExcused, ToCome

\* One poll of it goes on.
LEMMA PollGoesOn ==
    ASSUME PollInv, NEW m \in Watch, NEW e \in Pollers, NEW place, PollGoes(m, e, place)
    PROVE  /\ DOMAIN poll' = Watch /\ \A x \in Watch \ {m} : poll'[x] = poll[x]
           /\ \A x \in Watch : DOMAIN poll'[x] = Pollers /\ \A y \in Pollers : "at" \in DOMAIN poll'[x][y]
           /\ poll'[m][e].at = place /\ \A y \in Pollers \ {e} : poll'[m][y] = poll[m][y]
BY DEF PollInv, PollsTyped, PollGoes

LEMMA PollStepKeepsIt ==
    ASSUME PollInv, NEW m \in Watch, NEW e \in Pollers, PollStep(m, e) PROVE PollInv'
<1>0. /\ reports[m] \in Nat /\ excused[m] \in Nat /\ ReportsAreExcused(m) /\ PollsTyped
      /\ Pollers = {"timer", "hand"}
  BY DEF PollInv, PollsTyped, Pollers
<1>1. ASSUME NEW place, PollGoes(m, e, place), poll[m][e].at \in MayReport, place \in MayReport \union {"count"},
             UNCHANGED <<monitor, reports, excused>>
      PROVE  PollInv'
  <2>1. PollsTyped' BY <1>0, <1>1, PollGoesOn DEF PollsTyped
  <2>2. \A y \in Pollers : ToCome(m, y)' \in {0, 1} /\ ToCome(m, y) \in {0, 1} /\ ToCome(m, y)' <= ToCome(m, y)
    BY <1>1, PollGoesOn DEF ToCome
  <2>3. \A y \in Pollers : poll'[m][y].at \in HasReported <=> poll[m][y].at \in HasReported
    BY <1>1, PollGoesOn DEF HasReported, MayReport
  <2>4. ReportsAreExcused(m)' BY <1>0, <1>1, <2>2, <2>3 DEF ReportsAreExcused
  <2> QED BY <1>1, <2>1, <2>4, PollGoesOn, MonitorGoesOn
<1>2. ASSUME NEW clear \in BOOLEAN, NEW hit \in BOOLEAN, Probe(m, e, clear, hit) PROVE PollInv'
  <2>1. PICK place : place = IF clear /\ ~Runs(monitor[m].name) THEN "mark" ELSE IF hit THEN "notify" ELSE "count"
    OBVIOUS
  <2>2. PollGoes(m, e, place) /\ poll[m][e].at = "probe" /\ UNCHANGED <<monitor, reports, excused>>
    BY <1>2, <2>1 DEF Probe, PollAt
  <2>3. place \in MayReport \union {"count"} /\ "probe" \in MayReport BY <2>1 DEF MayReport
  <2> QED BY <1>1, <2>2, <2>3
<1>3. CASE MarkWatched(m, e)
  BY <1>1, <1>3 DEF MarkWatched, PollAt, MayReport
<1>4. CASE Notify(m, e)
  <2>1. /\ poll[m][e].at = "notify" /\ PollGoes(m, e, "last") /\ UNCHANGED <<monitor, excused>>
        /\ reports' = [reports EXCEPT ![m] = @ + 1]
    BY <1>4 DEF Notify, PollAt
  <2>2. /\ reports' \in [Watch -> Nat] /\ reports'[m] = reports[m] + 1
        /\ \A x \in Watch \ {m} : reports'[x] = reports[x]
    BY <1>0, <2>1 DEF PollsTyped
  <2>3. PollsTyped' BY <1>0, <2>1, <2>2, PollGoesOn DEF PollsTyped
  <2>4. /\ ToCome(m, e) = 1 /\ ToCome(m, e)' = 0 /\ poll'[m][e].at \in HasReported
        /\ \A y \in Pollers \ {e} : ToCome(m, y)' = ToCome(m, y) /\ ToCome(m, y) \in {0, 1}
    BY <2>1, PollGoesOn DEF ToCome, MayReport, HasReported
  <2>5. ReportsAreExcused(m)'
    <3>1. reports'[m] + ToCome(m, "timer")' + ToCome(m, "hand")' <= 1 + excused'[m]
      <4>1. CASE e = "timer" BY <1>0, <2>1, <2>2, <2>4, <4>1 DEF ReportsAreExcused
      <4>2. CASE e = "hand" BY <1>0, <2>1, <2>2, <2>4, <4>2 DEF ReportsAreExcused
      <4> QED BY <1>0, <4>1, <4>2
    <3> QED BY <2>4, <3>1 DEF ReportsAreExcused
  <2> QED BY <2>1, <2>2, <2>3, <2>5, PollGoesOn, MonitorGoesOn
<1>5. CASE CountPoll(m, e)
  <2>1. PICK place : place = IF PollAt(m, e, "last") THEN "cancel" ELSE "idle" OBVIOUS
  <2>2. /\ poll[m][e].at \in {"count", "last"} /\ PollGoes(m, e, place) /\ UNCHANGED <<reports, excused>>
        /\ poll[m][e].at = "last" => place = "cancel"
    BY <1>5, <2>1 DEF CountPoll, PollAt
  <2>3. /\ DOMAIN monitor' = Watch /\ \A x \in Watch : "at" \in DOMAIN monitor'[x]
        /\ \A x \in Watch \ {m} : monitor'[x] = monitor[x]
        /\ monitor[m].at = "gone" => monitor'[m].at = "gone"
    BY <1>0, <1>5 DEF CountPoll, PollsTyped
  <2>4. PollsTyped' BY <1>0, <2>2, <2>3, PollGoesOn DEF PollsTyped
  <2>5. \A y \in Pollers : ToCome(m, y)' <= ToCome(m, y) /\ {ToCome(m, y)', ToCome(m, y)} \subseteq {0, 1}
    <3>1. place \in {"cancel", "idle"} BY <2>1
    <3> QED BY <2>2, <3>1, PollGoesOn DEF ToCome, MayReport
  <2>6. \A y \in Pollers : poll[m][y].at \in HasReported => poll'[m][y].at \in HasReported
    BY <2>2, PollGoesOn DEF HasReported
  <2>7. ReportsAreExcused(m)' BY <1>0, <2>2, <2>3, <2>5, <2>6 DEF ReportsAreExcused
  <2> QED BY <2>2, <2>3, <2>4, <2>7, PollGoesOn, MonitorGoesOn
<1>6. CASE CancelMonitor(m, e)
  <2>1. /\ poll[m][e].at = "cancel" /\ PollGoes(m, e, "idle") /\ UNCHANGED <<reports, excused>>
        /\ monitor' = [monitor EXCEPT ![m].at = "gone"]
    BY <1>6 DEF CancelMonitor, PollAt
  <2>2. /\ DOMAIN monitor' = Watch /\ \A x \in Watch : "at" \in DOMAIN monitor'[x]
        /\ \A x \in Watch \ {m} : monitor'[x] = monitor[x]
        /\ monitor'[m].at = "gone"
    BY <1>0, <2>1 DEF PollsTyped
  <2>3. PollsTyped' BY <1>0, <2>1, <2>2, PollGoesOn DEF PollsTyped
  <2>4. \A y \in Pollers : ToCome(m, y)' = ToCome(m, y)
    BY <2>1, PollGoesOn DEF ToCome, MayReport
  <2>5. ReportsAreExcused(m)' BY <1>0, <2>1, <2>2, <2>4 DEF ReportsAreExcused
  <2> QED BY <2>1, <2>2, <2>3, <2>5, PollGoesOn, MonitorGoesOn
<1> QED BY <1>2, <1>3, <1>4, <1>5, <1>6 DEF PollStep

\* A poll begins while another runs, or while the monitor has not reported.
LEMMA PollBegins ==
    ASSUME PollInv, NEW m \in Watch, NEW e \in Pollers, NEW age, Enter(m, e, age), PollAt(m, e, "idle"),
           monitor[m].at = "on", reports' = reports, DOMAIN monitor' = Watch,
           \A x \in Watch : "at" \in DOMAIN monitor'[x],
           \A x \in Watch \ {m} : monitor'[x] = monitor[x]
    PROVE  PollInv'
<1>0. /\ reports[m] \in Nat /\ excused[m] \in Nat /\ ReportsAreExcused(m) /\ PollsTyped
      /\ Pollers = {"timer", "hand"}
  BY DEF PollInv, PollsTyped, Pollers
<1>1. /\ DOMAIN poll' = Watch /\ \A x \in Watch \ {m} : poll'[x] = poll[x]
      /\ \A x \in Watch : DOMAIN poll'[x] = Pollers /\ \A y \in Pollers : "at" \in DOMAIN poll'[x][y]
      /\ poll'[m][e].at \in MayReport /\ \A y \in Pollers \ {e} : poll'[m][y] = poll[m][y]
  BY <1>0 DEF PollsTyped, Enter, MayReport
<1>2. /\ excused' \in [Watch -> Nat] /\ \A x \in Watch \ {m} : excused'[x] = excused[x]
      /\ excused'[m] = IF \A y \in Pollers : poll[m][y].at = "idle" THEN excused[m] ELSE excused[m] + 1
  BY <1>0 DEF Enter, PollsTyped, PollAt
<1>3. PollsTyped' BY <1>0, <1>1, <1>2 DEF PollsTyped
<1>4. /\ ToCome(m, e) = 0 /\ ToCome(m, e)' = 1
      /\ \A y \in Pollers \ {e} : ToCome(m, y)' = ToCome(m, y) /\ ToCome(m, y) \in {0, 1}
      /\ \A y \in Pollers : poll[m][y].at = "idle" => ToCome(m, y) = 0 /\ poll[m][y].at \notin HasReported
  BY <1>1 DEF ToCome, MayReport, HasReported, PollAt
<1>5. (\A y \in Pollers : poll'[m][y].at \notin HasReported) => reports[m] <= excused[m]
  <2>1. (\A y \in Pollers : poll'[m][y].at \notin HasReported) => \A y \in Pollers : poll[m][y].at \notin HasReported
    BY <1>1, <1>4 DEF PollAt
  <2> QED BY <1>0, <2>1 DEF ReportsAreExcused
<1>6. reports'[m] + ToCome(m, "timer")' + ToCome(m, "hand")' <= 1 + excused'[m]
  <2>1. CASE \A y \in Pollers : poll[m][y].at = "idle"
    <3>1. reports[m] <= excused[m] BY <1>0, <1>4, <2>1 DEF ReportsAreExcused
    <3>2. ToCome(m, "timer")' + ToCome(m, "hand")' = 1
      <4>1. CASE e = "timer" BY <1>0, <1>4, <2>1, <4>1
      <4>2. CASE e = "hand" BY <1>0, <1>4, <2>1, <4>2
      <4> QED BY <1>0, <4>1, <4>2
    <3>3. ToCome(m, "timer")' \in {0, 1} /\ ToCome(m, "hand")' \in {0, 1} BY DEF ToCome
    <3> QED BY <1>0, <1>2, <2>1, <3>1, <3>2, <3>3
  <2>2. CASE ~\A y \in Pollers : poll[m][y].at = "idle"
    <3>1. excused'[m] = excused[m] + 1 BY <1>2, <2>2
    <3>2. CASE e = "timer" BY <1>0, <1>4, <3>1, <3>2 DEF ReportsAreExcused
    <3>3. CASE e = "hand" BY <1>0, <1>4, <3>1, <3>3 DEF ReportsAreExcused
    <3> QED BY <1>0, <3>2, <3>3
  <2> QED BY <2>1, <2>2
<1>7. excused[m] <= excused'[m] BY <1>0, <1>2
<1>8. ReportsAreExcused(m)' BY <1>0, <1>2, <1>5, <1>6, <1>7 DEF ReportsAreExcused
<1> QED BY <1>1, <1>2, <1>3, <1>8, MonitorGoesOn

LEMMA WatchSteps ==
    ASSUME PollInv, NEW m \in Watch,
           \/ \E j \in Jobs, on \in {"exit", "log"} : Attach(m, j, on)
           \/ Detach(m) \/ Tick(m) \/ PollNow(m) \/ TimePasses(m)
    PROVE  PollInv'
<1>0. PollsTyped /\ ReportsAreExcused(m) BY DEF PollInv
<1>1. ASSUME UNCHANGED <<poll, reports, excused>>, DOMAIN monitor' = Watch,
             \A x \in Watch : "at" \in DOMAIN monitor'[x], \A x \in Watch \ {m} : monitor'[x] = monitor[x],
             monitor[m].at = "gone" => monitor'[m].at = "gone"
      PROVE  PollInv'
  <2>1. PollsTyped' BY <1>0, <1>1 DEF PollsTyped
  <2>2. ReportsAreExcused(m)' BY <1>0, <1>1 DEF ReportsAreExcused, ToCome
  <2> QED BY <1>1, <2>1, <2>2, MonitorGoesOn
<1>2. ASSUME NEW j \in Jobs, NEW on \in {"exit", "log"}, Attach(m, j, on) PROVE PollInv'
  <2>1. monitor[m].at = "none" /\ UNCHANGED <<poll, reports, excused>> BY <1>2 DEF Attach
  <2>2. PICK r : r = [NoMonitor EXCEPT !.at = "on", !.job = j, !.name = jobs[j].name, !.on = on] OBVIOUS
  <2>3. monitor' = [monitor EXCEPT ![m] = r] BY <1>2, <2>2 DEF Attach
  <2>4. "at" \in DOMAIN r BY <2>2 DEF NoMonitor
  <2> QED BY <1>0, <1>1, <2>1, <2>3, <2>4 DEF PollsTyped
<1>3. CASE Detach(m)
  BY <1>0, <1>1, <1>3 DEF Detach, PollsTyped
<1>4. CASE TimePasses(m)
  BY <1>0, <1>1, <1>4 DEF TimePasses, PollsTyped
<1>5. CASE Tick(m)
  <2>1. /\ DOMAIN monitor' = Watch /\ \A x \in Watch : "at" \in DOMAIN monitor'[x]
        /\ (\A x \in Watch \ {m} : monitor'[x] = monitor[x]) /\ reports' = reports
        /\ monitor[m].at = "on" /\ monitor'[m].at = monitor[m].at
    BY <1>0, <1>5 DEF Tick, PollsTyped
  <2>2. CASE PollAt(m, "timer", "idle")
    <3>1. PICK age : age = NextAge(m) OBVIOUS
    <3>2. Enter(m, "timer", age) /\ "timer" \in Pollers BY <1>5, <2>2, <3>1 DEF Tick, Pollers
    <3> QED BY <2>1, <2>2, <3>2, PollBegins
  <2>3. CASE ~PollAt(m, "timer", "idle")
    BY <1>1, <1>5, <2>1, <2>3 DEF Tick
  <2> QED BY <2>2, <2>3
<1>6. CASE PollNow(m)
  <2>1. PICK age : age = monitor[m].age OBVIOUS
  <2>2. /\ Enter(m, "hand", age) /\ "hand" \in Pollers /\ PollAt(m, "hand", "idle")
        /\ monitor[m].at = "on" /\ monitor' = monitor /\ reports' = reports
    BY <1>6, <2>1 DEF PollNow, Pollers
  <2>3. DOMAIN monitor = Watch /\ \A x \in Watch : "at" \in DOMAIN monitor[x] BY <1>0 DEF PollsTyped
  <2> QED BY <2>2, <2>3, PollBegins
<1> QED BY <1>2, <1>3, <1>4, <1>5, <1>6

LEMMA ServerBreaks == ASSUME PollInv, Break PROVE PollInv'
<1>1. /\ poll' = [m \in Watch |-> [e \in Pollers |-> NoPoll]] /\ UNCHANGED <<monitor, reports>>
      /\ excused' = [m \in Watch |-> IF \E e \in Pollers : poll[m][e].at \in HasReported
                                     THEN excused[m] + 1 ELSE excused[m]]
  BY DEF Break, HasReported
<1>2. PollsTyped /\ \A m \in Watch : ReportsAreExcused(m) BY DEF PollInv
<1>3. PollsTyped' BY <1>1, <1>2 DEF PollsTyped, NoPoll
<1>4. ASSUME NEW m \in Watch PROVE ReportsAreExcused(m)'
  <2>1. /\ reports[m] \in Nat /\ excused[m] \in Nat /\ ReportsAreExcused(m)
        /\ "timer" \in Pollers /\ "hand" \in Pollers
    BY <1>2 DEF PollsTyped, Pollers
  <2>2. ToCome(m, "timer")' = 0 /\ ToCome(m, "hand")' = 0
    BY <1>1, <2>1 DEF ToCome, NoPoll, MayReport
  <2>3. {ToCome(m, "timer"), ToCome(m, "hand")} \subseteq {0, 1} BY DEF ToCome
  <2>4. reports[m] <= 1 + excused[m] BY <2>1, <2>3 DEF ReportsAreExcused
  <2>5. CASE \E e \in Pollers : poll[m][e].at \in HasReported
    <3>1. excused'[m] = excused[m] + 1 /\ reports'[m] = reports[m] BY <1>1, <2>5
    <3> QED BY <2>1, <2>2, <2>4, <3>1 DEF ReportsAreExcused
  <2>6. CASE \A e \in Pollers : poll[m][e].at \notin HasReported
    <3>1. excused'[m] = excused[m] /\ reports'[m] = reports[m] /\ monitor' = monitor BY <1>1, <2>6
    <3>2. monitor[m].at # "gone" => reports[m] <= excused[m] BY <2>1, <2>6 DEF ReportsAreExcused
    <3> QED BY <2>1, <2>2, <2>4, <3>1, <3>2 DEF ReportsAreExcused
  <2> QED BY <2>5, <2>6
<1> QED BY <1>3, <1>4 DEF PollInv

LEMMA PollInvStep == PollInv /\ [MonitorNext]_monitorVars => PollInv'
<1> SUFFICES ASSUME PollInv, [MonitorNext]_monitorVars PROVE PollInv'
  OBVIOUS
<1>1. ASSUME UNCHANGED <<monitor, poll, reports, excused>> PROVE PollInv'
  BY <1>1 DEF PollInv, PollsTyped, ReportsAreExcused, ToCome
<1>2. ASSUME NEW k \in Name, SpawnProcess(k) \/ ProcessEnds(k) PROVE PollInv'
  BY <1>1, <1>2 DEF SpawnProcess, ProcessEnds, watchVars
<1>3. CASE Register BY <1>1, <1>3 DEF Register, watchVars
<1>4. ASSUME NEW r \in Refreshers,
             ListForRefresh(r) \/ MarkRefreshed(r) \/ \E ok \in BOOLEAN : ProbeJobs(r, ok)
      PROVE  PollInv'
  BY <1>1, <1>4 DEF ListForRefresh, MarkRefreshed, ProbeJobs, watchVars
<1>5. CASE ListForStop \/ MarkStopped \/ \E ok \in BOOLEAN : KillJobs(ok)
  BY <1>1, <1>5 DEF ListForStop, MarkStopped, KillJobs, watchVars
<1>6. CASE StartAgain BY <1>1, <1>6 DEF StartAgain, watchVars
<1>7. CASE UNCHANGED monitorVars BY <1>1, <1>7 DEF monitorVars, watchVars
<1>8. CASE Break BY <1>8, ServerBreaks
<1>9. ASSUME NEW m \in Watch,
             \/ \E j \in Jobs, on \in {"exit", "log"} : Attach(m, j, on)
             \/ Detach(m) \/ Tick(m) \/ PollNow(m) \/ TimePasses(m)
             \/ \E e \in Pollers : PollStep(m, e)
      PROVE  PollInv'
  BY <1>9, WatchSteps, PollStepKeepsIt
<1> QED BY <1>2, <1>3, <1>4, <1>5, <1>6, <1>7, <1>8, <1>9 DEF MonitorNext

\* A monitor reports once, but for as many polls as began while another ran and as many
\* crashes as came between a report and the end of the monitor's row (monitors.py): its
\* timer and polls by hand, and the server's breakdowns, in any order and number.
THEOREM MonitorsReportOnce == MonitorSpec => []ReportsOnce
<1>1. PollInv => ReportsOnce
  <2> SUFFICES ASSUME PollInv, NEW m \in Watch PROVE reports[m] <= 1 + excused[m]
    BY DEF ReportsOnce
  <2>1. {ToCome(m, "timer"), ToCome(m, "hand")} \subseteq {0, 1} BY DEF ToCome
  <2> QED BY <2>1 DEF PollInv, PollsTyped, ReportsAreExcused
<1> QED BY PollInvInit, PollInvStep, <1>1, PTL DEF MonitorSpec

-----------------------------------------------------------------------------
(* What a log ends with and nobody has answered is in somebody's hand.  The   *)
(* property is inductive once types are known and a drain is known to hold     *)
(* sessions only while it resumes them: another one may replace what it holds. *)

Handling == {"idle", "saved", "guard", "focus", "reject", "defer", "queue"}
TailKinds == {"empty", "user", "ack", "rejection", "interim", "answer"}
DrainHoldsWhileResuming == firing.left # {} => firing.pc = "resume"

RedeliveryInv ==
  /\ RedeliveryTypeOK
  /\ IsFiniteSet(running)
  /\ firing \in [pc : {"none", "busy?", "focus?", "drain", "resume"}, left : SUBSET Session]
  /\ scan \in [pc : {"none", "read", "resume"}, left : SUBSET Session]
  /\ DrainHoldsWhileResuming
  /\ UnansweredIsInHand

LEMMA RedeliveryInvInit == RedeliveryInit => RedeliveryInv
<1> SUFFICES ASSUME RedeliveryInit PROVE RedeliveryInv
  OBVIOUS
<1>1. Cardinality(running) <= Capacity /\ IsFiniteSet(running)
  BY FS_EmptySet, RedeliveryAssumption DEF RedeliveryInit
<1> QED
  BY <1>1 DEF RedeliveryInit, RedeliveryInv, RedeliveryTypeOK, DrainHoldsWhileResuming,
              UnansweredIsInHand, NotFiring, NotScanning

\* handle_message passes its session on to a turn or to the deferred ones.
LEMMA HandlerKeepsHands ==
  ASSUME RedeliveryInv, NEW s \in Session, Receive(s) \/ HandlerStep(s)
  PROVE  RedeliveryInv'
<1>1. /\ tail \in [Session -> TailKinds] /\ handler \in [Session -> Handling]
      /\ UnansweredIsInHand /\ DrainHoldsWhileResuming /\ queued \subseteq Session
      /\ deferred \subseteq Session
  BY DEF RedeliveryInv, RedeliveryTypeOK, TailKinds, Handling
<1>2. UNCHANGED <<up, scan, running, ending, bus, arming, freeTimer, firing, focus>>
  BY DEF Receive, HandlerStep, CheckGate, CheckAgentBusy, CheckFocus, Reject, Defer, Enqueue,
         Step, Write, durable, process, turns, notifier
<1>3. tail' \in [Session -> TailKinds] /\ handler' \in [Session -> Handling]
  BY <1>1 DEF Receive, HandlerStep, CheckGate, CheckAgentBusy, CheckFocus, Reject, Defer, Enqueue,
         Step, Write, durable, process, turns, notifier, TailKinds, Handling
<1>4. queued \subseteq queued' /\ queued' \subseteq Session
      /\ deferred \subseteq deferred' /\ deferred' \subseteq Session
  BY <1>1 DEF Receive, HandlerStep, CheckGate, CheckAgentBusy, CheckFocus, Reject, Defer, Enqueue,
         durable, process, turns, notifier
<1>5. ASSUME NEW x \in Session, x # s PROVE tail'[x] = tail[x] /\ handler'[x] = handler[x]
  BY <1>1, <1>5 DEF Receive, HandlerStep, CheckGate, CheckAgentBusy, CheckFocus, Reject, Defer,
         Enqueue, Step, Write, durable, TailKinds, Handling
<1>6. /\ tail'[s] = "user" =>
           \/ handler'[s] \in {"saved", "guard", "focus", "reject", "queue"} \/ s \in queued'
           \/ tail[s] = "user" /\ handler[s] = "defer"
      /\ tail'[s] = "rejection" =>
           \/ handler'[s] = "defer" \/ s \in deferred' \union queued'
           \/ tail[s] = "rejection" /\ handler[s] # "defer"
  <2>1. CASE Receive(s) BY <1>1, <2>1 DEF Receive, Step, Write, TailKinds, Handling
  <2>2. CASE CheckGate(s) BY <1>1, <2>2 DEF CheckGate, Step, Write, durable, TailKinds, Handling
  <2>3. CASE CheckAgentBusy(s) \/ CheckFocus(s)
    BY <1>1, <2>3 DEF CheckAgentBusy, CheckFocus, Step, durable, Handling
  <2>4. CASE Reject(s) BY <1>1, <2>4 DEF Reject, Step, Write, TailKinds, Handling
  <2>5. CASE Defer(s) BY <1>1, <2>5 DEF Defer, Step, durable, Handling
  <2>6. CASE Enqueue(s) BY <1>1, <2>6 DEF Enqueue, Step, durable, Handling
  <2> QED BY <2>1, <2>2, <2>3, <2>4, <2>5, <2>6 DEF HandlerStep
<1>7. ASSUME NEW x \in Session
      PROVE  /\ tail'[x] = "user" => MessageIsInHand(x)'
             /\ tail'[x] = "rejection" => RejectionIsInHand(x)'
  <2>1. (TurnHas(x) => TurnHas(x)') /\ (StartupHas(x) => StartupHas(x)')
    BY <1>2, <1>4 DEF TurnHas, StartupHas
  <2>2. x \in deferred \union firing.left => x \in deferred' \union firing'.left
    BY <1>2, <1>4
  <2>3. x \in queued' => TurnHas(x)' BY DEF TurnHas
  <2>4. /\ tail[x] = "user" => MessageIsInHand(x)
        /\ tail[x] = "rejection" => RejectionIsInHand(x)
    BY <1>1 DEF UnansweredIsInHand
  <2>5. CASE x = s
    BY <1>6, <2>1, <2>2, <2>3, <2>4, <2>5 DEF MessageIsInHand, RejectionIsInHand
  <2>6. CASE x # s
    <3>1. tail'[x] = tail[x] /\ handler'[x] = handler[x] BY <1>5, <2>6
    <3> QED BY <2>1, <2>2, <2>4, <3>1 DEF MessageIsInHand, RejectionIsInHand
  <2> QED BY <2>5, <2>6
<1>8. RedeliveryTypeOK'
  BY <1>2, <1>3, <1>4 DEF RedeliveryInv, RedeliveryTypeOK, TailKinds, Handling
<1> QED
  BY <1>2, <1>7, <1>8 DEF RedeliveryInv, DrainHoldsWhileResuming, UnansweredIsInHand

LEMMA TurnKeepsHands ==
  ASSUME RedeliveryInv, NEW s \in Session, StartTurn(s) \/ WriteInterim(s) \/ SetFocus(s) \/ TurnEnds(s)
  PROVE  RedeliveryInv'
<1>1. /\ tail \in [Session -> TailKinds] /\ UnansweredIsInHand /\ DrainHoldsWhileResuming
      /\ queued \subseteq Session /\ running \subseteq Session /\ ending \subseteq Session
      /\ IsFiniteSet(running) /\ Cardinality(running) <= Capacity /\ Cardinality(running) \in Nat
      /\ Capacity \in Nat /\ focus \in BOOLEAN
  BY FS_CardinalityType, RedeliveryAssumption DEF RedeliveryInv, RedeliveryTypeOK, TailKinds
<1>2. UNCHANGED <<up, scan, handler, arming, freeTimer, firing, deferred>>
  BY DEF StartTurn, WriteInterim, SetFocus, TurnEnds, EndTurn, AnnounceEnd, Write, process, turns, notifier
<1>3. /\ tail' \in [Session -> TailKinds] /\ focus' \in BOOLEAN
      /\ queued' \subseteq Session /\ running' \subseteq Session /\ ending' \subseteq Session
  BY <1>1 DEF StartTurn, WriteInterim, SetFocus, TurnEnds, EndTurn, AnnounceEnd, Write, durable,
              turns, TailKinds
<1>4. IsFiniteSet(running') /\ Cardinality(running') <= Capacity
  <2>1. CASE StartTurn(s)
    <3>1. s \notin running /\ Cardinality(running) < Capacity /\ running' = running \union {s}
      BY <2>1 DEF StartTurn
    <3>2. IsFiniteSet(running') /\ Cardinality(running') = Cardinality(running) + 1
      BY <1>1, <3>1, FS_AddElement
    <3> QED BY <1>1, <3>1, <3>2
  <2>2. CASE EndTurn(s)
    <3>1. s \in running /\ running' = running \ {s} BY <2>2 DEF EndTurn
    <3>2. IsFiniteSet(running') /\ Cardinality(running') = Cardinality(running) - 1
      BY <1>1, <3>1, FS_RemoveElement
    <3> QED BY <1>1, <3>2
  <2>3. CASE WriteInterim(s) \/ SetFocus(s) \/ AnnounceEnd(s)
    BY <1>1, <2>3 DEF WriteInterim, SetFocus, AnnounceEnd, turns
  <2> QED BY <2>1, <2>2, <2>3 DEF TurnEnds
<1>5. ASSUME NEW x \in Session
      PROVE  /\ tail'[x] \in {"user", "rejection"} => tail'[x] = tail[x]
             /\ TurnHas(x) /\ tail'[x] \in {"user", "rejection"} => TurnHas(x)'
  BY <1>1 DEF StartTurn, WriteInterim, SetFocus, TurnEnds, EndTurn, AnnounceEnd, Write, durable,
              turns, TurnHas
<1>6. UnansweredIsInHand'
  BY <1>1, <1>2, <1>5 DEF UnansweredIsInHand, MessageIsInHand, RejectionIsInHand, StartupHas
<1>7. RedeliveryTypeOK'
  BY <1>2, <1>3, <1>4 DEF RedeliveryInv, RedeliveryTypeOK, TailKinds
<1> QED
  BY <1>2, <1>4, <1>6, <1>7 DEF RedeliveryInv, DrainHoldsWhileResuming

\* A drain passes on each session it holds that still has something to answer.
LEMMA TimerKeepsHands ==
  ASSUME RedeliveryInv, TimerStep \/ ListenerStep \/ ReleaseFocus
  PROVE  RedeliveryInv'
<1>1. /\ UnansweredIsInHand /\ DrainHoldsWhileResuming /\ queued \subseteq Session
      /\ deferred \subseteq Session /\ freeTimer \in BOOLEAN /\ arming \in Nat /\ focus \in BOOLEAN
      /\ firing \in [pc : {"none", "busy?", "focus?", "drain", "resume"}, left : SUBSET Session]
  BY DEF RedeliveryInv, RedeliveryTypeOK
<1>2. UNCHANGED <<tail, up, scan, handler, running, ending>>
  BY DEF TimerStep, Fire, RecheckBusy, RecheckFocus, Drain, ResumeDeferred, ListenerStep, ArmTimer,
         HandleEvent, ReleaseFocus, durable, process, turns
<1>3. /\ queued' \subseteq Session /\ deferred' \subseteq Session /\ queued \subseteq queued'
      /\ freeTimer' \in BOOLEAN /\ arming' \in Nat /\ focus' \in BOOLEAN
      /\ firing' \in [pc : {"none", "busy?", "focus?", "drain", "resume"}, left : SUBSET Session]
      /\ DrainHoldsWhileResuming'
  <2>1. CASE ResumeDeferred
    BY <1>1, <2>1 DEF ResumeDeferred, durable, NotFiring, DrainHoldsWhileResuming
  <2>2. CASE Drain
    BY <1>1, <2>2 DEF Drain, durable, turns, DrainHoldsWhileResuming
  <2>3. CASE Fire \/ RecheckBusy \/ RecheckFocus
    <3>1. CASE Fire BY <1>1, <3>1 DEF Fire, durable, turns, NotFiring, DrainHoldsWhileResuming
    <3>2. CASE RecheckBusy
      BY <1>1, <3>2 DEF RecheckBusy, durable, turns, NotFiring, DrainHoldsWhileResuming
    <3>3. CASE RecheckFocus
      <4>1. firing.left = {} /\ UNCHANGED <<focus, queued, deferred, arming>>
        BY <1>1, <3>3 DEF RecheckFocus, durable, turns, DrainHoldsWhileResuming
      <4>2. \/ freeTimer' = TRUE /\ firing' = NotFiring
            \/ freeTimer' = freeTimer /\ firing' = [firing EXCEPT !.pc = "drain"]
        BY <3>3 DEF RecheckFocus
      <4>3. firing' \in [pc : {"none", "busy?", "focus?", "drain", "resume"}, left : SUBSET Session]
            /\ firing'.left = {} /\ freeTimer' \in BOOLEAN
        <5>1. CASE freeTimer' = TRUE /\ firing' = NotFiring BY <5>1 DEF NotFiring
        <5>2. CASE freeTimer' = freeTimer /\ firing' = [firing EXCEPT !.pc = "drain"]
          BY <1>1, <4>1, <5>2
        <5> QED BY <4>2, <5>1, <5>2
      <4> QED BY <1>1, <4>1, <4>3 DEF DrainHoldsWhileResuming
    <3> QED BY <2>3, <3>1, <3>2, <3>3
  <2>4. CASE ListenerStep \/ ReleaseFocus
    <3>1. UNCHANGED <<queued, deferred, firing>>
      BY <2>4 DEF ListenerStep, ArmTimer, HandleEvent, ReleaseFocus, durable, turns, notifier
    <3>2. arming' \in Nat
      BY <1>1, <2>4 DEF ListenerStep, ArmTimer, HandleEvent, ReleaseFocus, notifier
    <3>3. freeTimer' \in BOOLEAN
      BY <1>1, <2>4 DEF ListenerStep, ArmTimer, HandleEvent, ReleaseFocus, notifier
    <3>4. focus' \in BOOLEAN
      BY <1>1, <2>4 DEF ListenerStep, ArmTimer, HandleEvent, ReleaseFocus, durable
    <3> QED BY <1>1, <3>1, <3>2, <3>3, <3>4 DEF DrainHoldsWhileResuming
  <2> QED BY <2>1, <2>2, <2>3, <2>4 DEF TimerStep
<1>4. ASSUME NEW x \in Session, x \in deferred \union firing.left, tail[x] = "rejection"
      PROVE  x \in deferred' \union firing'.left \union queued'
  BY <1>1, <1>4 DEF TimerStep, Fire, RecheckBusy, RecheckFocus, Drain, ResumeDeferred, ResumableTail,
         ListenerStep, ArmTimer, HandleEvent, ReleaseFocus, turns, notifier, NotFiring,
         DrainHoldsWhileResuming
<1>5. UnansweredIsInHand'
  BY <1>1, <1>2, <1>3, <1>4
     DEF UnansweredIsInHand, MessageIsInHand, RejectionIsInHand, StartupHas, TurnHas
<1>6. RedeliveryTypeOK'
  BY <1>2, <1>3 DEF RedeliveryInv, RedeliveryTypeOK
<1> QED
  BY <1>2, <1>3, <1>5, <1>6 DEF RedeliveryInv

\* The scan lists every log that a crash left unanswered before it resumes the first.
LEMMA StartupKeepsHands ==
  ASSUME RedeliveryInv, ScanStep \/ AppDies
  PROVE  RedeliveryInv'
<1>1. CASE AppDies
  <2>1. Cardinality(running') <= Capacity /\ IsFiniteSet(running')
    BY <1>1, FS_EmptySet, RedeliveryAssumption DEF AppDies
  <2> QED
    BY <1>1, <2>1 DEF AppDies, durable, RedeliveryInv, RedeliveryTypeOK, DrainHoldsWhileResuming,
              UnansweredIsInHand, MessageIsInHand, RejectionIsInHand, StartupHas, NotFiring, NotScanning
<1>2. CASE ScanStep
  <2>1. /\ UnansweredIsInHand /\ queued \subseteq Session
        /\ scan \in [pc : {"none", "read", "resume"}, left : SUBSET Session]
    BY DEF RedeliveryInv, RedeliveryTypeOK
  <2>2. UNCHANGED <<tail, focus, handler, running, ending, arming, freeTimer, firing, deferred>>
    BY <1>2 DEF ScanStep, AppRestarts, ScanSessions, ResumeScanned, durable, turns, notifier
  <2>3. /\ queued' \subseteq Session /\ queued \subseteq queued' /\ up' \in BOOLEAN
        /\ scan' \in [pc : {"none", "read", "resume"}, left : SUBSET Session]
    <3>1. CASE AppRestarts \/ ScanSessions
      <4>1. queued' = queued /\ up' \in BOOLEAN
        BY <3>1 DEF AppRestarts, ScanSessions, turns, RedeliveryInv, RedeliveryTypeOK
      <4>2. \/ scan' = [pc |-> "read", left |-> {}]
            \/ scan' = [pc |-> "resume", left |-> {s \in Session : tail[s] \in UnrepliedTail}]
        BY <3>1 DEF AppRestarts, ScanSessions
      <4>3. {s \in Session : tail[s] \in UnrepliedTail} \subseteq Session OBVIOUS
      <4> QED BY <2>1, <4>1, <4>2, <4>3
    <3>2. CASE ResumeScanned
      <4>1. up' = up /\ up \in BOOLEAN
        BY <3>2 DEF ResumeScanned, RedeliveryInv, RedeliveryTypeOK
      <4>2. CASE scan.left = {}
        BY <2>1, <3>2, <4>1, <4>2 DEF ResumeScanned, NotScanning
      <4>3. CASE scan.left # {}
        <5>1. PICK s \in scan.left :
                scan' = [scan EXCEPT !.left = @ \ {s}] /\ queued' = queued \union {s}
          BY <3>2, <4>3 DEF ResumeScanned
        <5> QED BY <2>1, <4>1, <5>1
      <4> QED BY <4>2, <4>3
    <3> QED BY <1>2, <3>1, <3>2 DEF ScanStep
  <2>4. ASSUME NEW x \in Session, StartupHas(x), tail[x] \in {"user", "rejection"}
        PROVE  StartupHas(x)' \/ x \in queued'
    BY <1>2, <2>1, <2>4 DEF ScanStep, AppRestarts, ScanSessions, ResumeScanned, StartupHas,
                            UnrepliedTail, NotScanning
  <2>5. UnansweredIsInHand'
    BY <2>1, <2>2, <2>3, <2>4 DEF UnansweredIsInHand, MessageIsInHand, RejectionIsInHand, TurnHas
  <2>6. RedeliveryTypeOK'
    BY <2>2, <2>3 DEF RedeliveryInv, RedeliveryTypeOK
  <2> QED
    BY <2>2, <2>3, <2>5, <2>6 DEF RedeliveryInv, DrainHoldsWhileResuming
<1> QED BY <1>1, <1>2

LEMMA RedeliveryInvStep == RedeliveryInv /\ [RedeliveryNext]_redeliveryVars => RedeliveryInv'
<1>1. ASSUME RedeliveryInv, UNCHANGED redeliveryVars PROVE RedeliveryInv'
  BY <1>1 DEF redeliveryVars, durable, process, turns, notifier, RedeliveryInv, RedeliveryTypeOK,
              DrainHoldsWhileResuming, UnansweredIsInHand, MessageIsInHand, RejectionIsInHand,
              StartupHas, TurnHas
<1> QED
  BY <1>1, HandlerKeepsHands, TurnKeepsHands, TimerKeepsHands, StartupKeepsHands DEF RedeliveryNext

\* A message or a rejection that a log ends with is never in nobody's hand, for any
\* sessions, limits, messages, focus and crashes (handle_message, the deferred resumes
\* and the startup scan of app.py).
THEOREM UnansweredStaysInHand == RedeliverySpec => []UnansweredIsInHand
<1>1. RedeliveryInv => UnansweredIsInHand BY DEF RedeliveryInv
<1> QED BY RedeliveryInvInit, RedeliveryInvStep, <1>1, PTL DEF RedeliverySpec

-----------------------------------------------------------------------------
(* Runs of the evaluator: what a thread that has its run to itself has done. *)

EvalPlaces == {"off", "levels", "level", "recalc", "summary", "complete", "finally", "mark", "ended"}
Working == {"levels", "level", "recalc", "summary", "complete"}
WorkerPlaces == {"off", "queued", "next", "testing", "score"}

EngineTyped == engine \in [running : BOOLEAN, interrupted : BOOLEAN, current : Run \union {NoRun}]
RowsTyped ==
    /\ runRow \in [Run -> [status : {"none", "running", "interrupted", "completed"}, dated : BOOLEAN]]
    /\ results \in [Run -> [EvalTests -> Nat]]
    /\ cellRow \in [Run -> [Cell -> [status : {"none", "running", "scored"}, of : SUBSET EvalTests]]]
ThreadsTyped ==
    /\ evalThread \in [Threads -> [at : EvalPlaces, run : Run \union {NoRun}, resumed : BOOLEAN,
                                   skip : SUBSET EvalTests, level : 0 .. NumLevels,
                                   mark : Run \union {NoRun}]]
    /\ \A k \in Threads : RunOf(k) = NoRun <=> ThreadAt(k, "off")
    /\ \A k \in Threads : /\ ~evalThread[k].resumed => evalThread[k].skip = {}
                          /\ ThreadAt(k, "level") => evalThread[k].level \in Level
WorkTyped ==
    /\ domainWork \in [Threads -> [Domain -> [at : WorkerPlaces, todo : SUBSET EvalTests,
                                              did : SUBSET EvalTests]]]
    /\ \A k \in Threads : ~ThreadAt(k, "level") => \A d \in Domain : WorkerAt(k, d, "off")
ReplayTyped ==
    /\ DOMAIN replay = {"run", "test"} /\ replay.run \in Run \union {NoRun}
    /\ Replaying => replay.test \in EvalTests

\* Threads and runs are numbered in the order in which they begin.
NumberedFrom1 ==
    /\ \E n \in Nat : {k \in Threads : ~ThreadAt(k, "off")} = 1 .. n
    /\ \E n \in Nat : {r \in Run : \E k \in Threads : RunOf(k) = r} = 1 .. n
FreshRunIsEmpty ==
    \A r \in Run : (\A k \in Threads : RunOf(k) # r) =>
        runRow[r].status = "none" /\ replay.run # r /\ \A t \in EvalTests : results[r][t] = 0

\* A thread whose run is not mixed is alone, and the engine knows its run or none.
HasRunAlone(k) == ThreadLives(k) /\ RunOf(k) \notin mixed
AloneIsAlone == \A k \in Threads : HasRunAlone(k) => \A j \in Threads \ {k} : ~ThreadLives(j)
KnownRuns(k) == {NoRun, RunOf(k)} \union mixed
EngineKnowsIt ==
    \A k \in Threads : /\ ThreadLives(k) => engine.current \in KnownRuns(k)
                       /\ ThreadAt(k, "mark") => evalThread[k].mark \in KnownRuns(k)
RowIsOpen ==
    \A k \in Threads : HasRunAlone(k) /\ evalThread[k].at \in Working =>
        runRow[RunOf(k)].status \in {"running", "none"}
ReplayIsAlone ==
    Replaying /\ replay.run \notin mixed =>
        /\ results[replay.run][replay.test] = 0
        /\ \A k \in Threads : ThreadLives(k) => RunOf(k) # replay.run

\* A test whose level has not begun has no result but an earlier thread's.
NotYet(k, t) ==
    \/ evalThread[k].at \in {"levels", "level"} /\ t[2] > evalThread[k].level
    \/ ThreadAt(k, "level") /\ t[2] = evalThread[k].level /\ WorkerAt(k, t[1], "queued")
TestsAhead(k) ==
    \A t \in EvalTests : NotYet(k, t) /\ Has(RunOf(k), t) => t \in evalThread[k].skip
TestsInHand(k) ==
    \A d \in Domain : domainWork[k][d].at \in {"next", "testing"} =>
        \A t \in domainWork[k][d].todo : t \in TestsIn(CellOf(k, d)) /\ results[RunOf(k)][t] = 0

\* While the engine is not stopped and the run not deleted, what is behind is done.
Resumes(k) == \A t \in evalThread[k].skip : Has(RunOf(k), t)
InScore(r, t) == cellRow[r][<<t[1], t[2]>>].status = "scored" /\ t \in cellRow[r][<<t[1], t[2]>>].of
IsDone(k, t) ==
    \/ <<RunOf(k), t>> \in raised
    \/ Has(RunOf(k), t) /\ (evalThread[k].resumed \/ InScore(RunOf(k), t))
Behind(k, t) ==
    \/ ThreadAt(k, "levels") /\ t[2] <= evalThread[k].level
    \/ ThreadAt(k, "level") /\ t[2] < evalThread[k].level
    \/ ThreadAt(k, "level") /\ t[2] = evalThread[k].level /\ WorkerAt(k, t[1], "off")
    \/ ThreadAt(k, "recalc")
HandIsWhole(k, d, w) ==
    /\ \A t \in TestsIn(CellOf(k, d)) : t \in w.todo \union w.did \union evalThread[k].skip
    /\ \A t \in w.did : Has(RunOf(k), t)
    /\ w.todo \union w.did # {}
    /\ w.at = "testing" => w.todo # {}
    /\ w.at = "score" => w.todo = {}
WorkInHand(k) ==
    \A d \in Domain : domainWork[k][d].at \in {"next", "testing", "score"} =>
        HandIsWhole(k, d, domainWork[k][d])
CountedOrRaised(r) == \A t \in EvalTests : <<r, t>> \in raised \/ (Has(r, t) /\ InScore(r, t))
NotStopped(k) == engine.running /\ runRow[RunOf(k)].status # "none"
WorkIsWhole(k) ==
    /\ NotStopped(k) /\ evalThread[k].at \in Working => Resumes(k)
    /\ NotStopped(k) => \A t \in EvalTests : Behind(k, t) => IsDone(k, t)
    /\ NotStopped(k) => WorkInHand(k)
    /\ NotStopped(k) /\ ThreadAt(k, "summary") => CountedOrRaised(RunOf(k))
    /\ runRow[RunOf(k)].status # "none" /\ ThreadAt(k, "complete") => CountedOrRaised(RunOf(k))
AloneIsOrderly ==
    \A k \in Threads : HasRunAlone(k) => TestsAhead(k) /\ TestsInHand(k) /\ WorkIsWhole(k)

\* What a completed run has, but for a test that is being replayed.
OneResult == \A r \in Run \ mixed, t \in EvalTests : results[r][t] <= 1
CompletedIsCounted ==
    \A r \in Run \ mixed : runRow[r].status = "completed" =>
        \A t \in EvalTests :
            \/ <<r, t>> \in raised
            \/ InScore(r, t) /\ (results[r][t] = 1 \/ replay = [run |-> r, test |-> t])

EvalTyped == EngineTyped /\ RowsTyped /\ ThreadsTyped /\ WorkTyped /\ ReplayTyped
Aloneness == NumberedFrom1 /\ AloneIsAlone /\ EngineKnowsIt /\ RowIsOpen
Honesty == FreshRunIsEmpty /\ ReplayIsAlone /\ OneResult /\ CompletedIsCounted
EvalInv == EvalTyped /\ Aloneness /\ Honesty /\ AloneIsOrderly

LEMMA TestFacts ==
    /\ NumLevels \in Nat
    /\ \A t \in EvalTests : /\ t[2] \in Level /\ t[2] \in Nat /\ t[2] > 0 /\ t[2] <= NumLevels
                            /\ t[1] \in Domain /\ <<t[1], t[2]>> \in Cell
    /\ NoRun \notin Run
<1>1. NumLevels \in Nat /\ \A t \in EvalTests : t[2] \in 1 .. NumLevels BY EvaluationAssumption
<1> QED BY <1>1 DEF Level, Domain, Cell, Run, NoRun

LEMMA EvalInvInit == EvalInit => EvalInv
<1> SUFFICES ASSUME EvalInit PROVE EvalInv
  OBVIOUS
<1>1. \A k \in Threads : evalThread[k] = OffThread /\ ThreadAt(k, "off") /\ RunOf(k) = NoRun
                        /\ ~ThreadLives(k) /\ ~ThreadAt(k, "level") /\ ~ThreadAt(k, "mark")
  BY DEF EvalInit, ThreadAt, OffThread, RunOf, ThreadLives
<1>2. \A k \in Threads, d \in Domain : domainWork[k][d] = OffWorker /\ WorkerAt(k, d, "off")
  BY DEF EvalInit, OffWorker, WorkerAt
<1>3. EngineTyped BY DEF EvalInit, EngineTyped, IdleEngine
<1>4. RowsTyped
  BY DEF EvalInit, RowsTyped, NoRunRow, NoResults, NoCells, NoCell
<1>5. ThreadsTyped
  <2>1. OffThread \in [at : EvalPlaces, run : Run \union {NoRun}, resumed : BOOLEAN,
                       skip : SUBSET EvalTests, level : 0 .. NumLevels, mark : Run \union {NoRun}]
    BY TestFacts DEF OffThread, EvalPlaces
  <2>2. ~OffThread.resumed /\ OffThread.skip = {} BY DEF OffThread
  <2> QED BY <1>1, <2>1, <2>2 DEF ThreadsTyped, EvalInit
<1>6. WorkTyped
  <2>1. OffWorker \in [at : WorkerPlaces, todo : SUBSET EvalTests, did : SUBSET EvalTests]
    BY DEF OffWorker, WorkerPlaces
  <2> QED BY <1>2, <2>1 DEF WorkTyped, EvalInit
<1>7. ReplayTyped BY DEF EvalInit, ReplayTyped, Replaying
<1>8. NumberedFrom1
  <2>1. {k \in Threads : ~ThreadAt(k, "off")} = 1 .. 0 BY <1>1
  <2>2. {r \in Run : \E k \in Threads : RunOf(k) = r} = 1 .. 0 BY <1>1, TestFacts
  <2> QED BY <2>1, <2>2 DEF NumberedFrom1
<1>9. FreshRunIsEmpty BY TestFacts DEF EvalInit, FreshRunIsEmpty, NoRunRow, NoResults
<1>10. AloneIsAlone /\ EngineKnowsIt /\ RowIsOpen /\ AloneIsOrderly /\ ReplayIsAlone
  BY <1>1 DEF AloneIsAlone, EngineKnowsIt, RowIsOpen, AloneIsOrderly, HasRunAlone, ReplayIsAlone,
              EvalInit, Replaying
<1>11. OneResult /\ CompletedIsCounted BY DEF EvalInit, OneResult, CompletedIsCounted, NoResults, NoRunRow
<1> QED BY <1>3, <1>4, <1>5, <1>6, <1>7, <1>8, <1>9, <1>10, <1>11
        DEF EvalInv, EvalTyped, Aloneness, Honesty

\* One thread of a run goes on, and touches nothing of another run that is not mixed.
OnlyThread(k) ==
    /\ ThreadLives(k) /\ ~ThreadAt(k, "off")'
    /\ \A j \in Threads \ {k} : evalThread'[j] = evalThread[j] /\ domainWork'[j] = domainWork[j]
    /\ evalThread'[k].run = evalThread[k].run
    /\ mixed' = mixed /\ replay' = replay /\ raised \subseteq raised'
    /\ engine'.current = engine.current
    /\ \A r \in Run \ {RunOf(k)} : results'[r] = results[r] /\ cellRow'[r] = cellRow[r]
    /\ \A r \in Run \ {RunOf(k)} :
         r \notin mixed \/ runRow[r].status = "none" => runRow'[r].status = runRow[r].status
    /\ ThreadAt(k, "mark")' => evalThread'[k].mark \in KnownRuns(k)

\* What it may do to its own run, which it has to itself.
OwnRunIsKept(k) ==
    /\ evalThread'[k].at \in Working => runRow'[RunOf(k)].status \in {"running", "none"}
    /\ TestsAhead(k)' /\ TestsInHand(k)' /\ WorkIsWhole(k)'
    /\ \A t \in EvalTests : results'[RunOf(k)][t] <= 1
    /\ runRow'[RunOf(k)].status = "completed" =>
         \A t \in EvalTests :
            \/ <<RunOf(k), t>> \in raised'
            \/ InScore(RunOf(k), t)' /\ results'[RunOf(k)][t] = 1

LEMMA ThreadGoesOn ==
    ASSUME EvalInv, NEW k \in Threads, EvalTyped', OnlyThread(k), HasRunAlone(k) => OwnRunIsKept(k)
    PROVE  EvalInv'
<1> DEFINE r == RunOf(k)
<1>0. r \in Run /\ r # NoRun
  BY DEF EvalInv, EvalTyped, ThreadsTyped, OnlyThread, ThreadLives, ThreadAt, RunOf
<1>1. /\ \A j \in Threads : RunOf(j)' = RunOf(j) /\ (ThreadLives(j)' => ThreadLives(j))
      /\ \A j \in Threads : ThreadAt(j, "off")' <=> ThreadAt(j, "off")
      /\ ThreadLives(k)
  BY DEF OnlyThread, RunOf, ThreadLives, ThreadAt
<1>2. NumberedFrom1'
  <2>1. {j \in Threads : ~ThreadAt(j, "off")}' = {j \in Threads : ~ThreadAt(j, "off")} BY <1>1
  <2>2. {s \in Run : \E j \in Threads : RunOf(j) = s}' = {s \in Run : \E j \in Threads : RunOf(j) = s}
    BY <1>1
  <2> QED BY <2>1, <2>2 DEF NumberedFrom1, EvalInv, Aloneness
<1>3. \A j \in Threads : HasRunAlone(j)' => j = k /\ HasRunAlone(k)
  <2> SUFFICES ASSUME NEW j \in Threads, HasRunAlone(j)' PROVE j = k /\ HasRunAlone(k)
    OBVIOUS
  <2>1. HasRunAlone(j) BY <1>1 DEF HasRunAlone, OnlyThread
  <2> QED BY <1>1, <2>1 DEF EvalInv, Aloneness, AloneIsAlone
<1>4. AloneIsAlone'
  <2>1. HasRunAlone(k)' => \A j \in Threads \ {k} : ~ThreadLives(j)'
    BY <1>1, <1>3 DEF EvalInv, Aloneness, AloneIsAlone
  <2> QED BY <1>3, <2>1 DEF AloneIsAlone
<1>5. EngineKnowsIt'
  <2>1. \A j \in Threads : KnownRuns(j)' = KnownRuns(j) BY <1>1 DEF KnownRuns, OnlyThread
  <2>2. \A j \in Threads : ThreadLives(j)' => engine'.current \in KnownRuns(j)'
    BY <1>1, <2>1 DEF OnlyThread, EvalInv, Aloneness, EngineKnowsIt
  <2>3. \A j \in Threads \ {k} : ThreadAt(j, "mark")' => evalThread'[j].mark \in KnownRuns(j)'
    BY <2>1 DEF OnlyThread, EvalInv, Aloneness, EngineKnowsIt, ThreadAt
  <2>4. ThreadAt(k, "mark")' => evalThread'[k].mark \in KnownRuns(k)' BY <2>1 DEF OnlyThread
  <2> QED BY <2>2, <2>3, <2>4 DEF EngineKnowsIt
<1>6. RowIsOpen'
  <2>1. HasRunAlone(k) => (evalThread'[k].at \in Working => runRow'[r].status \in {"running", "none"})
    BY DEF OwnRunIsKept
  <2> HIDE DEF r
  <2> QED BY <1>1, <1>3, <2>1 DEF RowIsOpen, r
<1>7. FreshRunIsEmpty'
  <2> SUFFICES ASSUME NEW s \in Run, \A j \in Threads : RunOf(j)' # s
               PROVE  runRow'[s].status = "none" /\ replay'.run # s /\ \A t \in EvalTests : results'[s][t] = 0
    BY DEF FreshRunIsEmpty
  <2>1. s # r /\ \A j \in Threads : RunOf(j) # s BY <1>1
  <2>2. runRow[s].status = "none" /\ replay.run # s /\ \A t \in EvalTests : results[s][t] = 0
    BY <2>1 DEF EvalInv, Honesty, FreshRunIsEmpty
  <2> QED BY <2>1, <2>2 DEF OnlyThread
<1>8. ReplayIsAlone'
  <2> SUFFICES ASSUME Replaying, replay.run \notin mixed
               PROVE  /\ results'[replay.run][replay.test] = 0
                      /\ \A j \in Threads : ThreadLives(j)' => RunOf(j)' # replay.run
    BY DEF ReplayIsAlone, OnlyThread, Replaying
  <2>1. results[replay.run][replay.test] = 0 /\ \A j \in Threads : ThreadLives(j) => RunOf(j) # replay.run
    BY DEF EvalInv, Honesty, ReplayIsAlone
  <2>2. replay.run \in Run BY DEF EvalInv, EvalTyped, ReplayTyped, Replaying
  <2>3. replay.run # r BY <1>1, <2>1
  <2> QED BY <1>1, <2>1, <2>2, <2>3 DEF OnlyThread
<1>9. r \notin mixed => HasRunAlone(k) BY <1>1 DEF HasRunAlone
<1>10. OneResult'
  <2>1. \A s \in Run \ mixed, t \in EvalTests : s # r => results'[s][t] <= 1
    BY DEF OnlyThread, EvalInv, Honesty, OneResult
  <2>2. r \notin mixed => \A t \in EvalTests : results'[r][t] <= 1 BY <1>9 DEF OwnRunIsKept
  <2>3. mixed' = mixed BY DEF OnlyThread
  <2> QED BY <2>1, <2>2, <2>3 DEF OneResult
<1>11. CompletedIsCounted'
  <2> SUFFICES ASSUME NEW s \in Run \ mixed, runRow'[s].status = "completed", NEW t \in EvalTests
               PROVE  \/ <<s, t>> \in raised'
                      \/ InScore(s, t)' /\ (results'[s][t] = 1 \/ replay' = [run |-> s, test |-> t])
    BY DEF CompletedIsCounted, OnlyThread
  <2>1. CASE s = r
    <3>1. RunOf(k)' = s /\ RunOf(k) = s BY <1>1, <2>1
    <3> QED BY <1>9, <2>1, <3>1 DEF OwnRunIsKept, InScore
  <2>2. CASE s # r
    <3>1. runRow[s].status = "completed" BY <2>2 DEF OnlyThread
    <3>2. \/ <<s, t>> \in raised
          \/ InScore(s, t) /\ (results[s][t] = 1 \/ replay = [run |-> s, test |-> t])
      BY <3>1 DEF EvalInv, Honesty, CompletedIsCounted
    <3> QED BY <2>2, <3>2 DEF OnlyThread, InScore
  <2> QED BY <2>1, <2>2
<1>12. AloneIsOrderly'
  <2>1. HasRunAlone(k) => TestsAhead(k)' /\ TestsInHand(k)' /\ WorkIsWhole(k)' BY DEF OwnRunIsKept
  <2> QED BY <1>3, <2>1 DEF AloneIsOrderly
<1> QED BY <1>2, <1>4, <1>5, <1>6, <1>7, <1>8, <1>10, <1>11, <1>12 DEF EvalInv, Aloneness, Honesty

-----------------------------------------------------------------------------
\* A thread goes on to a place where no worker of it is at work.
Moved(k, place) ==
    /\ evalThread'[k].at = place /\ evalThread'[k].run = evalThread[k].run
    /\ evalThread'[k].skip = evalThread[k].skip /\ evalThread'[k].resumed = evalThread[k].resumed
    /\ evalThread'[k].level = evalThread[k].level /\ evalThread'[k].mark = evalThread[k].mark
    /\ \A j \in Threads \ {k} : evalThread'[j] = evalThread[j]
    /\ domainWork' = domainWork /\ \A d \in Domain : domainWork[k][d].at = "off"

LEMMA PlaceChanges ==
    ASSUME ThreadsTyped, WorkTyped, NEW k \in Threads, NEW place \in EvalPlaces \ {"off", "level"},
           ThreadLives(k), ThreadGoes(k, place), UNCHANGED domainWork,
           ThreadAt(k, "level") => \A d \in Domain : WorkerAt(k, d, "off")
    PROVE  ThreadsTyped' /\ WorkTyped' /\ Moved(k, place)
<1>1. evalThread' = [evalThread EXCEPT ![k].at = place] BY DEF ThreadGoes
<1>2. evalThread[k].at \notin {"off", "ended"} BY DEF ThreadLives
<1>3. /\ evalThread'[k].at = place /\ evalThread'[k].run = evalThread[k].run
      /\ evalThread'[k].skip = evalThread[k].skip /\ evalThread'[k].resumed = evalThread[k].resumed
      /\ evalThread'[k].level = evalThread[k].level /\ evalThread'[k].mark = evalThread[k].mark
      /\ \A j \in Threads \ {k} : evalThread'[j] = evalThread[j]
  BY <1>1 DEF ThreadsTyped
<1>4. ThreadsTyped'
  <2>1. evalThread' \in [Threads -> [at : EvalPlaces, run : Run \union {NoRun}, resumed : BOOLEAN,
                                     skip : SUBSET EvalTests, level : 0 .. NumLevels,
                                     mark : Run \union {NoRun}]]
    BY <1>1 DEF ThreadsTyped
  <2> QED BY <1>2, <1>3, <2>1 DEF ThreadsTyped, RunOf, ThreadAt
<1>5. \A d \in Domain : domainWork[k][d].at = "off" BY DEF WorkTyped, WorkerAt
<1>6. WorkTyped' BY <1>3, <1>5 DEF WorkTyped, ThreadAt, WorkerAt
<1> QED BY <1>3, <1>4, <1>5, <1>6 DEF Moved

LEMMA MovedIsOnly ==
    ASSUME NEW k \in Threads, NEW place, Moved(k, place), place \notin {"off", "mark"}, ThreadLives(k),
           mixed' = mixed, replay' = replay, raised' = raised, engine' = engine,
           \A r \in Run \ {RunOf(k)} : results'[r] = results[r] /\ cellRow'[r] = cellRow[r],
           \A r \in Run \ {RunOf(k)} :
              r \notin mixed \/ runRow[r].status = "none" => runRow'[r].status = runRow[r].status
    PROVE  OnlyThread(k)
BY DEF Moved, OnlyThread, ThreadAt, RunOf

\* Rows of a run whose thread is at work.
LEMMA OpenRow ==
    ASSUME EvalInv, NEW k \in Threads, HasRunAlone(k)
    PROVE  /\ RunOf(k) \in Run /\ RunOf(k) \notin mixed
           /\ \A t \in EvalTests : results[RunOf(k)][t] <= 1
           /\ evalThread[k].at \in Working => runRow[RunOf(k)].status \in {"running", "none"}
           /\ TestsAhead(k) /\ TestsInHand(k) /\ WorkIsWhole(k)
<1>1. ThreadLives(k) /\ RunOf(k) \notin mixed BY DEF HasRunAlone
<1>2. RunOf(k) \in Run BY <1>1 DEF EvalInv, EvalTyped, ThreadsTyped, ThreadLives, ThreadAt, RunOf
<1> QED BY <1>1, <1>2 DEF EvalInv, Honesty, OneResult, Aloneness, RowIsOpen, AloneIsOrderly

LEMMA LevelFacts ==
    ASSUME EvalInv, NEW k \in Threads
    PROVE  evalThread[k].level \in Nat /\ evalThread[k].level <= NumLevels /\ NumLevels \in Nat
<1>1. evalThread[k].level \in 0 .. NumLevels BY DEF EvalInv, EvalTyped, ThreadsTyped
<1> QED BY <1>1, TestFacts

LEMMA LevelEnds == ASSUME EvalInv, NEW k \in Threads, EndLevel(k) PROVE EvalInv'
<1>1. /\ evalThread[k].at = "level" /\ UNCHANGED <<engine, rows, domainWork, replay, clearing, evalHistory>>
      /\ ThreadGoes(k, "levels") /\ \A d \in Domain : WorkerAt(k, d, "off")
  BY DEF EndLevel, ThreadAt
<1>2. ThreadLives(k) BY <1>1 DEF ThreadLives
<1>3. ThreadsTyped' /\ WorkTyped' /\ Moved(k, "levels")
  BY <1>1, <1>2, PlaceChanges DEF EvalInv, EvalTyped, EvalPlaces
<1>4. EvalTyped'
  BY <1>1, <1>3 DEF EvalInv, EvalTyped, EngineTyped, RowsTyped, ReplayTyped, Replaying, rows
<1>5. OnlyThread(k) BY <1>1, <1>2, <1>3, MovedIsOnly DEF rows, evalHistory
<1>6. ASSUME HasRunAlone(k) PROVE OwnRunIsKept(k)
  <2>1. /\ runRow[RunOf(k)].status \in {"running", "none"} /\ \A t \in EvalTests : results[RunOf(k)][t] <= 1
        /\ TestsAhead(k) /\ WorkIsWhole(k)
    BY <1>1, <1>6, OpenRow DEF Working
  <2>2. RunOf(k)' = RunOf(k) BY <1>3 DEF Moved, RunOf
  <2>3. TestsAhead(k)'
    BY <1>1, <1>3, <2>1, <2>2 DEF TestsAhead, NotYet, Moved, ThreadAt, Has, rows
  <2>4. TestsInHand(k)' /\ WorkInHand(k)' BY <1>3 DEF TestsInHand, WorkInHand, Moved
  <2>5. NotStopped(k)' = NotStopped(k) BY <1>1, <2>2 DEF NotStopped, rows
  <2>6. ASSUME NEW t \in EvalTests, Behind(k, t)' PROVE Behind(k, t)
    <3>1. t[2] <= evalThread[k].level /\ t[1] \in Domain
      BY <1>3, <2>6, TestFacts DEF Behind, Moved, ThreadAt
    <3>2. t[2] \in Nat /\ evalThread[k].level \in Nat
      BY TestFacts, LevelFacts
    <3> QED BY <1>1, <3>1, <3>2 DEF Behind, ThreadAt
  <2>7. \A t \in EvalTests : IsDone(k, t)' <=> IsDone(k, t)
    BY <1>1, <1>3, <2>2 DEF IsDone, InScore, Has, Moved, rows, evalHistory
  <2>8. Resumes(k)' <=> Resumes(k) BY <1>1, <1>3, <2>2 DEF Resumes, Has, Moved, rows
  <2>9. WorkIsWhole(k)'
    BY <1>1, <1>3, <2>1, <2>4, <2>5, <2>6, <2>7, <2>8 DEF WorkIsWhole, Moved, ThreadAt, Working
  <2> QED BY <1>1, <2>1, <2>3, <2>4, <2>9 DEF OwnRunIsKept, rows
<1> QED BY <1>4, <1>5, <1>6, ThreadGoesOn

\* Places behind the levels: nothing is ahead or in hand.
LEMMA BehindLevels ==
    ASSUME NEW k \in Threads, NEW place, Moved(k, place), place \notin {"levels", "level"}
    PROVE  TestsAhead(k)' /\ TestsInHand(k)' /\ WorkInHand(k)'
BY DEF Moved, TestsAhead, NotYet, ThreadAt, TestsInHand, WorkInHand

LEMMA ScoresAreRecalculated == ASSUME EvalInv, NEW k \in Threads, RecalculateScores(k) PROVE EvalInv'
<1> DEFINE r == RunOf(k)
           found(c) == {t \in TestsIn(c) : Has(r, t)}
           score == [c \in Cell |-> IF found(c) # {} THEN [status |-> "scored", of |-> found(c)] ELSE cellRow[r][c]]
<1>1. /\ evalThread[k].at = "recalc"
      /\ UNCHANGED <<engine, runRow, results, domainWork, replay, clearing, evalHistory>>
      /\ ThreadGoes(k, "summary")
      /\ cellRow' = IF evalThread[k].resumed /\ engine.running THEN [cellRow EXCEPT ![r] = score] ELSE cellRow
  BY DEF RecalculateScores, ThreadAt
<1>2. ThreadLives(k) /\ ~ThreadAt(k, "level") BY <1>1 DEF ThreadLives, ThreadAt
<1>3. ThreadsTyped' /\ WorkTyped' /\ Moved(k, "summary")
  BY <1>1, <1>2, PlaceChanges DEF EvalInv, EvalTyped, EvalPlaces
<1>4. r \in Run BY <1>2 DEF ThreadLives, EvalInv, EvalTyped, ThreadsTyped, ThreadAt, RunOf
<1>5. score \in [Cell -> [status : {"none", "running", "scored"}, of : SUBSET EvalTests]]
  <2>1. cellRow[r] \in [Cell -> [status : {"none", "running", "scored"}, of : SUBSET EvalTests]]
    BY <1>4 DEF EvalInv, EvalTyped, RowsTyped
  <2>2. \A c \in Cell : [status |-> "scored", of |-> found(c)] \in [status : {"none", "running", "scored"}, of : SUBSET EvalTests]
    BY DEF TestsIn
  <2> HIDE DEF found
  <2> QED BY <2>1, <2>2
<1>6. /\ cellRow' \in [Run -> [Cell -> [status : {"none", "running", "scored"}, of : SUBSET EvalTests]]]
      /\ \A s \in Run \ {r} : cellRow'[s] = cellRow[s]
      /\ evalThread[k].resumed /\ engine.running => cellRow'[r] = score
      /\ ~(evalThread[k].resumed /\ engine.running) => cellRow'[r] = cellRow[r]
  <2> HIDE DEF score
  <2>1. cellRow \in [Run -> [Cell -> [status : {"none", "running", "scored"}, of : SUBSET EvalTests]]]
    BY DEF EvalInv, EvalTyped, RowsTyped
  <2> QED BY <1>1, <1>4, <1>5, <2>1
<1>7. EvalTyped'
  BY <1>1, <1>3, <1>6 DEF EvalInv, EvalTyped, EngineTyped, RowsTyped, ReplayTyped, Replaying
<1>8. OnlyThread(k)
  <2> HIDE DEF score
  <2>1. \A s \in Run \ {RunOf(k)} : results'[s] = results[s] /\ cellRow'[s] = cellRow[s]
    BY <1>1, <1>6
  <2> QED BY <1>1, <1>2, <1>3, <2>1, MovedIsOnly DEF evalHistory
<1>9. ASSUME HasRunAlone(k) PROVE OwnRunIsKept(k)
  <2>1. /\ runRow[r].status \in {"running", "none"} /\ \A t \in EvalTests : results[r][t] <= 1
        /\ WorkIsWhole(k)
    BY <1>1, <1>9, OpenRow DEF Working
  <2>2. RunOf(k)' = r BY <1>3 DEF Moved, RunOf
  <2>3. NotStopped(k)' => NotStopped(k) BY <1>1, <2>2 DEF NotStopped
  <2>4. Resumes(k)' <=> Resumes(k) BY <1>1, <1>3, <2>2 DEF Resumes, Has, Moved
  <2>5. ASSUME NotStopped(k)', NEW t \in EvalTests, <<r, t>> \notin raised
        PROVE  Has(r, t) /\ InScore(r, t)'
    <3>1. IsDone(k, t) BY <1>1, <2>1, <2>3, <2>5 DEF WorkIsWhole, Behind, ThreadAt
    <3>2. Has(r, t) BY <2>5, <3>1 DEF IsDone
    <3>3. CASE evalThread[k].resumed
      <4>1. cellRow'[r] = score BY <1>1, <1>6, <2>5, <3>3 DEF NotStopped
      <4>2. <<t[1], t[2]>> \in Cell /\ t \in found(<<t[1], t[2]>>)
        BY <3>2, TestFacts DEF TestsIn
      <4>3. score[<<t[1], t[2]>>] = [status |-> "scored", of |-> found(<<t[1], t[2]>>)] BY <4>2
      <4> HIDE DEF score, found
      <4> QED BY <2>2, <3>2, <4>1, <4>2, <4>3 DEF InScore
    <3>4. CASE ~evalThread[k].resumed
      <4>1. InScore(r, t) BY <2>5, <3>1, <3>4 DEF IsDone
      <4>2. cellRow'[r] = cellRow[r] BY <1>6, <3>4
      <4> QED BY <2>2, <3>2, <4>1, <4>2 DEF InScore
    <3> QED BY <3>3, <3>4
  <2>6. NotStopped(k)' => CountedOrRaised(RunOf(k))'
    <3>1. raised' = raised /\ results' = results BY <1>1 DEF evalHistory
    <3> QED BY <2>2, <2>5, <3>1 DEF CountedOrRaised, Has, InScore
  <2>7. TestsAhead(k)' /\ TestsInHand(k)' /\ WorkInHand(k)' BY <1>3, BehindLevels
  <2>8. WorkIsWhole(k)'
    <3>1. ~ThreadAt(k, "complete")' /\ \A t \in EvalTests : ~Behind(k, t)'
      BY <1>3 DEF Moved, ThreadAt, Behind
    <3>2. NotStopped(k)' => Resumes(k)'
      BY <1>1, <2>1, <2>3, <2>4 DEF WorkIsWhole, Working
    <3> QED BY <2>6, <2>7, <3>1, <3>2 DEF WorkIsWhole
  <2> QED BY <1>1, <2>1, <2>7, <2>8 DEF OwnRunIsKept
<1> QED BY <1>7, <1>8, <1>9, ThreadGoesOn

LEMMA SummaryBegins == ASSUME EvalInv, NEW k \in Threads, BeginSummary(k) PROVE EvalInv'
<1> DEFINE place == IF engine.running THEN "complete" ELSE "finally"
<1>1. /\ evalThread[k].at = "summary" /\ UNCHANGED <<engine, rows, domainWork, replay, clearing, evalHistory>>
      /\ ThreadGoes(k, place)
  BY DEF BeginSummary, ThreadAt
<1>2. ThreadLives(k) /\ ~ThreadAt(k, "level") BY <1>1 DEF ThreadLives, ThreadAt
<1>3. ThreadsTyped' /\ WorkTyped' /\ Moved(k, place)
  <2>1. place \in EvalPlaces \ {"off", "level"} BY DEF EvalPlaces
  <2> HIDE DEF place
  <2> QED BY <1>1, <1>2, <2>1, PlaceChanges DEF EvalInv, EvalTyped
<1>4. EvalTyped'
  BY <1>1, <1>3 DEF EvalInv, EvalTyped, EngineTyped, RowsTyped, ReplayTyped, Replaying, rows
<1>5. OnlyThread(k)
  <2>1. place \notin {"off", "mark"} OBVIOUS
  <2> HIDE DEF place
  <2> QED BY <1>1, <1>2, <1>3, <2>1, MovedIsOnly DEF rows, evalHistory
<1>6. ASSUME HasRunAlone(k) PROVE OwnRunIsKept(k)
  <2>1. /\ runRow[RunOf(k)].status \in {"running", "none"} /\ \A t \in EvalTests : results[RunOf(k)][t] <= 1
        /\ WorkIsWhole(k)
    BY <1>1, <1>6, OpenRow DEF Working
  <2>2. RunOf(k)' = RunOf(k) BY <1>3 DEF Moved, RunOf
  <2>3. NotStopped(k)' = NotStopped(k) BY <1>1, <2>2 DEF NotStopped, rows
  <2>4. Resumes(k)' <=> Resumes(k) BY <1>1, <1>3, <2>2 DEF Resumes, Has, Moved, rows
  <2>5. TestsAhead(k)' /\ TestsInHand(k)' /\ WorkInHand(k)'
    <3>1. place \notin {"levels", "level"} OBVIOUS
    <3> HIDE DEF place
    <3> QED BY <1>3, <3>1, BehindLevels
  <2>6. CountedOrRaised(RunOf(k))' <=> CountedOrRaised(RunOf(k))
    BY <1>1, <2>2 DEF CountedOrRaised, Has, InScore, rows, evalHistory
  <2>7. runRow'[RunOf(k)].status # "none" /\ ThreadAt(k, "complete")' => NotStopped(k)
    BY <1>1, <1>3 DEF Moved, ThreadAt, NotStopped, rows
  <2>8. runRow[RunOf(k)]' = runRow[RunOf(k)] BY <1>1, <2>2 DEF rows
  <2>9. WorkIsWhole(k)'
    <3>1. ~ThreadAt(k, "summary")' /\ \A t \in EvalTests : ~Behind(k, t)'
      BY <1>3 DEF Moved, ThreadAt, Behind
    <3>2. NotStopped(k)' => Resumes(k)'
      BY <1>1, <2>1, <2>3, <2>4 DEF WorkIsWhole, Working
    <3>3. runRow[RunOf(k)]'.status # "none" /\ ThreadAt(k, "complete")' => CountedOrRaised(RunOf(k))'
      BY <1>1, <2>1, <2>6, <2>7, <2>8 DEF WorkIsWhole, ThreadAt, rows
    <3> QED BY <2>5, <3>1, <3>2, <3>3 DEF WorkIsWhole
  <2> QED BY <1>1, <2>1, <2>5, <2>9 DEF OwnRunIsKept, rows
<1> QED BY <1>4, <1>5, <1>6, ThreadGoesOn

LEMMA RunCompletes ==
    ASSUME EvalInv, NEW k \in Threads, NEW ok \in BOOLEAN, CompleteRun(k, ok) PROVE EvalInv'
<1> DEFINE r == RunOf(k)
           whole == [status |-> "completed", dated |-> TRUE]
<1>1. /\ evalThread[k].at = "complete"
      /\ UNCHANGED <<engine, results, cellRow, domainWork, replay, clearing, evalHistory>>
      /\ ThreadGoes(k, "finally")
      /\ runRow' = IF ok /\ runRow[r].status # "none" THEN [runRow EXCEPT ![r] = whole] ELSE runRow
  BY DEF CompleteRun, ThreadAt
<1>2. ThreadLives(k) /\ ~ThreadAt(k, "level") BY <1>1 DEF ThreadLives, ThreadAt
<1>3. ThreadsTyped' /\ WorkTyped' /\ Moved(k, "finally")
  BY <1>1, <1>2, PlaceChanges DEF EvalInv, EvalTyped, EvalPlaces
<1>4. r \in Run BY <1>2 DEF ThreadLives, EvalInv, EvalTyped, ThreadsTyped, ThreadAt, RunOf
<1>5. /\ runRow' \in [Run -> [status : {"none", "running", "interrupted", "completed"}, dated : BOOLEAN]]
      /\ \A s \in Run \ {r} : runRow'[s] = runRow[s]
      /\ runRow'[r].status = "completed" \/ runRow'[r] = runRow[r]
      /\ runRow[r].status = "none" => runRow'[r] = runRow[r]
  BY <1>1, <1>4 DEF EvalInv, EvalTyped, RowsTyped
<1>6. EvalTyped'
  BY <1>1, <1>3, <1>5 DEF EvalInv, EvalTyped, EngineTyped, RowsTyped, ReplayTyped, Replaying
<1>7. OnlyThread(k) BY <1>1, <1>2, <1>3, <1>5, MovedIsOnly DEF evalHistory
<1>8. ASSUME HasRunAlone(k) PROVE OwnRunIsKept(k)
  <2>1. /\ runRow[r].status \in {"running", "none"} /\ \A t \in EvalTests : results[r][t] <= 1
        /\ WorkIsWhole(k)
    BY <1>1, <1>8, OpenRow DEF Working
  <2>2. RunOf(k)' = r BY <1>3 DEF Moved, RunOf
  <2>3. TestsAhead(k)' /\ TestsInHand(k)' /\ WorkInHand(k)' BY <1>3, BehindLevels
  <2>4. WorkIsWhole(k)'
    BY <1>3, <2>3 DEF WorkIsWhole, Moved, ThreadAt, Behind, Working
  <2>5. ASSUME runRow'[r].status = "completed", NEW t \in EvalTests, <<r, t>> \notin raised'
        PROVE  InScore(r, t)' /\ results'[r][t] = 1
    <3>1. runRow[r].status # "none" BY <1>5, <2>5
    <3>2. Has(r, t) /\ InScore(r, t)
      BY <1>1, <2>1, <2>5, <3>1 DEF WorkIsWhole, CountedOrRaised, ThreadAt, evalHistory
    <3>3. results[r][t] \in Nat BY <1>4 DEF EvalInv, EvalTyped, RowsTyped
    <3>4. results[r][t] = 1 BY <2>1, <3>2, <3>3 DEF Has
    <3> QED BY <1>1, <2>2, <3>2, <3>4 DEF InScore
  <2> QED BY <1>1, <1>3, <2>1, <2>3, <2>4, <2>5 DEF OwnRunIsKept, Moved, Working
<1> QED BY <1>6, <1>7, <1>8, ThreadGoesOn

LEMMA EngineIsFreed == ASSUME EvalInv, NEW k \in Threads, FinallyFree(k) PROVE EvalInv'
<1> DEFINE place == IF engine.interrupted THEN "mark" ELSE "ended"
<1>1. /\ evalThread[k].at = "finally" /\ UNCHANGED <<rows, domainWork, replay, evalHistory>>
      /\ evalThread' = [evalThread EXCEPT ![k].at = place, ![k].mark = engine.current]
      /\ engine' = [engine EXCEPT !.running = FALSE]
  BY DEF FinallyFree, ThreadAt
<1>2. /\ ThreadLives(k) /\ ~ThreadAt(k, "level") /\ place \in {"mark", "ended"}
      /\ place \in EvalPlaces \ {"off", "level"}
  BY <1>1 DEF ThreadLives, ThreadAt, EvalPlaces
<1>3. /\ engine'.current = engine.current /\ engine.current \in Run \union {NoRun} /\ EngineTyped'
  BY <1>1 DEF EvalInv, EvalTyped, EngineTyped
<1>4. /\ evalThread'[k].at = place /\ evalThread'[k].run = evalThread[k].run
      /\ evalThread'[k].skip = evalThread[k].skip /\ evalThread'[k].resumed = evalThread[k].resumed
      /\ evalThread'[k].level = evalThread[k].level /\ evalThread'[k].mark = engine.current
      /\ \A j \in Threads \ {k} : evalThread'[j] = evalThread[j]
  <2> HIDE DEF place
  <2> QED BY <1>1 DEF EvalInv, EvalTyped, ThreadsTyped
<1> HIDE DEF place
<1>5. ThreadsTyped'
  <2>1. evalThread' \in [Threads -> [at : EvalPlaces, run : Run \union {NoRun}, resumed : BOOLEAN,
                                     skip : SUBSET EvalTests, level : 0 .. NumLevels,
                                     mark : Run \union {NoRun}]]
    <3> DEFINE S == [at : EvalPlaces, run : Run \union {NoRun}, resumed : BOOLEAN,
                     skip : SUBSET EvalTests, level : 0 .. NumLevels, mark : Run \union {NoRun}]
               r == [evalThread[k] EXCEPT !.at = place, !.mark = engine.current]
    <3>1. evalThread \in [Threads -> S] BY DEF EvalInv, EvalTyped, ThreadsTyped
    <3>2. r \in S BY <1>2, <1>3, <3>1
    <3>3. evalThread' = [evalThread EXCEPT ![k] = r] BY <1>1
    <3> HIDE DEF r, S
    <3>4. evalThread' \in [Threads -> S] BY <3>1, <3>2, <3>3
    <3> QED BY <3>4 DEF S
  <2>2. \A j \in Threads : ThreadAt(j, "off")' <=> ThreadAt(j, "off")
    BY <1>1, <1>2, <1>4 DEF ThreadAt
  <2>3. \A j \in Threads : ThreadAt(j, "level")' => ThreadAt(j, "level") BY <1>2, <1>4 DEF ThreadAt
  <2> QED BY <1>4, <2>1, <2>2, <2>3 DEF EvalInv, EvalTyped, ThreadsTyped, RunOf
<1>6. WorkTyped'
  <2>1. \A j \in Threads : ThreadAt(j, "level")' <=> ThreadAt(j, "level")
    BY <1>1, <1>2, <1>4 DEF ThreadAt
  <2> QED BY <1>1, <2>1 DEF EvalInv, EvalTyped, WorkTyped, WorkerAt
<1>7. EvalTyped' BY <1>1, <1>3, <1>5, <1>6 DEF EvalInv, EvalTyped, RowsTyped, ReplayTyped, Replaying, rows
<1>8. OnlyThread(k)
  <2>1. engine.current \in KnownRuns(k) BY <1>2 DEF EvalInv, Aloneness, EngineKnowsIt
  <2> QED BY <1>1, <1>2, <1>3, <1>4, <2>1 DEF OnlyThread, ThreadAt, rows, evalHistory
<1>9. ASSUME HasRunAlone(k) PROVE OwnRunIsKept(k)
  <2>1. RunOf(k) \in Run \ mixed /\ \A t \in EvalTests : results[RunOf(k)][t] <= 1
    BY <1>9, OpenRow
  <2>2. RunOf(k)' = RunOf(k) BY <1>4 DEF RunOf
  <2>3. \A d \in Domain : domainWork'[k][d].at = "off"
    BY <1>1, <1>2 DEF EvalInv, EvalTyped, WorkTyped, WorkerAt
  <2>4. TestsAhead(k)' /\ TestsInHand(k)' /\ WorkInHand(k)'
    BY <1>2, <1>4, <2>3 DEF TestsAhead, NotYet, ThreadAt, TestsInHand, WorkInHand
  <2>5. WorkIsWhole(k)' BY <1>2, <1>4, <2>4 DEF WorkIsWhole, ThreadAt, Behind, Working
  <2>6. ASSUME runRow'[RunOf(k)].status = "completed", NEW t \in EvalTests, <<RunOf(k), t>> \notin raised'
        PROVE  InScore(RunOf(k), t)' /\ results'[RunOf(k)][t] = 1
    <3>1. /\ runRow[RunOf(k)].status = "completed" /\ <<RunOf(k), t>> \notin raised
          /\ results' = results /\ cellRow' = cellRow
      BY <1>1, <2>6 DEF rows, evalHistory
    <3>2. replay # [run |-> RunOf(k), test |-> t]
      <4>1. Replaying => replay.run # RunOf(k)
        BY <1>2, <2>1 DEF EvalInv, Honesty, ReplayIsAlone
      <4>2. RunOf(k) # NoRun BY <2>1, TestFacts
      <4> QED BY <4>1, <4>2 DEF Replaying
    <3>3. InScore(RunOf(k), t) /\ results[RunOf(k)][t] = 1
      BY <2>1, <3>1, <3>2 DEF EvalInv, Honesty, CompletedIsCounted
    <3> QED BY <2>2, <3>1, <3>3 DEF InScore
  <2> QED BY <1>1, <1>2, <1>4, <2>1, <2>4, <2>5, <2>6 DEF OwnRunIsKept, Working, rows
<1> QED BY <1>7, <1>8, <1>9, ThreadGoesOn

LEMMA RunIsMarked == ASSUME EvalInv, NEW k \in Threads, MarkIncomplete(k) PROVE EvalInv'
<1> DEFINE r == evalThread[k].mark
<1>1. /\ evalThread[k].at = "mark"
      /\ UNCHANGED <<engine, results, cellRow, domainWork, replay, clearing, evalHistory>>
      /\ ThreadGoes(k, "ended")
      /\ runRow' = IF r # NoRun /\ runRow[r].status # "none"
                   THEN [runRow EXCEPT ![r].status = "interrupted"] ELSE runRow
  BY DEF MarkIncomplete, ThreadAt
<1>2. ThreadLives(k) /\ ~ThreadAt(k, "level") BY <1>1 DEF ThreadLives, ThreadAt
<1>3. ThreadsTyped' /\ WorkTyped' /\ Moved(k, "ended")
  BY <1>1, <1>2, PlaceChanges DEF EvalInv, EvalTyped, EvalPlaces
<1>4. r \in Run \union {NoRun} /\ r \in KnownRuns(k) /\ RunOf(k) \in Run
  BY <1>1, <1>2 DEF EvalInv, EvalTyped, ThreadsTyped, Aloneness, EngineKnowsIt, ThreadAt, ThreadLives, RunOf
<1>5. /\ runRow' \in [Run -> [status : {"none", "running", "interrupted", "completed"}, dated : BOOLEAN]]
      /\ \A s \in Run \ {r} : runRow'[s] = runRow[s]
      /\ r \in Run => runRow'[r].status = "interrupted" \/ runRow'[r] = runRow[r]
      /\ r \in Run => (runRow[r].status = "none" => runRow'[r] = runRow[r])
  <2> HIDE DEF r
  <2> QED BY <1>1, <1>4, TestFacts DEF EvalInv, EvalTyped, RowsTyped
<1>6. EvalTyped'
  BY <1>1, <1>3, <1>5 DEF EvalInv, EvalTyped, EngineTyped, RowsTyped, ReplayTyped, Replaying
<1>7. OnlyThread(k)
  <2>1. \A s \in Run \ {RunOf(k)} :
          s \notin mixed \/ runRow[s].status = "none" => runRow'[s].status = runRow[s].status
    BY <1>4, <1>5, TestFacts DEF KnownRuns
  <2> QED BY <1>1, <1>2, <1>3, <2>1, MovedIsOnly DEF evalHistory
<1>8. ASSUME HasRunAlone(k) PROVE OwnRunIsKept(k)
  <2>1. RunOf(k) \in Run \ mixed /\ \A t \in EvalTests : results[RunOf(k)][t] <= 1
    BY <1>8, OpenRow
  <2>2. RunOf(k)' = RunOf(k) BY <1>3 DEF Moved, RunOf
  <2>3. TestsAhead(k)' /\ TestsInHand(k)' /\ WorkInHand(k)' BY <1>3, BehindLevels
  <2>4. WorkIsWhole(k)'
    BY <1>3, <2>3 DEF WorkIsWhole, Moved, ThreadAt, Behind, Working
  <2>5. ASSUME runRow'[RunOf(k)].status = "completed", NEW t \in EvalTests, <<RunOf(k), t>> \notin raised'
        PROVE  InScore(RunOf(k), t)' /\ results'[RunOf(k)][t] = 1
    <3>1. /\ runRow[RunOf(k)].status = "completed" /\ <<RunOf(k), t>> \notin raised
          /\ results' = results /\ cellRow' = cellRow
      <4> HIDE DEF r
      <4> QED BY <1>1, <1>5, <2>1, <2>5 DEF evalHistory
    <3>2. replay # [run |-> RunOf(k), test |-> t]
      <4>1. Replaying => replay.run # RunOf(k)
        BY <1>2, <2>1 DEF EvalInv, Honesty, ReplayIsAlone
      <4>2. RunOf(k) # NoRun BY <2>1, TestFacts
      <4> QED BY <4>1, <4>2 DEF Replaying
    <3>3. InScore(RunOf(k), t) /\ results[RunOf(k)][t] = 1
      BY <2>1, <3>1, <3>2 DEF EvalInv, Honesty, CompletedIsCounted
    <3> QED BY <2>2, <3>1, <3>3 DEF InScore
  <2> QED BY <1>1, <1>3, <2>1, <2>3, <2>4, <2>5 DEF OwnRunIsKept, Moved, Working
<1> QED BY <1>6, <1>7, <1>8, ThreadGoesOn

LEMMA LevelIsEntered == ASSUME EvalInv, NEW k \in Threads, EnterLevel(k) PROVE EvalInv'
<1> DEFINE next == evalThread[k].level + 1
<1>1. /\ evalThread[k].at = "levels" /\ UNCHANGED <<engine, rows, replay, clearing, evalHistory>>
  BY DEF EnterLevel, ThreadAt
<1>2. ThreadLives(k) /\ ~ThreadAt(k, "level") BY <1>1 DEF ThreadLives, ThreadAt
<1>3. /\ evalThread[k].level \in Nat /\ evalThread[k].level <= NumLevels /\ NumLevels \in Nat
  BY LevelFacts
<1>4. \A t \in EvalTests : t[2] \in Nat /\ t[2] <= NumLevels BY TestFacts
<1>5. CASE ~(engine.running /\ next \in Level)
  <2>1. ThreadGoes(k, "recalc") /\ UNCHANGED domainWork BY <1>5 DEF EnterLevel
  <2>2. ThreadsTyped' /\ WorkTyped' /\ Moved(k, "recalc")
    BY <1>2, <2>1, PlaceChanges DEF EvalInv, EvalTyped, EvalPlaces
  <2>3. EvalTyped'
    BY <1>1, <2>2 DEF EvalInv, EvalTyped, EngineTyped, RowsTyped, ReplayTyped, Replaying, rows
  <2>4. OnlyThread(k) BY <1>1, <1>2, <2>2, MovedIsOnly DEF rows, evalHistory
  <2>5. ASSUME HasRunAlone(k) PROVE OwnRunIsKept(k)
    <3>1. /\ runRow[RunOf(k)].status \in {"running", "none"} /\ \A t \in EvalTests : results[RunOf(k)][t] <= 1
          /\ WorkIsWhole(k)
      BY <1>1, <2>5, OpenRow DEF Working
    <3>2. RunOf(k)' = RunOf(k) BY <2>2 DEF Moved, RunOf
    <3>3. NotStopped(k)' = NotStopped(k) BY <1>1, <3>2 DEF NotStopped, rows
    <3>4. Resumes(k)' <=> Resumes(k) BY <1>1, <2>2, <3>2 DEF Resumes, Has, Moved, rows
    <3>5. TestsAhead(k)' /\ TestsInHand(k)' /\ WorkInHand(k)' BY <2>2, BehindLevels
    <3>6. ASSUME NotStopped(k), NEW t \in EvalTests PROVE IsDone(k, t)'
      <4>1. next \notin Level BY <1>5, <3>6 DEF NotStopped
      <4>2. t[2] <= evalThread[k].level BY <1>3, <1>4, <4>1 DEF Level
      <4>3. IsDone(k, t) BY <1>1, <3>1, <3>6, <4>2 DEF WorkIsWhole, Behind, ThreadAt
      <4> QED BY <1>1, <2>2, <3>2, <4>3 DEF IsDone, InScore, Has, Moved, rows, evalHistory
    <3>7. WorkIsWhole(k)'
      <4>1. ~ThreadAt(k, "summary")' /\ ~ThreadAt(k, "complete")' BY <2>2 DEF Moved, ThreadAt
      <4>2. NotStopped(k)' => Resumes(k)' BY <1>1, <3>1, <3>3, <3>4 DEF WorkIsWhole, Working
      <4> QED BY <3>3, <3>5, <3>6, <4>1, <4>2 DEF WorkIsWhole
    <3> QED BY <1>1, <3>1, <3>5, <3>7 DEF OwnRunIsKept, rows
  <2> QED BY <2>3, <2>4, <2>5, ThreadGoesOn
<1>6. CASE engine.running /\ next \in Level
  <2> DEFINE queue == [d \in Domain |-> [OffWorker EXCEPT !.at = "queued"]]
  <2>1. /\ evalThread' = [evalThread EXCEPT ![k].at = "level", ![k].level = next]
        /\ domainWork' = [domainWork EXCEPT ![k] = queue]
    BY <1>6 DEF EnterLevel
  <2>2. /\ evalThread'[k].at = "level" /\ evalThread'[k].run = evalThread[k].run
        /\ evalThread'[k].skip = evalThread[k].skip /\ evalThread'[k].resumed = evalThread[k].resumed
        /\ evalThread'[k].level = next
        /\ \A j \in Threads \ {k} : evalThread'[j] = evalThread[j]
    BY <2>1 DEF EvalInv, EvalTyped, ThreadsTyped
  <2>3. /\ queue \in [Domain -> [at : WorkerPlaces, todo : SUBSET EvalTests, did : SUBSET EvalTests]]
        /\ \A d \in Domain : queue[d].at = "queued"
    BY DEF OffWorker, WorkerPlaces
  <2> HIDE DEF queue
  <2>4. domainWork'[k] = queue /\ \A j \in Threads \ {k} : domainWork'[j] = domainWork[j]
    BY <2>1 DEF EvalInv, EvalTyped, WorkTyped
  <2>5. ThreadsTyped'
    <3> DEFINE S == [at : EvalPlaces, run : Run \union {NoRun}, resumed : BOOLEAN,
                     skip : SUBSET EvalTests, level : 0 .. NumLevels, mark : Run \union {NoRun}]
               r == [evalThread[k] EXCEPT !.at = "level", !.level = next]
    <3>1. evalThread \in [Threads -> S] BY DEF EvalInv, EvalTyped, ThreadsTyped
    <3>2. next \in 0 .. NumLevels BY <1>3, <1>6 DEF Level
    <3>3. r \in S
      <4> HIDE DEF next
      <4> QED BY <3>1, <3>2 DEF EvalPlaces
    <3>4. evalThread' = [evalThread EXCEPT ![k] = r] BY <2>1
    <3> HIDE DEF r, S
    <3>5. evalThread' \in [Threads -> S] BY <3>1, <3>3, <3>4
    <3>6. evalThread' \in [Threads -> [at : EvalPlaces, run : Run \union {NoRun}, resumed : BOOLEAN,
                     skip : SUBSET EvalTests, level : 0 .. NumLevels, mark : Run \union {NoRun}]]
      BY <3>5 DEF S
    <3>7. \A j \in Threads : ThreadAt(j, "off")' <=> ThreadAt(j, "off")
      BY <1>1, <2>2 DEF ThreadAt
    <3>8. \A j \in Threads : ThreadAt(j, "level")' => evalThread'[j].level \in Level
      BY <1>6, <2>2 DEF ThreadAt, EvalInv, EvalTyped, ThreadsTyped
    <3>9. \A j \in Threads : evalThread'[j].skip = evalThread[j].skip
                             /\ evalThread'[j].resumed = evalThread[j].resumed
                             /\ evalThread'[j].run = evalThread[j].run
      BY <2>2
    <3> QED BY <3>6, <3>7, <3>8, <3>9 DEF EvalInv, EvalTyped, ThreadsTyped, RunOf
  <2>6. WorkTyped'
    <3>1. domainWork' \in [Threads -> [Domain -> [at : WorkerPlaces, todo : SUBSET EvalTests, did : SUBSET EvalTests]]]
      BY <2>1, <2>3 DEF EvalInv, EvalTyped, WorkTyped
    <3>2. \A j \in Threads : ~ThreadAt(j, "level")' => j # k /\ ~ThreadAt(j, "level")
      BY <2>2 DEF ThreadAt
    <3> QED BY <2>4, <3>1, <3>2 DEF EvalInv, EvalTyped, WorkTyped, WorkerAt
  <2>7. EvalTyped'
    BY <1>1, <2>5, <2>6 DEF EvalInv, EvalTyped, EngineTyped, RowsTyped, ReplayTyped, Replaying, rows
  <2>8. OnlyThread(k) BY <1>1, <1>2, <2>2, <2>4 DEF OnlyThread, ThreadAt, rows, evalHistory
  <2>9. ASSUME HasRunAlone(k) PROVE OwnRunIsKept(k)
    <3>1. /\ runRow[RunOf(k)].status \in {"running", "none"} /\ \A t \in EvalTests : results[RunOf(k)][t] <= 1
          /\ TestsAhead(k) /\ WorkIsWhole(k)
      BY <1>1, <2>9, OpenRow DEF Working
    <3>2. RunOf(k)' = RunOf(k) BY <2>2 DEF RunOf
    <3>3. NotStopped(k)' = NotStopped(k) BY <1>1, <3>2 DEF NotStopped, rows
    <3>4. Resumes(k)' <=> Resumes(k) BY <1>1, <2>2, <3>2 DEF Resumes, Has, rows
    <3>5. TestsAhead(k)'
      <4>1. ASSUME NEW t \in EvalTests, NotYet(k, t)' PROVE NotYet(k, t)
        <5>1. t[2] >= next BY <1>3, <1>4, <2>2, <4>1 DEF NotYet, ThreadAt
        <5> QED BY <1>1, <1>3, <1>4, <5>1 DEF NotYet
      <4> QED BY <1>1, <2>2, <3>1, <3>2, <4>1 DEF TestsAhead, Has, rows
    <3>6. TestsInHand(k)' /\ WorkInHand(k)' BY <2>3, <2>4 DEF TestsInHand, WorkInHand
    <3>7. ASSUME NEW t \in EvalTests, Behind(k, t)' PROVE Behind(k, t)
      <4>1. \A d \in Domain : ~WorkerAt(k, d, "off")' BY <2>3, <2>4 DEF WorkerAt
      <4>2. t[2] < next BY <2>2, <3>7, <4>1, TestFacts DEF Behind, ThreadAt
      <4> QED BY <1>1, <1>3, <1>4, <4>2 DEF Behind, ThreadAt
    <3>8. \A t \in EvalTests : IsDone(k, t)' <=> IsDone(k, t)
      BY <1>1, <2>2, <3>2 DEF IsDone, InScore, Has, rows, evalHistory
    <3>9. WorkIsWhole(k)'
      <4>1. ~ThreadAt(k, "summary")' /\ ~ThreadAt(k, "complete")' BY <2>2 DEF ThreadAt
      <4>2. NotStopped(k)' => Resumes(k)' BY <1>1, <3>1, <3>3, <3>4 DEF WorkIsWhole, Working
      <4> QED BY <3>1, <3>3, <3>6, <3>7, <3>8, <4>1, <4>2 DEF WorkIsWhole
    <3> QED BY <1>1, <3>1, <3>5, <3>6, <3>9 DEF OwnRunIsKept, rows
  <2> QED BY <2>7, <2>8, <2>9, ThreadGoesOn
<1> QED BY <1>5, <1>6

-----------------------------------------------------------------------------
\* A worker goes on, and the thread stays at its level.
WorkerRecords == [at : WorkerPlaces, todo : SUBSET EvalTests, did : SUBSET EvalTests]
WorkerMoved(k, d, w) ==
    /\ evalThread' = evalThread
    /\ \A j \in Threads \ {k} : domainWork'[j] = domainWork[j]
    /\ \A e \in Domain \ {d} : domainWork'[k][e] = domainWork[k][e]
    /\ domainWork'[k][d] = w

LEMMA WorkerMoves ==
    ASSUME EvalInv, NEW k \in Threads, NEW d \in Domain, NEW w \in WorkerRecords,
           ~WorkerAt(k, d, "off"), UNCHANGED evalThread,
           domainWork' = [domainWork EXCEPT ![k][d] = w]
    PROVE  /\ ThreadAt(k, "level") /\ RunOf(k) \in Run /\ CellOf(k, d) \in Cell
           /\ ThreadsTyped' /\ WorkTyped' /\ WorkerMoved(k, d, w)
<1>1. ThreadsTyped /\ WorkTyped BY DEF EvalInv, EvalTyped
<1>2. ThreadAt(k, "level") BY <1>1 DEF WorkTyped
<1>3. RunOf(k) \in Run /\ evalThread[k].level \in Level BY <1>1, <1>2 DEF ThreadsTyped, ThreadAt, RunOf
<1>4. CellOf(k, d) \in Cell BY <1>3 DEF CellOf, Cell
<1>5. ThreadsTyped' BY <1>1 DEF ThreadsTyped, RunOf, ThreadAt
<1>6. domainWork \in [Threads -> [Domain -> WorkerRecords]] BY <1>1 DEF WorkTyped, WorkerRecords
<1>7. domainWork' \in [Threads -> [Domain -> WorkerRecords]] BY <1>6
<1>8. WorkerMoved(k, d, w) BY <1>6 DEF WorkerMoved
<1>9. \A j \in Threads : ~ThreadAt(j, "level")' => j # k /\ ~ThreadAt(j, "level") BY <1>2 DEF ThreadAt
<1>10. WorkTyped'
  <2>1. \A j \in Threads : ~ThreadAt(j, "level")' => \A e \in Domain : WorkerAt(j, e, "off")'
    BY <1>1, <1>8, <1>9 DEF WorkTyped, WorkerMoved, WorkerAt
  <2> QED BY <1>7, <2>1 DEF WorkTyped, WorkerRecords
<1> QED BY <1>2, <1>3, <1>4, <1>5, <1>8, <1>10

\* What the worker of a domain may do to a run that its thread has to itself.
WorkerIsOrderly(k, d, w) ==
    /\ \A t \in EvalTests : results'[RunOf(k)][t] <= 1 /\ (Has(RunOf(k), t) => results'[RunOf(k)][t] > 0)
    /\ \A t \in EvalTests \ TestsIn(CellOf(k, d)) : results'[RunOf(k)][t] = results[RunOf(k)][t]
    /\ \A c \in Cell \ {CellOf(k, d)} : cellRow'[RunOf(k)][c] = cellRow[RunOf(k)][c]
    /\ w.at \in {"next", "testing"} =>
         \A t \in w.todo : t \in TestsIn(CellOf(k, d)) /\ results'[RunOf(k)][t] = 0
    /\ NotStopped(k) /\ w.at \in {"next", "testing", "score"} => HandIsWhole(k, d, w)'
    /\ NotStopped(k) /\ w.at = "off" => \A t \in TestsIn(CellOf(k, d)) : IsDone(k, t)'

LEMMA WorkerGoesOn ==
    ASSUME EvalInv, NEW k \in Threads, NEW d \in Domain, NEW w, EvalTyped', ThreadAt(k, "level"),
           WorkerMoved(k, d, w), w.at # "queued", UNCHANGED <<engine, runRow, replay, mixed>>,
           raised \subseteq raised',
           \A r \in Run \ {RunOf(k)} : results'[r] = results[r] /\ cellRow'[r] = cellRow[r],
           HasRunAlone(k) => WorkerIsOrderly(k, d, w)
    PROVE  EvalInv'
<1> DEFINE r == RunOf(k)
<1>1. /\ evalThread' = evalThread /\ evalThread[k].at = "level" /\ ThreadLives(k)
      /\ domainWork'[k][d] = w /\ (\A e \in Domain \ {d} : domainWork'[k][e] = domainWork[k][e])
      /\ RunOf(k)' = r
  BY DEF WorkerMoved, ThreadAt, ThreadLives, RunOf
<1>2. OnlyThread(k)
  BY <1>1 DEF OnlyThread, WorkerMoved, ThreadAt
<1>3. ASSUME HasRunAlone(k) PROVE OwnRunIsKept(k)
  <2>1. /\ runRow[r].status \in {"running", "none"} /\ r \in Run
        /\ TestsAhead(k) /\ TestsInHand(k) /\ WorkIsWhole(k)
    BY <1>1, <1>3, OpenRow DEF Working
  <2>2. /\ \A t \in EvalTests : results'[r][t] <= 1 /\ (Has(r, t) => results'[r][t] > 0)
        /\ \A t \in EvalTests \ TestsIn(CellOf(k, d)) : results'[r][t] = results[r][t]
        /\ \A c \in Cell \ {CellOf(k, d)} : cellRow'[r][c] = cellRow[r][c]
        /\ w.at \in {"next", "testing"} =>
             \A t \in w.todo : t \in TestsIn(CellOf(k, d)) /\ results'[r][t] = 0
        /\ NotStopped(k) /\ w.at \in {"next", "testing", "score"} => HandIsWhole(k, d, w)'
        /\ NotStopped(k) /\ w.at = "off" => \A t \in TestsIn(CellOf(k, d)) : IsDone(k, t)'
    BY <1>3 DEF WorkerIsOrderly
  <2>3. NotStopped(k)' = NotStopped(k) BY <1>1 DEF NotStopped
  <2>4. \A t \in EvalTests : t \in TestsIn(CellOf(k, d)) <=> t[1] = d /\ t[2] = evalThread[k].level
    BY DEF TestsIn, CellOf
  <2>5. \A e \in Domain : CellOf(k, e)' = CellOf(k, e) BY <1>1 DEF CellOf
  <2>6. TestsAhead(k)'
    <3> SUFFICES ASSUME NEW t \in EvalTests, NotYet(k, t)', Has(RunOf(k), t)' PROVE t \in evalThread'[k].skip
      BY DEF TestsAhead
    <3>1. t[1] = d /\ t[2] = evalThread[k].level => ~WorkerAt(k, t[1], "queued")'
      BY <1>1 DEF WorkerAt
    <3>2. t[2] \in Nat /\ evalThread[k].level \in Nat /\ t[1] \in Domain BY TestFacts, LevelFacts
    <3>3. ~(t[1] = d /\ t[2] = evalThread[k].level)
      <4> SUFFICES ASSUME t[1] = d, t[2] = evalThread[k].level PROVE FALSE
        OBVIOUS
      <4>1. ~(t[2] > evalThread[k].level) BY <3>2
      <4> QED BY <1>1, <3>1, <4>1 DEF NotYet, ThreadAt
    <3>4. t \in EvalTests \ TestsIn(CellOf(k, d)) BY <2>4, <3>3
    <3>5. NotYet(k, t)
      <4>1. t[1] # d => (WorkerAt(k, t[1], "queued")' <=> WorkerAt(k, t[1], "queued"))
        BY <1>1, <3>2 DEF WorkerAt
      <4>2. t[1] = d => t[2] # evalThread[k].level BY <3>3
      <4> QED BY <1>1, <4>1, <4>2 DEF NotYet, ThreadAt
    <3>6. Has(r, t) BY <1>1, <2>2, <3>4 DEF Has
    <3> QED BY <1>1, <2>1, <3>5, <3>6 DEF TestsAhead
  <2>7. TestsInHand(k)'
    <3> SUFFICES ASSUME NEW e \in Domain, domainWork'[k][e].at \in {"next", "testing"},
                        NEW t \in domainWork'[k][e].todo
                 PROVE  t \in TestsIn(CellOf(k, e)') /\ results'[r][t] = 0
      BY <1>1 DEF TestsInHand, TestsIn
    <3>1. CASE e = d BY <1>1, <2>2, <2>5, <3>1
    <3>2. CASE e # d
      <4>1. t \in TestsIn(CellOf(k, e)) /\ results[r][t] = 0
        BY <1>1, <2>1, <3>2 DEF TestsInHand
      <4>2. t \in EvalTests /\ t[1] = e BY <4>1 DEF TestsIn, CellOf
      <4>3. t \in EvalTests \ TestsIn(CellOf(k, d)) BY <2>4, <3>2, <4>2
      <4> QED BY <2>2, <2>5, <4>1, <4>3
    <3> QED BY <3>1, <3>2
  <2>8. \A t \in EvalTests \ TestsIn(CellOf(k, d)) : IsDone(k, t) => IsDone(k, t)'
    <3> SUFFICES ASSUME NEW t \in EvalTests \ TestsIn(CellOf(k, d)), IsDone(k, t) PROVE IsDone(k, t)'
      OBVIOUS
    <3>1. <<t[1], t[2]>> \in Cell \ {CellOf(k, d)} BY <2>4, TestFacts DEF CellOf
    <3>2. Has(r, t) => Has(r, t)' BY <1>1, <2>2 DEF Has
    <3>3. InScore(r, t) => InScore(r, t)' BY <1>1, <2>2, <3>1 DEF InScore
    <3> QED BY <1>1, <3>2, <3>3 DEF IsDone, Has, InScore
  <2>9. NotStopped(k) => \A t \in EvalTests : Behind(k, t)' => IsDone(k, t)'
    <3> SUFFICES ASSUME NotStopped(k), NEW t \in EvalTests, Behind(k, t)' PROVE IsDone(k, t)'
      OBVIOUS
    <3>1. CASE t \in TestsIn(CellOf(k, d))
      <4>1. t[1] = d /\ t[2] = evalThread[k].level /\ t[2] \in Nat BY <2>4, <3>1, TestFacts
      <4>2. w.at = "off"
        <5>1. ~(t[2] < evalThread[k].level) BY <4>1
        <5> QED BY <1>1, <4>1, <5>1 DEF Behind, ThreadAt, WorkerAt
      <4> QED BY <2>2, <3>1, <4>2
    <3>2. CASE t \notin TestsIn(CellOf(k, d))
      <4>1. Behind(k, t)
        <5>1. t[1] # d \/ t[2] # evalThread[k].level BY <2>4, <3>2
        <5>2. t[1] \in Domain BY TestFacts
        <5>3. t[1] # d => (WorkerAt(k, t[1], "off")' <=> WorkerAt(k, t[1], "off"))
          BY <1>1, <5>2 DEF WorkerAt
        <5> QED BY <1>1, <5>1, <5>3 DEF Behind, ThreadAt
      <4>2. IsDone(k, t) BY <2>1, <4>1 DEF WorkIsWhole
      <4> QED BY <2>8, <3>2, <4>2
    <3> QED BY <3>1, <3>2
  <2>10. NotStopped(k) => WorkInHand(k)'
    <3> SUFFICES ASSUME NotStopped(k), NEW e \in Domain,
                        domainWork'[k][e].at \in {"next", "testing", "score"}
                 PROVE  HandIsWhole(k, e, domainWork[k][e])'
      BY DEF WorkInHand
    <3>1. CASE e = d
      <4>1. HandIsWhole(k, d, w)' BY <1>1, <2>2, <3>1
      <4> QED BY <1>1, <3>1, <4>1 DEF HandIsWhole
    <3>2. CASE e # d
      <4>1. domainWork'[k][e] = domainWork[k][e] BY <1>1, <3>2
      <4>2. HandIsWhole(k, e, domainWork[k][e]) BY <2>1, <4>1 DEF WorkIsWhole, WorkInHand
      <4>3. domainWork[k][e].did \subseteq EvalTests
        BY DEF EvalInv, EvalTyped, WorkTyped
      <4>4. \A t \in domainWork[k][e].did : results'[r][t] > 0 BY <2>2, <4>2, <4>3 DEF HandIsWhole
      <4> QED BY <1>1, <2>5, <4>1, <4>2, <4>4 DEF HandIsWhole, Has
    <3> QED BY <3>1, <3>2
  <2>11. NotStopped(k) => Resumes(k)'
    <3>1. NotStopped(k) => Resumes(k) BY <1>1, <2>1 DEF WorkIsWhole, Working
    <3>2. evalThread[k].skip \subseteq EvalTests BY DEF EvalInv, EvalTyped, ThreadsTyped
    <3> QED BY <1>1, <2>2, <3>1, <3>2 DEF Resumes, Has
  <2>12. WorkIsWhole(k)'
    <3>1. ~ThreadAt(k, "summary")' /\ ~ThreadAt(k, "complete")' BY <1>1 DEF ThreadAt
    <3> QED BY <2>3, <2>9, <2>10, <2>11, <3>1 DEF WorkIsWhole
  <2> QED BY <1>1, <2>1, <2>2, <2>6, <2>7, <2>12 DEF OwnRunIsKept
<1> QED BY <1>2, <1>3, ThreadGoesOn

LEMMA OffWorkerFacts == OffWorker \in WorkerRecords /\ OffWorker.at = "off"
BY DEF OffWorker, WorkerRecords, WorkerPlaces

\* A run that the worker of its thread leaves alone.
LEMMA RowsAreLeft ==
    ASSUME EvalInv, NEW k \in Threads, HasRunAlone(k), results' = results, evalThread' = evalThread
    PROVE  /\ \A t \in EvalTests :
                /\ results'[RunOf(k)][t] <= 1
                /\ Has(RunOf(k), t) => results'[RunOf(k)][t] > 0
           /\ RunOf(k)' = RunOf(k) /\ \A t : Has(RunOf(k), t)' <=> Has(RunOf(k), t)
BY OpenRow DEF Has, RunOf

LEMMA DomainIsSkipped ==
    ASSUME EvalInv, NEW k \in Threads, NEW d \in Domain, SkipDomain(k, d) PROVE EvalInv'
<1>1. /\ domainWork[k][d].at = "queued" /\ ~engine.running
      /\ domainWork' = [domainWork EXCEPT ![k][d] = OffWorker]
      /\ UNCHANGED <<engine, runRow, results, cellRow, evalThread, replay, mixed, raised>>
  BY DEF SkipDomain, WorkerAt, rows, evalHistory
<1>2. /\ ThreadAt(k, "level") /\ ThreadsTyped' /\ WorkTyped' /\ WorkerMoved(k, d, OffWorker)
  BY <1>1, WorkerMoves, OffWorkerFacts DEF WorkerAt
<1>3. EvalTyped'
  BY <1>1, <1>2 DEF EvalInv, EvalTyped, EngineTyped, RowsTyped, ReplayTyped, Replaying
<1>4. ASSUME HasRunAlone(k) PROVE WorkerIsOrderly(k, d, OffWorker)
  BY <1>1, <1>4, RowsAreLeft, OffWorkerFacts DEF WorkerIsOrderly, NotStopped
<1> QED BY <1>1, <1>2, <1>3, <1>4, OffWorkerFacts, WorkerGoesOn

LEMMA TestsAreLoaded ==
    ASSUME EvalInv, NEW k \in Threads, NEW d \in Domain, LoadTests(k, d) PROVE EvalInv'
<1> DEFINE left == TestsIn(CellOf(k, d)) \ evalThread[k].skip
           r == RunOf(k)
<1>1. /\ domainWork[k][d].at = "queued"
      /\ UNCHANGED <<engine, runRow, results, evalThread, replay, mixed, raised>>
  BY DEF LoadTests, WorkerAt, evalHistory
<1>2. ~WorkerAt(k, d, "off") BY <1>1 DEF WorkerAt
<1>3. evalThread[k].skip \subseteq EvalTests /\ (~evalThread[k].resumed => evalThread[k].skip = {})
  BY DEF EvalInv, EvalTyped, ThreadsTyped
<1>4. CASE left = {}
  <2>1. domainWork' = [domainWork EXCEPT ![k][d] = OffWorker] /\ cellRow' = cellRow
    BY <1>4 DEF LoadTests
  <2>2. /\ ThreadAt(k, "level") /\ ThreadsTyped' /\ WorkTyped' /\ WorkerMoved(k, d, OffWorker)
    BY <1>1, <1>2, <2>1, WorkerMoves, OffWorkerFacts
  <2>3. EvalTyped'
    BY <1>1, <2>1, <2>2 DEF EvalInv, EvalTyped, EngineTyped, RowsTyped, ReplayTyped, Replaying
  <2>4. ASSUME HasRunAlone(k) PROVE WorkerIsOrderly(k, d, OffWorker)
    <3>1. NotStopped(k) => \A t \in evalThread[k].skip : Has(r, t)
      BY <2>2, <2>4, OpenRow DEF WorkIsWhole, Working, ThreadAt, Resumes
    <3>2. /\ RunOf(k)' = r /\ (\A t : Has(r, t)' <=> Has(r, t))
          /\ \A t \in EvalTests : results'[r][t] <= 1 /\ (Has(r, t) => results'[r][t] > 0)
      BY <1>1, <2>4, RowsAreLeft
    <3>3. ASSUME NotStopped(k), NEW t \in TestsIn(CellOf(k, d)) PROVE IsDone(k, t)'
      <4>1. Has(r, t)' /\ evalThread'[k].resumed BY <1>1, <1>3, <1>4, <3>1, <3>2, <3>3
      <4> QED BY <3>2, <4>1 DEF IsDone, Has
    <3> QED BY <1>1, <2>1, <3>2, <3>3, OffWorkerFacts DEF WorkerIsOrderly
  <2> QED BY <1>1, <2>1, <2>2, <2>3, <2>4, OffWorkerFacts, WorkerGoesOn
<1>5. CASE left # {}
  <2> DEFINE made == [at |-> "next", todo |-> left, did |-> {}]
             c == CellOf(k, d)
             row == [cellRow[r][c] EXCEPT !.status = "running"]
  <2>1. /\ domainWork' = [domainWork EXCEPT ![k][d] = made]
        /\ cellRow' = [cellRow EXCEPT ![r][c].status = "running"]
    BY <1>5 DEF LoadTests
  <2>2. made \in WorkerRecords BY DEF WorkerRecords, WorkerPlaces, TestsIn
  <2>3. made.at = "next" /\ made.todo = left /\ made.did = {} OBVIOUS
  <2> HIDE DEF made
  <2>4. PICK w : w = made OBVIOUS
  <2>5. /\ ThreadAt(k, "level") /\ r \in Run /\ c \in Cell
        /\ ThreadsTyped' /\ WorkTyped' /\ WorkerMoved(k, d, w)
    BY <1>1, <1>2, <2>1, <2>2, <2>4, WorkerMoves
  <2>6. /\ cellRow' \in [Run -> [Cell -> [status : {"none", "running", "scored"}, of : SUBSET EvalTests]]]
        /\ \A s \in Run \ {r} : cellRow'[s] = cellRow[s]
        /\ \A e \in Cell \ {c} : cellRow'[r][e] = cellRow[r][e]
    <3>1. cellRow \in [Run -> [Cell -> [status : {"none", "running", "scored"}, of : SUBSET EvalTests]]]
      BY DEF EvalInv, EvalTyped, RowsTyped
    <3>2. row \in [status : {"none", "running", "scored"}, of : SUBSET EvalTests] BY <2>5, <3>1
    <3>3. cellRow' = [cellRow EXCEPT ![r][c] = row] BY <2>1
    <3> HIDE DEF row, r, c
    <3> QED BY <2>5, <3>1, <3>2, <3>3
  <2>7. EvalTyped'
    BY <1>1, <2>5, <2>6 DEF EvalInv, EvalTyped, EngineTyped, RowsTyped, ReplayTyped, Replaying
  <2>8. ASSUME HasRunAlone(k) PROVE WorkerIsOrderly(k, d, w)
    <3>1. TestsAhead(k) /\ evalThread[k].at = "level" BY <2>5, <2>8, OpenRow DEF ThreadAt
    <3>2. /\ RunOf(k)' = r /\ (\A t : Has(r, t)' <=> Has(r, t))
          /\ \A t \in EvalTests : results'[r][t] <= 1 /\ (Has(r, t) => results'[r][t] > 0)
      BY <1>1, <2>8, RowsAreLeft
    <3>3. ASSUME NEW t \in left PROVE t \in TestsIn(c) /\ results'[r][t] = 0
      <4>1. t \in EvalTests /\ t[1] = d /\ t[2] = evalThread[k].level /\ t \notin evalThread[k].skip
        BY <3>3 DEF TestsIn, CellOf
      <4>2. NotYet(k, t) BY <1>1, <3>1, <4>1 DEF NotYet, ThreadAt, WorkerAt
      <4>3. ~Has(r, t) BY <3>1, <4>1, <4>2 DEF TestsAhead
      <4>4. results[r][t] \in Nat BY <2>5, <4>1 DEF EvalInv, EvalTyped, RowsTyped
      <4> QED BY <1>1, <3>3, <4>3, <4>4 DEF Has
    <3>4. HandIsWhole(k, d, w)'
      <4>1. CellOf(k, d)' = c /\ evalThread' = evalThread BY <1>1 DEF CellOf
      <4>2. w.at = "next" /\ w.todo = left /\ w.did = {} BY <2>3, <2>4
      <4>3. \A t \in TestsIn(c) : t \in left \union evalThread[k].skip OBVIOUS
      <4> HIDE DEF left, c
      <4> QED BY <1>5, <4>1, <4>2, <4>3 DEF HandIsWhole
    <3> HIDE DEF left, c
    <3> QED BY <1>1, <2>3, <2>4, <2>6, <3>2, <3>3, <3>4 DEF WorkerIsOrderly, c
  <2>9. w.at # "queued" BY <2>3, <2>4
  <2> QED BY <1>1, <2>5, <2>6, <2>7, <2>8, <2>9, WorkerGoesOn
<1> QED BY <1>4, <1>5

LEMMA TestBegins ==
    ASSUME EvalInv, NEW k \in Threads, NEW d \in Domain, BeginTest(k, d) PROVE EvalInv'
<1> DEFINE place == IF engine.running /\ domainWork[k][d].todo # {} THEN "testing" ELSE "score"
           old == domainWork[k][d]
           made == [at |-> place, todo |-> old.todo, did |-> old.did]
           r == RunOf(k)
<1>1. /\ old.at = "next" /\ domainWork' = [domainWork EXCEPT ![k][d].at = place]
      /\ UNCHANGED <<engine, runRow, results, cellRow, evalThread, replay, mixed, raised>>
  BY DEF BeginTest, WorkerAt, rows, evalHistory
<1>2. ~WorkerAt(k, d, "off") BY <1>1 DEF WorkerAt
<1>3. old \in WorkerRecords BY DEF EvalInv, EvalTyped, WorkTyped, WorkerRecords
<1>4. /\ place \in {"testing", "score"} /\ (place = "testing" => old.todo # {})
      /\ engine.running /\ place = "score" => old.todo = {}
  OBVIOUS
<1> HIDE DEF place
<1>5. /\ made \in WorkerRecords /\ made.at = place /\ made.todo = old.todo /\ made.did = old.did
      /\ domainWork' = [domainWork EXCEPT ![k][d] = made]
  <2>1. made \in WorkerRecords
    <3>1. place \in WorkerPlaces BY <1>4 DEF WorkerPlaces
    <3> HIDE DEF old
    <3> QED BY <1>3, <3>1 DEF WorkerRecords
  <2>2. [old EXCEPT !.at = place] = made
    <3> HIDE DEF old
    <3> QED BY <1>3 DEF WorkerRecords
  <2>3. domainWork' = [domainWork EXCEPT ![k][d] = [old EXCEPT !.at = place]] BY <1>1
  <2> HIDE DEF old
  <2>4. made.at = place /\ made.todo = old.todo /\ made.did = old.did OBVIOUS
  <2> HIDE DEF made
  <2> QED BY <2>1, <2>2, <2>3, <2>4
<1> HIDE DEF made
<1>6. PICK w : w = made OBVIOUS
<1>7. /\ ThreadAt(k, "level") /\ r \in Run /\ ThreadsTyped' /\ WorkTyped' /\ WorkerMoved(k, d, w)
  BY <1>1, <1>2, <1>5, <1>6, WorkerMoves
<1>8. EvalTyped'
  BY <1>1, <1>7 DEF EvalInv, EvalTyped, EngineTyped, RowsTyped, ReplayTyped, Replaying
<1>9. ASSUME HasRunAlone(k) PROVE WorkerIsOrderly(k, d, w)
  <2>1. TestsInHand(k) /\ WorkIsWhole(k) BY <1>9, OpenRow
  <2>2. /\ RunOf(k)' = r /\ (\A t : Has(r, t)' <=> Has(r, t))
        /\ \A t \in EvalTests : results'[r][t] <= 1 /\ (Has(r, t) => results'[r][t] > 0)
    BY <1>1, <1>9, RowsAreLeft
  <2>3. w.at \in {"testing", "score"} /\ w.todo = old.todo /\ w.did = old.did BY <1>4, <1>5, <1>6
  <2>4. \A t \in w.todo : t \in TestsIn(CellOf(k, d)) /\ results'[r][t] = 0
    BY <1>1, <2>1, <2>3 DEF TestsInHand
  <2>5. NotStopped(k) => HandIsWhole(k, d, w)'
    <3> SUFFICES ASSUME NotStopped(k) PROVE HandIsWhole(k, d, w)'
      OBVIOUS
    <3>1. HandIsWhole(k, d, old) BY <1>1, <2>1 DEF WorkIsWhole, WorkInHand
    <3>2. CellOf(k, d)' = CellOf(k, d) /\ evalThread' = evalThread BY <1>1 DEF CellOf
    <3>3. w.at = place /\ engine.running BY <1>5, <1>6 DEF NotStopped
    <3> HIDE DEF old
    <3> QED BY <1>4, <2>2, <2>3, <3>1, <3>2, <3>3 DEF HandIsWhole
  <2>6. w.at # "off" BY <2>3
  <2> QED BY <1>1, <2>2, <2>4, <2>5, <2>6 DEF WorkerIsOrderly
<1>10. w.at # "queued" BY <1>4, <1>5, <1>6
<1> QED BY <1>1, <1>7, <1>8, <1>9, <1>10, WorkerGoesOn

LEMMA TestEnds ==
    ASSUME EvalInv, NEW k \in Threads, NEW d \in Domain, EndTest(k, d) PROVE EvalInv'
<1> DEFINE old == domainWork[k][d]
           r == RunOf(k)
<1>1. PICK t \in old.todo :
        /\ old.at = "testing" /\ results' = [results EXCEPT ![r][t] = @ + 1]
        /\ domainWork' = [domainWork EXCEPT ![k][d] = [at |-> "next", todo |-> old.todo \ {t},
                                                       did |-> old.did \union {t}]]
        /\ UNCHANGED <<engine, runRow, cellRow, evalThread, replay, mixed, raised>>
  BY DEF EndTest, WorkerAt, evalHistory
<1>2. ~WorkerAt(k, d, "off") BY <1>1 DEF WorkerAt
<1>3. old.todo \subseteq EvalTests /\ old.did \subseteq EvalTests /\ t \in EvalTests
  BY <1>1 DEF EvalInv, EvalTyped, WorkTyped
<1> DEFINE made == [at |-> "next", todo |-> old.todo \ {t}, did |-> old.did \union {t}]
<1>4. /\ made \in WorkerRecords /\ made.at = "next" /\ made.todo = old.todo \ {t}
      /\ made.did = old.did \union {t}
  <2> HIDE DEF old
  <2> QED BY <1>3 DEF WorkerRecords, WorkerPlaces
<1>5. domainWork' = [domainWork EXCEPT ![k][d] = made] BY <1>1
<1> HIDE DEF made
<1>6. PICK w : w = made OBVIOUS
<1>7. /\ ThreadAt(k, "level") /\ r \in Run /\ ThreadsTyped' /\ WorkTyped' /\ WorkerMoved(k, d, w)
  BY <1>1, <1>2, <1>4, <1>5, <1>6, WorkerMoves
<1>8. /\ results' \in [Run -> [EvalTests -> Nat]] /\ results'[r][t] = results[r][t] + 1
      /\ results[r][t] \in Nat
      /\ \A s \in Run \ {r} : results'[s] = results[s]
      /\ \A u \in EvalTests \ {t} : results'[r][u] = results[r][u]
  <2>1. results \in [Run -> [EvalTests -> Nat]] BY DEF EvalInv, EvalTyped, RowsTyped
  <2> HIDE DEF r
  <2> QED BY <1>1, <1>3, <1>7, <2>1
<1>9. EvalTyped'
  BY <1>1, <1>7, <1>8 DEF EvalInv, EvalTyped, EngineTyped, RowsTyped, ReplayTyped, Replaying
<1>10. ASSUME HasRunAlone(k) PROVE WorkerIsOrderly(k, d, w)
  <2>1. TestsInHand(k) /\ WorkIsWhole(k) /\ \A u \in EvalTests : results[r][u] <= 1
    BY <1>10, OpenRow
  <2>2. RunOf(k)' = r BY <1>1 DEF RunOf
  <2>3. w.at = "next" /\ w.todo = old.todo \ {t} /\ w.did = old.did \union {t} BY <1>4, <1>6
  <2>4. \A u \in old.todo : u \in TestsIn(CellOf(k, d)) /\ results[r][u] = 0
    BY <1>1, <2>1 DEF TestsInHand
  <2>5. results'[r][t] = 1 BY <1>1, <1>8, <2>4
  <2>6. \A u \in EvalTests : results'[r][u] <= 1 /\ (Has(r, u) => results'[r][u] > 0)
    BY <1>8, <2>1, <2>5 DEF Has
  <2>7. NotStopped(k) => HandIsWhole(k, d, w)'
    <3> SUFFICES ASSUME NotStopped(k) PROVE HandIsWhole(k, d, w)'
      OBVIOUS
    <3>1. HandIsWhole(k, d, old) BY <1>1, <2>1 DEF WorkIsWhole, WorkInHand
    <3>2. CellOf(k, d)' = CellOf(k, d) /\ evalThread' = evalThread BY <1>1 DEF CellOf
    <3>3. \A u \in old.did \union {t} : results'[r][u] > 0
      BY <1>3, <2>5, <2>6, <3>1 DEF HandIsWhole
    <3>4. \A u \in TestsIn(CellOf(k, d)) : u \in w.todo \union w.did \union evalThread[k].skip
      BY <2>3, <3>1 DEF HandIsWhole
    <3>5. w.todo \union w.did # {} BY <2>3
    <3> HIDE DEF old, r
    <3> QED BY <2>2, <2>3, <3>2, <3>3, <3>4, <3>5 DEF HandIsWhole, Has
  <2>8. \A u \in w.todo : u \in TestsIn(CellOf(k, d)) /\ results'[r][u] = 0
    BY <1>3, <1>8, <2>3, <2>4
  <2>9. \A u \in EvalTests \ TestsIn(CellOf(k, d)) : results'[r][u] = results[r][u]
    BY <1>1, <1>8, <2>4
  <2> QED BY <1>1, <2>3, <2>6, <2>7, <2>8, <2>9 DEF WorkerIsOrderly
<1>11. w.at # "queued" BY <1>4, <1>6
<1> QED BY <1>1, <1>7, <1>8, <1>9, <1>10, <1>11, WorkerGoesOn

LEMMA TestsRaise ==
    ASSUME EvalInv, NEW k \in Threads, NEW d \in Domain, TestRaises(k, d) PROVE EvalInv'
<1>1. /\ domainWork[k][d].at = "testing"
      /\ domainWork' = [domainWork EXCEPT ![k][d] = OffWorker]
      /\ raised' = raised \union {<<RunOf(k), t>> : t \in TestsIn(CellOf(k, d))}
      /\ UNCHANGED <<engine, runRow, results, cellRow, evalThread, replay, mixed>>
  BY DEF TestRaises, WorkerAt, rows
<1>2. /\ ThreadAt(k, "level") /\ ThreadsTyped' /\ WorkTyped' /\ WorkerMoved(k, d, OffWorker)
  BY <1>1, WorkerMoves, OffWorkerFacts DEF WorkerAt
<1>3. EvalTyped'
  BY <1>1, <1>2 DEF EvalInv, EvalTyped, EngineTyped, RowsTyped, ReplayTyped, Replaying
<1>4. ASSUME HasRunAlone(k) PROVE WorkerIsOrderly(k, d, OffWorker)
  <2>1. RunOf(k)' = RunOf(k) BY <1>1, <1>4, RowsAreLeft
  <2>2. \A t \in TestsIn(CellOf(k, d)) : IsDone(k, t)' BY <1>1, <2>1 DEF IsDone
  <2> QED BY <1>1, <1>4, <2>2, RowsAreLeft, OffWorkerFacts DEF WorkerIsOrderly
<1>5. raised \subseteq raised' BY <1>1
<1> QED BY <1>1, <1>2, <1>3, <1>4, <1>5, OffWorkerFacts, WorkerGoesOn

LEMMA LevelIsScored ==
    ASSUME EvalInv, NEW k \in Threads, NEW d \in Domain, ScoreLevel(k, d) PROVE EvalInv'
<1> DEFINE old == domainWork[k][d]
           r == RunOf(k)
           c == CellOf(k, d)
           score == [status |-> "scored", of |-> old.did]
<1>1. /\ old.at = "score" /\ domainWork' = [domainWork EXCEPT ![k][d] = OffWorker]
      /\ cellRow' = IF engine.running /\ old.did # {}
                    THEN [cellRow EXCEPT ![r][c] = score] ELSE cellRow
      /\ UNCHANGED <<engine, runRow, results, evalThread, replay, mixed, raised>>
  BY DEF ScoreLevel, WorkerAt, evalHistory
<1>2. /\ ThreadAt(k, "level") /\ r \in Run /\ c \in Cell
      /\ ThreadsTyped' /\ WorkTyped' /\ WorkerMoved(k, d, OffWorker)
  BY <1>1, WorkerMoves, OffWorkerFacts DEF WorkerAt
<1>3. /\ old.did \subseteq EvalTests
      /\ score \in [status : {"none", "running", "scored"}, of : SUBSET EvalTests]
      /\ score.status = "scored" /\ score.of = old.did
  <2>1. old.did \subseteq EvalTests BY DEF EvalInv, EvalTyped, WorkTyped
  <2> HIDE DEF old
  <2> QED BY <2>1
<1> HIDE DEF score
<1>4. /\ cellRow' \in [Run -> [Cell -> [status : {"none", "running", "scored"}, of : SUBSET EvalTests]]]
      /\ \A s \in Run \ {r} : cellRow'[s] = cellRow[s]
      /\ \A e \in Cell \ {c} : cellRow'[r][e] = cellRow[r][e]
      /\ engine.running /\ old.did # {} => cellRow'[r][c] = score
      /\ ~(engine.running /\ old.did # {}) => cellRow' = cellRow
  <2>1. cellRow \in [Run -> [Cell -> [status : {"none", "running", "scored"}, of : SUBSET EvalTests]]]
    BY DEF EvalInv, EvalTyped, RowsTyped
  <2> HIDE DEF r, c
  <2> QED BY <1>1, <1>2, <1>3, <2>1
<1>5. EvalTyped'
  BY <1>1, <1>2, <1>4 DEF EvalInv, EvalTyped, EngineTyped, RowsTyped, ReplayTyped, Replaying
<1>6. ASSUME HasRunAlone(k) PROVE WorkerIsOrderly(k, d, OffWorker)
  <2>1. WorkIsWhole(k) /\ evalThread[k].at \in Working BY <1>2, <1>6, OpenRow DEF ThreadAt, Working
  <2>2. /\ RunOf(k)' = r /\ (\A t : Has(r, t)' <=> Has(r, t))
        /\ \A t \in EvalTests : results'[r][t] <= 1 /\ (Has(r, t) => results'[r][t] > 0)
    BY <1>1, <1>6, RowsAreLeft
  <2>3. ASSUME NotStopped(k), NEW t \in TestsIn(c) PROVE IsDone(k, t)'
    <3>1. HandIsWhole(k, d, old) /\ Resumes(k) BY <1>1, <2>1, <2>3 DEF WorkIsWhole, WorkInHand
    <3>2. old.todo = {} /\ old.did # {} /\ t \in old.did \union evalThread[k].skip
      BY <1>1, <2>3, <3>1 DEF HandIsWhole
    <3>3. Has(r, t) BY <3>1, <3>2 DEF HandIsWhole, Resumes
    <3>4. CASE t \in old.did
      <4>1. cellRow'[r][c] = score /\ <<t[1], t[2]>> = c
        BY <1>4, <2>3, <3>2 DEF NotStopped, TestsIn, CellOf
      <4>2. InScore(r, t)' BY <1>3, <2>2, <3>4, <4>1 DEF InScore
      <4> QED BY <2>2, <3>3, <4>2 DEF IsDone, InScore, Has
    <3>5. CASE t \in evalThread[k].skip
      <4>1. evalThread'[k].resumed BY <1>1, <3>5 DEF EvalInv, EvalTyped, ThreadsTyped
      <4> QED BY <2>2, <3>3, <4>1 DEF IsDone, Has
    <3> QED BY <3>2, <3>4, <3>5
  <2> QED BY <1>1, <1>4, <2>2, <2>3, OffWorkerFacts DEF WorkerIsOrderly
<1>7. \A s \in Run \ {RunOf(k)} : results'[s] = results[s] /\ cellRow'[s] = cellRow[s]
  BY <1>1, <1>4
<1> QED BY <1>1, <1>2, <1>5, <1>6, <1>7, OffWorkerFacts, WorkerGoesOn

-----------------------------------------------------------------------------
\* Requests leave the threads where they are.
LEMMA ThreadsStay ==
    ASSUME EvalInv, evalThread' = evalThread, domainWork' = domainWork
    PROVE  /\ ThreadsTyped' /\ WorkTyped' /\ NumberedFrom1'
           /\ \A k \in Threads : /\ RunOf(k)' = RunOf(k) /\ (ThreadLives(k)' <=> ThreadLives(k))
                                 /\ \A place : ThreadAt(k, place)' <=> ThreadAt(k, place)
<1>1. ThreadsTyped /\ WorkTyped /\ NumberedFrom1 BY DEF EvalInv, EvalTyped, Aloneness
<1>2. ThreadsTyped' BY <1>1 DEF ThreadsTyped, RunOf, ThreadAt
<1>3. WorkTyped' BY <1>1 DEF WorkTyped, WorkerAt, ThreadAt
<1>4. NumberedFrom1' BY <1>1 DEF NumberedFrom1, ThreadAt, RunOf
<1> QED BY <1>2, <1>3, <1>4 DEF RunOf, ThreadLives, ThreadAt

\* A run whose rows stay as they are, and whose engine is not started anew.
LEMMA OrderStays ==
    ASSUME NEW k \in Threads, TestsAhead(k), TestsInHand(k), WorkIsWhole(k),
           evalThread' = evalThread, domainWork' = domainWork,
           results'[RunOf(k)] = results[RunOf(k)], cellRow'[RunOf(k)] = cellRow[RunOf(k)],
           runRow'[RunOf(k)] = runRow[RunOf(k)], raised \subseteq raised', NotStopped(k)' => NotStopped(k)
    PROVE  TestsAhead(k)' /\ TestsInHand(k)' /\ WorkIsWhole(k)'
<1>1. RunOf(k)' = RunOf(k) BY DEF RunOf
<1>2. /\ \A t : Has(RunOf(k), t)' <=> Has(RunOf(k), t)
      /\ \A t : InScore(RunOf(k), t)' <=> InScore(RunOf(k), t)
  BY <1>1 DEF Has, InScore
<1>3. \A t : IsDone(k, t) => IsDone(k, t)' BY <1>1, <1>2 DEF IsDone, Has, InScore
<1>4. \A t : (Behind(k, t)' <=> Behind(k, t)) /\ (NotYet(k, t)' <=> NotYet(k, t))
  BY DEF Behind, NotYet, ThreadAt, WorkerAt
<1>5. TestsAhead(k)' BY <1>2, <1>4 DEF TestsAhead
<1>6. \A d : CellOf(k, d)' = CellOf(k, d) BY DEF CellOf
<1>7. TestsInHand(k)' BY <1>1, <1>6 DEF TestsInHand
<1>8. Resumes(k) => Resumes(k)' BY <1>2 DEF Resumes
<1>9. WorkInHand(k) => WorkInHand(k)' BY <1>1, <1>2, <1>6 DEF WorkInHand, HandIsWhole, Has
<1>10. CountedOrRaised(RunOf(k)) => CountedOrRaised(RunOf(k))'
  BY <1>1, <1>2 DEF CountedOrRaised, Has, InScore
<1>11. runRow[RunOf(k)]' = runRow[RunOf(k)] BY <1>1
<1>12. WorkIsWhole(k)'
  BY <1>3, <1>4, <1>8, <1>9, <1>10, <1>11 DEF WorkIsWhole, ThreadAt
<1> QED BY <1>5, <1>7, <1>12

LEMMA EngineStops ==
    ASSUME EvalInv, EngineTyped', ~engine'.running, engine'.current \in {engine.current, NoRun},
           UNCHANGED <<runRow, results, cellRow, evalThread, domainWork, replay, mixed, raised>>
    PROVE  EvalInv'
<1>1. /\ ThreadsTyped' /\ WorkTyped' /\ NumberedFrom1'
      /\ \A k \in Threads : /\ RunOf(k)' = RunOf(k) /\ (ThreadLives(k)' <=> ThreadLives(k))
                            /\ \A place : ThreadAt(k, place)' <=> ThreadAt(k, place)
  BY ThreadsStay
<1>2. EvalTyped' BY <1>1 DEF EvalInv, EvalTyped, RowsTyped, ReplayTyped, Replaying
<1>3. \A k \in Threads : (HasRunAlone(k)' <=> HasRunAlone(k)) /\ KnownRuns(k)' = KnownRuns(k)
  BY <1>1 DEF HasRunAlone, KnownRuns
<1>4. AloneIsAlone' BY <1>1, <1>3 DEF EvalInv, Aloneness, AloneIsAlone
<1>5. EngineKnowsIt' BY <1>1, <1>3 DEF EvalInv, Aloneness, EngineKnowsIt, KnownRuns
<1>6. RowIsOpen' BY <1>1, <1>3 DEF EvalInv, Aloneness, RowIsOpen
<1>7. FreshRunIsEmpty' BY <1>1 DEF EvalInv, Honesty, FreshRunIsEmpty
<1>8. ReplayIsAlone' BY <1>1 DEF EvalInv, Honesty, ReplayIsAlone, Replaying
<1>9. OneResult' /\ CompletedIsCounted'
  BY DEF EvalInv, Honesty, OneResult, CompletedIsCounted, InScore
<1>10. AloneIsOrderly'
  <2>1. ASSUME NEW k \in Threads, HasRunAlone(k)' PROVE TestsAhead(k)' /\ TestsInHand(k)' /\ WorkIsWhole(k)'
    <3>1. HasRunAlone(k) BY <1>3, <2>1
    <3>2. ~NotStopped(k)' BY DEF NotStopped
    <3> QED BY <3>1, <3>2, OrderStays DEF EvalInv, AloneIsOrderly
  <2> QED BY <2>1 DEF AloneIsOrderly
<1> QED BY <1>1, <1>2, <1>4, <1>5, <1>6, <1>7, <1>8, <1>9, <1>10 DEF EvalInv, Aloneness, Honesty

LEMMA IdleEngineTyped == IdleEngine.current = NoRun /\ ~IdleEngine.running
   /\ IdleEngine \in [running : BOOLEAN, interrupted : BOOLEAN, current : Run \union {NoRun}]
BY DEF IdleEngine

LEMMA EvaluationIsStopped == ASSUME EvalInv, StopEvaluation PROVE EvalInv'
<1>1. /\ engine' = [engine EXCEPT !.running = FALSE, !.interrupted = TRUE]
      /\ UNCHANGED <<runRow, results, cellRow, evalThread, domainWork, replay, mixed, raised>>
  BY DEF StopEvaluation, rows, evalHistory
<1>2. EngineTyped' /\ ~engine'.running /\ engine'.current = engine.current
  BY <1>1 DEF EvalInv, EvalTyped, EngineTyped
<1> QED BY <1>1, <1>2, EngineStops

LEMMA StateIsReset == ASSUME EvalInv, ResetState PROVE EvalInv'
<1>1. /\ engine' = IdleEngine
      /\ UNCHANGED <<runRow, results, cellRow, evalThread, domainWork, replay, mixed, raised>>
  BY DEF ResetState, rows, evalHistory
<1>2. EngineTyped' /\ ~engine'.running /\ engine'.current = NoRun
  BY <1>1, IdleEngineTyped DEF EngineTyped
<1> QED BY <1>1, <1>2, EngineStops

LEMMA RunsAreDeleted ==
    ASSUME EvalInv, NEW gone, Deleted(gone),
           UNCHANGED <<engine, evalThread, domainWork, replay, mixed, raised>>
    PROVE  EvalInv'
<1>1. /\ ThreadsTyped' /\ WorkTyped' /\ NumberedFrom1'
      /\ \A k \in Threads : /\ RunOf(k)' = RunOf(k) /\ (ThreadLives(k)' <=> ThreadLives(k))
                            /\ \A place : ThreadAt(k, place)' <=> ThreadAt(k, place)
  BY ThreadsStay
<1>2. \A r \in Run : r \notin gone =>
        runRow'[r] = runRow[r] /\ results'[r] = results[r] /\ cellRow'[r] = cellRow[r]
  BY DEF Deleted
<1>3. \A r \in Run : r \in gone =>
        runRow'[r].status = "none" /\ \A t \in EvalTests : results'[r][t] = 0
  BY DEF Deleted, NoRunRow, NoResults
<1>4. EvalTyped'
  <2>1. RowsTyped BY DEF EvalInv, EvalTyped
  <2>2. NoRunRow \in [status : {"none", "running", "interrupted", "completed"}, dated : BOOLEAN]
    BY DEF NoRunRow
  <2>3. NoResults \in [EvalTests -> Nat] BY DEF NoResults
  <2>4. NoCells \in [Cell -> [status : {"none", "running", "scored"}, of : SUBSET EvalTests]]
    BY DEF NoCells, NoCell
  <2>5. RowsTyped' BY <2>1, <2>2, <2>3, <2>4 DEF RowsTyped, Deleted
  <2> QED BY <1>1, <2>5 DEF EvalInv, EvalTyped, EngineTyped, ReplayTyped, Replaying
<1>5. \A k \in Threads : (HasRunAlone(k)' <=> HasRunAlone(k)) /\ KnownRuns(k)' = KnownRuns(k)
  BY <1>1 DEF HasRunAlone, KnownRuns
<1>6. \A k \in Threads : HasRunAlone(k) => RunOf(k) \in Run
  BY OpenRow
<1>7. AloneIsAlone' BY <1>1, <1>5 DEF EvalInv, Aloneness, AloneIsAlone
<1>8. EngineKnowsIt' BY <1>1, <1>5 DEF EvalInv, Aloneness, EngineKnowsIt
<1>9. RowIsOpen'
  <2> SUFFICES ASSUME NEW k \in Threads, HasRunAlone(k), evalThread[k].at \in Working
               PROVE  runRow'[RunOf(k)].status \in {"running", "none"}
    BY <1>1, <1>5 DEF RowIsOpen
  <2> QED BY <1>2, <1>3, <1>6 DEF EvalInv, Aloneness, RowIsOpen
<1>10. FreshRunIsEmpty' BY <1>1, <1>2, <1>3 DEF EvalInv, Honesty, FreshRunIsEmpty
<1>11. ReplayIsAlone'
  <2> SUFFICES ASSUME Replaying, replay.run \notin mixed
               PROVE  /\ results'[replay.run][replay.test] = 0
                      /\ \A k \in Threads : ThreadLives(k) => RunOf(k) # replay.run
    BY <1>1 DEF ReplayIsAlone, Replaying
  <2>1. replay.run \in Run /\ replay.test \in EvalTests
    BY DEF EvalInv, EvalTyped, ReplayTyped, Replaying
  <2> QED BY <1>2, <1>3, <2>1 DEF EvalInv, Honesty, ReplayIsAlone
<1>12. OneResult' BY <1>2, <1>3 DEF EvalInv, Honesty, OneResult
<1>13. CompletedIsCounted'
  <2> SUFFICES ASSUME NEW r \in Run \ mixed, runRow'[r].status = "completed", NEW t \in EvalTests
               PROVE  \/ <<r, t>> \in raised
                      \/ InScore(r, t)' /\ (results'[r][t] = 1 \/ replay = [run |-> r, test |-> t])
    BY DEF CompletedIsCounted
  <2>1. r \notin gone BY <1>3
  <2> QED BY <1>2, <2>1 DEF EvalInv, Honesty, CompletedIsCounted, InScore
<1>14. AloneIsOrderly'
  <2> SUFFICES ASSUME NEW k \in Threads, HasRunAlone(k)
               PROVE  TestsAhead(k)' /\ TestsInHand(k)' /\ WorkIsWhole(k)'
    BY <1>5 DEF AloneIsOrderly
  <2>1. TestsAhead(k) /\ TestsInHand(k) /\ WorkIsWhole(k) /\ RunOf(k) \in Run
    BY <1>6 DEF EvalInv, AloneIsOrderly
  <2>2. CASE RunOf(k) \notin gone
    <3>1. /\ results'[RunOf(k)] = results[RunOf(k)] /\ cellRow'[RunOf(k)] = cellRow[RunOf(k)]
          /\ runRow'[RunOf(k)] = runRow[RunOf(k)]
      BY <1>2, <2>1, <2>2
    <3>2. NotStopped(k)' = NotStopped(k) BY <1>1, <3>1 DEF NotStopped
    <3> QED BY <2>1, <3>1, <3>2, OrderStays
  <2>3. CASE RunOf(k) \in gone
    <3>1. /\ runRow'[RunOf(k)].status = "none" /\ \A t \in EvalTests : results'[RunOf(k)][t] = 0
      BY <1>3, <2>1, <2>3
    <3>2. RunOf(k)' = RunOf(k) BY <1>1
    <3>3. ~NotStopped(k)' BY <3>1, <3>2 DEF NotStopped
    <3>4. TestsAhead(k)' BY <3>1, <3>2 DEF TestsAhead, Has
    <3>5. TestsInHand(k)'
      <4>1. \A d : CellOf(k, d)' = CellOf(k, d) BY DEF CellOf
      <4>2. \A d \in Domain : domainWork[k][d].todo \subseteq EvalTests
        BY DEF EvalInv, EvalTyped, WorkTyped
      <4> QED BY <2>1, <3>1, <3>2, <4>1, <4>2 DEF TestsInHand
    <3>6. runRow[RunOf(k)]'.status = "none" BY <3>1, <3>2
    <3> QED BY <3>3, <3>4, <3>5, <3>6 DEF WorkIsWhole
  <2> QED BY <2>2, <2>3
<1> QED BY <1>1, <1>4, <1>7, <1>8, <1>9, <1>10, <1>11, <1>12, <1>13, <1>14
        DEF EvalInv, Aloneness, Honesty

LEMMA IncompleteRunsAreCleared == ASSUME EvalInv, ClearIncompleteRuns PROVE EvalInv'
<1>1. PICK gone : gone = {r \in Run : ~runRow[r].dated} OBVIOUS
<1>2. Deleted(gone) /\ UNCHANGED <<engine, evalThread, domainWork, replay, mixed, raised>>
  BY <1>1 DEF ClearIncompleteRuns, evalHistory
<1> QED BY <1>2, RunsAreDeleted

LEMMA RunIsDeleted == ASSUME EvalInv, NEW r \in Run, DeleteRun(r) PROVE EvalInv'
<1>1. Deleted({r}) /\ UNCHANGED <<engine, evalThread, domainWork, replay, mixed, raised>>
  BY DEF DeleteRun, evalHistory
<1> QED BY <1>1, RunsAreDeleted

\* A replay: its run is not that of a thread that has its run to itself.
LEMMA ReplayMoves ==
    ASSUME EvalInv, ReplayTyped', NEW r \in Run, UNCHANGED <<engine, runRow, cellRow, evalThread, domainWork>>,
           results' \in [Run -> [EvalTests -> Nat]], \A s \in Run \ {r} : results'[s] = results[s],
           mixed \subseteq mixed', raised \subseteq raised',
           r \in mixed' \/ \A k \in Threads : ThreadLives(k) => RunOf(k) # r,
           runRow[r].status # "none" \/ replay.run = r,
           replay'.run \in {NoRun, r}, ReplayIsAlone', OneResult', CompletedIsCounted'
    PROVE  EvalInv'
<1>1. /\ ThreadsTyped' /\ WorkTyped' /\ NumberedFrom1'
      /\ \A k \in Threads : /\ RunOf(k)' = RunOf(k) /\ (ThreadLives(k)' <=> ThreadLives(k))
                            /\ \A place : ThreadAt(k, place)' <=> ThreadAt(k, place)
  BY ThreadsStay
<1>2. EvalTyped' BY <1>1 DEF EvalInv, EvalTyped, EngineTyped, RowsTyped
<1>3. \A k \in Threads : /\ HasRunAlone(k)' => HasRunAlone(k) /\ RunOf(k) # r
                         /\ KnownRuns(k) \subseteq KnownRuns(k)'
  BY <1>1 DEF HasRunAlone, KnownRuns
<1>4. AloneIsAlone' BY <1>1, <1>3 DEF EvalInv, Aloneness, AloneIsAlone
<1>5. EngineKnowsIt' BY <1>1, <1>3 DEF EvalInv, Aloneness, EngineKnowsIt
<1>6. RowIsOpen' BY <1>1, <1>3 DEF EvalInv, Aloneness, RowIsOpen
<1>7. FreshRunIsEmpty'
  <2> SUFFICES ASSUME NEW s \in Run, \A k \in Threads : RunOf(k) # s
               PROVE  runRow[s].status = "none" /\ replay'.run # s /\ \A t \in EvalTests : results'[s][t] = 0
    BY <1>1 DEF FreshRunIsEmpty
  <2>1. runRow[s].status = "none" /\ replay.run # s /\ \A t \in EvalTests : results[s][t] = 0
    BY DEF EvalInv, Honesty, FreshRunIsEmpty
  <2>2. s # r BY <2>1
  <2> QED BY <2>1, <2>2, TestFacts
<1>8. AloneIsOrderly'
  <2> SUFFICES ASSUME NEW k \in Threads, HasRunAlone(k)'
               PROVE  TestsAhead(k)' /\ TestsInHand(k)' /\ WorkIsWhole(k)'
    BY DEF AloneIsOrderly
  <2>1. HasRunAlone(k) /\ RunOf(k) # r BY <1>3
  <2>2. TestsAhead(k) /\ TestsInHand(k) /\ WorkIsWhole(k) /\ RunOf(k) \in Run BY <2>1, OpenRow
  <2>3. results'[RunOf(k)] = results[RunOf(k)] BY <2>1, <2>2
  <2>4. NotStopped(k)' = NotStopped(k) BY <1>1 DEF NotStopped
  <2> QED BY <2>2, <2>3, <2>4, OrderStays
<1> QED BY <1>1, <1>2, <1>4, <1>5, <1>6, <1>7, <1>8 DEF EvalInv, Aloneness, Honesty

LEMMA TestIsReplayed ==
    ASSUME EvalInv, NEW r \in Run, NEW t \in EvalTests, ReplayTest(r, t) PROVE EvalInv'
<1>1. /\ ~Replaying /\ runRow[r].status # "none"
      /\ replay' = [run |-> r, test |-> t] /\ results' = [results EXCEPT ![r][t] = 0]
      /\ mixed' = IF r \in RunsWithThread THEN mixed \union {r} ELSE mixed
      /\ UNCHANGED <<engine, runRow, cellRow, evalThread, domainWork, raised>>
  BY DEF ReplayTest
<1>2. /\ results' \in [Run -> [EvalTests -> Nat]] /\ results'[r][t] = 0
      /\ \A s \in Run \ {r} : results'[s] = results[s]
      /\ \A u \in EvalTests \ {t} : results'[r][u] = results[r][u]
  BY <1>1 DEF EvalInv, EvalTyped, RowsTyped
<1>3. mixed \subseteq mixed' BY <1>1
<1>4. r \in mixed' \/ \A k \in Threads : ThreadLives(k) => RunOf(k) # r
  BY <1>1 DEF RunsWithThread
<1>5. /\ replay'.run = r /\ replay'.test = t /\ DOMAIN replay' = {"run", "test"} /\ r # NoRun
  BY <1>1, TestFacts
<1>6. ReplayTyped' BY <1>5 DEF ReplayTyped
<1>7. ReplayIsAlone'
  <2>1. \A k \in Threads : RunOf(k)' = RunOf(k) /\ (ThreadLives(k)' <=> ThreadLives(k))
    BY <1>1, ThreadsStay
  <2> QED BY <1>2, <1>4, <1>5, <2>1 DEF ReplayIsAlone
<1>8. OneResult' BY <1>2, <1>3 DEF EvalInv, Honesty, OneResult
<1>9. CompletedIsCounted'
  <2> SUFFICES ASSUME NEW s \in Run \ mixed', runRow[s].status = "completed", NEW u \in EvalTests,
                      <<s, u>> \notin raised
               PROVE  InScore(s, u)' /\ (results'[s][u] = 1 \/ replay' = [run |-> s, test |-> u])
    BY <1>1 DEF CompletedIsCounted
  <2>1. InScore(s, u) /\ (results[s][u] = 1 \/ replay = [run |-> s, test |-> u])
    BY <1>3 DEF EvalInv, Honesty, CompletedIsCounted
  <2>2. results[s][u] = 1
    <3>1. s # NoRun BY TestFacts
    <3> QED BY <1>1, <2>1, <3>1 DEF Replaying
  <2>3. InScore(s, u)' BY <1>1, <2>1 DEF InScore
  <2>4. CASE s = r /\ u = t BY <1>1, <2>3, <2>4
  <2>5. CASE ~(s = r /\ u = t) BY <1>2, <2>2, <2>3, <2>5
  <2> QED BY <2>4, <2>5
<1> QED BY <1>1, <1>2, <1>3, <1>4, <1>5, <1>6, <1>7, <1>8, <1>9, ReplayMoves

LEMMA ReplayIsEnded == ASSUME EvalInv, NEW ok \in BOOLEAN, ReplayEnds(ok) PROVE EvalInv'
<1>1. PICK r, t : r = replay.run /\ t = replay.test OBVIOUS
<1>2. /\ Replaying /\ replay' = [run |-> NoRun, test |-> NoTest]
      /\ UNCHANGED <<engine, runRow, cellRow, evalThread, domainWork, mixed>>
      /\ ok => results' = [results EXCEPT ![r][t] = @ + 1] /\ raised' = raised
      /\ ~ok => raised' = raised \union {<<r, t>>} /\ results' = results
  BY <1>1 DEF ReplayEnds
<1>3. r \in Run /\ t \in EvalTests /\ r # NoRun
  BY <1>1, <1>2 DEF EvalInv, EvalTyped, ReplayTyped, Replaying
<1>4. /\ results' \in [Run -> [EvalTests -> Nat]]
      /\ \A s \in Run \ {r} : results'[s] = results[s]
      /\ \A u \in EvalTests \ {t} : results'[r][u] = results[r][u]
      /\ results[r][t] \in Nat /\ (ok => results'[r][t] = results[r][t] + 1)
  <2>1. results \in [Run -> [EvalTests -> Nat]] BY DEF EvalInv, EvalTyped, RowsTyped
  <2> QED BY <1>2, <1>3, <2>1
<1>5. replay'.run = NoRun /\ DOMAIN replay' = {"run", "test"} BY <1>2
<1>6. ReplayTyped' BY <1>5 DEF ReplayTyped, Replaying
<1>7. ReplayIsAlone' BY <1>5 DEF ReplayIsAlone, Replaying
<1>8. r \notin mixed => results[r][t] = 0 /\ \A k \in Threads : ThreadLives(k) => RunOf(k) # r
  BY <1>1, <1>2 DEF EvalInv, Honesty, ReplayIsAlone
<1>9. raised \subseteq raised' BY <1>2
<1>10. OneResult'
  <2> SUFFICES ASSUME NEW s \in Run \ mixed, NEW u \in EvalTests PROVE results'[s][u] <= 1
    BY <1>2 DEF OneResult
  <2>1. results[s][u] <= 1 BY DEF EvalInv, Honesty, OneResult
  <2>2. CASE s = r /\ u = t
    <3>1. results[r][t] = 0 BY <1>8, <2>2
    <3> QED BY <1>2, <1>4, <2>1, <2>2, <3>1
  <2>3. CASE ~(s = r /\ u = t) BY <1>4, <2>1, <2>3
  <2> QED BY <2>2, <2>3
<1>11. CompletedIsCounted'
  <2> SUFFICES ASSUME NEW s \in Run \ mixed, runRow[s].status = "completed", NEW u \in EvalTests,
                      <<s, u>> \notin raised'
               PROVE  InScore(s, u)' /\ results'[s][u] = 1
    BY <1>2 DEF CompletedIsCounted
  <2>1. InScore(s, u) /\ (results[s][u] = 1 \/ replay = [run |-> s, test |-> u])
    BY <1>9 DEF EvalInv, Honesty, CompletedIsCounted
  <2>2. InScore(s, u)' BY <1>2, <2>1 DEF InScore
  <2>3. CASE s = r /\ u = t
    <3>1. ok BY <1>2, <2>3
    <3>2. results[r][t] = 0 BY <1>8, <2>3
    <3> QED BY <1>4, <2>2, <2>3, <3>1, <3>2
  <2>4. CASE ~(s = r /\ u = t)
    <3>1. replay # [run |-> s, test |-> u] BY <1>1, <2>4
    <3> QED BY <1>4, <2>1, <2>2, <2>4, <3>1
  <2> QED BY <2>3, <2>4
<1> QED BY <1>1, <1>2, <1>3, <1>4, <1>5, <1>6, <1>7, <1>8, <1>9, <1>10, <1>11, ReplayMoves

\* The server dies: no thread lives, and a test that was replayed is lost.
LEMMA ServerIsDead == ASSUME EvalInv, ServerDies PROVE EvalInv'
<1>1. /\ engine' = IdleEngine /\ domainWork' = [k \in Threads |-> [d \in Domain |-> OffWorker]]
      /\ evalThread' = [k \in Threads |-> IF ThreadLives(k) THEN [evalThread[k] EXCEPT !.at = "ended"]
                                          ELSE evalThread[k]]
      /\ replay' = [run |-> NoRun, test |-> NoTest]
      /\ raised' = IF Replaying THEN raised \union {<<replay.run, replay.test>>} ELSE raised
      /\ UNCHANGED <<runRow, results, cellRow, mixed>>
  BY DEF ServerDies, rows
<1>2. \A k \in Threads : /\ evalThread'[k].run = evalThread[k].run
                         /\ evalThread'[k].skip = evalThread[k].skip
                         /\ evalThread'[k].resumed = evalThread[k].resumed
                         /\ evalThread'[k].at \in {"off", "ended"}
                         /\ evalThread'[k].at = "off" <=> evalThread[k].at = "off"
  BY <1>1 DEF EvalInv, EvalTyped, ThreadsTyped, ThreadLives
<1>3. \A k \in Threads : /\ ~ThreadLives(k)' /\ RunOf(k)' = RunOf(k) /\ ~ThreadAt(k, "level")'
                         /\ ~ThreadAt(k, "mark")' /\ (ThreadAt(k, "off")' <=> ThreadAt(k, "off"))
                         /\ ~HasRunAlone(k)'
  BY <1>2 DEF ThreadLives, RunOf, ThreadAt, HasRunAlone
<1>4. ThreadsTyped'
  <2> DEFINE S == [at : EvalPlaces, run : Run \union {NoRun}, resumed : BOOLEAN,
                   skip : SUBSET EvalTests, level : 0 .. NumLevels, mark : Run \union {NoRun}]
  <2>1. evalThread \in [Threads -> S] BY DEF EvalInv, EvalTyped, ThreadsTyped
  <2>2. \A k \in Threads : [evalThread[k] EXCEPT !.at = "ended"] \in S BY <2>1 DEF EvalPlaces
  <2> HIDE DEF S
  <2>3. evalThread' \in [Threads -> S] BY <1>1, <2>1, <2>2
  <2> QED BY <1>2, <1>3, <2>3 DEF S, EvalInv, EvalTyped, ThreadsTyped
<1>5. \A k \in Threads, d \in Domain : domainWork'[k][d].at = "off" BY <1>1, OffWorkerFacts
<1>6. WorkTyped'
  BY <1>1, <1>5, OffWorkerFacts DEF WorkTyped, WorkerAt, WorkerRecords
<1>7. EngineTyped' BY <1>1, IdleEngineTyped DEF EngineTyped
<1>8. ~Replaying' /\ ReplayTyped' BY <1>1 DEF Replaying, ReplayTyped
<1>9. EvalTyped' BY <1>1, <1>4, <1>6, <1>7, <1>8 DEF EvalInv, EvalTyped, RowsTyped
<1>10. NumberedFrom1'
  <2>1. {k \in Threads : ~ThreadAt(k, "off")}' = {k \in Threads : ~ThreadAt(k, "off")} BY <1>3
  <2>2. {r \in Run : \E k \in Threads : RunOf(k) = r}' = {r \in Run : \E k \in Threads : RunOf(k) = r}
    BY <1>3
  <2> QED BY <2>1, <2>2 DEF NumberedFrom1, EvalInv, Aloneness
<1>11. AloneIsAlone' /\ EngineKnowsIt' /\ RowIsOpen' /\ AloneIsOrderly' /\ ReplayIsAlone'
  BY <1>3, <1>8 DEF AloneIsAlone, EngineKnowsIt, RowIsOpen, AloneIsOrderly, ReplayIsAlone
<1>12. FreshRunIsEmpty'
  BY <1>1, <1>3, TestFacts DEF EvalInv, Honesty, FreshRunIsEmpty
<1>13. OneResult' BY <1>1 DEF EvalInv, Honesty, OneResult
<1>14. CompletedIsCounted'
  <2> SUFFICES ASSUME NEW r \in Run \ mixed, runRow[r].status = "completed", NEW t \in EvalTests,
                      <<r, t>> \notin raised'
               PROVE  InScore(r, t)' /\ results'[r][t] = 1
    BY <1>1 DEF CompletedIsCounted
  <2>1. <<r, t>> \notin raised BY <1>1
  <2>2. InScore(r, t) /\ (results[r][t] = 1 \/ replay = [run |-> r, test |-> t])
    BY <2>1 DEF EvalInv, Honesty, CompletedIsCounted
  <2>3. replay # [run |-> r, test |-> t]
    <3> SUFFICES ASSUME replay = [run |-> r, test |-> t] PROVE FALSE
      OBVIOUS
    <3>1. replay.run = r /\ replay.test = t /\ r # NoRun BY TestFacts
    <3>2. <<r, t>> \in raised' BY <1>1, <3>1 DEF Replaying
    <3> QED BY <3>2
  <2> QED BY <1>1, <2>2, <2>3 DEF InScore
<1> QED BY <1>9, <1>10, <1>11, <1>12, <1>13, <1>14 DEF EvalInv, Aloneness, Honesty

-----------------------------------------------------------------------------
\* A thread begins: of a run whose results are the tests it leaves out.
LEMMA ThreadBegins ==
    ASSUME EvalInv, NEW r \in Run, NEW resumed \in BOOLEAN, NEW skip \in SUBSET EvalTests,
           NewThread(r, resumed, skip), \A t \in EvalTests : t \in skip <=> Has(r, t),
           ~resumed => skip = {},
           \E n \in Nat : {s \in Run : s = r \/ \E k \in Threads : RunOf(k) = s} = 1 .. n
    PROVE  EvalInv'
<1>1. /\ engine' = [running |-> TRUE, interrupted |-> FALSE, current |-> r]
      /\ Begun < MaxEvalThreads /\ runRow' = [runRow EXCEPT ![r].status = "running"]
      /\ evalThread' = [evalThread EXCEPT ![Begun + 1] =
           [at |-> "levels", run |-> r, resumed |-> resumed, skip |-> skip, level |-> 0, mark |-> NoRun]]
      /\ mixed' = mixed \union (IF RunsWithThread # {} \/ Replaying THEN RunsWithThread \union {r} ELSE {})
      /\ UNCHANGED <<results, cellRow, domainWork, replay, raised>>
  BY DEF NewThread
<1>2. PICK n \in Nat : {k \in Threads : ~ThreadAt(k, "off")} = 1 .. n
  BY DEF EvalInv, Aloneness, NumberedFrom1
<1>3. Begun = n
  <2>1. Cardinality(1 .. n) = n BY FS_Interval
  <2> QED BY <1>2, <2>1 DEF Begun
<1>4. MaxEvalThreads \in Nat BY EvaluationAssumption
<1>5. PICK new : new = n + 1 OBVIOUS
<1>6. new \in Threads /\ ThreadAt(new, "off")
  <2>1. new \in Threads BY <1>1, <1>3, <1>4, <1>5 DEF Threads
  <2>2. new \notin 1 .. n BY <1>5
  <2> QED BY <1>2, <2>1, <2>2
<1>7. PICK made : made = [at |-> "levels", run |-> r, resumed |-> resumed, skip |-> skip,
                          level |-> 0, mark |-> NoRun]
  OBVIOUS
<1>8. /\ made.at = "levels" /\ made.run = r /\ made.resumed = resumed /\ made.skip = skip
      /\ made.level = 0 /\ made.mark = NoRun
      /\ made \in [at : EvalPlaces, run : Run \union {NoRun}, resumed : BOOLEAN,
                   skip : SUBSET EvalTests, level : 0 .. NumLevels, mark : Run \union {NoRun}]
  BY <1>7, TestFacts DEF EvalPlaces
<1>9. evalThread' = [evalThread EXCEPT ![new] = made]
  BY <1>1, <1>3, <1>5, <1>7
<1>10. evalThread'[new] = made /\ \A k \in Threads \ {new} : evalThread'[k] = evalThread[k]
  BY <1>6, <1>9 DEF EvalInv, EvalTyped, ThreadsTyped
<1>11. /\ RunOf(new)' = r /\ RunOf(new) = NoRun /\ r # NoRun /\ ThreadAt(new, "levels")'
       /\ ~ThreadLives(new) /\ ThreadLives(new)' /\ ~ThreadAt(new, "off")' /\ ~ThreadAt(new, "level")'
       /\ ~ThreadAt(new, "mark")' /\ evalThread[new].at = "off"
  BY <1>6, <1>8, <1>10, TestFacts DEF RunOf, ThreadAt, ThreadLives, EvalInv, EvalTyped, ThreadsTyped
<1>12. \A k \in Threads \ {new} :
         /\ RunOf(k)' = RunOf(k) /\ (ThreadLives(k)' <=> ThreadLives(k))
         /\ \A place : ThreadAt(k, place)' <=> ThreadAt(k, place)
  BY <1>10 DEF RunOf, ThreadAt, ThreadLives
<1>13. \A d \in Domain : domainWork[new][d].at = "off"
  BY <1>6, <1>11 DEF EvalInv, EvalTyped, WorkTyped, WorkerAt, ThreadAt
<1>14. ThreadsTyped'
  <2>1. evalThread' \in [Threads -> [at : EvalPlaces, run : Run \union {NoRun}, resumed : BOOLEAN,
                                     skip : SUBSET EvalTests, level : 0 .. NumLevels,
                                     mark : Run \union {NoRun}]]
    BY <1>8, <1>9 DEF EvalInv, EvalTyped, ThreadsTyped
  <2>2. \A k \in Threads : RunOf(k)' = NoRun <=> ThreadAt(k, "off")'
    BY <1>11, <1>12 DEF EvalInv, EvalTyped, ThreadsTyped
  <2>3. \A k \in Threads : /\ ~evalThread'[k].resumed => evalThread'[k].skip = {}
                           /\ ThreadAt(k, "level")' => evalThread'[k].level \in Level
    BY <1>8, <1>10, <1>11, <1>12 DEF EvalInv, EvalTyped, ThreadsTyped
  <2> QED BY <2>1, <2>2, <2>3 DEF ThreadsTyped
<1>15. WorkTyped'
  BY <1>1, <1>12, <1>13 DEF EvalInv, EvalTyped, WorkTyped, WorkerAt
<1>16. /\ runRow' \in [Run -> [status : {"none", "running", "interrupted", "completed"}, dated : BOOLEAN]]
       /\ runRow'[r].status = "running" /\ \A s \in Run \ {r} : runRow'[s] = runRow[s]
  BY <1>1 DEF EvalInv, EvalTyped, RowsTyped
<1>17. EvalTyped'
  <2>1. EngineTyped' BY <1>1 DEF EngineTyped
  <2> QED BY <1>1, <1>14, <1>15, <1>16, <2>1 DEF EvalInv, EvalTyped, RowsTyped, ReplayTyped, Replaying
<1>18. NumberedFrom1'
  <2>1. {k \in Threads : ~ThreadAt(k, "off")}' = {k \in Threads : ~ThreadAt(k, "off")} \union {new}
    BY <1>6, <1>11, <1>12
  <2>2. {k \in Threads : ~ThreadAt(k, "off")}' = 1 .. (n + 1) BY <1>2, <1>5, <2>1
  <2>3. {s \in Run : \E k \in Threads : RunOf(k) = s}' =
          {s \in Run : s = r \/ \E k \in Threads : RunOf(k) = s}
    BY <1>6, <1>11, <1>12, TestFacts
  <2>4. n + 1 \in Nat OBVIOUS
  <2> QED BY <2>2, <2>3, <2>4 DEF NumberedFrom1
\* If a thread lives, its run is mixed from now on, and the new one is too.
<1>19. mixed \subseteq mixed' BY <1>1
<1>20. \A k \in Threads : ThreadLives(k) => RunOf(k) \in mixed' /\ r \in mixed'
  BY <1>1 DEF RunsWithThread
<1>21. \A k \in Threads : HasRunAlone(k)' => k = new /\ r \notin mixed'
  BY <1>11, <1>12, <1>20 DEF HasRunAlone
<1>22. r \notin mixed' => (\A k \in Threads : ~ThreadLives(k)) /\ ~Replaying
  BY <1>1, <1>20
<1>23. AloneIsAlone' BY <1>12, <1>21, <1>22 DEF AloneIsAlone
<1>24. EngineKnowsIt'
  <2>1. \A k \in Threads : ThreadLives(k)' => engine'.current \in KnownRuns(k)'
    BY <1>1, <1>11, <1>12, <1>20 DEF KnownRuns
  <2>2. \A k \in Threads : ThreadAt(k, "mark")' => evalThread'[k].mark \in KnownRuns(k)'
    BY <1>10, <1>11, <1>12, <1>19 DEF EvalInv, Aloneness, EngineKnowsIt, KnownRuns
  <2> QED BY <2>1, <2>2 DEF EngineKnowsIt
<1>25. RowIsOpen' BY <1>11, <1>16, <1>21 DEF RowIsOpen
<1>26. FreshRunIsEmpty'
  <2> SUFFICES ASSUME NEW s \in Run, \A k \in Threads : RunOf(k)' # s
               PROVE  runRow'[s].status = "none" /\ replay.run # s /\ \A t \in EvalTests : results[s][t] = 0
    BY <1>1 DEF FreshRunIsEmpty
  <2>1. s # r /\ \A k \in Threads : RunOf(k) # s BY <1>6, <1>11, <1>12, TestFacts
  <2> QED BY <1>16, <2>1 DEF EvalInv, Honesty, FreshRunIsEmpty
<1>27. ReplayIsAlone'
  <2> SUFFICES ASSUME Replaying, replay.run \notin mixed'
               PROVE  /\ results[replay.run][replay.test] = 0
                      /\ \A k \in Threads : ThreadLives(k)' => RunOf(k)' # replay.run
    BY <1>1 DEF ReplayIsAlone, Replaying
  <2>1. r \in mixed' BY <1>1
  <2>2. /\ results[replay.run][replay.test] = 0
        /\ \A k \in Threads : ThreadLives(k) => RunOf(k) # replay.run
    BY <1>19 DEF EvalInv, Honesty, ReplayIsAlone
  <2> QED BY <1>11, <1>12, <2>1, <2>2
<1>28. OneResult' BY <1>1, <1>19 DEF EvalInv, Honesty, OneResult
<1>29. CompletedIsCounted'
  <2> SUFFICES ASSUME NEW s \in Run \ mixed', runRow'[s].status = "completed", NEW t \in EvalTests
               PROVE  \/ <<s, t>> \in raised
                      \/ InScore(s, t)' /\ (results[s][t] = 1 \/ replay = [run |-> s, test |-> t])
    BY <1>1 DEF CompletedIsCounted
  <2>1. s # r BY <1>16
  <2> QED BY <1>1, <1>16, <1>19, <2>1 DEF EvalInv, Honesty, CompletedIsCounted, InScore
<1>30. TestsAhead(new)' /\ TestsInHand(new)' /\ WorkIsWhole(new)'
  <2>1. \A t : Has(r, t)' <=> Has(r, t) BY <1>1 DEF Has
  <2>2. TestsAhead(new)' BY <1>8, <1>10, <1>11, <2>1 DEF TestsAhead, Has
  <2>3. TestsInHand(new)' /\ WorkInHand(new)' BY <1>1, <1>13 DEF TestsInHand, WorkInHand
  <2>4. Resumes(new)' BY <1>8, <1>10, <1>11, <2>1 DEF Resumes, Has
  <2>5. \A t \in EvalTests : ~Behind(new, t)'
    <3>1. ASSUME NEW t \in EvalTests PROVE ~(t[2] <= 0)
      <4>1. t[2] \in Nat /\ t[2] > 0 BY TestFacts
      <4> QED BY <4>1
    <3> QED BY <1>8, <1>10, <1>11, <3>1 DEF Behind, ThreadAt
  <2>6. ~ThreadAt(new, "summary")' /\ ~ThreadAt(new, "complete")' BY <1>8, <1>10 DEF ThreadAt
  <2> QED BY <2>2, <2>3, <2>4, <2>5, <2>6 DEF WorkIsWhole
<1>31. AloneIsOrderly' BY <1>21, <1>30 DEF AloneIsOrderly
<1> QED BY <1>17, <1>18, <1>23, <1>24, <1>25, <1>26, <1>27, <1>28, <1>29, <1>31
        DEF EvalInv, Aloneness, Honesty

LEMMA RunIsStarted == ASSUME EvalInv, StartEvaluation PROVE EvalInv'
<1> DEFINE known == {s \in Run : \E k \in Threads : RunOf(k) = s}
<1>1. PICK r \in Run : r = 1 + Cardinality(known) /\ NewThread(r, FALSE, {})
  BY DEF StartEvaluation
<1>2. PICK n \in Nat : known = 1 .. n BY DEF EvalInv, Aloneness, NumberedFrom1
<1>3. r = n + 1
  <2>1. Cardinality(1 .. n) = n BY FS_Interval
  <2> HIDE DEF known
  <2> QED BY <1>1, <1>2, <2>1
<1>4. {s \in Run : s = r \/ \E k \in Threads : RunOf(k) = s} = 1 .. (n + 1)
  <2>1. {s \in Run : s = r \/ \E k \in Threads : RunOf(k) = s} = known \union {r} OBVIOUS
  <2> HIDE DEF known
  <2> QED BY <1>2, <1>3, <2>1
<1>5. \A t \in EvalTests : ~Has(r, t)
  <2>1. r \notin known
    <3> HIDE DEF known
    <3> QED BY <1>2, <1>3
  <2>2. \A k \in Threads : RunOf(k) # r BY <2>1
  <2> QED BY <2>2 DEF EvalInv, Honesty, FreshRunIsEmpty, Has
<1>6. n + 1 \in Nat OBVIOUS
<1>7. \E m \in Nat : {s \in Run : s = r \/ \E k \in Threads : RunOf(k) = s} = 1 .. m
  BY <1>4, <1>6
<1>8. /\ NewThread(r, FALSE, {}) /\ FALSE \in BOOLEAN /\ {} \in SUBSET EvalTests
      /\ \A t \in EvalTests : t \in {} <=> Has(r, t)
  BY <1>1, <1>5
<1> HIDE DEF known
<1> QED BY <1>7, <1>8, ThreadBegins

LEMMA RunIsResumed == ASSUME EvalInv, NEW r \in Run, ResumeEvaluation(r) PROVE EvalInv'
<1>1. PICK skip : skip = {t \in EvalTests : Has(r, t)} OBVIOUS
<1>2. runRow[r].status = "interrupted" /\ NewThread(r, TRUE, skip)
  BY <1>1 DEF ResumeEvaluation
<1>3. \E k \in Threads : RunOf(k) = r BY <1>2 DEF EvalInv, Honesty, FreshRunIsEmpty
<1>4. {s \in Run : s = r \/ \E k \in Threads : RunOf(k) = s} = {s \in Run : \E k \in Threads : RunOf(k) = s}
  BY <1>3
<1>5. \E n \in Nat : {s \in Run : s = r \/ \E k \in Threads : RunOf(k) = s} = 1 .. n
  BY <1>4 DEF EvalInv, Aloneness, NumberedFrom1
<1>6. /\ NewThread(r, TRUE, skip) /\ TRUE \in BOOLEAN /\ skip \in SUBSET EvalTests
      /\ \A t \in EvalTests : t \in skip <=> Has(r, t)
  BY <1>1, <1>2
<1> QED BY <1>5, <1>6, ThreadBegins

LEMMA EvalInvStep == EvalInv /\ [EvalNext]_evalVars => EvalInv'
<1> SUFFICES ASSUME EvalInv, [EvalNext]_evalVars PROVE EvalInv'
  OBVIOUS
<1>1. CASE StartEvaluation BY <1>1, RunIsStarted
<1>2. CASE StopEvaluation BY <1>2, EvaluationIsStopped
<1>3. CASE ResetState BY <1>3, StateIsReset
<1>4. CASE ClearIncompleteRuns BY <1>4, IncompleteRunsAreCleared
<1>5. CASE ServerDies BY <1>5, ServerIsDead
<1>6. ASSUME NEW r \in Run,
             ResumeEvaluation(r) \/ DeleteRun(r) \/ \E t \in EvalTests : ReplayTest(r, t)
      PROVE  EvalInv'
  BY <1>6, RunIsResumed, RunIsDeleted, TestIsReplayed
<1>7. ASSUME NEW ok \in BOOLEAN, ReplayEnds(ok) PROVE EvalInv'
  BY <1>7, ReplayIsEnded
<1>8. ASSUME NEW k \in Threads,
             \/ EnterLevel(k) \/ EndLevel(k) \/ RecalculateScores(k) \/ BeginSummary(k)
             \/ FinallyFree(k) \/ MarkIncomplete(k)
      PROVE  EvalInv'
  BY <1>8, LevelIsEntered, LevelEnds, ScoresAreRecalculated, SummaryBegins, EngineIsFreed, RunIsMarked
<1>9. ASSUME NEW k \in Threads, NEW ok \in BOOLEAN, CompleteRun(k, ok) PROVE EvalInv'
  BY <1>9, RunCompletes
<1>10. ASSUME NEW k \in Threads, NEW d \in Domain,
              \/ SkipDomain(k, d) \/ LoadTests(k, d) \/ BeginTest(k, d)
              \/ EndTest(k, d) \/ TestRaises(k, d) \/ ScoreLevel(k, d)
       PROVE  EvalInv'
  BY <1>10, DomainIsSkipped, TestsAreLoaded, TestBegins, TestEnds, TestsRaise, LevelIsScored
<1>11. CASE UNCHANGED evalVars
  <2>1. UNCHANGED <<engine, runRow, results, cellRow, evalThread, domainWork, replay, mixed, raised>>
    BY <1>11 DEF evalVars
  <2>2. CASE ~engine.running
    <3>1. EngineTyped' BY <2>1 DEF EvalInv, EvalTyped, EngineTyped
    <3> QED BY <2>1, <2>2, <3>1, EngineStops
  <2>3. Deleted({}) BY <2>1 DEF Deleted, EvalInv, EvalTyped, RowsTyped
  <2> QED BY <2>1, <2>3, RunsAreDeleted
<1> QED BY <1>1, <1>2, <1>3, <1>4, <1>5, <1>6, <1>7, <1>8, <1>9, <1>10, <1>11 DEF EvalNext

\* Unless its threads overlapped, a run has one result of a test at most, and when it is
\* completed each test that did not fail is there and counted in the score of its level:
\* however the levels, stops, resumes, resets, deletions and replays of engine.py interleave.
THEOREM RunsAddUp == EvalSpec => []RunAddsUp
<1>1. EvalInv => RunAddsUp
  <2> SUFFICES ASSUME EvalInv, NEW r \in Run \ mixed, NEW t \in EvalTests
               PROVE  /\ results[r][t] <= 1
                      /\ runRow[r].status = "completed" /\ <<r, t>> \notin raised
                         /\ replay # [run |-> r, test |-> t] => Counted(r, t)
    BY DEF RunAddsUp
  <2> QED BY DEF EvalInv, Honesty, OneResult, CompletedIsCounted, InScore, Counted
<1> QED BY EvalInvInit, EvalInvStep, <1>1, PTL DEF EvalSpec
=============================================================================
