----------------------------- MODULE SessionSweep -----------------------------
(***************************************************************************)
(* The per-session objects of AgentRuntime (_SessionStore: the processing   *)
(* lock, the injection queue, the busy flag) against the sweep that drops   *)
(* those of idle sessions (_cleanup_idle_sessions).  One session.  Each     *)
(* dict has a guard of its own, so every get-or-create and every pop is one *)
(* step, and a sweep is one step per dict.  An entry that is popped is      *)
(* created anew by its next user: locks and queues are numbered, 0 is no    *)
(* entry.  The stop events are treated as the queues are.                   *)
(***************************************************************************)
EXTENDS Naturals, FiniteSets

CONSTANTS Worker, Nobody,
          OutlivesTTL,  \* may a turn last longer than the TTL
          MaxObjects,   \* bound: locks and queues ever created
          MaxSweeps     \* bound

ASSUME SweepAssumption ==
  OutlivesTTL \in BOOLEAN /\ MaxObjects \in Nat \ {0} /\ Nobody \notin Worker

VARIABLES
  ttl,       \* _ttl of the session: "absent", "fresh" or "old"
  lock, locks,   \* _locks entry; number of locks created
  holder,    \* per lock: the worker that holds it
  inject, queues,   \* _inject_queues entry; number of queues created
  busy,      \* _busy entry; no entry reads as FALSE
  worker,    \* per worker: [pc, lock, queue]
  sweep,     \* the dict the sweep pops next, or "idle"
  sweeps

store == <<lock, locks, holder, inject, queues, busy>>
sweepVars == <<ttl, store, worker, sweep, sweeps>>

Object == 0..MaxObjects
AtRest == [pc |-> "idle", lock |-> 0, queue |-> 0]
At(w, pc) == worker[w].pc = pc
Go(w, pc) == worker' = [worker EXCEPT ![w].pc = pc]

\* From start_turn to the release of the session's lock.
InTurn == {w \in Worker : worker[w].pc \in {"starting", "busy", "looping", "leaving"}}

SweepInit ==
  /\ ttl = "absent"
  /\ lock = 0 /\ locks = 0 /\ holder = [l \in 1..MaxObjects |-> Nobody]
  /\ inject = 0 /\ queues = 0 /\ busy = FALSE
  /\ worker = [w \in Worker |-> AtRest]
  /\ sweep = "idle" /\ sweeps = 0

-----------------------------------------------------------------------------
(* A worker with a task of the session.  A message is queued for a worker   *)
(* only when the busy flag is down: otherwise it is injected.               *)

TakeTask(w) ==
  /\ At(w, "idle") /\ ~busy
  /\ Go(w, "touching")
  /\ UNCHANGED <<ttl, store, sweep, sweeps>>

Touch(w) ==
  /\ At(w, "touching") /\ ttl' = "fresh"
  /\ Go(w, "looking")
  /\ UNCHANGED <<store, sweep, sweeps>>

GetLock(w) ==
  /\ At(w, "looking")
  /\ \/ /\ lock # 0
        /\ worker' = [worker EXCEPT ![w].pc = "locking", ![w].lock = lock]
        /\ UNCHANGED <<lock, locks>>
     \/ /\ lock = 0 /\ locks < MaxObjects
        /\ lock' = locks + 1 /\ locks' = locks + 1
        /\ worker' = [worker EXCEPT ![w].pc = "locking", ![w].lock = locks + 1]
  /\ UNCHANGED <<ttl, holder, inject, queues, busy, sweep, sweeps>>

AcquireLock(w) ==
  /\ At(w, "locking") /\ holder[worker[w].lock] = Nobody
  /\ holder' = [holder EXCEPT ![worker[w].lock] = w]
  /\ Go(w, "starting")
  /\ UNCHANGED <<ttl, lock, locks, inject, queues, busy, sweep, sweeps>>

SetBusy(w) ==
  /\ At(w, "starting") /\ busy' = TRUE
  /\ Go(w, "busy")
  /\ UNCHANGED <<ttl, lock, locks, holder, inject, queues, sweep, sweeps>>

\* The loop is given the session's injection queue once, at its start.
EnterLoop(w) ==
  /\ At(w, "busy")
  /\ \/ /\ inject # 0
        /\ worker' = [worker EXCEPT ![w].pc = "looping", ![w].queue = inject]
        /\ UNCHANGED <<inject, queues>>
     \/ /\ inject = 0 /\ queues < MaxObjects
        /\ inject' = queues + 1 /\ queues' = queues + 1
        /\ worker' = [worker EXCEPT ![w].pc = "looping", ![w].queue = queues + 1]
  /\ UNCHANGED <<ttl, lock, locks, holder, busy, sweep, sweeps>>

ClearBusy(w) ==
  /\ At(w, "looping") /\ busy' = FALSE
  /\ Go(w, "leaving")
  /\ UNCHANGED <<ttl, lock, locks, holder, inject, queues, sweep, sweeps>>

\* The lock that is released is the one the store has by now.
MutReleaseLock(w) ==
  /\ At(w, "leaving")
  /\ holder' = [l \in 1..MaxObjects |-> IF l = lock THEN Nobody ELSE holder[l]]
  /\ worker' = [worker EXCEPT ![w] = AtRest]
  /\ UNCHANGED <<ttl, lock, locks, inject, queues, busy, sweep, sweeps>>

ReleaseLock(w) ==
  /\ At(w, "leaving")
  /\ holder' = [holder EXCEPT ![worker[w].lock] = Nobody]
  /\ worker' = [worker EXCEPT ![w] = AtRest]
  /\ UNCHANGED <<ttl, lock, locks, inject, queues, busy, sweep, sweeps>>

-----------------------------------------------------------------------------
(* Time, and the sweep *)

GrowOld ==
  /\ ttl = "fresh" /\ (OutlivesTTL \/ \A w \in Worker : At(w, "idle"))
  /\ ttl' = "old"
  /\ UNCHANGED <<store, worker, sweep, sweeps>>

FindStale ==
  /\ sweep = "idle" /\ ttl = "old" /\ sweeps < MaxSweeps
  /\ sweep' = "ttl" /\ sweeps' = sweeps + 1
  /\ UNCHANGED <<ttl, store, worker>>

PopTTL ==
  /\ sweep = "ttl" /\ sweep' = "lock" /\ ttl' = "absent"
  /\ UNCHANGED <<store, worker, sweeps>>

PopLock ==
  /\ sweep = "lock" /\ sweep' = "inject" /\ lock' = 0
  /\ UNCHANGED <<ttl, locks, holder, inject, queues, busy, worker, sweeps>>

PopInject ==
  /\ sweep = "inject" /\ sweep' = "busy" /\ inject' = 0
  /\ UNCHANGED <<ttl, lock, locks, holder, queues, busy, worker, sweeps>>

PopBusy ==
  /\ sweep = "busy" /\ sweep' = "idle" /\ busy' = FALSE
  /\ UNCHANGED <<ttl, lock, locks, holder, inject, queues, worker, sweeps>>

-----------------------------------------------------------------------------
Work(w) ==
  \/ Touch(w) \/ GetLock(w) \/ AcquireLock(w) \/ SetBusy(w)
  \/ EnterLoop(w) \/ ClearBusy(w) \/ ReleaseLock(w)
Sweep == PopTTL \/ PopLock \/ PopInject \/ PopBusy

SweepNext == (\E w \in Worker : TakeTask(w) \/ Work(w)) \/ GrowOld \/ FindStale \/ Sweep

\* Threads run; a lock is handed to a waiter in the end, however often others
\* take it in between.
SweepFairness == (\A w \in Worker : SF_sweepVars(Work(w))) /\ WF_sweepVars(Sweep)

SweepSpec == SweepInit /\ [][SweepNext]_sweepVars /\ SweepFairness

-----------------------------------------------------------------------------
SweepTypeOK ==
  /\ ttl \in {"absent", "fresh", "old"} /\ busy \in BOOLEAN
  /\ lock \in Object /\ locks \in Object /\ inject \in Object /\ queues \in Object
  /\ holder \in [1..MaxObjects -> Worker \union {Nobody}]
  /\ worker \in [Worker -> [pc : {"idle", "touching", "looking", "locking", "starting", "busy",
                                  "looping", "leaving"}, lock : Object, queue : Object]]
  /\ sweep \in {"idle", "ttl", "lock", "inject", "busy"}

\* Each worker holds the lock it took, and only that one, whatever the sweep
\* has done to the entry it came from ("Per-session Locks in _locks are never
\* shared across sessions": a lock belongs to whoever was given it).
LockIsItsHolders ==
  \A l \in 1..MaxObjects, w \in Worker :
    holder[l] = w <=> (w \in InTurn /\ worker[w].lock = l)

\* A worker that wants the session's lock gets it, also when the sweep drops
\* the lock from the store while the worker waits on it.
EveryTaskGetsItsTurn == \A w \in Worker : At(w, "locking") ~> w \in InTurn

-----------------------------------------------------------------------------
(* What comments of the code say and the model refutes. *)

\* "Prevent concurrent processing of messages for the same session_id by
\* different worker threads".
OneTurnAtATime == Cardinality(InTurn) <= 1

\* "queues are never removed while a session is active": a running loop drains
\* the queue that messages are put into.
LoopHasTheQueue == \A w \in Worker : At(w, "looping") => worker[w].queue = inject
=============================================================================
