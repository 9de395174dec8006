--------------------------- MODULE ConcurrencyGate ---------------------------
(***************************************************************************)
(* One ConcurrencyGate of backend/agent_runtime/concurrency.py: a counter   *)
(* and a limit guarded by a lock, and a condition variable on that lock.    *)
(* Every block under "with self._condition" is one step.  A wait() gives    *)
(* the lock up, so a waiting thread is a state of its own, and the thread   *)
(* looks at the counter again in a step of its own when it wakes.           *)
(*                                                                         *)
(* wait() has a timeout.  A thread whose wait has timed out stays in the    *)
(* condition's list of waiters until it has the lock back, so a notify()    *)
(* may be spent on it.                                                      *)
(***************************************************************************)
EXTENDS Naturals, FiniteSets

CONSTANTS Thread,    \* the threads that run turns
          Limit      \* the values an operator may set the limit to

ASSUME ThreadAssumption == IsFiniteSet(Thread)
ASSUME LimitAssumption == Limit \subseteq Nat

VARIABLES active,    \* _active
          max,       \* _max, 0 for no limit
          pc         \* where each thread is

vars == <<active, max, pc>>

Outside  == {t \in Thread : pc[t] = "outside"}
Sleeping == {t \in Thread : pc[t] = "sleeping"}   \* blocked in wait()
TimedOut == {t \in Thread : pc[t] = "timedout"}   \* out of wait(), still listed
Notified == {t \in Thread : pc[t] = "notified"}   \* off the list, wants the lock
Holders  == {t \in Thread : pc[t] = "inside"}

Listed == Sleeping \union TimedOut                \* Condition._waiters

\* Off by one: one permit too many.
MutFull == max > 0 /\ active > max

Full == max > 0 /\ active >= max

Init == /\ active = 0
        /\ max \in Limit
        /\ pc = [t \in Thread |-> "outside"]

\* The loop of acquire(): take a permit, or (again) wait for one.
TryAcquire(t) ==
  \/ /\ ~Full
     /\ active' = active + 1
     /\ pc' = [pc EXCEPT ![t] = "inside"]
     /\ UNCHANGED max
  \/ /\ Full
     /\ pc' = [pc EXCEPT ![t] = "sleeping"]
     /\ UNCHANGED <<active, max>>

Acquire(t) == t \in Outside /\ TryAcquire(t)

Wake(t) == t \in Notified \union TimedOut /\ TryAcquire(t)

\* The 30 second watchdog wait returned without a notification.
WaitTimeout(t) == /\ t \in Sleeping
                  /\ pc' = [pc EXCEPT ![t] = "timedout"]
                  /\ UNCHANGED <<active, max>>

\* The permit is passed on to the waiter, who counts itself in again.
MutHandOver(t) ==
  /\ t \in Holders
  /\ UNCHANGED max
  /\ \/ /\ Listed = {}
        /\ active' = active - 1
        /\ pc' = [pc EXCEPT ![t] = "outside"]
     \/ \E w \in Listed :
          /\ pc' = [pc EXCEPT ![t] = "outside", ![w] = "notified"]
          /\ UNCHANGED active

\* release(): one listed waiter, if there is any, is notified.
Release(t) ==
  /\ t \in Holders
  /\ active' = active - 1
  /\ UNCHANGED max
  /\ \/ Listed = {} /\ pc' = [pc EXCEPT ![t] = "outside"]
     \/ \E w \in Listed :
          pc' = [pc EXCEPT ![t] = "outside", ![w] = "notified"]

\* A new limit that wakes one waiter only.
MutSetMax(n) ==
  /\ max' = n
  /\ \/ Listed = {} /\ UNCHANGED pc
     \/ \E w \in Listed : pc' = [pc EXCEPT ![w] = "notified"]
  /\ UNCHANGED active

\* set_max(): every listed waiter is notified.
SetMax(n) ==
  /\ max' = n
  /\ pc' = [t \in Thread |-> IF t \in Listed THEN "notified" ELSE pc[t]]
  /\ UNCHANGED active

Next == \/ \E t \in Thread : Acquire(t) \/ Wake(t) \/ WaitTimeout(t) \/ Release(t)
        \/ \E n \in Limit : SetMax(n)

\* A thread that is runnable gets the lock.  Nothing is assumed about the
\* watchdog: a waiter must be woken by the notifications alone.
Fairness == \A t \in Thread : WF_vars(Wake(t))

Spec == Init /\ [][Next]_vars /\ Fairness

-----------------------------------------------------------------------------
TypeOK == /\ active \in Nat
          /\ max \in Limit
          /\ pc \in [Thread -> {"outside", "sleeping", "timedout", "notified", "inside"}]

\* The counter is the number of threads inside: no permit leaks and none is
\* handed back twice, whatever the interleaving (acquire() and release()).
PermitsAccountedFor == active = Cardinality(Holders)

\* As long as somebody sleeps, the gate is limited and what its counter shows as
\* free has a notified thread coming for each.
NoLostWakeup ==
  Sleeping # {} => max > 0 /\ Cardinality(Notified) + active >= max

\* As long as somebody sleeps, every permit nobody holds has a notified thread of
\* its own coming for it: no wake-up is lost to a thread that barges in, to a
\* timed-out waiter that consumed a notify(), or to a limit that was raised while
\* several threads slept, and no permit to a counter that was not taken down.
NoPermitLiesIdle ==
  Sleeping # {} => max > 0 /\ Cardinality(Notified) + Cardinality(Holders) >= max

\* Without any help from the watchdog timeout, a free permit is not left idle
\* next to a sleeping thread: the gate fills up or the thread is woken.
FreePermitIsUsed ==
  \A t \in Thread : (pc[t] = "sleeping" /\ ~Full) ~> (pc[t] # "sleeping" \/ Full)

\* The gate is a resizable semaphore.
Sem == INSTANCE Semaphore WITH holders <- Holders, limit <- max
RefinesSemaphore == Sem!SemSpec
=============================================================================
