------------------------------ MODULE Semaphore ------------------------------
(***************************************************************************)
(* What a ConcurrencyGate promises its callers: a semaphore whose number   *)
(* of permits may be changed while it is in use.  A limit of 0 means "no    *)
(* limit".  Lowering the limit takes no permit back: it only keeps new      *)
(* holders out until enough of the old ones have left.                      *)
(***************************************************************************)
EXTENDS Naturals, FiniteSets

CONSTANTS Thread,    \* the threads that run turns
          Limit      \* the values an operator may set the limit to

VARIABLES holders,   \* the threads that hold a permit
          limit      \* the limit in force

semVars == <<holders, limit>>

SemInit == holders = {} /\ limit \in Limit

Room == limit = 0 \/ Cardinality(holders) < limit

Take(t) == /\ t \notin holders
           /\ Room
           /\ holders' = holders \union {t}
           /\ UNCHANGED limit

Give(t) == /\ t \in holders
           /\ holders' = holders \ {t}
           /\ UNCHANGED limit

Resize(n) == limit' = n /\ UNCHANGED holders

SemNext == (\E t \in Thread : Take(t) \/ Give(t)) \/ (\E n \in Limit : Resize(n))

SemSpec == SemInit /\ [][SemNext]_semVars
=============================================================================
