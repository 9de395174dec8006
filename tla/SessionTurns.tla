----------------------------- MODULE SessionTurns -----------------------------
(***************************************************************************)
(* What a chat session promises of its turns, whichever threads queue them, *)
(* carry them out or take them away: a turn is queued once, and beside no    *)
(* other queued one; it is started once, while no other is in progress, and  *)
(* never after a stop has cancelled it; only a turn in progress answers.     *)
(***************************************************************************)
EXTENDS Naturals

CONSTANTS TurnId, Worker, None,
          Message        \* what turns answer

VARIABLES row,        \* state of each turn
          runs,       \* per worker: the turn it has in progress, or None
          cancelled,  \* the turns a stop has cancelled
          heard       \* the messages that were answered

turnVars == <<row, runs, cancelled, heard>>

TurnsInit ==
  /\ row = [t \in TurnId |-> "none"] /\ runs = [w \in Worker |-> None]
  /\ cancelled = {} /\ heard = {}

Waiting == {t \in TurnId : row[t] = "queued"}

Queue(t) ==
  /\ row[t] = "none" /\ Waiting = {}
  /\ row' = [row EXCEPT ![t] = "queued"]
  /\ UNCHANGED <<runs, cancelled, heard>>

Start(w, t) ==
  /\ row[t] = "queued" /\ \A v \in Worker : runs[v] = None
  /\ row' = [row EXCEPT ![t] = "running"] /\ runs' = [runs EXCEPT ![w] = t]
  /\ UNCHANGED <<cancelled, heard>>

Answer(w) ==
  /\ runs[w] # None
  /\ \E S \in SUBSET Message : heard' = heard \union S
  /\ UNCHANGED <<row, runs, cancelled>>

Finish(w) ==
  /\ runs[w] # None
  /\ row' = [row EXCEPT ![runs[w]] = "gone"] /\ runs' = [runs EXCEPT ![w] = None]
  /\ UNCHANGED <<cancelled, heard>>

\* A stop takes what is queued; what runs has yet to notice it.
Cancel ==
  /\ row' = [t \in TurnId |-> IF t \in Waiting THEN "gone" ELSE row[t]]
  /\ cancelled' = cancelled \union Waiting
  /\ UNCHANGED <<runs, heard>>

\* A turn that is taken for dead loses its row; its worker may go on.
Reap(t) ==
  /\ row[t] = "running"
  /\ row' = [row EXCEPT ![t] = "gone"]
  /\ UNCHANGED <<runs, cancelled, heard>>

TurnsNext ==
  \/ \E t \in TurnId : Queue(t) \/ Reap(t) \/ \E w \in Worker : Start(w, t)
  \/ \E w \in Worker : Answer(w) \/ Finish(w)
  \/ Cancel

TurnsSpec == TurnsInit /\ [][TurnsNext]_turnVars
=============================================================================
