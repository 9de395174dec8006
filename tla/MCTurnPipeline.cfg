SPECIFICATION Spec
CONSTANTS
  m1 = m1
  m2 = m2
  m3 = m3
  n1 = n1
  s1 = s1
  s2 = s2
  w1 = w1
  w2 = w2
  None = None
  Message = {m1, m2}
  Buffering = {{}, {m1}, {m1, m2}}
  Note = {n1}
  Spare = {s1, s2}
  Worker = {w1, w2}
  MaxRounds = 2
  MaxStops = 1
  MaxReaps = 1
INVARIANTS
  QueuedRowHasTask
  CancelledTurnNeverRuns
  HeldNoteIsFlushed
PROPERTIES
  AcceptedMessageIsServed
  TurnsAreTheSessions
CHECK_DEADLOCK FALSE
