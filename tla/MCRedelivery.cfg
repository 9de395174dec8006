SPECIFICATION WaitSpec
CONSTANTS
  WaitParts = {"sessions", "monitors"}
  Session = {s1, w}
  WorkSession = {w}
  Capacity = 1
  EventThreads = 2
  MaxMessages = 1
  MaxCrashes = 1
  Name = {k1}
  Watch = {m1}
  Refreshers = {panel}
  Interval = 1
  MaxSpawns = 1
  MaxHands = 1
  MaxBreaks = 1
INVARIANTS
  UnansweredIsInHand
  ReportsOnce
PROPERTIES
  NobodyWaitsForever
CHECK_DEADLOCK FALSE
