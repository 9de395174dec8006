SPECIFICATION StoreSpec
CONSTANTS
  StoreParts = {"journal", "rows", "sweep", "eval"}
  None = None
  Turn = {t1}
  Emitter = {x1}
  PageSize = 2
  MaxEvents = 3
  ReaperTurns = {t1, t2}
  MaxBoots = 3
  Nobody = Nobody
  Worker = {w1, w2}
  OutlivesTTL = TRUE
  MaxObjects = 3
  MaxSweeps = 2
  EvalTests <- MCEvalTests
  NumLevels = 2
  MaxEvalRuns = 1
  MaxEvalThreads = 3
  MaxEvalRequests = 2
INVARIANTS
  NoSilentGap
  LiveTurnIsReplayable
  LockIsItsHolders
  ClosedOnce
  RunAddsUp
PROPERTIES
  StoreMovesOn
CHECK_DEADLOCK FALSE
