SPECIFICATION StoreSpec
CONSTANTS
  StoreParts = {"sweep"}
  None = None
  Turn = {t1}
  Emitter = {x1}
  PageSize = 2
  MaxEvents = 3
  ReaperTurns = {t1, t2}
  MaxBoots = 3
  Nobody = Nobody
  Worker = {w1, w2}
  OutlivesTTL = FALSE
  MaxObjects = 3
  MaxSweeps = 2
  EvalTests <- MCEvalTests
  NumLevels = 2
  MaxEvalRuns = 1
  MaxEvalThreads = 3
  MaxEvalRequests = 2
INVARIANT
  OneTurnAtATime
CHECK_DEADLOCK FALSE
