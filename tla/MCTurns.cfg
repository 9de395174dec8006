SPECIFICATION TurnSpec
CONSTANTS
  TurnParts = {"loop", "batch", "ask", "subagents", "containers"}
  MaxToolIterations = 2
  CallsPerIteration = 2
  MaxInjections = 1
  MaxTimeoutRetries = 1
  MinImageRetries = 2
  MaxFollowUps = 1
  MaxDuplicates = 1
  ForceStopGrace = 1
  CompactAttempts = 2
  BatchSize = 1
  MaxArrivals = 2
  GoalBudgets = {1}
  Turns <- MCLoopTurns
  NumCalls = 2
  NumBatches = 2
  CallKinds = {"read", "write", "sendfile", "risky", "bad"}
  EchoThreads = {1}
  MaxTyped = 2
  Parents = {p1}
  Spawners = {w1, w2}
  MaxSubAgents = 1
  MaxSpawned = 2
  m1 = m1
  m2 = m2
  x1 = x1
  CallerSessions = {m1, m2, x1}
  MainSessions = {m1, m2}
  AgentKey = agent
  AdoptedKey = adopted
  SessionId <- MCSessionId
  CallsOf <- MCCallsOf
  MaxPool = 1
  MaxBoxes = 2
  MaxCalls = 2
  MaxTroubles = 1
INVARIANTS
  StopIsHeeded
  ToolRoundsAreBounded
  BatchIsToldWhole
  RiskyCallWasApproved
  AnswerInTimeCounts
  RunsInOwnContainer
PROPERTIES
  TurnEnds
  SubStaysItself
  ReaperSparesLasting
CHECK_DEADLOCK FALSE
