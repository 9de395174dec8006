SPECIFICATION AgentSpec
CONSTANTS
  p1 = p1
  p2 = p2
  q = q
  child = child
  child2 = child2
  A = A
  B = B
  X = X
  Y = Y
  M = M
  S1 = S1
  S2 = S2
  S3 = S3
  S4 = S4
  None = None
  Turn = {p1, p2, q, child, child2}
  Agent = {A, B, X, Y}
  Model = {M}
  Session = {S1, S2, S3, S4}
  AgentOf <- MCAgentOf
  SessionOf <- MCSessionOf
  ModelOf <- MCModelOf
  ChildOf <- MCChildOf
  AgentParts = {"gates", "board"}
  Tasks = {t1, t2}
  NoTask = NoTask
  MaxActs = 2
  Workers = 3
  AgentLimit = 1
  ModelLimit = 1
INVARIANTS
  GatesCountHolders
PROPERTIES
  GatesAreSemaphores
  AgentsMoveOn
CHECK_DEADLOCK FALSE
