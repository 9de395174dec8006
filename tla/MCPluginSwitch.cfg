SPECIFICATION ServiceSpec
CONSTANTS
  ServiceParts = {"plugins"}
  Agent = {a1, a2}
  Model = {m1, m2}
  KnownModel = {m1, m2}
  NoGate = NoGate
  Admin = {x1}
  Value = {0, 1}
  MaxWrites = 2
  HumanSessions = {h1, h2}
  Requests = {r1, r2}
  Questions = {q1, q2}
  MaxTurnsOfB = 2
  Texts = {1, 2, 3, 4}
  FinalTexts = {3}
  MaxRuns = 2
  MaxEdits = 1
  TunnelRequests = {r1}
  MaxLinks = 2
  MaxRestarts = 1
  Commits = {v1, v2, bad}
  Bootable = {v1, v2}
  First = v1
  MaxJobs = 2
  Thread = {t1, t2, t3, t4}
  Limit = {0, 1, 2, 3}
  Plugin = {g1, g2}
  Version = {1, 2}
  SwitchedOn = {1}
  Sound = {1}
  PluginAdmins = {x1, x2}
  MaxRequests = 1
  Chat = {c1, c2}
  TurnsAtOnce = 1
  NudgeBudget = 1
  MaxTurnSteps = 2
  MaxCommands = 1
  KbSessions = {s1}
  Fact = {f1, f2}
  Title = {p1, p2}
  TitleOf <- MCTitleOf
  MaxFilings = 2
  MaxDeaths = 1
INVARIANT
  DisabledPluginIsUnloaded
CHECK_DEADLOCK FALSE
