SPECIFICATION AgentSpec
CONSTANTS
  MaxCalls = 2
  MaxTurns = 2
  MaxClicks = 3
  TaskCount = 3
  Parallelism = {1, 2}
  MaxReports = 3
  k1 = k1
  k2 = k2
  TeamTasks = {k1, k2}
  f1 = f1
  f2 = f2
  Files = {f1, f2}
  a1 = a1
  Teammates = {a1}
  NoOwner = NoOwner
  MaxTeamCalls = 4
  ToolCalls = {1, 2}
  Risk <- CallRisk
  Heuristic <- CallHeuristic
  HookEvents = {1}
  ApiRequests = {1, 2}
  Permission <- RequestPermission
  PolicyBound = {1}
  MaxRules = 2
  MaxSessions = 2
  MaxLines = 2
  MaxBatch = 2
  MaxDeltas = 1
  BufferSize = 4
  CatalogCallers = {1, 2}
  d1 = d1
  d2 = d2
  Roots = {d1, d2}
  DefaultRoot = d1
  Embedded = Embedded
  MaxCatalogCalls = 3
  MaxEdits = 2
  MaxCatalogFaults = 1
  PipeFrames = 1
  MaxNoise = 2
  MaxConfigEdits = 1
INVARIANTS ToolsEndWithTheBatch AsksMeetAnswers GraphIsFairToTasks LocksAgree
  PromptSeesItsRun LastChangeCounts CallsAreAccounted
PROPERTY TighteningNeverLoosens
CHECK_DEADLOCK FALSE
