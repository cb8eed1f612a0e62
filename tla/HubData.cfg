SPECIFICATION HubDataSpec
CONSTANTS
  PathCount = 2
  Tracked = {1}
  MaxExecutions = 2
  MaxVersions = 3
  MaxOperations = 3
  MaxTogether = 4
  r1 = r1
  r2 = r2
  Requests = {r1, r2}
  HistoryLimit = 2
  ChannelSize = 1
  MaxEvents = 4
  MaxBreaks = 2
  MaxCrashes = 1
  c1 = c1
  c2 = c2
  Conversations = {c1, c2}
  h1 = h1
  h2 = h2
  Handlers = {h1, h2}
  MaxActs = 3
  MaxWriteFaults = 1
  MaxHubCrashes = 1
  q1 = q1
  q2 = q2
  ProjectRequests = {q1, q2}
  ma = ma
  mb = mb
  ModelConfigs = {ma, mb}
  NoModel = NoModel
  Rule = Rule
  Offered <- OfferedConfigs
  MaxProjectCalls = 3
  MaxQueued = 2
  MaxProjectFaults = 1
  t1 = t1
  t2 = t2
  Shells = {t1, t2}
  MaxCommands = 2
  MaxKills = 1
  MaxStarts = 3
  MaxRowWrites = 2
INVARIANTS LedgerIsComplete ViewFollowsHub TablesKeepMemory
  AgreeUnlessCrossed SettingsAreKept MigrationKeepsRows
SYMMETRY Symmetry
CHECK_DEADLOCK FALSE
