SPECIFICATION LibrarySpec
CONSTANTS
  s1 = s1
  s2 = s2
  Subs = {s1, s2}
  MaxEvents = 2
  BufferSize = 1
  Closable = {s1}
  Prunable = {s1}
  SavedPaths = {1, 2}
  SessionCallers = {1, 2}
  MaxKnown = 2
  MaxCheckpoints = 1
  MaxFileWrites = 2
  MaxSessionCalls = 3
  KeepRecent = 2
  SummaryLength = 4
  Threshold = 3
  MaxAppended = 5
  MaxCompactions = 3
  Runners = {1, 2}
  Width = 2
  MaxTogether = 2
  MaxBatches = 2
  MaxSecond = 0
  MaxEdits = 1
  Assets <- SlashAssets
  PluginNames = 2
  Plugins <- SlashPlugins
  Installations <- SlashInstallations
  MaxAssetEdits = 1
  MaxDispatches = 1
  Depth = 2
  DocMaxBytes = 6
  Separator = 2
  Suffix = 3
  DocSizes = {3, 6, 9}
  MaxSettingsFiles = 3
  MaxHookRules = 2
INVARIANTS
  OnlyOwnLosses
  RewindGivesBack
  ContextIsWhole
  
  CommandsKeepTheirNames
  
  RulesOnlyTighten
PROPERTY ImplementsBroadcast
CHECK_DEADLOCK FALSE
