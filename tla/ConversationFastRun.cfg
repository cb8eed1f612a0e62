SPECIFICATION FairSpec
CONSTANTS
  MaxPrompts = 2
  MaxRuns = 2
  MaxThreads = 1
  MaxCalls = 0
  MaxWaits = 0
  Calls = {}
  Faults = FALSE
PROPERTIES PromptsEnd
CHECK_DEADLOCK FALSE
