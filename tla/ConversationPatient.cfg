SPECIFICATION FairPatientSpec
CONSTANTS
  MaxPrompts = 3
  MaxRuns = 3
  MaxThreads = 2
  MaxCalls = 2
  MaxWaits = 1
  Calls = {"stop_session", "stop", "approve", "answer"}
  Faults = TRUE
INVARIANTS DispatchedInOrder NoOrphanRun HubAgreesWithEngine
PROPERTY PromptsEnd
CHECK_DEADLOCK FALSE
