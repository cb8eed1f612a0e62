SPECIFICATION PromptedSpec
CONSTANTS
  MaxSessions = 1
  MaxRuns = 3
  MaxControls = 2
  MaxSteps = 1
  ChannelBuffer = 1
INVARIANTS RunsAreAccounted IdleMeansEmpty NoStaleApproval
PROPERTY ImplementsRunQueue
CHECK_DEADLOCK FALSE
