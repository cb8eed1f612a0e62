SPECIFICATION Spec
CONSTANTS
  MaxSessions = 1
  MaxRuns = 3
  MaxControls = 2
  MaxSteps = 1
  ChannelBuffer = 2
INVARIANT IdleMeansEmpty
CHECK_DEADLOCK FALSE
