SPECIFICATION FairSpec
CONSTANTS
  MaxSessions = 1
  MaxRuns = 2
  MaxControls = 3
  MaxSteps = 1
  ChannelBuffer = 1
PROPERTY LockIsReleased
CHECK_DEADLOCK FALSE
