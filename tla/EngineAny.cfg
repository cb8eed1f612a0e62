SPECIFICATION Spec
CONSTANTS
  MaxSessions = 2
  MaxRuns = 3
  MaxControls = 1
  MaxSteps = 1
  ChannelBuffer = 1
INVARIANTS TypeOK OneExecutorPerSession StartsInSubmissionOrder SequencesGapless EventsFollowLifecycle
CHECK_DEADLOCK FALSE
