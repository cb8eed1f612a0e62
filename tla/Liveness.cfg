SPECIFICATION FairBothSpec
CONSTANTS
  MaxSessions = 1
  MaxRuns = 2
  MaxControls = 2
  MaxSteps = 2
  ChannelBuffer = 1
  s1 = s1
  Subs = {s1}
  MaxEvents = 3
  BufferSize = 1
  Closable = {s1}
  Prunable = {s1}
PROPERTIES CancelledRunEnds QueueMoves ReadersCatchUp NobodyIsHeld
CHECK_DEADLOCK FALSE
