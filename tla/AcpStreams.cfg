SPECIFICATION AcpSpec
CONSTANTS
  MaxSessions = 1
  MaxLines = 3
  MaxBatch = 1
  MaxDeltas = 1
  BufferSize = 4
INVARIANT UpdatesAreStreamed
CHECK_DEADLOCK FALSE
