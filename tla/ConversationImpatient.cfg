SPECIFICATION Spec
CONSTANTS
  MaxPrompts = 3
  MaxRuns = 3
  MaxThreads = 2
  MaxCalls = 1
  MaxWaits = 1
  Calls = {"stop_session", "resume", "deny", "rollback", "restart", "delete"}
  Faults = TRUE
INVARIANTS QueueIsServedOnce
CHECK_DEADLOCK FALSE
