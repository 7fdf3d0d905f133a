SPECIFICATION Spec
CONSTANTS
  r1 = r1
  r2 = r2
  RunIds = {r1, r2}
  NoRun = NoRun
  MaxRounds = 3
  MaxChunks = 1
CHECK_DEADLOCK FALSE
INVARIANT ReportedFailureQueuedNothing
