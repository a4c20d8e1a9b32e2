CONSTANTS
  Runs = {r1, r2}
  Callers = {}
  Scheduler = sched
  Ids = {}
  MaxPending = 2
  TakeLimit = 1
  MaxDepth = 0
  MaxCursor = 1
  MaxCrashes = 1
  NoRun = noRun
  Env = {"age", "schedule", "pause", "fail"}
SPECIFICATION FairSpec
PROPERTIES ActiveRunsEnd DueIsServed PauseHolds
CHECK_DEADLOCK FALSE
