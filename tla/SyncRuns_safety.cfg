CONSTANTS
  Runs = {r1, r2}
  Callers = {c1}
  Scheduler = sched
  Ids = {i1}
  MaxPending = 2
  TakeLimit = 1
  MaxDepth = 1
  MaxCursor = 1
  MaxCrashes = 0
  NoRun = noRun
  Env = {"age", "cancel", "first"}
SPECIFICATION Spec
INVARIANTS TypeOK AtMostOneActive
PROPERTIES NotificationKept TakesTurns
SYMMETRY Symmetry
CHECK_DEADLOCK FALSE
