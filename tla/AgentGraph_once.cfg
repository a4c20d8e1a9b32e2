CONSTANTS
  MaxTurns = 2
  MaxCalls = 1
  MaxParts = 2
  HistoryLimit = 20
  Env = {}
SPECIFICATION Spec
INVARIANT EachMessageOnce
CHECK_DEADLOCK FALSE
