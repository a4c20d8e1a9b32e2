CONSTANTS
  Requests = {r1}
  Recovery = recovery
  Expiry = expiry
  Questions = {q1, q2}
  MaxFaults = 1
  NoQuestion = none
  Env = {"tools"}
SPECIFICATION Spec
SYMMETRY Symmetry
INVARIANT CompletedIsAnswered
CHECK_DEADLOCK FALSE
