CONSTANTS
  Requests = {r1}
  Recovery = recovery
  Expiry = expiry
  Questions = {q1, q2}
  MaxFaults = 3
  NoQuestion = none
  Env = {"tools", "overlap", "slow", "again", "expire"}
SPECIFICATION FairSpec
INVARIANTS TypeOK AnsweredOnce PendingWorkIsMarked
PROPERTY StuckIsCleared
CHECK_DEADLOCK FALSE
