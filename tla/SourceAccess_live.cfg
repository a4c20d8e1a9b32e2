CONSTANTS
  Items = {i1}
  Principals = {p}
  Members = {m, n}
  Nobody = nobody
  MaxFailures = 2
  Env = {"content", "mode", "unreadable", "failed", "retry"}
SPECIFICATION FairSpec
INVARIANTS TypeOK AccessFollowsRules
PROPERTY AclArrives
