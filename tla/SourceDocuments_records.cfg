CONSTANTS
  Items = {i1}
  Contents = {x, y}
  Engines = {e1}
  MaxVersion = 4
  MaxFailures = 2
  BulkFloor = 20
  Nothing = nothing
  Env = {"remove", "return", "fail", "targets", "unrecorded", "skips", "retry", "delete"}
SPECIFICATION FairSpec
INVARIANT RecordDescribesDocument
PROPERTY ItemsAreMirrored
CHECK_DEADLOCK FALSE
