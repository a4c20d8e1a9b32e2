CONSTANTS
  Items = {i1, i2}
  Contents = {x, y}
  Engines = {e1}
  MaxVersion = 3
  MaxFailures = 1
  BulkFloor = 20
  Nothing = nothing
  Env = {"feed", "libraries", "remove", "return", "fail", "listfail", "cancel"}
SPECIFICATION Spec
INVARIANTS TypeOK ReportedIsHandled
PROPERTY SweepArchivesOnlyGone
SYMMETRY Symmetry
CHECK_DEADLOCK FALSE
