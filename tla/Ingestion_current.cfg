CONSTANTS
  Uploads = {u1, u2}
  Names = {n}
  Contents = {x, y}
  MaxDocuments = 2
  MaxTries = 1
  Backend = "pgvector"
  Nothing = nothing
  Env = {}
SPECIFICATION Spec
INVARIANTS OneCurrentVersion
SYMMETRY Symmetry
CHECK_DEADLOCK FALSE
