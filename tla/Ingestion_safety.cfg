CONSTANTS
  Uploads = {u1, u2}
  Names = {n}
  Contents = {x, y}
  MaxDocuments = 3
  MaxTries = 1
  Backend = "pgvector"
  Nothing = nothing
  Env = {"fail", "weekly", "delete", "shutdown", "twins"}
SPECIFICATION Spec
INVARIANTS TypeOK JobNamesItsBytes HiddenHasSuccessor SiblingsNumbered SearchableIfReady
SYMMETRY Symmetry
CHECK_DEADLOCK FALSE
