CONSTANTS
  Uploads = {u1}
  Names = {n}
  Contents = {x, y}
  MaxDocuments = 2
  MaxTries = 2
  Backend = "chroma"
  Nothing = nothing
  Env = {"fail", "crash", "shutdown", "local", "abort", "stale", "orphans", "reindex"}
SPECIFICATION FairSpec
PROPERTIES JobsEnd OrphansGo
CHECK_DEADLOCK FALSE
