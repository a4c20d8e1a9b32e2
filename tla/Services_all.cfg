CONSTANTS
  Clients = {c1, c2}
  FailureThreshold = 2
  ResetTimeout = 2
  MaxAttempts = 2
  Callers = {c1, c2, c3}
  MaxRequests = 2
  MaxTokens = 3
  Window = 3
  Requests = {c1, c2}
  Hosts = {k1, k2}
  MaxConcurrency = 2
  MaxRetries = 1
  MaxRedirects = 1
  MinInterval = 2
  HostThreshold = 2
  Cooldown = 2
  s = s
  t = t
  o = o
  Urls = {s, t, c, d, e, o}
  Outside = {o}
  Seeds <- SiteSeeds
  Aliases = {s}
  Earlier = {t, c, d}
  Pages = {x}
  MaxDepth = 2
  Limit = 4
  MaxLinks = 1
  Processes = {k1, k2}
  Values = {x, y}
  Writers = {c1, c2}
  MaxLookups = 1
  TTL = 2
  Rows = {c1, c2, c3}
  Selecting = {k1, k2}
  MaxTurns = 2
  MaxCalls = 3
  MaxParts = 2
  HistoryLimit = 3
  AgentEnv = {"analyzer", "crash", "twice", "expire"}
  Nothing = nothing
SPECIFICATION ServicesSpec
INVARIANTS TypeOK FailsFast WithinBudget WaitIsExact EveryPageInReach ReadsOwnWrite UsageIsOfTheTurn CallsAreAnswered
PROPERTIES Spaced DefaultStays LonePublishDecides Closes RequestsEnd EventuallyFresh
CHECK_DEADLOCK FALSE
