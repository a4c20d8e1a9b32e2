------------------------------ MODULE Services ------------------------------
(***************************************************************************)
(* The components that share no state with each other, in one              *)
(* specification: every behaviour is one of one of them, which `component` *)
(* names, and s1 to s7 are its variables.                                  *)
(***************************************************************************)
EXTENDS Naturals

CONSTANTS
  Clients, FailureThreshold, ResetTimeout, MaxAttempts,                  \* CircuitBreaker
  Callers, MaxRequests, MaxTokens, Window,                             \* RateLimiter
  Requests, Hosts, MaxConcurrency, MaxRetries, MaxRedirects,           \* ConnectorHttp
  MinInterval, HostThreshold, Cooldown,
  Urls, Outside, Seeds, Aliases, Earlier, Pages, MaxDepth, Limit, MaxLinks,   \* WebCrawl
  Processes, Values, Writers, MaxLookups, TTL,                         \* SettingsCache
  Rows, Selecting,                                                     \* SelectedRow
  MaxTurns, MaxCalls, MaxParts, HistoryLimit, AgentEnv,                \* AgentGraph
  Nothing                                                              \* no value

VARIABLES component, s1, s2, s3, s4, s5, s6, s7
vars == <<component, s1, s2, s3, s4, s5, s6, s7>>

Breaker == INSTANCE CircuitBreaker WITH
  Calls <- Clients, Threshold <- FailureThreshold,
  state <- s1, failures <- s2, opened <- s3, call <- s4, healthy <- s5, late <- s6, quiet <- s7
Limiter == INSTANCE RateLimiter WITH events <- s1, caller <- s2, granted <- s3
Http == INSTANCE ConnectorHttp WITH
  Threshold <- HostThreshold, request <- s1, asked <- s2, breaker <- s3, sent <- s4
Crawl == INSTANCE WebCrawl WITH
  Contents <- Pages, page <- s1, queue <- s2, queued <- s3, found <- s4, crawl <- s5
Cache == INSTANCE SettingsCache WITH
  service <- s1, row <- s2, cache <- s3, lookup <- s4, writer <- s5, excused <- s6
Selected == INSTANCE SelectedRow WITH
  Requests <- Selecting, table <- s1, exists <- s2, selected <- s3, request <- s4
Agent == INSTANCE AgentGraph WITH Env <- AgentEnv, thread <- s1, rows <- s2, run <- s3

ASSUME ServicesAssumption ==
  /\ Breaker!BreakerAssumption /\ Limiter!LimiterAssumption /\ Http!ClientAssumption
  /\ Crawl!CrawlAssumption /\ Cache!CacheAssumption /\ Agent!AgentAssumption
  /\ Values # {} /\ Processes # {} /\ Rows # {}

ServicesInit ==
  \/ component = "breaker" /\ Breaker!Init
  \/ component = "limiter" /\ Limiter!Init /\ s4 = Nothing /\ s5 = Nothing /\ s6 = Nothing /\ s7 = Nothing
  \/ component = "http" /\ Http!Init /\ s5 = Nothing /\ s6 = Nothing /\ s7 = Nothing
  \/ component = "crawl" /\ Crawl!Init /\ s6 = Nothing /\ s7 = Nothing
  \/ component = "cache" /\ Cache!Init /\ s7 = Nothing
  \/ component = "selected" /\ Selected!Init /\ s5 = Nothing /\ s6 = Nothing /\ s7 = Nothing
  \/ component = "agent" /\ Agent!Init /\ s4 = Nothing /\ s5 = Nothing /\ s6 = Nothing /\ s7 = Nothing

\* A step of one of them: the others' variables, if it has fewer, stay as they are.
BreakerStep == component = "breaker" /\ UNCHANGED component
LimiterStep == component = "limiter" /\ UNCHANGED <<component, s4, s5, s6, s7>>
HttpStep == component = "http" /\ UNCHANGED <<component, s5, s6, s7>>
CrawlStep == component = "crawl" /\ UNCHANGED <<component, s6, s7>>
CacheStep == component = "cache" /\ UNCHANGED <<component, s7>>
SelectedStep == component = "selected" /\ UNCHANGED <<component, s5, s6, s7>>
AgentStep == component = "agent" /\ UNCHANGED <<component, s4, s5, s6, s7>>

ServicesNext ==
  \/ BreakerStep /\ Breaker!Next
  \/ LimiterStep /\ Limiter!Next
  \/ HttpStep /\ Http!Next
  \/ CrawlStep /\ Crawl!Next
  \/ CacheStep /\ Cache!Next
  \/ SelectedStep /\ Selected!Next
  \/ AgentStep /\ Agent!Next

\* Each component's own fairness, required where its steps are the ones taken.
ServicesFairness ==
  /\ WF_vars(BreakerStep /\ Breaker!Tick)
  /\ \A c \in Clients : /\ SF_vars(BreakerStep /\ Breaker!Check(c))
                       /\ SF_vars(BreakerStep /\ Breaker!Succeed(c))
  /\ WF_vars(HttpStep /\ Http!Tick)
  /\ \A r \in Requests : WF_vars(HttpStep /\ Http!Progress(r))
  /\ WF_vars(CacheStep /\ Cache!Tick)
  /\ \A p \in Processes : WF_vars(CacheStep /\ \E r \in s4[p] : Cache!Store(p, r))
  /\ \A w \in Writers : WF_vars(CacheStep /\ Cache!Write(w))

ServicesSpec == ServicesInit /\ [][ServicesNext]_vars /\ ServicesFairness

-----------------------------------------------------------------------------
\* Every variable of the component that runs has its type.
TypeOK ==
  /\ component = "breaker" => Breaker!TypeOK
  /\ component = "limiter" => Limiter!TypeOK
  /\ component = "http" => Http!TypeOK
  /\ component = "crawl" => Crawl!TypeOK
  /\ component = "cache" => Cache!TypeOK
  /\ component = "selected" => Selected!TypeOK
  /\ component = "agent" => Agent!TypeOK

\* The properties of the modules, where their component runs.

\* CircuitBreaker: calls fail fast while the provider must be left alone.
FailsFast == component = "breaker" => Breaker!FailsFast
\* RateLimiter: no window sees more calls or tokens than allowed.
WithinBudget == component = "limiter" => Limiter!WithinBudget
\* RateLimiter: a sleep is long enough, and no longer.
WaitIsExact == component = "limiter" => Limiter!WaitIsExact
\* WebCrawl: every page within reach is asked for, at its distance.
EveryPageInReach == component = "crawl" => Crawl!EveryPageInReach
\* SettingsCache: a writer is not shown what it replaced.
ReadsOwnWrite == component = "cache" => Cache!ReadsOwnWrite
\* AgentGraph: an answer is saved with the usage of its own turn's LLMNode and WriterNode.
UsageIsOfTheTurn == component = "agent" => Agent!UsageIsOfTheTurn
\* AgentGraph: the model sees no tool call without its results, but those whose step a
\* new question discarded.
CallsAreAnswered == component = "agent" => Agent!CallsAreAnswered

\* ConnectorHttp: requests to a host keep their distance.
Spaced == [][component = "http" => Http!KeepsDistance]_vars
\* SelectedRow: a default is replaced, never lost or doubled.
DefaultStays == [][component = "selected" => Selected!KeepsOneDefault]_vars
\* SelectedRow: a publish that nobody overlaps leaves its version published, alone.
LonePublishDecides == [][component = "selected" => Selected!DecidesAlone]_vars

\* CircuitBreaker: the circuit closes once the provider answers.
Closes == (component = "breaker" /\ Breaker!Answers) ~> (component = "breaker" /\ Breaker!Closed)
\* ConnectorHttp: every request ends.
RequestsEnd == (component = "http" /\ Http!SomeStart) ~> (component = "http" /\ Http!AllEnded)
\* SettingsCache: every process comes to serve what is stored.
EventuallyFresh == <>[](component = "cache" => Cache!Fresh)
=============================================================================
