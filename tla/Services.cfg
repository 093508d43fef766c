\* Every service here may come to rest.
SPECIFICATION ServiceSpec
CONSTANTS
  Ops = {o1}
  MaxFaults = 2
  Configs = {c1, c2}
  NoConfig = NoConfig
  MaxRequests = 3
  MaxBoots = 3
  JobIds = {j1, j2}
  Interval = 2
  Grace = 1
  Capacity = 2
  MaxLead = 2
  MaxTime = 4
  MaxStops = 1
  EarlyAdds = FALSE
  Alerts = {a1}
  Contents = {n1, n2}
  MaxCuts = 3
  Owners = {t1, t2}
  Operators = {"operator"}
  MaxRev = 2
  MaxTx = 2
  MaxDeaths = 2
  LastCommit = 3
  MaxStarted = 3
  MaxCalls = 1
  Sessions = {s1}
  MaxExecutions = 2
  ProtectedRecent = 1
  Scopes = {e1, e2}
  MaxChanges = 3
  MaxGenerations = 4
  Background = {b1, b2}
  Synchronous = {r1}
  MaxActive = 2
  MaxCancels = 2
INVARIANTS LedgersAgree ReloadsAreHonest ModelsAreHonest SubagentsAreHonest PeriodRunsOnce OnlyCancelRemoves NothingIsToldTwice SourcesHearOfAll
PROPERTIES KeepsPromise RolloutIsHonest DeploymentsAreHonest CommandsStayOwned
CHECK_DEADLOCK FALSE
