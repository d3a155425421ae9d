CONSTANTS
  i1 = i1
  i2 = i2
  p1 = p1
  p2 = p2
  s1 = s1
  s2 = s2
  Agents = {"observability", "knowledge", "code", "rca"}
  Asked = {"fetch_signals", "retrieve_knowledge", "search_code", "list_deploys", "grep_logs", "restart_service", "gh_pr_create"}
  Services = {"", "payment"}
  Retriever = TRUE
  RuleSets <- Tables
  DenyAll = {TRUE, FALSE}
  Together <- FanOut
  Threshold = 3
  Cooldown = 3
  Callers = {"code"}
  Tools = {"search_code"}
  Incidents = {i1, i2}
  Any = Any
  PerToolIncident = 2
  PerAgent = 3
  Window = 3
  FailClosed = FALSE
  MaxWatch = 4
  Genesis = Genesis
  Nothing = Nothing
  Processes = {p1, p2}
  Specialists = {s1, s2}
  MaxEntries = 4
SPECIFICATION GuardrailSpec
INVARIANTS
  ExecutedWasGranted
  StampDecides
  BreakerTellsHealth
  BurstIsBounded
  RefusalsAreFree
  PredecessorIsStored
  StoredOnce
PROPERTIES
  CircuitReopens
