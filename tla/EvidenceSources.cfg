CONSTANTS
  payment = payment
  order = order
  db_exhaustion = db_exhaustion
  latency_spike = latency_spike
  a1 = a1
  t1 = t1
  e1 = e1
  g1 = g1
  Off = Off
  Services <- MCServices
  Scenarios <- MCScenarios
  Affected <- MCAffected
  Admins = {a1}
  Tickers = {t1}
  Emitters = {e1}
  Readers = {g1}
  BufferSize = 2
  Cap = 3
  MaxIndex = 1
  f1 = f1
  f2 = f2
  r1 = r1
  NoFile = NoFile
  Files = {f1, f2}
  Runs = {r1}
  MaxContents = 2
  Pieces = 2
  Lengths = {1, 16, 48, 60, 201}
  MaxParas = 4
  BreakAt = {15, 16, 31, 70}
  Target <- MCTarget
  MaxChars <- MCMaxChars
  Overlap <- MCOverlap
  Chunks <- MCChunks
  DocTypes = {"runbook", "incident_report"}
  TypeOf <- MCTypes
  Allowlisted <- MCChunks
  Rankings <- MCRankings
  KnowledgeCap = 2
SPECIFICATION SourcesSpec
INVARIANTS
  SkipIsSafe
  ForcedRunHeals
  ChunksAreFaithful
  RanksAreFused
  BiasFitsService
CHECK_DEADLOCK FALSE
