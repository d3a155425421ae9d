CONSTANTS
  a1 = a1
  a2 = a2
  NoRow = NoRow
  w1 = w1
  r1 = r1
  r2 = r2
  r3 = r3
  Admins = {a1, a2}
  Workers = {w1}
  RuleIds = {r1, r2, r3}
  Tools = {"fetch", "*"}
  Scopes = {"agent", "svc", "*"}
  Classes = {"read", "destructive"}
  Reasons = {"why"}
  NewAllowed = {TRUE, FALSE}
  Patchable = {"class", "allowed"}
  MaxVersion = 2
  Requests <- AllRequests
SPECIFICATION MCSpec
SYMMETRY Symmetry
INVARIANTS
  TrailTellsPresence
  NoDestructiveAllow
  WorkerIsFresh
  MostSpecificWins
