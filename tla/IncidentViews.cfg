CONSTANTS
  Incidents = {"i1"}
  Fingerprints = {}
  NoFingerprint = "none"
  Targets = {"closed"}
  ApiSessions = {"s1"}
  Workers = {"w1"}
  MaxVersion = 2
  Requests = {"accept", "reject", "amend"}
  Readers = {"r1"}
SPECIFICATION ViewSpec
INVARIANTS
  ReportIsWhole
  ProgressIsNotBehind
