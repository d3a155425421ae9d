CONSTANTS
  s1 = s1
  s2 = s2
  Incidents = {"i1"}
  Fingerprints = {"fp"}
  NoFingerprint = "none"
  Targets = {"investigating", "identified", "closed"}
  ApiSessions = {s1, s2}
  Workers = {}
SPECIFICATION StoreSpec
PROPERTY ClosedIsTerminal
