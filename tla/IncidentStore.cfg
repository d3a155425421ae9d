CONSTANTS
  s1 = s1
  s2 = s2
  Incidents = {"i1", "i2"}
  Fingerprints = {"fp"}
  NoFingerprint = "none"
  Targets = {"investigating", "closed"}
  ApiSessions = {s1, s2}
  Workers = {}
SPECIFICATION StoreSpec
SYMMETRY Symmetry
INVARIANTS
  UniqueOpenFingerprint
  PublishedIsCommitted
  StateIsRecorded
PROPERTY HistoryGrows
