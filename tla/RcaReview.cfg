CONSTANTS
  s1 = s1
  s2 = s2
  Incidents = {"i1"}
  Fingerprints = {}
  NoFingerprint = "none"
  Targets = {"closed"}
  ApiSessions = {s1, s2}
  Workers = {"w1"}
  MaxVersion = 2
  Requests = {"accept", "reject", "amend", "pause", "resume"}
SPECIFICATION MCSpec
SYMMETRY Symmetry
INVARIANTS
  VersionsAreSequential
  IdentifiedWasReviewed
  ReviewIsAnnounced
  RejectedIsNotPending
