CONSTANTS
  s1 = s1
  s2 = s2
  Incidents = {"i1"}
  Fingerprints = {}
  NoFingerprint = "none"
  Targets = {}
  ApiSessions = {s1, s2}
  Workers = {"w1"}
  MaxVersion = 2
  Requests = {"accept"}
SPECIFICATION Spec
SYMMETRY Symmetry
INVARIANT AcceptedIsIdentified
