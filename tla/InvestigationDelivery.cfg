CONSTANTS
  w1 = w1
  w2 = w2
  Incidents = {"i1"}
  Fingerprints = {}
  NoFingerprint = "none"
  Targets = {"closed"}
  ApiSessions = {"s1"}
  Workers = {w1, w2}
  MaxCopies = 1
  MaxReceive = 3
  Poison = {p1}
SPECIFICATION FairSpec
INVARIANTS
  OneInvestigation
  AckedIsDurable
  ClaimedHasLeftOpen
PROPERTIES
  RefinesOnceOnly
  PublishedIsSettled
