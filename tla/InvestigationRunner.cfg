CONSTANTS
  i1 = i1
  i2 = i2
  Incidents = {i1, i2}
  Scenarios = {"db_exhaustion", "latency_spike", "bad_deployment", "dependency_failure", "unspecified"}
  MaxAttempts = 2
SPECIFICATION MCSpec
INVARIANTS
  EvidenceIsAudited
  PendingReviewHasRca
  OutcomeIsNotified
  NoPingPong
PROPERTY AttemptEnds
