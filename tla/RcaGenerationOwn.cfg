SPECIFICATION Spec
CONSTANTS
  Incidents <- MCIncidents
  Scenario <- MCScenario
  Results <- MCResults
  OBS_MAX_ITEMS = 3
  MAX_PACK_ITEMS = 3
  MaxAttempts = 2
  Unknown = Unknown
INVARIANT
  CitesOwnIncident
