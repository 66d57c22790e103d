SPECIFICATION Spec
CONSTANTS
  i1 = i1
  i2 = i2
  Incidents <- MCIncidents
  Events <- MCEvents
  MaxConcurrentInvestigations = 1
  MaxRestarts = 1
CHECK_DEADLOCK FALSE
INVARIANT AcceptedIsInvestigated
