SPECIFICATION FairSpec
CONSTANTS
  i1 = i1
  i2 = i2
  Incidents <- MCIncidents
  Events <- MCEvents
  MaxConcurrentInvestigations = 1
  MaxRestarts = 2
CHECK_DEADLOCK FALSE
INVARIANTS TypeOK SlotsAccounted OneRunPerIncident CommentedOnceWithDraft
PROPERTIES FailedIsFinal EveryRunEnds ImplementsReport
