SPECIFICATION Spec
CONSTANTS
  run = run
  request = request
  Evaluators = {run, request}
  Runs = {run}
  ScopesOf <- MCScopesOf
  Scopes = {"tenant", "*"}
  Writers = {"put", "move"}
  Changes <- MCChanges
  Classes = {"read", "mutate"}
  Contents <- MCContents
  TTL = 1
  MaxClock = 1
  Roster <- MCRoster
  Stage <- MCStage
  CallsOf <- MCCallsOf
  Class <- MCClass
  Broad = {5, 6}
  LIMIT = 2
  WALL_TIME = 0
CHECK_DEADLOCK FALSE
INVARIANTS TypeOK DecisionsAreRecent StaleOnlyAfterRace WithinBudget EverySourceAccounted
