SPECIFICATION FairSpec
CONSTANTS
  r1 = r1
  r2 = r2
  r3 = r3
  Requests <- MCRequests
  Manual = {r3}
  Key <- MCKey
  Strategy <- MCRetry
  Instances = {n1}
  MAX_WORKERS = 2
  TIMEOUT = 2
  MaxCrashes = 1
  MaxFaults = 1
CHECK_DEADLOCK FALSE
PROPERTIES EveryExecutionEnds CollidingRequestProceeds
