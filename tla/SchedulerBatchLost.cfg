SPECIFICATION Spec
CONSTANTS
  r1 = r1
  r2 = r2
  r3 = r3
  Requests <- MCRequests
  Manual = {}
  Key <- MCKey
  Strategy <- MCSkip
  Instances = {n1}
  MAX_WORKERS = 2
  TIMEOUT = 2
  MaxCrashes = 0
  MaxFaults = 0
CHECK_DEADLOCK FALSE
INVARIANT RequestKept
