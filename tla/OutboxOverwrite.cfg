SPECIFICATION Spec
CONSTANTS
  Events = {e1, e2}
  Dispatchers = {d1, d2}
  MAX_ATTEMPTS = 2
  BATCH_SIZE = 2
  BACKOFF_BASE = 1
  BACKOFF_MAX = 1
  MaxAborts = 0
PROPERTY DeliveredIsFinal
