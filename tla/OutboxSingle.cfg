SPECIFICATION Spec
CONSTANTS
  Events = {e1, e2}
  Dispatchers = {d1}
  MAX_ATTEMPTS = 3
  BATCH_SIZE = 2
  BACKOFF_BASE = 1
  BACKOFF_MAX = 2
  MaxAborts = 2
INVARIANTS RedeliveriesBounded
PROPERTIES AttemptsNeverDecrease ImplementsDelivery
