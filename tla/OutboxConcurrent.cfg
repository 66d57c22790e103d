SPECIFICATION FairSpec
CONSTANTS
  Events = {e1, e2}
  Dispatchers = {d1, d2}
  MAX_ATTEMPTS = 2
  BATCH_SIZE = 1
  BACKOFF_BASE = 1
  BACKOFF_MAX = 1
  MaxAborts = 1
INVARIANTS TypeOK AttemptsWereMade FailedAfterMaxAttempts
PROPERTIES EveryRowSettles ImplementsSharedDelivery
