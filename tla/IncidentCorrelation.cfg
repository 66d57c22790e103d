SPECIFICATION Spec
CONSTANTS
  j1 = j1
  j2 = j2
  j3 = j3
  f1 = f1
  f2 = f2
  Jobs <- MCJobs
  Fingerprints <- MCFingerprints
  Fingerprint <- MCFingerprint
  Firing = {j1, j3}
  Content <- MCContent
  MaxTries = 2
  THRESHOLD = 2
  MaxUpsets = 1
CHECK_DEADLOCK FALSE
INVARIANTS TypeOK LastAlertIsLatest CountMatchesLinks VisibleIsAnnounced VisibleIsDue NothingLeftOpen
