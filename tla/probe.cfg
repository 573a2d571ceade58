SPECIFICATION FairSpec
CONSTANTS
  readinessGracePeriod = 60
  HealthTimeout = 5
  RetryMax = 3
  RetryWait <- DefaultBackoff
  periodSeconds = 10
  failureThreshold = 3
  TimeoutSeconds = {1, 4, 6}
  MaxAge = 100
  MaxRestarts = 1
INVARIANTS
  TypeOK
  ReadyIsRecent
PROPERTIES
  TolerantIfPatient
  OutageNoticed
  RecoveryNoticed
