SPECIFICATION Spec
CONSTANTS
  c1 = c1  c2 = c2  s1 = s1  s2 = s2  n1 = n1  n2 = n2  l1 = l1  l2 = l2
  CRs = {c1}
  SAML = {c1}
  Slugs = {s1}
  SecretNames = {n1, n2}
  Labels = {l1}
  Specs <- LifeSpecs
  MaxUids = 2
  MaxEdits = 1
  MaxFaults = 1
  MaxDrifts = 1
  MaxCrashes = 1
INVARIANTS
  TypeOK
  IndInv
  WritesGuarded
  NeverForgotten
  NoOrphanApplications
  ReadyMeansSynced
  ReadyNeverOutdated
  SecretSeenTo
PROPERTIES
  RecordedProviderDeleted
  KeepsCustody
CONSTRAINT DriftBound
CHECK_DEADLOCK FALSE
