SPECIFICATION Spec
CONSTANTS
  c1 = c1  c2 = c2  s1 = s1  s2 = s2  n1 = n1  n2 = n2  l1 = l1  l2 = l2
  CRs = {c1, c2}
  SAML = {c2}
  Slugs = {s1}
  SecretNames = {n1}
  Labels = {l1}
  Specs <- SharedAll
  MaxUids = 2
  MaxEdits = 0
  MaxFaults = 0
  MaxDrifts = 0
  MaxCrashes = 0
INVARIANTS
  ReadyProviderSynced
  SecretSeenTo
  CleanupInv
  ProviderInv
PROPERTIES
  SecretNotTakenOver
CHECK_DEADLOCK FALSE
