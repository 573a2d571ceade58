SPECIFICATION FairAdmissionSpec
CONSTANTS
  c1 = c1  c2 = c2  s1 = s1  s2 = s2  n1 = n1  n2 = n2  l1 = l1  l2 = l2
  CRs = {c1}
  SAML = {}
  Slugs = {s1}
  SecretNames = {n1, n2}
  Labels = {l1}
  Specs <- LiveSpecs
  MaxUids = 1
  MaxEdits = 1
  MaxFaults = 1
  MaxDrifts = 1
  MaxCrashes = 0
  Refused = {"malformed", "unrenderable"}
INVARIANTS
  NeverForgotten
PROPERTIES
  DeletionCompletesUnlessBlocked
  EventuallyServed
CONSTRAINT FaultOrDrift
CHECK_DEADLOCK FALSE
