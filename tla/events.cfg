SPECIFICATION FairSpec
CONSTANTS
  a1 = a1  a2 = a2  r1 = r1  r2 = r2
  OAuth2 = {a1}
  SAMLs = {a2}
  Requests = {r1, r2}
  ChannelSize = 1
  MaxDrifts = 3
  MaxListErrors = 1
INVARIANTS
  TypeOK
  NothingElseMissed
  NeverWaits
PROPERTIES
  DriftRepaired
