SPECIFICATION Spec
CONSTANTS
  a1 = a1  a2 = a2  r1 = r1  r2 = r2
  OAuth2 = {a1}
  SAMLs = {a2}
  Requests = {r1}
  ChannelSize = 2
  MaxDrifts = 1
  MaxListErrors = 0
INVARIANTS
  DetectedWithoutPolling
