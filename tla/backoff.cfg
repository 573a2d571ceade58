SPECIFICATION Spec
CONSTANTS
  k1 = k1  k2 = k2
  Keys = {k1, k2}
  RequeueDelay = 1
  maxBackoffDelay = 10
  MaxErrors = 6
INVARIANTS
  TypeOK
  ReturnsEnough
  CappedPower
