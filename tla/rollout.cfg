SPECIFICATION Spec
CONSTANTS
  created = created  updated = updated
  old = old  new = new  job = job
  Pods = {old, new}
  Jobs = {}
  eventMatcherActions <- TwoActions
  Secret = TRUE
  Versions = {{}}
  MaxStarts = 2
  MaxStops = 1
  MaxFaults = 0
INVARIANTS
  RegisteredStays
CHECK_DEADLOCK FALSE
