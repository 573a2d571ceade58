SPECIFICATION Spec
CONSTANTS
  created = created  updated = updated
  old = old  new = new  job = job
  Pods = {old, new}
  Jobs = {job}
  eventMatcherActions <- TwoActions
  Secret = TRUE
  Versions = {{}, {"rule"}}
  MaxStarts = 3
  MaxStops = 2
  MaxFaults = 2
INVARIANTS
  TypeOK
  RegisteredIsComplete
  SomeoneRegisters
  OnlyFaultsFail
  NothingForwards
CHECK_DEADLOCK FALSE
