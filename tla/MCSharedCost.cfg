SPECIFICATION Spec
CONSTANTS
  r1 = r1
  r2 = r2
  i1 = i1
  i2 = i2
  none = none
  Requests = {r1, r2}
  RequestIds = {i1, i2}
  Threshold = 2
  QueueMax = 1
  NotRunning = NotRunning
  Proxies = {r1, r2}
  Headers <- NamedAndNot
  NoHeader = none
  MaxDay = 2
  MaxSpend = 2
  Failing <- AllStores
SYMMETRY Symmetry
INVARIANTS
  SharedCostTypeOK
  
  RecordedOnce
  
PROPERTIES
  RollupNeverDecreases
CHECK_DEADLOCK FALSE
