SPECIFICATION Spec
CONSTANTS
  Pids = {1, 2}
  Ports = {1, 2}
  ServePort = 1
  MaxCrashes = 1
  BackoffMax = 2
  Threshold = 2
  Window = 4
  MaxPower = 2
INVARIANTS
  ChildIsLookedAfter
  RestartsAreRateLimited
  SingleInstanceWithoutOverlap
PROPERTIES
  SupervisionGoesOn
