SPECIFICATION Spec
CONSTANTS
  Nodes = {1, 2}
  Elems = {"chunk"}
  Keys = {"name"}
  Values = {"a"}
  Stamps = {1, 2}
  FineClock = TRUE
  MaxEdits = 2
  MaxFaults = 1
  Cap = 1
INVARIANTS
  NothingGoesMissing
PROPERTIES
  Monotone
  Converges
