CONSTANTS
  m1 = m1
  Msgs = {m1}
  Total = 2
  MaxCalls = 2
  MaxTurns = 1
  UseCache = FALSE
SPECIFICATION FairSpec
INVARIANTS
  TurnIsBounded
PROPERTIES
  KeepsContract
