CONSTANTS
  m1 = m1
  Msgs = {m1}
  Total = 1
  MaxCalls = 2
  MaxTurns = 2
  UseCache = TRUE
SPECIFICATION Spec
INVARIANTS
  StoredHistoryIsSound
