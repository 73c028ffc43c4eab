SPECIFICATION MirrorSpec
CONSTANTS
  Notes = {n}
  Bodies = {a, b}
  MaxRows = 2
  MaxWrites = 4
  NoFileYet = NoFileYet
  NoRow = NoRow
INVARIANT StableChangesAreReported
CHECK_DEADLOCK FALSE
