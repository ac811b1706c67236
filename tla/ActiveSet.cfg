SPECIFICATION ASpec
CONSTANTS
  None = None
  j1 = j1
  j2 = j2
  j3 = j3
  j4 = j4
  a = a
  b = b
  Journey = {j1, j2, j3, j4}
  MaxLimit = 2
  Alias = {a, b}
  Offers <- SharedAlias
  Reachable <- AllButOne
INVARIANTS
  SavedOrder
  PinnedActive
  WithinLimit
  NoneRefused
PROPERTY
  EvictsOldest
CHECK_DEADLOCK FALSE
