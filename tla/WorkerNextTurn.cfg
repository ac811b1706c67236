SPECIFICATION WSpec
CONSTANTS
  None = None
  Command = {c1, c2}
  Replica = {p1}
  Call = {}
  Product = {v1}
  Digest = {d1}
  Journey = {j1}
  Shape = {s1}
  Target <- Untargeted
  FailureStates = {"failed", "auth_required", "dependency_unavailable", "limit_exceeded"}
  Lease = 1
  Observed = {}
  MaxRounds = 2
  MaxCalls = 1
SYMMETRY Symmetry
INVARIANTS
  ClosedBeforeNextTurn
CHECK_DEADLOCK FALSE
