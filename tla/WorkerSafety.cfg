SPECIFICATION WSpec
CONSTANTS
  None = None
  Command = {c1, c2}
  Replica = {p1}
  Call = {k1}
  Product = {v1}
  Digest = {d1, d2}
  Journey = {j1}
  Shape = {s1}
  Target <- Untargeted
  FailureStates = {"failed", "auth_required", "dependency_unavailable", "limit_exceeded"}
  Lease = 1
  Observed = {}
  MaxRounds = 2
  MaxCalls = 2
SYMMETRY Symmetry
INVARIANTS
  ProposalsAccounted
  RunsRemembered
  NoneInFlight
PROPERTIES
  KeepsPromise
  JournalKept
CHECK_DEADLOCK FALSE
