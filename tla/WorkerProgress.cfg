SPECIFICATION FairSpec
CONSTANTS
  None = None
  Command = {c1, c2}
  Replica = {p1}
  Call = {k1}
  Product = {v1}
  Digest = {d1}
  Journey = {j1}
  Shape = {s1}
  Target <- Untargeted
  FailureStates = {"failed", "auth_required"}
  Lease = 1
  Observed = {}
  MaxRounds = 2
  MaxCalls = 1
PROPERTIES
  AllSettled
  RunsEnd
CHECK_DEADLOCK FALSE
