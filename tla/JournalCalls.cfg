SPECIFICATION Spec
CONSTANTS
  None = None
  Command = {c1, c2}
  Replica = {p1}
  Call = {k1, k2}
  Product = {v1, v2}
  Digest = {d1}
  Journey = {j1}
  Shape = {s1}
  Target <- Untargeted
  FailureStates = {"failed"}
  Lease = 1
  Observed = {}
SYMMETRY Symmetry
INVARIANTS
  ApprovalsKept
  AttemptsAgree
  Fenced
PROPERTIES
  Irrevocable
  ThreadStop
CHECK_DEADLOCK FALSE
