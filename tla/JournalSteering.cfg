SPECIFICATION Spec
CONSTANTS
  None = None
  Command = {c1, c2, c3}
  Replica = {p1}
  Call = {}
  Product = {v1}
  Digest = {d1}
  Journey = {j1}
  Shape = {s1}
  Target <- Targeted
  FailureStates = {"failed"}
  Lease = 1
  Observed = {"command.accepted", "run.started", "command.included", "command.consumed", "command.rejected", "command.interrupted", "run.awaiting_input", "interaction.consumed", "interaction.expired", "message.completed", "run.completed", "run.failed", "run.interrupted"}
INVARIANTS
  OneThing
  NoneStranded
  LogFaithful
CHECK_DEADLOCK FALSE
