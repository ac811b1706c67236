SPECIFICATION FairTuiSpec
CONSTANTS
  None = None
  Command = {c1, c2}
  Replica = {p1}
  Call = {}
  Product = {v1}
  Digest = {d1}
  Journey = {}
  Shape = {}
  Target <- Untargeted
  FailureStates = {"failed"}
  Lease = 1
  Observed = {"command.accepted", "command.interrupted", "run.awaiting_input", "run.completed", "run.failed", "run.interrupted"}
  Client = {k1}
  Tui = k1
  MaxFaults = 2
INVARIANTS
  NothingLost
  AsksWhatIsOpen
PROPERTIES
  ToldTrue
  StreamsEnd
  RetryTells
CHECK_DEADLOCK FALSE
