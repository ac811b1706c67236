SPECIFICATION FairDrainSpec
CONSTANTS
  Job = {j1, j2}
  Remote = remote
PROPERTIES
  QuietOnceDrained
  Terminates
CHECK_DEADLOCK FALSE
