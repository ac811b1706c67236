SPECIFICATION CountedSpec
CONSTANTS
  d1 = d1
  d2 = d2
  d3 = d3
  a1 = a1
  a2 = a2
  a3 = a3
  a4 = a4
  None = None
  Digest = {d1, d2, d3}
  Thread = {t1}
  Replica = {r1}
  Activation = {a1, a2, a3, a4}
  Candidate <- EachItsOwn
  Rollback <- Forward
  Compiles <- FirstAndLastDropped
  Recreated = {}
  BindingAttempts = 3
  ActivateAttempts = 2
INVARIANTS
  GivesUpOnChurn
PROPERTIES
  MoveServable
