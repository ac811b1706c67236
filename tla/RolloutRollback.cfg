SPECIFICATION FairSpec
CONSTANTS
  d1 = d1
  d2 = d2
  d3 = d3
  a1 = a1
  a2 = a2
  a3 = a3
  a4 = a4
  None = None
  Digest = {d1, d2}
  Thread = {t1}
  Replica = {r1}
  Activation = {a1, a2, a3}
  Candidate <- TwoPods
  Rollback <- FirstGoesBack
  Compiles <- CompilesAll
  Recreated = {a1}
  BindingAttempts = 3
  ActivateAttempts = 2
INVARIANTS
  AllStored
PROPERTIES
  ForwardOnly
  PinKept
  ReadyAgain
