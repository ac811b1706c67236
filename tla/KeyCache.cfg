SPECIFICATION KFairSpec
CONSTANTS
  Nothing = Nothing
  Key = {k1, k2}
  Request = {r1, r2}
  Life = 3
  Interval = 2
  Timeout = 1
PROPERTIES
  NoneStale
  TrustedSoon
  FetchRate
  Answered
CHECK_DEADLOCK FALSE
