SPECIFICATION RequestSpec
CONSTANTS
  None = None
  k1 = k1
  k2 = k2
  k3 = k3
  x1 = x1
  x2 = x2
  bad = bad
  g = g
  Key = {k1, k2, k3}
  Tag = {g}
  AliasFor <- Squeezed
  BadAlias = {bad}
  Sets <- Pairs
  Listable <- Listings
  MaxListed = 2
  c1 = c1
  c2 = c2
  CallId = {c1, c2}
  Size = {1, 2}
  Budget = {0, 3, 5}
  MaxMessages = 7
  MaxAdmitted = 2
INVARIANTS
  CallsWhatWasChecked
  OnlyNarrows
  TrimsAsSaid
CHECK_DEADLOCK FALSE
