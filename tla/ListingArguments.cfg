CONSTANTS
  l1 = l1  l2 = l2  x = x  t1 = t1  t2 = t2  i1 = i1  i2 = i2  i3 = i3
  marcus = marcus  dana = dana
  NoApproval = NoApproval
  ListingId = {l1, l2}
  Seeded = {l1, l2}
  OpeningPrice <- TwoListings
  Amount = {47, 50}
  Misnamed = {70}
  Actor = {marcus, dana}
  Token = {t1, t2}
  Invocation = {i1, i2}
  Ttl = 1
  LambdaTimeout = 1
  MaxTime = 1
  Faults = FALSE
SPECIFICATION Spec
SYMMETRY Interchangeable
INVARIANTS WritesAreApproved LogKeepsChanges RefusalsAreHonest
CHECK_DEADLOCK FALSE
