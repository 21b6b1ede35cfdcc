CONSTANTS
  l1 = l1  t1 = t1  t2 = t2  t3 = t3  i1 = i1  i2 = i2  i3 = i3
  marcus = marcus
  NoApproval = NoApproval
  ListingId = {l1}
  Seeded = {l1}
  OpeningPrice <- OneListing
  Amount = {50}
  Misnamed = {}
  Actor = {marcus}
  Token = {t1, t2, t3}
  Invocation = {i1, i2, i3}
  Ttl = 1
  LambdaTimeout = 1
  MaxTime = 0
  MaxReseeds = 2
  Faults = FALSE
SPECIFICATION ReseedSpec
SYMMETRY Interchangeable
INVARIANTS LifeIsLinear FoundIsCleared
PROPERTY ImplementsLives
CHECK_DEADLOCK FALSE
