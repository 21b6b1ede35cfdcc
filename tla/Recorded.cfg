CONSTANTS
  l1 = l1  l2 = l2  x = x  t1 = t1  t2 = t2  i1 = i1  i2 = i2  i3 = i3
  marcus = marcus  dana = dana
  NoApproval = NoApproval
  ListingId = {l1}
  Seeded = {l1}
  OpeningPrice <- OneListing
  Amount = {50, 70}
  Misnamed = {}
  Actor = {marcus}
  Token = {t1, t2}
  Invocation = {i1, i2}
  Ttl = 1
  LambdaTimeout = 1
  MaxTime = 2
  Faults = FALSE
SPECIFICATION Spec
INVARIANT UpdatedIsRecorded
CHECK_DEADLOCK FALSE
