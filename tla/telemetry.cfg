SPECIFICATION FairSpec
CONSTANTS
  i1 = i1
  i2 = i2
  w1 = w1
  w2 = w2
  NoClaim = NoClaim
  Invocations <- TwoInvocations
  Workers <- TwoWorkers
  MaxAttempts = 2
  BatchSize = 2
  Lease = 1
  BaseBackoff = 1
  MaxBackoff = 2
  Skew <- SkewedClocks
CHECK_DEADLOCK FALSE
PROPERTIES
  OnlyTheOwnerSettles
  KeepsIntent
  EventuallySettled
