SPECIFICATION FairSpec
CONSTANTS
  m1 = m1
  m2 = m2
  m3 = m3
  w1 = w1
  w2 = w2
  Msgs = {m1, m2, m3}
  RideOf <- TwoOfOneRide
  Workers = {w1, w2}
  BatchSize = 2
  MaxAttempts = 2
  MaxBroker = 2
  MaxFaults = 1
  MaxFailures = 2
  MaxReplays = 1
CHECK_DEADLOCK FALSE
INVARIANTS
  HeldByOne
  DuplicatesBounded
  GivenUpAtTheEnd
PROPERTIES
  InOrder
  EventuallySettled
