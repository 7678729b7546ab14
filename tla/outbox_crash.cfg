SPECIFICATION FairSpec
CONSTANTS
  m1 = m1
  m2 = m2
  m3 = m3
  w1 = w1
  w2 = w2
  Msgs = {m1, m2}
  RideOf <- EachItsRide
  Workers = {w1, w2}
  BatchSize = 2
  MaxAttempts = 2
  MaxBroker = 0
  MaxFaults = 1
  MaxFailures = 2
  MaxReplays = 0
CHECK_DEADLOCK FALSE
PROPERTY AtLeastOnce
