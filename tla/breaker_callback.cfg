SPECIFICATION FairSpec
CONSTANTS
  c1 = c1
  c2 = c2
  c3 = c3
  Callers = {c1, c2}
  MaxRequests = 2
  MinRequests = 2
  RatioNum = 1
  RatioDen = 2
  RetryMax = 1
  CallbackReadsStats = TRUE
  MaxCalls = 3
  Nobody = Nobody
CHECK_DEADLOCK FALSE
PROPERTY CallsReturn
