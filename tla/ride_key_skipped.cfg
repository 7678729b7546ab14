SPECIFICATION Spec
CONSTANTS
  r1 = r1
  r2 = r2
  o1 = o1
  o2 = o2
  d1 = d1
  d2 = d2
  k1 = k1
  None = None
  Rides = {r1, r2}
  Offers = {o1}
  Drivers = {d1}
  Handlers = {h1, h2}
  Sweepers = {}
  Keys = {k1}
  Requests <- KeyRequests
  MaxCalls = 3
  MaxFaults = 1
  MaxCleanups = 0
  MarksOffered = FALSE
INVARIANTS
  EffectOncePerKey
CHECK_DEADLOCK FALSE
