SPECIFICATION FairSpec
CONSTANTS
  r1 = r1
  r2 = r2
  o1 = o1
  o2 = o2
  d1 = d1
  d2 = d2
  k1 = k1
  None = None
  Rides = {r1}
  Offers = {o1}
  Drivers = {d1}
  Handlers = {h1, h2}
  Sweepers = {s1}
  Keys = {k1}
  Requests <- AllRequests
  MaxCalls = 4
  MaxFaults = 1
  MaxCleanups = 1
  MarksOffered = TRUE
INVARIANTS
  OutboxTellsStatus
  OneOutcome
  OneUsePerKey
  AnswersAgree
  StoredReplyHasEffect
PROPERTIES
  Lifecycle
  CallsReturn
  OverdueOffersSettle
CHECK_DEADLOCK FALSE
