SPECIFICATION FairSpec
CONSTANTS
  r1 = r1
  d1 = d1
  d2 = d2
  d3 = d3
  o1 = o1
  o2 = o2
  o3 = o3
  w1 = w1
  w2 = w2
  None = None
  ForeignOffer = ForeignOffer
  Rides = {r1}
  Drivers = {d1, d2}
  Offers = {o1, o2, o3}
  Workers = {w1, w2}
  OfferRetryMax = 2
  Limits = {1, 2}
  Incidents = {"early", "redis", "fetch", "crash", "rpc", "ride key", "driver key", "again", "status"}
  MaxIncidents = 1
CHECK_DEADLOCK FALSE
INVARIANTS
  AskedOncePerRound
  SearchedByOne
  SequentialOffers
PROPERTIES GivesUpUnwanted RequestEnds
