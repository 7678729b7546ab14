SPECIFICATION FairSpec
CONSTANTS
  d1 = d1
  d2 = d2
  c1 = c1
  c2 = c2
  Drivers = {d1}
  Calls = {c1, c2}
  Sweeps = {"sweep"}
  Lookups = {"lookup"}
  Consumers = {"m1", "m2"}
  Nobody = Nobody
  MaxReports = 2
  MaxFaults = 2
CHECK_DEADLOCK FALSE
INVARIANTS SettledPosition LiveIsFound
PROPERTY GoneInTheEnd
