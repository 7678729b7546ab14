SPECIFICATION FairSpec
\* Once both pull loops have ended and the connections are used up, nothing runs.
CHECK_DEADLOCK FALSE
CONSTANTS
  Replicas = {r1}
  NoReplica = NoReplica
  Durables = {"ride", "driver"}
  Clients = {c1}
  Events <- MCEvents
  DurableOf <- MCDurableOf
  About <- MCAbout
  Malformed <- MCMalformed
  FilterOf <- MCFilterOf
  BufferSize = 1
  HistorySize = 1
  Batch = 2
  MaxConnects = 2
  MaxFaults = 1
INVARIANTS NoGap Repeats
PROPERTY GetsOut
