SPECIFICATION AccountsSpec
CONSTANTS
  Devices = {d1, d2}
  Calls = {c1, c2}
  Limit = 1
  LockAfter = 2
  RetryMax = 1
  MaxCalls = 4
  MaxFaults = 1
  MaxLapses = 1
  Newcomers = {FALSE, TRUE}
CHECK_DEADLOCK FALSE
SYMMETRY Alike
INVARIANTS SessionLimit LocksInTime LoggedOutStays AlarmIsEarned Verifiable VerifiedIsProven
