SPECIFICATION Spec
CONSTANTS
  None = None
  Requests = {r1, r2}
  Tids = {t1, t2, t3}
  Unfit = {}
  Writers = {w1, w2}
  DailyLimit = 1
  BallotLimit = 2
  MaxFailures = 0
  MaxCrashes = 1
SYMMETRY Symmetric
INVARIANT CapHolds
CHECK_DEADLOCK FALSE
