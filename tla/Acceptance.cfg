SPECIFICATION FairSpec
CONSTANTS
  None = None
  Requests = {r1, r2}
  Tids = {t1, t2}
  Unfit = {t2}
  Writers = {w1, w2}
  DailyLimit = 1
  BallotLimit = 2
  MaxFailures = 1
  MaxCrashes = 1
INVARIANT TypeOK
INVARIANT LedgerWithinCaps
INVARIANT DoneIsPublished
PROPERTY OriginalsAreDecided
PROPERTY WrittenIsAnswered
CHECK_DEADLOCK FALSE
