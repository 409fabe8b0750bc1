SPECIFICATION Spec
CONSTANTS
  p1 = p1
  p2 = p2
  t1 = t1
  t2 = t2
  Editors = {p1}
  Trees = {t1, t2}
  Live = live
  Backfill = backfiller
  None = None
  MaxSaves = 3
  Budgets <- SaveOrPublish
  MaxFaults = 0
  MaxPosted = 1
CHECK_DEADLOCK FALSE
INVARIANT RecordInSync
