SPECIFICATION Spec
CONSTANTS
  p1 = p1
  p2 = p2
  t1 = t1
  t2 = t2
  Editors = {p1, p2}
  Trees = {t1, t2}
  Live = live
  Backfill = backfiller
  None = None
  MaxSaves = 3
  Budgets <- SaveOrPublish
  MaxFaults = 1
  MaxPosted = 1
SYMMETRY Symmetric
INVARIANT TypeOK
INVARIANT ArgumentSettles
INVARIANT TreeSettles
INVARIANT PostsAccounted
CHECK_DEADLOCK FALSE
