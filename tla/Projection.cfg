SPECIFICATION Spec
CONSTANTS
  a = a
  r1 = r1
  r2 = r2
  r3 = r3
  x = x
  s = s
  u1 = u1
  u2 = u2
  Argument = a
  Ratings = {r1, r2, r3}
  Comments = {x}
  Sidecars = {s}
  Author <- TheAuthor
  Subject <- TheSubject
  Canonical = {r1}
  Users = {u1, u2}
  Ineligible = {u2}
  Community = community
  Live = live
  Backfill = backfiller
  MaxCommits = 2
  MaxTranslated = 2
  MaxFaults = 1
INVARIANT TypeOK
INVARIANT OneVotePerUser
INVARIANT RetractionHolds
INVARIANT CountsSettle
INVARIANT StatusSettles
CHECK_DEADLOCK FALSE
