SPECIFICATION FairSpec
CONSTANTS
  a1 = a1
  a2 = a2
  u1 = u1
  u2 = u2
  None = None
  Arguments = {a1}
  Users = {u1, u2}
  AuthorOf <- AuthorOutside
  QuorumSize = 2
  Quorum <- OneQuorum
  Tids = {t1, t2}
  Writers = {w1}
  Indexers = {i1}
  Deletable = {}
  MaxFailures = 0
PROPERTY ResponsesAreResolved
PROPERTY DecidedReviewCloses
PROPERTY GraceEndsInOutcome
CHECK_DEADLOCK FALSE
