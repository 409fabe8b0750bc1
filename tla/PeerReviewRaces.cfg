SPECIFICATION Spec
CONSTANTS
  a1 = a1
  a2 = a2
  u1 = u1
  u2 = u2
  None = None
  Arguments = {a1}
  Users = {u1, u2}
  AuthorOf <- AuthorOutside
  QuorumSize = 2
  Quorum <- OneQuorum
  Tids = {t1, t2}
  Writers = {w1, w2}
  Indexers = {i1, i2}
  Deletable = {a1}
  MaxFailures = 1
SYMMETRY Symmetric
INVARIANT TypeOK
INVARIANT VotesComeFromCheckedIn
INVARIANT OpenMeansUndecided
PROPERTY ImplementsLifecycle
PROPERTY VotesAreFinal
CHECK_DEADLOCK FALSE
