SPECIFICATION Spec
CONSTANTS
  None = None
  Emails = {e1, e2}
  Starts = {s1, s2}
  Verifications = {v1, v2, v3}
  MaxTries = 2
  MaxSends = 1
  MaxAccounts = 1
  MaxFaults = 1
SYMMETRY Symmetric
INVARIANT TypeOK
INVARIANT GuessesBounded
INVARIANT RedeemedOnce
INVARIANT OrphansAccounted
PROPERTY EndedStaysEnded
CHECK_DEADLOCK FALSE
