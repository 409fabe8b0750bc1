SPECIFICATION Spec
CONSTANTS
  r1 = r1
  r2 = r2
  Reply = {r1, r2}
  StalePollEveryN = 2
  MaxPasses = 3
  MaxFailures = 1
INVARIANT ThreadIsImported
