\* A row whose send raises ahead of a healthy one.
SPECIFICATION FairSpec
CONSTANTS
  r1 = r1
  r2 = r2
  r3 = r3
  t1 = t1
  q1 = q1
  Worker = worker
  Row <- MCRowAndPoison
  TestRow = {}
  Poison <- MCPoison
  Request <- MCRequest
  MaxAttempts = 2
  Limit = 2
  MaxCrashes = 0
PROPERTIES
  HealthyEventSettles
