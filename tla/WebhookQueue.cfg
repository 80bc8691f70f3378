\* Two healthy rows, so that a pass of one row has to choose, one row whose URL
\* makes the send raise, one probe; a request handler and the worker; two
\* attempts; one crash.
SPECIFICATION FairSpec
CONSTANTS
  r1 = r1
  r2 = r2
  r3 = r3
  t1 = t1
  q1 = q1
  Worker = worker
  Row <- MCRows
  TestRow <- MCTest
  Poison <- MCPoison
  Request <- MCRequest
  MaxAttempts = 2
  Limit = 1
  MaxCrashes = 1
INVARIANTS
  PendingHasAttemptsLeft
  AbandonedOnlyAfterAllTries
  DeliveredWasReceived
PROPERTIES
  ImplementsOutbox
  DeliveredIsFinal
  EveryEventSettles
