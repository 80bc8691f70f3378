\* A license with a webhook, an install; two handlers at once, of admins, of
\* heartbeats and of Stripe; with and without foreign keys; three days, terms of
\* three, tokens of two, so that a token may outlive a revocation.
SPECIFICATION Spec
CONSTANTS
  l1 = l1
  l2 = l2
  i1 = i1
  t1 = t1
  t2 = t2
  NoInstall = noinstall
  License <- MCLicense1
  Install <- MCInstall
  Thread <- MCThread
  Hooked <- MCHooked
  Databases <- MCBoth
  TTL = 2
  Lag = 1
  Term = 3
  Period = 3
  EditDay <- MCDays
  MaxTime = 2
  MaxUntil = 5
SYMMETRY ThreadSymmetry
CHECK_DEADLOCK FALSE
INVARIANTS
  TokensEndInTime
  DeletionIsClean
  LastWordIsTrue
  OneRowPerInstall
PROPERTY DeletedForGood
