\* One handler at a time on a database that checks foreign keys; a license
\* with a webhook.
SPECIFICATION Spec
CONSTANTS
  l1 = l1
  l2 = l2
  i1 = i1
  t1 = t1
  t2 = t2
  NoInstall = noinstall
  License <- MCLicense
  Install <- MCInstall
  Thread <- MCThread1
  Hooked <- MCHooked
  Databases <- MCPostgres
  TTL = 1
  Lag = 0
  Term = 1
  Period = 1
  EditDay <- MCDays
  MaxTime = 1
  MaxUntil = 2
CHECK_DEADLOCK FALSE
PROPERTIES
  DeletesSucceed
