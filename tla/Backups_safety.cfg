\* Two threads that back up, restore or run the daily unit, two transactions,
\* three jobs, with and without foreign keys.
SPECIFICATION Spec
CONSTANTS
  x1 = x1
  x2 = x2
  t1 = t1
  t2 = t2
  NoFile = nofile
  Txn <- MCTxn
  Tables = 3
  Writes <- MCWrites
  Refs <- MCRefs
  Thread <- MCThread
  Databases <- MCBoth
  Keep = 1
  MaxAge = 1
  MaxTime = 2
  MaxJobs = 3
SYMMETRY ThreadSymmetry
CHECK_DEADLOCK FALSE
INVARIANTS
  TransactionsStayWhole
  NothingIsLost
PROPERTY ImplementsStore
