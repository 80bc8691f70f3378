\* Two licenses, the timer's pass and one by hand, four days with thresholds of
\* one and three, with and without foreign keys.
SPECIFICATION Spec
CONSTANTS
  l1 = l1
  l2 = l2
  timer = timer
  hand = hand
  License <- MCLicense
  Thresholds <- MCThresholds
  Runner <- MCRunner
  Timer = timer
  Databases <- MCBoth
  MaxTime = 4
  MaxUpsets = 2
SYMMETRY LicenseSymmetry
CHECK_DEADLOCK FALSE
INVARIANTS
  WarnedOnce
  UnusedThresholdsAreWarned
PROPERTIES
  RecordsAreFinal
