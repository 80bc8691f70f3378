\* One license, the timer's pass alone, thresholds of one and two days, and one
\* thing out of routine: enough for one renewal, to the end of day four.
SPECIFICATION Spec
CONSTANTS
  l1 = l1
  l2 = l2
  timer = timer
  hand = hand
  License <- MCOneLicense
  Thresholds <- MCCloseThresholds
  Runner <- MCTimerAlone
  Timer = timer
  Databases <- MCBoth
  MaxTime = 4
  MaxUpsets = 1
CHECK_DEADLOCK FALSE
INVARIANTS
  EveryTermIsWarned
