\* Five rows created at two moments, pages of one or two rows.
SPECIFICATION Spec
CONSTANTS
  Row = {1, 2, 3, 4, 5}
  Asked = {0, 1, 9}
  DefaultLimit = 1
  MaxLimit = 2
  Unkeyed = FALSE
  MaxTime = 1
INVARIANTS
  ServedOnce
  WalkIsComplete
