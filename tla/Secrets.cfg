\* Two products, two handlers of the admin, three KEKs, two enrolments, two
\* sets of two recovery codes, seven requests and commands.
SPECIFICATION Spec
CONSTANTS
  p1 = p1
  p2 = p2
  a = a
  b = b
  Unborn = unborn
  Gone = gone
  Product <- MCProduct
  Request <- MCRequest
  CodeIndex <- MCCodeIndex
  MaxKeys = 3
  MaxSecrets = 2
  MaxSets = 2
  MaxOps = 7
SYMMETRY RowSymmetry
INVARIANTS
  KeysAreHeld
  AdminHasTheFactor
  CodesWorkOnce
PROPERTIES
  FactorFailsClosed
