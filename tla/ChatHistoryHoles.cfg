SPECIFICATION Spec
CONSTANTS
  a = a
  b = b
  Pumps = {a, b}
  Limit = 2
  MaxTime = 3
  MaxRows = 4
SYMMETRY Either
INVARIANTS NoHoles
CHECK_DEADLOCK FALSE
