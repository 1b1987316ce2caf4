SPECIFICATION Spec
CONSTANTS
  a = a
  c = c
  b1 = b1
  b2 = b2
  Users = {a}
  Others = {c}
  Blends = {b1, b2}
  None = None
  MaxMessages = 2
  MaxTime = 2
  Limit = 2
INVARIANTS TypeOK OwnOnceInOrder ChatServesItsRoom
PROPERTIES ArrivingIsShown
