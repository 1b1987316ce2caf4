SPECIFICATION Spec
CONSTANTS
  a = a
  b = b
  b1 = b1
  b2 = b2
  Users = {a, b}
  BlendIds = {b1, b2}
  None = None
  MaxClicks = 3
  MaxDepth = 2
SYMMETRY Twins
PROPERTIES LogoutEndsSession
