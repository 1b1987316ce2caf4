SPECIFICATION Spec
CONSTANTS
  c1 = c1
  c2 = c2
  c3 = c3
  r1 = r1
  r2 = r2
  Conns = {c1, c2, c3}
  Rooms = {r1, r2}
  RoomOf <- MCRoomOf
  Capacity = 1
  MaxTyped = 2
  MaxInAll = 3
  NoMessage = NoMessage
SYMMETRY Peers
INVARIANTS
  TypeOK
  NeverPanics
  Stretch
  SenderOrder
  RoomIsolation
PROPERTIES
  ImplementsRoomFeed
CHECK_DEADLOCK FALSE
