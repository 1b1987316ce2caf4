SPECIFICATION FairSpec
CONSTANTS
  c1 = c1
  c2 = c2
  c3 = c3
  r1 = r1
  r2 = r2
  Conns = {c1, c2}
  Rooms = {r1, r2}
  RoomOf <- MCRoomOf
  Capacity = 1
  MaxTyped = 1
  MaxInAll = 2
  NoMessage = NoMessage
PROPERTIES
  StoredIsBroadcast
  DeadClientsLeave
  EvictedAreHungUp
  EmptyRoomsAreForgotten
CHECK_DEADLOCK FALSE
