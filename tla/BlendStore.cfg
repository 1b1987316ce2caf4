SPECIFICATION Spec
CONSTANTS
  u1 = u1
  u2 = u2
  p1 = p1
  p2 = p2
  v1 = v1
  v2 = v2
  q1 = q1
  q2 = q2
  Users = {u1, u2}
  Passwords = {p1, p2}
  Blends = {b1}
  Videos = {v1, v2}
  Lists <- MCLists
  Requests = {q1, q2}
  Kinds = {"register", "delete", "watch", "blend", "leave", "chat"}
  Absent = Absent
  Nobody = Nobody
  NoRequest = NoRequest
SYMMETRY Twins
INVARIANTS TypeOK MembersAreParticipants WatchListsAreWhole
PROPERTIES ImplementsLedger
