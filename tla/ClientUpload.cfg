SPECIFICATION Spec
CONSTANTS
  a = a
  b = b
  c = c
  v1 = v1
  v2 = v2
  v3 = v3
  v4 = v4
  Videos = {v1, v2, v3, v4}
  Users = {a, b, c}
  None = None
  People <- PeopleABC
  Available = {v1, v2, v4}
  UploadMax = 2
  HtmlMax = 2
  FeedMax = 3
  BatchSize = 1
  Threads = 2
  Files <- SomeFiles
  Lists <- SomeLists
PROPERTIES DeferredArePersisted
CHECK_DEADLOCK FALSE
