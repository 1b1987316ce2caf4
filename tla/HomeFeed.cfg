SPECIFICATION Spec
CONSTANTS
  a = a
  b = b
  v1 = v1
  v2 = v2
  v3 = v3
  Videos = {v1, v2, v3}
  HasLogo = {v1, v2}
  Users = {a, b}
  None = None
  PageSize = 2
  PerUser = 2
  Lists <- SomeLists
  MaxLoads = 2
INVARIANTS ImagesAreTheVideos PageShowsFeed
PROPERTIES RefreshIsFresh LoadingEnds
CHECK_DEADLOCK FALSE
