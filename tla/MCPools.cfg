SPECIFICATION MCSpec
CONSTANTS
  Users = {u1, u2, u3}
  Urls = {k1, k2}
  DefaultConnectionCnt = 2
  Counts = {3}
  ResizeLimit = 2
  MayBreak = TRUE
  Hosts = {h1, h2}
  Null = Null
  DefaultClientCnt = 2
  ClientCounts = {1, 3}
  LateGrow = FALSE
  Word = 8
  None = None
  Dangling = Dangling
INVARIANT ListsExact
PROPERTY PoolsImplementSlotPool
PROPERTY NoneLost
CHECK_DEADLOCK FALSE
