SPECIFICATION RedisSpec
CONSTANTS
  Users = {u1, u2, u3}
  Hosts = {h1, h2}
  Null = Null
  DefaultClientCnt = 2
  ClientCounts = {3}
  ResizeLimit = 2
  LateGrow = TRUE
  Word = 8
  None = None
INVARIANT NotShared
