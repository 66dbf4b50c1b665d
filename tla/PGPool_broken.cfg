SPECIFICATION Spec
CONSTANTS
  Users = {u1, u2, u3}
  Urls = {k1, k2}
  DefaultConnectionCnt = 2
  Counts = {}
  ResizeLimit = 0
  MayBreak = TRUE
  None = None
  Dangling = Dangling
PROPERTY RefusalIsTrue
