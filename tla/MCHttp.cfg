SPECIFICATION MCSpec
CONSTANTS
  ChainLengths = {0, 1, 2, 3, 4}
  abortIndex = 3
  Word = 64
  MaxNext = 5
  ServerThreads = {w1}
  Methods = {"GET", "POST"}
  MaxUse = 2
  MaxRoutes = 2
  MaxStarts = 2
  Null = Null
  MaxPattern = 4
  MaxPath = 4
  MaxContent = 4
  BodyLength = 51
INVARIANT ChainOrder
INVARIANT AbortedExact
INVARIANT RouterExact
INVARIANT FormExact
INVARIANT Dispatch
INVARIANT SettledChain
CHECK_DEADLOCK FALSE
