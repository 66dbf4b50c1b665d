SPECIFICATION FairSpec
CONSTANTS
  Clients = {c1, c2}
  Tasks = {t1, t2, t3}
  WorkerCount = 2
  WorkerMaxTaskCount = 2
  Word = 3
  None = None
  Hashes <- MCHashes
  SetBatch = 2
  DefaultMaxBatch = 20
  MayStop = TRUE
INVARIANT BatchCountExact
INVARIANT BatchOrder
INVARIANT BatchStopDrain
PROPERTY BatchProgress
CHECK_DEADLOCK FALSE
