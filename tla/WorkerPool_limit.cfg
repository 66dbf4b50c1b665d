SPECIFICATION FairSpec
CONSTANTS
  t1 = t1
  t2 = t2
  t3 = t3
  t4 = t4
  k1 = k1
  k2 = k2
  Adders = {a1, a2, a3}
  Tasks = {t1, t2, t3}
  Fails = {t2}
  Keys = {k1, k2}
  NoKey = NoKey
  KeyOf <- MCNoKeys
  HasHashFunc = FALSE
  HashOf <- MCHash
  WorkerCount = 2
  WorkerMaxTaskCount = 0
  EnableMax = TRUE
  Word = 8
  MayStop = FALSE
  None = None
CHECK_DEADLOCK FALSE
INVARIANT CountExact
INVARIANT TotalBound
INVARIANT Balanced
PROPERTY TaskRuns
PROPERTY AddTaskReturns
