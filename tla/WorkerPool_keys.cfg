SPECIFICATION Spec
CONSTANTS
  t1 = t1
  t2 = t2
  t3 = t3
  t4 = t4
  k1 = k1
  k2 = k2
  Adders = {a1, a2}
  Tasks = {t1, t2, t3, t4}
  Fails = {t2}
  Keys = {k1, k2}
  NoKey = NoKey
  KeyOf <- MCTwoKeys
  HasHashFunc = TRUE
  HashOf <- MCHash
  WorkerCount = 2
  WorkerMaxTaskCount = 1
  EnableMax = FALSE
  Word = 8
  MayStop = TRUE
  None = None
CHECK_DEADLOCK FALSE
SYMMETRY MCSymmetry
INVARIANT TypeOK
INVARIANT KeyOrder
INVARIANT StopDrain
