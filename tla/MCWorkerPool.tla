---------------------------- MODULE MCWorkerPool ----------------------------
(* Instances of WorkerPool for TLC.                                        *)
EXTENDS WorkerPool, TLC

CONSTANTS t1, t2, t3, t4, k1, k2

\* Every task submitted with AddTask(pTask).
MCNoKeys == [t \in Tasks |-> NoKey]

\* t1 and t2 share a key, t3 has another, t4 (if there is one) has none.
MCTwoKeys ==
  [t \in Tasks |->
     IF t \in {t1, t2} THEN k1 ELSE IF t = t3 THEN k2 ELSE NoKey]

\* Every task with the same key.
MCOneKey == [t \in Tasks |-> k1]

\* A hash function with a value in range and one that is negative.
MCHash == [k \in Keys |-> IF k = k1 THEN 1 ELSE -3]

MCSymmetry == Permutations(Adders)
=============================================================================
