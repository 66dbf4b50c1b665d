----------------------------- MODULE PoolParams -----------------------------
(***************************************************************************)
(* What WaitGroupPool and BatchPool have in common: the client threads,    *)
(* the tasks they submit, each once, and the settings of the pool.         *)
(***************************************************************************)
EXTENDS Integers, Sequences, FiniteSets, CondVar

CONSTANTS
  Clients, Tasks,
  WorkerCount,         \* m_nWorkerCount
  WorkerMaxTaskCount,  \* m_nWorkerMaxTaskCount
  Word,                \* the number of values of a uint32_t
  None

ASSUME WorkerCountAssumption == WorkerCount \in Nat \ {0}
ASSUME WordAssumption == Word \in Nat /\ WorkerCount < Word
ASSUME MaxAssumption == WorkerMaxTaskCount \in 0 .. Word - 1
ASSUME TasksAssumption == IsFiniteSet(Tasks) /\ None \notin Tasks \cup Clients

Workers == 0 .. WorkerCount - 1
=============================================================================
