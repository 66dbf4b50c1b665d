-------------------------- MODULE WorkerPoolProofs --------------------------
(***************************************************************************)
(* Theorems about WorkerPool, for any number of adders, workers and tasks, *)
(* any limit and any word size.                                            *)
(***************************************************************************)
EXTENDS WorkerPool, WordArith, FiniteSetTheorems

USE WorkerCountAssumption, WordAssumption, MaxAssumption, TasksAssumption,
    AddersAssumption, FlagsAssumption, KeysAssumption
USE DEF addVars, poolVars, workVars, taskVars

LEMMA LimitType == Limit \in 0 .. Word - 1
<1>1. WorkerMaxTaskCount * WorkerCount \in Int /\ Word \in Nat /\ Word > 0
  OBVIOUS
<1> QED BY <1>1, DivMod DEF Limit

LEMMA IndexType == TypeOK => NextIndex \in Workers
BY DEF TypeOK, NextIndex, Workers

LEMMA HashType == ASSUME NEW k \in Keys PROVE HashIndex(k) \in Workers
<1>1. HashOf[k] \in Int /\ Word \in Nat /\ Word > 0
  OBVIOUS
<1>2. HashOf[k] % Word \in 0 .. Word - 1
  BY <1>1, DivMod
<1> QED BY <1>2 DEF HashIndex, Workers

LEMMA OutstandingFinite ==
  TypeOK => IsFiniteSet(Outstanding) /\ Cardinality(Outstanding) \in Nat
BY FS_Subset, FS_CardinalityType DEF Outstanding

LEMMA TypeInit == Init => TypeOK
<1> SUFFICES ASSUME Init PROVE TypeOK
  OBVIOUS
<1>1. 0 \in Workers /\ 0 \in 0 .. Word - 1
  BY DEF Workers
<1>2. <<>> \in Seq(Tasks)
  OBVIOUS
<1> QED BY <1>1, <1>2 DEF Init, TypeOK, APC, WPC, Phase

LEMMA TypeStep == IInv /\ [Next]_vars => TypeOK'
<1> SUFFICES ASSUME IInv, [Next]_vars PROVE TypeOK'
  OBVIOUS
<1>a. TypeOK /\ OfferInv /\ HoldInv
  BY DEF IInv
<1> USE DEF TypeOK, APC, WPC, Phase
<1>1. CASE StartWorker
  <2>1. started \in Workers /\ started + 1 \in 0 .. WorkerCount
    BY <1>a, <1>1 DEF StartWorker, Workers
  <2>2. m_isEnable' \in [Workers -> BOOLEAN] /\ wpc' \in [Workers -> WPC]
    BY <1>a, <1>1, <2>1 DEF StartWorker
  <2> QED BY <1>a, <1>1, <2>1, <2>2 DEF StartWorker
<1>2. CASE StopWorker
  BY <1>a, <1>2, SMTT(30) DEF StopWorker, Workers
<1>3. CASE ResetTaskFailedCount
  BY <1>a, <1>3 DEF ResetTaskFailedCount
<1>4. ASSUME NEW a \in Adders, NEW t \in Tasks, CallAddTask(a, t)
      PROVE TypeOK'
  BY <1>a, <1>4 DEF CallAddTask
<1>5. ASSUME NEW a \in Adders, ChooseWorker(a) PROVE TypeOK'
  <2>1. arg[a] \in Tasks
    BY <1>a, <1>5 DEF ChooseWorker, OfferInv
  <2>2. Hashed(arg[a]) => HashIndex(KeyOf[arg[a]]) \in Workers
    BY <2>1, HashType DEF Hashed
  <2>3. NextIndex \in Workers
    BY <1>a, IndexType
  <2>4. dest' \in [Adders -> Workers] /\ m_nWorkerIndex' \in Workers
    <3>1. CASE Hashed(arg[a])
      <4>1. /\ dest' = [dest EXCEPT ![a] = HashIndex(KeyOf[arg[a]])]
            /\ m_nWorkerIndex' = m_nWorkerIndex
        BY <1>5, <3>1, Zenon DEF ChooseWorker
      <4> QED BY <1>a, <2>2, <3>1, <4>1
    <3>2. CASE ~Hashed(arg[a])
      <4>1. dest' = [dest EXCEPT ![a] = NextIndex] /\ m_nWorkerIndex' = NextIndex
        BY <1>5, <3>2, Zenon DEF ChooseWorker
      <4> QED BY <1>a, <2>3, <4>1
    <3> QED BY <3>1, <3>2
  <2>5. apc' \in [Adders -> APC]
    BY <1>a, <1>5 DEF ChooseWorker
  <2> QED BY <1>a, <1>5, <2>4, <2>5 DEF ChooseWorker
<1>6. ASSUME NEW a \in Adders, CheckLimit(a) PROVE TypeOK'
  BY <1>a, <1>6 DEF CheckLimit
<1>7. ASSUME NEW a \in Adders, Block(a) PROVE TypeOK'
  BY <1>a, <1>7 DEF Block
<1>8. ASSUME NEW a \in Adders, Relock(a) PROVE TypeOK'
  BY <1>a, <1>8 DEF Relock
<1>9. ASSUME NEW a \in Adders, Push(a) PROVE TypeOK'
  <2>1. arg[a] \in Tasks /\ dest[a] \in Workers
    BY <1>a, <1>9 DEF Push, OfferInv
  <2>2. m_queue' \in [Workers -> Seq(Tasks)]
    BY <1>a, <1>9, <2>1 DEF Push
  <2> QED BY <1>a, <1>9, <2>1, <2>2 DEF Push
<1>10. ASSUME NEW a \in Adders, CountTask(a) PROVE TypeOK'
  <2>1. (m_nTaskCount + 1) % Word \in 0 .. Word - 1
    BY <1>a, DivMod
  <2>2. missed' \in [Adders -> BOOLEAN]
    BY <1>a, <1>10, Zenon DEF CountTask
  <2>3. dest' \in [Adders -> Workers]
    BY <1>a, <1>10 DEF CountTask, Workers
  <2> QED BY <1>a, <1>10, <2>1, <2>2, <2>3 DEF CountTask
<1>11. ASSUME NEW a \in Adders, SpuriousWakeup(a) PROVE TypeOK'
  BY <1>a, <1>11 DEF SpuriousWakeup
<1>12. ASSUME NEW w \in Workers, TestEnable(w) PROVE TypeOK'
  BY <1>a, <1>12 DEF TestEnable
<1>13. ASSUME NEW w \in Workers, Pop(w) PROVE TypeOK'
  <2>1. Head(m_queue[w]) \in Tasks /\ Tail(m_queue[w]) \in Seq(Tasks)
    BY <1>a, <1>13 DEF Pop, QueueReady
  <2>2. late' \in [Workers -> Nat]
    BY <1>a, <1>13 DEF Pop
  <2>3. cur' \in [Workers -> Tasks \cup {None}] /\ wpc' \in [Workers -> WPC]
    BY <1>a, <1>13, <2>1 DEF Pop
  <2>4. m_queue' \in [Workers -> Seq(Tasks)] /\ phase' \in [Tasks -> Phase]
    BY <1>a, <1>13, <2>1 DEF Pop
  <2> QED BY <1>a, <1>13, <2>2, <2>3, <2>4 DEF Pop
<1>14. ASSUME NEW w \in Workers, Execute(w) PROVE TypeOK'
  BY <1>a, <1>14 DEF Execute
<1>15. ASSUME NEW w \in Workers, Uncount(w) PROVE TypeOK'
  <2>1. (m_nTaskCount - 1) % Word \in 0 .. Word - 1
    BY <1>a, DivMod
  <2> QED BY <1>a, <1>15, <2>1 DEF Uncount
<1>16. ASSUME NEW w \in Workers, NotifyOne(w) PROVE TypeOK'
  <2>1. apc' \in [Adders -> APC]
    BY <1>a, <1>16 DEF NotifyOne, WakeOne, Blocked
  <2>2. missed' \in [Adders -> BOOLEAN]
    BY <1>a, <1>16, Zenon DEF NotifyOne
  <2>3. wpc' \in [Workers -> WPC] /\ cur' \in [Workers -> Tasks \cup {None}]
    BY <1>a, <1>16, ZenonT(30) DEF NotifyOne
  <2> QED BY <1>a, <1>16, <2>1, <2>2, <2>3 DEF NotifyOne
<1>17. ASSUME NEW w \in Workers, CountFailure(w) PROVE TypeOK'
  <2>1. (m_nTaskFailedCount + 1) % Word \in 0 .. Word - 1
    BY <1>a, DivMod
  <2> QED BY <1>a, <1>17, <2>1 DEF CountFailure
<1>18. CASE UNCHANGED vars
  BY <1>a, <1>18 DEF vars
<1> QED
  BY <1>1, <1>2, <1>3, <1>4, <1>5, <1>6, <1>7, <1>8, <1>9, <1>10, <1>11,
     <1>12, <1>13, <1>14, <1>15, <1>16, <1>17, <1>18 DEF Next, Adder, Worker

-----------------------------------------------------------------------------
(* Mutual exclusion of the adders, and who owns which task.                *)

LEMMA MutexStep == IInv /\ [Next]_vars => MutexInv'
<1> SUFFICES ASSUME IInv, [Next]_vars PROVE MutexInv'
  OBVIOUS
<1>a. TypeOK /\ MutexInv
  BY DEF IInv
<1> USE DEF TypeOK, MutexInv
<1>1. ASSUME NEW a \in Adders, NEW t \in Tasks, CallAddTask(a, t)
      PROVE MutexInv'
  BY <1>a, <1>1 DEF CallAddTask
<1>2. ASSUME NEW a \in Adders, Adder(a) \/ SpuriousWakeup(a) PROVE MutexInv'
  <2>1. CASE ChooseWorker(a)
    BY <1>a, <2>1 DEF ChooseWorker, MutexFree
  <2>2. CASE CheckLimit(a)
    BY <1>a, <2>2 DEF CheckLimit
  <2>3. CASE Block(a) \/ Relock(a) \/ Push(a) \/ CountTask(a)
    BY <1>a, <2>3 DEF Block, Relock, Push, CountTask, MutexFree
  <2>4. CASE SpuriousWakeup(a)
    BY <1>a, <2>4 DEF SpuriousWakeup
  <2> QED BY <1>2, <2>1, <2>2, <2>3, <2>4 DEF Adder
<1>3. ASSUME NEW w \in Workers, NotifyOne(w) PROVE MutexInv'
  BY <1>a, <1>3 DEF NotifyOne, WakeOne, Blocked
<1>4. ASSUME UNCHANGED <<m_mutex, apc>> PROVE MutexInv'
  BY <1>a, <1>4
<1> QED
  BY <1>1, <1>2, <1>3, <1>4 DEF Next, Worker, StartWorker, StopWorker,
     ResetTaskFailedCount, TestEnable, Pop, Execute, Uncount, CountFailure, vars

\* What Worker::Handle pops is a task that waits in the queue.
LEMMA HeadIsQueued ==
  ASSUME TypeOK, WaitingInv, NEW w \in Workers, Pop(w)
  PROVE  Head(m_queue[w]) \in Tasks /\ phase[Head(m_queue[w])] = "queued"
<1>1. m_queue[w] \in Seq(Tasks) /\ m_queue[w] # <<>>
  BY DEF Pop, QueueReady, TypeOK
<1>2. /\ Head(m_queue[w]) \in Tasks /\ Head(m_queue[w]) = m_queue[w][1]
      /\ 1 \in 1 .. Len(m_queue[w])
  BY <1>1
<1> QED BY <1>2 DEF WaitingInv

LEMMA OfferStep == IInv /\ [Next]_vars => OfferInv'
<1> SUFFICES ASSUME IInv, [Next]_vars PROVE OfferInv'
  OBVIOUS
<1>a. TypeOK /\ OfferInv /\ HoldInv /\ WaitingInv /\ DistinctInv
  BY DEF IInv, QueueInv
<1>1. ASSUME NEW a \in Adders, NEW t \in Tasks, CallAddTask(a, t)
      PROVE OfferInv'
  <2>1. /\ phase[t] = "new" /\ phase'[t] = "offered" /\ arg'[a] = t
        /\ \A u \in Tasks : u # t => phase'[u] = phase[u]
        /\ \A b \in Adders : b # a => apc'[b] = apc[b] /\ arg'[b] = arg[b]
    BY <1>a, <1>1 DEF CallAddTask, TypeOK
  <2>2. \A b \in Adders : b # a /\ apc[b] \notin {"idle", "count"} => arg[b] # t
    BY <1>a, <2>1 DEF OfferInv
  <2>3. \A b \in Adders : apc'[b] \notin {"idle", "count"} =>
          arg'[b] \in Tasks /\ phase'[arg'[b]] = "offered"
    BY <1>a, <2>1, <2>2 DEF OfferInv
  <2> QED BY <1>a, <2>1, <2>2, <2>3 DEF OfferInv
<1>2. ASSUME NEW a \in Adders, ChooseWorker(a) PROVE OfferInv'
  <2>1. /\ apc[a] = "lock" /\ arg' = arg /\ phase' = phase
        /\ \A b \in Adders : b # a => apc'[b] = apc[b]
    BY <1>a, <1>2 DEF ChooseWorker, TypeOK
  <2> QED BY <1>a, <2>1 DEF TypeOK, OfferInv
<1>3. ASSUME NEW a \in Adders,
             CheckLimit(a) \/ Block(a) \/ Relock(a) \/ SpuriousWakeup(a)
      PROVE OfferInv'
  <2>1. /\ apc[a] \notin {"idle", "count"} /\ arg' = arg /\ phase' = phase
        /\ \A b \in Adders : b # a => apc'[b] = apc[b]
    BY <1>a, <1>3 DEF CheckLimit, Block, Relock, SpuriousWakeup, TypeOK
  <2> QED BY <1>a, <2>1 DEF TypeOK, OfferInv
<1>4. ASSUME NEW a \in Adders, Push(a) PROVE OfferInv'
  BY <1>a, <1>4 DEF Push, TypeOK, OfferInv
<1>5. ASSUME NEW a \in Adders, CountTask(a) PROVE OfferInv'
  BY <1>a, <1>5 DEF CountTask, TypeOK, OfferInv
<1>6. ASSUME NEW w \in Workers, Pop(w) PROVE OfferInv'
  <2>1. Head(m_queue[w]) \in Tasks /\ phase[Head(m_queue[w])] = "queued"
    BY <1>a, <1>6, HeadIsQueued DEF QueueInv
  <2> QED BY <1>a, <1>6, <2>1 DEF Pop, TypeOK, OfferInv
<1>7. ASSUME NEW w \in Workers, Execute(w) \/ Uncount(w) PROVE OfferInv'
  <2>1. cur[w] \in Tasks /\ phase[cur[w]] \in {"running", "ran"}
    BY <1>a, <1>7 DEF Execute, Uncount, HoldInv
  <2>2. apc' = apc /\ arg' = arg
    BY <1>7 DEF Execute, Uncount
  <2>3. \A t \in Tasks : t # cur[w] => phase'[t] = phase[t]
    BY <1>a, <1>7 DEF Execute, Uncount, TypeOK
  <2> QED BY <1>a, <2>1, <2>2, <2>3 DEF TypeOK, OfferInv
<1>8. ASSUME NEW w \in Workers, NotifyOne(w) PROVE OfferInv'
  <2>1. /\ arg' = arg /\ phase' = phase
        /\ \A b \in Adders :
             apc'[b] \notin {"idle", "count"} => apc[b] \notin {"idle", "count"}
    BY <1>a, <1>8 DEF NotifyOne, WakeOne, Blocked, TypeOK
  <2> QED BY <1>a, <2>1 DEF TypeOK, OfferInv
<1>9. ASSUME UNCHANGED <<apc, arg, phase>> PROVE OfferInv'
  BY <1>a, <1>9 DEF OfferInv
<1> QED
  BY <1>1, <1>2, <1>3, <1>4, <1>5, <1>6, <1>7, <1>8, <1>9
  DEF Next, Adder, Worker, StartWorker, StopWorker, ResetTaskFailedCount,
      TestEnable, CountFailure, vars

LEMMA HoldStep == IInv /\ [Next]_vars => HoldInv'
<1> SUFFICES ASSUME IInv, [Next]_vars PROVE HoldInv'
  OBVIOUS
<1>a. TypeOK /\ OfferInv /\ HoldInv /\ WaitingInv /\ DistinctInv
  BY DEF IInv, QueueInv
<1>1. ASSUME NEW a \in Adders, NEW t \in Tasks, CallAddTask(a, t)
      PROVE HoldInv'
  <2>1. /\ wpc' = wpc /\ cur' = cur /\ phase[t] = "new"
        /\ \A u \in Tasks : u # t => phase'[u] = phase[u]
    BY <1>a, <1>1 DEF CallAddTask, TypeOK
  <2> QED BY <1>a, <2>1 DEF TypeOK, HoldInv
<1>2. ASSUME NEW a \in Adders, Push(a) PROVE HoldInv'
  <2>1. /\ wpc' = wpc /\ cur' = cur
        /\ arg[a] \in Tasks /\ phase[arg[a]] = "offered"
        /\ \A u \in Tasks : u # arg[a] => phase'[u] = phase[u]
    BY <1>a, <1>2 DEF Push, TypeOK, OfferInv
  <2> QED BY <1>a, <2>1 DEF TypeOK, HoldInv
<1>3. ASSUME NEW w \in Workers, Pop(w) PROVE HoldInv'
  <2> DEFINE t == Head(m_queue[w])
  <2>1. t \in Tasks /\ phase[t] = "queued"
    BY <1>a, <1>3, HeadIsQueued DEF QueueInv
  <2>2. /\ wpc' = [wpc EXCEPT ![w] = "exec"] /\ cur' = [cur EXCEPT ![w] = t]
        /\ phase' = [phase EXCEPT ![t] = "running"]
    BY <1>3 DEF Pop
  <2> HIDE DEF t
  <2> QED BY <1>a, <2>1, <2>2 DEF TypeOK, HoldInv
<1>4. ASSUME NEW w \in Workers, Execute(w) PROVE HoldInv'
  <2>1. /\ wpc[w] = "exec" /\ phase' = [phase EXCEPT ![cur[w]] = "ran"]
        /\ \/ wpc' = [wpc EXCEPT ![w] = "complete"] /\ cur' = cur
           \/ /\ wpc' = [wpc EXCEPT ![w] = "run"]
              /\ cur' = [cur EXCEPT ![w] = None]
    BY <1>4 DEF Execute
  <2>2. cur[w] \in Tasks /\ phase'[cur[w]] = "ran"
    BY <1>a, <2>1 DEF TypeOK, HoldInv
  <2>3. \A u \in Tasks : u # cur[w] => phase'[u] = phase[u]
    BY <1>a, <2>1 DEF TypeOK
  <2>4. /\ wpc'[w] \in {"complete", "run"}
        /\ wpc'[w] = "complete" => cur'[w] = cur[w]
        /\ \A v \in Workers : v # w => wpc'[v] = wpc[v] /\ cur'[v] = cur[v]
    BY <1>a, <2>1 DEF TypeOK
  <2> QED BY <1>a, <2>1, <2>2, <2>3, <2>4 DEF HoldInv
<1>5. ASSUME NEW w \in Workers, Uncount(w) PROVE HoldInv'
  <2>1. /\ wpc[w] = "complete" /\ phase' = [phase EXCEPT ![cur[w]] = "reported"]
        /\ wpc' = [wpc EXCEPT ![w] = "notify"] /\ cur' = cur
    BY <1>5 DEF Uncount
  <2> QED BY <1>a, <2>1 DEF TypeOK, HoldInv
<1>6. ASSUME UNCHANGED phase,
             \A w \in Workers :
               \/ wpc'[w] \notin {"exec", "complete"}
               \/ wpc'[w] = wpc[w] /\ cur'[w] = cur[w]
      PROVE HoldInv'
  BY <1>a, <1>6 DEF HoldInv
<1>7. CASE StartWorker
  <2>1. /\ phase' = phase /\ cur' = cur
        /\ \A w \in Workers : wpc'[w] = wpc[w] \/ wpc'[w] = "run"
    BY <1>a, <1>7 DEF StartWorker, TypeOK
  <2> QED BY <1>6, <2>1
<1>8. ASSUME NEW w \in Workers,
             TestEnable(w) \/ NotifyOne(w) \/ CountFailure(w)
      PROVE HoldInv'
  <2>1. /\ phase' = phase
        /\ wpc'[w] \notin {"exec", "complete"}
        /\ \A v \in Workers : v # w => wpc'[v] = wpc[v] /\ cur'[v] = cur[v]
    BY <1>a, <1>8 DEF TestEnable, NotifyOne, CountFailure, TypeOK
  <2> QED BY <1>6, <2>1
<1>9. ASSUME UNCHANGED <<phase, wpc, cur>> PROVE HoldInv'
  BY <1>6, <1>9
<1> QED
  BY <1>1, <1>2, <1>3, <1>4, <1>5, <1>7, <1>8, <1>9
  DEF Next, Adder, Worker, StopWorker, ResetTaskFailedCount, ChooseWorker,
      CheckLimit, Block, Relock, CountTask, SpuriousWakeup, vars

LEMMA QueueStep == IInv /\ [Next]_vars => QueueInv'
<1> SUFFICES ASSUME IInv, [Next]_vars PROVE QueueInv'
  OBVIOUS
<1>a. TypeOK /\ OfferInv /\ HoldInv /\ WaitingInv /\ DistinctInv
  BY DEF IInv, QueueInv
<1>b. \A w \in Workers : \A i \in 1 .. Len(m_queue[w]) : m_queue[w][i] \in Tasks
  BY <1>a DEF TypeOK
<1>1. ASSUME NEW t \in Tasks, phase[t] # "queued", m_queue' = m_queue,
             \A u \in Tasks : u # t => phase'[u] = phase[u]
      PROVE QueueInv'
  <2>1. WaitingInv'
    BY <1>a, <1>b, <1>1 DEF WaitingInv
  <2>2. DistinctInv'
    BY <1>a, <1>1 DEF DistinctInv
  <2> QED BY <2>1, <2>2 DEF QueueInv
<1>2. ASSUME NEW a \in Adders, NEW t \in Tasks, CallAddTask(a, t)
      PROVE QueueInv'
  BY <1>a, <1>1, <1>2 DEF CallAddTask, TypeOK
<1>3. ASSUME NEW a \in Adders, Push(a) PROVE QueueInv'
  <2> DEFINE t == arg[a]
             d == dest[a]
  <2>1. t \in Tasks /\ phase[t] = "offered" /\ d \in Workers
    BY <1>a, <1>3 DEF Push, OfferInv, TypeOK
  <2>2. /\ m_queue' = [m_queue EXCEPT ![d] = Append(m_queue[d], t)]
        /\ phase' = [phase EXCEPT ![t] = "queued"]
    BY <1>3 DEF Push
  <2> HIDE DEF t, d
  <2>3. /\ Len(m_queue'[d]) = Len(m_queue[d]) + 1
        /\ \A i \in 1 .. Len(m_queue[d]) : m_queue'[d][i] = m_queue[d][i]
        /\ m_queue'[d][Len(m_queue[d]) + 1] = t
        /\ Len(m_queue[d]) \in Nat
    BY <1>a, <2>1, <2>2 DEF TypeOK
  <2>4. \A w \in Workers : w # d => m_queue'[w] = m_queue[w]
    BY <1>a, <2>1, <2>2 DEF TypeOK
  <2>5. \A w \in Workers : \A i \in 1 .. Len(m_queue'[w]) :
          \/ i \in 1 .. Len(m_queue[w]) /\ m_queue'[w][i] = m_queue[w][i]
          \/ w = d /\ i = Len(m_queue[d]) + 1 /\ m_queue'[w][i] = t
    BY <2>3, <2>4
  <2>6. \A w \in Workers : \A i \in 1 .. Len(m_queue[w]) : m_queue[w][i] # t
    BY <1>a, <2>1 DEF WaitingInv
  <2>7. /\ phase'[t] = "queued"
        /\ \A u \in Tasks : u # t => phase'[u] = phase[u]
    BY <1>a, <2>1, <2>2 DEF TypeOK
  <2>8. \A w \in Workers : \A i \in 1 .. Len(m_queue'[w]) :
          phase'[m_queue'[w][i]] = "queued"
    BY <1>a, <1>b, <2>5, <2>6, <2>7 DEF WaitingInv
  <2>9. \A v, w \in Workers :
          \A i \in 1 .. Len(m_queue'[v]), j \in 1 .. Len(m_queue'[w]) :
            m_queue'[v][i] = m_queue'[w][j] => v = w /\ i = j
    <3> SUFFICES ASSUME NEW v \in Workers, NEW w \in Workers,
                        NEW i \in 1 .. Len(m_queue'[v]),
                        NEW j \in 1 .. Len(m_queue'[w]),
                        m_queue'[v][i] = m_queue'[w][j]
                 PROVE  v = w /\ i = j
      OBVIOUS
    <3>1. CASE i \in 1 .. Len(m_queue[v]) /\ m_queue'[v][i] = m_queue[v][i]
      <4>1. j \in 1 .. Len(m_queue[w]) /\ m_queue'[w][j] = m_queue[w][j]
        BY <2>5, <2>6, <3>1
      <4>2. m_queue[v][i] = m_queue[w][j]
        BY <3>1, <4>1
      <4>3. \A x, y \in Workers :
              \A k \in 1 .. Len(m_queue[x]), l \in 1 .. Len(m_queue[y]) :
                m_queue[x][k] = m_queue[y][l] => x = y /\ k = l
        BY <1>a DEF DistinctInv
      <4> QED BY <3>1, <4>1, <4>2, <4>3
    <3>2. CASE v = d /\ i = Len(m_queue[d]) + 1 /\ m_queue'[v][i] = t
      BY <2>5, <2>6, <3>2
    <3> QED BY <2>5, <3>1, <3>2
  <2> QED BY <2>8, <2>9 DEF QueueInv, WaitingInv, DistinctInv
<1>4. ASSUME NEW w \in Workers, Pop(w) PROVE QueueInv'
  <2> DEFINE t == Head(m_queue[w])
  <2>1. /\ m_queue[w] # <<>> /\ m_queue[w] \in Seq(Tasks)
        /\ m_queue' = [m_queue EXCEPT ![w] = Tail(m_queue[w])]
        /\ phase' = [phase EXCEPT ![t] = "running"]
    BY <1>a, <1>4 DEF Pop, QueueReady, TypeOK
  <2>2. t \in Tasks /\ t = m_queue[w][1] /\ 1 \in 1 .. Len(m_queue[w])
    BY <2>1
  <2> HIDE DEF t
  <2>3. /\ Len(m_queue'[w]) = Len(m_queue[w]) - 1
        /\ \A i \in 1 .. Len(m_queue'[w]) : m_queue'[w][i] = m_queue[w][i + 1]
        /\ Len(m_queue[w]) \in Nat
    BY <1>a, <2>1 DEF TypeOK
  <2>4. \A v \in Workers : v # w => m_queue'[v] = m_queue[v]
    BY <1>a, <2>1 DEF TypeOK
  <2> DEFINE k(v, i) == IF v = w THEN i + 1 ELSE i
  <2>5. \A v \in Workers : \A i \in 1 .. Len(m_queue'[v]) :
          /\ k(v, i) \in 1 .. Len(m_queue[v])
          /\ v = w => k(v, i) # 1
          /\ m_queue'[v][i] = m_queue[v][k(v, i)]
    BY <2>3, <2>4
  <2> HIDE DEF k
  <2>6. \A v \in Workers : \A i \in 1 .. Len(m_queue'[v]) : m_queue'[v][i] # t
    BY <1>a, <2>2, <2>5 DEF DistinctInv
  <2>7. \A u \in Tasks : u # t => phase'[u] = phase[u]
    BY <1>a, <2>1, <2>2 DEF TypeOK
  <2>8. \A v \in Workers : \A i \in 1 .. Len(m_queue'[v]) :
          phase'[m_queue'[v][i]] = "queued"
    BY <1>a, <1>b, <2>5, <2>6, <2>7 DEF WaitingInv
  <2>9. \A u, v \in Workers :
          \A i \in 1 .. Len(m_queue'[u]), j \in 1 .. Len(m_queue'[v]) :
            m_queue'[u][i] = m_queue'[v][j] => u = v /\ i = j
    <3> SUFFICES ASSUME NEW u \in Workers, NEW v \in Workers,
                        NEW i \in 1 .. Len(m_queue'[u]),
                        NEW j \in 1 .. Len(m_queue'[v]),
                        m_queue'[u][i] = m_queue'[v][j]
                 PROVE  u = v /\ i = j
      OBVIOUS
    <3>1. u = v /\ k(u, i) = k(v, j)
      <4>1. /\ k(u, i) \in 1 .. Len(m_queue[u]) /\ k(v, j) \in 1 .. Len(m_queue[v])
            /\ m_queue[u][k(u, i)] = m_queue[v][k(v, j)]
        BY <2>5
      <4> QED BY <1>a, <4>1 DEF DistinctInv
    <3> QED BY <3>1, <2>3, <2>4 DEF k
  <2> QED BY <2>8, <2>9 DEF QueueInv, WaitingInv, DistinctInv
<1>5. ASSUME NEW w \in Workers, Execute(w) \/ Uncount(w) PROVE QueueInv'
  <2>1. cur[w] \in Tasks /\ phase[cur[w]] \in {"running", "ran"}
    BY <1>a, <1>5 DEF Execute, Uncount, HoldInv
  <2>2. m_queue' = m_queue /\ \A u \in Tasks : u # cur[w] => phase'[u] = phase[u]
    BY <1>a, <1>5, <2>1 DEF Execute, Uncount, TypeOK
  <2> QED BY <1>1, <2>1, <2>2
<1>6. ASSUME UNCHANGED <<m_queue, phase>> PROVE QueueInv'
  <2>1. m_queue' = m_queue /\ phase' = phase
    BY <1>6
  <2>2. WaitingInv'
    BY <1>a, <2>1 DEF WaitingInv
  <2>3. DistinctInv'
    BY <1>a, <2>1 DEF DistinctInv
  <2> QED BY <2>2, <2>3 DEF QueueInv
<1> QED
  BY <1>2, <1>3, <1>4, <1>5, <1>6
  DEF Next, Adder, Worker, StartWorker, StopWorker, ResetTaskFailedCount,
      ChooseWorker, CheckLimit, Block, Relock, CountTask, SpuriousWakeup,
      TestEnable, NotifyOne, CountFailure, vars

-----------------------------------------------------------------------------
(* The counter and the limit.                                              *)

\* The steps of one task from its push to its uncount, seen as a set.
LEMMA OutstandingStep ==
  ASSUME TypeOK, TypeOK', NEW t \in Tasks,
         \A u \in Tasks : u # t => phase'[u] = phase[u]
  PROVE  /\ phase[t] = "offered" /\ phase'[t] = "queued" =>
              Cardinality(Outstanding') = Cardinality(Outstanding) + 1
         /\ phase[t] = "ran" /\ phase'[t] = "reported" =>
              Cardinality(Outstanding') = Cardinality(Outstanding) - 1
         /\ (phase[t] \in {"queued", "running", "ran"}
              <=> phase'[t] \in {"queued", "running", "ran"}) =>
              Cardinality(Outstanding') = Cardinality(Outstanding)
<1>1. IsFiniteSet(Outstanding)
  BY OutstandingFinite
<1>2. ASSUME phase[t] = "offered", phase'[t] = "queued"
      PROVE  Cardinality(Outstanding') = Cardinality(Outstanding) + 1
  <2>1. t \notin Outstanding /\ Outstanding' = Outstanding \cup {t}
    BY <1>2 DEF Outstanding
  <2> QED BY <1>1, <2>1, FS_AddElement
<1>3. ASSUME phase[t] = "ran", phase'[t] = "reported"
      PROVE  Cardinality(Outstanding') = Cardinality(Outstanding) - 1
  <2>1. t \in Outstanding /\ Outstanding' = Outstanding \ {t}
    BY <1>3 DEF Outstanding
  <2> QED BY <1>1, <2>1, FS_RemoveElement
<1>4. ASSUME phase[t] \in {"queued", "running", "ran"}
               <=> phase'[t] \in {"queued", "running", "ran"}
      PROVE  Cardinality(Outstanding') = Cardinality(Outstanding)
  <2>1. Outstanding' = Outstanding
    BY <1>4 DEF Outstanding
  <2> QED BY <2>1
<1> QED BY <1>2, <1>3, <1>4

\* InWindow is the business of the holder of m_mutex alone.
LEMMA WindowFact ==
  ASSUME TypeOK, MutexInv, NEW a \in Adders
  PROVE  /\ apc[a] = "count" => InWindow
         /\ m_mutex = a /\ apc[a] # "count" => ~InWindow
         /\ m_mutex = None => ~InWindow
BY DEF TypeOK, MutexInv, InWindow

LEMMA CountStep == IInv /\ [Next]_vars => CountExact'
<1> SUFFICES ASSUME IInv, [Next]_vars, EnableMax PROVE CountExact'
  BY DEF CountExact
<1>a. TypeOK /\ MutexInv /\ OfferInv /\ HoldInv /\ QueueInv /\ CountExact
  BY DEF IInv
<1>b. TypeOK' /\ MutexInv'
  BY TypeStep, MutexStep
<1>c. Cardinality(Outstanding) \in Nat
  BY <1>a, OutstandingFinite
<1>d. m_nTaskCount = (Cardinality(Outstanding) - (IF InWindow THEN 1 ELSE 0)) % Word
  BY <1>a DEF CountExact
<1>f. Word \in Nat /\ Word > 0
  OBVIOUS
<1>e. ASSUME m_nTaskCount' = m_nTaskCount, InWindow' <=> InWindow,
             Cardinality(Outstanding') = Cardinality(Outstanding)
      PROVE  CountExact'
  BY <1>d, <1>e DEF CountExact
<1>1. ASSUME NEW a \in Adders, NEW t \in Tasks, CallAddTask(a, t)
      PROVE CountExact'
  <2>1. InWindow' <=> InWindow
    BY <1>a, <1>1 DEF CallAddTask, InWindow, TypeOK
  <2>2. Cardinality(Outstanding') = Cardinality(Outstanding)
    <3>1. /\ phase[t] = "new" /\ phase'[t] = "offered"
          /\ \A u \in Tasks : u # t => phase'[u] = phase[u]
      BY <1>a, <1>1 DEF CallAddTask, TypeOK
    <3> QED BY <1>a, <1>b, <3>1, OutstandingStep
  <2> QED BY <1>e, <1>1, <2>1, <2>2 DEF CallAddTask
<1>2. ASSUME NEW a \in Adders, UNCHANGED <<m_nTaskCount, phase>>,
             m_mutex \in {None, a}, m_mutex' \in {None, a},
             apc[a] # "count", apc'[a] # "count"
      PROVE CountExact'
  <2>1. ~InWindow /\ ~InWindow'
    BY <1>a, <1>b, <1>2 DEF InWindow
  <2>2. Outstanding' = Outstanding
    BY <1>2 DEF Outstanding
  <2> QED BY <1>e, <1>2, <2>1, <2>2
<1>3. ASSUME NEW a \in Adders,
             ChooseWorker(a) \/ CheckLimit(a) \/ Block(a) \/ Relock(a)
      PROVE CountExact'
  <2>1. m_mutex \in {None, a} /\ apc[a] # "count"
    BY <1>a, <1>3 DEF ChooseWorker, CheckLimit, Block, Relock, MutexFree, MutexInv
  <2>2. m_mutex' \in {None, a} /\ apc'[a] # "count"
    BY <1>a, <1>3, <2>1 DEF ChooseWorker, CheckLimit, Block, Relock, TypeOK
  <2> QED
    BY <1>2, <1>3, <2>1, <2>2 DEF ChooseWorker, CheckLimit, Block, Relock
<1>4. ASSUME NEW a \in Adders, Push(a) PROVE CountExact'
  <2>1. arg[a] \in Tasks /\ phase[arg[a]] = "offered"
    BY <1>a, <1>4 DEF Push, OfferInv
  <2>2. Cardinality(Outstanding') = Cardinality(Outstanding) + 1
    BY <1>a, <1>b, <1>4, <2>1, OutstandingStep DEF Push, TypeOK
  <2>3. ~InWindow
    BY <1>a, <1>4 DEF Push, MutexInv, InWindow
  <2>4. InWindow'
    BY <1>a, <1>b, <1>4 DEF Push, MutexInv, InWindow, TypeOK
  <2>5. m_nTaskCount' = m_nTaskCount
    BY <1>4 DEF Push
  <2> QED BY <1>c, <1>d, <2>2, <2>3, <2>4, <2>5 DEF CountExact
<1>5. ASSUME NEW a \in Adders, CountTask(a) PROVE CountExact'
  <2> DEFINE c == Cardinality(Outstanding) - 1
  <2>1. InWindow
    BY <1>a, <1>5, WindowFact DEF CountTask
  <2>2. ~InWindow' /\ Outstanding' = Outstanding
    BY <1>5 DEF CountTask, InWindow, Outstanding
  <2>3. m_nTaskCount = c % Word /\ c \in Int
    BY <1>c, <1>d, <2>1
  <2>4. m_nTaskCount' = ((c % Word) + 1) % Word
    BY <1>5, <2>3 DEF CountTask
  <2>5. m_nTaskCount' = (c + 1) % Word
    <3> HIDE DEF c
    <3> QED BY <1>f, <2>3, <2>4, ModSucc
  <2>6. c + 1 = Cardinality(Outstanding) - 0
    BY <1>c
  <2> QED BY <2>2, <2>5, <2>6 DEF CountExact
<1>6. ASSUME NEW w \in Workers, Uncount(w) PROVE CountExact'
  <2> DEFINE x == IF InWindow THEN 1 ELSE 0
             c == Cardinality(Outstanding) - x
  <2>1. cur[w] \in Tasks /\ phase[cur[w]] = "ran"
    BY <1>a, <1>6 DEF Uncount, HoldInv
  <2>2. Cardinality(Outstanding') = Cardinality(Outstanding) - 1
    BY <1>a, <1>b, <1>6, <2>1, OutstandingStep DEF Uncount, TypeOK
  <2>3. InWindow' <=> InWindow
    BY <1>6 DEF Uncount, InWindow
  <2>4. m_nTaskCount = c % Word /\ c \in Int /\ x \in Int
    BY <1>c, <1>d
  <2>5. m_nTaskCount' = (c - 1) % Word
    <3>1. m_nTaskCount' = ((c % Word) - 1) % Word
      BY <1>6, <2>4 DEF Uncount
    <3> HIDE DEF c
    <3> QED BY <1>f, <2>4, <3>1, ModPred
  <2>6. c - 1 = Cardinality(Outstanding') - x
    BY <1>c, <2>2, <2>4
  <2> QED BY <2>3, <2>5, <2>6 DEF CountExact
<1>7. ASSUME NEW w \in Workers, NotifyOne(w) PROVE CountExact'
  <2>1. InWindow' <=> InWindow
    BY <1>a, <1>7 DEF NotifyOne, WakeOne, Blocked, InWindow, TypeOK
  <2>2. Outstanding' = Outstanding
    BY <1>7 DEF NotifyOne, Outstanding
  <2> QED BY <1>e, <1>7, <2>1, <2>2 DEF NotifyOne
<1>8. ASSUME NEW a \in Adders, SpuriousWakeup(a) PROVE CountExact'
  <2>1. InWindow' <=> InWindow
    BY <1>a, <1>8 DEF SpuriousWakeup, InWindow, TypeOK
  <2>2. Outstanding' = Outstanding
    BY <1>8 DEF SpuriousWakeup, Outstanding
  <2> QED BY <1>e, <1>8, <2>1, <2>2 DEF SpuriousWakeup
<1>9. ASSUME NEW w \in Workers, Pop(w) \/ Execute(w) PROVE CountExact'
  <2>1. InWindow' <=> InWindow
    BY <1>9 DEF Pop, Execute, InWindow
  <2>2. CASE Pop(w)
    <3>1. Head(m_queue[w]) \in Tasks /\ phase[Head(m_queue[w])] = "queued"
      BY <1>a, <2>2, HeadIsQueued DEF QueueInv
    <3>2. /\ phase'[Head(m_queue[w])] = "running"
          /\ \A u \in Tasks : u # Head(m_queue[w]) => phase'[u] = phase[u]
      BY <1>a, <2>2, <3>1 DEF Pop, TypeOK
    <3>3. Cardinality(Outstanding') = Cardinality(Outstanding)
      BY <1>a, <1>b, <3>1, <3>2, OutstandingStep
    <3> QED BY <1>e, <2>1, <2>2, <3>3 DEF Pop
  <2>3. CASE Execute(w)
    <3>1. cur[w] \in Tasks /\ phase[cur[w]] = "running"
      BY <1>a, <2>3 DEF Execute, HoldInv
    <3>2. phase'[cur[w]] = "ran" /\ \A u \in Tasks : u # cur[w] => phase'[u] = phase[u]
      BY <1>a, <2>3, <3>1 DEF Execute, TypeOK
    <3>3. Cardinality(Outstanding') = Cardinality(Outstanding)
      BY <1>a, <1>b, <3>1, <3>2, OutstandingStep
    <3> QED BY <1>e, <2>1, <2>3, <3>3 DEF Execute
  <2> QED BY <1>9, <2>2, <2>3
<1>10. ASSUME UNCHANGED <<m_mutex, apc, phase, m_nTaskCount>> PROVE CountExact'
  BY <1>d, <1>10 DEF CountExact, InWindow, Outstanding
<1> QED
  BY <1>1, <1>3, <1>4, <1>5, <1>6, <1>7, <1>8, <1>9, <1>10
  DEF Next, Adder, Worker, StartWorker, StopWorker, ResetTaskFailedCount,
      TestEnable, CountFailure, vars

LEMMA LimitStep == IInv /\ [Next]_vars => LimitInv'
<1> SUFFICES ASSUME IInv, [Next]_vars, EnableMax, Limit < Word - 1 PROVE LimitInv'
  BY DEF LimitInv
<1> DEFINE n == Cardinality(Outstanding)
<1>a. TypeOK /\ MutexInv /\ OfferInv /\ HoldInv /\ QueueInv /\ CountExact
  BY DEF IInv
<1>b. TypeOK' /\ MutexInv'
  BY TypeStep, MutexStep
<1>c. /\ n \in Nat /\ n <= Limit + 1
      /\ \A a \in Adders : apc[a] = "push" => n <= Limit
  BY <1>a, OutstandingFinite DEF IInv, LimitInv
<1>d. Limit \in Nat /\ Limit' = Limit
  BY LimitType DEF Limit
<1>1. ASSUME Cardinality(Outstanding') \in {n, n - 1},
             \A a \in Adders : apc'[a] = "push" => apc[a] = "push"
      PROVE LimitInv'
  BY <1>c, <1>d, <1>1 DEF LimitInv
<1>2. ASSUME NEW a \in Adders, NEW t \in Tasks, CallAddTask(a, t)
      PROVE LimitInv'
  <2>1. /\ phase[t] = "new" /\ phase'[t] = "offered"
        /\ \A u \in Tasks : u # t => phase'[u] = phase[u]
        /\ \A b \in Adders : apc'[b] = "push" => apc[b] = "push"
    BY <1>a, <1>2 DEF CallAddTask, TypeOK
  <2>2. Cardinality(Outstanding') = n
    BY <1>a, <1>b, <2>1, OutstandingStep
  <2> QED BY <1>1, <2>1, <2>2
<1>3. ASSUME NEW a \in Adders, CheckLimit(a) PROVE LimitInv'
  <2>1. ~InWindow
    BY <1>a, <1>3, WindowFact DEF CheckLimit, MutexInv
  <2>2. m_nTaskCount = n
    <3>1. m_nTaskCount = (n - 0) % Word
      BY <1>a, <2>1 DEF CountExact
    <3>2. n - 0 \in 0 .. Word - 1 /\ n - 0 = Word * 0 + n
      BY <1>c, <1>d
    <3> HIDE DEF n
    <3> QED BY <1>c, <1>d, <3>1, <3>2
  <2>3. Outstanding' = Outstanding
    BY <1>3 DEF CheckLimit, Outstanding
  <2>4. \A b \in Adders : apc'[b] = "push" => apc[b] = "push" \/ n <= Limit
    BY <1>a, <1>3, <1>c, <1>d, <2>2 DEF CheckLimit, TypeOK
  <2> QED BY <1>c, <1>d, <2>3, <2>4 DEF LimitInv
<1>4. ASSUME NEW a \in Adders,
             ChooseWorker(a) \/ Block(a) \/ Relock(a) \/ CountTask(a)
               \/ SpuriousWakeup(a)
      PROVE LimitInv'
  <2>1. \A b \in Adders : apc'[b] = "push" => apc[b] = "push"
    BY <1>a, <1>4 DEF ChooseWorker, Block, Relock, CountTask, SpuriousWakeup,
       TypeOK
  <2>2. Outstanding' = Outstanding
    BY <1>4 DEF ChooseWorker, Block, Relock, CountTask, SpuriousWakeup,
       Outstanding
  <2> QED BY <1>1, <2>1, <2>2
<1>5. ASSUME NEW a \in Adders, Push(a) PROVE LimitInv'
  <2>1. /\ arg[a] \in Tasks /\ phase[arg[a]] = "offered"
        /\ phase'[arg[a]] = "queued"
        /\ \A u \in Tasks : u # arg[a] => phase'[u] = phase[u]
    BY <1>a, <1>5 DEF Push, OfferInv, TypeOK
  <2>2. Cardinality(Outstanding') = n + 1
    BY <1>a, <1>b, <2>1, OutstandingStep
  <2>3. n <= Limit
    BY <1>c, <1>5 DEF Push
  <2>4. \A b \in Adders : apc'[b] # "push"
    BY <1>a, <1>5 DEF Push, MutexInv, TypeOK
  <2> QED BY <1>c, <1>d, <2>2, <2>3, <2>4 DEF LimitInv
<1>6. ASSUME NEW w \in Workers, Pop(w) PROVE LimitInv'
  <2>1. Head(m_queue[w]) \in Tasks /\ phase[Head(m_queue[w])] = "queued"
    BY <1>a, <1>6, HeadIsQueued DEF QueueInv
  <2>2. /\ phase'[Head(m_queue[w])] = "running" /\ apc' = apc
        /\ \A u \in Tasks : u # Head(m_queue[w]) => phase'[u] = phase[u]
    BY <1>a, <1>6, <2>1 DEF Pop, TypeOK
  <2>3. Cardinality(Outstanding') = n
    BY <1>a, <1>b, <2>1, <2>2, OutstandingStep
  <2> QED BY <1>1, <2>2, <2>3
<1>7. ASSUME NEW w \in Workers, Execute(w) \/ Uncount(w) PROVE LimitInv'
  <2>1. /\ cur[w] \in Tasks
        /\ \/ phase[cur[w]] = "running" /\ phase'[cur[w]] = "ran"
           \/ phase[cur[w]] = "ran" /\ phase'[cur[w]] = "reported"
    BY <1>a, <1>7 DEF Execute, Uncount, HoldInv, TypeOK
  <2>2. apc' = apc /\ \A u \in Tasks : u # cur[w] => phase'[u] = phase[u]
    BY <1>a, <1>7, <2>1 DEF Execute, Uncount, TypeOK
  <2>3. Cardinality(Outstanding') \in {n, n - 1}
    BY <1>a, <1>b, <2>1, <2>2, OutstandingStep
  <2> QED BY <1>1, <2>2, <2>3
<1>8. ASSUME NEW w \in Workers, NotifyOne(w) PROVE LimitInv'
  <2>1. \A b \in Adders : apc'[b] = "push" => apc[b] = "push"
    BY <1>a, <1>8 DEF NotifyOne, WakeOne, Blocked, TypeOK
  <2>2. Outstanding' = Outstanding
    BY <1>8 DEF NotifyOne, Outstanding
  <2> QED BY <1>1, <2>1, <2>2
<1>9. ASSUME UNCHANGED <<apc, phase>> PROVE LimitInv'
  BY <1>1, <1>9 DEF Outstanding
<1> QED
  BY <1>2, <1>3, <1>4, <1>5, <1>6, <1>7, <1>8, <1>9
  DEF Next, Adder, Worker, StartWorker, StopWorker, ResetTaskFailedCount,
      TestEnable, CountFailure, vars

-----------------------------------------------------------------------------
LEMMA IInvInit == Init => IInv
<1> SUFFICES ASSUME Init PROVE IInv
  OBVIOUS
<1>1. TypeOK
  BY TypeInit
<1>2. MutexInv /\ OfferInv /\ HoldInv
  BY DEF Init, MutexInv, OfferInv, HoldInv
<1>3. QueueInv
  BY DEF Init, QueueInv, WaitingInv, DistinctInv
<1>4. Outstanding = {} /\ ~InWindow
  BY DEF Init, Outstanding, InWindow
<1>5. Cardinality(Outstanding) = 0
  BY <1>4, FS_EmptySet
<1>6. CountExact
  BY <1>4, <1>5 DEF CountExact, Init
<1>7. LimitInv
  BY <1>5, LimitType DEF LimitInv
<1> QED BY <1>1, <1>2, <1>3, <1>6, <1>7 DEF IInv

(* The inductive invariant holds in every reachable state.                 *)
THEOREM Invariance == Spec => []IInv
<1>1. IInv /\ [Next]_vars => IInv'
  BY TypeStep, MutexStep, OfferStep, HoldStep, QueueStep, CountStep, LimitStep
  DEF IInv
<1> QED BY IInvInit, <1>1, PTL DEF Spec

(* Type correctness: no index leaves m_vecWorker, no counter its word.     *)
THEOREM TypeCorrect == Spec => []TypeOK
<1>1. IInv => TypeOK
  BY DEF IInv
<1> QED BY Invariance, <1>1, PTL

(* m_nTaskCount, incremented under m_mutex after the push and decremented  *)
(* without it, is the number of outstanding tasks whenever m_mutex is free *)
(* or the predicate of AddTask's wait is evaluated.                        *)
THEOREM CountIsExact == Spec => []CountExact
<1>1. IInv => CountExact
  BY DEF IInv
<1> QED BY Invariance, <1>1, PTL

(* With EnableMaxTaskCount the pool never holds more than                  *)
(* m_nWorkerMaxTaskCount * m_nWorkerCount + 1 unfinished tasks.            *)
THEOREM TotalIsBounded == Spec => []TotalBound
<1>1. IInv => TotalBound
  BY DEF IInv, LimitInv, TotalBound
<1> QED BY Invariance, <1>1, PTL

-----------------------------------------------------------------------------
(* The order of the tasks, their distribution over the workers, and Stop.  *)

LEMMA DrainStep == TypeOK /\ DrainInv /\ [Next]_vars => DrainInv'
<1> SUFFICES ASSUME TypeOK, DrainInv, [Next]_vars PROVE DrainInv'
  OBVIOUS
<1> USE DEF DrainInv
<1>1. CASE StartWorker
  <2>1. started \in Workers /\ started' = started + 1
    BY <1>1 DEF StartWorker, TypeOK, Workers
  <2>2. late[started] = 0
    BY <2>1 DEF TypeOK
  <2> QED BY <1>1, <2>1, <2>2 DEF StartWorker, TypeOK, WPC, Workers
<1>2. CASE StopWorker
  <2>1. \A w \in Workers : m_isEnable'[w] => m_isEnable[w]
    BY <1>2 DEF StopWorker, TypeOK
  <2> QED BY <1>2, <2>1 DEF StopWorker, TypeOK
<1>3. ASSUME NEW w \in Workers, TestEnable(w) PROVE DrainInv'
  BY <1>3 DEF TestEnable, TypeOK
<1>4. ASSUME NEW w \in Workers, Pop(w) PROVE DrainInv'
  BY <1>4 DEF Pop, TypeOK
<1>5. ASSUME NEW w \in Workers, wpc[w] # "unborn",
             wpc'[w] \notin {"unborn", "pop"},
             \A v \in Workers : v # w => wpc'[v] = wpc[v],
             UNCHANGED <<started, m_isEnable, late>>
      PROVE DrainInv'
  BY <1>5 DEF TypeOK, Workers
<1>6. ASSUME NEW w \in Workers,
             Execute(w) \/ Uncount(w) \/ NotifyOne(w) \/ CountFailure(w)
      PROVE DrainInv'
  BY <1>5, <1>6, SMTT(30) DEF Execute, Uncount, NotifyOne, CountFailure, TypeOK
<1>7. CASE UNCHANGED <<started, m_isEnable, late, wpc>>
  BY <1>7
<1> QED
  BY <1>1, <1>2, <1>3, <1>4, <1>6, <1>7
  DEF Next, Adder, Worker, ResetTaskFailedCount, CallAddTask, ChooseWorker,
      CheckLimit, Block, Relock, Push, CountTask, SpuriousWakeup, vars

LEMMA TicketStep == IInv /\ TicketInv /\ [Next]_vars => TicketInv'
<1> SUFFICES ASSUME IInv, TicketInv, [Next]_vars PROVE TicketInv'
  OBVIOUS
<1>a. TypeOK /\ OfferInv /\ HoldInv /\ WaitingInv
  BY DEF IInv, QueueInv
<1> USE DEF TicketInv
<1>1. ASSUME NEW a \in Adders, NEW t \in Tasks, CallAddTask(a, t)
      PROVE TicketInv'
  BY <1>a, <1>1 DEF CallAddTask, TypeOK
<1>2. ASSUME NEW a \in Adders, Push(a) PROVE TicketInv'
  <2>1. arg[a] \in Tasks
    BY <1>a, <1>2 DEF Push, OfferInv
  <2> QED BY <1>a, <1>2, <2>1 DEF Push, TypeOK
<1>3. ASSUME NEW w \in Workers, Pop(w) PROVE TicketInv'
  <2>1. Head(m_queue[w]) \in Tasks /\ phase[Head(m_queue[w])] = "queued"
    BY <1>a, <1>3, HeadIsQueued
  <2> QED BY <1>a, <1>3, <2>1 DEF Pop, TypeOK
<1>4. ASSUME NEW w \in Workers, Execute(w) \/ Uncount(w) PROVE TicketInv'
  <2>1. cur[w] \in Tasks /\ phase[cur[w]] \in {"running", "ran"}
    BY <1>a, <1>4 DEF Execute, Uncount, HoldInv
  <2>2. /\ phase'[cur[w]] \in {"ran", "reported"}
        /\ \A t \in Tasks : t # cur[w] => phase'[t] = phase[t]
        /\ UNCHANGED <<ticket, pushes>>
    BY <1>a, <1>4, <2>1 DEF Execute, Uncount, TypeOK
  <2> QED BY <2>1, <2>2
<1>5. CASE UNCHANGED <<ticket, pushes, phase>>
  BY <1>5
<1> QED
  BY <1>1, <1>2, <1>3, <1>4, <1>5
  DEF Next, Adder, Worker, StartWorker, StopWorker, ResetTaskFailedCount,
      ChooseWorker, CheckLimit, Block, Relock, CountTask, SpuriousWakeup,
      TestEnable, NotifyOne, CountFailure, vars

LEMMA KeyStep == IInv /\ TicketInv /\ KeyInv /\ [Next]_vars => KeyInv'
<1> SUFFICES ASSUME IInv, TicketInv, KeyInv, [Next]_vars PROVE KeyInv'
  OBVIOUS
<1>a. TypeOK /\ OfferInv
  BY DEF IInv
<1> USE DEF KeyInv, Chosen
<1>1. ASSUME NEW a \in Adders, NEW t \in Tasks, CallAddTask(a, t)
      PROVE KeyInv'
  BY <1>a, <1>1 DEF CallAddTask, TypeOK, Hashed, HashIndex
<1>2. ASSUME NEW a \in Adders, ChooseWorker(a) PROVE KeyInv'
  <2>1. arg' = arg /\ UNCHANGED <<ticket, m_nIndex>>
    BY <1>2 DEF ChooseWorker
  <2>2. Hashed(arg[a]) => dest'[a] = HashIndex(KeyOf[arg[a]])
    BY <1>a, <1>2 DEF ChooseWorker, TypeOK
  <2>3. \A b \in Adders : b # a => apc'[b] = apc[b] /\ dest'[b] = dest[b]
    BY <1>a, <1>2 DEF ChooseWorker, TypeOK
  <2> QED BY <2>1, <2>2, <2>3 DEF Hashed, HashIndex
<1>3. ASSUME NEW a \in Adders, Push(a) PROVE KeyInv'
  <2>1. /\ arg[a] \in Tasks /\ arg' = arg /\ dest' = dest
        /\ dest[a] \in Workers
        /\ \A b \in Adders : apc'[b] \in Chosen => apc[b] \in Chosen
    BY <1>a, <1>3 DEF Push, OfferInv, TypeOK
  <2>2. /\ m_nIndex'[arg[a]] = dest[a]
        /\ \A t \in Tasks : t # arg[a] =>
             m_nIndex'[t] = m_nIndex[t] /\ ticket'[t] = ticket[t]
    BY <1>a, <1>3, <2>1 DEF Push, TypeOK
  <2>3. Hashed(arg[a]) => dest[a] = HashIndex(KeyOf[arg[a]])
    BY <1>3 DEF Push
  <2> QED BY <2>1, <2>2, <2>3 DEF Hashed, HashIndex
<1>4. ASSUME UNCHANGED <<ticket, m_nIndex>>,
             \A b \in Adders : apc'[b] \in Chosen =>
               apc[b] \in Chosen /\ arg'[b] = arg[b] /\ dest'[b] = dest[b]
      PROVE KeyInv'
  BY <1>4 DEF Hashed, HashIndex
<1>5. ASSUME NEW a \in Adders,
             \/ CheckLimit(a) \/ Block(a) \/ Relock(a) \/ CountTask(a)
             \/ SpuriousWakeup(a)
      PROVE KeyInv'
  BY <1>a, <1>4, <1>5, SMTT(30)
  DEF CheckLimit, Block, Relock, CountTask, SpuriousWakeup, TypeOK
<1>6. ASSUME NEW w \in Workers, NotifyOne(w) PROVE KeyInv'
  BY <1>a, <1>4, <1>6 DEF NotifyOne, WakeOne, Blocked, TypeOK
<1>7. CASE UNCHANGED <<apc, arg, dest, ticket, m_nIndex>>
  BY <1>4, <1>7
<1> QED
  BY <1>1, <1>2, <1>3, <1>5, <1>6, <1>7
  DEF Next, Adder, Worker, StartWorker, StopWorker, ResetTaskFailedCount,
      TestEnable, Pop, Execute, Uncount, CountFailure, vars

\* Push(a): the task goes to the end of the queue, with the highest ticket.
LEMMA PlacePush ==
  ASSUME IInv, TicketInv, PlaceInv, NEW a \in Adders, Push(a)
  PROVE  PlaceInv'
<1> DEFINE t == arg[a]
           d == dest[a]
           n == Len(m_queue[d])
<1>1. /\ TypeOK /\ t \in Tasks /\ phase[t] = "offered" /\ d \in Workers
      /\ DistinctInv /\ WaitingInv
  BY DEF IInv, QueueInv, OfferInv, Push, TypeOK
<1>2. /\ m_nIndex'[t] = d /\ phase'[t] = "queued" /\ ticket'[t] = pushes + 1
      /\ \A u \in Tasks : u # t =>
           /\ m_nIndex'[u] = m_nIndex[u] /\ phase'[u] = phase[u]
           /\ ticket'[u] = ticket[u]
      /\ wpc' = wpc /\ cur' = cur
  BY <1>1 DEF Push, TypeOK
<1>3. /\ n \in Nat /\ Len(m_queue'[d]) = n + 1
      /\ \A i \in 1 .. n : m_queue'[d][i] = m_queue[d][i]
      /\ m_queue'[d][n + 1] = t
      /\ \A w \in Workers : w # d => m_queue'[w] = m_queue[w]
  BY <1>1 DEF Push, TypeOK
<1>4. /\ pushes \in Nat /\ ticket \in [Tasks -> Nat] /\ m_nIndex \in [Tasks -> Workers]
      /\ \A w \in Workers : Len(m_queue[w]) \in Nat
      /\ \A w \in Workers : \A i \in 1 .. Len(m_queue[w]) : m_queue[w][i] \in Tasks
  <2>1. \A w \in Workers : m_queue[w] \in Seq(Tasks)
    BY <1>1 DEF TypeOK
  <2>2. \A w \in Workers : Len(m_queue[w]) \in Nat
    BY <2>1
  <2>3. \A w \in Workers : \A i \in 1 .. Len(m_queue[w]) : m_queue[w][i] \in Tasks
    BY <2>1
  <2> QED BY <1>1, <2>2, <2>3 DEF TypeOK
<1>5. \A w \in Workers : \A i \in 1 .. Len(m_queue[w]) : m_queue[w][i] # t
  BY <1>1 DEF WaitingInv
<1> HIDE DEF t, d, n
<1>6. ASSUME NEW w \in Workers, NEW i \in 1 .. Len(m_queue'[w])
      PROVE  m_nIndex'[m_queue'[w][i]] = w
  <2>1. CASE w = d /\ i = n + 1
    BY <1>2, <1>3, <2>1
  <2>2. CASE ~(w = d /\ i = n + 1)
    <3>1. i \in 1 .. Len(m_queue[w]) /\ m_queue'[w][i] = m_queue[w][i]
      BY <1>3, <2>2, <1>6 DEF n
    <3> QED BY <3>1, <1>2, <1>4, <1>5 DEF PlaceInv
  <2> QED BY <2>1, <2>2
<1>7. ASSUME NEW w \in Workers, NEW i \in 1 .. Len(m_queue'[w]),
             NEW j \in 1 .. Len(m_queue'[w]), i < j
      PROVE  ticket'[m_queue'[w][i]] < ticket'[m_queue'[w][j]]
  <2>1. i \in 1 .. Len(m_queue[w]) /\ m_queue'[w][i] = m_queue[w][i]
    <3>1. CASE w = d
      <4>1. i \in 1 .. n
        BY <1>3, <1>7, <3>1
      <4> QED BY <1>3, <3>1, <4>1 DEF n
    <3>2. CASE w # d
      BY <1>3, <3>2
    <3> QED BY <3>1, <3>2
  <2>2. /\ m_queue[w][i] \in Tasks
        /\ ticket'[m_queue'[w][i]] = ticket[m_queue[w][i]]
    BY <2>1, <1>2, <1>4, <1>5
  <2>3. ticket[m_queue[w][i]] <= pushes
    BY <2>2 DEF TicketInv
  <2>4. CASE w = d /\ j = n + 1
    BY <1>2, <1>3, <1>4, <2>2, <2>3, <2>4
  <2>5. CASE ~(w = d /\ j = n + 1)
    <3>1. j \in 1 .. Len(m_queue[w]) /\ m_queue'[w][j] = m_queue[w][j]
      BY <1>3, <2>5, <1>7 DEF n
    <3>2. ticket'[m_queue'[w][j]] = ticket[m_queue[w][j]]
      BY <3>1, <1>2, <1>4, <1>5
    <3> QED BY <3>1, <3>2, <2>1, <2>2, <1>7 DEF PlaceInv
  <2> QED BY <2>4, <2>5
<1>8. ASSUME NEW u \in Tasks, phase'[u] = "queued"
      PROVE  \E i \in 1 .. Len(m_queue'[m_nIndex'[u]]) : m_queue'[m_nIndex'[u]][i] = u
  <2>1. CASE u = t
    BY <2>1, <1>2, <1>3
  <2>2. CASE u # t
    <3>1. /\ m_nIndex'[u] = m_nIndex[u] /\ m_nIndex[u] \in Workers
          /\ phase[u] = "queued"
      BY <2>2, <1>2, <1>4, <1>8
    <3>2. PICK i \in 1 .. Len(m_queue[m_nIndex[u]]) : m_queue[m_nIndex[u]][i] = u
      BY <3>1 DEF PlaceInv
    <3>3. /\ i \in 1 .. Len(m_queue'[m_nIndex[u]])
          /\ m_queue'[m_nIndex[u]][i] = u
      BY <3>1, <3>2, <1>3 DEF n
    <3> QED BY <3>1, <3>3
  <2> QED BY <2>1, <2>2
<1>9. ASSUME NEW u \in Tasks, phase'[u] = "running"
      PROVE  wpc'[m_nIndex'[u]] = "exec" /\ cur'[m_nIndex'[u]] = u
  <2>1. u # t
    BY <1>9, <1>2
  <2> QED BY <2>1, <1>2, <1>9 DEF PlaceInv
<1> QED BY <1>6, <1>7, <1>8, <1>9 DEF PlaceInv

\* Pop(w): the head of the queue is in the worker's hands.
LEMMA PlacePop ==
  ASSUME IInv, TicketInv, PlaceInv, NEW w \in Workers, Pop(w)
  PROVE  PlaceInv'
<1> DEFINE h == Head(m_queue[w])
           n == Len(m_queue[w])
<1>1. TypeOK /\ DistinctInv /\ WaitingInv
  BY DEF IInv, QueueInv
<1>2. h \in Tasks /\ phase[h] = "queued"
  BY <1>1, HeadIsQueued
<1>3. /\ wpc[w] = "pop" /\ wpc'[w] = "exec" /\ cur'[w] = h /\ phase'[h] = "running"
      /\ \A u \in Tasks : u # h => phase'[u] = phase[u]
      /\ \A v \in Workers : v # w =>
           wpc'[v] = wpc[v] /\ cur'[v] = cur[v] /\ m_queue'[v] = m_queue[v]
      /\ ticket' = ticket /\ m_nIndex' = m_nIndex
  BY <1>1, <1>2 DEF Pop, TypeOK
<1>4. /\ n \in Nat \ {0} /\ m_queue[w][1] = h /\ Len(m_queue'[w]) = n - 1
      /\ \A i \in 1 .. n - 1 : m_queue'[w][i] = m_queue[w][i + 1]
  BY <1>1 DEF Pop, QueueReady, TypeOK
<1>5. m_nIndex \in [Tasks -> Workers] /\ \A v \in Workers : Len(m_queue[v]) \in Nat
  BY <1>1 DEF TypeOK
<1> HIDE DEF h, n
<1>6. \A v \in Workers : \A i, j \in 1 .. Len(m_queue'[v]) :
        /\ m_nIndex'[m_queue'[v][i]] = v
        /\ i < j => ticket'[m_queue'[v][i]] < ticket'[m_queue'[v][j]]
  <2> SUFFICES ASSUME NEW v \in Workers, NEW i \in 1 .. Len(m_queue'[v]),
                      NEW j \in 1 .. Len(m_queue'[v])
               PROVE  /\ m_nIndex'[m_queue'[v][i]] = v
                      /\ i < j => ticket'[m_queue'[v][i]] < ticket'[m_queue'[v][j]]
    OBVIOUS
  <2>1. CASE v # w
    BY <2>1, <1>3 DEF PlaceInv
  <2>2. CASE v = w
    <3>1. i \in 1 .. n - 1 /\ j \in 1 .. n - 1
      BY <2>2, <1>4
    <3>2. /\ i + 1 \in 1 .. Len(m_queue[w]) /\ j + 1 \in 1 .. Len(m_queue[w])
          /\ i < j => i + 1 < j + 1
      BY <3>1, <1>4 DEF n
    <3>3. m_queue'[w][i] = m_queue[w][i + 1] /\ m_queue'[w][j] = m_queue[w][j + 1]
      BY <3>1, <1>4
    <3>4. /\ m_nIndex[m_queue[w][i + 1]] = w
          /\ i < j => ticket[m_queue[w][i + 1]] < ticket[m_queue[w][j + 1]]
      BY <3>2 DEF PlaceInv
    <3> QED BY <2>2, <3>3, <3>4, <1>3
  <2> QED BY <2>1, <2>2
<1>7. ASSUME NEW u \in Tasks, phase'[u] = "queued"
      PROVE  \E i \in 1 .. Len(m_queue'[m_nIndex'[u]]) : m_queue'[m_nIndex'[u]][i] = u
  <2>1. u # h /\ phase[u] = "queued" /\ m_nIndex[u] \in Workers
    BY <1>3, <1>5, <1>7
  <2>2. PICK i \in 1 .. Len(m_queue[m_nIndex[u]]) : m_queue[m_nIndex[u]][i] = u
    BY <2>1 DEF PlaceInv
  <2>3. CASE m_nIndex[u] # w
    BY <2>1, <2>2, <2>3, <1>3
  <2>4. CASE m_nIndex[u] = w
    <3>1. i # 1 /\ i - 1 \in 1 .. n - 1 /\ i = (i - 1) + 1
      BY <2>1, <2>2, <2>4, <1>4 DEF n
    <3>2. m_queue'[w][i - 1] = u
      BY <3>1, <2>2, <2>4, <1>4
    <3> QED BY <3>1, <3>2, <2>4, <1>3, <1>4
  <2> QED BY <2>3, <2>4
<1>8. ASSUME NEW u \in Tasks, phase'[u] = "running"
      PROVE  wpc'[m_nIndex'[u]] = "exec" /\ cur'[m_nIndex'[u]] = u
  <2>1. CASE u = h
    <3>1. m_nIndex[h] = w
      BY <1>4 DEF PlaceInv, n
    <3> QED BY <2>1, <3>1, <1>3
  <2>2. CASE u # h
    <3>1. wpc[m_nIndex[u]] = "exec" /\ cur[m_nIndex[u]] = u /\ m_nIndex[u] \in Workers
      BY <2>2, <1>3, <1>5, <1>8 DEF PlaceInv
    <3> QED BY <3>1, <1>3
  <2> QED BY <2>1, <2>2
<1> QED BY <1>6, <1>7, <1>8 DEF PlaceInv

LEMMA PlaceStep ==
  IInv /\ DrainInv /\ TicketInv /\ PlaceInv /\ [Next]_vars => PlaceInv'
<1> SUFFICES ASSUME IInv, DrainInv, TicketInv, PlaceInv, [Next]_vars PROVE PlaceInv'
  OBVIOUS
<1>a. TypeOK /\ HoldInv
  BY DEF IInv
\* Steps that move no task into or out of a queue or a worker's hands.
<1>1. ASSUME UNCHANGED <<m_queue, m_nIndex, ticket>>,
             \A t \in Tasks : phase'[t] = "queued" => phase[t] = "queued",
             \A t \in Tasks : phase'[t] = "running" => phase[t] = "running",
             \A t \in Tasks : \A w \in Workers :
               /\ phase'[t] = "running" /\ wpc[w] = "exec" /\ cur[w] = t
               => wpc'[w] = "exec" /\ cur'[w] = t
      PROVE PlaceInv'
  <2>1. \A t \in Tasks : m_nIndex[t] \in Workers
    BY <1>a DEF TypeOK
  <2> QED BY <1>1, <2>1 DEF PlaceInv
<1>2. CASE StartWorker
  <2>1. started \in Workers
    BY <1>a, <1>2 DEF StartWorker, TypeOK, Workers
  <2>2. wpc[started] = "unborn"
    BY <1>a, <2>1 DEF DrainInv, TypeOK
  <2>3. /\ UNCHANGED <<m_queue, m_nIndex, ticket, phase, cur>>
        /\ \A v \in Workers : v # started => wpc'[v] = wpc[v]
    BY <1>a, <1>2 DEF StartWorker, TypeOK
  <2> QED BY <1>1, <2>2, <2>3
<1>3. ASSUME NEW a \in Adders, NEW t \in Tasks, CallAddTask(a, t)
      PROVE PlaceInv'
  BY <1>a, <1>1, <1>3 DEF CallAddTask, TypeOK
<1>4. ASSUME NEW w \in Workers, Execute(w) PROVE PlaceInv'
  <2>1. cur[w] \in Tasks
    BY <1>a, <1>4 DEF Execute, HoldInv
  <2>2. /\ UNCHANGED <<m_queue, m_nIndex, ticket>> /\ phase'[cur[w]] = "ran"
        /\ \A t \in Tasks : t # cur[w] => phase'[t] = phase[t]
        /\ \A v \in Workers : v # w => wpc'[v] = wpc[v] /\ cur'[v] = cur[v]
    BY <1>a, <1>4, <2>1 DEF Execute, TypeOK
  <2> QED BY <1>1, <2>1, <2>2
<1>5. ASSUME NEW w \in Workers, Uncount(w) PROVE PlaceInv'
  <2>1. cur[w] \in Tasks /\ wpc[w] = "complete"
    BY <1>a, <1>5 DEF Uncount, HoldInv
  <2>2. /\ UNCHANGED <<m_queue, m_nIndex, ticket, cur>> /\ phase'[cur[w]] = "reported"
        /\ \A t \in Tasks : t # cur[w] => phase'[t] = phase[t]
        /\ \A v \in Workers : v # w => wpc'[v] = wpc[v]
    BY <1>a, <1>5, <2>1 DEF Uncount, TypeOK
  <2> QED BY <1>1, <2>1, <2>2
<1>6. ASSUME NEW w \in Workers,
             TestEnable(w) \/ NotifyOne(w) \/ CountFailure(w)
      PROVE PlaceInv'
  <2>1. /\ UNCHANGED <<m_queue, m_nIndex, ticket, phase>> /\ wpc[w] # "exec"
        /\ \A v \in Workers : v # w => wpc'[v] = wpc[v] /\ cur'[v] = cur[v]
    BY <1>a, <1>6 DEF TestEnable, NotifyOne, CountFailure, TypeOK
  <2> QED BY <1>1, <2>1
<1>7. CASE UNCHANGED <<m_queue, m_nIndex, ticket, phase, wpc, cur>>
  BY <1>1, <1>7
<1> QED
  BY <1>2, <1>3, <1>4, <1>5, <1>6, <1>7, PlacePush, PlacePop
  DEF Next, Adder, Worker, StopWorker, ResetTaskFailedCount, ChooseWorker,
      CheckLimit, Block, Relock, CountTask, SpuriousWakeup, vars

LEMMA OrderStep ==
  IInv /\ TicketInv /\ PlaceInv /\ WorkerOrder /\ [Next]_vars => WorkerOrder'
<1> SUFFICES ASSUME IInv, TicketInv, PlaceInv, WorkerOrder, [Next]_vars
             PROVE  WorkerOrder'
  OBVIOUS
<1>a. TypeOK /\ OfferInv /\ HoldInv /\ WaitingInv
  BY DEF IInv, QueueInv
<1> DEFINE Begun == {"running", "ran", "reported"}
           Over == {"ran", "reported"}
\* Steps that begin no task and take back none that is over.
<1>1. ASSUME UNCHANGED <<ticket, m_nIndex>>,
             \A t \in Tasks : phase'[t] \in Begun => phase[t] \in Begun,
             \A t \in Tasks : phase[t] \in Over => phase'[t] \in Over
      PROVE WorkerOrder'
  BY <1>1 DEF WorkerOrder
<1>2. ASSUME NEW a \in Adders, NEW t \in Tasks, CallAddTask(a, t)
      PROVE WorkerOrder'
  BY <1>a, <1>1, <1>2 DEF CallAddTask, TypeOK
<1>3. ASSUME NEW a \in Adders, Push(a) PROVE WorkerOrder'
  <2>1. arg[a] \in Tasks
    BY <1>a, <1>3 DEF Push, OfferInv
  <2>2. /\ ticket'[arg[a]] = pushes + 1 /\ phase'[arg[a]] = "queued"
        /\ \A t \in Tasks : t # arg[a] =>
             /\ m_nIndex'[t] = m_nIndex[t] /\ phase'[t] = phase[t]
             /\ ticket'[t] = ticket[t]
        /\ \A t \in Tasks : ticket[t] <= pushes /\ ticket[t] \in Nat
        /\ pushes \in Nat
    BY <1>a, <1>3, <2>1 DEF Push, TypeOK, TicketInv
  <2> QED BY <2>1, <2>2 DEF WorkerOrder
<1>4. ASSUME NEW w \in Workers, Pop(w) PROVE WorkerOrder'
  <2> DEFINE h == Head(m_queue[w])
             n == Len(m_queue[w])
  <2>1. h \in Tasks /\ phase[h] = "queued"
    BY <1>a, <1>4, HeadIsQueued
  <2>2. /\ wpc[w] = "pop" /\ phase'[h] = "running"
        /\ \A u \in Tasks : u # h => phase'[u] = phase[u]
        /\ ticket' = ticket /\ m_nIndex' = m_nIndex
    BY <1>a, <1>4, <2>1 DEF Pop, TypeOK
  <2>3. n \in Nat \ {0} /\ m_queue[w][1] = h
    BY <1>a, <1>4 DEF Pop, QueueReady, TypeOK
  <2>4. m_nIndex[h] = w
    BY <2>3 DEF PlaceInv
  <2>5. \A t \in Tasks : phase[t] \in Phase /\ ticket[t] \in Nat
    BY <1>a DEF TypeOK
  <2> HIDE DEF h, n
  <2>6. ASSUME NEW t \in Tasks, m_nIndex[t] = w, 0 < ticket[t], ticket[t] < ticket[h]
        PROVE  phase[t] \in Over
    <3>1. phase[t] # "running"
      BY <2>2, <2>6 DEF PlaceInv
    <3>2. phase[t] # "queued"
      <4> SUFFICES ASSUME phase[t] = "queued" PROVE FALSE
        OBVIOUS
      <4>1. PICK i \in 1 .. n : m_queue[w][i] = t
        BY <2>6 DEF PlaceInv, n
      <4>2. 1 \in 1 .. n /\ (i = 1 \/ 1 < i)
        BY <2>3, <4>1
      <4>3. i # 1 => ticket[m_queue[w][1]] < ticket[m_queue[w][i]]
        BY <4>1, <4>2 DEF PlaceInv, n
      <4> QED BY <4>1, <4>3, <2>3, <2>1, <2>5, <2>6
    <3> QED BY <3>1, <3>2, <2>6 DEF TicketInv
  <2> QED BY <2>1, <2>2, <2>4, <2>6 DEF WorkerOrder
<1>5. ASSUME NEW w \in Workers, Execute(w) \/ Uncount(w) PROVE WorkerOrder'
  <2>1. cur[w] \in Tasks /\ phase[cur[w]] \in {"running", "ran"}
    BY <1>a, <1>5 DEF Execute, Uncount, HoldInv
  <2>2. /\ UNCHANGED <<ticket, m_nIndex>> /\ phase'[cur[w]] \in Over
        /\ \A t \in Tasks : t # cur[w] => phase'[t] = phase[t]
    BY <1>a, <1>5, <2>1 DEF Execute, Uncount, TypeOK
  <2> QED BY <1>1, <2>1, <2>2
<1>6. CASE UNCHANGED <<ticket, m_nIndex, phase>>
  BY <1>1, <1>6
<1> QED
  BY <1>2, <1>3, <1>4, <1>5, <1>6
  DEF Next, Adder, Worker, StartWorker, StopWorker, ResetTaskFailedCount,
      ChooseWorker, CheckLimit, Block, Relock, CountTask, SpuriousWakeup,
      TestEnable, NotifyOne, CountFailure, vars

LEMMA DealtFinite ==
  ASSUME NEW w \in Workers
  PROVE  IsFiniteSet(Dealt(w)) /\ Cardinality(Dealt(w)) \in Nat
BY FS_Subset, FS_CardinalityType DEF Dealt, DealtTo, Reserved

\* A step that changes neither what is dealt nor the cursor.
LEMMA DealtSame ==
  ASSUME BalanceInv, m_nWorkerIndex' = m_nWorkerIndex,
         \A w \in Workers : Dealt(w)' = Dealt(w)
  PROVE  BalanceInv'
BY DEF BalanceInv

\* ChooseWorker(a) round robin: the next worker is dealt one more.
LEMMA BalanceChoose ==
  ASSUME IInv, TicketInv, BalanceInv, NEW a \in Adders, ChooseWorker(a),
         ~Hashed(arg[a])
  PROVE  BalanceInv'
<1>1. TypeOK /\ OfferInv /\ NextIndex \in Workers
  BY IndexType DEF IInv
<1>d. PICK d \in Workers : d = NextIndex
  BY <1>1
<1> DEFINE t == arg[a]
<1>2. /\ apc[a] = "lock" /\ apc'[a] \in Chosen /\ arg' = arg /\ dest'[a] = d
      /\ m_nWorkerIndex' = d
      /\ \A b \in Adders : b # a => apc'[b] = apc[b] /\ dest'[b] = dest[b]
      /\ UNCHANGED <<ticket, m_nIndex>>
  BY <1>1, <1>d DEF ChooseWorker, TypeOK, Chosen
<1>3. t \in Tasks /\ ~Hashed(t) /\ phase[t] = "offered"
  BY <1>1, <1>2 DEF OfferInv
<1>4. \A b \in Adders : apc[b] \in Chosen => arg[b] # t
  <2>1. apc[a] \notin {"idle", "count"} /\ apc[a] \notin Chosen
    BY <1>2 DEF Chosen
  <2>2. \A b \in Adders : apc[b] \in Chosen => apc[b] \notin {"idle", "count"}
    BY DEF Chosen
  <2> QED BY <1>1, <2>1, <2>2 DEF OfferInv
<1>5. ticket[t] = 0
  <2>1. ticket[t] \in Nat /\ ~(ticket[t] > 0)
    BY <1>1, <1>3 DEF TicketInv, TypeOK
  <2> QED BY <2>1
<1>6. \A w \in Workers : t \notin Dealt(w)
  BY <1>4, <1>5 DEF Dealt, DealtTo, Reserved
<1> HIDE DEF t
<1>7. \A w \in Workers : DealtTo(w)' = DealtTo(w)
  BY <1>2 DEF DealtTo, Hashed
<1>8. \A w \in Workers : w # d => Reserved(w)' = Reserved(w)
  <2>1. \A w \in Workers, b \in Adders : w # d =>
          (apc'[b] \in Chosen /\ dest'[b] = w <=> apc[b] \in Chosen /\ dest[b] = w)
    BY <1>2 DEF Chosen
  <2> QED BY <2>1, <1>2 DEF Reserved, Hashed, Chosen
<1>9. Reserved(d)' = Reserved(d) \cup {t}
  <2>1. ASSUME NEW u \in Tasks, u # t
        PROVE  u \in Reserved(d)' <=> u \in Reserved(d)
    <3>1. \A b \in Adders : arg[b] = u =>
            b # a /\ apc'[b] = apc[b] /\ dest'[b] = dest[b]
      BY <1>2, <2>1 DEF t
    <3> QED BY <3>1, <1>2 DEF Reserved, Hashed, Chosen
  <2>2. t \in Reserved(d)'
    BY <1>2, <1>3 DEF Reserved, Hashed, Chosen, t
  <2> QED BY <2>1, <2>2 DEF Reserved
<1>10. PICK q \in Nat : \A w \in Workers :
         Cardinality(Dealt(w)) = q + (IF 1 <= w /\ w <= m_nWorkerIndex THEN 1 ELSE 0)
  BY DEF BalanceInv
<1>11. /\ Cardinality(Dealt(d)') = Cardinality(Dealt(d)) + 1
       /\ \A w \in Workers : w # d => Cardinality(Dealt(w)') = Cardinality(Dealt(w))
  <2>1. Dealt(d)' = Dealt(d) \cup {t}
    BY <1>1, <1>7, <1>9 DEF Dealt
  <2>2. \A w \in Workers : w # d => Dealt(w)' = Dealt(w)
    BY <1>7, <1>8 DEF Dealt
  <2>3. Cardinality(Dealt(d) \cup {t}) = Cardinality(Dealt(d)) + 1
    BY <1>1, <1>6, DealtFinite, FS_AddElement
  <2> QED BY <2>1, <2>2, <2>3
<1>12. m_nWorkerIndex \in Workers /\ Workers = 0 .. WorkerCount - 1
  BY <1>1 DEF TypeOK, Workers
<1>13. CASE m_nWorkerIndex + 1 >= WorkerCount
  <2>1. d = 0 /\ m_nWorkerIndex = WorkerCount - 1
    BY <1>d, <1>12, <1>13 DEF NextIndex
  <2>2. \A w \in Workers : Cardinality(Dealt(w)') = q + 1
    BY <1>10, <1>11, <1>12, <2>1
  <2>3. \A w \in Workers :
          Cardinality(Dealt(w)') =
            (q + 1) + (IF 1 <= w /\ w <= m_nWorkerIndex' THEN 1 ELSE 0)
    BY <1>2, <1>12, <2>1, <2>2
  <2> QED BY <2>3 DEF BalanceInv
<1>14. CASE m_nWorkerIndex + 1 < WorkerCount
  <2>1. d = m_nWorkerIndex + 1
    BY <1>d, <1>12, <1>14 DEF NextIndex
  <2>2. \A w \in Workers :
          Cardinality(Dealt(w)') =
            q + (IF 1 <= w /\ w <= m_nWorkerIndex' THEN 1 ELSE 0)
    BY <1>2, <1>10, <1>11, <1>12, <2>1
  <2> QED BY <2>2 DEF BalanceInv
<1> QED BY <1>12, <1>13, <1>14

\* Push(a): a reserved task is dealt now, to the worker it was reserved for.
LEMMA DealtPush ==
  ASSUME IInv, TicketInv, NEW a \in Adders, Push(a), NEW w \in Workers
  PROVE  Dealt(w)' = Dealt(w)
<1> DEFINE t == arg[a]
<1>1. /\ TypeOK /\ OfferInv /\ t \in Tasks /\ phase[t] = "offered"
      /\ apc[a] = "push"
  BY DEF IInv, OfferInv, Push
<1>2. /\ ticket'[t] = pushes + 1 /\ pushes \in Nat /\ m_nIndex'[t] = dest[a]
      /\ \A u \in Tasks : u # t => ticket'[u] = ticket[u] /\ m_nIndex'[u] = m_nIndex[u]
      /\ arg' = arg /\ dest' = dest /\ apc'[a] = "count"
      /\ \A b \in Adders : b # a => apc'[b] = apc[b]
  BY <1>1 DEF Push, TypeOK
<1>3. ticket[t] = 0
  <2>1. ticket[t] \in Nat /\ ~(ticket[t] > 0)
    BY <1>1 DEF TicketInv, TypeOK
  <2> QED BY <2>1
<1>4. \A b \in Adders : b # a /\ apc[b] \in Chosen => arg[b] # t
  BY <1>1 DEF OfferInv, Chosen
<1>5. ASSUME NEW u \in Tasks, u # t PROVE u \in Dealt(w)' <=> u \in Dealt(w)
  <2>1. u \in DealtTo(w)' <=> u \in DealtTo(w)
    BY <1>2, <1>5 DEF DealtTo, Hashed
  <2>2. u \in Reserved(w)' <=> u \in Reserved(w)
    BY <1>2, <1>5 DEF Reserved, Hashed, Chosen
  <2> QED BY <2>1, <2>2 DEF Dealt
<1>6. t \in Dealt(w)' <=> ~Hashed(t) /\ dest[a] = w
  BY <1>1, <1>2, <1>4 DEF Dealt, DealtTo, Reserved, Hashed, Chosen
<1>7. t \in Dealt(w) <=> ~Hashed(t) /\ dest[a] = w
  BY <1>1, <1>3, <1>4 DEF Dealt, DealtTo, Reserved, Chosen
<1> QED BY <1>1, <1>5, <1>6, <1>7 DEF Dealt, DealtTo, Reserved

LEMMA BalanceStep ==
  IInv /\ TicketInv /\ BalanceInv /\ [Next]_vars => BalanceInv'
<1> SUFFICES ASSUME IInv, TicketInv, BalanceInv, [Next]_vars PROVE BalanceInv'
  OBVIOUS
<1>a. TypeOK /\ OfferInv
  BY DEF IInv
\* Steps in which no adder chooses or pushes.
<1>1. ASSUME UNCHANGED <<ticket, m_nIndex, m_nWorkerIndex>>,
             \A b \in Adders :
               \/ apc[b] \notin Chosen /\ apc'[b] \notin Chosen
               \/ /\ apc[b] \in Chosen /\ apc'[b] \in Chosen
                  /\ arg'[b] = arg[b] /\ dest'[b] = dest[b]
      PROVE BalanceInv'
  <2>1. \A w \in Workers : DealtTo(w)' = DealtTo(w)
    BY <1>1 DEF DealtTo, Hashed
  <2>2. \A w \in Workers : Reserved(w)' = Reserved(w)
    BY <1>1 DEF Reserved, Hashed, Chosen
  <2> QED BY <1>1, <2>1, <2>2, DealtSame DEF Dealt
<1>2. ASSUME NEW a \in Adders, NEW t \in Tasks, CallAddTask(a, t)
      PROVE BalanceInv'
  BY <1>a, <1>1, <1>2 DEF CallAddTask, TypeOK, Chosen
<1>3. ASSUME NEW a \in Adders, ChooseWorker(a) PROVE BalanceInv'
  <2>1. CASE ~Hashed(arg[a])
    BY <1>3, <2>1, BalanceChoose
  <2>2. CASE Hashed(arg[a])
    <3>1. /\ arg' = arg /\ UNCHANGED <<ticket, m_nIndex, m_nWorkerIndex>>
          /\ \A b \in Adders : b # a => apc'[b] = apc[b] /\ dest'[b] = dest[b]
      BY <1>a, <1>3, <2>2 DEF ChooseWorker, TypeOK
    <3>2. \A w \in Workers : DealtTo(w)' = DealtTo(w)
      BY <3>1 DEF DealtTo, Hashed
    <3>3. ASSUME NEW w \in Workers PROVE Reserved(w)' = Reserved(w)
      <4>1. \A t \in Tasks, b \in Adders :
              ~Hashed(t) /\ arg[b] = t => apc'[b] = apc[b] /\ dest'[b] = dest[b]
        BY <2>2, <3>1
      <4> QED BY <3>1, <4>1 DEF Reserved, Hashed, Chosen
    <3> QED BY <3>1, <3>2, <3>3, DealtSame DEF Dealt
  <2> QED BY <2>1, <2>2
<1>4. ASSUME NEW a \in Adders, Push(a) PROVE BalanceInv'
  <2>1. m_nWorkerIndex' = m_nWorkerIndex
    BY <1>4 DEF Push
  <2> QED BY <1>4, <2>1, DealtPush, DealtSame
<1>5. ASSUME NEW a \in Adders,
             \/ CheckLimit(a) \/ Block(a) \/ Relock(a) \/ CountTask(a)
             \/ SpuriousWakeup(a)
      PROVE BalanceInv'
  BY <1>a, <1>1, <1>5, SMTT(30)
  DEF CheckLimit, Block, Relock, CountTask, SpuriousWakeup, TypeOK, Chosen
<1>6. ASSUME NEW w \in Workers, NotifyOne(w) PROVE BalanceInv'
  BY <1>a, <1>1, <1>6 DEF NotifyOne, WakeOne, Blocked, TypeOK, Chosen
<1>7. CASE UNCHANGED <<apc, arg, dest, ticket, m_nIndex, m_nWorkerIndex>>
  BY <1>1, <1>7
<1> QED
  BY <1>2, <1>3, <1>4, <1>5, <1>6, <1>7
  DEF Next, Adder, Worker, StartWorker, StopWorker, ResetTaskFailedCount,
      TestEnable, Pop, Execute, Uncount, CountFailure, vars

-----------------------------------------------------------------------------
LEMMA OrderInit == Init => OrderIInv
<1> SUFFICES ASSUME Init PROVE OrderIInv
  OBVIOUS
<1>1. DrainInv /\ TicketInv /\ PlaceInv /\ WorkerOrder /\ KeyInv
  BY DEF Init, DrainInv, TicketInv, PlaceInv, WorkerOrder, KeyInv, Chosen
<1>2. \A w \in Workers : Dealt(w) = {}
  BY DEF Init, Dealt, DealtTo, Reserved, Chosen
<1>3. \A w \in Workers :
        Cardinality(Dealt(w)) = 0 + (IF 1 <= w /\ w <= m_nWorkerIndex THEN 1 ELSE 0)
  <2>1. Cardinality({}) = 0
    BY FS_EmptySet
  <2>2. \A w \in Workers : ~(1 <= w /\ w <= m_nWorkerIndex)
    BY DEF Init, Workers
  <2> QED BY <1>2, <2>1, <2>2, SMTT(30)
<1> QED BY <1>1, <1>3 DEF OrderIInv, BalanceInv

(* The second inductive invariant holds in every reachable state.          *)
THEOREM OrderInvariance == Spec => []OrderIInv
<1>1. IInv /\ OrderIInv /\ [Next]_vars => OrderIInv'
  <2>1. IInv => TypeOK
    BY DEF IInv
  <2> QED BY <2>1, DrainStep, TicketStep, PlaceStep, OrderStep, KeyStep, BalanceStep
          DEF OrderIInv
<1> QED BY OrderInit, Invariance, <1>1, PTL DEF Spec

(* After Worker::Stop a worker takes at most one more task from its queue, *)
(* however Stop, Run's test of m_isEnable and the pop interleave.          *)
THEOREM StopDrains == Spec => []StopDrain
<1>1. OrderIInv => StopDrain
  BY DEF OrderIInv, DrainInv, StopDrain
<1> QED BY OrderInvariance, <1>1, PTL

(* Tasks that AddTask was given with one key are executed one after        *)
(* another in the order of their pushes, for every hash function.          *)
THEOREM KeysInOrder == Spec => []KeyOrder
<1>1. OrderIInv => KeyOrder
  <2> SUFFICES ASSUME OrderIInv, NEW t1 \in Tasks, NEW t2 \in Tasks,
                      Hashed(t1), Hashed(t2), KeyOf[t1] = KeyOf[t2],
                      0 < ticket[t1], ticket[t1] < ticket[t2],
                      phase[t2] \in {"running", "ran", "reported"}
               PROVE  phase[t1] \in {"ran", "reported"}
    BY DEF KeyOrder
  <2>1. TicketInv /\ KeyInv /\ WorkerOrder
    BY DEF OrderIInv
  <2>2. ticket[t2] > 0
    BY <2>1 DEF TicketInv
  <2>3. m_nIndex[t1] = m_nIndex[t2]
    BY <2>1, <2>2 DEF KeyInv
  <2> QED BY <2>1, <2>3 DEF WorkerOrder
<1> QED BY OrderInvariance, <1>1, PTL

(* Whenever no AddTask is in progress, the numbers of tasks that two       *)
(* workers were dealt round robin differ by at most one, for any number of *)
(* workers and whatever was dispatched by key in between.                  *)
THEOREM RoundRobinIsBalanced == Spec => []Balanced
<1>1. OrderIInv => Balanced
  <2> SUFFICES ASSUME OrderIInv, \A a \in Adders : apc[a] = "idle"
               PROVE  \A v, w \in Workers :
                        Cardinality(DealtTo(v)) <= Cardinality(DealtTo(w)) + 1
    BY DEF Balanced
  <2>1. \A w \in Workers : Dealt(w) = DealtTo(w)
    BY DEF Dealt, Reserved, Chosen
  <2>2. PICK q \in Nat : \A w \in Workers :
          Cardinality(Dealt(w)) = q + (IF 1 <= w /\ w <= m_nWorkerIndex THEN 1 ELSE 0)
    BY DEF OrderIInv, BalanceInv
  <2> QED BY <2>1, <2>2
<1> QED BY OrderInvariance, <1>1, PTL
=============================================================================
