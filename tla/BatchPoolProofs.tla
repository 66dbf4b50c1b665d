-------------------------- MODULE BatchPoolProofs --------------------------
(***************************************************************************)
(* Theorems about BatchPool, for any number of clients, workers and tasks, *)
(* any batch size, limit and word size, and any hash function.             *)
(***************************************************************************)
EXTENDS BatchPool, WordArith, FiniteSetTheorems, SequenceTheorems

USE WorkerCountAssumption, WordAssumption, MaxAssumption, TasksAssumption,
    BatchAssumption
USE DEF addVars, poolVars, batchVars, Goto

LEMMA LimitType == Limit \in 0 .. Word - 1
<1>1. WorkerMaxTaskCount * WorkerCount \in Int /\ Word \in Nat /\ Word > 0
  OBVIOUS
<1> QED BY <1>1, DivMod DEF Limit

LEMMA IndexType == TypeOK => NextIndex \in Workers
BY DEF TypeOK, NextIndex, Workers

LEMMA HashType == ASSUME NEW h \in Int PROVE HashIndex(h) \in Workers
<1>1. Word \in Nat /\ Word > 0
  OBVIOUS
<1>2. h % Word \in 0 .. Word - 1
  BY <1>1, DivMod
<1> QED BY <1>2 DEF HashIndex, Workers

LEMMA MaxBatchType == MaxBatch \in Nat \ {0}
BY DEF MaxBatch

\* notify_one wakes one blocked client or finds none.
LEMMA NotifyOneStep ==
  ASSUME TypeOK, cpc' \in NotifyOne(cpc, "blocked", "woken")
  PROVE  /\ cpc' \in [Clients -> CPC]
         /\ \A c \in Clients :
              \/ cpc'[c] = cpc[c]
              \/ cpc[c] = "blocked" /\ cpc'[c] = "woken"
<1>1. cpc \in [Clients -> CPC] /\ "woken" \in CPC
  BY DEF TypeOK, CPC
<1>2. CASE BlockedAt(cpc, "blocked") = {}
  BY <1>1, <1>2 DEF NotifyOne
<1>3. CASE BlockedAt(cpc, "blocked") # {}
  <2>1. PICK t \in BlockedAt(cpc, "blocked") : cpc' = [cpc EXCEPT ![t] = "woken"]
    BY <1>3 DEF NotifyOne
  <2>2. t \in Clients /\ cpc[t] = "blocked"
    BY <1>1, <2>1 DEF BlockedAt
  <2> QED BY <1>1, <2>1, <2>2
<1> QED BY <1>2, <1>3

\* One turn of the loop of Handle.
LEMMA GatherFact ==
  ASSUME TypeOK, NEW w \in Workers, NEW timeUp \in BOOLEAN, Gather(w, timeUp)
  PROVE  /\ wpc[w] = "gather" /\ wpc'[w] \in {"gather", "execute"}
         /\ wpc'[w] = "gather" => Len(list'[w]) < MaxBatch
         /\ \A v \in Workers : v # w =>
              wpc'[v] = wpc[v] /\ list'[v] = list[v] /\ m_queue'[v] = m_queue[v]
         /\ \/ m_queue[w] = <<>> /\ m_queue'[w] = <<>> /\ list'[w] = list[w]
            \/ /\ m_queue[w] # <<>>
               /\ m_queue'[w] = Tail(m_queue[w])
               /\ list'[w] = Append(list[w], Head(m_queue[w]))
         /\ m_queue' \in [Workers -> Seq(Tasks)]
         /\ list' \in [Workers -> Seq(Tasks)]
         /\ wpc' \in [Workers -> WPC]
<1> DEFINE new == IF m_queue[w] # <<>> THEN Append(list[w], Head(m_queue[w]))
                  ELSE list[w]
<1>1. m_queue[w] \in Seq(Tasks) /\ list[w] \in Seq(Tasks)
  BY DEF TypeOK
<1>2. new \in Seq(Tasks)
  BY <1>1
<1>3. m_queue[w] # <<>> => Tail(m_queue[w]) \in Seq(Tasks)
  BY <1>1
<1>4. /\ list' = [list EXCEPT ![w] = new]
      /\ wpc' = [wpc EXCEPT ![w] =
                   IF GoesOn(timeUp, Len(new)) THEN "gather" ELSE "execute"]
      /\ wpc[w] = "gather"
  BY DEF Gather
<1>5. m_queue' = IF m_queue[w] # <<>> THEN [m_queue EXCEPT ![w] = Tail(m_queue[w])]
                 ELSE m_queue
  BY DEF Gather
<1>6. list'[w] = new /\ list' \in [Workers -> Seq(Tasks)]
  BY <1>2, <1>4 DEF TypeOK
<1>7. wpc'[w] \in {"gather", "execute"} /\ (wpc'[w] = "gather" => Len(new) < MaxBatch)
  BY <1>4 DEF TypeOK, GoesOn
<1>8. /\ m_queue' \in [Workers -> Seq(Tasks)]
      /\ m_queue[w] # <<>> => m_queue'[w] = Tail(m_queue[w])
      /\ m_queue[w] = <<>> => m_queue' = m_queue
      /\ \A v \in Workers : v # w => m_queue'[v] = m_queue[v]
  BY <1>3, <1>5 DEF TypeOK
<1>9. /\ \A v \in Workers : v # w => wpc'[v] = wpc[v] /\ list'[v] = list[v]
      /\ wpc' \in [Workers -> WPC]
  BY <1>4 DEF TypeOK, WPC
<1> QED BY <1>4, <1>6, <1>7, <1>8, <1>9

LEMMA TypeInit == Init => TypeOK
<1> SUFFICES ASSUME Init PROVE TypeOK
  OBVIOUS
<1>1. 0 \in Workers /\ 0 \in 0 .. Word - 1 /\ 0 \in 0 .. WorkerCount
  BY DEF Workers
<1>2. <<>> \in Seq(Tasks)
  OBVIOUS
<1> QED BY <1>1, <1>2 DEF Init, TypeOK, CPC, WPC, Phase

LEMMA TypeStep == IInv /\ [Next]_vars => TypeOK'
<1> SUFFICES ASSUME IInv, [Next]_vars PROVE TypeOK'
  OBVIOUS
<1>a. TypeOK /\ OfferInv
  BY DEF IInv
<1>b. Word \in Nat /\ Word > 0 /\ 0 \in Workers
  BY DEF Workers
<1>c. "new" \in Phase /\ "offered" \in Phase /\ "counted" \in Phase
        /\ "queued" \in Phase /\ "ran" \in Phase
  BY DEF Phase
<1>d. /\ cpc \in [Clients -> CPC] /\ phase \in [Tasks -> Phase]
      /\ wpc \in [Workers -> WPC] /\ completed \in [Workers -> Nat]
      /\ late \in [Workers -> Nat] /\ m_nTaskCount \in Int
      /\ started \in 0 .. WorkerCount /\ stopping \in 0 .. WorkerCount
  BY <1>a DEF TypeOK
<1>e. /\ list \in [Workers -> Seq(Tasks)] /\ executed \in [Workers -> Seq(Tasks)]
      /\ m_queue \in [Workers -> Seq(Tasks)] /\ pushed \in [Workers -> Seq(Tasks)]
  BY <1>a DEF TypeOK
<1>f. m_isEnable \in [Workers -> BOOLEAN] /\ missed \in [Clients -> BOOLEAN]
  BY <1>a DEF TypeOK
<1>1. CASE EnableMaxTaskCount
  BY <1>a, <1>1 DEF TypeOK, EnableMaxTaskCount
<1>2. CASE StartWorker
  <2>1. started \in Workers /\ started + 1 \in 0 .. WorkerCount
    BY <1>d, <1>2 DEF StartWorker, Workers
  <2>2. m_isEnable' \in [Workers -> BOOLEAN] /\ wpc' \in [Workers -> WPC]
    BY <1>d, <1>f, <1>2, <2>1 DEF StartWorker, WPC
  <2> QED BY <1>a, <1>2, <2>1, <2>2 DEF TypeOK, StartWorker
<1>3. CASE StopWorker
  <2>1. m_isEnable' \in [Workers -> BOOLEAN] /\ stopping' \in 0 .. WorkerCount
    BY <1>d, <1>f, <1>3 DEF StopWorker, Workers
  <2> QED BY <1>a, <1>3, <2>1 DEF TypeOK, StopWorker
<1>4. ASSUME NEW c \in Clients, NEW t \in Tasks, NEW h \in Hashes \cup {None},
             CallAddTask(c, t, h)
      PROVE TypeOK'
  <2>1. cpc' \in [Clients -> CPC] /\ phase' \in [Tasks -> Phase]
    BY <1>d, <1>c, <1>4 DEF CallAddTask, CPC
  <2> QED BY <1>a, <1>4, <2>1 DEF TypeOK, CallAddTask
<1>5. ASSUME NEW c \in Clients, ChooseWorker(c) PROVE TypeOK'
  <2>1. NextIndex \in Workers
    BY <1>a, IndexType
  <2>2. hash[c] # None => HashIndex(hash[c]) \in Workers
    BY <1>a, HashType DEF TypeOK
  <2>3. CASE hash[c] = None
    <3>1. m_nWorkerIndex' = NextIndex /\ dest' = [dest EXCEPT ![c] = NextIndex]
      BY <1>5, <2>3 DEF ChooseWorker
    <3>2. cpc' \in [Clients -> CPC]
      BY <1>d, <1>5 DEF ChooseWorker, CPC
    <3> QED BY <1>a, <1>5, <2>1, <3>1, <3>2 DEF TypeOK, ChooseWorker
  <2>4. CASE hash[c] # None
    <3>1. m_nWorkerIndex' = m_nWorkerIndex
            /\ dest' = [dest EXCEPT ![c] = HashIndex(hash[c])]
      BY <1>5, <2>4 DEF ChooseWorker
    <3>2. cpc' \in [Clients -> CPC]
      BY <1>d, <1>5 DEF ChooseWorker, CPC
    <3> QED BY <1>a, <1>5, <2>2, <2>4, <3>1, <3>2 DEF TypeOK, ChooseWorker
  <2> QED BY <2>3, <2>4
<1>6. ASSUME NEW c \in Clients,
             CheckLimit(c) \/ Block(c) \/ Relock(c) \/ SpuriousWakeup(c)
      PROVE TypeOK'
  <2>1. cpc' \in [Clients -> CPC]
    BY <1>d, <1>6 DEF CheckLimit, Block, Relock, SpuriousWakeup, CPC
  <2> QED BY <1>a, <1>6, <2>1 DEF TypeOK, CheckLimit, Block, Relock, SpuriousWakeup
<1>7. ASSUME NEW c \in Clients, CountTask(c) PROVE TypeOK'
  <2>1. m_nTaskCount' \in 0 .. Word - 1
    BY <1>d, <1>b, <1>7, DivMod DEF CountTask
  <2>2. cpc' \in [Clients -> CPC] /\ phase' \in [Tasks -> Phase]
    BY <1>d, <1>c, <1>7 DEF CountTask, CPC
  <2> QED BY <1>a, <1>7, <2>1, <2>2 DEF TypeOK, CountTask
<1>8. ASSUME NEW c \in Clients, Push(c) PROVE TypeOK'
  <2>1. arg[c] \in Tasks /\ dest[c] \in Workers
    BY <1>a, <1>8 DEF Push, OfferInv, TypeOK
  <2>2. m_queue' \in [Workers -> Seq(Tasks)]
    BY <1>e, <1>8, <2>1 DEF Push
  <2>3. pushed' \in [Workers -> Seq(Tasks)]
    BY <1>e, <1>8, <2>1 DEF Push
  <2>4. cpc' \in [Clients -> CPC] /\ phase' \in [Tasks -> Phase]
    BY <1>d, <1>c, <1>8, <2>1 DEF Push, CPC
  <2>5. missed' \in [Clients -> BOOLEAN]
    BY <1>f, <1>8 DEF Push
  <2> QED BY <1>a, <1>b, <1>8, <2>2, <2>3, <2>4, <2>5 DEF TypeOK, Push
<1>9. ASSUME NEW w \in Workers, TestEnable(w) \/ TestQueue(w) PROVE TypeOK'
  <2>1. wpc' \in [Workers -> WPC] /\ late' \in [Workers -> Nat]
    <3>1. CASE TestEnable(w)
      BY <1>d, <3>1 DEF TestEnable, WPC
    <3>2. CASE TestQueue(w)
      BY <1>d, <3>2 DEF TestQueue, WPC
    <3> QED BY <1>9, <3>1, <3>2
  <2> QED BY <1>a, <1>9, <2>1 DEF TypeOK, TestEnable, TestQueue
<1>10. ASSUME NEW w \in Workers, NEW timeUp \in BOOLEAN, Gather(w, timeUp)
       PROVE TypeOK'
  <2>1. /\ list' \in [Workers -> Seq(Tasks)] /\ m_queue' \in [Workers -> Seq(Tasks)]
        /\ wpc' \in [Workers -> WPC]
    BY <1>a, <1>10, GatherFact
  <2> QED BY <1>a, <1>10, <2>1 DEF TypeOK, Gather
<1>11. ASSUME NEW w \in Workers, ExecuteBatch(w) PROVE TypeOK'
  <2>1. executed' \in [Workers -> Seq(Tasks)]
    <3>1. executed[w] \o list[w] \in Seq(Tasks)
      BY <1>e
    <3> QED BY <1>e, <1>11, <3>1 DEF ExecuteBatch
  <2>2. phase' \in [Tasks -> Phase]
    BY <1>d, <1>c, <1>11 DEF ExecuteBatch
  <2>3. list' \in [Workers -> Seq(Tasks)]
    <3>1. list' = list \/ list' = [list EXCEPT ![w] = <<>>]
      BY <1>11 DEF ExecuteBatch
    <3>2. <<>> \in Seq(Tasks)
      OBVIOUS
    <3> QED BY <1>e, <3>1, <3>2
  <2>4. wpc' \in [Workers -> WPC]
    BY <1>d, <1>11 DEF ExecuteBatch, WPC
  <2> QED BY <1>a, <1>11, <2>1, <2>2, <2>3, <2>4 DEF TypeOK, ExecuteBatch
<1>12. ASSUME NEW w \in Workers, Uncount(w) PROVE TypeOK'
  <2>1. m_nTaskCount' \in 0 .. Word - 1
    BY <1>d, <1>b, <1>12, DivMod DEF Uncount
  <2>2. wpc' \in [Workers -> WPC] /\ completed' \in [Workers -> Nat]
    BY <1>d, <1>12 DEF Uncount, WPC
  <2> QED BY <1>a, <1>12, <2>1, <2>2 DEF TypeOK, Uncount
<1>13. ASSUME NEW w \in Workers, NotifyAdder(w) PROVE TypeOK'
  <2>1. list' \in [Workers -> Seq(Tasks)]
    <3>1. list' = list \/ list' = [list EXCEPT ![w] = <<>>]
      BY <1>13 DEF NotifyAdder
    <3>2. <<>> \in Seq(Tasks)
      OBVIOUS
    <3> QED BY <1>e, <3>1, <3>2
  <2>2. cpc' \in [Clients -> CPC]
    BY <1>a, <1>13, NotifyOneStep DEF NotifyAdder
  <2>3. wpc' \in [Workers -> WPC] /\ completed' \in [Workers -> Nat]
    <3>1. /\ completed' = completed \/ completed' = [completed EXCEPT ![w] = 0]
          /\ \/ wpc' = [wpc EXCEPT ![w] = "complete"]
             \/ wpc' = [wpc EXCEPT ![w] = "run"]
      BY <1>13 DEF NotifyAdder
    <3> QED BY <1>d, <3>1 DEF WPC
  <2>4. missed' \in [Clients -> BOOLEAN]
    BY <1>f, <1>13, Zenon DEF NotifyAdder
  <2> QED BY <1>a, <1>13, <2>1, <2>2, <2>3, <2>4 DEF TypeOK, NotifyAdder
<1>14. CASE UNCHANGED vars
  BY <1>a, <1>14 DEF TypeOK, vars
<1> QED
  BY <1>1, <1>2, <1>3, <1>4, <1>5, <1>6, <1>7, <1>8, <1>9, <1>10, <1>11, <1>12,
     <1>13, <1>14 DEF Next, Client, Worker

LEMMA MutexStep == IInv /\ [Next]_vars => MutexInv'
<1> SUFFICES ASSUME IInv, [Next]_vars PROVE MutexInv'
  OBVIOUS
<1>a. /\ cpc \in [Clients -> CPC] /\ MutexInv
      /\ m_mutex \in Clients \cup {None}
  BY DEF IInv, TypeOK
<1> USE DEF MutexInv
<1>1. ASSUME NEW c \in Clients, NEW t \in Tasks, NEW h \in Hashes \cup {None},
             CallAddTask(c, t, h)
      PROVE MutexInv'
  BY <1>a, <1>1 DEF CallAddTask
<1>2. ASSUME NEW c \in Clients, Client(c) \/ SpuriousWakeup(c) PROVE MutexInv'
  <2>1. CASE ChooseWorker(c)
    BY <1>a, <2>1 DEF ChooseWorker
  <2>2. CASE CheckLimit(c)
    BY <1>a, <2>2 DEF CheckLimit
  <2>3. CASE CountTask(c) \/ SpuriousWakeup(c)
    BY <1>a, <2>3 DEF CountTask, SpuriousWakeup
  <2>4. CASE Block(c) \/ Push(c)
    BY <1>a, <2>4 DEF Block, Push
  <2>5. CASE Relock(c)
    BY <1>a, <2>5 DEF Relock
  <2> QED BY <1>2, <2>1, <2>2, <2>3, <2>4, <2>5 DEF Client
<1>3. ASSUME NEW w \in Workers, NotifyAdder(w) PROVE MutexInv'
  <2>1. m_mutex' = m_mutex /\ cpc' \in NotifyOne(cpc, "blocked", "woken")
    BY <1>3 DEF NotifyAdder
  <2>2. \A c \in Clients :
          \/ cpc'[c] = cpc[c]
          \/ cpc[c] = "blocked" /\ cpc'[c] = "woken"
    BY <2>1, NotifyOneStep DEF IInv
  <2> QED BY <1>a, <2>1, <2>2
<1>4. CASE UNCHANGED <<m_mutex, cpc>>
  BY <1>a, <1>4
<1> QED
  BY <1>1, <1>2, <1>3, <1>4
  DEF Next, Worker, EnableMaxTaskCount, StartWorker, StopWorker, TestEnable,
      TestQueue, Gather, ExecuteBatch, Uncount, vars

-----------------------------------------------------------------------------
(* Who has which task.                                                     *)

\* Before Start has returned nobody is in AddTask and no worker has a task.
LEMMA NotStarted ==
  ASSUME IInv, started < WorkerCount
  PROVE  /\ \A c \in Clients : cpc[c] = "idle"
         /\ \A w \in Workers : list[w] = <<>> /\ m_queue[w] = <<>>
<1>1. \A t \in Tasks : phase[t] = "new"
  BY DEF IInv, StartInv
<1>2. ASSUME NEW c \in Clients PROVE cpc[c] = "idle"
  BY <1>1 DEF IInv, OfferInv
<1>3. ASSUME NEW w \in Workers PROVE list[w] = <<>> /\ m_queue[w] = <<>>
  <2>1. list[w] \in Seq(Tasks) /\ m_queue[w] \in Seq(Tasks)
    BY DEF IInv, TypeOK
  <2>2. CASE list[w] # <<>>
    <3>1. 1 \in 1 .. Len(list[w]) /\ list[w][1] \in Tasks
      BY <2>1, <2>2
    <3>2. phase[list[w][1]] \in {"ran", "queued"}
      BY <3>1 DEF IInv, PhaseInv
    <3> QED BY <1>1, <3>1, <3>2
  <2>3. CASE m_queue[w] # <<>>
    <3>1. 1 \in 1 .. Len(m_queue[w]) /\ m_queue[w][1] \in Tasks
      BY <2>1, <2>3
    <3>2. phase[m_queue[w][1]] = "queued"
      BY <3>1 DEF IInv, PhaseInv
    <3> QED BY <1>1, <3>1, <3>2
  <2> QED BY <2>2, <2>3
<1> QED BY <1>2, <1>3

LEMMA StartStep == IInv /\ [Next]_vars => StartInv'
<1> SUFFICES ASSUME IInv, [Next]_vars PROVE StartInv'
  OBVIOUS
<1>a. StartInv /\ started \in 0 .. WorkerCount
  BY DEF IInv, TypeOK
<1>1. CASE StartWorker
  BY <1>a, <1>1 DEF StartWorker, StartInv
<1>2. ASSUME NEW c \in Clients, NEW t \in Tasks, NEW h \in Hashes \cup {None},
             CallAddTask(c, t, h)
      PROVE StartInv'
  BY <1>a, <1>2 DEF CallAddTask, StartInv
<1>3. ASSUME NEW c \in Clients, CountTask(c) \/ Push(c) PROVE StartInv'
  <2>1. started' = started /\ cpc[c] # "idle"
    BY <1>3 DEF CountTask, Push
  <2>2. started = WorkerCount
    BY <1>a, <2>1, NotStarted
  <2> QED BY <2>1, <2>2 DEF StartInv
<1>4. ASSUME NEW w \in Workers, ExecuteBatch(w) \/ Uncount(w) PROVE StartInv'
  <2>1. started' = started /\ wpc[w] \in {"execute", "complete"}
    BY <1>4 DEF ExecuteBatch, Uncount
  <2>2. Len(list[w]) \in 1 .. MaxBatch
    BY <2>1 DEF IInv, BatchInv
  <2>3. list[w] # <<>>
    BY <2>2, MaxBatchType
  <2>4. started = WorkerCount
    BY <1>a, <2>3, NotStarted
  <2> QED BY <2>1, <2>4 DEF StartInv
<1>5. CASE UNCHANGED <<started, m_nTaskCount, phase>>
  BY <1>a, <1>5 DEF StartInv
<1> QED
  BY <1>1, <1>2, <1>3, <1>4, <1>5
  DEF Next, Client, Worker, EnableMaxTaskCount, StopWorker, ChooseWorker,
      CheckLimit, Block, Relock, SpuriousWakeup, TestEnable, TestQueue, Gather,
      NotifyAdder, vars

LEMMA OfferStep == IInv /\ [Next]_vars => OfferInv'
<1> SUFFICES ASSUME IInv, [Next]_vars PROVE OfferInv'
  OBVIOUS
<1>a. /\ cpc \in [Clients -> CPC] /\ phase \in [Tasks -> Phase]
      /\ arg \in [Clients -> Tasks \cup {None}] /\ OfferInv
  BY DEF IInv, TypeOK
<1>b. \A c \in Clients : cpc[c] # "idle" => phase[arg[c]] \in {"offered", "counted"}
  BY <1>a DEF OfferInv
<1>1. CASE EnableMaxTaskCount
  <2>1. \A c \in Clients : cpc[c] = "idle"
    BY <1>1, NotStarted DEF EnableMaxTaskCount
  <2> QED BY <1>a, <1>1, <2>1 DEF EnableMaxTaskCount, OfferInv
<1>2. ASSUME NEW c \in Clients, NEW t \in Tasks, NEW h \in Hashes \cup {None},
             CallAddTask(c, t, h)
      PROVE OfferInv'
  <2>1. \A d \in Clients : cpc[d] # "idle" => arg[d] # t
    BY <1>b, <1>2 DEF CallAddTask
  <2>2. /\ cpc' = [cpc EXCEPT ![c] = "lock"] /\ arg' = [arg EXCEPT ![c] = t]
        /\ phase' = [phase EXCEPT ![t] = "offered"]
        /\ UNCHANGED m_isEnableMaxTaskCount
    BY <1>2 DEF CallAddTask
  <2> QED BY <1>a, <2>1, <2>2 DEF OfferInv
<1>3. ASSUME NEW c \in Clients, ChooseWorker(c) PROVE OfferInv'
  <2>1. /\ cpc[c] = "lock" /\ UNCHANGED <<arg, phase, m_isEnableMaxTaskCount>>
        /\ cpc' = [cpc EXCEPT ![c] = IF m_isEnableMaxTaskCount THEN "check" ELSE "push"]
    BY <1>3 DEF ChooseWorker
  <2> QED BY <1>a, <2>1 DEF OfferInv
<1>4. ASSUME NEW c \in Clients,
             CheckLimit(c) \/ Block(c) \/ Relock(c) \/ SpuriousWakeup(c)
      PROVE OfferInv'
  <2>1. /\ cpc[c] \in {"check", "sleep", "blocked", "woken"}
        /\ UNCHANGED <<arg, phase, m_isEnableMaxTaskCount>>
        /\ \E l \in {"check", "sleep", "blocked", "woken", "count"} :
             cpc' = [cpc EXCEPT ![c] = l]
    BY <1>4 DEF CheckLimit, Block, Relock, SpuriousWakeup
  <2> QED BY <1>a, <2>1 DEF OfferInv
<1>5. ASSUME NEW c \in Clients, CountTask(c) PROVE OfferInv'
  <2>1. /\ cpc[c] = "count" /\ UNCHANGED <<arg, m_isEnableMaxTaskCount>>
        /\ cpc' = [cpc EXCEPT ![c] = "push"]
        /\ phase' = [phase EXCEPT ![arg[c]] = "counted"]
    BY <1>5 DEF CountTask
  <2> QED BY <1>a, <2>1 DEF OfferInv
<1>6. ASSUME NEW c \in Clients, Push(c) PROVE OfferInv'
  <2>1. /\ cpc[c] = "push" /\ UNCHANGED m_isEnableMaxTaskCount
        /\ cpc' = [cpc EXCEPT ![c] = "idle"] /\ arg' = [arg EXCEPT ![c] = None]
        /\ phase' = [phase EXCEPT ![arg[c]] = "queued"]
    BY <1>6 DEF Push
  <2> QED BY <1>a, <2>1 DEF OfferInv
<1>7. ASSUME NEW w \in Workers, ExecuteBatch(w) PROVE OfferInv'
  <2>1. /\ UNCHANGED <<cpc, arg, m_isEnableMaxTaskCount>>
        /\ wpc[w] = "execute"
        /\ phase' = [t \in Tasks |->
                       IF \E i \in 1 .. Len(list[w]) : list[w][i] = t
                       THEN "ran" ELSE phase[t]]
    BY <1>7 DEF ExecuteBatch
  <2>2. \A i \in 1 .. Len(list[w]) : phase[list[w][i]] = "queued"
    BY <2>1 DEF IInv, PhaseInv
  <2>3. \A c \in Clients : cpc[c] # "idle" => phase'[arg[c]] = phase[arg[c]]
    BY <1>a, <1>b, <2>1, <2>2 DEF OfferInv
  <2> QED BY <1>a, <2>1, <2>3 DEF OfferInv
<1>8. ASSUME NEW w \in Workers, NotifyAdder(w) PROVE OfferInv'
  <2>1. UNCHANGED <<arg, phase, m_isEnableMaxTaskCount>>
    BY <1>8 DEF NotifyAdder
  <2>2. \A c \in Clients :
          \/ cpc'[c] = cpc[c]
          \/ cpc[c] = "blocked" /\ cpc'[c] = "woken"
    BY <1>8, NotifyOneStep DEF IInv, NotifyAdder
  <2> QED BY <1>a, <2>1, <2>2 DEF OfferInv
<1>9. CASE UNCHANGED <<cpc, arg, phase, m_isEnableMaxTaskCount>>
  BY <1>a, <1>9 DEF OfferInv
<1> QED
  BY <1>1, <1>2, <1>3, <1>4, <1>5, <1>6, <1>7, <1>8, <1>9
  DEF Next, Client, Worker, StartWorker, StopWorker, TestEnable, TestQueue,
      Gather, Uncount, vars

\* Taking the head of q to the end of p leaves p \o q as it was.
LEMMA MoveHead ==
  ASSUME NEW p \in Seq(Tasks), NEW q \in Seq(Tasks), q # <<>>
  PROVE  Append(p, Head(q)) \o Tail(q) = p \o q
<1>1. Head(q) \in Tasks /\ Tail(q) \in Seq(Tasks) /\ <<Head(q)>> \in Seq(Tasks)
  BY HeadTailProperties
<1>2. Append(p, Head(q)) = p \o <<Head(q)>>
  BY <1>1, AppendIsConcat
<1>3. <<Head(q)>> \o Tail(q) = q
  BY <1>1, SMTT(30)
<1>4. (p \o <<Head(q)>>) \o Tail(q) = p \o (<<Head(q)>> \o Tail(q))
  BY <1>1, ConcatAssociative
<1> QED BY <1>2, <1>3, <1>4

\* Appending to q appends to p \o q.
LEMMA ConcatAppend ==
  ASSUME NEW p \in Seq(Tasks), NEW q \in Seq(Tasks), NEW t \in Tasks
  PROVE  p \o Append(q, t) = Append(p \o q, t)
<1>1. <<t>> \in Seq(Tasks) /\ p \o q \in Seq(Tasks)
  BY ConcatProperties
<1>2. Append(q, t) = q \o <<t>> /\ Append(p \o q, t) = (p \o q) \o <<t>>
  BY <1>1, AppendIsConcat
<1>3. p \o (q \o <<t>>) = (p \o q) \o <<t>>
  BY <1>1, ConcatAssociative
<1> QED BY <1>2, <1>3

\* The places of p \o q: first those of p, then those of q.
LEMMA ConcatPlaces ==
  ASSUME NEW p \in Seq(Tasks), NEW q \in Seq(Tasks)
  PROVE  /\ p \o q \in Seq(Tasks) /\ Len(p \o q) = Len(p) + Len(q)
         /\ \A i \in 1 .. Len(p) : i \in 1 .. Len(p \o q) /\ (p \o q)[i] = p[i]
         /\ \A i \in 1 .. Len(q) : /\ i + Len(p) \in 1 .. Len(p \o q)
                                   /\ (p \o q)[i + Len(p)] = q[i]
         /\ \A i \in 1 .. Len(p \o q) :
              \/ i \in 1 .. Len(p)
              \/ \E j \in 1 .. Len(q) : i = j + Len(p)
<1>1. PICK r \in Seq(Tasks) : r = p \o q
  BY ConcatProperties
<1>2. PICK m \in Nat, n \in Nat : m = Len(p) /\ n = Len(q)
  OBVIOUS
<1>3. Len(r) = m + n
  BY <1>1, <1>2, ConcatProperties
<1>4. \A i \in 1 .. m + n : r[i] = IF i <= m THEN p[i] ELSE q[i - m]
  BY <1>1, <1>2, ConcatProperties
<1>5. \A i \in 1 .. m : i \in 1 .. m + n /\ r[i] = p[i]
  BY <1>2, <1>4
<1>6. ASSUME NEW i \in 1 .. n PROVE i + m \in 1 .. m + n /\ r[i + m] = q[i]
  <2>1. PICK k \in 1 .. m + n : k = i + m
    BY <1>2
  <2>2. ~(k <= m) /\ k - m = i
    BY <1>2, <2>1
  <2>3. r[k] = q[k - m]
    BY <1>4, <2>2
  <2>4. r[i + m] = q[i]
    BY <2>1, <2>2, <2>3, Zenon
  <2> QED BY <2>1, <2>4
<1>7. ASSUME NEW i \in 1 .. m + n
      PROVE i \in 1 .. m \/ \E j \in 1 .. n : i = j + m
  <2>1. CASE i <= m
    BY <1>2, <2>1
  <2>2. CASE i > m
    <3>1. i - m \in 1 .. n /\ i = (i - m) + m
      BY <1>2, <2>2
    <3> QED BY <3>1
  <2> QED BY <1>2, <2>1, <2>2
<1> QED BY <1>1, <1>2, <1>3, <1>5, <1>6, <1>7

\* The places of a worker: first its batch, then its queue.
LEMMA HeldFact ==
  ASSUME TypeOK, NEW w \in Workers
  PROVE  /\ Held(w) \in Seq(Tasks)
         /\ \A i \in 1 .. Len(list[w]) :
              i \in 1 .. Len(Held(w)) /\ Held(w)[i] = list[w][i]
         /\ \A i \in 1 .. Len(m_queue[w]) :
              /\ i + Len(list[w]) \in 1 .. Len(Held(w))
              /\ Held(w)[i + Len(list[w])] = m_queue[w][i]
         /\ \A i \in 1 .. Len(Held(w)) :
              \/ i \in 1 .. Len(list[w])
              \/ \E j \in 1 .. Len(m_queue[w]) : i = j + Len(list[w])
<1>1. list[w] \in Seq(Tasks) /\ m_queue[w] \in Seq(Tasks)
  BY DEF TypeOK
<1> QED BY <1>1, ConcatPlaces DEF Held

\* A task that a worker has was pushed.
LEMMA HeldPhase ==
  ASSUME TypeOK, PhaseInv, NEW w \in Workers, NEW i \in 1 .. Len(Held(w))
  PROVE  Held(w)[i] \in Tasks /\ phase[Held(w)[i]] \in {"queued", "ran"}
<1>1. Held(w)[i] \in Tasks
  <2>1. Held(w) \in Seq(Tasks)
    BY HeldFact
  <2> QED BY <2>1
<1>2. CASE i \in 1 .. Len(list[w])
  <2>1. Held(w)[i] = list[w][i]
    BY <1>2, HeldFact
  <2> QED BY <1>1, <1>2, <2>1 DEF PhaseInv
<1>3. ASSUME NEW j \in 1 .. Len(m_queue[w]), i = j + Len(list[w])
      PROVE phase[Held(w)[i]] = "queued"
  <2>1. Held(w)[i] = m_queue[w][j]
    BY <1>3, HeldFact
  <2> QED BY <1>3, <2>1 DEF PhaseInv
<1>4. i \in 1 .. Len(list[w]) \/ \E j \in 1 .. Len(m_queue[w]) : i = j + Len(list[w])
  BY HeldFact
<1> QED BY <1>1, <1>2, <1>3, <1>4

\* A worker that only loses tasks from the front keeps the others apart.
LEMMA DistinctSub ==
  ASSUME DistinctInv, NEW off \in [Workers -> Nat],
         \A w \in Workers : \A i \in 1 .. Len(Held(w))' :
           i + off[w] \in 1 .. Len(Held(w)) /\ Held(w)'[i] = Held(w)[i + off[w]]
  PROVE  DistinctInv'
<1> SUFFICES ASSUME NEW v \in Workers, NEW w \in Workers,
                    NEW i \in 1 .. Len(Held(v))', NEW j \in 1 .. Len(Held(w))',
                    Held(v)'[i] = Held(w)'[j]
             PROVE v = w /\ i = j
  BY DEF DistinctInv
<1>1. /\ i + off[v] \in 1 .. Len(Held(v)) /\ j + off[w] \in 1 .. Len(Held(w))
      /\ Held(v)[i + off[v]] = Held(w)[j + off[w]]
  OBVIOUS
<1>2. v = w /\ i + off[v] = j + off[w]
  BY <1>1 DEF DistinctInv
<1>3. off[v] \in Nat /\ i \in Int /\ j \in Int
  OBVIOUS
<1> QED BY <1>2, <1>3

\* The steps of a worker that move or drop tasks, place by place.
LEMMA HeldStep ==
  ASSUME IInv, [Next]_vars, \A c \in Clients : ~ Push(c)
  PROVE  \E off \in [Workers -> Nat] :
           \A w \in Workers : \A i \in 1 .. Len(Held(w))' :
             i + off[w] \in 1 .. Len(Held(w)) /\ Held(w)'[i] = Held(w)[i + off[w]]
<1>a. TypeOK /\ TypeOK'
  BY TypeStep DEF IInv
<1>b. \A w \in Workers : /\ list[w] \in Seq(Tasks) /\ m_queue[w] \in Seq(Tasks)
                         /\ Held(w) \in Seq(Tasks)
  BY <1>a, HeldFact DEF TypeOK
<1>1. CASE \A w \in Workers : Held(w)' = Held(w)
  <2> DEFINE z == [w \in Workers |-> 0]
  <2>1. z \in [Workers -> Nat]
    OBVIOUS
  <2>2. \A w \in Workers : \A i \in 1 .. Len(Held(w))' :
             i + z[w] \in 1 .. Len(Held(w)) /\ Held(w)'[i] = Held(w)[i + z[w]]
    BY <1>1
  <2> QED BY <2>1, <2>2
<1>2. ASSUME NEW w \in Workers, UNCHANGED m_queue, list' = [list EXCEPT ![w] = <<>>]
      PROVE \E off \in [Workers -> Nat] :
              \A v \in Workers : \A i \in 1 .. Len(Held(v))' :
                i + off[v] \in 1 .. Len(Held(v)) /\ Held(v)'[i] = Held(v)[i + off[v]]
  <2> DEFINE z == [v \in Workers |-> IF v = w THEN Len(list[w]) ELSE 0]
  <2>1. z \in [Workers -> Nat]
    BY <1>b
  <2>2. ASSUME NEW v \in Workers, NEW i \in 1 .. Len(Held(v))'
        PROVE i + z[v] \in 1 .. Len(Held(v)) /\ Held(v)'[i] = Held(v)[i + z[v]]
    <3>1. CASE v = w
      <4>1. Held(v)' = m_queue[w]
        <5>1. list'[w] = <<>> /\ m_queue'[w] = m_queue[w]
          BY <1>a, <1>2 DEF TypeOK
        <5> QED BY <1>b, <3>1, <5>1 DEF Held
      <4>2. i \in 1 .. Len(m_queue[w])
        BY <4>1
      <4>3. /\ i + Len(list[w]) \in 1 .. Len(Held(w))
            /\ Held(w)[i + Len(list[w])] = m_queue[w][i]
        BY <1>a, <4>2, HeldFact
      <4>4. z[v] = Len(list[w])
        BY <3>1
      <4> QED BY <3>1, <4>1, <4>3, <4>4
    <3>2. CASE v # w
      <4>1. Held(v)' = Held(v)
        BY <1>a, <1>2, <3>2 DEF Held, TypeOK
      <4> QED BY <1>b, <3>2, <4>1
    <3> QED BY <3>1, <3>2
  <2> QED BY <2>1, <2>2
<1>3. ASSUME NEW w \in Workers, NEW timeUp \in BOOLEAN, Gather(w, timeUp)
      PROVE \A v \in Workers : Held(v)' = Held(v)
  <2>1. ASSUME NEW v \in Workers, v # w PROVE Held(v)' = Held(v)
    BY <1>a, <1>3, <2>1, GatherFact DEF Held
  <2>2. Held(w)' = Held(w)
    <3>1. CASE m_queue[w] = <<>>
      <4>1. m_queue'[w] = m_queue[w] /\ list'[w] = list[w]
        BY <1>a, <1>3, <3>1, GatherFact
      <4> QED BY <4>1 DEF Held
    <3>2. CASE m_queue[w] # <<>>
      <4>1. /\ m_queue'[w] = Tail(m_queue[w])
            /\ list'[w] = Append(list[w], Head(m_queue[w]))
        BY <1>a, <1>3, <3>2, GatherFact
      <4> QED BY <1>b, <3>2, <4>1, MoveHead DEF Held
    <3> QED BY <3>1, <3>2
  <2> QED BY <2>1, <2>2
<1>4. CASE UNCHANGED <<list, m_queue>>
  BY <1>1, <1>4 DEF Held
<1>5. ASSUME NEW w \in Workers, ExecuteBatch(w) \/ NotifyAdder(w)
      PROVE UNCHANGED <<list, m_queue>>
              \/ (UNCHANGED m_queue /\ list' = [list EXCEPT ![w] = <<>>])
  BY <1>5 DEF ExecuteBatch, NotifyAdder
<1>6. CASE \E w \in Workers : ExecuteBatch(w) \/ NotifyAdder(w)
  BY <1>2, <1>4, <1>5, <1>6
<1>7. CASE \E w \in Workers, timeUp \in BOOLEAN : Gather(w, timeUp)
  BY <1>1, <1>3, <1>7
<1> QED
  BY <1>4, <1>6, <1>7
  DEF Next, Client, Worker, EnableMaxTaskCount, StartWorker, StopWorker,
      CallAddTask, ChooseWorker, CheckLimit, Block, Relock, SpuriousWakeup,
      CountTask, TestEnable, TestQueue, Uncount, vars

\* The push puts the client's task behind what the worker has.
LEMMA HeldPush ==
  ASSUME IInv, NEW c \in Clients, Push(c)
  PROVE  /\ arg[c] \in Tasks /\ dest[c] \in Workers
         /\ \A w \in Workers :
              Held(w)' = IF w = dest[c] THEN Append(Held(w), arg[c]) ELSE Held(w)
<1>1. arg[c] \in Tasks /\ dest[c] \in Workers
  BY DEF IInv, OfferInv, TypeOK, Push
<1>2. /\ list' = list
      /\ \A w \in Workers :
           m_queue'[w] = IF w = dest[c] THEN Append(m_queue[w], arg[c]) ELSE m_queue[w]
  BY <1>1 DEF IInv, TypeOK, Push
<1>3. ASSUME NEW w \in Workers
      PROVE  Held(w)' = IF w = dest[c] THEN Append(Held(w), arg[c]) ELSE Held(w)
  <2>1. list[w] \in Seq(Tasks) /\ m_queue[w] \in Seq(Tasks)
    BY DEF IInv, TypeOK
  <2>2. list[w] \o Append(m_queue[w], arg[c]) = Append(list[w] \o m_queue[w], arg[c])
    BY <1>1, <2>1, ConcatAppend
  <2> QED BY <1>2, <2>2 DEF Held
<1> QED BY <1>1, <1>3

LEMMA DistinctStep == IInv /\ [Next]_vars => DistinctInv'
<1> SUFFICES ASSUME IInv, [Next]_vars PROVE DistinctInv'
  OBVIOUS
<1>a. TypeOK /\ PhaseInv /\ DistinctInv
  BY DEF IInv
<1>1. ASSUME NEW c \in Clients, Push(c) PROVE DistinctInv'
  <2>1. /\ arg[c] \in Tasks /\ dest[c] \in Workers
        /\ \A w \in Workers :
             Held(w)' = IF w = dest[c] THEN Append(Held(w), arg[c]) ELSE Held(w)
    BY <1>1, HeldPush
  <2>2. \A w \in Workers : \A i \in 1 .. Len(Held(w)) : Held(w)[i] # arg[c]
    <3>1. phase[arg[c]] \in {"offered", "counted"}
      BY <1>1 DEF Push, IInv, OfferInv
    <3> QED BY <1>a, <3>1, HeldPhase
  <2>3. ASSUME NEW w \in Workers, NEW i \in 1 .. Len(Held(w))'
        PROVE \/ i \in 1 .. Len(Held(w)) /\ Held(w)'[i] = Held(w)[i]
              \/ w = dest[c] /\ i = Len(Held(w)) + 1 /\ Held(w)'[i] = arg[c]
    <3>1. PICK s \in Seq(Tasks) : s = Held(w)
      BY <1>a, HeldFact
    <3>2. CASE w = dest[c]
      <4>1. Held(w)' = Append(s, arg[c])
        BY <2>1, <3>1, <3>2
      <4>2. i \in 1 .. Len(s) + 1
        BY <2>1, <4>1
      <4>3. CASE i \in 1 .. Len(s)
        BY <2>1, <3>1, <4>1, <4>3
      <4>4. CASE i = Len(s) + 1
        BY <2>1, <3>1, <3>2, <4>1, <4>4
      <4> QED BY <4>2, <4>3, <4>4
    <3>3. CASE w # dest[c]
      BY <2>1, <3>3
    <3> QED BY <3>2, <3>3
  <2> SUFFICES ASSUME NEW v \in Workers, NEW w \in Workers,
                      NEW i \in 1 .. Len(Held(v))', NEW j \in 1 .. Len(Held(w))',
                      Held(v)'[i] = Held(w)'[j]
               PROVE v = w /\ i = j
    BY DEF DistinctInv
  <2>4. CASE i \in 1 .. Len(Held(v)) /\ Held(v)'[i] = Held(v)[i]
    <3>1. j \in 1 .. Len(Held(w)) /\ Held(w)'[j] = Held(w)[j]
      BY <2>2, <2>3, <2>4
    <3>2. Held(v)[i] = Held(w)[j]
      BY <2>4, <3>1
    <3> QED BY <1>a, <2>4, <3>1, <3>2 DEF DistinctInv
  <2>5. CASE v = dest[c] /\ i = Len(Held(v)) + 1 /\ Held(v)'[i] = arg[c]
    <3>1. w = dest[c] /\ j = Len(Held(w)) + 1
      BY <2>2, <2>3, <2>5
    <3> QED BY <2>5, <3>1
  <2> QED BY <2>3, <2>4, <2>5
<1>2. CASE \A c \in Clients : ~ Push(c)
  BY <1>a, <1>2, HeldStep, DistinctSub
<1> QED BY <1>1, <1>2

LEMMA PhaseStep == IInv /\ [Next]_vars => PhaseInv'
<1> SUFFICES ASSUME IInv, [Next]_vars PROVE PhaseInv'
  OBVIOUS
<1>a. /\ TypeOK /\ PhaseInv /\ DistinctInv
      /\ phase \in [Tasks -> Phase] /\ wpc \in [Workers -> WPC]
  BY DEF IInv, TypeOK
<1>b. ASSUME NEW w \in Workers
      PROVE /\ list[w] \in Seq(Tasks) /\ m_queue[w] \in Seq(Tasks)
            /\ \A i \in 1 .. Len(list[w]) : list[w][i] \in Tasks
            /\ \A i \in 1 .. Len(m_queue[w]) : m_queue[w][i] \in Tasks
  <2>1. list[w] \in Seq(Tasks) /\ m_queue[w] \in Seq(Tasks)
    BY <1>a DEF TypeOK
  <2> QED BY <2>1
<1>c. ASSUME NEW x \in Tasks, phase[x] \notin {"queued", "ran"}, NEW w \in Workers
      PROVE /\ \A i \in 1 .. Len(list[w]) : list[w][i] # x
            /\ \A i \in 1 .. Len(m_queue[w]) : m_queue[w][i] # x
  BY <1>a, <1>c DEF PhaseInv
<1>1. ASSUME NEW x \in Tasks, NEW y \in Phase, phase[x] \notin {"queued", "ran"},
             phase' = [phase EXCEPT ![x] = y], UNCHANGED <<list, m_queue, wpc>>
      PROVE PhaseInv'
  BY <1>a, <1>b, <1>c, <1>1 DEF PhaseInv
<1>2. ASSUME NEW c \in Clients, NEW t \in Tasks, NEW h \in Hashes \cup {None},
             CallAddTask(c, t, h)
      PROVE PhaseInv'
  <2>1. /\ phase[t] = "new" /\ phase' = [phase EXCEPT ![t] = "offered"]
        /\ UNCHANGED <<list, m_queue, wpc>>
    BY <1>2 DEF CallAddTask
  <2> QED BY <1>1, <2>1 DEF Phase
<1>3. ASSUME NEW c \in Clients, CountTask(c) PROVE PhaseInv'
  <2>1. /\ phase' = [phase EXCEPT ![arg[c]] = "counted"]
        /\ UNCHANGED <<list, m_queue, wpc>> /\ cpc[c] = "count"
    BY <1>3 DEF CountTask
  <2>2. arg[c] \in Tasks /\ phase[arg[c]] = "offered"
    BY <2>1 DEF IInv, OfferInv
  <2> QED BY <1>1, <2>1, <2>2 DEF Phase
<1>4. ASSUME NEW c \in Clients, Push(c) PROVE PhaseInv'
  <2>1. /\ phase' = [phase EXCEPT ![arg[c]] = "queued"]
        /\ UNCHANGED <<list, wpc>> /\ cpc[c] = "push"
        /\ m_queue' = [m_queue EXCEPT ![dest[c]] = Append(m_queue[dest[c]], arg[c])]
    BY <1>4 DEF Push
  <2>2. /\ arg[c] \in Tasks /\ phase[arg[c]] \in {"offered", "counted"}
        /\ dest[c] \in Workers /\ m_queue \in [Workers -> Seq(Tasks)]
    BY <2>1 DEF IInv, OfferInv, TypeOK
  <2>3. ASSUME NEW w \in Workers, NEW i \in 1 .. Len(m_queue'[w])
        PROVE phase'[m_queue'[w][i]] = "queued"
    <3>1. CASE w = dest[c]
      <4>1. m_queue'[w] = Append(m_queue[w], arg[c])
        BY <2>1, <2>2, <3>1
      <4>2. CASE i = Len(m_queue[w]) + 1
        <5>1. m_queue'[w][i] = arg[c]
          BY <1>b, <2>2, <4>1, <4>2
        <5> QED BY <1>a, <2>1, <2>2, <5>1
      <4>3. CASE i \in 1 .. Len(m_queue[w])
        <5>1. m_queue'[w][i] = m_queue[w][i]
          BY <1>b, <2>2, <4>1, <4>3
        <5>2. m_queue[w][i] # arg[c] /\ phase[m_queue[w][i]] = "queued"
          BY <1>a, <1>c, <2>2, <4>3 DEF PhaseInv
        <5> QED BY <1>a, <1>b, <2>1, <4>3, <5>1, <5>2
      <4>4. i \in 1 .. Len(m_queue[w]) + 1
        BY <1>b, <2>2, <4>1
      <4> QED BY <1>b, <4>2, <4>3, <4>4
    <3>2. CASE w # dest[c]
      <4>1. m_queue'[w] = m_queue[w]
        BY <2>1, <2>2, <3>2
      <4>2. m_queue[w][i] # arg[c] /\ phase[m_queue[w][i]] = "queued"
        BY <1>a, <1>c, <2>2, <4>1 DEF PhaseInv
      <4> QED BY <1>a, <1>b, <2>1, <4>1, <4>2
    <3> QED BY <3>1, <3>2
  <2>4. ASSUME NEW w \in Workers, NEW i \in 1 .. Len(list[w])
        PROVE phase'[list[w][i]] = phase[list[w][i]]
    BY <1>a, <1>b, <1>c, <2>1, <2>2
  <2> QED BY <1>a, <2>1, <2>3, <2>4 DEF PhaseInv
<1>5. ASSUME NEW w \in Workers, NEW timeUp \in BOOLEAN, Gather(w, timeUp)
      PROVE PhaseInv'
  <2>1. phase' = phase
    BY <1>5 DEF Gather
  <2>2. /\ wpc[w] = "gather" /\ wpc'[w] \in {"gather", "execute"}
        /\ \A v \in Workers : v # w =>
             wpc'[v] = wpc[v] /\ list'[v] = list[v] /\ m_queue'[v] = m_queue[v]
    BY <1>a, <1>5, GatherFact
  <2>3. /\ \A i \in 1 .. Len(m_queue'[w]) : phase[m_queue'[w][i]] = "queued"
        /\ \A i \in 1 .. Len(list'[w]) : phase[list'[w][i]] = "queued"
    <3>1. /\ \A i \in 1 .. Len(m_queue[w]) : phase[m_queue[w][i]] = "queued"
          /\ \A i \in 1 .. Len(list[w]) : phase[list[w][i]] = "queued"
      BY <1>a, <2>2 DEF PhaseInv
    <3>2. CASE m_queue[w] = <<>>
      <4>1. m_queue'[w] = m_queue[w] /\ list'[w] = list[w]
        BY <1>a, <1>5, <3>2, GatherFact
      <4> QED BY <3>1, <4>1
    <3>3. CASE m_queue[w] # <<>>
      <4>1. /\ m_queue'[w] = Tail(m_queue[w])
            /\ list'[w] = Append(list[w], Head(m_queue[w]))
        BY <1>a, <1>5, <3>3, GatherFact
      <4>2. PICK p \in Seq(Tasks), q \in Seq(Tasks) : p = list[w] /\ q = m_queue[w]
        BY <1>b
      <4>3. Head(q) = q[1] /\ 1 \in 1 .. Len(q) /\ Head(q) \in Tasks
        BY <3>3, <4>2
      <4>4. \A i \in 1 .. Len(Tail(q)) : i + 1 \in 1 .. Len(q) /\ Tail(q)[i] = q[i + 1]
        BY <3>3, <4>2
      <4>5. \A i \in 1 .. Len(Append(p, Head(q))) :
              \/ i \in 1 .. Len(p) /\ Append(p, Head(q))[i] = p[i]
              \/ Append(p, Head(q))[i] = Head(q)
        BY <4>3
      <4>6. \A i \in 1 .. Len(Tail(q)) : phase[Tail(q)[i]] = "queued"
        BY <3>1, <4>2, <4>4
      <4>7. \A i \in 1 .. Len(Append(p, Head(q))) : phase[Append(p, Head(q))[i]] = "queued"
        BY <3>1, <4>2, <4>3, <4>5
      <4> QED BY <4>1, <4>2, <4>6, <4>7
    <3> QED BY <3>2, <3>3
  <2> QED BY <1>a, <2>1, <2>2, <2>3 DEF PhaseInv
<1>6. ASSUME NEW w \in Workers, ExecuteBatch(w) PROVE PhaseInv'
  <2>1. /\ m_queue' = m_queue
        /\ phase' = [t \in Tasks |->
                       IF \E i \in 1 .. Len(list[w]) : list[w][i] = t
                       THEN "ran" ELSE phase[t]]
        /\ \/ list' = list /\ wpc' = [wpc EXCEPT ![w] = "complete"]
           \/ list' = [list EXCEPT ![w] = <<>>] /\ wpc' = [wpc EXCEPT ![w] = "run"]
    BY <1>6 DEF ExecuteBatch
  <2>2. ASSUME NEW v \in Workers, NEW j \in 1 .. Len(m_queue[v])
        PROVE phase'[m_queue[v][j]] = "queued"
    <3>1. ASSUME NEW i \in 1 .. Len(list[w]), list[w][i] = m_queue[v][j] PROVE FALSE
      <4>1. i \in 1 .. Len(Held(w)) /\ Held(w)[i] = list[w][i]
        BY <1>a, HeldFact
      <4>2. /\ j + Len(list[v]) \in 1 .. Len(Held(v))
            /\ Held(v)[j + Len(list[v])] = m_queue[v][j]
        BY <1>a, HeldFact
      <4>3. w = v /\ i = j + Len(list[v])
        BY <1>a, <3>1, <4>1, <4>2 DEF DistinctInv
      <4> QED BY <1>b, <4>3
    <3> QED BY <1>a, <1>b, <2>1, <3>1 DEF PhaseInv
  <2>3. ASSUME NEW v \in Workers, v # w, NEW j \in 1 .. Len(list[v])
        PROVE phase'[list[v][j]] = phase[list[v][j]]
    <3>1. ASSUME NEW i \in 1 .. Len(list[w]), list[w][i] = list[v][j] PROVE FALSE
      <4>1. i \in 1 .. Len(Held(w)) /\ Held(w)[i] = list[w][i]
        BY <1>a, HeldFact
      <4>2. j \in 1 .. Len(Held(v)) /\ Held(v)[j] = list[v][j]
        BY <1>a, HeldFact
      <4> QED BY <1>a, <2>3, <3>1, <4>1, <4>2 DEF DistinctInv
    <3> QED BY <1>b, <2>1, <3>1
  <2>4. \A j \in 1 .. Len(list[w]) : phase'[list[w][j]] = "ran"
    BY <1>b, <2>1
  <2>q. \A v \in Workers : \A j \in 1 .. Len(m_queue'[v]) :
          phase'[m_queue'[v][j]] = "queued"
    BY <2>1, <2>2
  <2>5. CASE list' = list /\ wpc' = [wpc EXCEPT ![w] = "complete"]
    <3>1. /\ wpc'[w] = "complete" /\ list' = list
          /\ \A v \in Workers : v # w => wpc'[v] = wpc[v]
      BY <1>a, <2>5
    <3>2. ASSUME NEW v \in Workers, v # w, NEW j \in 1 .. Len(list[v])
          PROVE phase'[list[v][j]] =
                  IF wpc'[v] \in {"complete", "notify"} THEN "ran" ELSE "queued"
      BY <1>a, <2>3, <3>1, <3>2 DEF PhaseInv
    <3>3. ASSUME NEW v \in Workers, NEW j \in 1 .. Len(list'[v])
          PROVE phase'[list'[v][j]] =
                  IF wpc'[v] \in {"complete", "notify"} THEN "ran" ELSE "queued"
      BY <2>4, <3>1, <3>2
    <3> QED BY <2>q, <3>3 DEF PhaseInv
  <2>6. CASE list' = [list EXCEPT ![w] = <<>>] /\ wpc' = [wpc EXCEPT ![w] = "run"]
    <3>1. /\ Len(list'[w]) = 0
          /\ \A v \in Workers : v # w => list'[v] = list[v] /\ wpc'[v] = wpc[v]
      BY <1>a, <2>6 DEF TypeOK
    <3>2. ASSUME NEW v \in Workers, v # w, NEW j \in 1 .. Len(list[v])
          PROVE phase'[list[v][j]] =
                  IF wpc'[v] \in {"complete", "notify"} THEN "ran" ELSE "queued"
      BY <1>a, <2>3, <3>1, <3>2 DEF PhaseInv
    <3>3. \A i \in 1 .. Len(list'[w]) : FALSE
      BY <3>1
    <3>4. ASSUME NEW v \in Workers, NEW j \in 1 .. Len(list'[v])
          PROVE phase'[list'[v][j]] =
                  IF wpc'[v] \in {"complete", "notify"} THEN "ran" ELSE "queued"
      BY <3>1, <3>2, <3>3
    <3> QED BY <2>q, <3>4 DEF PhaseInv
  <2> QED BY <2>1, <2>5, <2>6
<1>7. ASSUME UNCHANGED <<phase, m_queue>>,
             \A w \in Workers :
               \/ Len(list'[w]) = 0
               \/ /\ list'[w] = list[w]
                  /\ wpc'[w] \in {"complete", "notify"} <=> wpc[w] \in {"complete", "notify"}
      PROVE PhaseInv'
  BY <1>a, <1>7 DEF PhaseInv
<1>8. ASSUME NEW w \in Workers,
             TestEnable(w) \/ TestQueue(w) \/ Uncount(w) \/ NotifyAdder(w)
      PROVE PhaseInv'
  <2>1. /\ UNCHANGED <<phase, m_queue>>
        /\ list' = list \/ list' = [list EXCEPT ![w] = <<>>]
    BY <1>8 DEF TestEnable, TestQueue, Uncount, NotifyAdder
  <2>2. /\ \A v \in Workers : v # w => wpc'[v] = wpc[v] /\ list'[v] = list[v]
        /\ \/ Len(list'[w]) = 0
           \/ /\ list'[w] = list[w]
              /\ wpc'[w] \in {"complete", "notify"} <=> wpc[w] \in {"complete", "notify"}
    <3>a. list \in [Workers -> Seq(Tasks)] /\ wpc \in [Workers -> WPC]
      BY <1>a DEF TypeOK
    <3>1. CASE TestEnable(w)
      BY <3>a, <3>1 DEF TestEnable
    <3>2. CASE TestQueue(w)
      BY <3>a, <3>2 DEF TestQueue
    <3>3. CASE Uncount(w)
      BY <3>a, <3>3 DEF Uncount
    <3>4. CASE NotifyAdder(w)
      BY <3>a, <3>4 DEF NotifyAdder
    <3> QED BY <1>8, <3>1, <3>2, <3>3, <3>4
  <2> QED BY <1>7, <2>1, <2>2
<1>9. CASE StartWorker
  <2>1. /\ UNCHANGED <<phase, m_queue, list>> /\ wpc' = [wpc EXCEPT ![started] = "run"]
        /\ wpc[started] = "unborn" /\ started \in Workers
    <3>1. DrainInv /\ started \in Workers
      BY <1>a, <1>9 DEF StartWorker, IInv, TypeOK, Workers
    <3> QED BY <1>9, <3>1 DEF StartWorker, DrainInv, Workers
  <2> QED BY <1>a, <1>7, <2>1
<1>10. CASE UNCHANGED <<phase, m_queue, list, wpc>>
  BY <1>7, <1>10
<1> QED
  BY <1>2, <1>3, <1>4, <1>5, <1>6, <1>8, <1>9, <1>10
  DEF Next, Client, Worker, EnableMaxTaskCount, StopWorker, ChooseWorker,
      CheckLimit, Block, Relock, SpuriousWakeup, vars

-----------------------------------------------------------------------------
(* The batches of a worker.                                                *)

LEMMA BatchStep == IInv /\ [Next]_vars => BatchInv'
<1> SUFFICES ASSUME IInv, [Next]_vars PROVE BatchInv'
  OBVIOUS
<1>a. /\ TypeOK /\ BatchInv /\ wpc \in [Workers -> WPC] /\ MaxBatch \in Nat \ {0}
      /\ completed \in [Workers -> Nat] /\ list \in [Workers -> Seq(Tasks)]
  BY MaxBatchType DEF IInv, TypeOK
<1> DEFINE B(v) ==
      /\ wpc[v] \in {"unborn", "run", "test", "closed"} => list[v] = <<>>
      /\ wpc[v] = "gather" =>
           Len(list[v]) < MaxBatch /\ (list[v] # <<>> \/ m_queue[v] # <<>>)
      /\ wpc[v] \in {"execute", "complete", "notify"} =>
           Len(list[v]) \in 1 .. MaxBatch
      /\ wpc[v] = "complete" => completed[v] < Len(list[v])
      /\ wpc[v] = "notify" => completed[v] <= Len(list[v])
      /\ wpc[v] \notin {"complete", "notify"} => completed[v] = 0
<1>b. \A v \in Workers : B(v)
  BY <1>a DEF BatchInv
<1>c. ASSUME \A v \in Workers : B(v)' PROVE BatchInv'
  BY <1>c DEF BatchInv
<1>d. ASSUME NEW v \in Workers, wpc'[v] = wpc[v], list'[v] = list[v],
             completed'[v] = completed[v],
             m_queue'[v] = m_queue[v] \/ m_queue'[v] # <<>>
      PROVE  B(v)'
  BY <1>b, <1>d
<1>e. ASSUME UNCHANGED <<wpc, list, completed, m_queue>> PROVE BatchInv'
  BY <1>c, <1>d, <1>e
<1> HIDE DEF B
<1>1. CASE StartWorker
  <2>1. /\ started \in Workers /\ wpc[started] = "unborn"
        /\ UNCHANGED <<m_queue, list, completed>>
        /\ wpc' = [wpc EXCEPT ![started] = "run"]
    BY <1>1 DEF StartWorker, IInv, DrainInv, TypeOK, Workers
  <2>2. ASSUME NEW v \in Workers PROVE B(v)'
    <3>1. CASE v = started
      <4>1. /\ wpc[v] = "unborn" /\ wpc'[v] = "run" /\ list'[v] = list[v]
            /\ completed'[v] = completed[v]
        BY <1>a, <2>1, <3>1
      <4> QED BY <1>b, <4>1 DEF B
    <3>2. CASE v # started
      BY <1>a, <1>d, <2>1, <3>2
    <3> QED BY <3>1, <3>2
  <2> QED BY <1>c, <2>2
<1>2. ASSUME NEW c \in Clients, Push(c) PROVE BatchInv'
  <2>1. UNCHANGED <<wpc, list, completed>>
    BY <1>2 DEF Push
  <2>2. /\ arg[c] \in Tasks /\ dest[c] \in Workers
        /\ m_queue \in [Workers -> Seq(Tasks)]
        /\ m_queue' = [m_queue EXCEPT ![dest[c]] = Append(m_queue[dest[c]], arg[c])]
    BY <1>2 DEF Push, IInv, OfferInv, TypeOK
  <2>3. ASSUME NEW v \in Workers
        PROVE m_queue'[v] = m_queue[v] \/ m_queue'[v] # <<>>
    <3>1. m_queue[v] \in Seq(Tasks) /\ Append(m_queue[v], arg[c]) # <<>>
      BY <2>2, AppendProperties
    <3> QED BY <2>2, <3>1
  <2> QED BY <1>c, <1>d, <2>1, <2>3
<1>3. ASSUME NEW w \in Workers, NEW timeUp \in BOOLEAN, Gather(w, timeUp)
      PROVE BatchInv'
  <2>1. completed' = completed
    BY <1>3 DEF Gather
  <2>2. ASSUME NEW v \in Workers, v # w PROVE B(v)'
    BY <1>a, <1>3, <1>d, <2>1, <2>2, GatherFact
  <2>3. B(w)'
    <3>1. /\ wpc[w] = "gather" /\ wpc'[w] \in {"gather", "execute"}
          /\ wpc'[w] = "gather" => Len(list'[w]) < MaxBatch
      BY <1>a, <1>3, GatherFact
    <3>2. /\ Len(list[w]) < MaxBatch /\ (list[w] # <<>> \/ m_queue[w] # <<>>)
          /\ completed[w] = 0
      BY <1>b, <3>1 DEF B
    <3>3. list[w] \in Seq(Tasks) /\ m_queue[w] \in Seq(Tasks)
      BY <1>a DEF TypeOK
    <3>4. list'[w] # <<>> /\ Len(list'[w]) \in 1 .. MaxBatch
      <4>1. CASE m_queue[w] = <<>>
        <5>1. list'[w] = list[w]
          BY <1>a, <1>3, <4>1, GatherFact
        <5> QED BY <1>a, <3>2, <3>3, <4>1, <5>1
      <4>2. CASE m_queue[w] # <<>>
        <5>1. list'[w] = Append(list[w], Head(m_queue[w]))
          BY <1>a, <1>3, <4>2, GatherFact
        <5>2. Head(m_queue[w]) \in Tasks
          BY <3>3, <4>2
        <5>3. list'[w] # <<>> /\ Len(list'[w]) = Len(list[w]) + 1
          BY <3>3, <5>1, <5>2, AppendProperties
        <5>4. Len(list[w]) \in Nat
          BY <3>3
        <5> QED BY <1>a, <3>2, <5>3, <5>4
      <4> QED BY <4>1, <4>2
    <3> QED BY <2>1, <3>1, <3>2, <3>4 DEF B
  <2> QED BY <1>c, <2>2, <2>3
<1>4. ASSUME NEW w \in Workers,
             \/ TestEnable(w) \/ TestQueue(w)
             \/ ExecuteBatch(w) \/ Uncount(w) \/ NotifyAdder(w)
      PROVE BatchInv'
  <2>1. m_queue' = m_queue
    BY <1>4 DEF TestEnable, TestQueue, ExecuteBatch, Uncount, NotifyAdder
  <2>2. ASSUME NEW v \in Workers, v # w PROVE B(v)'
    <3>1. wpc'[v] = wpc[v] /\ list'[v] = list[v] /\ completed'[v] = completed[v]
      BY <1>a, <1>4, <2>2
      DEF TestEnable, TestQueue, ExecuteBatch, Uncount, NotifyAdder
    <3> QED BY <1>d, <2>1, <3>1
  <2>3. CASE TestEnable(w)
    <3>1. /\ wpc[w] = "run" /\ wpc'[w] \in {"test", "closed"}
          /\ list'[w] = list[w] /\ completed'[w] = completed[w]
      BY <1>a, <2>3 DEF TestEnable
    <3>2. B(w)'
      BY <1>b, <3>1 DEF B
    <3> QED BY <1>c, <2>2, <3>2
  <2>4. CASE TestQueue(w)
    <3>1. /\ wpc[w] = "test" /\ list'[w] = list[w] /\ completed'[w] = completed[w]
          /\ wpc'[w] = IF m_queue[w] = <<>> THEN "run" ELSE "gather"
      BY <1>a, <2>4 DEF TestQueue
    <3>2. list[w] = <<>> /\ completed[w] = 0
      BY <1>b, <3>1 DEF B
    <3>3. B(w)'
      BY <1>a, <2>1, <3>1, <3>2 DEF B
    <3> QED BY <1>c, <2>2, <3>3
  <2>5. CASE ExecuteBatch(w)
    <3>1. /\ wpc[w] = "execute" /\ completed'[w] = completed[w]
          /\ \/ wpc'[w] = "complete" /\ list'[w] = list[w]
             \/ wpc'[w] = "run" /\ list'[w] = <<>>
      BY <1>a, <2>5 DEF ExecuteBatch
    <3>2. completed[w] = 0 /\ Len(list[w]) \in 1 .. MaxBatch
      BY <1>b, <3>1 DEF B
    <3>3. B(w)'
      BY <3>1, <3>2 DEF B
    <3> QED BY <1>c, <2>2, <3>3
  <2>6. CASE Uncount(w)
    <3>1. /\ wpc[w] = "complete" /\ completed'[w] = completed[w] + 1
          /\ wpc'[w] = "notify" /\ list'[w] = list[w]
      BY <1>a, <2>6 DEF Uncount
    <3>2. completed[w] < Len(list[w]) /\ Len(list[w]) \in 1 .. MaxBatch
      BY <1>b, <3>1 DEF B
    <3>3. B(w)'
      BY <1>a, <3>1, <3>2 DEF B
    <3> QED BY <1>c, <2>2, <3>3
  <2>7. CASE NotifyAdder(w)
    <3>1. /\ wpc[w] = "notify"
          /\ \/ /\ completed[w] < Len(list[w]) /\ wpc'[w] = "complete"
                /\ list'[w] = list[w] /\ completed'[w] = completed[w]
             \/ wpc'[w] = "run" /\ list'[w] = <<>> /\ completed'[w] = 0
      BY <1>a, <2>7 DEF NotifyAdder, MoreToComplete
    <3>2. Len(list[w]) \in 1 .. MaxBatch
      BY <1>b, <3>1 DEF B
    <3>3. B(w)'
      BY <3>1, <3>2 DEF B
    <3> QED BY <1>c, <2>2, <3>3
  <2> QED BY <1>4, <2>3, <2>4, <2>5, <2>6, <2>7
<1> QED
  BY <1>1, <1>2, <1>3, <1>4, <1>e
  DEF Next, Client, Worker, EnableMaxTaskCount, StopWorker, CallAddTask,
      ChooseWorker, CheckLimit, Block, Relock, SpuriousWakeup, CountTask, vars

LEMMA DrainStep == IInv /\ [Next]_vars => DrainInv'
<1> SUFFICES ASSUME IInv, [Next]_vars PROVE DrainInv'
  OBVIOUS
<1>a. /\ TypeOK /\ DrainInv /\ wpc \in [Workers -> WPC] /\ late \in [Workers -> Nat]
      /\ m_isEnable \in [Workers -> BOOLEAN] /\ started \in 0 .. WorkerCount
  BY DEF IInv, TypeOK
<1> USE DEF DrainInv
<1>1. CASE StartWorker
  <2>1. started \in Workers /\ started' = started + 1 /\ UNCHANGED late
    BY <1>a, <1>1 DEF StartWorker, Workers
  <2>2. late[started] = 0
    BY <1>a, <2>1 DEF Workers
  <2>3. /\ wpc' = [wpc EXCEPT ![started] = "run"]
        /\ m_isEnable' = [m_isEnable EXCEPT ![started] = TRUE]
    BY <1>1 DEF StartWorker
  <2> QED BY <1>a, <2>1, <2>2, <2>3 DEF Workers
<1>2. CASE StopWorker
  <2>1. \A w \in Workers : m_isEnable'[w] => m_isEnable[w]
    BY <1>a, <1>2 DEF StopWorker
  <2>2. UNCHANGED <<started, wpc, late>>
    BY <1>2 DEF StopWorker
  <2> QED BY <1>a, <2>1, <2>2
<1>3. ASSUME NEW w \in Workers, TestEnable(w) PROVE DrainInv'
  <2>1. /\ wpc[w] = "run" /\ UNCHANGED <<started, m_isEnable, late>>
        /\ wpc' = [wpc EXCEPT ![w] = IF m_isEnable[w] THEN "test" ELSE "closed"]
    BY <1>3 DEF TestEnable
  <2> QED BY <1>a, <2>1
<1>4. ASSUME NEW w \in Workers, TestQueue(w) PROVE DrainInv'
  <2>1. /\ wpc[w] = "test" /\ UNCHANGED <<started, m_isEnable>>
        /\ wpc'[w] \in {"run", "gather"} /\ (late'[w] = late[w]
             \/ (~m_isEnable[w] /\ late'[w] = late[w] + 1))
        /\ \A v \in Workers : v # w => wpc'[v] = wpc[v] /\ late'[v] = late[v]
    BY <1>a, <1>4 DEF TestQueue
  <2>2. late[w] = 0
    BY <1>a, <2>1
  <2> QED BY <1>a, <2>1, <2>2
<1>5. ASSUME NEW w \in Workers, wpc[w] # "unborn",
             wpc'[w] \notin {"unborn", "test"},
             \A v \in Workers : v # w => wpc'[v] = wpc[v],
             UNCHANGED <<started, m_isEnable, late>>
      PROVE DrainInv'
  BY <1>a, <1>5 DEF Workers
<1>6. ASSUME NEW w \in Workers, NEW timeUp \in BOOLEAN, Gather(w, timeUp)
      PROVE DrainInv'
  <2>1. UNCHANGED <<started, m_isEnable, late>>
    BY <1>6 DEF Gather
  <2>2. /\ wpc[w] = "gather" /\ wpc'[w] \in {"gather", "execute"}
        /\ \A v \in Workers : v # w => wpc'[v] = wpc[v]
    BY <1>a, <1>6, GatherFact
  <2> QED BY <1>5, <2>1, <2>2
<1>7. ASSUME NEW w \in Workers, ExecuteBatch(w) \/ Uncount(w) \/ NotifyAdder(w)
      PROVE DrainInv'
  <2>1. UNCHANGED <<started, m_isEnable, late>>
    BY <1>7 DEF ExecuteBatch, Uncount, NotifyAdder
  <2>2. /\ wpc[w] # "unborn" /\ wpc'[w] \notin {"unborn", "test"}
        /\ \A v \in Workers : v # w => wpc'[v] = wpc[v]
    BY <1>a, <1>7 DEF ExecuteBatch, Uncount, NotifyAdder
  <2> QED BY <1>5, <2>1, <2>2
<1>8. CASE UNCHANGED <<started, m_isEnable, late, wpc>>
  BY <1>a, <1>8
<1> QED
  BY <1>1, <1>2, <1>3, <1>4, <1>6, <1>7, <1>8
  DEF Next, Client, Worker, EnableMaxTaskCount, CallAddTask, ChooseWorker,
      CheckLimit, Block, Relock, Push, CountTask, SpuriousWakeup, vars

LEMMA PassStep == IInv /\ [Next]_vars => PassInv'
<1> SUFFICES ASSUME IInv, [Next]_vars PROVE PassInv'
  OBVIOUS
<1>a. /\ TypeOK /\ PassInv /\ BatchInv /\ wpc \in [Workers -> WPC]
      /\ list \in [Workers -> Seq(Tasks)] /\ m_queue \in [Workers -> Seq(Tasks)]
      /\ pushed \in [Workers -> Seq(Tasks)] /\ executed \in [Workers -> Seq(Tasks)]
  BY DEF IInv, TypeOK
<1>b. ASSUME NEW w \in Workers
      PROVE /\ list[w] \in Seq(Tasks) /\ m_queue[w] \in Seq(Tasks)
            /\ pushed[w] \in Seq(Tasks) /\ executed[w] \in Seq(Tasks)
            /\ Gathered(w) \in Seq(Tasks)
            /\ executed[w] \o Gathered(w) \in Seq(Tasks)
  BY <1>a, ConcatProperties DEF Gathered
<1> DEFINE P(v) == executed[v] \o Gathered(v) \o m_queue[v] = pushed[v]
<1>c. \A v \in Workers : P(v)
  BY <1>a DEF PassInv
<1>d. ASSUME \A v \in Workers : P(v)' PROVE PassInv'
  BY <1>d DEF PassInv
<1>e. ASSUME NEW v \in Workers, executed'[v] = executed[v], Gathered(v)' = Gathered(v),
             m_queue'[v] = m_queue[v], pushed'[v] = pushed[v]
      PROVE  P(v)'
  BY <1>c, <1>e
<1> HIDE DEF P
<1>1. ASSUME NEW c \in Clients, Push(c) PROVE PassInv'
  <2>1. UNCHANGED <<wpc, list, executed>>
    BY <1>1 DEF Push
  <2>2. /\ arg[c] \in Tasks /\ dest[c] \in Workers
        /\ m_queue' = [m_queue EXCEPT ![dest[c]] = Append(m_queue[dest[c]], arg[c])]
        /\ pushed' = [pushed EXCEPT ![dest[c]] = Append(pushed[dest[c]], arg[c])]
    BY <1>1 DEF Push, IInv, OfferInv, TypeOK
  <2>3. ASSUME NEW v \in Workers PROVE P(v)'
    <3>1. Gathered(v)' = Gathered(v) /\ executed'[v] = executed[v]
      BY <2>1 DEF Gathered
    <3>2. CASE v = dest[c]
      <4>1. /\ m_queue'[v] = Append(m_queue[v], arg[c])
            /\ pushed'[v] = Append(pushed[v], arg[c])
        BY <1>a, <2>2, <3>2
      <4>2. (executed[v] \o Gathered(v)) \o Append(m_queue[v], arg[c])
              = Append((executed[v] \o Gathered(v)) \o m_queue[v], arg[c])
        BY <1>b, <2>2, ConcatAppend
      <4>3. (executed[v] \o Gathered(v)) \o m_queue[v] = pushed[v]
        BY <1>c DEF P
      <4> QED BY <3>1, <4>1, <4>2, <4>3 DEF P
    <3>3. CASE v # dest[c]
      BY <1>a, <1>e, <2>2, <3>1, <3>3
    <3> QED BY <3>2, <3>3
  <2> QED BY <1>d, <2>3
<1>2. ASSUME NEW w \in Workers, NEW timeUp \in BOOLEAN, Gather(w, timeUp)
      PROVE PassInv'
  <2>1. UNCHANGED <<executed, pushed>>
    BY <1>2 DEF Gather
  <2>2. ASSUME NEW v \in Workers, v # w PROVE P(v)'
    <3>1. wpc'[v] = wpc[v] /\ list'[v] = list[v] /\ m_queue'[v] = m_queue[v]
      BY <1>a, <1>2, <2>2, GatherFact
    <3> QED BY <1>e, <2>1, <3>1 DEF Gathered
  <2>3. P(w)'
    <3>1. wpc[w] = "gather" /\ wpc'[w] \in {"gather", "execute"}
      BY <1>a, <1>2, GatherFact
    <3>2. Gathered(w) = list[w] /\ Gathered(w)' = list'[w]
      BY <3>1 DEF Gathered
    <3>3. CASE m_queue[w] = <<>>
      BY <1>a, <1>2, <1>e, <2>1, <3>2, <3>3, GatherFact
    <3>4. CASE m_queue[w] # <<>>
      <4>1. /\ m_queue'[w] = Tail(m_queue[w])
            /\ list'[w] = Append(list[w], Head(m_queue[w]))
        BY <1>a, <1>2, <3>4, GatherFact
      <4>2. Head(m_queue[w]) \in Tasks /\ Tail(m_queue[w]) \in Seq(Tasks)
        BY <1>b, <3>4
      <4>3. executed[w] \o Append(list[w], Head(m_queue[w]))
              = Append(executed[w] \o list[w], Head(m_queue[w]))
        BY <1>b, <4>2, ConcatAppend
      <4>4. executed[w] \o list[w] \in Seq(Tasks)
        BY <1>b, <3>2
      <4>5. Append(executed[w] \o list[w], Head(m_queue[w])) \o Tail(m_queue[w])
              = (executed[w] \o list[w]) \o m_queue[w]
        BY <1>b, <3>4, <4>4, MoveHead
      <4>6. (executed[w] \o list[w]) \o m_queue[w] = pushed[w]
        BY <1>c, <3>2 DEF P
      <4> QED BY <2>1, <3>2, <4>1, <4>3, <4>5, <4>6 DEF P
    <3> QED BY <3>3, <3>4
  <2> QED BY <1>d, <2>2, <2>3
<1>3. ASSUME NEW w \in Workers, ExecuteBatch(w) PROVE PassInv'
  <2>1. /\ UNCHANGED <<m_queue, pushed>> /\ wpc[w] = "execute"
        /\ executed' = [executed EXCEPT ![w] = executed[w] \o list[w]]
        /\ \/ list' = list /\ wpc' = [wpc EXCEPT ![w] = "complete"]
           \/ list' = [list EXCEPT ![w] = <<>>] /\ wpc' = [wpc EXCEPT ![w] = "run"]
    BY <1>3 DEF ExecuteBatch
  <2>2. ASSUME NEW v \in Workers, v # w PROVE P(v)'
    <3>1. wpc'[v] = wpc[v] /\ list'[v] = list[v] /\ executed'[v] = executed[v]
      BY <1>a, <2>1, <2>2
    <3> QED BY <1>e, <2>1, <3>1 DEF Gathered
  <2>3. P(w)'
    <3>1. Gathered(w) = list[w] /\ Gathered(w)' = <<>>
      BY <1>a, <2>1 DEF Gathered
    <3>2. executed'[w] = executed[w] \o list[w]
      BY <1>a, <2>1
    <3>3. (executed[w] \o list[w]) \o <<>> = executed[w] \o list[w]
      BY <1>b, <3>1, ConcatEmptySeq
    <3>4. (executed[w] \o list[w]) \o m_queue[w] = pushed[w]
      BY <1>c, <3>1 DEF P
    <3> QED BY <2>1, <3>1, <3>2, <3>3, <3>4 DEF P
  <2> QED BY <1>d, <2>2, <2>3
<1>4. ASSUME UNCHANGED <<executed, m_queue, pushed>>,
             \A v \in Workers : Gathered(v)' = Gathered(v)
      PROVE PassInv'
  BY <1>d, <1>e, <1>4
<1>5. ASSUME NEW w \in Workers,
             TestEnable(w) \/ TestQueue(w) \/ Uncount(w) \/ NotifyAdder(w)
      PROVE PassInv'
  <2>1. UNCHANGED <<executed, m_queue, pushed>>
    BY <1>5 DEF TestEnable, TestQueue, Uncount, NotifyAdder
  <2>2. ASSUME NEW v \in Workers, v # w PROVE Gathered(v)' = Gathered(v)
    <3>1. wpc'[v] = wpc[v] /\ list'[v] = list[v]
      BY <1>a, <1>5, <2>2 DEF TestEnable, TestQueue, Uncount, NotifyAdder
    <3> QED BY <3>1 DEF Gathered
  <2>3. Gathered(w)' = Gathered(w)
    <3>1. CASE TestQueue(w)
      <4>1. wpc[w] = "test" /\ wpc'[w] \in {"run", "gather"} /\ list'[w] = list[w]
        BY <1>a, <3>1 DEF TestQueue
      <4>2. list[w] = <<>>
        BY <1>a, <4>1 DEF BatchInv
      <4> QED BY <4>1, <4>2 DEF Gathered
    <3>2. CASE TestEnable(w) \/ Uncount(w) \/ NotifyAdder(w)
      <4>1. wpc[w] \notin {"gather", "execute"} /\ wpc'[w] \notin {"gather", "execute"}
        BY <1>a, <3>2 DEF TestEnable, Uncount, NotifyAdder
      <4> QED BY <4>1 DEF Gathered
    <3> QED BY <1>5, <3>1, <3>2
  <2> QED BY <1>4, <2>1, <2>2, <2>3
<1>6. CASE StartWorker
  <2>1. /\ started \in Workers /\ wpc[started] = "unborn"
        /\ UNCHANGED <<list, executed, m_queue, pushed>>
        /\ wpc' = [wpc EXCEPT ![started] = "run"]
    BY <1>6 DEF StartWorker, IInv, DrainInv, TypeOK, Workers
  <2>2. \A v \in Workers : Gathered(v)' = Gathered(v)
    BY <1>a, <2>1 DEF Gathered
  <2> QED BY <1>4, <2>1, <2>2
<1>7. CASE UNCHANGED <<executed, m_queue, pushed, list, wpc>>
  BY <1>4, <1>7 DEF Gathered
<1> QED
  BY <1>1, <1>2, <1>3, <1>5, <1>6, <1>7
  DEF Next, Client, Worker, EnableMaxTaskCount, StopWorker, CallAddTask,
      ChooseWorker, CheckLimit, Block, Relock, CountTask, SpuriousWakeup, vars

-----------------------------------------------------------------------------
(* The count of the tasks.                                                 *)

LEMMA OutstandingFinite ==
  ASSUME TypeOK
  PROVE  /\ Outstanding \subseteq Tasks /\ IsFiniteSet(Outstanding)
         /\ Cardinality(Outstanding) \in Nat
<1>1. ASSUME NEW w \in Workers PROVE Unreported(w) \subseteq Tasks
  <2>1. list[w] \in Seq(Tasks) /\ completed[w] \in Nat
    BY DEF TypeOK
  <2>2. \A i \in completed[w] + 1 .. Len(list[w]) : list[w][i] \in Tasks
    BY <2>1
  <2> QED BY <2>2 DEF Unreported
<1>2. Outstanding \subseteq Tasks
  BY <1>1 DEF Outstanding
<1> QED BY <1>2, FS_Subset, FS_CardinalityType

\* TaskComplete is still to be called for tasks that were executed.
LEMMA UnreportedRan ==
  ASSUME IInv, NEW w \in Workers, NEW t \in Unreported(w)
  PROVE  t \in Tasks /\ phase[t] = "ran"
<1>1. list[w] \in Seq(Tasks) /\ completed[w] \in Nat
  BY DEF IInv, TypeOK
<1>2. wpc[w] \in {"complete", "notify"}
  BY DEF Unreported
<1>3. PICK i \in completed[w] + 1 .. Len(list[w]) : t = list[w][i]
  BY <1>2 DEF Unreported
<1>4. i \in 1 .. Len(list[w])
  BY <1>1, <1>3
<1>5. phase[list[w][i]] = "ran"
  BY <1>2, <1>4 DEF IInv, PhaseInv
<1> QED BY <1>1, <1>3, <1>4, <1>5

LEMMA OutstandingSame ==
  ASSUME \A t \in Tasks : phase'[t] \in {"counted", "queued"} <=>
                            phase[t] \in {"counted", "queued"},
         \A w \in Workers : Unreported(w)' = Unreported(w)
  PROVE  Outstanding' = Outstanding
BY DEF Outstanding

\* The steps that let nobody in and report nothing leave the set alone.
LEMMA OutstandingKept ==
  ASSUME IInv, [Next]_vars, m_isEnableMaxTaskCount,
         \A c \in Clients : ~ CountTask(c), \A w \in Workers : ~ Uncount(w)
  PROVE  Outstanding' = Outstanding
<1>a. /\ TypeOK /\ OfferInv /\ phase \in [Tasks -> Phase] /\ wpc \in [Workers -> WPC]
      /\ completed \in [Workers -> Nat] /\ list \in [Workers -> Seq(Tasks)]
  BY DEF IInv, TypeOK
<1>b. ASSUME NEW w \in Workers,
             \/ /\ wpc[w] \notin {"complete", "notify"}
                /\ wpc'[w] \notin {"complete", "notify"}
             \/ /\ wpc[w] \in {"complete", "notify"}
                /\ wpc'[w] \in {"complete", "notify"}
                /\ list'[w] = list[w] /\ completed'[w] = completed[w]
      PROVE Unreported(w)' = Unreported(w)
  BY <1>b DEF Unreported
<1>c. ASSUME UNCHANGED <<wpc, list, completed>>, NEW w \in Workers
      PROVE Unreported(w)' = Unreported(w)
  BY <1>c DEF Unreported
<1>1. CASE StartWorker
  <2>1. /\ started \in Workers /\ wpc[started] = "unborn"
        /\ UNCHANGED <<list, completed, phase>>
        /\ wpc' = [wpc EXCEPT ![started] = "run"]
    BY <1>1 DEF StartWorker, IInv, DrainInv, TypeOK, Workers
  <2>2. \A w \in Workers : Unreported(w)' = Unreported(w)
    BY <1>a, <2>1 DEF Unreported
  <2> QED BY <2>1, <2>2, OutstandingSame
<1>2. ASSUME NEW c \in Clients, NEW t \in Tasks, NEW h \in Hashes \cup {None},
             CallAddTask(c, t, h)
      PROVE Outstanding' = Outstanding
  <2>1. /\ phase[t] = "new" /\ phase' = [phase EXCEPT ![t] = "offered"]
        /\ UNCHANGED <<wpc, list, completed>>
    BY <1>2 DEF CallAddTask
  <2> QED BY <1>a, <1>c, <2>1, OutstandingSame
<1>3. ASSUME NEW c \in Clients, Push(c) PROVE Outstanding' = Outstanding
  <2>1. /\ cpc[c] = "push" /\ phase' = [phase EXCEPT ![arg[c]] = "queued"]
        /\ UNCHANGED <<wpc, list, completed>>
    BY <1>3 DEF Push
  <2>2. arg[c] \in Tasks /\ phase[arg[c]] = "counted"
    BY <1>a, <2>1 DEF OfferInv
  <2> QED BY <1>a, <1>c, <2>1, <2>2, OutstandingSame
<1>4. ASSUME NEW w \in Workers, NEW timeUp \in BOOLEAN, Gather(w, timeUp)
      PROVE Outstanding' = Outstanding
  <2>1. phase' = phase /\ completed' = completed
    BY <1>4 DEF Gather
  <2>2. ASSUME NEW v \in Workers PROVE Unreported(v)' = Unreported(v)
    <3>1. CASE v = w
      <4>1. wpc[w] = "gather" /\ wpc'[w] \in {"gather", "execute"}
        BY <1>a, <1>4, GatherFact
      <4> QED BY <1>b, <3>1, <4>1
    <3>2. CASE v # w
      <4>1. wpc'[v] = wpc[v] /\ list'[v] = list[v] /\ completed'[v] = completed[v]
        BY <1>a, <1>4, <2>1, <3>2, GatherFact
      <4> QED BY <4>1 DEF Unreported
    <3> QED BY <3>1, <3>2
  <2> QED BY <2>1, <2>2, OutstandingSame
<1>5. ASSUME NEW w \in Workers, TestEnable(w) \/ TestQueue(w)
      PROVE Outstanding' = Outstanding
  <2>1. UNCHANGED <<phase, list, completed>>
    BY <1>5 DEF TestEnable, TestQueue
  <2>2. /\ wpc[w] \notin {"complete", "notify"} /\ wpc'[w] \notin {"complete", "notify"}
        /\ \A v \in Workers : v # w => wpc'[v] = wpc[v]
    BY <1>a, <1>5 DEF TestEnable, TestQueue
  <2>3. \A v \in Workers : Unreported(v)' = Unreported(v)
    BY <2>1, <2>2 DEF Unreported
  <2> QED BY <2>1, <2>3, OutstandingSame
<1>6. ASSUME NEW w \in Workers, ExecuteBatch(w) PROVE Outstanding' = Outstanding
  <2> DEFINE R == {list[w][i] : i \in 1 .. Len(list[w])}
             F == {t \in Tasks : phase[t] \in {"counted", "queued"}}
  <2>1. /\ wpc[w] = "execute" /\ UNCHANGED <<list, completed>>
        /\ wpc' = [wpc EXCEPT ![w] = "complete"]
        /\ phase' = [t \in Tasks |->
                       IF \E i \in 1 .. Len(list[w]) : list[w][i] = t
                       THEN "ran" ELSE phase[t]]
    BY <1>6 DEF ExecuteBatch
  <2>2. completed[w] = 0
    BY <2>1 DEF IInv, BatchInv
  <2>3. Unreported(w) = {} /\ Unreported(w)' = R
    BY <1>a, <2>1, <2>2 DEF Unreported
  <2>4. \A v \in Workers : v # w => Unreported(v)' = Unreported(v)
    BY <1>a, <2>1 DEF Unreported
  <2>5. R \subseteq F
    <3>1. \A i \in 1 .. Len(list[w]) : list[w][i] \in Tasks /\ phase[list[w][i]] = "queued"
      BY <1>a, <2>1 DEF IInv, PhaseInv
    <3> QED BY <3>1
  <2>6. {t \in Tasks : phase'[t] \in {"counted", "queued"}} = F \ R
    BY <2>1
  <2>7. Outstanding = F \cup UNION {Unreported(v) : v \in Workers}
    BY DEF Outstanding
  <2>8. Outstanding' = (F \ R) \cup UNION {Unreported(v)' : v \in Workers}
    BY <2>6 DEF Outstanding
  <2> HIDE DEF F, R
  <2>9. UNION {Unreported(v)' : v \in Workers} = R \cup UNION {Unreported(v) : v \in Workers}
    BY <2>3, <2>4
  <2> QED BY <2>5, <2>7, <2>8, <2>9
<1>7. ASSUME NEW w \in Workers, NotifyAdder(w) PROVE Outstanding' = Outstanding
  <2>1. phase' = phase
    BY <1>7 DEF NotifyAdder
  <2>2. ASSUME NEW v \in Workers, v # w PROVE Unreported(v)' = Unreported(v)
    <3>1. wpc'[v] = wpc[v] /\ list'[v] = list[v] /\ completed'[v] = completed[v]
      BY <1>a, <1>7, <2>2 DEF NotifyAdder
    <3> QED BY <3>1 DEF Unreported
  <2>3. CASE MoreToComplete(w)
    <3>1. /\ wpc[w] = "notify" /\ wpc'[w] = "complete"
          /\ list'[w] = list[w] /\ completed'[w] = completed[w]
      BY <1>a, <1>7, <2>3 DEF NotifyAdder
    <3>2. Unreported(w)' = Unreported(w)
      BY <1>b, <3>1
    <3> QED BY <2>1, <2>2, <3>2, OutstandingSame
  <2>4. CASE ~MoreToComplete(w)
    <3>1. wpc[w] = "notify" /\ wpc'[w] = "run"
      BY <1>a, <1>7, <2>4 DEF NotifyAdder
    <3>2. completed[w] \in Nat /\ Len(list[w]) \in Nat
      BY <1>a
    <3>3. completed[w] + 1 .. Len(list[w]) = {}
      BY <2>4, <3>2 DEF MoreToComplete
    <3>4. Unreported(w) = {} /\ Unreported(w)' = {}
      BY <3>1, <3>3 DEF Unreported
    <3> QED BY <2>1, <2>2, <3>4, OutstandingSame
  <2> QED BY <2>3, <2>4
<1>8. CASE UNCHANGED <<phase, wpc, list, completed>>
  BY <1>c, <1>8, OutstandingSame
<1> QED
  BY <1>1, <1>2, <1>3, <1>4, <1>5, <1>6, <1>7, <1>8
  DEF Next, Client, Worker, EnableMaxTaskCount, StopWorker, ChooseWorker,
      CheckLimit, Block, Relock, SpuriousWakeup, vars

\* m_nTaskCount++ comes with one more task.
LEMMA OutstandingIn ==
  ASSUME IInv, NEW c \in Clients, CountTask(c)
  PROVE  /\ arg[c] \notin Outstanding /\ Outstanding' = Outstanding \cup {arg[c]}
         /\ m_isEnableMaxTaskCount
<1>1. /\ cpc[c] = "count" /\ UNCHANGED <<wpc, list, completed>>
      /\ phase' = [phase EXCEPT ![arg[c]] = "counted"]
  BY DEF CountTask
<1>2. /\ arg[c] \in Tasks /\ phase[arg[c]] = "offered" /\ m_isEnableMaxTaskCount
      /\ phase \in [Tasks -> Phase]
  BY <1>1 DEF IInv, OfferInv, TypeOK
<1>3. \A w \in Workers : Unreported(w)' = Unreported(w) /\ arg[c] \notin Unreported(w)
  <2>1. \A w \in Workers : Unreported(w)' = Unreported(w)
    BY <1>1 DEF Unreported
  <2>2. \A w \in Workers : arg[c] \notin Unreported(w)
    BY <1>2, UnreportedRan
  <2> QED BY <2>1, <2>2
<1>4. {t \in Tasks : phase'[t] \in {"counted", "queued"}}
        = {t \in Tasks : phase[t] \in {"counted", "queued"}} \cup {arg[c]}
  BY <1>1, <1>2
<1> QED BY <1>2, <1>3, <1>4 DEF Outstanding

\* m_nTaskCount-- comes with one task less, and each task is reported once.
LEMMA OutstandingOut ==
  ASSUME IInv, NEW w \in Workers, Uncount(w)
  PROVE  \E t \in Outstanding : Outstanding' = Outstanding \ {t}
<1>a. TypeOK /\ DistinctInv /\ completed \in [Workers -> Nat] /\ wpc \in [Workers -> WPC]
  BY DEF IInv, TypeOK
<1>1. /\ wpc[w] = "complete" /\ UNCHANGED <<list, phase>>
      /\ completed' = [completed EXCEPT ![w] = completed[w] + 1]
      /\ wpc' = [wpc EXCEPT ![w] = "notify"]
  BY DEF Uncount
<1>2. list[w] \in Seq(Tasks) /\ completed[w] \in Nat /\ completed[w] < Len(list[w])
  BY <1>1 DEF IInv, TypeOK, BatchInv
<1>3. PICK k \in 1 .. Len(list[w]) : k = completed[w] + 1
  BY <1>2
<1>4. PICK t \in Tasks : t = list[w][k]
  BY <1>2
<1>5. ASSUME NEW v \in Workers, NEW i \in 1 .. Len(list[v]), list[v][i] = t
      PROVE v = w /\ i = k
  <2>1. i \in 1 .. Len(Held(v)) /\ Held(v)[i] = t
    BY <1>a, <1>5, HeldFact
  <2>2. k \in 1 .. Len(Held(w)) /\ Held(w)[k] = t
    BY <1>a, <1>4, HeldFact
  <2> QED BY <1>a, <2>1, <2>2 DEF DistinctInv
<1>6. t \in Unreported(w) /\ Unreported(w)' = Unreported(w) \ {t}
  <2>1. /\ Unreported(w) = {list[w][i] : i \in k .. Len(list[w])}
        /\ Unreported(w)' = {list[w][i] : i \in k + 1 .. Len(list[w])}
    BY <1>a, <1>1, <1>3 DEF Unreported
  <2>2. /\ k .. Len(list[w]) = (k + 1 .. Len(list[w])) \cup {k}
        /\ \A i \in k + 1 .. Len(list[w]) : i \in 1 .. Len(list[w]) /\ i # k
    BY <1>2, <1>3
  <2>3. \A i \in k + 1 .. Len(list[w]) : list[w][i] # t
    BY <1>5, <2>2
  <2> QED BY <1>4, <2>1, <2>2, <2>3
<1>7. ASSUME NEW v \in Workers, v # w
      PROVE t \notin Unreported(v) /\ Unreported(v)' = Unreported(v)
  <2>1. Unreported(v)' = Unreported(v)
    BY <1>a, <1>1, <1>7 DEF Unreported
  <2>2. \A i \in completed[v] + 1 .. Len(list[v]) : i \in 1 .. Len(list[v])
    BY <1>a
  <2>3. \A i \in completed[v] + 1 .. Len(list[v]) : list[v][i] # t
    BY <1>5, <1>7, <2>2
  <2> QED BY <2>1, <2>3 DEF Unreported
<1>8. phase[t] = "ran"
  BY <1>6, UnreportedRan
<1>9. t \in Outstanding
  BY <1>6 DEF Outstanding
<1>10. Outstanding' = Outstanding \ {t}
  <2>1. UNION {Unreported(v)' : v \in Workers}
          = (UNION {Unreported(v) : v \in Workers}) \ {t}
    BY <1>6, <1>7
  <2>2. t \notin {x \in Tasks : phase[x] \in {"counted", "queued"}}
    BY <1>8
  <2> QED BY <1>1, <2>1, <2>2 DEF Outstanding
<1> QED BY <1>9, <1>10

LEMMA CountStep == IInv /\ [Next]_vars => BatchCountExact'
<1> SUFFICES ASSUME IInv, [Next]_vars, m_isEnableMaxTaskCount'
             PROVE  /\ m_nTaskCount' = Cardinality(Outstanding') % Word
                    /\ Limit < Word - 1 => Cardinality(Outstanding') <= Limit + 1
  BY DEF BatchCountExact
<1>a. TypeOK /\ BatchCountExact /\ LimitInv
  BY DEF IInv
<1>b. Word \in Nat /\ Word > 0 /\ Limit \in Nat
  BY LimitType
<1>c. IsFiniteSet(Outstanding) /\ Cardinality(Outstanding) \in Nat
  BY <1>a, OutstandingFinite
<1>1. CASE ~m_isEnableMaxTaskCount
  <2>1. EnableMaxTaskCount
    BY <1>1
    DEF Next, Client, Worker, StartWorker, StopWorker, CallAddTask, ChooseWorker,
        CheckLimit, Block, Relock, SpuriousWakeup, CountTask, Push, TestEnable,
        TestQueue, Gather, ExecuteBatch, Uncount, NotifyAdder, vars
  <2>2. /\ started < WorkerCount
        /\ UNCHANGED <<m_nTaskCount, phase, list, completed, wpc>>
    BY <2>1 DEF EnableMaxTaskCount
  <2>3. m_nTaskCount = 0 /\ \A t \in Tasks : phase[t] = "new"
    BY <2>2 DEF IInv, StartInv
  <2>4. \A w \in Workers : Unreported(w) = {}
    <3>1. \A w \in Workers : Len(list[w]) = 0 /\ completed[w] \in Nat
      BY <1>a, <2>2, NotStarted DEF TypeOK
    <3> QED BY <3>1 DEF Unreported
  <2>5. Outstanding = {}
    BY <2>3, <2>4 DEF Outstanding
  <2>6. Outstanding' = Outstanding
    <3>1. \A w \in Workers : Unreported(w)' = Unreported(w)
      BY <2>2 DEF Unreported
    <3> QED BY <2>2, <3>1, OutstandingSame
  <2>7. Cardinality(Outstanding') = 0
    BY <2>5, <2>6, FS_EmptySet
  <2> QED BY <1>b, <2>2, <2>3, <2>7
<1>2. CASE m_isEnableMaxTaskCount
  <2>a. m_nTaskCount = Cardinality(Outstanding) % Word
    BY <1>a, <1>2 DEF BatchCountExact
  <2>b. Limit < Word - 1 => Cardinality(Outstanding) <= Limit + 1
    BY <1>a, <1>2 DEF BatchCountExact
  <2>1. ASSUME NEW c \in Clients, CountTask(c)
        PROVE  /\ m_nTaskCount' = Cardinality(Outstanding') % Word
               /\ Limit < Word - 1 => Cardinality(Outstanding') <= Limit + 1
    <3>1. Cardinality(Outstanding') = Cardinality(Outstanding) + 1
      BY <1>c, <2>1, OutstandingIn, FS_AddElement
    <3>2. m_nTaskCount' = (m_nTaskCount + 1) % Word /\ cpc[c] = "count"
      BY <2>1 DEF CountTask
    <3>3. ((Cardinality(Outstanding) % Word) + 1) % Word
            = (Cardinality(Outstanding) + 1) % Word
      <4>1. \A x \in Int : ((x % Word) + 1) % Word = (x + 1) % Word
        BY <1>b, ModSucc
      <4>2. Cardinality(Outstanding) \in Int
        BY <1>c
      <4> QED BY <4>1, <4>2, Zenon
    <3>4. Limit < Word - 1 => Cardinality(Outstanding) <= Limit
      BY <1>a, <1>2, <3>2 DEF LimitInv
    <3>5. m_nTaskCount' = Cardinality(Outstanding') % Word
      BY <2>a, <3>1, <3>2, <3>3
    <3> QED BY <1>b, <1>c, <3>1, <3>4, <3>5
  <2>2. ASSUME NEW w \in Workers, Uncount(w)
        PROVE  /\ m_nTaskCount' = Cardinality(Outstanding') % Word
               /\ Limit < Word - 1 => Cardinality(Outstanding') <= Limit + 1
    <3>1. Cardinality(Outstanding') = Cardinality(Outstanding) - 1
      BY <1>c, <2>2, OutstandingOut, FS_RemoveElement
    <3>2. m_nTaskCount' = (m_nTaskCount - 1) % Word
      BY <2>2 DEF Uncount
    <3>3. ((Cardinality(Outstanding) % Word) - 1) % Word
            = (Cardinality(Outstanding) - 1) % Word
      <4>1. \A x \in Int : ((x % Word) - 1) % Word = (x - 1) % Word
        BY <1>b, ModPred
      <4>2. Cardinality(Outstanding) \in Int
        BY <1>c
      <4> QED BY <4>1, <4>2, Zenon
    <3>4. m_nTaskCount' = Cardinality(Outstanding') % Word
      BY <2>a, <3>1, <3>2, <3>3
    <3> QED BY <1>b, <1>c, <2>b, <3>1, <3>4
  <2>3. CASE (\A c \in Clients : ~ CountTask(c)) /\ (\A w \in Workers : ~ Uncount(w))
    <3>1. Outstanding' = Outstanding
      BY <1>2, <2>3, OutstandingKept
    <3>2. m_nTaskCount' = m_nTaskCount
      BY <2>3
      DEF Next, Client, Worker, EnableMaxTaskCount, StartWorker, StopWorker,
          CallAddTask, ChooseWorker, CheckLimit, Block, Relock, SpuriousWakeup,
          Push, TestEnable, TestQueue, Gather, ExecuteBatch, NotifyAdder, vars
    <3> QED BY <2>a, <2>b, <3>1, <3>2
  <2> QED BY <2>1, <2>2, <2>3
<1> QED BY <1>1, <1>2

LEMMA LimitStep == IInv /\ [Next]_vars => LimitInv'
<1> SUFFICES ASSUME IInv, [Next]_vars, m_isEnableMaxTaskCount', Limit < Word - 1,
                    NEW d \in Clients, cpc'[d] = "count"
             PROVE  Cardinality(Outstanding') <= Limit
  BY DEF LimitInv, Limit
<1>a. TypeOK /\ BatchCountExact /\ LimitInv /\ MutexInv /\ cpc \in [Clients -> CPC]
  BY DEF IInv, TypeOK
<1>b. Word \in Nat /\ Word > 0 /\ Limit \in Nat
  BY LimitType
<1>c. IsFiniteSet(Outstanding) /\ Cardinality(Outstanding) \in Nat
  BY <1>a, OutstandingFinite
<1>d. m_isEnableMaxTaskCount
  <2>1. CASE EnableMaxTaskCount
    <3>1. cpc[d] = "idle" /\ cpc' = cpc
      BY <2>1, NotStarted DEF EnableMaxTaskCount
    <3> QED BY <3>1
  <2>2. CASE ~EnableMaxTaskCount
    BY <2>2
    DEF Next, Client, Worker, StartWorker, StopWorker, CallAddTask, ChooseWorker,
        CheckLimit, Block, Relock, SpuriousWakeup, CountTask, Push, TestEnable,
        TestQueue, Gather, ExecuteBatch, Uncount, NotifyAdder, vars
  <2> QED BY <2>1, <2>2
<1>1. ASSUME NEW c \in Clients, CountTask(c) PROVE FALSE
  <2>1. cpc[c] = "count" /\ cpc' = [cpc EXCEPT ![c] = "push"]
    BY <1>1 DEF CountTask
  <2>2. c # d /\ cpc[d] = "count"
    BY <1>a, <2>1
  <2> QED BY <1>a, <2>1, <2>2 DEF MutexInv
<1>2. ASSUME NEW c \in Clients, CheckLimit(c) PROVE Cardinality(Outstanding') <= Limit
  <2>1. Outstanding' = Outstanding
    <3>1. UNCHANGED <<phase, wpc, list, completed>>
      BY <1>2 DEF CheckLimit
    <3>2. \A w \in Workers : Unreported(w)' = Unreported(w)
      BY <3>1 DEF Unreported
    <3> QED BY <3>1, <3>2, OutstandingSame
  <2>2. cpc' = [cpc EXCEPT ![c] = IF m_nTaskCount > Limit THEN "sleep" ELSE "count"]
    BY <1>2 DEF CheckLimit
  <2>3. CASE cpc[d] = "count"
    BY <1>a, <1>d, <2>1, <2>3 DEF LimitInv
  <2>4. CASE cpc[d] # "count"
    <3>1. ~(m_nTaskCount > Limit)
      BY <1>a, <2>2, <2>4
    <3>2. /\ m_nTaskCount = Cardinality(Outstanding) % Word
          /\ Cardinality(Outstanding) <= Limit + 1
      BY <1>a, <1>d DEF BatchCountExact
    <3>3. Cardinality(Outstanding) \in 0 .. Word - 1
      BY <1>b, <1>c, <3>2
    <3>4. Cardinality(Outstanding) % Word = Cardinality(Outstanding)
      BY <1>b, <3>3
    <3> QED BY <1>b, <1>c, <2>1, <3>1, <3>2, <3>4
  <2> QED BY <2>3, <2>4
<1>3. ASSUME \A c \in Clients : ~ CountTask(c) /\ ~ CheckLimit(c)
      PROVE Cardinality(Outstanding') <= Limit
  <2>1. cpc[d] = "count"
    <3>1. ASSUME NEW w \in Workers, NotifyAdder(w) PROVE cpc[d] = "count"
      BY <1>a, <3>1, NotifyOneStep DEF NotifyAdder
    <3>2. ASSUME NEW c \in Clients, NEW l, l # "count", cpc' = [cpc EXCEPT ![c] = l]
          PROVE cpc[d] = "count"
      BY <1>a, <3>2
    <3>3. CASE cpc' = cpc
      BY <3>3
    <3>4. ASSUME NEW c \in Clients,
                 \/ \E t \in Tasks, h \in Hashes \cup {None} : CallAddTask(c, t, h)
                 \/ ChooseWorker(c) \/ Block(c) \/ Relock(c) \/ Push(c)
                 \/ SpuriousWakeup(c)
          PROVE cpc[d] = "count"
      <4>1. \E l : l # "count" /\ cpc' = [cpc EXCEPT ![c] = l]
        BY <3>4 DEF CallAddTask, ChooseWorker, Block, Relock, Push, SpuriousWakeup
      <4> QED BY <3>2, <4>1
    <3> QED
      BY <1>3, <3>1, <3>3, <3>4
      DEF Next, Client, Worker, EnableMaxTaskCount, StartWorker, StopWorker,
          TestEnable, TestQueue, Gather, ExecuteBatch, Uncount, vars
  <2>2. Cardinality(Outstanding) <= Limit
    BY <1>a, <1>d, <2>1 DEF LimitInv
  <2>3. CASE \E w \in Workers : Uncount(w)
    <3>1. Cardinality(Outstanding') = Cardinality(Outstanding) - 1
      BY <1>c, <2>3, OutstandingOut, FS_RemoveElement
    <3> QED BY <1>b, <1>c, <2>2, <3>1
  <2>4. CASE \A w \in Workers : ~ Uncount(w)
    BY <1>3, <1>d, <2>2, <2>4, OutstandingKept
  <2> QED BY <2>3, <2>4
<1> QED BY <1>1, <1>2, <1>3

-----------------------------------------------------------------------------
(* The theorems.                                                           *)

LEMMA InitInv == Init => IInv
<1> SUFFICES ASSUME Init PROVE IInv
  OBVIOUS
<1>0. <<>> \o <<>> = <<>>
  BY ConcatEmptySeq, EmptySeq
<1>1. TypeOK
  BY TypeInit
<1>2. 0 < WorkerCount /\ \A w \in Workers : w \in Nat
  BY DEF Workers
<1>3. MutexInv /\ StartInv /\ OfferInv
  BY DEF Init, MutexInv, StartInv, OfferInv
<1>4. \A w \in Workers : /\ list[w] = <<>> /\ m_queue[w] = <<>> /\ pushed[w] = <<>>
                         /\ executed[w] = <<>> /\ wpc[w] = "unborn"
                         /\ completed[w] = 0 /\ late[w] = 0
  BY DEF Init
<1>5. DistinctInv /\ PhaseInv
  <2>1. \A w \in Workers : Held(w) = <<>> /\ list[w] = <<>> /\ m_queue[w] = <<>>
    BY <1>0, <1>4, Zenon DEF Held
  <2> QED BY <2>1 DEF DistinctInv, PhaseInv
<1>6. BatchInv /\ PassInv /\ DrainInv
  <2>1. \A w \in Workers : Gathered(w) = <<>>
    BY <1>4 DEF Gathered
  <2>2. PassInv
    BY <1>0, <1>4, <2>1 DEF PassInv
  <2> QED BY <1>4, <2>2 DEF BatchInv, DrainInv
<1>7. BatchCountExact /\ LimitInv
  BY DEF Init, BatchCountExact, LimitInv
<1> QED BY <1>1, <1>3, <1>5, <1>6, <1>7 DEF IInv

LEMMA NextInv == IInv /\ [Next]_vars => IInv'
BY TypeStep, MutexStep, StartStep, OfferStep, DistinctStep, PhaseStep, BatchStep,
   PassStep, DrainStep, CountStep, LimitStep DEF IInv

(* The inductive invariant holds in every reachable state.                 *)
THEOREM Invariance == Spec => []IInv
BY InitInv, NextInv, PTL DEF Spec

(* m_nTaskCount is exact although TaskComplete counts down without         *)
(* m_mutex, once per task of a batch; the limit bounds the tasks in the    *)
(* pool by one more than it says.                                          *)
THEOREM BatchCountIsExact == Spec => []BatchCountExact
<1>1. IInv => BatchCountExact
  BY DEF IInv
<1> QED BY <1>1, Invariance, PTL

(* A worker executes what was pushed on its queue, all of it in the order  *)
(* of the pushes, in batches of 1 to m_nMaxBatch tasks.                    *)
THEOREM BatchesInOrder == Spec => []BatchOrder
<1>1. IInv => BatchOrder
  BY DEF IInv, PassInv, BatchInv, BatchOrder
<1> QED BY <1>1, Invariance, PTL

(* After BatchWorker::Stop a worker executes at most one more batch.       *)
THEOREM BatchStopDrains == Spec => []BatchStopDrain
<1>1. IInv => BatchStopDrain
  BY DEF IInv, DrainInv, BatchStopDrain
<1> QED BY <1>1, Invariance, PTL
=============================================================================
