---------------------------- MODULE QueueProofs ----------------------------
(***************************************************************************)
(* Theorems about SyncQueue, for any finite set of threads and any values, *)
(* and about WaitGroupPool, for any number of clients, workers and tasks,  *)
(* with and without the limit.                                             *)
(***************************************************************************)
EXTENDS SyncQueue, WaitGroupPool, WordArith, FiniteSetTheorems, SequenceTheorems

-----------------------------------------------------------------------------
(* SyncQueue.  QueueTypeOK, NoneStranded and Fifo together are inductive.  *)

\* What the steps of the threads do to the set of woken threads.
LEMMA WokenStep ==
  ASSUME QueueTypeOK, NEW t \in Threads
  PROVE  /\ IsFiniteSet(Woken) /\ Cardinality(Woken) \in Nat
         /\ pc[t] = "blocked" /\ pc' = [pc EXCEPT ![t] = "woken"] =>
              Cardinality(Woken') = Cardinality(Woken) + 1
         /\ pc[t] = "woken" /\ pc' = [pc EXCEPT ![t] = "idle"] =>
              Cardinality(Woken') = Cardinality(Woken) - 1
<1>1. IsFiniteSet(Woken) /\ Cardinality(Woken) \in Nat
  BY ThreadsAssumption, FS_Subset, FS_CardinalityType DEF Woken
<1>2. ASSUME pc[t] = "blocked", pc' = [pc EXCEPT ![t] = "woken"]
      PROVE  Cardinality(Woken') = Cardinality(Woken) + 1
  <2>1. t \notin Woken /\ Woken' = Woken \cup {t}
    BY <1>2 DEF QueueTypeOK, Woken
  <2> QED BY <1>1, <2>1, FS_AddElement
<1>3. ASSUME pc[t] = "woken", pc' = [pc EXCEPT ![t] = "idle"]
      PROVE  Cardinality(Woken') = Cardinality(Woken) - 1
  <2>1. t \in Woken /\ Woken' = Woken \ {t}
    BY <1>3 DEF QueueTypeOK, Woken
  <2> QED BY <1>1, <2>1, FS_RemoveElement
<1> QED BY <1>1, <1>2, <1>3

\* notify_one wakes one blocked thread or finds none.
LEMMA NotifyOneStep ==
  ASSUME QueueTypeOK, pc' \in Notified
  PROVE  \/ pc' = pc /\ \A t \in Threads : pc[t] # "blocked"
         \/ \E t \in Threads :
              pc[t] = "blocked" /\ pc' = [pc EXCEPT ![t] = "woken"]
BY DEF QueueTypeOK, Notified, NotifyOne, BlockedAt

LEMMA QueueTypeStep == QueueTypeOK /\ [QueueNext]_queueVars => QueueTypeOK'
<1> SUFFICES ASSUME QueueTypeOK, [QueueNext]_queueVars PROVE QueueTypeOK'
  OBVIOUS
<1>1. ASSUME NEW t \in Threads, NEW v \in Values, push(t, v) PROVE QueueTypeOK'
  <2>1. pc' \in [Threads -> {"idle", "blocked", "woken"}]
    BY <1>1, NotifyOneStep DEF push, QueueTypeOK
  <2>2. m_queue' \in Seq(Values) /\ pushed' \in Seq(Values)
    BY <1>1, AppendProperties DEF push, QueueTypeOK
  <2>3. popped' \in Seq(Values)
    BY <1>1 DEF push, QueueTypeOK
  <2> QED BY <2>1, <2>2, <2>3, Zenon DEF QueueTypeOK
<1>2. ASSUME NEW t \in Threads, popValue(t) \/ tryPop(t) PROVE QueueTypeOK'
  <2>1. m_queue # <<>> /\ m_queue \in Seq(Values) /\ popped \in Seq(Values)
    BY <1>2 DEF popValue, tryPop, QueueTypeOK
  <2>2. Head(m_queue) \in Values /\ Tail(m_queue) \in Seq(Values)
    BY <2>1, HeadTailProperties
  <2>3. Append(popped, Head(m_queue)) \in Seq(Values)
    BY <2>1, <2>2, AppendProperties
  <2> QED BY <1>2, <2>2, <2>3 DEF popValue, tryPop, Take, QueueTypeOK
<1>3. ASSUME NEW t \in Threads, popBlock(t) \/ SpuriousPop(t) PROVE QueueTypeOK'
  BY <1>3 DEF popBlock, SpuriousPop, QueueTypeOK
<1> QED BY <1>1, <1>2, <1>3 DEF QueueNext, queueVars, QueueTypeOK

LEMMA StrandedStep ==
  QueueTypeOK /\ NoneStranded /\ [QueueNext]_queueVars => NoneStranded'
<1> SUFFICES ASSUME QueueTypeOK, NoneStranded, [QueueNext]_queueVars
             PROVE  NoneStranded'
  OBVIOUS
<1>a. Len(m_queue) \in Nat /\ m_queue \in Seq(Values)
  BY DEF QueueTypeOK
<1>1. ASSUME NEW t \in Threads, NEW v \in Values, push(t, v)
      PROVE  NoneStranded'
  <2>1. Len(m_queue') = Len(m_queue) + 1
    BY <1>a, <1>1 DEF push
  <2>2. CASE pc' = pc /\ \A u \in Threads : pc[u] # "blocked"
    BY <2>2 DEF NoneStranded
  <2>3. CASE \E u \in Threads :
               pc[u] = "blocked" /\ pc' = [pc EXCEPT ![u] = "woken"]
    <3>1. PICK u \in Threads :
            pc[u] = "blocked" /\ pc' = [pc EXCEPT ![u] = "woken"]
      BY <2>3
    <3>2. Cardinality(Woken) \in Nat /\ Cardinality(Woken') = Cardinality(Woken) + 1
      BY <3>1, WokenStep
    <3>3. Cardinality(Woken) >= Len(m_queue)
      BY <3>1 DEF NoneStranded
    <3>4. Cardinality(Woken') >= Len(m_queue')
      BY <1>a, <2>1, <3>2, <3>3
    <3> QED BY <3>4 DEF NoneStranded
  <2> QED BY <1>1, <2>2, <2>3, NotifyOneStep DEF push
<1>2. ASSUME NEW t \in Threads, popValue(t) PROVE NoneStranded'
  <2>1. Len(m_queue') = Len(m_queue) - 1
    BY <1>a, <1>2 DEF popValue, Take
  <2>2. CASE pc[t] = "woken"
    <3>1. Cardinality(Woken) \in Nat /\ Cardinality(Woken') = Cardinality(Woken) - 1
      BY <1>2, <2>2, WokenStep DEF popValue
    <3>2. (\E u \in Threads : pc'[u] = "blocked") =>
             \E u \in Threads : pc[u] = "blocked"
      BY <1>2 DEF popValue, QueueTypeOK
    <3>3. (\E u \in Threads : pc'[u] = "blocked") =>
            Cardinality(Woken') >= Len(m_queue')
      BY <1>a, <2>1, <3>1, <3>2 DEF NoneStranded
    <3> QED BY <3>3 DEF NoneStranded
  <2>3. CASE pc[t] = "idle"
    <3>1. pc' = pc
      BY <1>2, <2>3 DEF popValue, QueueTypeOK
    <3>2. Woken' = Woken
      BY <3>1 DEF Woken
    <3>3. Cardinality(Woken) \in Nat
      BY WokenStep
    <3>4. (\E u \in Threads : pc[u] = "blocked") =>
            Cardinality(Woken) >= Len(m_queue')
      BY <1>a, <2>1, <3>3 DEF NoneStranded
    <3> QED BY <3>1, <3>2, <3>4 DEF NoneStranded
  <2> QED BY <1>2, <2>2, <2>3 DEF popValue
<1>3. ASSUME NEW t \in Threads, tryPop(t) PROVE NoneStranded'
  <2>1. Len(m_queue') = Len(m_queue) - 1 /\ pc' = pc
    BY <1>a, <1>3 DEF tryPop, Take
  <2>2. Woken' = Woken
    BY <2>1 DEF Woken
  <2>3. Cardinality(Woken) \in Nat
    BY <1>3, WokenStep
  <2>4. (\E u \in Threads : pc[u] = "blocked") =>
          Cardinality(Woken) >= Len(m_queue')
    BY <1>a, <2>1, <2>3 DEF NoneStranded
  <2> QED BY <2>1, <2>2, <2>4 DEF NoneStranded
<1>4. ASSUME NEW t \in Threads, popBlock(t) PROVE NoneStranded'
  <2>1. Len(m_queue') = 0 /\ QueueTypeOK'
    BY <1>4, QueueTypeStep DEF popBlock
  <2>2. Cardinality(Woken') \in Nat
    BY <2>1, ThreadsAssumption, FS_Subset, FS_CardinalityType DEF Woken
  <2> QED BY <2>1, <2>2 DEF NoneStranded
<1>5. ASSUME NEW t \in Threads, SpuriousPop(t) PROVE NoneStranded'
  <2>1. m_queue' = m_queue /\ pc[t] = "blocked"
    BY <1>5 DEF SpuriousPop
  <2>2. Cardinality(Woken) \in Nat /\ Cardinality(Woken') = Cardinality(Woken) + 1
    BY <1>5, WokenStep DEF SpuriousPop
  <2>3. Cardinality(Woken) >= Len(m_queue)
    BY <2>1 DEF NoneStranded
  <2>4. Cardinality(Woken') >= Len(m_queue')
    BY <1>a, <2>1, <2>2, <2>3
  <2> QED BY <2>4 DEF NoneStranded
<1>6. CASE UNCHANGED queueVars
  BY <1>6 DEF queueVars, NoneStranded, Woken
<1> QED BY <1>1, <1>2, <1>3, <1>4, <1>5, <1>6 DEF QueueNext

\* Moving the first element of one sequence to the end of another.
LEMMA MoveHead ==
  ASSUME NEW S, NEW p \in Seq(S), NEW q \in Seq(S), q # <<>>
  PROVE  Append(p, Head(q)) \o Tail(q) = p \o q
<1>1. Head(q) \in S /\ Tail(q) \in Seq(S) /\ <<Head(q)>> \in Seq(S)
  BY HeadTailProperties
<1>2. Append(p, Head(q)) = p \o <<Head(q)>>
  BY <1>1, AppendIsConcat
<1>3. <<Head(q)>> \o Tail(q) = q
  BY <1>1
<1>4. (p \o <<Head(q)>>) \o Tail(q) = p \o (<<Head(q)>> \o Tail(q))
  BY <1>1, ConcatAssociative
<1> QED BY <1>2, <1>3, <1>4

LEMMA FifoStep == QueueTypeOK /\ Fifo /\ [QueueNext]_queueVars => Fifo'
<1> SUFFICES ASSUME QueueTypeOK, Fifo, [QueueNext]_queueVars PROVE Fifo'
  OBVIOUS
<1>1. ASSUME NEW t \in Threads, NEW v \in Values, push(t, v) PROVE Fifo'
  <2>1. /\ m_queue' = m_queue \o <<v>> /\ pushed' = pushed \o <<v>>
        /\ popped' = popped
    BY <1>1, AppendIsConcat DEF push, QueueTypeOK
  <2>2. popped \o (m_queue \o <<v>>) = (popped \o m_queue) \o <<v>>
    BY ConcatAssociative DEF QueueTypeOK
  <2> QED BY <2>1, <2>2 DEF Fifo
<1>2. ASSUME NEW t \in Threads, popValue(t) \/ tryPop(t) PROVE Fifo'
  BY <1>2, MoveHead DEF popValue, tryPop, Take, Fifo, QueueTypeOK
<1>3. ASSUME NEW t \in Threads, popBlock(t) \/ SpuriousPop(t) PROVE Fifo'
  BY <1>3 DEF popBlock, SpuriousPop, Fifo
<1> QED BY <1>1, <1>2, <1>3 DEF QueueNext, queueVars, Fifo

(* SyncQueue loses no wakeup: while a thread is blocked in pop, at least   *)
(* as many others are on their way out of the wait as there are values.    *)
THEOREM NoWakeupLost == QueueSpec => []NoneStranded
<1>1. QueueInit => QueueTypeOK /\ NoneStranded
  BY DEF QueueInit, QueueTypeOK, NoneStranded
<1> QED BY <1>1, QueueTypeStep, StrandedStep, PTL DEF QueueSpec

(* Values leave SyncQueue in the order of their pushes, through pop and    *)
(* tryPop alike, each once.                                                *)
THEOREM FirstInFirstOut == QueueSpec => []Fifo
<1>1. QueueInit => QueueTypeOK /\ Fifo
  BY ConcatEmptySeq DEF QueueInit, QueueTypeOK, Fifo
<1> QED BY <1>1, QueueTypeStep, FifoStep, PTL DEF QueueSpec

-----------------------------------------------------------------------------
(* WaitGroupPool.                                                          *)

USE WorkerCountAssumption, WordAssumption, MaxAssumption, TasksAssumption
USE DEF counters, poolVars, workVars

LEMMA IndexType == m_nWorkerIndex \in Workers => NextIndex \in Workers
BY DEF NextIndex, Workers

LEMMA TypeInit == Init => TypeOK
<1> SUFFICES ASSUME Init PROVE TypeOK
  OBVIOUS
<1>1. 0 \in Workers /\ 0 \in 0 .. Word - 1
  BY DEF Workers
<1>2. <<>> \in Seq(Tasks)
  OBVIOUS
<1> QED BY <1>1, <1>2 DEF Init, TypeOK, CPC, WPC, Phase

\* What notify_all and notify_one do to the clients.
LEMMA NotifyStep ==
  ASSUME TypeOK, NEW w \in Workers, NotifyWaiters(w) \/ NotifyAdder(w)
  PROVE  /\ cpc' \in [Clients -> CPC]
         /\ \A c \in Clients :
              \/ cpc'[c] = cpc[c]
              \/ cpc[c] = "wblocked" /\ cpc'[c] = "wwoken"
              \/ cpc[c] = "blocked" /\ cpc'[c] = "woken"
<1>1. cpc \in [Clients -> CPC]
  BY DEF TypeOK
<1>2. CASE NotifyWaiters(w)
  <2>1. cpc' = [c \in Clients |-> IF cpc[c] = "wblocked" THEN "wwoken" ELSE cpc[c]]
    BY <1>1, <1>2 DEF NotifyWaiters, NotifyAll
  <2> QED BY <1>1, <2>1 DEF CPC
<1>3. CASE NotifyAdder(w)
  <2>1. \/ cpc' = cpc
        \/ \E c \in Clients :
             cpc[c] = "blocked" /\ cpc' = [cpc EXCEPT ![c] = "woken"]
    BY <1>1, <1>3 DEF NotifyAdder, NotifyOne, BlockedAt
  <2> QED BY <1>1, <2>1 DEF CPC
<1> QED BY <1>2, <1>3

LEMMA TypeStep == IInv /\ [Next]_vars => TypeOK'
<1> SUFFICES ASSUME IInv, [Next]_vars PROVE TypeOK'
  OBVIOUS
<1>a. TypeOK /\ OfferInv /\ HoldInv
  BY DEF IInv
<1> USE DEF TypeOK, Goto
<1>1. CASE StartWorker
  <2>1. started \in Workers /\ started + 1 \in 0 .. WorkerCount
    BY <1>a, <1>1 DEF StartWorker, Workers
  <2>2. wpc' \in [Workers -> WPC]
    BY <1>a, <1>1, <2>1 DEF StartWorker, WPC
  <2> QED BY <1>a, <1>1, <2>1, <2>2 DEF StartWorker
<1>2. ASSUME NEW c \in Clients, NEW t \in Tasks, CallAddTask(c, t)
      PROVE TypeOK'
  BY <1>a, <1>2 DEF CallAddTask, CPC, Phase
<1>3. ASSUME NEW c \in Clients, ChooseWorker(c) PROVE TypeOK'
  <2>1. NextIndex \in Workers
    BY <1>a, IndexType
  <2> QED BY <1>a, <1>3, <2>1 DEF ChooseWorker, CPC
<1>4. ASSUME NEW c \in Clients,
             \/ CheckLimit(c) \/ CallWait(c) \/ WaitTest(c) \/ WaitBlock(c)
             \/ SpuriousWakeup(c)
      PROVE TypeOK'
  <2>1. cpc' \in [Clients -> CPC]
    BY <1>a, <1>4, ZenonT(30)
    DEF CheckLimit, CallWait, WaitTest, WaitBlock, SpuriousWakeup, CPC
  <2>2. UNCHANGED <<counters, poolVars, workVars, phase, missed>>
    BY <1>4 DEF CheckLimit, CallWait, WaitTest, WaitBlock, SpuriousWakeup
  <2> QED BY <1>a, <2>1, <2>2
<1>5. ASSUME NEW c \in Clients, Block(c) \/ Relock(c) PROVE TypeOK'
  <2>1. cpc' \in [Clients -> CPC] /\ m_mutex' \in Clients \cup {None}
    BY <1>a, <1>5 DEF Block, Relock, CPC
  <2> QED BY <1>a, <1>5, <2>1 DEF Block, Relock
<1>6. ASSUME NEW c \in Clients, Push(c) PROVE TypeOK'
  <2>1. arg[c] \in Tasks /\ dest[c] \in Workers
    BY <1>a, <1>6 DEF Push, OfferInv, BeforePush
  <2>2. workerQueue' \in [Workers -> Seq(Tasks)]
    BY <1>a, <1>6, <2>1 DEF Push
  <2>3. phase' \in [Tasks -> Phase] /\ cpc' \in [Clients -> CPC]
    BY <1>a, <1>6, <2>1 DEF Push, Phase, CPC
  <2> QED BY <1>a, <1>6, <2>2, <2>3 DEF Push
<1>7. ASSUME NEW c \in Clients, CountTask(c) PROVE TypeOK'
  <2>1. (m_nTaskCount + 1) % Word \in 0 .. Word - 1
    BY <1>a, DivMod
  <2> QED BY <1>a, <1>7, <2>1 DEF CountTask, CPC
<1>8. ASSUME NEW c \in Clients, Add(c) PROVE TypeOK'
  <2>1. cpc' \in [Clients -> CPC] /\ m_nCounter' \in Int
    BY <1>a, <1>8 DEF Add, CPC
  <2>2. missed' \in [Clients -> BOOLEAN]
    BY <1>a, <1>8, Zenon DEF Add
  <2> QED BY <1>a, <1>8, <2>1, <2>2 DEF Add
<1>9. ASSUME NEW c \in Clients, WaitCheck(c) PROVE TypeOK'
  <2>1. cpc' \in [Clients -> CPC]
    BY <1>a, <1>9 DEF WaitCheck, CPC
  <2>2. missed' = [missed EXCEPT ![c] = FALSE] \/ missed' = missed
    BY <1>9 DEF WaitCheck
  <2>3. missed' \in [Clients -> BOOLEAN]
    BY <1>a, <2>2, Zenon
  <2> QED BY <1>a, <1>9, <2>1, <2>3 DEF WaitCheck
<1>10. ASSUME NEW w \in Workers, Pop(w) PROVE TypeOK'
  <2>1. Head(workerQueue[w]) \in Tasks /\ Tail(workerQueue[w]) \in Seq(Tasks)
    BY <1>a, <1>10 DEF Pop
  <2>2. cur' \in [Workers -> Tasks \cup {None}] /\ wpc' \in [Workers -> WPC]
    BY <1>a, <1>10, <2>1 DEF Pop, WPC
  <2>3. /\ workerQueue' \in [Workers -> Seq(Tasks)]
        /\ phase' \in [Tasks -> Phase]
    BY <1>a, <1>10, <2>1 DEF Pop, Phase
  <2> QED BY <1>a, <1>10, <2>2, <2>3 DEF Pop
<1>11. ASSUME NEW w \in Workers, Uncount(w) PROVE TypeOK'
  <2>1. (m_nTaskCount - 1) % Word \in 0 .. Word - 1
    BY <1>a, DivMod
  <2> QED BY <1>a, <1>11, <2>1 DEF Uncount, WPC
<1>12. ASSUME NEW w \in Workers, Dec(w) PROVE TypeOK'
  <2>1. phase' \in [Tasks -> Phase] /\ wpc' \in [Workers -> WPC]
    BY <1>a, <1>12 DEF Dec, Phase, WPC
  <2> QED BY <1>a, <1>12, <2>1 DEF Dec
<1>13. ASSUME NEW w \in Workers, Load(w) PROVE TypeOK'
  BY <1>a, <1>13 DEF Load, WPC
<1>14. ASSUME NEW w \in Workers, NotifyWaiters(w) \/ NotifyAdder(w) PROVE TypeOK'
  <2>1. cpc' \in [Clients -> CPC]
    BY <1>a, <1>14, NotifyStep
  <2>2. missed' \in [Clients -> BOOLEAN]
    BY <1>a, <1>14, Zenon DEF NotifyWaiters, NotifyAdder
  <2>3. wpc' \in [Workers -> WPC]
    BY <1>a, <1>14 DEF NotifyWaiters, NotifyAdder, WPC
  <2> QED BY <1>a, <1>14, <2>1, <2>2, <2>3 DEF NotifyWaiters, NotifyAdder
<1>15. ASSUME NEW w \in Workers, CountFailure(w) PROVE TypeOK'
  <2>1. (m_nTaskFailedCount + 1) % Word \in 0 .. Word - 1
    BY <1>a, DivMod
  <2>2. m_nTaskFailedCount' \in 0 .. Word - 1
    BY <1>a, <1>15, <2>1 DEF CountFailure
  <2>3. wpc' \in [Workers -> WPC]
    BY <1>a, <1>15 DEF CountFailure, WPC
  <2> QED BY <1>a, <1>15, <2>2, <2>3 DEF CountFailure
<1>16. CASE Reset
  BY <1>a, <1>16 DEF Reset
<1>17. CASE UNCHANGED vars
  BY <1>a, <1>17 DEF vars
<1> QED
  BY <1>1, <1>2, <1>3, <1>4, <1>5, <1>6, <1>7, <1>8, <1>9, <1>10, <1>11,
     <1>12, <1>13, <1>14, <1>15, <1>16, <1>17 DEF Next, Client, Worker

-----------------------------------------------------------------------------
(* Mutual exclusion of the clients in AddTask, and who owns which task.    *)

LEMMA MutexStep == IInv /\ [Next]_vars => MutexInv'
<1> SUFFICES ASSUME IInv, [Next]_vars PROVE MutexInv'
  OBVIOUS
<1>a. TypeOK /\ MutexInv
  BY DEF IInv
<1> USE DEF TypeOK, MutexInv, Goto
<1>1. ASSUME NEW c \in Clients, NEW t \in Tasks, CallAddTask(c, t)
      PROVE MutexInv'
  BY <1>a, <1>1 DEF CallAddTask
<1>2. ASSUME NEW c \in Clients,
             Client(c) \/ CallWait(c) \/ SpuriousWakeup(c)
      PROVE MutexInv'
  <2>1. CASE ChooseWorker(c)
    BY <1>a, <2>1 DEF ChooseWorker
  <2>2. CASE CheckLimit(c)
    BY <1>a, <2>2 DEF CheckLimit
  <2>3. CASE Block(c) \/ Relock(c)
    BY <1>a, <2>3, SMTT(30) DEF Block, Relock
  <2>7. CASE Push(c) \/ CountTask(c) \/ Add(c)
    BY <1>a, <2>7 DEF Push, CountTask, Add
  <2>4. CASE CallWait(c) \/ WaitBlock(c)
    BY <1>a, <2>4 DEF CallWait, WaitBlock
  <2>5. CASE WaitTest(c) \/ WaitCheck(c)
    BY <1>a, <2>5 DEF WaitTest, WaitCheck
  <2>6. CASE SpuriousWakeup(c)
    BY <1>a, <2>6 DEF SpuriousWakeup
  <2> QED BY <1>2, <2>1, <2>2, <2>3, <2>4, <2>5, <2>6, <2>7 DEF Client
<1>3. ASSUME NEW w \in Workers, NotifyWaiters(w) \/ NotifyAdder(w)
      PROVE MutexInv'
  <2>1. m_mutex' = m_mutex
    BY <1>3 DEF NotifyWaiters, NotifyAdder
  <2> QED BY <1>a, <1>3, <2>1, NotifyStep
<1>4. ASSUME UNCHANGED <<m_mutex, cpc>> PROVE MutexInv'
  BY <1>a, <1>4
<1> QED
  BY <1>1, <1>2, <1>3, <1>4
  DEF Next, Worker, StartWorker, Pop, Uncount, Dec, Load, CountFailure, Reset,
      vars

\* What WaitGroupWorker::Handle pops is a task that waits in the queue.
LEMMA HeadIsQueued ==
  ASSUME TypeOK, WaitingInv, NEW w \in Workers, Pop(w)
  PROVE  Head(workerQueue[w]) \in Tasks /\ phase[Head(workerQueue[w])] = "queued"
<1>1. workerQueue[w] \in Seq(Tasks) /\ workerQueue[w] # <<>>
  BY DEF Pop, TypeOK
<1>2. /\ Head(workerQueue[w]) \in Tasks
      /\ Head(workerQueue[w]) = workerQueue[w][1]
      /\ 1 \in 1 .. Len(workerQueue[w])
  BY <1>1
<1> QED BY <1>2 DEF WaitingInv

LEMMA OfferStep == IInv /\ [Next]_vars => OfferInv'
<1> SUFFICES ASSUME IInv, [Next]_vars PROVE OfferInv'
  OBVIOUS
<1>a. TypeOK /\ OfferInv /\ HoldInv /\ WaitingInv
  BY DEF IInv
<1>b. cpc \in [Clients -> CPC] /\ phase \in [Tasks -> Phase]
  BY <1>a DEF TypeOK
<1>1. ASSUME NEW c \in Clients, NEW t \in Tasks, CallAddTask(c, t)
      PROVE OfferInv'
  <2>1. /\ phase[t] = "new" /\ phase'[t] = "offered" /\ arg'[c] = t
        /\ \A u \in Tasks : u # t => phase'[u] = phase[u]
        /\ \A d \in Clients : d # c => cpc'[d] = cpc[d] /\ arg'[d] = arg[d]
    BY <1>a, <1>1 DEF CallAddTask, TypeOK, Goto
  <2>2. \A d \in Clients : d # c /\ cpc[d] \in BeforePush => arg[d] # t
    BY <1>a, <2>1 DEF OfferInv
  <2>3. \A d \in Clients : cpc'[d] \in BeforePush =>
          arg'[d] \in Tasks /\ phase'[arg'[d]] = "offered"
    BY <1>a, <2>1, <2>2 DEF OfferInv
  <2> QED BY <1>a, <2>1, <2>2, <2>3 DEF OfferInv
<1>2. ASSUME UNCHANGED <<arg, phase>>,
             \A d \in Clients : cpc'[d] \in BeforePush => cpc[d] \in BeforePush
      PROVE OfferInv'
  BY <1>a, <1>2 DEF OfferInv
<1>3. ASSUME NEW c \in Clients,
             \/ ChooseWorker(c) \/ CheckLimit(c) \/ Block(c) \/ Relock(c)
      PROVE OfferInv'
  <2>1. \A d \in Clients : cpc'[d] \in BeforePush => cpc[d] \in BeforePush
    BY <1>b, <1>3 DEF ChooseWorker, CheckLimit, Block, Relock, Goto, BeforePush
  <2> QED BY <1>2, <1>3, <2>1 DEF ChooseWorker, CheckLimit, Block, Relock
<1>4. ASSUME NEW c \in Clients,
             \/ CallWait(c) \/ WaitTest(c) \/ WaitCheck(c) \/ WaitBlock(c)
             \/ SpuriousWakeup(c) \/ CountTask(c) \/ Add(c)
      PROVE OfferInv'
  <2>1. \A d \in Clients : cpc'[d] \in BeforePush => cpc[d] \in BeforePush
    BY <1>b, <1>4 DEF CallWait, WaitTest, WaitCheck, WaitBlock, SpuriousWakeup,
                      CountTask, Add, Goto, BeforePush
  <2>2. arg' = arg /\ phase' = phase
    BY <1>4 DEF CallWait, WaitTest, WaitCheck, WaitBlock, SpuriousWakeup,
                CountTask, Add
  <2> QED BY <1>2, <2>1, <2>2
<1>5. ASSUME NEW c \in Clients, Push(c) PROVE OfferInv'
  <2>1. arg[c] \in Tasks /\ cpc[c] \in BeforePush /\ arg' = arg
    BY <1>a, <1>5 DEF Push, OfferInv, BeforePush
  <2>2. /\ cpc'[c] \notin BeforePush
        /\ \A d \in Clients : d # c => cpc'[d] = cpc[d]
    BY <1>b, <1>5 DEF Push, Goto, BeforePush
  <2>3. \A u \in Tasks : u # arg[c] => phase'[u] = phase[u]
    BY <1>b, <1>5 DEF Push
  <2> QED BY <1>a, <2>1, <2>2, <2>3 DEF OfferInv
<1>6. ASSUME NEW w \in Workers, Pop(w) PROVE OfferInv'
  <2>1. Head(workerQueue[w]) \in Tasks /\ phase[Head(workerQueue[w])] = "queued"
    BY <1>a, <1>6, HeadIsQueued
  <2> QED BY <1>a, <1>6, <2>1 DEF Pop, TypeOK, OfferInv
<1>7. ASSUME NEW w \in Workers, Dec(w) PROVE OfferInv'
  <2>1. cur[w] \in Tasks /\ phase[cur[w]] = "running"
    BY <1>a, <1>7 DEF Dec, HoldInv
  <2>2. cpc' = cpc /\ arg' = arg
    BY <1>7 DEF Dec
  <2>3. \A t \in Tasks : t # cur[w] => phase'[t] = phase[t]
    BY <1>b, <1>7 DEF Dec
  <2> QED BY <1>a, <2>1, <2>2, <2>3 DEF OfferInv
<1>8. ASSUME NEW w \in Workers, NotifyWaiters(w) \/ NotifyAdder(w)
      PROVE OfferInv'
  <2>1. arg' = arg /\ phase' = phase
    BY <1>8 DEF NotifyWaiters, NotifyAdder
  <2>2. \A d \in Clients : cpc'[d] \in BeforePush => cpc[d] \in BeforePush
    BY <1>a, <1>8, NotifyStep DEF BeforePush
  <2> QED BY <1>2, <2>1, <2>2
<1>9. ASSUME UNCHANGED <<cpc, arg, phase>> PROVE OfferInv'
  BY <1>2, <1>9
<1> QED
  BY <1>1, <1>3, <1>4, <1>5, <1>6, <1>7, <1>8, <1>9
  DEF Next, Client, Worker, StartWorker, Uncount, Load, CountFailure, Reset, vars

LEMMA HoldStep == IInv /\ [Next]_vars => HoldInv'
<1> SUFFICES ASSUME IInv, [Next]_vars PROVE HoldInv'
  OBVIOUS
<1>a. TypeOK /\ OfferInv /\ HoldInv /\ WaitingInv
  BY DEF IInv
<1>b. /\ wpc \in [Workers -> WPC] /\ phase \in [Tasks -> Phase]
      /\ cur \in [Workers -> Tasks \cup {None}]
  BY <1>a DEF TypeOK
<1>1. ASSUME UNCHANGED <<wpc, cur>>, NEW t \in Tasks, phase[t] # "running",
             \A u \in Tasks : u # t => phase'[u] = phase[u]
      PROVE HoldInv'
  BY <1>a, <1>1 DEF HoldInv
<1>2. ASSUME NEW c \in Clients, NEW t \in Tasks, CallAddTask(c, t)
      PROVE HoldInv'
  BY <1>1, <1>b, <1>2 DEF CallAddTask
<1>3. ASSUME NEW c \in Clients, Push(c) PROVE HoldInv'
  <2>1. arg[c] \in Tasks /\ phase[arg[c]] = "offered"
    BY <1>a, <1>3 DEF Push, OfferInv, BeforePush
  <2> QED BY <1>1, <1>b, <1>3, <2>1 DEF Push
<1>4. ASSUME NEW w \in Workers, Pop(w) PROVE HoldInv'
  <2> DEFINE t == Head(workerQueue[w])
  <2>1. t \in Tasks /\ phase[t] = "queued"
    BY <1>a, <1>4, HeadIsQueued
  <2>2. /\ wpc' = [wpc EXCEPT ![w] = "exec"] /\ cur' = [cur EXCEPT ![w] = t]
        /\ phase' = [phase EXCEPT ![t] = "running"]
    BY <1>4 DEF Pop
  <2> HIDE DEF t
  <2> QED BY <1>a, <1>b, <2>1, <2>2 DEF HoldInv
<1>5. ASSUME NEW w \in Workers, Uncount(w) PROVE HoldInv'
  <2>1. /\ wpc[w] = "exec" /\ wpc' = [wpc EXCEPT ![w] = "dec"]
        /\ cur' = cur /\ phase' = phase
    BY <1>5 DEF Uncount
  <2> QED BY <1>a, <1>b, <2>1 DEF HoldInv
<1>6. ASSUME NEW w \in Workers, Dec(w) PROVE HoldInv'
  <2>1. /\ wpc[w] = "dec" /\ wpc' = [wpc EXCEPT ![w] = "load"] /\ cur' = cur
        /\ phase' = [phase EXCEPT ![cur[w]] = "done"]
    BY <1>6 DEF Dec
  <2> QED BY <1>a, <1>b, <2>1 DEF HoldInv
<1>7. ASSUME UNCHANGED <<cur, phase>>,
             \A v \in Workers :
               wpc'[v] = wpc[v] \/ wpc'[v] \notin {"exec", "dec"}
      PROVE HoldInv'
  BY <1>a, <1>7 DEF HoldInv
<1>8. CASE StartWorker
  BY <1>7, <1>8, <1>b DEF StartWorker
<1>9. ASSUME NEW w \in Workers,
             \/ Load(w) \/ NotifyWaiters(w) \/ CountFailure(w) \/ NotifyAdder(w)
      PROVE HoldInv'
  <2>1. cur' = cur /\ phase' = phase
    BY <1>9 DEF Load, NotifyWaiters, CountFailure, NotifyAdder
  <2>2. \A v \in Workers : wpc'[v] = wpc[v] \/ wpc'[v] \notin {"exec", "dec"}
    BY <1>9, <1>b DEF Load, NotifyWaiters, CountFailure, NotifyAdder
  <2> QED BY <1>7, <2>1, <2>2
<1>10. ASSUME UNCHANGED <<wpc, cur, phase>> PROVE HoldInv'
  BY <1>7, <1>10
<1> QED
  BY <1>2, <1>3, <1>4, <1>5, <1>6, <1>8, <1>9, <1>10
  DEF Next, Client, Worker, ChooseWorker, CheckLimit, Block, Relock, CountTask,
      Add, CallWait, WaitTest, WaitCheck, WaitBlock, SpuriousWakeup, Reset, vars

LEMMA QueueStep == IInv /\ [Next]_vars => WaitingInv' /\ DistinctInv'
<1> DEFINE QueueInv == WaitingInv /\ DistinctInv
<1> SUFFICES ASSUME IInv, [Next]_vars PROVE QueueInv'
  OBVIOUS
<1>a. TypeOK /\ OfferInv /\ HoldInv /\ WaitingInv /\ DistinctInv
  BY DEF IInv
<1>b. \A w \in Workers : \A i \in 1 .. Len(workerQueue[w]) :
        workerQueue[w][i] \in Tasks
  BY <1>a DEF TypeOK
<1>1. ASSUME NEW t \in Tasks, phase[t] # "queued", workerQueue' = workerQueue,
             \A u \in Tasks : u # t => phase'[u] = phase[u]
      PROVE QueueInv'
  <2>1. WaitingInv'
    BY <1>a, <1>b, <1>1 DEF WaitingInv
  <2>2. DistinctInv'
    BY <1>a, <1>1 DEF DistinctInv
  <2> QED BY <2>1, <2>2
<1>2. ASSUME NEW c \in Clients, NEW t \in Tasks, CallAddTask(c, t)
      PROVE QueueInv'
  <2>1. /\ phase[t] = "new" /\ workerQueue' = workerQueue
        /\ \A u \in Tasks : u # t => phase'[u] = phase[u]
    BY <1>a, <1>2 DEF CallAddTask, TypeOK
  <2> HIDE DEF QueueInv
  <2> QED BY <1>1, <2>1
<1>3. ASSUME NEW c \in Clients, Push(c) PROVE QueueInv'
  <2> DEFINE t == arg[c]
             d == dest[c]
  <2>1. t \in Tasks /\ phase[t] = "offered" /\ d \in Workers
    BY <1>a, <1>3 DEF Push, OfferInv, BeforePush, TypeOK
  <2>2. /\ workerQueue' = [workerQueue EXCEPT ![d] = Append(workerQueue[d], t)]
        /\ phase' = [phase EXCEPT ![t] = "queued"]
    BY <1>3 DEF Push
  <2> HIDE DEF t, d
  <2>3. /\ Len(workerQueue'[d]) = Len(workerQueue[d]) + 1
        /\ \A i \in 1 .. Len(workerQueue[d]) :
             workerQueue'[d][i] = workerQueue[d][i]
        /\ workerQueue'[d][Len(workerQueue[d]) + 1] = t
        /\ Len(workerQueue[d]) \in Nat
    BY <1>a, <2>1, <2>2 DEF TypeOK
  <2>4. \A w \in Workers : w # d => workerQueue'[w] = workerQueue[w]
    BY <1>a, <2>1, <2>2 DEF TypeOK
  <2>5. \A w \in Workers : \A i \in 1 .. Len(workerQueue'[w]) :
          \/ /\ i \in 1 .. Len(workerQueue[w])
             /\ workerQueue'[w][i] = workerQueue[w][i]
          \/ w = d /\ i = Len(workerQueue[d]) + 1 /\ workerQueue'[w][i] = t
    BY <2>3, <2>4
  <2>6. \A w \in Workers : \A i \in 1 .. Len(workerQueue[w]) :
          workerQueue[w][i] # t
    BY <1>a, <2>1 DEF WaitingInv
  <2>7. /\ phase'[t] = "queued"
        /\ \A u \in Tasks : u # t => phase'[u] = phase[u]
    BY <1>a, <2>1, <2>2 DEF TypeOK
  <2>8. \A w \in Workers : \A i \in 1 .. Len(workerQueue'[w]) :
          phase'[workerQueue'[w][i]] = "queued"
    BY <1>a, <1>b, <2>5, <2>6, <2>7 DEF WaitingInv
  <2>9. \A v, w \in Workers :
          \A i \in 1 .. Len(workerQueue'[v]), j \in 1 .. Len(workerQueue'[w]) :
            workerQueue'[v][i] = workerQueue'[w][j] => v = w /\ i = j
    <3> SUFFICES ASSUME NEW v \in Workers, NEW w \in Workers,
                        NEW i \in 1 .. Len(workerQueue'[v]),
                        NEW j \in 1 .. Len(workerQueue'[w]),
                        workerQueue'[v][i] = workerQueue'[w][j]
                 PROVE  v = w /\ i = j
      OBVIOUS
    <3>1. CASE /\ i \in 1 .. Len(workerQueue[v])
               /\ workerQueue'[v][i] = workerQueue[v][i]
      <4>1. /\ j \in 1 .. Len(workerQueue[w])
            /\ workerQueue'[w][j] = workerQueue[w][j]
        BY <2>5, <2>6, <3>1
      <4>2. workerQueue[v][i] = workerQueue[w][j]
        BY <3>1, <4>1
      <4>3. \A x, y \in Workers :
              \A k \in 1 .. Len(workerQueue[x]), l \in 1 .. Len(workerQueue[y]) :
                workerQueue[x][k] = workerQueue[y][l] => x = y /\ k = l
        BY <1>a DEF DistinctInv
      <4> QED BY <3>1, <4>1, <4>2, <4>3
    <3>2. CASE v = d /\ i = Len(workerQueue[d]) + 1 /\ workerQueue'[v][i] = t
      BY <2>5, <2>6, <3>2
    <3> QED BY <2>5, <3>1, <3>2
  <2> QED BY <2>8, <2>9 DEF WaitingInv, DistinctInv
<1>4. ASSUME NEW w \in Workers, Pop(w) PROVE QueueInv'
  <2> DEFINE t == Head(workerQueue[w])
  <2>1. /\ workerQueue[w] # <<>> /\ workerQueue[w] \in Seq(Tasks)
        /\ workerQueue' = [workerQueue EXCEPT ![w] = Tail(workerQueue[w])]
        /\ phase' = [phase EXCEPT ![t] = "running"]
    BY <1>a, <1>4 DEF Pop, TypeOK
  <2>2. t \in Tasks /\ t = workerQueue[w][1] /\ 1 \in 1 .. Len(workerQueue[w])
    BY <2>1
  <2> HIDE DEF t
  <2>3. /\ Len(workerQueue'[w]) = Len(workerQueue[w]) - 1
        /\ \A i \in 1 .. Len(workerQueue'[w]) :
             workerQueue'[w][i] = workerQueue[w][i + 1]
        /\ Len(workerQueue[w]) \in Nat
    BY <1>a, <2>1 DEF TypeOK
  <2>4. \A v \in Workers : v # w => workerQueue'[v] = workerQueue[v]
    BY <1>a, <2>1 DEF TypeOK
  <2> DEFINE k(v, i) == IF v = w THEN i + 1 ELSE i
  <2>5. \A v \in Workers : \A i \in 1 .. Len(workerQueue'[v]) :
          /\ k(v, i) \in 1 .. Len(workerQueue[v])
          /\ v = w => k(v, i) # 1
          /\ workerQueue'[v][i] = workerQueue[v][k(v, i)]
    BY <2>3, <2>4, SMTT(30)
  <2> HIDE DEF k
  <2>6. \A v \in Workers : \A i \in 1 .. Len(workerQueue'[v]) :
          workerQueue'[v][i] # t
    BY <1>a, <2>2, <2>5 DEF DistinctInv
  <2>7. \A u \in Tasks : u # t => phase'[u] = phase[u]
    BY <1>a, <2>1, <2>2 DEF TypeOK
  <2>8. \A v \in Workers : \A i \in 1 .. Len(workerQueue'[v]) :
          phase'[workerQueue'[v][i]] = "queued"
    <3> SUFFICES ASSUME NEW v \in Workers, NEW i \in 1 .. Len(workerQueue'[v])
                 PROVE phase'[workerQueue'[v][i]] = "queued"
      OBVIOUS
    <3>1. /\ k(v, i) \in 1 .. Len(workerQueue[v])
          /\ workerQueue'[v][i] = workerQueue[v][k(v, i)]
          /\ workerQueue'[v][i] # t
      BY <2>5, <2>6
    <3>2. /\ workerQueue[v][k(v, i)] \in Tasks
          /\ phase[workerQueue[v][k(v, i)]] = "queued"
      BY <1>a, <1>b, <3>1 DEF WaitingInv, TypeOK
    <3> QED BY <2>7, <3>1, <3>2
  <2>9. \A u, v \in Workers :
          \A i \in 1 .. Len(workerQueue'[u]), j \in 1 .. Len(workerQueue'[v]) :
            workerQueue'[u][i] = workerQueue'[v][j] => u = v /\ i = j
    <3> SUFFICES ASSUME NEW u \in Workers, NEW v \in Workers,
                        NEW i \in 1 .. Len(workerQueue'[u]),
                        NEW j \in 1 .. Len(workerQueue'[v]),
                        workerQueue'[u][i] = workerQueue'[v][j]
                 PROVE  u = v /\ i = j
      OBVIOUS
    <3>1. u = v /\ k(u, i) = k(v, j)
      <4>1. /\ k(u, i) \in 1 .. Len(workerQueue[u])
            /\ k(v, j) \in 1 .. Len(workerQueue[v])
            /\ workerQueue[u][k(u, i)] = workerQueue[v][k(v, j)]
        BY <2>5
      <4> QED BY <1>a, <4>1 DEF DistinctInv
    <3> QED BY <3>1, <2>3, <2>4 DEF k
  <2> QED BY <2>8, <2>9 DEF WaitingInv, DistinctInv
<1>5. ASSUME NEW w \in Workers, Dec(w) PROVE QueueInv'
  <2>1. cur[w] \in Tasks /\ phase[cur[w]] = "running"
    BY <1>a, <1>5 DEF Dec, HoldInv
  <2>2. /\ workerQueue' = workerQueue
        /\ \A u \in Tasks : u # cur[w] => phase'[u] = phase[u]
    BY <1>a, <1>5, <2>1 DEF Dec, TypeOK
  <2> HIDE DEF QueueInv
  <2> QED BY <1>1, <2>1, <2>2
<1>6. ASSUME UNCHANGED <<workerQueue, phase>> PROVE QueueInv'
  <2>1. workerQueue' = workerQueue /\ phase' = phase
    BY <1>6
  <2>2. WaitingInv'
    BY <1>a, <2>1 DEF WaitingInv
  <2>3. DistinctInv'
    BY <1>a, <2>1 DEF DistinctInv
  <2> QED BY <2>2, <2>3
<1> HIDE DEF QueueInv
<1> QED
  BY <1>2, <1>3, <1>4, <1>5, <1>6
  DEF Next, Client, Worker, StartWorker, ChooseWorker, CheckLimit, Block, Relock,
      CountTask, Add, CallWait, WaitTest, WaitCheck, WaitBlock, SpuriousWakeup,
      Uncount, Load, NotifyWaiters, CountFailure, NotifyAdder, Reset, vars

-----------------------------------------------------------------------------
(* The counter of the WaitGroup.                                           *)

LEMMA UnfinishedFinite ==
  IsFiniteSet(Unfinished) /\ Cardinality(Unfinished) \in Nat
BY FS_Subset, FS_CardinalityType DEF Unfinished

\* The steps of one task from its push to its Done, seen as a set.
LEMMA UnfinishedStep ==
  ASSUME NEW t \in Tasks, \A u \in Tasks : u # t => phase'[u] = phase[u]
  PROVE  /\ phase[t] = "offered" /\ phase'[t] = "queued" =>
              Cardinality(Unfinished') = Cardinality(Unfinished) + 1
         /\ phase[t] = "running" /\ phase'[t] = "done" =>
              Cardinality(Unfinished') = Cardinality(Unfinished) - 1
         /\ (phase[t] \in {"queued", "running"}
              <=> phase'[t] \in {"queued", "running"}) =>
              Cardinality(Unfinished') = Cardinality(Unfinished)
<1>1. IsFiniteSet(Unfinished)
  BY UnfinishedFinite
<1>2. ASSUME phase[t] = "offered", phase'[t] = "queued"
      PROVE  Cardinality(Unfinished') = Cardinality(Unfinished) + 1
  <2>1. t \notin Unfinished /\ Unfinished' = Unfinished \cup {t}
    BY <1>2 DEF Unfinished
  <2> QED BY <1>1, <2>1, FS_AddElement
<1>3. ASSUME phase[t] = "running", phase'[t] = "done"
      PROVE  Cardinality(Unfinished') = Cardinality(Unfinished) - 1
  <2>1. t \in Unfinished /\ Unfinished' = Unfinished \ {t}
    BY <1>3 DEF Unfinished
  <2> QED BY <1>1, <2>1, FS_RemoveElement
<1>4. ASSUME phase[t] \in {"queued", "running"}
               <=> phase'[t] \in {"queued", "running"}
      PROVE  Cardinality(Unfinished') = Cardinality(Unfinished)
  <2>1. Unfinished' = Unfinished
    BY <1>4 DEF Unfinished
  <2> QED BY <2>1
<1> QED BY <1>2, <1>3, <1>4

\* Whether a client is in the window is known from the holder of m_mutex.
LEMMA WindowFact ==
  ASSUME MutexInv, NEW c \in Clients
  PROVE  /\ cpc[c] \in {"count", "add"} => InWindow
         /\ m_mutex \in {None, c} /\ cpc[c] \notin {"count", "add"} => ~InWindow
BY DEF MutexInv, InWindow

LEMMA CounterStep == IInv /\ [Next]_vars => CounterExact'
<1> SUFFICES ASSUME IInv, [Next]_vars PROVE CounterExact'
  OBVIOUS
<1>a. TypeOK /\ MutexInv /\ OfferInv /\ HoldInv /\ WaitingInv
  BY DEF IInv
<1>b. TypeOK' /\ MutexInv'
  BY TypeStep, MutexStep
<1>c. Cardinality(Unfinished) \in Nat
  BY UnfinishedFinite
<1>d. m_nCounter = Cardinality(Unfinished) - (IF InWindow THEN 1 ELSE 0)
  BY DEF IInv, CounterExact
<1>e. ASSUME m_nCounter' = m_nCounter, InWindow' <=> InWindow,
             Cardinality(Unfinished') = Cardinality(Unfinished)
      PROVE  CounterExact'
  BY <1>d, <1>e DEF CounterExact
<1>f. cpc \in [Clients -> CPC] /\ phase \in [Tasks -> Phase]
  BY <1>a DEF TypeOK
<1>1. ASSUME UNCHANGED <<m_nCounter, phase, m_mutex>>,
             \A c \in Clients :
               cpc'[c] \in {"count", "add"} <=> cpc[c] \in {"count", "add"}
      PROVE CounterExact'
  <2>1. InWindow' <=> InWindow
    BY <1>a, <1>1 DEF InWindow, TypeOK
  <2>2. Unfinished' = Unfinished
    BY <1>1 DEF Unfinished
  <2> QED BY <1>e, <1>1, <2>1, <2>2
<1>2. ASSUME NEW c \in Clients, NEW t \in Tasks, CallAddTask(c, t)
      PROVE CounterExact'
  <2>1. InWindow' <=> InWindow
    BY <1>f, <1>2 DEF CallAddTask, InWindow, Goto
  <2>2. /\ phase[t] = "new" /\ phase'[t] = "offered"
        /\ \A u \in Tasks : u # t => phase'[u] = phase[u]
    BY <1>f, <1>2 DEF CallAddTask
  <2>3. Cardinality(Unfinished') = Cardinality(Unfinished)
    BY <2>2, UnfinishedStep
  <2> QED BY <1>e, <1>2, <2>1, <2>3 DEF CallAddTask
<1>3. ASSUME NEW c \in Clients,
             ChooseWorker(c) \/ CheckLimit(c) \/ Block(c) \/ Relock(c)
      PROVE CounterExact'
  <2>1. m_mutex \in {None, c} /\ cpc[c] \notin {"count", "add"}
    BY <1>a, <1>3 DEF ChooseWorker, CheckLimit, Block, Relock, MutexInv
  <2>2. m_mutex' \in {None, c} /\ cpc'[c] \notin {"count", "add"}
    BY <1>f, <1>3, <2>1 DEF ChooseWorker, CheckLimit, Block, Relock, Goto
  <2>3. ~InWindow /\ ~InWindow'
    BY <1>a, <1>b, <2>1, <2>2 DEF MutexInv, InWindow
  <2>4. m_nCounter' = m_nCounter /\ Unfinished' = Unfinished
    BY <1>3 DEF ChooseWorker, CheckLimit, Block, Relock, Unfinished
  <2> QED BY <1>e, <2>3, <2>4
<1>4. ASSUME NEW c \in Clients, Push(c) PROVE CounterExact'
  <2>1. arg[c] \in Tasks /\ phase[arg[c]] = "offered"
    BY <1>a, <1>4 DEF Push, OfferInv, BeforePush
  <2>2. /\ phase'[arg[c]] = "queued"
        /\ \A u \in Tasks : u # arg[c] => phase'[u] = phase[u]
    BY <1>f, <1>4, <2>1 DEF Push
  <2>3. Cardinality(Unfinished') = Cardinality(Unfinished) + 1
    BY <2>1, <2>2, UnfinishedStep
  <2>4. ~InWindow
    BY <1>a, <1>4 DEF Push, MutexInv, InWindow
  <2>5. InWindow'
    BY <1>a, <1>b, <1>4 DEF Push, MutexInv, InWindow, TypeOK, Goto
  <2>6. m_nCounter' = m_nCounter
    BY <1>4 DEF Push
  <2> QED BY <1>c, <1>d, <2>3, <2>4, <2>5, <2>6 DEF CounterExact
<1>5. ASSUME NEW c \in Clients, CountTask(c) PROVE CounterExact'
  BY <1>1, <1>f, <1>5 DEF CountTask, Goto
<1>6. ASSUME NEW c \in Clients, Add(c) PROVE CounterExact'
  <2>1. InWindow
    BY <1>a, <1>6, WindowFact DEF Add
  <2>2. ~InWindow' /\ Unfinished' = Unfinished /\ m_nCounter' = m_nCounter + 1
    BY <1>6 DEF Add, InWindow, Unfinished
  <2> QED BY <1>c, <1>d, <2>1, <2>2 DEF CounterExact
<1>7. ASSUME NEW c \in Clients,
             \/ CallWait(c) \/ WaitTest(c) \/ WaitCheck(c) \/ WaitBlock(c)
             \/ SpuriousWakeup(c)
      PROVE CounterExact'
  <2>1. \A d \in Clients :
          cpc'[d] \in {"count", "add"} <=> cpc[d] \in {"count", "add"}
    BY <1>f, <1>7
    DEF CallWait, WaitTest, WaitCheck, WaitBlock, SpuriousWakeup, Goto
  <2>2. UNCHANGED <<m_nCounter, phase, m_mutex>>
    BY <1>7 DEF CallWait, WaitTest, WaitCheck, WaitBlock, SpuriousWakeup
  <2> QED BY <1>1, <2>1, <2>2
<1>8. ASSUME NEW w \in Workers, Pop(w) PROVE CounterExact'
  <2>1. Head(workerQueue[w]) \in Tasks /\ phase[Head(workerQueue[w])] = "queued"
    BY <1>a, <1>8, HeadIsQueued
  <2>2. /\ phase'[Head(workerQueue[w])] = "running"
        /\ \A u \in Tasks : u # Head(workerQueue[w]) => phase'[u] = phase[u]
    BY <1>f, <1>8, <2>1 DEF Pop
  <2>3. Cardinality(Unfinished') = Cardinality(Unfinished)
    BY <2>1, <2>2, UnfinishedStep
  <2> QED BY <1>e, <1>8, <2>3 DEF Pop, InWindow
<1>9. ASSUME NEW w \in Workers, Dec(w) PROVE CounterExact'
  <2>1. cur[w] \in Tasks /\ phase[cur[w]] = "running"
    BY <1>a, <1>9 DEF Dec, HoldInv
  <2>2. /\ phase'[cur[w]] = "done"
        /\ \A u \in Tasks : u # cur[w] => phase'[u] = phase[u]
    BY <1>f, <1>9, <2>1 DEF Dec
  <2>3. Cardinality(Unfinished') = Cardinality(Unfinished) - 1
    BY <2>1, <2>2, UnfinishedStep
  <2>4. (InWindow' <=> InWindow) /\ m_nCounter' = m_nCounter - 1
    BY <1>9 DEF Dec, InWindow
  <2> QED BY <1>c, <1>d, <2>3, <2>4 DEF CounterExact
<1>10. ASSUME NEW w \in Workers, NotifyWaiters(w) \/ NotifyAdder(w)
       PROVE CounterExact'
  <2>1. \A c \in Clients :
          cpc'[c] \in {"count", "add"} <=> cpc[c] \in {"count", "add"}
    BY <1>a, <1>10, NotifyStep
  <2>2. UNCHANGED <<m_nCounter, phase, m_mutex>>
    BY <1>10 DEF NotifyWaiters, NotifyAdder
  <2> QED BY <1>1, <2>1, <2>2
<1>11. CASE Reset
  <2>1. Unfinished = {} /\ Unfinished' = Unfinished /\ m_nCounter' = 0
    BY <1>11 DEF Reset, Unfinished
  <2>2. ~InWindow'
    BY <1>a, <1>11 DEF Reset, InWindow, TypeOK
  <2>3. Cardinality({}) = 0
    BY FS_EmptySet
  <2> QED BY <2>1, <2>2, <2>3 DEF CounterExact
<1>12. ASSUME UNCHANGED <<cpc, phase, m_mutex, m_nCounter>> PROVE CounterExact'
  BY <1>1, <1>12
<1> QED
  BY <1>2, <1>3, <1>4, <1>5, <1>6, <1>7, <1>8, <1>9, <1>10, <1>11, <1>12
  DEF Next, Client, Worker, StartWorker, Uncount, Load, CountFailure, vars

(* Everything the argument about the WaitGroup rests on holds throughout.  *)
THEOREM Invariance == Spec => []IInv
<1>1. Init => IInv
  <2> SUFFICES ASSUME Init PROVE IInv
    OBVIOUS
  <2>1. TypeOK
    BY TypeInit
  <2>2. MutexInv /\ OfferInv /\ HoldInv
    BY DEF Init, MutexInv, OfferInv, HoldInv, BeforePush
  <2>3. WaitingInv /\ DistinctInv
    BY DEF Init, WaitingInv, DistinctInv
  <2>4. Unfinished = {} /\ ~InWindow /\ m_nCounter = 0
    BY DEF Init, Unfinished, InWindow
  <2>5. CounterExact
    BY <2>4, FS_EmptySet DEF CounterExact
  <2> QED BY <2>1, <2>2, <2>3, <2>5 DEF IInv
<1>2. IInv /\ [Next]_vars => IInv'
  BY TypeStep, MutexStep, OfferStep, HoldStep, QueueStep, CounterStep, Zenon
  DEF IInv
<1> QED BY <1>1, <1>2, PTL DEF Spec

(* m_nCounter of the WaitGroup is the number of tasks between their push   *)
(* and their Done, less one while a client is between p->AddTask and Add.  *)
THEOREM CounterIsExact == Spec => []CounterExact
<1>1. IInv => CounterExact
  BY DEF IInv
<1> QED BY <1>1, Invariance, PTL

(* A client leaves WaitGroup::Wait only when no task is unfinished, but    *)
(* for the one that another client is adding at that moment.               *)
THEOREM WaitIsSound == Spec => WaitSound
<1>1. IInv /\ [Next]_vars => [WaitStep]_vars
  <2> SUFFICES ASSUME IInv, Next, NEW c \in Clients,
                      cpc[c] \in {"test", "wcheck", "wwoken"}, cpc'[c] = "idle"
               PROVE  Cardinality(Unfinished) <= (IF InWindow THEN 1 ELSE 0)
    BY DEF WaitStep
  <2>1. /\ TypeOK /\ cpc \in [Clients -> CPC]
        /\ m_nCounter = Cardinality(Unfinished) - (IF InWindow THEN 1 ELSE 0)
        /\ Cardinality(Unfinished) \in Nat
    BY UnfinishedFinite DEF IInv, CounterExact, TypeOK
  <2>2. ASSUME MayReturn
        PROVE  Cardinality(Unfinished) <= (IF InWindow THEN 1 ELSE 0)
    BY <2>1, <2>2 DEF MayReturn
  <2>3. ASSUME NEW d \in Clients, NEW t \in Tasks, CallAddTask(d, t) PROVE FALSE
    BY <2>1, <2>3 DEF CallAddTask, Goto
  <2>4. ASSUME NEW d \in Clients,
               \/ ChooseWorker(d) \/ CheckLimit(d) \/ Block(d) \/ Relock(d)
               \/ Push(d) \/ CountTask(d) \/ Add(d) \/ CallWait(d) \/ WaitBlock(d)
               \/ SpuriousWakeup(d)
        PROVE FALSE
    BY <2>1, <2>4 DEF ChooseWorker, CheckLimit, Block, Relock, Push, CountTask,
                      Add, CallWait, WaitBlock, SpuriousWakeup, Goto
  <2>5. ASSUME NEW d \in Clients, WaitTest(d) \/ WaitCheck(d) PROVE MayReturn
    BY <2>1, <2>5 DEF WaitTest, WaitCheck, Goto
  <2>6. ASSUME NEW w \in Workers, NotifyWaiters(w) \/ NotifyAdder(w) PROVE FALSE
    BY <2>1, <2>6, NotifyStep
  <2>7. ASSUME cpc' = cpc PROVE FALSE
    BY <2>7
  <2> QED
    BY <2>2, <2>3, <2>4, <2>5, <2>6, <2>7
    DEF Next, Client, Worker, StartWorker, Pop, Uncount, Dec, Load, CountFailure,
        Reset
<1> QED BY <1>1, Invariance, PTL DEF Spec, WaitSound
=============================================================================
