----------------------------- MODULE WorkerPool -----------------------------
(***************************************************************************)
(* The thread pool of libpublic/workpool: class WorkerPool and the Worker  *)
(* threads it owns.  Client threads ("adders") call AddTask, which picks a *)
(* worker round robin or by the hash of a key, waits while too many tasks  *)
(* are outstanding (if EnableMaxTaskCount was called) and pushes the task  *)
(* on the worker's own queue.  Each worker pops, executes and reports.     *)
(*                                                                         *)
(* One action is one atomic step of a thread: an acquisition of m_mutex    *)
(* with the assignments made under it, one access to the atomic            *)
(* m_nTaskCount, one operation of the worker's SyncQueue (atomic: module   *)
(* SyncQueue justifies it), one notify.                                    *)
(***************************************************************************)
EXTENDS Integers, Sequences, FiniteSets

CONSTANTS
  Adders,              \* client threads that call AddTask
  Tasks,               \* the tasks they submit, each once
  Fails,               \* the tasks whose Execute ends in TaskStatusFailed
  Keys,                \* hash keys
  NoKey,               \* marks a task submitted with AddTask(pTask)
  KeyOf,               \* KeyOf[t]: the key t is submitted with, or NoKey
  HasHashFunc,         \* SetTaskHashFunc was called
  HashOf,              \* HashOf[k]: what the hash function returns (an int32)
  WorkerCount,         \* m_nWorkerCount
  WorkerMaxTaskCount,  \* m_nWorkerMaxTaskCount
  EnableMax,           \* m_isEnableMaxTaskCount
  Word,                \* the number of values of a uint32_t
  MayStop,             \* somebody calls WorkerPool::Stop
  None                 \* no thread, no task

ASSUME WorkerCountAssumption == WorkerCount \in Nat \ {0}
ASSUME WordAssumption == Word \in Nat /\ WorkerCount < Word
ASSUME MaxAssumption == WorkerMaxTaskCount \in 0 .. Word - 1
ASSUME TasksAssumption == IsFiniteSet(Tasks) /\ None \notin Tasks
ASSUME AddersAssumption == None \notin Adders
ASSUME FlagsAssumption == /\ EnableMax \in BOOLEAN
                          /\ HasHashFunc \in BOOLEAN
                          /\ MayStop \in BOOLEAN
ASSUME KeysAssumption == /\ NoKey \notin Keys
                         /\ KeyOf \in [Tasks -> Keys \cup {NoKey}]
                         /\ HashOf \in [Keys -> Int]
                         /\ Fails \subseteq Tasks

Workers == 0 .. WorkerCount - 1

VARIABLES
  m_mutex,             \* holder of WorkerPool::m_mutex, or None
  m_nWorkerIndex,      \* round-robin cursor
  m_nTaskCount,        \* atomic uint32_t
  m_nTaskFailedCount,  \* atomic uint32_t
  apc, arg, dest,      \* per adder: where it is in AddTask, pTask, index of p
  started, stopping,   \* progress of Start's and of Stop's loop
  m_isEnable,          \* per worker
  m_queue,             \* per worker: its SyncQueue
  wpc, cur,            \* per worker: where its thread is, the task it holds
  m_nIndex,            \* per task: TaskInterface::SetIndex
  phase,               \* per task (history): how far it has come
  ticket, pushes,      \* per task (history): its place in the order of pushes
  late,                \* per worker (history): tasks popped after its Stop
  missed               \* per adder (history): a notify fell between its
                       \* failed test of the limit and its going to sleep

addVars  == <<m_mutex, m_nWorkerIndex, apc, arg, dest>>
poolVars == <<started, stopping, m_isEnable>>
workVars == <<wpc, cur, late>>
taskVars == <<m_nIndex, ticket, pushes>>
vars == <<addVars, poolVars, workVars, taskVars, m_queue, phase, missed,
          m_nTaskCount, m_nTaskFailedCount>>

APC == {"idle", "lock", "check", "sleep", "blocked", "woken", "push", "count"}
WPC == {"unborn", "run", "pop", "exec", "complete", "notify", "fail", "closed"}
Phase == {"new", "offered", "queued", "running", "ran", "reported"}

Init ==
  /\ m_mutex = None
  /\ m_nWorkerIndex = 0
  /\ m_nTaskCount = 0
  /\ m_nTaskFailedCount = 0
  /\ apc = [a \in Adders |-> "idle"]
  /\ arg = [a \in Adders |-> None]
  /\ dest = [a \in Adders |-> 0]
  /\ started = 0
  /\ stopping = 0
  /\ m_isEnable = [w \in Workers |-> FALSE]
  /\ m_queue = [w \in Workers |-> <<>>]
  /\ wpc = [w \in Workers |-> "unborn"]
  /\ cur = [w \in Workers |-> None]
  /\ m_nIndex = [t \in Tasks |-> 0]
  /\ phase = [t \in Tasks |-> "new"]
  /\ ticket = [t \in Tasks |-> 0]
  /\ pushes = 0
  /\ late = [w \in Workers |-> 0]
  /\ missed = [a \in Adders |-> FALSE]

-----------------------------------------------------------------------------
(* Start and Stop walk over the workers one at a time.                     *)

\* One turn of the loop of WorkerPool::Start, with Worker::Start.
StartWorker ==
  /\ started < WorkerCount
  /\ m_isEnable' = [m_isEnable EXCEPT ![started] = TRUE]
  /\ wpc' = [wpc EXCEPT ![started] = "run"]
  /\ started' = started + 1
  /\ UNCHANGED <<addVars, stopping, cur, late, taskVars, m_queue, phase, missed,
                 m_nTaskCount, m_nTaskFailedCount>>

\* One turn of the loop of WorkerPool::Stop, called after Start has returned
\* (before that m_vecWorker[i] does not exist).
StopWorker ==
  /\ MayStop
  /\ started = WorkerCount
  /\ stopping < WorkerCount
  /\ m_isEnable' = [m_isEnable EXCEPT ![stopping] = FALSE]
  /\ stopping' = stopping + 1
  /\ UNCHANGED <<addVars, started, workVars, taskVars, m_queue, phase, missed,
                 m_nTaskCount, m_nTaskFailedCount>>

ResetTaskFailedCount ==
  /\ m_nTaskFailedCount # 0
  /\ m_nTaskFailedCount' = 0
  /\ UNCHANGED <<addVars, poolVars, workVars, taskVars, m_queue, phase, missed,
                 m_nTaskCount>>

-----------------------------------------------------------------------------
(* AddTask, in the thread of adder a.                                      *)

\* The uint32_t product the predicate of the wait compares with.
Limit == (WorkerMaxTaskCount * WorkerCount) % Word

\* Mutant: the wrap comes one worker too early.
NextIndexShort ==
  IF m_nWorkerIndex + 2 >= WorkerCount THEN 0 ELSE m_nWorkerIndex + 1

\* m_nWorkerIndex++ and the wrap to 0.
NextIndex ==
  IF m_nWorkerIndex + 1 >= WorkerCount THEN 0 ELSE m_nWorkerIndex + 1

\* Mutant: the keyed AddTask picks the shortest queue.
HashIndexIgnoringKey(k) ==
  CHOOSE w \in Workers : \A v \in Workers : Len(m_queue[w]) <= Len(m_queue[v])

\* Mutant: the result of the hash function is used unchecked.
HashIndexUnchecked(k) == HashOf[k] % Word

\* The hash function's int32_t becomes a uint32_t; out of range means 0.
HashIndex(k) ==
  LET h == HashOf[k] % Word IN IF h >= WorkerCount THEN 0 ELSE h

Hashed(t) == HasHashFunc /\ KeyOf[t] # NoKey

\* Mutant: AddTask does not lock m_mutex.
NoLock == TRUE

\* m_mutex can be locked.
MutexFree == m_mutex = None

\* A client calls AddTask; it may only do so once Start has returned.
CallAddTask(a, t) ==
  /\ apc[a] = "idle"
  /\ phase[t] = "new"
  /\ started = WorkerCount
  /\ apc' = [apc EXCEPT ![a] = "lock"]
  /\ arg' = [arg EXCEPT ![a] = t]
  /\ phase' = [phase EXCEPT ![t] = "offered"]
  /\ UNCHANGED <<m_mutex, m_nWorkerIndex, dest, poolVars, workVars, taskVars,
                 m_queue, missed, m_nTaskCount, m_nTaskFailedCount>>

\* Lock m_mutex and choose the worker.  m_vecWorker holds WorkerCount workers,
\* so p is never NULL here.
ChooseWorker(a) ==
  /\ apc[a] = "lock"
  /\ MutexFree
  /\ m_mutex' = a
  /\ \/ /\ Hashed(arg[a])
        /\ dest' = [dest EXCEPT ![a] = HashIndex(KeyOf[arg[a]])]
        /\ UNCHANGED m_nWorkerIndex
     \/ /\ ~Hashed(arg[a])
        /\ m_nWorkerIndex' = NextIndex
        /\ dest' = [dest EXCEPT ![a] = NextIndex]
  /\ apc' = [apc EXCEPT ![a] = IF EnableMax THEN "check" ELSE "push"]
  /\ UNCHANGED <<arg, poolVars, workVars, taskVars, m_queue, phase, missed,
                 m_nTaskCount, m_nTaskFailedCount>>

\* The predicate of m_queueCond.wait, evaluated with m_mutex held.
CheckLimit(a) ==
  /\ apc[a] = "check"
  /\ apc' = [apc EXCEPT ![a] = IF m_nTaskCount > Limit THEN "sleep" ELSE "push"]
  /\ UNCHANGED <<m_mutex, m_nWorkerIndex, arg, dest, poolVars, workVars,
                 taskVars, m_queue, phase, missed, m_nTaskCount,
                 m_nTaskFailedCount>>

\* m_queueCond.wait releases m_mutex and blocks, in one step.
Block(a) ==
  /\ apc[a] = "sleep"
  /\ m_mutex' = None
  /\ apc' = [apc EXCEPT ![a] = "blocked"]
  /\ UNCHANGED <<m_nWorkerIndex, arg, dest, poolVars, workVars, taskVars,
                 m_queue, phase, missed, m_nTaskCount, m_nTaskFailedCount>>

\* A condition variable may wake a waiter that nobody notified.
SpuriousWakeup(a) ==
  /\ apc[a] = "blocked"
  /\ apc' = [apc EXCEPT ![a] = "woken"]
  /\ UNCHANGED <<m_mutex, m_nWorkerIndex, arg, dest, poolVars, workVars,
                 taskVars, m_queue, phase, missed, m_nTaskCount,
                 m_nTaskFailedCount>>

\* Mutant: an "if" around a plain wait instead of the wait with a predicate.
RelockWithoutRecheck(a) ==
  /\ apc[a] = "woken"
  /\ MutexFree
  /\ m_mutex' = a
  /\ apc' = [apc EXCEPT ![a] = "push"]
  /\ UNCHANGED <<m_nWorkerIndex, arg, dest, poolVars, workVars, taskVars,
                 m_queue, phase, missed, m_nTaskCount, m_nTaskFailedCount>>

\* A woken waiter takes m_mutex again and goes back to the predicate.
Relock(a) ==
  /\ apc[a] = "woken"
  /\ MutexFree
  /\ m_mutex' = a
  /\ apc' = [apc EXCEPT ![a] = "check"]
  /\ UNCHANGED <<m_nWorkerIndex, arg, dest, poolVars, workVars, taskVars,
                 m_queue, phase, missed, m_nTaskCount, m_nTaskFailedCount>>

\* pTask->SetIndex and Worker::AddTask.
Push(a) ==
  LET t == arg[a] IN
  /\ apc[a] = "push"
  /\ m_nIndex' = [m_nIndex EXCEPT ![t] = dest[a]]
  /\ m_queue' = [m_queue EXCEPT ![dest[a]] = Append(@, t)]
  /\ phase' = [phase EXCEPT ![t] = "queued"]
  /\ pushes' = pushes + 1
  /\ ticket' = [ticket EXCEPT ![t] = pushes + 1]
  /\ apc' = [apc EXCEPT ![a] = "count"]
  /\ UNCHANGED <<m_mutex, m_nWorkerIndex, arg, dest, poolVars, workVars, missed,
                 m_nTaskCount, m_nTaskFailedCount>>

\* m_nTaskCount++, then AddTask returns and unlocks m_mutex.
CountTask(a) ==
  /\ apc[a] = "count"
  /\ m_nTaskCount' = (m_nTaskCount + 1) % Word
  /\ m_mutex' = None
  /\ apc' = [apc EXCEPT ![a] = "idle"]
  /\ arg' = [arg EXCEPT ![a] = None]
  /\ dest' = [dest EXCEPT ![a] = 0]
  /\ missed' = [missed EXCEPT ![a] = FALSE]
  /\ UNCHANGED <<m_nWorkerIndex, poolVars, workVars, taskVars, m_queue, phase,
                 m_nTaskFailedCount>>

-----------------------------------------------------------------------------
(* The thread of worker w: Worker::Run, Handle and, when the limit is      *)
(* enabled, the pool's TaskCompleteStatus.                                 *)

\* Mutant: Run loops forever.
TestNothing(w) ==
  /\ wpc[w] = "run"
  /\ wpc' = [wpc EXCEPT ![w] = "pop"]
  /\ UNCHANGED <<addVars, poolVars, cur, late, taskVars, m_queue, phase, missed,
                 m_nTaskCount, m_nTaskFailedCount>>

\* The condition of Run's loop.
TestEnable(w) ==
  /\ wpc[w] = "run"
  /\ wpc' = [wpc EXCEPT ![w] = IF m_isEnable[w] THEN "pop" ELSE "closed"]
  /\ UNCHANGED <<addVars, poolVars, cur, late, taskVars, m_queue, phase, missed,
                 m_nTaskCount, m_nTaskFailedCount>>

\* Mutant: the queue keeps its last element back.
QueueReadyLate(w) == Len(m_queue[w]) > 1

\* SyncQueue::pop waits for a queue that is not empty.
QueueReady(w) == m_queue[w] # <<>>

\* m_queue.pop() in Worker::Handle.
Pop(w) ==
  /\ wpc[w] = "pop"
  /\ QueueReady(w)
  /\ cur' = [cur EXCEPT ![w] = Head(m_queue[w])]
  /\ m_queue' = [m_queue EXCEPT ![w] = Tail(@)]
  /\ phase' = [phase EXCEPT ![Head(m_queue[w])] = "running"]
  /\ late' = [late EXCEPT ![w] = IF m_isEnable[w] THEN @ ELSE @ + 1]
  /\ wpc' = [wpc EXCEPT ![w] = "exec"]
  /\ UNCHANGED <<addVars, poolVars, taskVars, missed, m_nTaskCount,
                 m_nTaskFailedCount>>

\* Execute returns.  Start installs the completion function only when the
\* limit is enabled; without it nothing more happens to the task.
Execute(w) ==
  /\ wpc[w] = "exec"
  /\ phase' = [phase EXCEPT ![cur[w]] = "ran"]
  /\ \/ /\ EnableMax
        /\ wpc' = [wpc EXCEPT ![w] = "complete"]
        /\ UNCHANGED cur
     \/ /\ ~EnableMax
        /\ wpc' = [wpc EXCEPT ![w] = "run"]
        /\ cur' = [cur EXCEPT ![w] = None]
  /\ UNCHANGED <<addVars, poolVars, late, taskVars, m_queue, missed,
                 m_nTaskCount, m_nTaskFailedCount>>

\* TaskCompleteStatus: m_nTaskCount--, without m_mutex.
Uncount(w) ==
  /\ wpc[w] = "complete"
  /\ m_nTaskCount' = (m_nTaskCount - 1) % Word
  /\ phase' = [phase EXCEPT ![cur[w]] = "reported"]
  /\ wpc' = [wpc EXCEPT ![w] = "notify"]
  /\ UNCHANGED <<addVars, poolVars, cur, late, taskVars, m_queue, missed,
                 m_nTaskFailedCount>>

Blocked == {a \in Adders : apc[a] = "blocked"}

\* Mutant: nobody is notified.
WakeNobody == UNCHANGED apc

\* m_queueCond.notify_one(): any one of the blocked adders, if there is one.
WakeOne ==
  \/ Blocked = {} /\ UNCHANGED apc
  \/ \E a \in Blocked : apc' = [apc EXCEPT ![a] = "woken"]

\* TaskCompleteStatus: notify_one, without m_mutex; then the user's callback.
NotifyOne(w) ==
  /\ wpc[w] = "notify"
  /\ WakeOne
  /\ missed' = [a \in Adders |-> missed[a] \/ apc[a] = "sleep"]
  /\ \/ /\ cur[w] \in Fails
        /\ wpc' = [wpc EXCEPT ![w] = "fail"]
        /\ UNCHANGED cur
     \/ /\ cur[w] \notin Fails
        /\ wpc' = [wpc EXCEPT ![w] = "run"]
        /\ cur' = [cur EXCEPT ![w] = None]
  /\ UNCHANGED <<m_mutex, m_nWorkerIndex, arg, dest, poolVars, late, taskVars,
                 m_queue, phase, m_nTaskCount, m_nTaskFailedCount>>

\* TaskCompleteStatus: m_nTaskFailedCount++ for TaskStatusFailed.
CountFailure(w) ==
  /\ wpc[w] = "fail"
  /\ m_nTaskFailedCount' = (m_nTaskFailedCount + 1) % Word
  /\ wpc' = [wpc EXCEPT ![w] = "run"]
  /\ cur' = [cur EXCEPT ![w] = None]
  /\ UNCHANGED <<addVars, poolVars, late, taskVars, m_queue, phase, missed,
                 m_nTaskCount>>

-----------------------------------------------------------------------------
Adder(a) ==
  \/ ChooseWorker(a) \/ CheckLimit(a) \/ Block(a) \/ Relock(a)
  \/ Push(a) \/ CountTask(a)

Worker(w) ==
  \/ TestEnable(w) \/ Pop(w) \/ Execute(w) \/ Uncount(w) \/ NotifyOne(w)
  \/ CountFailure(w)

Next ==
  \/ StartWorker \/ StopWorker \/ ResetTaskFailedCount
  \/ \E a \in Adders : \E t \in Tasks : CallAddTask(a, t)
  \/ \E a \in Adders : Adder(a) \/ SpuriousWakeup(a)
  \/ \E w \in Workers : Worker(w)

Spec == Init /\ [][Next]_vars

(* Threads that can run do run.  Nobody is obliged to call AddTask or Stop, *)
(* and no spurious wakeup has to happen.  Weak fairness is enough for the  *)
(* mutex because the finitely many calls contend for it finitely often.    *)
FairSpec ==
  /\ Spec
  /\ WF_vars(StartWorker)
  /\ \A a \in Adders : WF_vars(Adder(a))
  /\ \A w \in Workers : WF_vars(Worker(w))

-----------------------------------------------------------------------------
TypeOK ==
  /\ m_mutex \in Adders \cup {None}
  /\ m_nWorkerIndex \in Workers
  /\ m_nTaskCount \in 0 .. Word - 1
  /\ m_nTaskFailedCount \in 0 .. Word - 1
  /\ apc \in [Adders -> APC]
  /\ arg \in [Adders -> Tasks \cup {None}]
  /\ dest \in [Adders -> Workers]
  /\ started \in 0 .. WorkerCount
  /\ stopping \in 0 .. WorkerCount
  /\ m_isEnable \in [Workers -> BOOLEAN]
  /\ m_queue \in [Workers -> Seq(Tasks)]
  /\ wpc \in [Workers -> WPC]
  /\ cur \in [Workers -> Tasks \cup {None}]
  /\ m_nIndex \in [Tasks -> Workers]
  /\ phase \in [Tasks -> Phase]
  /\ ticket \in [Tasks -> Nat]
  /\ pushes \in Nat
  /\ late \in [Workers -> Nat]
  /\ missed \in [Adders -> BOOLEAN]

\* Tasks that were pushed and that TaskCompleteStatus has not uncounted.
Outstanding == {t \in Tasks : phase[t] \in {"queued", "running", "ran"}}

\* The adder that holds m_mutex has pushed its task but not counted it yet.
InWindow == m_mutex # None /\ apc[m_mutex] = "count"

(* Workers uncount without m_mutex, and a task can even be uncounted before *)
(* its adder counts it, when m_nTaskCount passes below zero and wraps.      *)
(* Still the atomic is exact: modulo 2^32 it is the number of outstanding   *)
(* tasks, less one only while the holder of m_mutex is between p->AddTask   *)
(* and m_nTaskCount++; so the predicate of the wait never sees a wrap.      *)
CountExact ==
  EnableMax =>
    m_nTaskCount =
      (Cardinality(Outstanding) - (IF InWindow THEN 1 ELSE 0)) % Word

(* What EnableMaxTaskCount buys: at no moment are more than                 *)
(* m_nWorkerMaxTaskCount * m_nWorkerCount + 1 tasks (the test is ">")       *)
(* outstanding, however adders, waits and completions interleave.           *)
TotalBound ==
  EnableMax /\ Limit < Word - 1 => Cardinality(Outstanding) <= Limit + 1

(* The use of the keyed AddTask: tasks with one key run one after another   *)
(* and in the order they were pushed, on whatever worker the key hashes to. *)
KeyOrder ==
  \A t1, t2 \in Tasks :
    /\ Hashed(t1) /\ Hashed(t2) /\ KeyOf[t1] = KeyOf[t2]
    /\ 0 < ticket[t1] /\ ticket[t1] < ticket[t2]
    /\ phase[t2] \in {"running", "ran", "reported"}
    => phase[t1] \in {"ran", "reported"}

\* The tasks w was dealt round robin.
DealtTo(w) == {t \in Tasks : ticket[t] > 0 /\ ~Hashed(t) /\ m_nIndex[t] = w}

(* Round-robin dispatch deals evenly: whenever no AddTask is in progress,   *)
(* two workers were dealt numbers of tasks that differ by at most one, even *)
(* if adders waited for the limit and pushed in another order than they     *)
(* chose their workers, and whatever was dispatched by key in between.      *)
Balanced ==
  (\A a \in Adders : apc[a] = "idle") =>
    \A v, w \in Workers :
      Cardinality(DealtTo(v)) <= Cardinality(DealtTo(w)) + 1

(* After Worker::Stop a worker takes at most one more task: the one that    *)
(* gets it out of the pop it was blocked in, or was about to enter.         *)
StopDrain == \A w \in Workers : late[w] <= 1

(* Unless the pool is stopped, every task AddTask accepted gets executed:   *)
(* no push can be missed by a worker that waits in SyncQueue::pop.          *)
TaskRuns ==
  \A t \in Tasks : phase[t] = "queued" ~> phase[t] \in {"ran", "reported"}

(* Unless the pool is stopped, AddTask returns, but for one case: the       *)
(* notify_one of TaskCompleteStatus, sent without m_mutex, came when some   *)
(* adder had found the limit exceeded and was not asleep yet, and was lost. *)
AddTaskReturns ==
  \A a \in Adders :
    apc[a] # "idle" ~> (apc[a] = "idle" \/ \E b \in Adders : missed[b])

-----------------------------------------------------------------------------
(* The inductive invariant behind CountExact and TotalBound; the theorems  *)
(* are in WorkerPoolProofs.                                                *)

\* m_mutex belongs to the adder that is between its lock and its unlock.
MutexInv ==
  \A a \in Adders :
    apc[a] \in {"check", "sleep", "push", "count"} <=> m_mutex = a

\* An adder that has not pushed yet holds a task nobody else has.
OfferInv ==
  /\ \A a \in Adders :
       apc[a] \notin {"idle", "count"} =>
         arg[a] \in Tasks /\ phase[arg[a]] = "offered"
  /\ \A a, b \in Adders :
       /\ a # b
       /\ apc[a] \notin {"idle", "count"}
       /\ apc[b] \notin {"idle", "count"}
       => arg[a] # arg[b]

\* A worker between its pop and its uncount holds a task nobody else has.
HoldInv ==
  /\ \A w \in Workers :
       /\ wpc[w] \in {"exec", "complete"} => cur[w] \in Tasks
       /\ wpc[w] = "exec" => phase[cur[w]] = "running"
       /\ wpc[w] = "complete" => phase[cur[w]] = "ran"
  /\ \A v, w \in Workers :
       /\ v # w
       /\ wpc[v] \in {"exec", "complete"} /\ wpc[w] \in {"exec", "complete"}
       => cur[v] # cur[w]

\* Every queued task waits for its pop.
WaitingInv ==
  \A w \in Workers : \A i \in 1 .. Len(m_queue[w]) :
    phase[m_queue[w][i]] = "queued"

\* No task is in the queues twice.
DistinctInv ==
  \A v, w \in Workers :
    \A i \in 1 .. Len(m_queue[v]), j \in 1 .. Len(m_queue[w]) :
      m_queue[v][i] = m_queue[w][j] => v = w /\ i = j

QueueInv == WaitingInv /\ DistinctInv

\* An adder past the test of the limit still has room for its task.
LimitInv ==
  EnableMax /\ Limit < Word - 1 =>
    /\ Cardinality(Outstanding) <= Limit + 1
    /\ \A a \in Adders : apc[a] = "push" => Cardinality(Outstanding) <= Limit

IInv ==
  /\ TypeOK /\ MutexInv /\ OfferInv /\ HoldInv /\ QueueInv
  /\ CountExact /\ LimitInv

-----------------------------------------------------------------------------
(* What StopDrain, KeyOrder and Balanced need besides.                     *)

\* A worker that has taken a task after its Stop has left the pop and is not
\* enabled again: Start enables only workers that have no thread yet.
DrainInv ==
  \A w \in Workers :
    /\ w >= started => wpc[w] = "unborn"
    /\ wpc[w] \in {"unborn", "pop"} \/ m_isEnable[w] => late[w] = 0
    /\ late[w] <= 1

\* Tickets are given out in the order of the pushes.
TicketInv ==
  \A t \in Tasks :
    /\ ticket[t] <= pushes
    /\ ticket[t] > 0 <=> phase[t] \in {"queued", "running", "ran", "reported"}

\* A pushed task is where m_nIndex says: in the queue of that worker, sorted
\* by ticket, and then in its hands.
PlaceInv ==
  /\ \A w \in Workers : \A i \in 1 .. Len(m_queue[w]) :
       /\ m_nIndex[m_queue[w][i]] = w
       /\ \A j \in 1 .. Len(m_queue[w]) :
            i < j => ticket[m_queue[w][i]] < ticket[m_queue[w][j]]
  /\ \A t \in Tasks :
       /\ phase[t] = "queued" =>
            \E i \in 1 .. Len(m_queue[m_nIndex[t]]) : m_queue[m_nIndex[t]][i] = t
       /\ phase[t] = "running" =>
            wpc[m_nIndex[t]] = "exec" /\ cur[m_nIndex[t]] = t

\* A worker begins its tasks in the order of their pushes, one after another.
WorkerOrder ==
  \A t1, t2 \in Tasks :
    /\ m_nIndex[t1] = m_nIndex[t2]
    /\ 0 < ticket[t1] /\ ticket[t1] < ticket[t2]
    /\ phase[t2] \in {"running", "ran", "reported"}
    => phase[t1] \in {"ran", "reported"}

\* The adder has chosen its worker and not pushed yet.
Chosen == {"check", "sleep", "blocked", "woken", "push"}

\* A task with a key goes to the worker of its key.
KeyInv ==
  /\ \A a \in Adders :
       apc[a] \in Chosen /\ Hashed(arg[a]) => dest[a] = HashIndex(KeyOf[arg[a]])
  /\ \A t \in Tasks :
       Hashed(t) /\ ticket[t] > 0 => m_nIndex[t] = HashIndex(KeyOf[t])

\* The tasks an adder is about to push to w, having chosen it round robin.
Reserved(w) ==
  {t \in Tasks :
     /\ ~Hashed(t)
     /\ \E a \in Adders : apc[a] \in Chosen /\ arg[a] = t /\ dest[a] = w}

Dealt(w) == DealtTo(w) \cup Reserved(w)

\* The cursor tells which workers are one task ahead in this round.
BalanceInv ==
  \E q \in Nat : \A w \in Workers :
    Cardinality(Dealt(w)) =
      q + (IF 1 <= w /\ w <= m_nWorkerIndex THEN 1 ELSE 0)

OrderIInv ==
  DrainInv /\ TicketInv /\ PlaceInv /\ WorkerOrder /\ KeyInv /\ BalanceInv

=============================================================================
