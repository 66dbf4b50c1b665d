----------------------------- MODULE BatchPool -----------------------------
(***************************************************************************)
(* BatchWorkerMgr of libpublic/workpool and its BatchWorker threads.       *)
(* Clients call AddTask as on a WorkerPool, except that the task is        *)
(* counted before it is pushed.  A worker whose queue is not empty gathers *)
(* tasks until it has MaxBatch of them or its time is up, executes them    *)
(* with one call of ExecuteBatch, and then calls TaskComplete once for     *)
(* each of them.                                                           *)
(*                                                                         *)
(* One action is one atomic step of a thread, as in WorkerPool.  A reading *)
(* of the clock is the choice whether the time is up.  The list factory is *)
(* given to Init, so every worker has a list.                              *)
(***************************************************************************)
EXTENDS PoolParams

CONSTANTS
  Hashes,           \* what the hash function returns for the keys in use
  SetBatch,         \* BatchWorkerMgr::m_nMaxBatch
  DefaultMaxBatch,
  MayStop           \* somebody calls BatchWorkerMgr::Stop

ASSUME BatchAssumption ==
  /\ Hashes \subseteq Int
  /\ SetBatch \in Nat
  /\ DefaultMaxBatch \in Nat \ {0}
  /\ MayStop \in BOOLEAN

VARIABLES
  m_isEnableMaxTaskCount,
  m_mutex, m_nWorkerIndex, m_nTaskCount,
  cpc, arg, hash,      \* per client: where it is in AddTask, pTask, the hash of
                       \* sHashKey (None for AddTask(pTask) or without function)
  dest,                \* per client: index of p
  started, stopping,   \* progress of Start's and of Stop's loop
  m_isEnable, m_queue, wpc,
  list,                \* per worker: m_taskListInterface
  completed,           \* per worker: calls of TaskComplete for this batch
  phase,               \* per task (history): how far it has come
  pushed, executed,    \* per worker (history): tasks in the order of their
                       \* pushes and of their execution
  late,                \* per worker (history): batches begun after its Stop
  missed               \* per client (history): a notify fell between its
                       \* test of the limit and its going to sleep

addVars == <<m_mutex, m_nWorkerIndex, arg, hash, dest>>
poolVars == <<m_isEnableMaxTaskCount, started, stopping, m_isEnable>>
batchVars == <<list, completed, executed, late>>
vars == <<addVars, poolVars, batchVars, m_nTaskCount, cpc, m_queue, wpc, phase,
          pushed, missed>>

Init ==
  /\ m_isEnableMaxTaskCount = FALSE
  /\ m_mutex = None
  /\ m_nWorkerIndex = 0
  /\ m_nTaskCount = 0
  /\ cpc = [c \in Clients |-> "idle"]
  /\ arg = [c \in Clients |-> None]
  /\ hash = [c \in Clients |-> None]
  /\ dest = [c \in Clients |-> 0]
  /\ started = 0
  /\ stopping = 0
  /\ m_isEnable = [w \in Workers |-> FALSE]
  /\ m_queue = [w \in Workers |-> <<>>]
  /\ wpc = [w \in Workers |-> "unborn"]
  /\ list = [w \in Workers |-> <<>>]
  /\ completed = [w \in Workers |-> 0]
  /\ phase = [t \in Tasks |-> "new"]
  /\ pushed = [w \in Workers |-> <<>>]
  /\ executed = [w \in Workers |-> <<>>]
  /\ late = [w \in Workers |-> 0]
  /\ missed = [c \in Clients |-> FALSE]

-----------------------------------------------------------------------------
(* Start and Stop walk over the workers one at a time.                     *)

\* EnableMaxTaskCount, called before Start: a worker that is started without
\* it has no completion function and would never count down.
EnableMaxTaskCount ==
  /\ started = 0
  /\ m_isEnableMaxTaskCount' = TRUE
  /\ UNCHANGED <<addVars, started, stopping, m_isEnable, batchVars, m_nTaskCount,
                 cpc, m_queue, wpc, phase, pushed, missed>>

\* One turn of the loop of Start, with BatchWorker::Start.
StartWorker ==
  /\ started < WorkerCount
  /\ m_isEnable' = [m_isEnable EXCEPT ![started] = TRUE]
  /\ wpc' = [wpc EXCEPT ![started] = "run"]
  /\ started' = started + 1
  /\ UNCHANGED <<m_isEnableMaxTaskCount, addVars, stopping, batchVars, m_nTaskCount,
                 cpc, m_queue, phase, pushed, missed>>

\* One turn of the loop of Stop, called after Start has returned.
StopWorker ==
  /\ MayStop
  /\ started = WorkerCount
  /\ stopping < WorkerCount
  /\ m_isEnable' = [m_isEnable EXCEPT ![stopping] = FALSE]
  /\ stopping' = stopping + 1
  /\ UNCHANGED <<m_isEnableMaxTaskCount, addVars, started, batchVars, m_nTaskCount,
                 cpc, m_queue, wpc, phase, pushed, missed>>

-----------------------------------------------------------------------------
(* AddTask, in the thread of client c.                                     *)

Goto(c, l) == cpc' = [cpc EXCEPT ![c] = l]

\* A client calls AddTask; it may only do so once Start has returned.
CallAddTask(c, t, h) ==
  /\ cpc[c] = "idle"
  /\ phase[t] = "new"
  /\ started = WorkerCount
  /\ Goto(c, "lock")
  /\ arg' = [arg EXCEPT ![c] = t]
  /\ hash' = [hash EXCEPT ![c] = h]
  /\ phase' = [phase EXCEPT ![t] = "offered"]
  /\ UNCHANGED <<m_mutex, m_nWorkerIndex, dest, poolVars, batchVars,
                 m_nTaskCount, m_queue, wpc, pushed, missed>>

\* m_nWorkerIndex++ and the wrap to 0.
NextIndex == IF m_nWorkerIndex + 1 >= WorkerCount THEN 0 ELSE m_nWorkerIndex + 1

\* The hash function's int32_t becomes a uint32_t; out of range means 0.
HashIndex(h) == IF h % Word >= WorkerCount THEN 0 ELSE h % Word

\* Lock m_mutex and choose the worker.
ChooseWorker(c) ==
  /\ cpc[c] = "lock"
  /\ m_mutex = None
  /\ m_mutex' = c
  /\ \/ /\ hash[c] # None
        /\ dest' = [dest EXCEPT ![c] = HashIndex(hash[c])]
        /\ UNCHANGED m_nWorkerIndex
     \/ /\ hash[c] = None
        /\ m_nWorkerIndex' = NextIndex
        /\ dest' = [dest EXCEPT ![c] = NextIndex]
  /\ Goto(c, IF m_isEnableMaxTaskCount THEN "check" ELSE "push")
  /\ UNCHANGED <<arg, hash, poolVars, batchVars, m_nTaskCount, m_queue, wpc, phase,
                 pushed, missed>>

\* The uint32_t product the predicate of the wait compares with.
Limit == (WorkerMaxTaskCount * WorkerCount) % Word

\* The predicate of m_queueCond.wait, evaluated with m_mutex held.
CheckLimit(c) ==
  /\ cpc[c] = "check"
  /\ Goto(c, IF m_nTaskCount > Limit THEN "sleep" ELSE "count")
  /\ UNCHANGED <<addVars, poolVars, batchVars, m_nTaskCount, m_queue, wpc, phase,
                 pushed, missed>>

\* m_queueCond.wait releases m_mutex and blocks, in one step.
Block(c) ==
  /\ cpc[c] = "sleep"
  /\ m_mutex' = None
  /\ Goto(c, "blocked")
  /\ UNCHANGED <<m_nWorkerIndex, arg, hash, dest, poolVars, batchVars, m_nTaskCount,
                 m_queue, wpc, phase, pushed, missed>>

\* A wait may also return when nobody notified.
SpuriousWakeup(c) ==
  /\ cpc[c] = "blocked"
  /\ Goto(c, "woken")
  /\ UNCHANGED <<addVars, poolVars, batchVars, m_nTaskCount, m_queue, wpc, phase,
                 pushed, missed>>

\* A woken waiter takes m_mutex again and goes back to the predicate.
Relock(c) ==
  /\ cpc[c] = "woken"
  /\ m_mutex = None
  /\ m_mutex' = c
  /\ Goto(c, "check")
  /\ UNCHANGED <<m_nWorkerIndex, arg, hash, dest, poolVars, batchVars, m_nTaskCount,
                 m_queue, wpc, phase, pushed, missed>>

\* m_nTaskCount++, before the push.
CountTask(c) ==
  /\ cpc[c] = "count"
  /\ m_nTaskCount' = (m_nTaskCount + 1) % Word
  /\ phase' = [phase EXCEPT ![arg[c]] = "counted"]
  /\ Goto(c, "push")
  /\ UNCHANGED <<addVars, poolVars, batchVars, m_queue, wpc, pushed, missed>>

\* pTask->SetIndex and BatchWorker::AddTask; AddTask returns and unlocks.
Push(c) ==
  /\ cpc[c] = "push"
  /\ m_queue' = [m_queue EXCEPT ![dest[c]] = Append(@, arg[c])]
  /\ pushed' = [pushed EXCEPT ![dest[c]] = Append(@, arg[c])]
  /\ phase' = [phase EXCEPT ![arg[c]] = "queued"]
  /\ m_mutex' = None
  /\ Goto(c, "idle")
  /\ arg' = [arg EXCEPT ![c] = None]
  /\ hash' = [hash EXCEPT ![c] = None]
  /\ dest' = [dest EXCEPT ![c] = 0]
  /\ missed' = [missed EXCEPT ![c] = FALSE]
  /\ UNCHANGED <<m_nWorkerIndex, poolVars, batchVars, m_nTaskCount, wpc>>

-----------------------------------------------------------------------------
(* The thread of worker w: BatchWorker::Run and Handle.                    *)

\* SetMaxBatch of the worker ignores 0 and leaves the default.
MaxBatch == IF SetBatch = 0 THEN DefaultMaxBatch ELSE SetBatch

\* Mutant: Run loops forever.
TestNothing(w) ==
  /\ wpc[w] = "run"
  /\ wpc' = [wpc EXCEPT ![w] = "test"]
  /\ UNCHANGED <<addVars, poolVars, batchVars, m_nTaskCount, cpc, m_queue, phase,
                 pushed, missed>>

\* The condition of Run's loop.
TestEnable(w) ==
  /\ wpc[w] = "run"
  /\ wpc' = [wpc EXCEPT ![w] = IF m_isEnable[w] THEN "test" ELSE "closed"]
  /\ UNCHANGED <<addVars, poolVars, batchVars, m_nTaskCount, cpc, m_queue, phase,
                 pushed, missed>>

\* IsQueueEmpty: sleep and return, or start the clock and enter the loop,
\* whose condition holds the first time.
TestQueue(w) ==
  /\ wpc[w] = "test"
  /\ wpc' = [wpc EXCEPT ![w] = IF m_queue[w] = <<>> THEN "run" ELSE "gather"]
  /\ late' = [late EXCEPT ![w] =
                IF m_isEnable[w] \/ m_queue[w] = <<>> THEN @ ELSE @ + 1]
  /\ UNCHANGED <<addVars, poolVars, list, completed, executed, m_nTaskCount, cpc,
                 m_queue, phase, pushed, missed>>

\* Mutant: the size is tested with <= .
GoesOnPlusOne(timeUp, n) == ~timeUp /\ n <= MaxBatch

\* Mutant: the time is not looked at.
GoesOnUntilFull(timeUp, n) == n < MaxBatch

\* The condition of the loop: the time is not up and Size() < m_nMaxBatch.
GoesOn(timeUp, n) == ~timeUp /\ n < MaxBatch

\* One turn of the loop: tryPop, AddBatchTask or a short sleep, and the
\* condition again, timeUp being what the clock says.
Gather(w, timeUp) ==
  LET some == m_queue[w] # <<>>
      new == IF some THEN Append(list[w], Head(m_queue[w])) ELSE list[w]
  IN
  /\ wpc[w] = "gather"
  /\ list' = [list EXCEPT ![w] = new]
  /\ m_queue' = IF some THEN [m_queue EXCEPT ![w] = Tail(@)] ELSE m_queue
  /\ wpc' = [wpc EXCEPT ![w] =
               IF GoesOn(timeUp, Len(new)) THEN "gather" ELSE "execute"]
  /\ UNCHANGED <<addVars, poolVars, completed, executed, late, m_nTaskCount, cpc,
                 phase, pushed, missed>>

\* ExecuteBatch of a list that is not empty.  Start installs the completion
\* function only when the limit is enabled; without it only Clear is left.
ExecuteBatch(w) ==
  /\ wpc[w] = "execute"
  /\ list[w] # <<>>
  /\ executed' = [executed EXCEPT ![w] = @ \o list[w]]
  /\ phase' = [t \in Tasks |->
                 IF \E i \in 1 .. Len(list[w]) : list[w][i] = t
                 THEN "ran" ELSE phase[t]]
  /\ \/ /\ m_isEnableMaxTaskCount
        /\ wpc' = [wpc EXCEPT ![w] = "complete"]
        /\ UNCHANGED list
     \/ /\ ~m_isEnableMaxTaskCount
        /\ wpc' = [wpc EXCEPT ![w] = "run"]
        /\ list' = [list EXCEPT ![w] = <<>>]
  /\ UNCHANGED <<addVars, poolVars, completed, late, m_nTaskCount, cpc, m_queue,
                 pushed, missed>>

\* TaskComplete: m_nTaskCount--, without m_mutex.
Uncount(w) ==
  /\ wpc[w] = "complete"
  /\ m_nTaskCount' = (m_nTaskCount - 1) % Word
  /\ completed' = [completed EXCEPT ![w] = @ + 1]
  /\ wpc' = [wpc EXCEPT ![w] = "notify"]
  /\ UNCHANGED <<addVars, poolVars, list, executed, late, cpc, m_queue, phase,
                 pushed, missed>>

\* Mutant: TaskComplete is called once for a batch.
MoreToComplete1(w) == FALSE

\* The loop over the nSize tasks goes on.
MoreToComplete(w) == completed[w] < Len(list[w])

\* TaskComplete: notify_one, without m_mutex; after the last one Clear.
NotifyAdder(w) ==
  /\ wpc[w] = "notify"
  /\ cpc' \in NotifyOne(cpc, "blocked", "woken")
  /\ missed' = [c \in Clients |-> missed[c] \/ cpc[c] = "sleep"]
  /\ \/ /\ MoreToComplete(w)
        /\ wpc' = [wpc EXCEPT ![w] = "complete"]
        /\ UNCHANGED <<list, completed>>
     \/ /\ ~MoreToComplete(w)
        /\ wpc' = [wpc EXCEPT ![w] = "run"]
        /\ list' = [list EXCEPT ![w] = <<>>]
        /\ completed' = [completed EXCEPT ![w] = 0]
  /\ UNCHANGED <<addVars, poolVars, executed, late, m_nTaskCount, m_queue, phase,
                 pushed>>

-----------------------------------------------------------------------------
Client(c) ==
  \/ ChooseWorker(c) \/ CheckLimit(c) \/ Block(c) \/ Relock(c)
  \/ CountTask(c) \/ Push(c)

Worker(w) ==
  \/ TestEnable(w) \/ TestQueue(w)
  \/ \E timeUp \in BOOLEAN : Gather(w, timeUp)
  \/ ExecuteBatch(w) \/ Uncount(w) \/ NotifyAdder(w)

Next ==
  \/ EnableMaxTaskCount \/ StartWorker \/ StopWorker
  \/ \E c \in Clients :
       \/ \E t \in Tasks, h \in Hashes \cup {None} : CallAddTask(c, t, h)
       \/ Client(c) \/ SpuriousWakeup(c)
  \/ \E w \in Workers : Worker(w)

Spec == Init /\ [][Next]_vars

(* Threads that can run do run, and the clock advances, so that the time   *)
(* of a worker that gathers is up in the end.  Nobody is obliged to call   *)
(* AddTask or Stop, and no spurious wakeup has to happen.                  *)
FairSpec ==
  /\ Spec
  /\ WF_vars(StartWorker)
  /\ \A c \in Clients : WF_vars(Client(c))
  /\ \A w \in Workers : WF_vars(Worker(w)) /\ WF_vars(Gather(w, TRUE))

-----------------------------------------------------------------------------
\* The tasks of w's batch that TaskComplete is still to be called for.
Unreported(w) ==
  IF wpc[w] \in {"complete", "notify"}
  THEN {list[w][i] : i \in completed[w] + 1 .. Len(list[w])} ELSE {}

\* The tasks that should count: not executed yet, or not reported yet.
Outstanding ==
  {t \in Tasks : phase[t] \in {"counted", "queued"}}
    \cup UNION {Unreported(w) : w \in Workers}

(* m_nTaskCount is exact at every moment, although TaskComplete runs       *)
(* without m_mutex and once per task of a batch: no task of a batch stays  *)
(* counted when the batch is over.  So the limit bounds the tasks in the   *)
(* pool, the one more that the test with ">" lets in included.             *)
BatchCountExact ==
  m_isEnableMaxTaskCount =>
    /\ m_nTaskCount = Cardinality(Outstanding) % Word
    /\ Limit < Word - 1 => Cardinality(Outstanding) <= Limit + 1

\* What w has gathered and not executed.
Gathered(w) == IF wpc[w] \in {"gather", "execute"} THEN list[w] ELSE <<>>

(* A worker executes exactly what was pushed on its queue, in that order,  *)
(* in batches of 1 to m_nMaxBatch tasks; the list is empty when a batch    *)
(* begins and when the thread ends, so a Stop loses no task that was       *)
(* already taken from the queue.                                           *)
BatchOrder ==
  \A w \in Workers :
    /\ executed[w] \o Gathered(w) \o m_queue[w] = pushed[w]
    /\ wpc[w] \in {"execute", "complete", "notify"} =>
         Len(list[w]) \in 1 .. MaxBatch
    /\ wpc[w] \in {"run", "test", "closed"} => list[w] = <<>>

(* After BatchWorker::Stop a worker executes at most one more batch.       *)
BatchStopDrain == \A w \in Workers : late[w] <= 1

(* Unless the pool is stopped, every task that was pushed is executed,     *)
(* full batch or not, and AddTask returns; but for one case: the           *)
(* notify_one of TaskComplete, sent without m_mutex, came when some client *)
(* had found the limit exceeded and was not asleep yet.                    *)
BatchProgress ==
  /\ \A t \in Tasks :
       phase[t] = "queued" ~> (phase[t] = "ran" \/ stopping > 0)
  /\ \A c \in Clients :
       cpc[c] # "idle" ~>
         (cpc[c] = "idle" \/ stopping > 0 \/ \E d \in Clients : missed[d])

-----------------------------------------------------------------------------
(* The inductive invariant behind BatchCountExact, BatchOrder and          *)
(* BatchStopDrain; the theorems are in BatchPoolProofs.                    *)

CPC == {"idle", "lock", "check", "sleep", "blocked", "woken", "count", "push"}
WPC == {"unborn", "run", "test", "gather", "execute", "complete", "notify", "closed"}
Phase == {"new", "offered", "counted", "queued", "ran"}

TypeOK ==
  /\ m_isEnableMaxTaskCount \in BOOLEAN
  /\ m_mutex \in Clients \cup {None}
  /\ m_nWorkerIndex \in Workers
  /\ m_nTaskCount \in 0 .. Word - 1
  /\ cpc \in [Clients -> CPC]
  /\ arg \in [Clients -> Tasks \cup {None}]
  /\ hash \in [Clients -> Hashes \cup {None}]
  /\ dest \in [Clients -> Workers]
  /\ started \in 0 .. WorkerCount
  /\ stopping \in 0 .. WorkerCount
  /\ m_isEnable \in [Workers -> BOOLEAN]
  /\ m_queue \in [Workers -> Seq(Tasks)]
  /\ wpc \in [Workers -> WPC]
  /\ list \in [Workers -> Seq(Tasks)]
  /\ completed \in [Workers -> Nat]
  /\ phase \in [Tasks -> Phase]
  /\ pushed \in [Workers -> Seq(Tasks)]
  /\ executed \in [Workers -> Seq(Tasks)]
  /\ late \in [Workers -> Nat]
  /\ missed \in [Clients -> BOOLEAN]

\* m_mutex belongs to the client that is between its lock and its unlock.
MutexInv ==
  \A c \in Clients :
    cpc[c] \in {"check", "sleep", "count", "push"} <=> m_mutex = c

\* Before Start has returned there are no tasks.
StartInv ==
  started < WorkerCount => m_nTaskCount = 0 /\ \A t \in Tasks : phase[t] = "new"

\* A client in AddTask holds a task nobody else has, and looks at the limit
\* only if it is enabled.
OfferInv ==
  /\ \A c \in Clients :
       /\ cpc[c] # "idle" =>
            /\ arg[c] \in Tasks
            /\ phase[arg[c]] =
                 IF cpc[c] = "push" /\ m_isEnableMaxTaskCount
                 THEN "counted" ELSE "offered"
       /\ cpc[c] \in {"check", "sleep", "blocked", "woken", "count"} =>
            m_isEnableMaxTaskCount
  /\ \A c, d \in Clients :
       c # d /\ cpc[c] # "idle" /\ cpc[d] # "idle" => arg[c] # arg[d]

\* What w has: its batch, and behind it its queue.
Held(w) == list[w] \o m_queue[w]

\* No task is in two places.
DistinctInv ==
  \A v, w \in Workers :
    \A i \in 1 .. Len(Held(v)), j \in 1 .. Len(Held(w)) :
      Held(v)[i] = Held(w)[j] => v = w /\ i = j

\* The phases of the tasks a worker has.
PhaseInv ==
  \A w \in Workers :
    /\ \A i \in 1 .. Len(m_queue[w]) : phase[m_queue[w][i]] = "queued"
    /\ \A i \in 1 .. Len(list[w]) :
         phase[list[w][i]] =
           IF wpc[w] \in {"complete", "notify"} THEN "ran" ELSE "queued"

\* The size of the batch and the calls of TaskComplete while Handle runs.
BatchInv ==
  \A w \in Workers :
    /\ wpc[w] \in {"unborn", "run", "test", "closed"} => list[w] = <<>>
    /\ wpc[w] = "gather" =>
         Len(list[w]) < MaxBatch /\ (list[w] # <<>> \/ m_queue[w] # <<>>)
    /\ wpc[w] \in {"execute", "complete", "notify"} =>
         Len(list[w]) \in 1 .. MaxBatch
    /\ wpc[w] = "complete" => completed[w] < Len(list[w])
    /\ wpc[w] = "notify" => completed[w] <= Len(list[w])
    /\ wpc[w] \notin {"complete", "notify"} => completed[w] = 0

\* Nothing is lost or exchanged on the way from the push to the execution.
PassInv ==
  \A w \in Workers : executed[w] \o Gathered(w) \o m_queue[w] = pushed[w]

\* A worker that has begun a batch after its Stop has passed the test of the
\* queue and is not enabled again.
DrainInv ==
  \A w \in Workers :
    /\ w >= started => wpc[w] = "unborn"
    /\ wpc[w] \in {"unborn", "test"} \/ m_isEnable[w] => late[w] = 0
    /\ late[w] <= 1

\* A client past the test of the limit still has room for its task.
LimitInv ==
  m_isEnableMaxTaskCount /\ Limit < Word - 1 =>
    \A c \in Clients : cpc[c] = "count" => Cardinality(Outstanding) <= Limit

IInv ==
  /\ TypeOK /\ MutexInv /\ StartInv /\ OfferInv /\ DistinctInv /\ PhaseInv
  /\ BatchInv /\ PassInv /\ DrainInv /\ BatchCountExact /\ LimitInv
=============================================================================
