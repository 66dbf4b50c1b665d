--------------------------- MODULE WaitGroupPool ---------------------------
(***************************************************************************)
(* Sync::WaitGroupWorkerMgr of libpublic/workpool with its WaitGroup and   *)
(* its WaitGroupWorker threads.  Clients add tasks and then call Wait,     *)
(* which blocks until the WaitGroup's counter is not positive; workers     *)
(* count down with Done when a task has run.                               *)
(*                                                                         *)
(* One action is one atomic step of a thread, as in WorkerPool.  The mutex *)
(* of the WaitGroup is left out: Wait only reads under it, and neither Add *)
(* nor Done takes it.  Stop destroys workers whose threads go on and is    *)
(* not modelled.                                                           *)
(***************************************************************************)
EXTENDS PoolParams

CONSTANTS
  Fails,      \* the tasks whose Execute ends in TaskStatusFailed
  EnableMax   \* m_isEnableMaxTaskCount

VARIABLES
  m_mutex,             \* holder of WaitGroupWorkerMgr::m_mutex, or None
  m_nWorkerIndex, m_nTaskCount, m_nTaskFailedCount,
  m_nCounter,          \* of the WaitGroup, an atomic int
  started,             \* progress of Start's loop
  cpc, arg, dest,      \* per client: where it is, pTask, index of p
  workerQueue, wpc, cur, \* per worker: its m_queue, where it is, its task
  phase,               \* per task (history): how far it has come
  missed               \* per client (history): a notify came between its last
                       \* test and its going to sleep

counters == <<m_nTaskCount, m_nTaskFailedCount, m_nCounter>>
poolVars == <<m_mutex, m_nWorkerIndex, started, arg, dest>>
workVars == <<workerQueue, wpc, cur>>
vars == <<counters, poolVars, workVars, cpc, phase, missed>>

Init ==
  /\ m_mutex = None
  /\ m_nWorkerIndex = 0 /\ m_nTaskCount = 0 /\ m_nTaskFailedCount = 0
  /\ m_nCounter = 0
  /\ started = 0
  /\ cpc = [c \in Clients |-> "idle"]
  /\ arg = [c \in Clients |-> None]
  /\ dest = [c \in Clients |-> 0]
  /\ workerQueue = [w \in Workers |-> <<>>]
  /\ wpc = [w \in Workers |-> "unborn"]
  /\ cur = [w \in Workers |-> None]
  /\ phase = [t \in Tasks |-> "new"]
  /\ missed = [c \in Clients |-> FALSE]

Goto(c, l) == cpc' = [cpc EXCEPT ![c] = l]

\* One turn of the loop of Start; the workers exist since Init.
StartWorker ==
  /\ started < WorkerCount
  /\ wpc' = [wpc EXCEPT ![started] = "pop"]
  /\ started' = started + 1
  /\ UNCHANGED <<counters, m_mutex, m_nWorkerIndex, arg, dest, workerQueue, cur,
                 cpc, phase, missed>>

-----------------------------------------------------------------------------
(* AddTask, in the thread of client c.                                     *)

CallAddTask(c, t) ==
  /\ cpc[c] = "idle"
  /\ phase[t] = "new"
  /\ Goto(c, "lock")
  /\ arg' = [arg EXCEPT ![c] = t]
  /\ phase' = [phase EXCEPT ![t] = "offered"]
  /\ UNCHANGED <<counters, m_mutex, m_nWorkerIndex, started, dest, workVars,
                 missed>>

\* m_nWorkerIndex++ and the wrap to 0.
NextIndex == IF m_nWorkerIndex + 1 >= WorkerCount THEN 0 ELSE m_nWorkerIndex + 1

\* Lock m_mutex and choose the next worker.
ChooseWorker(c) ==
  /\ cpc[c] = "lock"
  /\ m_mutex = None
  /\ m_mutex' = c
  /\ m_nWorkerIndex' = NextIndex
  /\ dest' = [dest EXCEPT ![c] = NextIndex]
  /\ Goto(c, IF EnableMax THEN "check" ELSE "push")
  /\ UNCHANGED <<counters, started, arg, workVars, phase, missed>>

\* The predicate of m_queueCond.wait.
CheckLimit(c) ==
  /\ cpc[c] = "check"
  /\ Goto(c, IF m_nTaskCount > (WorkerMaxTaskCount * WorkerCount) % Word
             THEN "sleep" ELSE "push")
  /\ UNCHANGED <<counters, poolVars, workVars, phase, missed>>

\* m_queueCond.wait releases m_mutex and blocks.
Block(c) ==
  /\ cpc[c] = "sleep"
  /\ m_mutex' = None
  /\ Goto(c, "blocked")
  /\ UNCHANGED <<counters, m_nWorkerIndex, started, arg, dest, workVars, phase,
                 missed>>

Relock(c) ==
  /\ cpc[c] = "woken"
  /\ m_mutex = None
  /\ m_mutex' = c
  /\ Goto(c, "check")
  /\ UNCHANGED <<counters, m_nWorkerIndex, started, arg, dest, workVars, phase,
                 missed>>

\* p->AddTask.
Push(c) ==
  /\ cpc[c] = "push"
  /\ workerQueue' = [workerQueue EXCEPT ![dest[c]] = Append(@, arg[c])]
  /\ phase' = [phase EXCEPT ![arg[c]] = "queued"]
  /\ Goto(c, "count")
  /\ UNCHANGED <<counters, poolVars, wpc, cur, missed>>

\* m_nTaskCount++.
CountTask(c) ==
  /\ cpc[c] = "count"
  /\ m_nTaskCount' = (m_nTaskCount + 1) % Word
  /\ Goto(c, "add")
  /\ UNCHANGED <<m_nTaskFailedCount, m_nCounter, poolVars, workVars, phase,
                 missed>>

\* Mutant: nothing is added to the WaitGroup for a task that has run already.
AddUnlessDone(c) ==
  /\ cpc[c] = "add"
  /\ m_nCounter' = IF phase[arg[c]] = "done" THEN m_nCounter ELSE m_nCounter + 1
  /\ m_mutex' = None
  /\ Goto(c, "idle")
  /\ missed' = [missed EXCEPT ![c] = FALSE]
  /\ UNCHANGED <<m_nTaskCount, m_nTaskFailedCount, m_nWorkerIndex, started, arg,
                 dest, workVars, phase>>

\* WaitGroup::Add, and the end of AddTask.
Add(c) ==
  /\ cpc[c] = "add"
  /\ m_nCounter' = m_nCounter + 1
  /\ m_mutex' = None
  /\ Goto(c, "idle")
  /\ missed' = [missed EXCEPT ![c] = FALSE]
  /\ UNCHANGED <<m_nTaskCount, m_nTaskFailedCount, m_nWorkerIndex, started, arg,
                 dest, workVars, phase>>

-----------------------------------------------------------------------------
(* WaitGroup::Wait, in the thread of client c.                             *)

CallWait(c) ==
  /\ cpc[c] = "idle"
  /\ Goto(c, "test")
  /\ UNCHANGED <<counters, poolVars, workVars, phase, missed>>

\* Mutant: Wait returns when one task is left.
MayReturnEarly == m_nCounter <= 1

\* The condition of Wait.
MayReturn == m_nCounter <= 0

\* The test before the lock.
WaitTest(c) ==
  /\ cpc[c] = "test"
  /\ Goto(c, IF MayReturn THEN "idle" ELSE "wcheck")
  /\ UNCHANGED <<counters, poolVars, workVars, phase, missed>>

\* The predicate of m_cond.wait.
WaitCheck(c) ==
  /\ cpc[c] \in {"wcheck", "wwoken"}
  /\ Goto(c, IF MayReturn THEN "idle" ELSE "wsleep")
  /\ missed' = IF MayReturn THEN [missed EXCEPT ![c] = FALSE] ELSE missed
  /\ UNCHANGED <<counters, poolVars, workVars, phase>>

WaitBlock(c) ==
  /\ cpc[c] = "wsleep"
  /\ Goto(c, "wblocked")
  /\ UNCHANGED <<counters, poolVars, workVars, phase, missed>>

\* A wait may also return when nobody notified.
SpuriousWakeup(c) ==
  /\ \/ cpc[c] = "blocked" /\ Goto(c, "woken")
     \/ cpc[c] = "wblocked" /\ Goto(c, "wwoken")
  /\ UNCHANGED <<counters, poolVars, workVars, phase, missed>>

-----------------------------------------------------------------------------
(* The thread of worker w: WaitGroupWorker::Handle and TaskCompleteStatus. *)

\* m_queue.pop() and Execute.
Pop(w) ==
  /\ wpc[w] = "pop"
  /\ workerQueue[w] # <<>>
  /\ cur' = [cur EXCEPT ![w] = Head(workerQueue[w])]
  /\ workerQueue' = [workerQueue EXCEPT ![w] = Tail(@)]
  /\ phase' = [phase EXCEPT ![Head(workerQueue[w])] = "running"]
  /\ wpc' = [wpc EXCEPT ![w] = "exec"]
  /\ UNCHANGED <<counters, poolVars, cpc, missed>>

\* The end of Execute, and m_nTaskCount--.
Uncount(w) ==
  /\ wpc[w] = "exec"
  /\ m_nTaskCount' = (m_nTaskCount - 1) % Word
  /\ wpc' = [wpc EXCEPT ![w] = "dec"]
  /\ UNCHANGED <<m_nTaskFailedCount, m_nCounter, poolVars, workerQueue, cur,
                 cpc, phase, missed>>

\* WaitGroup::Done: m_nCounter--.
Dec(w) ==
  /\ wpc[w] = "dec"
  /\ m_nCounter' = m_nCounter - 1
  /\ phase' = [phase EXCEPT ![cur[w]] = "done"]
  /\ wpc' = [wpc EXCEPT ![w] = "load"]
  /\ UNCHANGED <<m_nTaskCount, m_nTaskFailedCount, poolVars, workerQueue, cur,
                 cpc, missed>>

\* Mutant: Done notifies only when the counter is exactly 0.
MustNotifyAtZero == m_nCounter = 0

\* WaitGroup::Done: the test before notify_all.
MustNotify == m_nCounter <= 0

Load(w) ==
  /\ wpc[w] = "load"
  /\ wpc' = [wpc EXCEPT ![w] = IF MustNotify THEN "notify" ELSE "fail"]
  /\ UNCHANGED <<counters, poolVars, workerQueue, cur, cpc, phase, missed>>

\* WaitGroup::Done: m_cond.notify_all(), without the mutex.
NotifyWaiters(w) ==
  /\ wpc[w] = "notify"
  /\ cpc' \in NotifyAll(cpc, "wblocked", "wwoken")
  /\ missed' = [c \in Clients |-> missed[c] \/ cpc[c] = "wsleep"]
  /\ wpc' = [wpc EXCEPT ![w] = "fail"]
  /\ UNCHANGED <<counters, poolVars, workerQueue, cur, phase>>

\* m_nTaskFailedCount++ for TaskStatusFailed.
CountFailure(w) ==
  /\ wpc[w] = "fail"
  /\ m_nTaskFailedCount' =
       IF cur[w] \in Fails THEN (m_nTaskFailedCount + 1) % Word
       ELSE m_nTaskFailedCount
  /\ wpc' = [wpc EXCEPT ![w] = IF EnableMax THEN "adders" ELSE "pop"]
  /\ UNCHANGED <<m_nTaskCount, m_nCounter, poolVars, workerQueue, cur, cpc,
                 phase, missed>>

\* m_queueCond.notify_one(), without m_mutex.
NotifyAdder(w) ==
  /\ wpc[w] = "adders"
  /\ cpc' \in NotifyOne(cpc, "blocked", "woken")
  /\ missed' = [c \in Clients |-> missed[c] \/ cpc[c] = "sleep"]
  /\ wpc' = [wpc EXCEPT ![w] = "pop"]
  /\ UNCHANGED <<counters, poolVars, workerQueue, cur, phase>>

-----------------------------------------------------------------------------
\* Tasks that were pushed and that Done has not been called for.
Unfinished == {t \in Tasks : phase[t] \in {"queued", "running"}}

(* Reset, called between two rounds: when no other call is in progress and *)
(* every task is done.  Workers may still be behind Done in                *)
(* TaskCompleteStatus, but no longer touch what the stores set to 0, save  *)
(* the count of failures.                                                  *)
Reset ==
  /\ \A c \in Clients : cpc[c] = "idle"
  /\ Unfinished = {}
  /\ m_nTaskFailedCount' = 0
  /\ m_nTaskCount' = 0
  /\ m_nCounter' = 0
  /\ UNCHANGED <<poolVars, workVars, cpc, phase, missed>>

Client(c) ==
  \/ ChooseWorker(c) \/ CheckLimit(c) \/ Block(c) \/ Relock(c) \/ Push(c)
  \/ CountTask(c) \/ Add(c)
  \/ WaitTest(c) \/ WaitCheck(c) \/ WaitBlock(c)

Worker(w) ==
  \/ Pop(w) \/ Uncount(w) \/ Dec(w) \/ Load(w) \/ NotifyWaiters(w)
  \/ CountFailure(w) \/ NotifyAdder(w)

Next ==
  \/ StartWorker
  \/ \E c \in Clients :
       \/ \E t \in Tasks : CallAddTask(c, t)
       \/ CallWait(c) \/ Client(c) \/ SpuriousWakeup(c)
  \/ \E w \in Workers : Worker(w)
  \/ Reset

Spec == Init /\ [][Next]_vars

(* Threads that can run do run.  Nobody is obliged to call an operation,   *)
(* and no spurious wakeup has to happen.  The fairness of Start is stated  *)
(* where the pool is used.                                                 *)
Fairness ==
  /\ \A c \in Clients : WF_vars(Client(c))
  /\ \A w \in Workers : WF_vars(Worker(w))

-----------------------------------------------------------------------------
CPC == {"idle", "lock", "check", "sleep", "blocked", "woken", "push", "count",
        "add", "test", "wcheck", "wsleep", "wblocked", "wwoken"}
WPC == {"unborn", "pop", "exec", "dec", "load", "notify", "fail", "adders"}
Phase == {"new", "offered", "queued", "running", "done"}

TypeOK ==
  /\ m_mutex \in Clients \cup {None}
  /\ m_nWorkerIndex \in Workers
  /\ m_nTaskCount \in 0 .. Word - 1
  /\ m_nTaskFailedCount \in 0 .. Word - 1
  /\ m_nCounter \in Int
  /\ started \in 0 .. WorkerCount
  /\ cpc \in [Clients -> CPC]
  /\ arg \in [Clients -> Tasks \cup {None}]
  /\ dest \in [Clients -> Workers]
  /\ workerQueue \in [Workers -> Seq(Tasks)]
  /\ wpc \in [Workers -> WPC]
  /\ cur \in [Workers -> Tasks \cup {None}]
  /\ phase \in [Tasks -> Phase]
  /\ missed \in [Clients -> BOOLEAN]

\* A client is between p->AddTask and Add.
InWindow == m_mutex # None /\ cpc[m_mutex] \in {"count", "add"}

(* Done can come before Add, and the counter be negative for a while; but  *)
(* it always is the number of unfinished tasks, less one only while some   *)
(* client is between p->AddTask and Add.                                   *)
CounterExact ==
  m_nCounter = Cardinality(Unfinished) - (IF InWindow THEN 1 ELSE 0)

\* No client leaves Wait with a task unfinished, other than the one that
\* another client is adding.
WaitStep ==
  \A c \in Clients :
    cpc[c] \in {"test", "wcheck", "wwoken"} /\ cpc'[c] = "idle" =>
      Cardinality(Unfinished) <= (IF InWindow THEN 1 ELSE 0)

(* When Wait returns every task that was added is done; one can still be   *)
(* unfinished only if another client is inside AddTask at that moment.  A  *)
(* client that is alone can rely on Wait.                                  *)
WaitSound == [][WaitStep]_vars

(* Wait returns, but for one case: a notify_all, sent without the mutex,   *)
(* came when the waiter had tested the counter and was not asleep yet; or  *)
(* the same happened to an AddTask, and its client holds a task back.      *)
WaitReturns ==
  \A c \in Clients :
    cpc[c] = "wcheck" ~> (cpc[c] = "idle" \/ \E d \in Clients : missed[d])

-----------------------------------------------------------------------------
(* The inductive invariant behind CounterExact and WaitSound; the theorems *)
(* are in QueueProofs.                                                     *)

\* m_mutex belongs to the client that is between its lock and its unlock.
MutexInv ==
  \A c \in Clients :
    cpc[c] \in {"check", "sleep", "push", "count", "add"} <=> m_mutex = c

\* Where a client has a task that it has not pushed yet.
BeforePush == {"lock", "check", "sleep", "blocked", "woken", "push"}

\* That task is nobody else's.
OfferInv ==
  /\ \A c \in Clients : cpc[c] \in BeforePush =>
       arg[c] \in Tasks /\ phase[arg[c]] = "offered"
  /\ \A c, d \in Clients :
       c # d /\ cpc[c] \in BeforePush /\ cpc[d] \in BeforePush => arg[c] # arg[d]

\* A worker between its pop and Done has a task nobody else has.
HoldInv ==
  /\ \A w \in Workers : wpc[w] \in {"exec", "dec"} =>
       cur[w] \in Tasks /\ phase[cur[w]] = "running"
  /\ \A v, w \in Workers :
       v # w /\ wpc[v] \in {"exec", "dec"} /\ wpc[w] \in {"exec", "dec"} =>
         cur[v] # cur[w]

\* Every queued task waits for its pop.
WaitingInv ==
  \A w \in Workers : \A i \in 1 .. Len(workerQueue[w]) :
    phase[workerQueue[w][i]] = "queued"

\* No task is in the queues twice.
DistinctInv ==
  \A v, w \in Workers :
    \A i \in 1 .. Len(workerQueue[v]), j \in 1 .. Len(workerQueue[w]) :
      workerQueue[v][i] = workerQueue[w][j] => v = w /\ i = j

IInv ==
  /\ TypeOK /\ MutexInv /\ OfferInv /\ HoldInv /\ WaitingInv /\ DistinctInv
  /\ CounterExact
=============================================================================
