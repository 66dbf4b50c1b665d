----------------------------- MODULE SyncQueue -----------------------------
(***************************************************************************)
(* SyncQueue of libpublic/syncQueue.h, the queue between the clients and   *)
(* the workers of every pool: push, the blocking pop and tryPop.           *)
(*                                                                         *)
(* Every operation holds m_mutex from its start to its end or to its block *)
(* in m_queueCond, so one critical section is one action.  A woken thread  *)
(* has to take m_mutex again, and others may come first.                   *)
(***************************************************************************)
EXTENDS Naturals, Sequences, ThreadSet, CondVar

CONSTANT Values   \* the values pushed, each once

VARIABLES
  m_queue,
  pc,        \* per thread: "idle", "blocked" in pop's wait, or "woken" from it
  pushed,    \* history: the values in the order of their pushes
  popped     \* history: the values in the order pop and tryPop returned them

queueVars == <<m_queue, pc, pushed, popped>>

QueueInit ==
  /\ m_queue = <<>>
  /\ pc = [t \in Threads |-> "idle"]
  /\ pushed = <<>>
  /\ popped = <<>>

\* Mutant: push notifies only when the queue was empty.
NotifyWhenEmpty ==
  IF m_queue = <<>> THEN NotifyOne(pc, "blocked", "woken") ELSE {pc}

\* push ends with notify_one.
Notified == NotifyOne(pc, "blocked", "woken")

push(t, v) ==
  /\ pc[t] = "idle"
  /\ \A i \in 1 .. Len(pushed) : pushed[i] # v
  /\ m_queue' = Append(m_queue, v)
  /\ pushed' = Append(pushed, v)
  /\ pc' \in Notified
  /\ UNCHANGED popped

\* Mutant: the last element is taken.
TakeLast ==
  /\ m_queue' = SubSeq(m_queue, 1, Len(m_queue) - 1)
  /\ popped' = Append(popped, m_queue[Len(m_queue)])

\* front() and pop() of the std::queue.
Take ==
  /\ m_queue' = Tail(m_queue)
  /\ popped' = Append(popped, Head(m_queue))

\* pop, from its call or from a wakeup, when the queue is not empty.
popValue(t) ==
  /\ pc[t] \in {"idle", "woken"}
  /\ m_queue # <<>>
  /\ Take
  /\ pc' = [pc EXCEPT ![t] = "idle"]
  /\ UNCHANGED pushed

\* pop, from its call or from a wakeup, when the queue is empty.
popBlock(t) ==
  /\ pc[t] \in {"idle", "woken"}
  /\ m_queue = <<>>
  /\ pc' = [pc EXCEPT ![t] = "blocked"]
  /\ UNCHANGED <<m_queue, pushed, popped>>

\* tryPop; on an empty queue it returns false and changes nothing.
tryPop(t) ==
  /\ pc[t] = "idle"
  /\ m_queue # <<>>
  /\ Take
  /\ UNCHANGED <<pc, pushed>>

\* A wait may also return when nobody notified.
SpuriousPop(t) ==
  /\ pc[t] = "blocked"
  /\ pc' = [pc EXCEPT ![t] = "woken"]
  /\ UNCHANGED <<m_queue, pushed, popped>>

QueueNext ==
  \E t \in Threads :
    \/ \E v \in Values : push(t, v)
    \/ popValue(t) \/ popBlock(t) \/ tryPop(t) \/ SpuriousPop(t)

QueueSpec == QueueInit /\ [][QueueNext]_queueVars

-----------------------------------------------------------------------------
QueueTypeOK ==
  /\ m_queue \in Seq(Values)
  /\ pc \in [Threads -> {"idle", "blocked", "woken"}]
  /\ pushed \in Seq(Values)
  /\ popped \in Seq(Values)

Woken == {t \in Threads : pc[t] = "woken"}

(* No notify is lost or wasted: while a thread is blocked in pop, as many  *)
(* threads are on their way out of the wait as there are values in the     *)
(* queue, although push notifies one thread only, a thread that comes      *)
(* later may take the value and a woken thread may go back to sleep.       *)
NoneStranded ==
  (\E t \in Threads : pc[t] = "blocked") => Cardinality(Woken) >= Len(m_queue)

(* Values come out in the order they went in, none twice and none lost,    *)
(* whichever threads take them with whichever operation.                   *)
Fifo == popped \o m_queue = pushed
=============================================================================
