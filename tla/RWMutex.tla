------------------------------ MODULE RWMutex ------------------------------
(***************************************************************************)
(* Sync::RWMutex of libpublic/rwmutex.h, a readers-writer lock built from  *)
(* a mutex and two condition variables, with preference for writers.       *)
(*                                                                         *)
(* Every operation runs, from its lock of m_mutex to the end of the scope  *)
(* or to the block in wait, without interruption by another operation; and *)
(* every notify is sent with m_mutex held.  So one action is one such      *)
(* stretch.  A thread whose wait was notified ("...Woken") takes m_mutex   *)
(* again and re-evaluates its predicate.                                   *)
(***************************************************************************)
EXTENDS Integers, FiniteSets, CondVar, ThreadSet

VARIABLES
  m_readCount, m_writeCount, m_writing,
  pc  \* per thread: "idle", "reading", "writing", blocked in m_condRead
      \* ("rBlocked") or m_condWrite ("wBlocked"), or woken there

vars == <<m_readCount, m_writeCount, m_writing, pc>>

PC == {"idle", "rBlocked", "rWoken", "reading",
       "wBlocked", "wWoken", "writing"}

Init ==
  /\ m_readCount = 0
  /\ m_writeCount = 0
  /\ m_writing = FALSE
  /\ pc = [t \in Threads |-> "idle"]

In(S) == {t \in Threads : pc[t] \in S}

-----------------------------------------------------------------------------
(* The condition variables.                                                *)

\* Mutant: the writer's notify is forgotten.
WakeNobody(pcs) == {pcs}

\* m_condWrite.notify_one()
WakeWriter(pcs) == NotifyOne(pcs, "wBlocked", "wWoken")

\* m_condRead.notify_all()
WakeReaders(pcs) == NotifyAll(pcs, "rBlocked", "rWoken")

\* A wait may also return when nobody notified.
SpuriousWakeup(t) ==
  /\ \/ pc[t] = "rBlocked" /\ pc' = [pc EXCEPT ![t] = "rWoken"]
     \/ pc[t] = "wBlocked" /\ pc' = [pc EXCEPT ![t] = "wWoken"]
  /\ UNCHANGED <<m_readCount, m_writeCount, m_writing>>

-----------------------------------------------------------------------------
(* The operations, in the thread t.                                        *)

\* Mutant: readers do not look at m_writeCount but at m_writing.
MayReadBehindWriters == ~m_writing

\* The predicate of rLock's wait.
MayRead == m_writeCount = 0

\* rLock, up to the end or to the block in m_condRead.
rLock(t) ==
  /\ pc[t] \in {"idle", "rWoken"}
  /\ \/ /\ MayRead
        /\ m_readCount' = m_readCount + 1
        /\ pc' = [pc EXCEPT ![t] = "reading"]
     \/ /\ ~MayRead
        /\ pc' = [pc EXCEPT ![t] = "rBlocked"]
        /\ UNCHANGED m_readCount
  /\ UNCHANGED <<m_writeCount, m_writing>>

rUnLock(t) ==
  /\ pc[t] = "reading"
  /\ m_readCount' = m_readCount - 1
  /\ LET pcs == [pc EXCEPT ![t] = "idle"] IN
       IF m_readCount' = 0 /\ m_writeCount > 0
       THEN pc' \in WakeWriter(pcs)
       ELSE pc' = pcs
  /\ UNCHANGED <<m_writeCount, m_writing>>

\* Mutant: the predicate forgets the writer that is inside.
MayWriteBesideWriter == m_readCount = 0

\* The predicate of lock's wait.
MayWrite == m_readCount = 0 /\ ~m_writing

\* The wait of lock and what follows it.
EnterOrBlock(t) ==
  \/ /\ MayWrite
     /\ m_writing' = TRUE
     /\ pc' = [pc EXCEPT ![t] = "writing"]
  \/ /\ ~MayWrite
     /\ pc' = [pc EXCEPT ![t] = "wBlocked"]
     /\ UNCHANGED m_writing

\* lock, from its call.
lock(t) ==
  /\ pc[t] = "idle"
  /\ m_writeCount' = m_writeCount + 1
  /\ EnterOrBlock(t)
  /\ UNCHANGED m_readCount

\* lock, from a wakeup in m_condWrite.
lockAgain(t) ==
  /\ pc[t] = "wWoken"
  /\ EnterOrBlock(t)
  /\ UNCHANGED <<m_readCount, m_writeCount>>

unLock(t) ==
  /\ pc[t] = "writing"
  /\ m_writeCount' = m_writeCount - 1
  /\ LET pcs == [pc EXCEPT ![t] = "idle"] IN
       IF m_writeCount' = 0
       THEN pc' \in WakeReaders(pcs)
       ELSE pc' \in WakeWriter(pcs)
  /\ m_writing' = FALSE
  /\ UNCHANGED m_readCount

Next ==
  \E t \in Threads :
    \/ rLock(t) \/ rUnLock(t) \/ lock(t) \/ lockAgain(t) \/ unLock(t)
    \/ SpuriousWakeup(t)

Spec == Init /\ [][Next]_vars

(* A woken thread gets m_mutex and runs on, and whoever holds the lock     *)
(* gives it back; nobody is obliged to ask for it.                         *)
Fairness ==
  \A t \in Threads :
    /\ WF_vars(pc[t] = "rWoken" /\ rLock(t))
    /\ WF_vars(lockAgain(t))
    /\ WF_vars(rUnLock(t))
    /\ WF_vars(unLock(t))

FairSpec == Spec /\ Fairness

-----------------------------------------------------------------------------
TypeOK ==
  /\ m_readCount \in Nat
  /\ m_writeCount \in Nat
  /\ m_writing \in BOOLEAN
  /\ pc \in [Threads -> PC]

\* The lock as its users see it.
Holds ==
  [t \in Threads |-> CASE pc[t] = "reading" -> "read"
                       [] pc[t] = "writing" -> "write"
                       [] OTHER -> "none"]

RW == INSTANCE RWLockSpec WITH holds <- Holds

(* RWMutex is a readers-writer lock: a thread enters for reading only when *)
(* no thread writes, and for writing only when no other is inside.         *)
ImplementsRWLock == RW!Spec

(* The counters the predicates rely on count the threads they are meant to *)
(* count, those that left a wait to be overtaken included, and readers and *)
(* a writer are never inside together.                                     *)
CountersExact ==
  /\ m_readCount = Cardinality(In({"reading"}))
  /\ m_writeCount = Cardinality(In({"wBlocked", "wWoken", "writing"}))
  /\ m_writing <=> In({"writing"}) # {}
  /\ m_writing => m_readCount = 0 /\ Cardinality(In({"writing"})) = 1

(* No reader enters while a writer waits: writers have preference.         *)
WriterPreference ==
  [][In({"wBlocked", "wWoken"}) # {} => In({"reading"})' \subseteq In({"reading"})]_vars

(* No wakeup is lost: when writers want the lock one gets it, whatever     *)
(* readers and other writers do meanwhile; and unless writers keep coming  *)
(* for ever, a blocked reader gets in.                                     *)
LockProgress ==
  /\ m_writeCount > 0 ~> m_writing
  /\ <>[](m_writeCount = 0) =>
       \A t \in Threads : pc[t] \in {"rBlocked", "rWoken"} ~> pc[t] = "reading"
=============================================================================
