----------------------------- MODULE TcpRWLock -----------------------------
(***************************************************************************)
(* tcp::RWLock of libnetwork/libtcp/rwLock.h, the readers-writer lock that *)
(* guards the connection map of a TCP worker.  One unlock serves readers   *)
(* and writers; it tells them apart by the sign of status_.                *)
(*                                                                         *)
(* As in RWMutex an operation is atomic from its lock of mutex_ to its end *)
(* or to its block in a wait, and every notify is sent under mutex_.       *)
(***************************************************************************)
EXTENDS Integers, FiniteSets, CondVar, ThreadSet

VARIABLES
  status_,           \* -1: one writer, 0: free, n > 0: n readers
  waiting_readers_,
  waiting_writers_,
  tcpPc              \* per thread: as pc in RWMutex

tcpVars == <<status_, waiting_readers_, waiting_writers_, tcpPc>>

TcpPC == {"idle", "rBlocked", "rWoken", "reading",
          "wBlocked", "wWoken", "writing"}

TcpInit ==
  /\ status_ = 0
  /\ waiting_readers_ = 0
  /\ waiting_writers_ = 0
  /\ tcpPc = [t \in Threads |-> "idle"]

TcpIn(S) == {t \in Threads : tcpPc[t] \in S}

-----------------------------------------------------------------------------
(* rlock and wlock count themselves as waiting before they test, so the    *)
(* count of waiting threads includes woken ones that have not run yet.     *)

\* The condition of rlock's loop.
MustNotRead == status_ < 0 \/ waiting_writers_ > 0

\* rlock, from its call.
rlock(t) ==
  /\ tcpPc[t] = "idle"
  /\ \/ /\ MustNotRead
        /\ waiting_readers_' = waiting_readers_ + 1
        /\ tcpPc' = [tcpPc EXCEPT ![t] = "rBlocked"]
        /\ UNCHANGED status_
     \/ /\ ~MustNotRead
        /\ status_' = status_ + 1
        /\ tcpPc' = [tcpPc EXCEPT ![t] = "reading"]
        /\ UNCHANGED waiting_readers_
  /\ UNCHANGED waiting_writers_

\* rlock, from a wakeup in read_cond_.
rlockAgain(t) ==
  /\ tcpPc[t] = "rWoken"
  /\ \/ /\ MustNotRead
        /\ tcpPc' = [tcpPc EXCEPT ![t] = "rBlocked"]
        /\ UNCHANGED <<status_, waiting_readers_>>
     \/ /\ ~MustNotRead
        /\ waiting_readers_' = waiting_readers_ - 1
        /\ status_' = status_ + 1
        /\ tcpPc' = [tcpPc EXCEPT ![t] = "reading"]
  /\ UNCHANGED waiting_writers_

\* Mutant: the writer only looks out for another writer.
MustNotWriteBesideWriter == status_ < 0

\* The condition of wlock's loop.
MustNotWrite == status_ # 0

\* wlock, from its call.
wlock(t) ==
  /\ tcpPc[t] = "idle"
  /\ \/ /\ MustNotWrite
        /\ waiting_writers_' = waiting_writers_ + 1
        /\ tcpPc' = [tcpPc EXCEPT ![t] = "wBlocked"]
        /\ UNCHANGED status_
     \/ /\ ~MustNotWrite
        /\ status_' = status_ - 1
        /\ tcpPc' = [tcpPc EXCEPT ![t] = "writing"]
        /\ UNCHANGED waiting_writers_
  /\ UNCHANGED waiting_readers_

\* wlock, from a wakeup in write_cond_.
wlockAgain(t) ==
  /\ tcpPc[t] = "wWoken"
  /\ \/ /\ MustNotWrite
        /\ tcpPc' = [tcpPc EXCEPT ![t] = "wBlocked"]
        /\ UNCHANGED <<status_, waiting_writers_>>
     \/ /\ ~MustNotWrite
        /\ waiting_writers_' = waiting_writers_ - 1
        /\ status_' = status_ - 1
        /\ tcpPc' = [tcpPc EXCEPT ![t] = "writing"]
  /\ UNCHANGED waiting_readers_

\* notify_one of read_cond_ for one waiting reader, notify_all for more.
TcpWakeReaders(pcs) ==
  IF waiting_readers_ = 1
  THEN NotifyOne(pcs, "rBlocked", "rWoken")
  ELSE NotifyAll(pcs, "rBlocked", "rWoken")

\* Mutant: writers are notified only by an unlock that ends a write.
WakeWriterAfterWrite(pcs) ==
  IF status_ < 0 THEN NotifyOne(pcs, "wBlocked", "wWoken") ELSE {pcs}

\* notify_one of write_cond_.
TcpWakeWriter(pcs) == NotifyOne(pcs, "wBlocked", "wWoken")

unlock(t) ==
  /\ tcpPc[t] \in {"reading", "writing"}
  /\ status_' = IF status_ < 0 THEN status_ + 1
                ELSE IF status_ > 0 THEN status_ - 1 ELSE status_
  /\ LET pcs == [tcpPc EXCEPT ![t] = "idle"] IN
     tcpPc' \in IF waiting_writers_ > 0
             THEN IF status_' = 0 THEN TcpWakeWriter(pcs) ELSE {pcs}
             ELSE IF waiting_readers_ > 0 THEN TcpWakeReaders(pcs) ELSE {pcs}
  /\ UNCHANGED <<waiting_readers_, waiting_writers_>>

\* A wait may also return when nobody notified.
TcpSpuriousWakeup(t) ==
  /\ \/ tcpPc[t] = "rBlocked" /\ tcpPc' = [tcpPc EXCEPT ![t] = "rWoken"]
     \/ tcpPc[t] = "wBlocked" /\ tcpPc' = [tcpPc EXCEPT ![t] = "wWoken"]
  /\ UNCHANGED <<status_, waiting_readers_, waiting_writers_>>

TcpNext ==
  \E t \in Threads :
    \/ rlock(t) \/ rlockAgain(t) \/ wlock(t) \/ wlockAgain(t) \/ unlock(t)
    \/ TcpSpuriousWakeup(t)

TcpSpec == TcpInit /\ [][TcpNext]_tcpVars

(* A woken thread gets mutex_ and runs on, and whoever holds the lock      *)
(* gives it back; nobody is obliged to ask for it.                         *)
TcpFairness ==
  \A t \in Threads :
    /\ WF_tcpVars(rlockAgain(t))
    /\ WF_tcpVars(wlockAgain(t))
    /\ WF_tcpVars(unlock(t))

-----------------------------------------------------------------------------
TcpTypeOK ==
  /\ status_ \in Int
  /\ waiting_readers_ \in Nat
  /\ waiting_writers_ \in Nat
  /\ tcpPc \in [Threads -> TcpPC]

TcpHolds ==
  [t \in Threads |-> CASE tcpPc[t] = "reading" -> "read"
                       [] tcpPc[t] = "writing" -> "write"
                       [] OTHER -> "none"]

TcpRW == INSTANCE RWLockSpec WITH holds <- TcpHolds

(* RWLock is a readers-writer lock: a thread enters for reading only when  *)
(* no thread writes, and for writing only when no other is inside.         *)
TcpImplementsRWLock == TcpRW!Spec

(* status_ is what the comment on it says, and unlock, which only looks at *)
(* its sign, always undoes the acquisition of the thread that calls it;    *)
(* the counts of waiting threads include the woken ones.                   *)
TcpStatusExact ==
  /\ status_ = IF TcpIn({"writing"}) # {} THEN -1
               ELSE Cardinality(TcpIn({"reading"}))
  /\ TcpIn({"writing"}) # {} =>
       Cardinality(TcpIn({"writing"})) = 1 /\ TcpIn({"reading"}) = {}
  /\ waiting_readers_ = Cardinality(TcpIn({"rBlocked", "rWoken"}))
  /\ waiting_writers_ = Cardinality(TcpIn({"wBlocked", "wWoken"}))

(* No wakeup is lost, although unlock notifies only one reader when it     *)
(* counts one: when writers wait, one of them or a writer that came later  *)
(* gets the lock; and unless writers keep coming, a waiting reader enters. *)
TcpLockProgress ==
  /\ waiting_writers_ > 0 ~> status_ = -1
  /\ <>[](TcpIn({"wBlocked", "wWoken", "writing"}) = {}) =>
       \A t \in Threads :
         tcpPc[t] \in {"rBlocked", "rWoken"} ~> tcpPc[t] = "reading"
=============================================================================
