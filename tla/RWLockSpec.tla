----------------------------- MODULE RWLockSpec -----------------------------
(***************************************************************************)
(* What a readers-writer lock promises its users: any number of threads    *)
(* hold it for reading, or one holds it for writing.  Sync::RWMutex and    *)
(* tcp::RWLock are shown to implement it.                                  *)
(***************************************************************************)
CONSTANT Threads

VARIABLE holds  \* holds[t]: "none", "read" or "write"

Init == holds = [t \in Threads |-> "none"]

AcquireRead(t) ==
  /\ holds[t] = "none"
  /\ \A u \in Threads : holds[u] # "write"
  /\ holds' = [holds EXCEPT ![t] = "read"]

AcquireWrite(t) ==
  /\ \A u \in Threads : holds[u] = "none"
  /\ holds' = [holds EXCEPT ![t] = "write"]

Release(t) ==
  /\ holds[t] # "none"
  /\ holds' = [holds EXCEPT ![t] = "none"]

Next == \E t \in Threads : AcquireRead(t) \/ AcquireWrite(t) \/ Release(t)

Spec == Init /\ [][Next]_holds
=============================================================================
