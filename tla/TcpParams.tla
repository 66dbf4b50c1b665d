----------------------------- MODULE TcpParams -----------------------------
(***************************************************************************)
(* The clients and the settings of the TCP server.                         *)
(***************************************************************************)
EXTENDS Naturals

CONSTANTS
  Conns,          \* the connections that clients may open
  Fds,            \* descriptors for them; 0 is the standard input's
  WorkerCount,    \* m_nThreadCount
  PipeSize,       \* the bytes a pipe holds: a write waits while it is full
  None

ASSUME WorkerCountAssumption ==
  WorkerCount \in Nat \ {0} /\ PipeSize \in Nat \ {0}
ASSUME ConnsAssumption == None \notin Conns \cup Fds /\ Fds \subseteq Nat \ {0}
=============================================================================
