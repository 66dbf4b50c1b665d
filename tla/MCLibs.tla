------------------------------- MODULE MCLibs -------------------------------
(***************************************************************************)
(* The readers-writer locks of libpublic and libtcp, the server of libtcp  *)
(* and ByteBuffer in one model.  A behaviour uses one of them, which the   *)
(* variable "which" names, and leaves the others as they were constructed. *)
(***************************************************************************)
EXTENDS RWMutex, TcpRWLock, TcpServer, ByteBuffer

VARIABLE which

MCInit ==
  /\ Init /\ TcpInit /\ ServerInit /\ BufferInit
  /\ which \in {"RWMutex", "RWLock", "server", "ByteBuffer"}
  /\ which # "ByteBuffer" => \A n \in Capacities : m_nCapacity <= n

MCNext ==
  \/ /\ which = "RWMutex" /\ Next
     /\ UNCHANGED <<which, tcpVars, serverVars, bufferVars>>
  \/ /\ which = "RWLock" /\ TcpNext
     /\ UNCHANGED <<which, vars, serverVars, bufferVars>>
  \/ /\ which = "server" /\ ServerNext
     /\ UNCHANGED <<which, vars, tcpVars, bufferVars>>
  \/ /\ which = "ByteBuffer" /\ BufferNext
     /\ UNCHANGED <<which, vars, tcpVars, serverVars>>

\* The fairness of the objects that are not used asks for nothing: their
\* threads are idle.
MCSpec ==
  /\ MCInit
  /\ [][MCNext]_<<which, vars, tcpVars, serverVars, bufferVars>>
  /\ Fairness
  /\ TcpFairness
  /\ ServerFairness
=============================================================================
