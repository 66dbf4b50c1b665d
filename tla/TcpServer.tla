----------------------------- MODULE TcpServer -----------------------------
(***************************************************************************)
(* The TCP server of libnetwork/libtcp: CTcpMaster accepts connections and *)
(* deals them to its CWorker threads; each worker runs an event loop that  *)
(* registers the connections handed over to it and closes them.            *)
(*                                                                         *)
(* A connection is handed over by AddTail to the worker's m_connList and a *)
(* byte written to its pipe.  A callback of the event loop is split where  *)
(* another thread can see the difference: at each operation on m_connList, *)
(* on m_connMap (under m_rwLock, see TcpRWLock) and on the descriptors,    *)
(* which the system gives out again once they are closed.                  *)
(*                                                                         *)
(* The specification starts when InitMasterThread has returned, every      *)
(* worker being in its event loop.  ForceCloseConn is called by callbacks  *)
(* of the worker's own thread, for the connection the callback is about.   *)
(* Left out are Send, which changes nothing here, and the bufferevent,     *)
(* which ClientTcpErrorCbCaller clears once more after it was freed.       *)
(***************************************************************************)
EXTENDS Integers, SequencesExt, TcpParams

Workers == 0 .. WorkerCount - 1

VARIABLES
  usedFds,        \* descriptors the system has given out
  sfd,            \* per connection: its descriptor, or None
  state,          \* per connection: "new", "open", or "freed"
  m_nLastThread,
  mpc, marg,      \* master: where it is in DispatchSfdToWorker, pConnInfo
  m_connList,     \* per worker
  m_connMap,      \* per worker: descriptor -> connection; its domain changes
  pipeNotify,     \* per worker: unread bytes in m_pipeNotify
  pipeKeepalive,  \* per worker: unread bytes in m_pipeCheckClientKeepalive
  wpc, warg,      \* per worker: the callback it is in, pConnInfo
  mapTimeout,     \* per worker: what CheckClientKeepaliveCb has yet to close
  dangling        \* m_connList or a worker has a CONN_INFO that is freed

connVars == <<usedFds, sfd, state>>
masterVars == <<m_nLastThread, mpc, marg>>
workVars == <<wpc, warg, mapTimeout>>
serverVars == <<connVars, masterVars, m_connList, m_connMap, pipeNotify,
          pipeKeepalive, workVars, dangling>>

ServerInit ==
  /\ usedFds = {}
  /\ sfd = [c \in Conns |-> None]
  /\ state = [c \in Conns |-> "new"]
  /\ m_nLastThread = 0
  /\ mpc = "accept" /\ marg = None
  /\ m_connList = [w \in Workers |-> <<>>]
  /\ m_connMap = [w \in Workers |-> <<>>]
  /\ pipeNotify = [w \in Workers |-> 0]
  /\ pipeKeepalive = [w \in Workers |-> 0]
  /\ wpc = [w \in Workers |-> "loop"]
  /\ warg = [w \in Workers |-> None]
  /\ mapTimeout = [w \in Workers |-> {}]
  /\ dangling = FALSE

-----------------------------------------------------------------------------
(* The master thread.                                                      *)

\* accept; the system chooses a descriptor that is not in use.
AccepCb(c) ==
  /\ mpc = "accept"
  /\ state[c] = "new"
  /\ \E fd \in Fds \ usedFds :
       /\ usedFds' = usedFds \cup {fd}
       /\ sfd' = [sfd EXCEPT ![c] = fd]
  /\ state' = [state EXCEPT ![c] = "open"]
  /\ mpc' = "dispatch"
  /\ marg' = c
  /\ UNCHANGED <<m_nLastThread, m_connList, m_connMap, pipeNotify,
                 pipeKeepalive, workVars, dangling>>

\* The socket cannot be made non-blocking, or MALLOC fails after the worker is
\* chosen: the descriptor is closed.
DispatchFails ==
  /\ mpc = "dispatch"
  /\ m_nLastThread' \in {m_nLastThread, (m_nLastThread + 1) % WorkerCount}
  /\ usedFds' = usedFds \ {sfd[marg]}
  /\ state' = [state EXCEPT ![marg] = "freed"]
  /\ mpc' = "accept"
  /\ marg' = None
  /\ UNCHANGED <<sfd, m_connList, m_connMap, pipeNotify, pipeKeepalive, workVars,
                 dangling>>

\* Round robin and AddTail.
DispatchSfdToWorker ==
  LET tid == (m_nLastThread + 1) % WorkerCount IN
  /\ mpc = "dispatch"
  /\ m_nLastThread' = tid
  /\ m_connList' = [m_connList EXCEPT ![tid] = Append(@, marg)]
  /\ mpc' = "notify"
  /\ UNCHANGED <<connVars, marg, m_connMap, pipeNotify, pipeKeepalive,
                 workVars, dangling>>

\* Mutant: the byte goes to the worker after the one that was chosen.
NotifyNext ==
  [pipeNotify EXCEPT ![(m_nLastThread + 1) % WorkerCount] = @ + 1]

\* A byte is written to the pipe of the worker.
Notify == [pipeNotify EXCEPT ![m_nLastThread] = @ + 1]

WritePipe ==
  /\ mpc = "notify"
  /\ pipeNotify[m_nLastThread] < PipeSize
  /\ pipeNotify' = Notify
  /\ mpc' = "accept"
  /\ marg' = None
  /\ UNCHANGED <<connVars, m_nLastThread, m_connList, m_connMap, pipeKeepalive,
                 workVars, dangling>>

\* The write fails: the CONN_INFO is closed and freed.  It is still in m_connList,
\* or the worker has taken it already because of an earlier byte; what happens
\* when the worker uses it is not defined.
WriteFails ==
  /\ mpc = "notify"
  /\ usedFds' = usedFds \ {sfd[marg]}
  /\ state' = [state EXCEPT ![marg] = "freed"]
  /\ dangling' = TRUE
  /\ mpc' = "accept"
  /\ marg' = None
  /\ UNCHANGED <<sfd, m_nLastThread, m_connList, m_connMap, pipeNotify,
                 pipeKeepalive, workVars>>

Master == DispatchFails \/ DispatchSfdToWorker \/ WritePipe \/ WriteFails

-----------------------------------------------------------------------------
(* The event loop of worker w.                                             *)

\* One callback runs at a time, and to its end.
Waiting(w) == wpc[w] = "loop" /\ mapTimeout[w] = {}

Run(w, l) == wpc' = [wpc EXCEPT ![w] = l]

\* ReadPipeCb takes one byte.
ReadPipeCb(w) ==
  /\ Waiting(w)
  /\ pipeNotify[w] > 0
  /\ pipeNotify' = [pipeNotify EXCEPT ![w] = @ - 1]
  /\ Run(w, "drain")
  /\ UNCHANGED <<connVars, masterVars, m_connList, m_connMap, pipeKeepalive,
                 warg, mapTimeout, dangling>>

\* Mutant: GetHead instead of GetHeadAndRemove.
RestKept(w) == m_connList[w]

\* GetHeadAndRemove: what it leaves.
Rest(w) == Tail(m_connList[w])

TakeHead(w) ==
  /\ wpc[w] = "drain"
  /\ m_connList[w] # <<>>
  /\ m_connList' = [m_connList EXCEPT ![w] = Rest(w)]
  /\ warg' = [warg EXCEPT ![w] = Head(m_connList[w])]
  /\ Run(w, "init")
  /\ UNCHANGED <<connVars, masterVars, m_connMap, pipeNotify, pipeKeepalive,
                 mapTimeout, dangling>>

\* GetCount is 0.
EndDrain(w) ==
  /\ wpc[w] = "drain"
  /\ m_connList[w] = <<>>
  /\ Run(w, "loop")
  /\ UNCHANGED <<connVars, masterVars, m_connList, m_connMap, pipeNotify,
                 pipeKeepalive, warg, mapTimeout, dangling>>

MapWith(w, fd, c) ==
  [f \in DOMAIN m_connMap[w] \cup {fd} |-> IF f = fd THEN c ELSE m_connMap[w][f]]

\* InitNewConn, and the insertion into m_connMap.
InitNewConn(w) ==
  /\ wpc[w] = "init"
  /\ m_connMap' =
       [m_connMap EXCEPT ![w] = MapWith(w, sfd[warg[w]], warg[w])]
  /\ warg' = [warg EXCEPT ![w] = None]
  /\ Run(w, "drain")
  /\ UNCHANGED <<connVars, masterVars, m_connList, pipeNotify, pipeKeepalive,
                 mapTimeout, dangling>>

\* The bufferevent is not created: CloseConn.
InitFails(w) ==
  /\ wpc[w] = "init"
  /\ usedFds' = usedFds \ {sfd[warg[w]]}
  /\ state' = [state EXCEPT ![warg[w]] = "freed"]
  /\ warg' = [warg EXCEPT ![w] = None]
  /\ Run(w, "drain")
  /\ UNCHANGED <<sfd, masterVars, m_connList, m_connMap, pipeNotify,
                 pipeKeepalive, mapTimeout, dangling>>

\* The timer of worker w fires, in the thread of CEventTimer.
EventCallback(w) ==
  /\ pipeKeepalive[w] < PipeSize
  /\ pipeKeepalive' = [pipeKeepalive EXCEPT ![w] = @ + 1]
  /\ UNCHANGED <<connVars, masterVars, m_connList, m_connMap, pipeNotify,
                 workVars, dangling>>

\* Any of the connections in m_connMap may have timed out.
CheckClientKeepaliveCb(w) ==
  /\ Waiting(w)
  /\ pipeKeepalive[w] > 0
  /\ pipeKeepalive' = [pipeKeepalive EXCEPT ![w] = @ - 1]
  /\ mapTimeout' \in {[mapTimeout EXCEPT ![w] = S] : S \in SUBSET Range(m_connMap[w])}
  /\ UNCHANGED <<connVars, masterVars, m_connList, m_connMap, pipeNotify, wpc,
                 warg, dangling>>

\* ClientTcpEventCb is called for a connection: by libevent for the end of the
\* stream, an error or a time-out, by ForceCloseConn, or for the next one that
\* the keepalive check has found.
ClientTcpEventCb(w) ==
  /\ wpc[w] = "loop"
  /\ \E c \in IF mapTimeout[w] = {} THEN Range(m_connMap[w]) ELSE mapTimeout[w] :
       warg' = [warg EXCEPT ![w] = c]
  /\ Run(w, "erase")
  /\ UNCHANGED <<connVars, masterVars, m_connList, m_connMap, pipeNotify,
                 pipeKeepalive, mapTimeout, dangling>>

MapWithout(w, fd) == [f \in DOMAIN m_connMap[w] \ {fd} |-> m_connMap[w][f]]

\* CloseConn: m_connMap.erase.
Erase(w) ==
  /\ wpc[w] = "erase"
  /\ m_connMap' = [m_connMap EXCEPT ![w] = MapWithout(w, sfd[warg[w]])]
  /\ Run(w, "free")
  /\ UNCHANGED <<connVars, masterVars, m_connList, pipeNotify, pipeKeepalive,
                 warg, mapTimeout, dangling>>

\* CloseConn: bufferevent_free, which closes the descriptor, and FREE.
CloseConn(w) ==
  /\ wpc[w] = "free"
  /\ usedFds' = usedFds \ {sfd[warg[w]]}
  /\ state' = [state EXCEPT ![warg[w]] = "freed"]
  /\ warg' = [warg EXCEPT ![w] = None]
  /\ mapTimeout' = [mapTimeout EXCEPT ![w] = @ \ {warg[w]}]
  /\ Run(w, "loop")
  /\ UNCHANGED <<sfd, masterVars, m_connList, m_connMap, pipeNotify,
                 pipeKeepalive, dangling>>

-----------------------------------------------------------------------------
\* A callback that has begun is continued.
Callback(w) ==
  \/ TakeHead(w) \/ EndDrain(w) \/ InitNewConn(w) \/ InitFails(w)
  \/ mapTimeout[w] # {} /\ ClientTcpEventCb(w)
  \/ Erase(w) \/ CloseConn(w)

Worker(w) ==
  \/ ReadPipeCb(w) \/ CheckClientKeepaliveCb(w)
  \/ mapTimeout[w] = {} /\ ClientTcpEventCb(w)
  \/ Callback(w)

ServerNext ==
  /\ ~dangling
  /\ \/ \E c \in Conns : AccepCb(c)
     \/ Master
     \/ \E w \in Workers : Worker(w) \/ EventCallback(w)

ServerSpec == ServerInit /\ [][ServerNext]_serverVars

(* The master and the workers run; libevent calls the callback of a pipe   *)
(* that can be read.  Nothing is asked of clients and timers.              *)
ServerFairness ==
  /\ WF_serverVars(~dangling /\ Master)
  /\ \A w \in Workers :
       /\ WF_serverVars(~dangling /\ ReadPipeCb(w))
       /\ WF_serverVars(~dangling /\ Callback(w))

-----------------------------------------------------------------------------

Places == {"master", "list", "map", "worker"}

\* Connection c is in this place, that of worker w if each worker has one.
IsAt(c, place, w) ==
  \/ place = "master" /\ mpc = "dispatch" /\ marg = c /\ w = m_nLastThread
  \/ place = "list" /\ Contains(m_connList[w], c)
  \/ place = "map" /\ c \in Range(m_connMap[w])
  \/ place = "worker" /\ warg[w] = c /\ wpc[w] # "erase"

\* Who is to hand connection c on, or to free it.
Owners(c) == {p \in Places \X Workers : IsAt(c, p[1], p[2])}

(* An open connection is in one place: with the master before AddTail, in  *)
(* one list, with the worker that took it from there or removed it from    *)
(* its map, or in one map; a freed one is nowhere.  So none is leaked,     *)
(* given to two workers, or used or freed by one who does not own it.  A   *)
(* map names connections under their own descriptors, and since one leaves *)
(* the map before its descriptor is closed, a descriptor that the system   *)
(* gives out again is never in two maps: a worker's index and a descriptor *)
(* mean one connection.  All this unless a write to a pipe failed.         *)
OneOwner ==
  ~dangling =>
    /\ \A c \in Conns :
         Cardinality(Owners(c)) = IF state[c] = "open" THEN 1 ELSE 0
    /\ \A w \in Workers : \A fd \in DOMAIN m_connMap[w] :
         /\ sfd[m_connMap[w][fd]] = fd
         /\ fd \in usedFds
         /\ \A v \in Workers \ {w} : fd \notin DOMAIN m_connMap[v]

\* Connection c is in a map, or it was and is closed.
Served(c) == state[c] = "freed" \/ \E w \in Workers : c \in Range(m_connMap[w])

(* An accepted connection is registered with a worker or closed, whatever  *)
(* the keepalive checks and the other connections do, unless a write to a  *)
(* pipe failed.                                                            *)
AcceptedIsServed ==
  \A c \in Conns : state[c] = "open" ~> Served(c) \/ dangling

-----------------------------------------------------------------------------
(* The inductive invariant behind OneOwner; the theorem is in              *)
(* LibsProofs.                                                             *)

ConnMap == UNION {[S -> Conns] : S \in SUBSET Fds}

ServerTypeOK ==
  /\ usedFds \subseteq Fds
  /\ sfd \in [Conns -> Fds \cup {None}]
  /\ state \in [Conns -> {"new", "open", "freed"}]
  /\ m_nLastThread \in Workers
  /\ mpc \in {"accept", "dispatch", "notify"}
  /\ marg \in Conns \cup {None}
  /\ m_connList \in [Workers -> Seq(Conns)]
  /\ m_connMap \in [Workers -> ConnMap]
  /\ pipeNotify \in [Workers -> Nat]
  /\ pipeKeepalive \in [Workers -> Nat]
  /\ wpc \in [Workers -> {"loop", "drain", "init", "erase", "free"}]
  /\ warg \in [Workers -> Conns \cup {None}]
  /\ mapTimeout \in [Workers -> SUBSET Conns]
  /\ dangling \in BOOLEAN

\* pConnInfo of the master and of the workers, and what is left of mapTimeout:
\* connections that are still in m_connMap, or the one being freed.
ArgInv ==
  /\ mpc = "accept" <=> marg = None
  /\ \A w \in Workers :
       /\ wpc[w] \in {"loop", "drain"} <=> warg[w] = None
       /\ wpc[w] = "erase" => warg[w] \in Range(m_connMap[w])
       /\ wpc[w] \in {"drain", "init"} => mapTimeout[w] = {}
       /\ mapTimeout[w] \subseteq
            Range(m_connMap[w]) \cup {c \in {warg[w]} : wpc[w] = "free"}

\* Open connections have descriptors of their own, under which the maps name
\* them.
FdInv ==
  /\ \A c \in Conns : state[c] = "open" => sfd[c] \in usedFds
  /\ \A c, d \in Conns :
       state[c] = "open" /\ state[d] = "open" /\ sfd[c] = sfd[d] => c = d
  /\ \A w \in Workers : \A fd \in DOMAIN m_connMap[w] :
       sfd[m_connMap[w][fd]] = fd

\* No list holds a connection twice.
ListInv ==
  \A w \in Workers : \A i, j \in 1 .. Len(m_connList[w]) :
    m_connList[w][i] = m_connList[w][j] => i = j

\* Connection c is there and nowhere else; it is nowhere.
IsOnlyAt(c, place, w) ==
  \A q \in Places, v \in Workers : IsAt(c, q, v) <=> q = place /\ v = w

IsNowhere(c) == \A q \in Places, v \in Workers : ~IsAt(c, q, v)

\* An open connection is in one place, another one in none.
PlaceInv ==
  \A c \in Conns :
    IF state[c] = "open"
    THEN \E place \in Places, w \in Workers : IsOnlyAt(c, place, w)
    ELSE IsNowhere(c)

ServerIInv ==
  /\ ServerTypeOK
  /\ ~dangling => ArgInv /\ FdInv /\ ListInv /\ PlaceInv
=============================================================================
