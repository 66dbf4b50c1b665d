------------------------------- MODULE PGPool -------------------------------
(***************************************************************************)
(* CPGConnectionPool of libdb: a vector of slots for PostgreSQL            *)
(* connections, the list of slots without a connection and, per connection *)
(* URL, the list of connections that were given back.  Users hold a        *)
(* connection for the life of a CPGClientWrap.                             *)
(*                                                                         *)
(* Every operation runs under m_mutex, the connecting included, and is one *)
(* action.  Time is left out: whether an idle connection has timed out or  *)
(* fails its ping, and whether a connection is up when it is given back,   *)
(* are choices.                                                            *)
(***************************************************************************)
EXTENDS SlotLists

CONSTANTS
  Urls,                 \* connection URLs
  DefaultConnectionCnt, \* m_nDefaultConnectionCnt
  Counts,               \* arguments of setMaxConnectionCnt
  MayBreak,             \* a connection may be down when it is given back
  Dangling              \* a pointer to a deleted ConnItem

\* Counts are ints.
ASSUME CountAssumption ==
  /\ DefaultConnectionCnt \in Nat
  /\ Counts \subseteq Nat /\ IsFiniteSet(Counts)

VARIABLES
  m_vecConnPool,      \* slot -> None, Dangling or a ConnItem
  m_listUseableConn,  \* slots to open a connection in
  m_mapUseableConn,   \* URL -> slots with a connection that was given back
  pConnItem,          \* per user: the slot of its ConnItem, or None
  sError,             \* per user: the outcome of its last getConnection
  resizes,            \* calls of setMaxConnectionCnt so far
  corrupt             \* a deleted ConnItem was deleted again

vars == <<m_vecConnPool, m_listUseableConn, m_mapUseableConn, pConnItem, sError,
          resizes, corrupt>>

ConnItems == [sKey : Urls, eState : {"used", "unused"}]

\* Pointers to different things are different, and a URL is not one.
ASSUME PointerAssumption ==
  {None, Dangling} \cap ConnItems = {} /\ None # Dangling /\ None \notin Urls

Init ==
  /\ m_vecConnPool = [i \in 0 .. DefaultConnectionCnt - 1 |-> None]
  /\ m_listUseableConn = [i \in 1 .. DefaultConnectionCnt |-> i - 1]
  /\ m_mapUseableConn = [k \in Urls |-> <<>>]
  /\ pConnItem = [u \in Users |-> None]
  /\ sError = [u \in Users |-> "none"]
  /\ resizes = 0
  /\ corrupt = FALSE

\* The indices that setMaxConnectionCnt lists.
Added(more) == [i \in 1 .. more |-> DefaultConnectionCnt + i - 1]

\* m_nMaxConnectionCnt keeps its default, so each call counts from there.
setMaxConnectionCnt(n) ==
  LET more == IF n > DefaultConnectionCnt THEN n - DefaultConnectionCnt ELSE 0
      size == Cardinality(DOMAIN m_vecConnPool)
  IN
  /\ resizes < ResizeLimit
  /\ resizes' = resizes + 1
  /\ m_vecConnPool' = [i \in 0 .. size + more - 1 |->
                         IF i < size THEN m_vecConnPool[i] ELSE None]
  /\ m_listUseableConn' = m_listUseableConn \o Added(more)
  /\ UNCHANGED <<m_mapUseableConn, pConnItem, sError, corrupt>>

-----------------------------------------------------------------------------
(* getConnection                                                           *)

\* Mutant: an idle connection is handed out without being unlisted.
GetIdleKept(u, k) ==
  LET i == Head(m_mapUseableConn[k]) IN
  /\ pConnItem[u] = None
  /\ m_mapUseableConn[k] # <<>>
  /\ m_vecConnPool' = [m_vecConnPool EXCEPT ![i].eState = "used"]
  /\ pConnItem' = [pConnItem EXCEPT ![u] = i]
  /\ sError' = [sError EXCEPT ![u] = "none"]
  /\ UNCHANGED <<m_listUseableConn, m_mapUseableConn, resizes, corrupt>>

\* A connection to this URL was given back before.
GetIdle(u, k) ==
  LET i == Head(m_mapUseableConn[k]) IN
  /\ pConnItem[u] = None
  /\ m_mapUseableConn[k] # <<>>
  /\ m_mapUseableConn' = [m_mapUseableConn EXCEPT ![k] = Tail(@)]
  /\ m_vecConnPool' = [m_vecConnPool EXCEPT ![i].eState = "used"]
  /\ pConnItem' = [pConnItem EXCEPT ![u] = i]
  /\ sError' = [sError EXCEPT ![u] = "none"]
  /\ UNCHANGED <<m_listUseableConn, resizes, corrupt>>

\* The first slot of the list takes a new connection.
SlotReady == /\ m_listUseableConn # <<>>
             /\ m_vecConnPool[Head(m_listUseableConn)] = None

GetNew(u, k) ==
  LET i == Head(m_listUseableConn) IN
  /\ pConnItem[u] = None
  /\ m_mapUseableConn[k] = <<>>
  /\ SlotReady
  /\ m_listUseableConn' = Tail(m_listUseableConn)
  /\ m_vecConnPool' =
       [m_vecConnPool EXCEPT ![i] = [sKey |-> k, eState |-> "used"]]
  /\ pConnItem' = [pConnItem EXCEPT ![u] = i]
  /\ sError' = [sError EXCEPT ![u] = "none"]
  /\ UNCHANGED <<m_mapUseableConn, resizes, corrupt>>

\* The server does not accept the new connection.
ConnectFails(u, k) ==
  /\ pConnItem[u] = None
  /\ m_mapUseableConn[k] = <<>>
  /\ SlotReady
  /\ sError' = [sError EXCEPT ![u] = "failed"]
  /\ UNCHANGED <<m_vecConnPool, m_listUseableConn, m_mapUseableConn, pConnItem,
                 resizes, corrupt>>

\* "PG Connection Pool has not idle connection."
Refuse(u, k) ==
  /\ pConnItem[u] = None
  /\ m_mapUseableConn[k] = <<>>
  /\ ~SlotReady
  /\ sError' = [sError EXCEPT ![u] = "refused"]
  /\ UNCHANGED <<m_vecConnPool, m_listUseableConn, m_mapUseableConn, pConnItem,
                 resizes, corrupt>>

-----------------------------------------------------------------------------
(* removeConnection for the slots of S, in ascending order.                *)

\* Mutant: a closed connection stays in the list of its URL.
UnlistNothing(S) == m_mapUseableConn

Unlist(S) ==
  [k \in Urls |-> Without(m_mapUseableConn[k], S)]

\* Mutant: the slot of a closed connection is forgotten.
OfferNothing(S) == m_listUseableConn

Offer(S) == m_listUseableConn \o Ascending(S)

\* The connection is up: it is listed under its URL.
ReturnUp(u) ==
  LET i == pConnItem[u] IN
  /\ i # None
  /\ m_vecConnPool' = [m_vecConnPool EXCEPT ![i].eState = "unused"]
  /\ m_mapUseableConn' =
       [m_mapUseableConn EXCEPT ![m_vecConnPool[i].sKey] = Append(@, i)]
  /\ pConnItem' = [pConnItem EXCEPT ![u] = None]
  /\ UNCHANGED <<m_listUseableConn, sError, resizes, corrupt>>

\* The connection is down: removeConnection deletes the ConnItem, and the
\* slot goes on pointing to it.
ReturnDown(u) ==
  LET i == pConnItem[u] IN
  /\ MayBreak
  /\ i # None
  /\ m_vecConnPool' = [m_vecConnPool EXCEPT ![i] = Dangling]
  /\ m_mapUseableConn' = Unlist({i})
  /\ m_listUseableConn' = Offer({i})
  /\ pConnItem' = [pConnItem EXCEPT ![u] = None]
  /\ UNCHANGED <<sError, resizes, corrupt>>

Idle == {i \in DOMAIN m_vecConnPool :
           /\ m_vecConnPool[i] \notin {None, Dangling}
           /\ m_vecConnPool[i].eState = "unused"}

\* The ticker thread drops the idle connections that timed out or are down.
checkConnection ==
  \E S \in SUBSET Idle :
    /\ m_vecConnPool' = [i \in DOMAIN m_vecConnPool |->
                           IF i \in S THEN None ELSE m_vecConnPool[i]]
    /\ m_mapUseableConn' = Unlist(S)
    /\ m_listUseableConn' = Offer(S)
    /\ UNCHANGED <<pConnItem, sError, resizes, corrupt>>

\* It may also take what is left of a deleted ConnItem for an idle one, and
\* then deletes it a second time; from there on nothing is defined.
checkDangling ==
  /\ \E i \in DOMAIN m_vecConnPool : m_vecConnPool[i] = Dangling
  /\ corrupt' = TRUE
  /\ UNCHANGED <<m_vecConnPool, m_listUseableConn, m_mapUseableConn, pConnItem,
                 sError, resizes>>

-----------------------------------------------------------------------------
User(u) ==
  \/ \E k \in Urls : GetIdle(u, k) \/ GetNew(u, k) \/ ConnectFails(u, k)
                     \/ Refuse(u, k)
  \/ ReturnUp(u) \/ ReturnDown(u)

Next ==
  /\ ~corrupt
  /\ \/ \E n \in Counts : setMaxConnectionCnt(n)
     \/ \E u \in Users : User(u)
     \/ checkConnection
     \/ checkDangling

Spec == Init /\ [][Next]_vars

-----------------------------------------------------------------------------
\* Every index the vector can ever have.
Slots == 0 .. DefaultConnectionCnt + ResizeLimit * Max(Counts \cup {0})

TypeOK ==
  /\ DOMAIN m_vecConnPool \subseteq Slots
  /\ \A i \in DOMAIN m_vecConnPool :
       m_vecConnPool[i] \in ConnItems \cup {None, Dangling}
  /\ m_listUseableConn \in Seq(DOMAIN m_vecConnPool)
  /\ m_mapUseableConn \in [Urls -> Seq(DOMAIN m_vecConnPool)]
  /\ pConnItem \in [Users -> DOMAIN m_vecConnPool \cup {None}]
  /\ sError \in [Users -> {"none", "failed", "refused"}]
  /\ resizes \in 0 .. ResizeLimit
  /\ corrupt \in BOOLEAN

\* The slot holds a ConnItem that is not deleted.
Open(i) == i \in DOMAIN m_vecConnPool /\ m_vecConnPool[i] \notin {None, Dangling}

\* The URL each slot is connected to, or None.
Content == [i \in Slots |-> IF Open(i) THEN m_vecConnPool[i].sKey ELSE None]

Pool == INSTANCE SlotPool WITH
  Keys <- Urls, holder <- pConnItem, content <- Content

(* Whatever is called in whatever order, connections breaking and the pool *)
(* resized: two users never share a connection, getConnection returns one  *)
(* to the URL it was asked for, and no connection is closed while a user   *)
(* has it.                                                                 *)
ImplementsSlotPool == Pool!Spec

(* The lists of idle connections are exact: the list of a URL names the    *)
(* open connections to it that nobody uses, each once.  A connection       *)
(* missing from it would be closed by the time-out only, a closed one left *)
(* in it would be handed out.                                              *)
IdleListsExact ==
  \A k \in Urls :
    /\ IsInjective(m_mapUseableConn[k])
    /\ Range(m_mapUseableConn[k]) = {i \in Idle : m_vecConnPool[i].sKey = k}

\* getConnection tells somebody that there is no idle connection.
Refusal ==
  \E u \in Users : sError[u] # "refused" /\ sError'[u] = "refused"

\* Every slot of the pool holds a connection.
Full == \A i \in DOMAIN m_vecConnPool : Open(i)

(* No slot is lost: as long as no connection was down when it was given    *)
(* back and setMaxConnectionCnt was called once at most, getConnection     *)
(* refuses only when every slot holds a connection.                        *)
NoSlotLost ==
  [][/\ Refusal
     /\ resizes <= 1
     /\ \A i \in DOMAIN m_vecConnPool : m_vecConnPool[i] # Dangling
     => Full]_vars

(* "PG Connection Pool has not idle connection.", the message of           *)
(* getConnection: there is no slot left for a new connection.              *)
RefusalIsTrue == [][Refusal => Full]_vars
=============================================================================
