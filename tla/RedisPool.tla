----------------------------- MODULE RedisPool -----------------------------
(***************************************************************************)
(* CRedisClientPool of libredis: a vector of slots for Redis clients and a *)
(* map of lists of slots, one list per host with the clients that were     *)
(* given back, and one, under the name "NULL", with the empty slots.       *)
(* Users hold a client for the life of a CRedisClientWrap.                 *)
(*                                                                         *)
(* Every operation runs under m_mutex, the connecting included, and is one *)
(* action.  getClient and getClusterClient differ in the kind of client    *)
(* they make; a host stands for a server or a cluster.  Whether an idle   *)
(* client has timed out or fails its ping is a choice, for time is left    *)
(* out, and m_nUsedClientCnt too, which nothing reads.                     *)
(***************************************************************************)
EXTENDS SlotLists

CONSTANTS
  Hosts,             \* servers and clusters
  Null,              \* the name "NULL" in m_MapUseable
  DefaultClientCnt,  \* m_nDefaultClientCnt
  ClientCounts,      \* arguments of setClientCnt
  LateGrow,          \* setClientCnt raises the count when clients exist
  Word               \* the number of values of a uint32_t

\* Counts are unsigned ints, and no host is called "NULL".
ASSUME ClientCountAssumption ==
  /\ Word \in Nat
  /\ DefaultClientCnt \in 1 .. Word - 1
  /\ ClientCounts \subseteq 0 .. Word - 1
  /\ Null \notin Hosts
  /\ None \notin Hosts

VARIABLES
  m_VecClient,      \* slot -> None or a client
  m_MapUseable,     \* name -> list of slots; its domain changes
  m_nCurClientCnt,
  client,           \* per user: the slot of its client, or None
  result,           \* per user: the outcome of its last getClient
  clientResizes     \* calls of setClientCnt so far

redisVars == <<m_VecClient, m_MapUseable, m_nCurClientCnt, client, result,
               clientResizes>>

Clients == [m_Host : Hosts, m_Used : BOOLEAN]

ASSUME ClientAssumption == None \notin Clients

RedisInit ==
  /\ m_VecClient = [i \in 0 .. DefaultClientCnt - 1 |-> None]
  /\ m_MapUseable = [h \in {Null} |-> [i \in 1 .. DefaultClientCnt |-> i - 1]]
  /\ m_nCurClientCnt = DefaultClientCnt
  /\ client = [u \in Users |-> None]
  /\ result = [u \in Users |-> "none"]
  /\ clientResizes = 0

-----------------------------------------------------------------------------
(* The vector and the map.                                                 *)

Size == Cardinality(DOMAIN m_VecClient)

Filled == {i \in DOMAIN m_VecClient : m_VecClient[i] # None}

IdleClients == {i \in Filled : ~m_VecClient[i].m_Used}

\* Set the list of name h in the map f, which may not have it yet.
SetList(f, h, list) ==
  [g \in DOMAIN f \cup {h} |-> IF g = h THEN list ELSE f[g]]

\* Remove the slots S[h] from the list of each name h; a list that loses its
\* last slot leaves the map.
Unlisted(f, S) ==
  [h \in {g \in DOMAIN f : S[g] = {} \/ Without(f[g], S[g]) # <<>>} |->
     Without(f[h], S[h])]

\* getUseableList: the name whose list serves host h, and whether it exists.
ListName(h) == IF h \in DOMAIN m_MapUseable THEN h ELSE Null

NoList(h) ==
  ListName(h) \in DOMAIN m_MapUseable => m_MapUseable[ListName(h)] = <<>>

-----------------------------------------------------------------------------
(* getClient and getClusterClient                                          *)

Answer(u, r) ==
  /\ result' = [result EXCEPT ![u] = r]
  /\ UNCHANGED <<m_VecClient, m_MapUseable, m_nCurClientCnt, client, clientResizes>>

\* "no client can use!"
RefuseClient(u, h) ==
  /\ client[u] = None
  /\ NoList(h)
  /\ Answer(u, "refused")

FrontSlot(h) == Head(m_MapUseable[ListName(h)])

\* The slot is empty and the server does not accept the new client, or the
\* slot is beyond the vector and at() throws: NULL is returned.
NoNewClient(u, h) ==
  /\ client[u] = None
  /\ ~NoList(h)
  /\ FrontSlot(h) \notin Filled
  /\ Answer(u, "failed")

\* pop_front, and erase(strHost), which finds nothing if the list is "NULL"'s.
TakeFront(h) ==
  LET rest == Tail(m_MapUseable[ListName(h)]) IN
  IF rest = <<>> /\ ListName(h) = h
  THEN [g \in DOMAIN m_MapUseable \ {h} |-> m_MapUseable[g]]
  ELSE [m_MapUseable EXCEPT ![ListName(h)] = rest]

\* The slot at the front of the list, with its client or a new one.
GetClient(u, h) ==
  LET i == FrontSlot(h) IN
  /\ client[u] = None
  /\ ~NoList(h)
  /\ i \in DOMAIN m_VecClient
  /\ \/ /\ i \in Filled
        /\ m_VecClient' = [m_VecClient EXCEPT ![i].m_Used = TRUE]
     \/ /\ i \notin Filled
        /\ m_VecClient' =
             [m_VecClient EXCEPT ![i] = [m_Host |-> h, m_Used |-> TRUE]]
  /\ m_MapUseable' = TakeFront(h)
  /\ client' = [client EXCEPT ![u] = i]
  /\ result' = [result EXCEPT ![u] = "client"]
  /\ UNCHANGED <<m_nCurClientCnt, clientResizes>>

returnClient(u) ==
  LET i == client[u]
      h == m_VecClient[i].m_Host
      list == IF h \in DOMAIN m_MapUseable THEN m_MapUseable[h] ELSE <<>>
  IN
  /\ i # None
  /\ m_VecClient' = [m_VecClient EXCEPT ![i].m_Used = FALSE]
  /\ m_MapUseable' = SetList(m_MapUseable, h, Append(list, i))
  /\ client' = [client EXCEPT ![u] = None]
  /\ UNCHANGED <<m_nCurClientCnt, result, clientResizes>>

-----------------------------------------------------------------------------
(* Closing clients and shrinking the vector.                               *)

\* Slots are dropped from the end of the vector v until n are left or the
\* last one is in use.
KeptSize(v, n) ==
  Max({n} \cup {i + 1 : i \in {j \in DOMAIN v : v[j] # None /\ v[j].m_Used}})

Dropped(v, n) == {i \in DOMAIN v : i >= KeptSize(v, n)}

\* Where a slot that goes is listed: under the host of its client or "NULL".
Listed(v, S) ==
  [h \in Hosts \cup {Null} |->
     {i \in S : h = IF v[i] = None THEN Null ELSE v[i].m_Host}]

\* pop_back on the vector v, whose lists are in the map f.
PopBack(v, f, n) ==
  LET drop == Dropped(v, n) IN
  /\ m_VecClient' = [i \in DOMAIN v \ drop |-> v[i]]
  /\ m_MapUseable' = Unlisted(f, Listed(v, drop))

\* The vector and the map once the clients in the slots S are closed.
Closed(S) ==
  [i \in DOMAIN m_VecClient |-> IF i \in S THEN None ELSE m_VecClient[i]]

Emptied(S) ==
  LET map == Unlisted(m_MapUseable, Listed(m_VecClient, S))
  IN  IF Null \in DOMAIN map
      THEN [map EXCEPT ![Null] = @ \o Ascending(S)]
      ELSE map

\* One turn of the ticker: the clients in the slots S, idle for too long or
\* without an answer to ping, are closed; then the vector shrinks.
checkClients ==
  \E S \in SUBSET IdleClients :
    /\ PopBack(Closed(S), Emptied(S), m_nCurClientCnt)
    /\ UNCHANGED <<m_nCurClientCnt, client, result, clientResizes>>

\* A count that is the current one is ignored.
Resize(n) ==
  /\ n # m_nCurClientCnt
  /\ clientResizes < ResizeLimit
  /\ clientResizes' = clientResizes + 1

\* setClientCnt with a smaller count.
Shrink(n) ==
  /\ Resize(n)
  /\ n < m_nCurClientCnt
  /\ PopBack(m_VecClient, m_MapUseable, n)
  /\ m_nCurClientCnt' = n
  /\ UNCHANGED <<client, result>>

\* The slots that are new to the list of "NULL"; the loop starts at the last
\* slot there is (and nowhere, if there is none and the count wraps).
NewSlots(n) ==
  {i \in (m_nCurClientCnt - 1) % Word .. n - 1 :
     ~Contains(m_MapUseable[Null], i)}

\* setClientCnt with a greater count.
Grow(n) ==
  /\ Resize(n)
  /\ n > m_nCurClientCnt
  /\ LateGrow \/ Filled = {}
  /\ m_MapUseable' =
       IF Null \in DOMAIN m_MapUseable
       THEN [m_MapUseable EXCEPT ![Null] = @ \o Ascending(NewSlots(n))]
       ELSE m_MapUseable
  /\ m_VecClient' = [i \in 0 .. Max({Size, n}) - 1 |->
                       IF i < Size THEN m_VecClient[i] ELSE None]
  /\ m_nCurClientCnt' = n
  /\ UNCHANGED <<client, result>>

-----------------------------------------------------------------------------
RedisUser(u) ==
  \/ \E h \in Hosts :
       RefuseClient(u, h) \/ NoNewClient(u, h) \/ GetClient(u, h)
  \/ returnClient(u)

RedisNext ==
  \/ \E u \in Users : RedisUser(u)
  \/ checkClients
  \/ \E n \in ClientCounts : Shrink(n) \/ Grow(n)

RedisSpec == RedisInit /\ [][RedisNext]_redisVars

-----------------------------------------------------------------------------
\* Every index the vector can ever have.
ClientSlots == 0 .. Max(ClientCounts \cup {DefaultClientCnt}) - 1

RedisTypeOK ==
  /\ DOMAIN m_VecClient \subseteq ClientSlots
  /\ \A i \in DOMAIN m_VecClient : m_VecClient[i] \in Clients \cup {None}
  /\ DOMAIN m_MapUseable \subseteq Hosts \cup {Null}
  /\ \A h \in DOMAIN m_MapUseable : m_MapUseable[h] \in Seq(ClientSlots)
  /\ m_nCurClientCnt \in ClientCounts \cup {DefaultClientCnt}
  /\ client \in [Users -> ClientSlots \cup {None}]
  /\ clientResizes \in 0 .. ResizeLimit
  /\ result \in [Users -> {"none", "refused", "failed", "client"}]

\* The host of the client in each slot, or None.
ClientHosts ==
  [i \in ClientSlots |-> IF i \in Filled THEN m_VecClient[i].m_Host ELSE None]

ClientPool == INSTANCE SlotPool WITH
  Slots <- ClientSlots, Keys <- Hosts, holder <- client, content <- ClientHosts

(* Two users never share a client, getClient returns one that is connected *)
(* to the host it was asked for, and no client is deleted while a user has *)
(* it, as long as the count is not raised when clients exist.              *)
RedisImplementsSlotPool == ClientPool!Spec

(* getClient is to return a client that is free for use ("取得一个可用连接", *)
(* redisClientPoll.h): no two users have the same one at a time.           *)
NotShared ==
  \A u, v \in Users : u # v /\ client[u] # None => client[u] # client[v]

(* The lists are exact: the list of a host names its idle clients, each    *)
(* once, and is there only if it is not empty, since getClient looks for   *)
(* an empty slot only when there is no list; the list of "NULL" names      *)
(* empty slots only, each once.                                            *)
ClientListsExact ==
  /\ \A h \in Hosts \cap DOMAIN m_MapUseable :
       m_MapUseable[h] # <<>> /\ IsInjective(m_MapUseable[h])
  /\ \A h \in Hosts :
       {i \in IdleClients : m_VecClient[i].m_Host = h} =
         IF h \in DOMAIN m_MapUseable THEN Range(m_MapUseable[h]) ELSE {}
  /\ Null \in DOMAIN m_MapUseable =>
       /\ IsInjective(m_MapUseable[Null])
       /\ Range(m_MapUseable[Null]) \subseteq DOMAIN m_VecClient \ Filled

\* getClient tells somebody that there is no client.
ClientRefusal ==
  \E u \in Users : result[u] # "refused" /\ result'[u] = "refused"

\* Every slot of the pool holds a client.
ClientsFull == Filled = DOMAIN m_VecClient

(* No slot is lost: as long as the map has a list of empty slots, getClient *)
(* refuses only when every slot holds a client.                            *)
NoClientSlotLost == [][ClientRefusal /\ Null \in DOMAIN m_MapUseable => ClientsFull]_redisVars
=============================================================================
