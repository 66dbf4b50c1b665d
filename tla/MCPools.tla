------------------------------ MODULE MCPools ------------------------------
(***************************************************************************)
(* Both connection pools in one model: a behaviour uses one of them, which *)
(* the variable "which" names, and leaves the other as it was constructed. *)
(***************************************************************************)
EXTENDS PGPool, RedisPool

VARIABLE which

MCInit == Init /\ RedisInit /\ which \in {"pg", "redis"}

MCNext ==
  \/ which = "pg" /\ Next /\ UNCHANGED <<which, redisVars>>
  \/ which = "redis" /\ RedisNext /\ UNCHANGED <<which, vars>>

MCSpec == MCInit /\ [][MCNext]_<<vars, redisVars, which>>

-----------------------------------------------------------------------------
(* Two users never share a connection or a Redis client, the pools return  *)
(* one to the URL or host they were asked for, and close none while a user *)
(* has it.                                                                 *)
PoolsImplementSlotPool == ImplementsSlotPool /\ RedisImplementsSlotPool

(* The lists of both pools are exact: idle connections under their URL,    *)
(* idle clients under their host, empty slots under "NULL", and none that  *)
(* the vector does not have.                                               *)
ListsExact ==
  TypeOK /\ IdleListsExact /\ RedisTypeOK /\ ClientListsExact

(* CPGConnectionPool loses no slot unless a connection broke or the pool   *)
(* was resized twice, CRedisClientPool none while it has a list of empty   *)
(* ones.                                                                   *)
NoneLost == NoSlotLost /\ NoClientSlotLost
=============================================================================
