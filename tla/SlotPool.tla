------------------------------ MODULE SlotPool ------------------------------
(***************************************************************************)
(* What a connection pool promises its users.  The pool has slots, and a   *)
(* slot holds no connection or one to the server some key names.  A user   *)
(* that asks for a key gets a slot nobody else has, with a connection to   *)
(* that very server, and keeps it, open, until it gives it back.           *)
(* CPGConnectionPool and CRedisClientPool are shown to implement it.       *)
(***************************************************************************)
CONSTANTS Users, Keys, Slots, None

VARIABLES
  holder,   \* holder[u]: the slot user u holds, or None
  content   \* content[s]: the key of the connection in slot s, or None

Init ==
  /\ holder = [u \in Users |-> None]
  /\ content = [s \in Slots |-> None]

NotHeld(s) == \A u \in Users : holder[u] # s

Get(u, k, s) ==
  /\ holder[u] = None
  /\ NotHeld(s)
  /\ content[s] \in {None, k}
  /\ holder' = [holder EXCEPT ![u] = s]
  /\ content' = [content EXCEPT ![s] = k]

\* The connection a user gives back stays in its slot or is closed.
Return(u) ==
  /\ holder[u] # None
  /\ holder' = [holder EXCEPT ![u] = None]
  /\ content' \in {content, [content EXCEPT ![holder[u]] = None]}

Close(S) ==
  /\ \A s \in S : NotHeld(s)
  /\ content' = [s \in Slots |-> IF s \in S THEN None ELSE content[s]]
  /\ UNCHANGED holder

Next ==
  \/ \E u \in Users, k \in Keys, s \in Slots : Get(u, k, s)
  \/ \E u \in Users : Return(u)
  \/ \E S \in SUBSET Slots : Close(S)

Spec == Init /\ [][Next]_<<holder, content>>
=============================================================================
