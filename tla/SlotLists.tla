----------------------------- MODULE SlotLists -----------------------------
(***************************************************************************)
(* What the two connection pools share: users, and lists of slots.         *)
(***************************************************************************)
EXTENDS Integers, SequencesExt

CONSTANTS
  Users,        \* threads with a CPGClientWrap or a CRedisClientWrap
  ResizeLimit,  \* bound: how often the count of slots is set
  None          \* NULL

ASSUME SlotAssumption == ResizeLimit \in Nat /\ None \notin Nat

\* The numbers of S in ascending order, as a loop over the slots meets them.
Ascending(S) ==
  CHOOSE s \in [1 .. Cardinality(S) -> S] :
    \A i, j \in 1 .. Cardinality(S) : i < j => s[i] < s[j]

\* std::list::remove, of every slot of S: the others keep their order.
Without(list, S) ==
  LET kept == Ascending({i \in DOMAIN list : list[i] \notin S})
  IN  [j \in DOMAIN kept |-> list[kept[j]]]
=============================================================================
