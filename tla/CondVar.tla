------------------------------ MODULE CondVar ------------------------------
(***************************************************************************)
(* std::condition_variable, seen through the program counters of the       *)
(* threads: a thread whose counter is `at' is blocked in the variable, and *)
(* a notified one goes on at `to', where it takes its mutex again.  Each   *)
(* operator is the set of functions that pcs may become.                   *)
(***************************************************************************)

BlockedAt(pcs, at) == {t \in DOMAIN pcs : pcs[t] = at}

\* notify_one wakes any one blocked thread, if there is one.
NotifyOne(pcs, at, to) ==
  IF BlockedAt(pcs, at) = {}
  THEN {pcs}
  ELSE {[pcs EXCEPT ![t] = to] : t \in BlockedAt(pcs, at)}

\* notify_all wakes every blocked thread.
NotifyAll(pcs, at, to) ==
  {[t \in DOMAIN pcs |-> IF pcs[t] = at THEN to ELSE pcs[t]]}
=============================================================================
