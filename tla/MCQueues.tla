------------------------------ MODULE MCQueues ------------------------------
(***************************************************************************)
(* Three parts of libpublic in one model: SyncQueue, the wait-group pool   *)
(* that gives one to each worker, and TimeTicker.  A behaviour uses one of *)
(* them, which the variable "which" names, and leaves the others as they   *)
(* were constructed.                                                       *)
(***************************************************************************)
EXTENDS SyncQueue, WaitGroupPool, TimeTicker

VARIABLE which

MCInit ==
  QueueInit /\ Init /\ TickerInit /\ which \in {"queue", "pool", "ticker"}

MCNext ==
  \/ which = "queue" /\ QueueNext /\ UNCHANGED <<which, vars, tickerVars>>
  \/ which = "pool" /\ Next /\ UNCHANGED <<which, queueVars, tickerVars>>
  \/ which = "ticker" /\ TickerNext /\ UNCHANGED <<which, vars, queueVars>>

\* The constructed pool is started if it is used; the other threads of pool
\* and ticker have steps to take only then.
MCSpec ==
  /\ MCInit
  /\ [][MCNext]_<<which, vars, queueVars, tickerVars>>
  /\ WF_vars(which = "pool" /\ StartWorker)
  /\ Fairness
  /\ TickerFairness
=============================================================================
