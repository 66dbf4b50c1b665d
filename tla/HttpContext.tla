---------------------------- MODULE HttpContext ----------------------------
(***************************************************************************)
(* Context of workflow-http for one request: the chain of handlers, which  *)
(* Context::Next runs, and which handlers control by calling Next again    *)
(* (to run the rest of the chain inside themselves) and Abort.             *)
(*                                                                         *)
(* A handler is its position in the chain, counted from 0 as in the code;  *)
(* what it does besides calling Next and Abort and returning is left out.  *)
(* stack holds the handlers that are running, the outermost first; each    *)
(* was called from the loop of a Next, and pc tells whether the innermost  *)
(* of these loops or the innermost handler has control.                    *)
(***************************************************************************)
EXTENDS Integers, Sequences

CONSTANTS
  ChainLengths,  \* numbers of handlers
  abortIndex,
  Word,          \* the number of values of a size_t
  MaxNext        \* bound: calls of Next by handlers

ASSUME ChainAssumption == ChainLengths \subseteq Nat
ASSUME IndexAssumption ==
  /\ abortIndex \in Nat
  /\ Word \in Nat
  /\ MaxNext \in Nat
  /\ \A n \in ChainLengths : abortIndex + MaxNext + n + 2 < Word

VARIABLES
  size,       \* handlers.size()
  index, stack, pc,
  called,     \* history: the handlers in the order of their calls
  abortedAt,  \* history: how many were called by the first Abort, or -1
  nexts       \* history: calls of Next by handlers

vars == <<size, index, stack, pc, called, abortedAt, nexts>>

\* index is a size_t that starts as -1.
Init ==
  /\ size \in ChainLengths
  /\ index = Word - 1
  /\ stack = <<>>
  /\ pc = "start"
  /\ called = <<>>
  /\ abortedAt = -1
  /\ nexts = 0

\* The engine, or the innermost handler, calls Next.
EnterNext(n) ==
  /\ index' = (index + 1) % Word
  /\ pc' = "loop"
  /\ nexts' = n
  /\ UNCHANGED <<size, stack, called, abortedAt>>

ServeNext == pc = "start" /\ EnterNext(nexts)

HandlerNext == pc = "handler" /\ nexts < MaxNext /\ EnterNext(nexts + 1)

\* The loop of Next calls a handler.
CallHandler ==
  /\ pc = "loop"
  /\ index < size
  /\ stack' = Append(stack, index)
  /\ called' = Append(called, index)
  /\ pc' = "handler"
  /\ UNCHANGED <<size, index, abortedAt, nexts>>

\* The loop of Next ends and the handler that called Next goes on.
LeaveNext ==
  /\ pc = "loop"
  /\ index >= size
  /\ pc' = IF stack = <<>> THEN "done" ELSE "handler"
  /\ UNCHANGED <<size, index, stack, called, abortedAt, nexts>>

\* Mutant: the index is left alone after a handler.
SameIndex == index

\* index++ after the call of a handler.
IndexAfter == (index + 1) % Word

\* A handler returns to the loop that called it.
Return ==
  /\ pc = "handler"
  /\ stack' = SubSeq(stack, 1, Len(stack) - 1)
  /\ index' = IndexAfter
  /\ pc' = "loop"
  /\ UNCHANGED <<size, called, abortedAt, nexts>>

\* Mutant: Abort sets the index to the end of the chain.
AbortAtEnd == size

\* What Abort sets the index to.
AbortTo == abortIndex

Abort ==
  /\ pc = "handler"
  /\ index' = AbortTo
  /\ abortedAt' = IF abortedAt = -1 THEN Len(called) ELSE abortedAt
  /\ UNCHANGED <<size, stack, pc, called, nexts>>

Next ==
  \/ ServeNext \/ HandlerNext \/ CallHandler \/ LeaveNext \/ Return \/ Abort

Spec == Init /\ [][Next]_vars

-----------------------------------------------------------------------------
TypeOK ==
  /\ size \in ChainLengths
  /\ index \in 0 .. Word - 1
  /\ stack \in Seq(Nat)
  /\ pc \in {"start", "loop", "handler", "done"}
  /\ called \in Seq(Nat)
  /\ abortedAt \in Int
  /\ nexts \in 0 .. MaxNext

\* Abort can stop a chain of this length: the index after it is not one of
\* the chain.
Abortable == size <= abortIndex + 1

\* Somebody called Abort.
Aborted == abortedAt # -1

(* The handlers are called one after the other from the first on, none of  *)
(* them twice and none left out, however often handlers call Next and at   *)
(* whatever depth.  Nobody is called after Abort, however the handlers     *)
(* that are running go on: they may call Next, Abort again and return.     *)
(* When the outermost Next ends, the whole chain was called unless         *)
(* somebody aborted.                                                       *)
ChainOrder ==
  Abortable =>
    /\ Len(called) <= size
    /\ \A i \in 1 .. Len(called) : called[i] = i - 1
    /\ Aborted => Len(called) = abortedAt
    /\ pc = "done" /\ ~Aborted => Len(called) = size

IsAborted == index >= abortIndex

(* IsAborted tells the truth to every handler as long as the chain and the *)
(* calls of Next are few: every call of Next and every return raises the   *)
(* index, past the end of the chain too, so that it would reach abortIndex *)
(* without an Abort.                                                       *)
AbortedExact ==
  pc = "handler" /\ nexts + size <= abortIndex => (IsAborted <=> Aborted)
=============================================================================
