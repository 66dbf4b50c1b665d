----------------------------- MODULE HttpProofs -----------------------------
(***************************************************************************)
(* ChainOrder and AbortedExact of HttpContext hold for chains of any       *)
(* length, any abortIndex, any number of calls of Next and any width of    *)
(* the index, as long as the index cannot overflow; SettledChain of        *)
(* HttpEngine holds for any number of threads, middlewares, routes and     *)
(* starts.                                                                 *)
(*                                                                         *)
(* The inductive invariant of a chain says where the index is: in the      *)
(* chain, at the handler that runs or at the next one; behind the chain;   *)
(* or, after an Abort, at abortIndex or behind it.  That the index does    *)
(* not wrap around follows from what raises it: calls of Next, which nexts *)
(* counts, and returns of handlers, which are the calls less those on the  *)
(* stack.                                                                  *)
(***************************************************************************)
EXTENDS MCHttp, SequenceTheorems, TLAPS

-----------------------------------------------------------------------------
(* The chain of handlers of a request.                                     *)

\* The handlers called so far are the first ones of the chain, in order.
InOrder ==
  /\ Len(called) <= size
  /\ \A i \in 1 .. Len(called) : called[i] = i - 1

\* The handlers that are running have been called, and one of them has
\* control if pc says so.
StackOK ==
  /\ Len(stack) <= Len(called)
  /\ pc = "handler" => Len(stack) > 0

\* Before the engine calls Next.
NotStarted ==
  /\ index = Word - 1
  /\ called = <<>>
  /\ abortedAt = -1
  /\ nexts = 0

\* Nobody has aborted.
Running ==
  /\ abortedAt = -1
  /\ index + Len(stack) = nexts + Len(called)
  /\ \/ pc = "loop" /\ index < size /\ Len(called) = index
     \/ pc = "handler" /\ index < size /\ Len(called) = index + 1
     \/ index >= size /\ Len(called) = size

\* Somebody has: the loop of Next is not entered any more.
Stopped ==
  /\ abortedAt \in Nat
  /\ abortedAt = Len(called)
  /\ abortIndex <= index
  /\ pc = "loop" => abortIndex < index
  /\ index + Len(stack) <= abortIndex + nexts + Len(called)

IInv ==
  /\ TypeOK
  /\ Abortable =>
       /\ InOrder
       /\ StackOK
       /\ IF pc = "start" THEN NotStarted ELSE Running \/ Stopped

\* A number that fits in a word is its own remainder.
LEMMA SmallWord ==
  ASSUME NEW W \in Nat, NEW x \in 0 .. W - 1
  PROVE  x % W = x
OBVIOUS

LEMMA WordOverflow ==
  ASSUME NEW W \in Nat, W > 0
  PROVE  ((W - 1) + 1) % W = 0
OBVIOUS

LEMMA ShorterByOne ==
  ASSUME NEW s \in Seq(Nat), Len(s) > 0
  PROVE  Len(SubSeq(s, 1, Len(s) - 1)) = Len(s) - 1
OBVIOUS

LEMMA WordAssumption == Word \in Nat
BY IndexAssumption

\* TypeOK itself needs nothing else: the index is computed modulo Word.
LEMMA TypeStep == TypeOK /\ [Next]_vars => TypeOK'
<1> SUFFICES ASSUME TypeOK, [Next]_vars PROVE TypeOK'
    OBVIOUS
<1> USE IndexAssumption, ChainAssumption
<1>1. (index + 1) % Word \in 0 .. Word - 1
    BY DEF TypeOK
<1>2. CASE ServeNext
    BY <1>1, <1>2 DEF ServeNext, EnterNext, TypeOK
<1>3. CASE HandlerNext
    BY <1>1, <1>3 DEF HandlerNext, EnterNext, TypeOK
<1>4. CASE CallHandler
    BY <1>4 DEF CallHandler, TypeOK
<1>5. CASE LeaveNext
    BY <1>5 DEF LeaveNext, TypeOK
<1>6. CASE Return
  <2>1. stack' \in Seq(Nat)
      BY <1>6 DEF Return, TypeOK
  <2> QED BY <1>1, <1>6, <2>1 DEF Return, IndexAfter, TypeOK
<1>7. CASE Abort
  <2>1. abortIndex \in 0 .. Word - 1
      BY DEF TypeOK
  <2> QED BY <1>7, <2>1 DEF Abort, AbortTo, TypeOK
<1>8. CASE UNCHANGED vars
    BY <1>8 DEF vars, TypeOK
<1> QED BY <1>2, <1>3, <1>4, <1>5, <1>6, <1>7, <1>8 DEF Next

\* The invariant keeps the index of a started chain away from Word.
LEMMA NoWrap ==
  ASSUME IInv, Abortable, pc # "start"
  PROVE  (index + 1) % Word = index + 1
<1> USE IndexAssumption, ChainAssumption
<1>1. index <= abortIndex + nexts + Len(called)
    BY DEF IInv, TypeOK, StackOK, Running, Stopped
<1>2. index + 1 < Word
    BY <1>1 DEF IInv, TypeOK, InOrder
<1>3. index + 1 \in 0 .. Word - 1
    BY <1>2 DEF IInv, TypeOK
<1> QED BY ONLY <1>3, WordAssumption, SmallWord

LEMMA IInvInit == Init => IInv
<1> USE IndexAssumption, ChainAssumption
<1> SUFFICES ASSUME Init PROVE IInv
    OBVIOUS
<1>1. TypeOK
    BY DEF Init, TypeOK
<1> QED BY <1>1 DEF Init, IInv, InOrder, StackOK, NotStarted

LEMMA IInvStep == IInv /\ [Next]_vars => IInv'
<1> SUFFICES ASSUME IInv, [Next]_vars PROVE IInv'
    OBVIOUS
<1> USE IndexAssumption, ChainAssumption
<1>1. TypeOK'
    BY TypeStep DEF IInv
<1>2. TypeOK /\ size' = size
    BY DEF IInv, Next, vars, ServeNext, HandlerNext, EnterNext, CallHandler,
           LeaveNext, Return, Abort
<1> SUFFICES ASSUME Abortable
             PROVE  /\ InOrder'
                    /\ StackOK'
                    /\ (IF pc = "start" THEN NotStarted ELSE Running \/ Stopped)'
    BY <1>1, <1>2 DEF IInv, Abortable
<1>3. CASE ServeNext
  <2>1. index' = 0
    <3>1. Word > 0
        BY <1>2 DEF TypeOK
    <3>2. index' = ((Word - 1) + 1) % Word
        BY <1>3 DEF ServeNext, EnterNext, IInv, NotStarted
    <3> QED BY ONLY <3>1, <3>2, WordAssumption, WordOverflow
  <2>2. InOrder' /\ StackOK'
      BY <1>2, <1>3 DEF ServeNext, EnterNext, IInv, InOrder, StackOK
  <2>3. Running'
      BY <1>2, <1>3, <2>1
      DEF ServeNext, EnterNext, IInv, NotStarted, StackOK, Running, TypeOK
  <2> QED BY <1>3, <2>2, <2>3 DEF ServeNext, EnterNext
<1>4. CASE HandlerNext
  <2>1. /\ pc = "handler" /\ pc' = "loop"
        /\ index' = index + 1
        /\ nexts' = nexts + 1
        /\ UNCHANGED <<stack, called, abortedAt>>
      BY <1>4, NoWrap DEF HandlerNext, EnterNext
  <2>2. InOrder' /\ StackOK'
      BY <1>2, <1>4 DEF HandlerNext, EnterNext, IInv, InOrder, StackOK
  <2>3. ASSUME Running PROVE Running'
      BY <1>2, <2>1, <2>3 DEF Running, TypeOK
  <2>4. ASSUME Stopped PROVE Stopped'
      BY <1>2, <2>1, <2>4 DEF Stopped, TypeOK
  <2> QED BY <1>4, <2>2, <2>3, <2>4 DEF HandlerNext, EnterNext, IInv
<1>5. CASE CallHandler
  <2>1. Running /\ Len(called) = index
      BY <1>2, <1>5 DEF CallHandler, IInv, Running, Stopped, Abortable, TypeOK
  <2>2. /\ Len(called') = index + 1
        /\ Len(stack') = Len(stack) + 1
        /\ \A i \in 1 .. Len(called) : called'[i] = called[i]
        /\ called'[index + 1] = index
      BY <1>2, <1>5, <2>1 DEF CallHandler, TypeOK
  <2>3. InOrder'
      BY <1>2, <1>5, <2>1, <2>2 DEF CallHandler, IInv, InOrder, TypeOK
  <2>4. StackOK'
      BY <1>2, <1>5, <2>1, <2>2 DEF CallHandler, IInv, StackOK, TypeOK
  <2>5. Running'
      BY <1>2, <1>5, <2>1, <2>2 DEF CallHandler, Running, TypeOK
  <2> QED BY <1>5, <2>3, <2>4, <2>5 DEF CallHandler
<1>6. CASE LeaveNext
  <2>1. InOrder'
      BY <1>2, <1>6 DEF LeaveNext, IInv, InOrder
  <2>2. StackOK'
      BY <1>2, <1>6 DEF LeaveNext, IInv, StackOK, TypeOK
  <2>3. ASSUME Running PROVE Running'
      BY <1>2, <1>6, <2>3 DEF LeaveNext, Running, TypeOK
  <2>4. ASSUME Stopped PROVE Stopped'
      BY <1>2, <1>6, <2>4 DEF LeaveNext, Stopped, TypeOK
  <2> QED BY <1>6, <2>1, <2>2, <2>3, <2>4 DEF LeaveNext, IInv
<1>7. CASE Return
  <2>1. /\ pc = "handler" /\ pc' = "loop"
        /\ index' = index + 1
        /\ UNCHANGED <<called, abortedAt, nexts>>
      BY <1>7, NoWrap DEF Return, IndexAfter
  <2>2. Len(stack') = Len(stack) - 1
    <3>1. Len(stack) > 0
        BY <2>1 DEF IInv, StackOK
    <3> QED BY <1>2, <1>7, <3>1, ShorterByOne DEF Return, TypeOK
  <2>3. InOrder' /\ StackOK'
      BY <1>2, <2>1, <2>2 DEF IInv, InOrder, StackOK, TypeOK
  <2>4. ASSUME Running PROVE Running'
    <3>1. index' + Len(stack') = nexts' + Len(called')
        BY <1>2, <2>1, <2>2, <2>4 DEF Running, TypeOK
    <3> QED BY <1>2, <2>1, <2>4, <3>1 DEF Running, TypeOK
  <2>5. ASSUME Stopped PROVE Stopped'
      BY <1>2, <2>1, <2>2, <2>5 DEF Stopped, TypeOK
  <2> QED BY <1>7, <2>3, <2>4, <2>5 DEF Return, IInv
<1>8. CASE Abort
  <2>1. InOrder' /\ StackOK'
      BY <1>2, <1>8 DEF Abort, IInv, InOrder, StackOK
  <2>2. abortedAt' = Len(called) /\ index' = abortIndex
      BY <1>2, <1>8 DEF Abort, AbortTo, IInv, Running, Stopped, TypeOK
  <2>3. Stopped'
      BY <1>2, <1>8, <2>2 DEF Abort, IInv, StackOK, Stopped, TypeOK
  <2> QED BY <1>8, <2>1, <2>3 DEF Abort
<1>9. CASE UNCHANGED vars
    BY <1>9 DEF vars, IInv, InOrder, StackOK, NotStarted, Running, Stopped
<1> QED BY <1>3, <1>4, <1>5, <1>6, <1>7, <1>8, <1>9 DEF Next

LEMMA IInvHolds == Spec => []IInv
BY IInvInit, IInvStep, PTL DEF Spec

(* Handlers are called in the order of the chain, none twice, none left    *)
(* out without an Abort and none after one, for every chain that Abort can *)
(* stop and however handlers nest calls of Context::Next.                  *)
THEOREM ChainOrderHolds == Spec => []ChainOrder
<1>1. IInv => ChainOrder
  <2> SUFFICES ASSUME IInv, Abortable PROVE ChainOrder
      BY DEF ChainOrder
  <2>1. InOrder
      BY DEF IInv
  <2>2. Aborted => Len(called) = abortedAt
      BY DEF IInv, Aborted, NotStarted, Running, Stopped
  <2>3. pc = "done" /\ ~Aborted => Len(called) = size
      BY IndexAssumption DEF IInv, Aborted, Running, Stopped, TypeOK
  <2> QED BY <2>1, <2>2, <2>3 DEF ChainOrder, InOrder
<1> QED BY <1>1, IInvHolds, PTL

(* Context::IsAborted tells a handler the truth as long as the length of   *)
(* the chain and the calls of Next do not add up to more than abortIndex.  *)
THEOREM AbortedIsExact == Spec => []AbortedExact
<1>1. IInv => AbortedExact
  <2> USE IndexAssumption, ChainAssumption
  <2> SUFFICES ASSUME IInv, pc = "handler", nexts + size <= abortIndex
               PROVE  IsAborted <=> Aborted
      BY DEF AbortedExact
  <2>1. TypeOK /\ Abortable
      BY DEF IInv, Abortable, TypeOK
  <2>2. InOrder /\ StackOK /\ (Running \/ Stopped)
      BY <2>1 DEF IInv
  <2>3. CASE Running
      BY <2>1, <2>2, <2>3
      DEF Running, InOrder, StackOK, IsAborted, Aborted, TypeOK
  <2>4. CASE Stopped
      BY <2>1, <2>4 DEF Stopped, IsAborted, Aborted, TypeOK
  <2> QED BY <2>2, <2>3, <2>4
<1> QED BY <1>1, IInvHolds, PTL

-----------------------------------------------------------------------------
(* The chains of 404 and 405.                                              *)

(* A shared chain, with rest the middlewares that RebuildHandlers has      *)
(* still to append, n middlewares in all after so many starts, up saying   *)
(* that the last one was not followed by a Stop: rest is the end of the    *)
(* middlewares, and the chain ends, while the server is up, with the part  *)
(* of them before rest; it is nothing else after one start.                *)
ErrorChainInv(chain, rest, n, begun, up) ==
  /\ chain \in Seq(Nat)
  /\ rest \in Seq(Nat)
  /\ Len(rest) <= n
  /\ \A k \in 1 .. Len(rest) : rest[k] = n - Len(rest) + k
  /\ begun = 0 => chain = <<>>
  /\ up =>
       /\ n - Len(rest) <= Len(chain)
       /\ \A k \in 1 .. n - Len(rest) :
            chain[Len(chain) - (n - Len(rest)) + k] = k
       /\ begun = 1 => Len(chain) = n - Len(rest)

\* Middlewares are the numbers of their registrations.
Numbered ==
  handlers \in Seq(Nat) /\ \A k \in 1 .. Len(handlers) : handlers[k] = k

ChainsInv ==
  /\ Numbered
  /\ starts \in Nat
  /\ running \in BOOLEAN
  /\ running => starts > 0
  /\ DOMAIN shared = Engine!ErrorChains /\ DOMAIN todo = Engine!ErrorChains
  /\ ~running => ~Engine!Rebuilding
  /\ pushing # "none" => pushing \in Engine!ErrorChains /\ todo[pushing] # <<>>
  /\ \A c \in Engine!ErrorChains :
       ErrorChainInv(shared[c], todo[c], Len(handlers), starts, running)

(* What a request has copied of a chain that nobody changes meanwhile.     *)
Copied(r, source) ==
  ~(r.pc = "done" /\ r.status = "handler") =>
     /\ r.chain \in Seq(Nat)
     /\ Len(r.chain) <= Len(source)
     /\ \A j \in 1 .. Len(r.chain) : r.chain[j] = source[j]
     /\ r.pc = "element" => Len(r.chain) < Len(source)
     /\ r.pc \in {"run", "done"} => Len(r.chain) = Len(source)

Shape(r) ==
  /\ r = [pc |-> r.pc, method |-> r.method, path |-> r.path, status |-> r.status,
          handler |-> r.handler, chain |-> r.chain, settled |-> r.settled]
  /\ r.pc \in {"test", "element", "run", "done", "undefined"}

\* Nobody changes the chain that w copies: its request came when
\* RebuildHandlers had returned, or it has a route.
Stable(w) == request[w].settled \/ request[w].status = "handler"

RequestInv(w) ==
  \/ request[w] = Engine!NoRequest
  \/ /\ running
     /\ Shape(request[w])
     /\ request[w].settled => ~Engine!Rebuilding
     /\ Stable(w) =>
          /\ request[w].pc # "undefined"
          /\ Copied(request[w], Engine!Source(w))

RequestsInv ==
  /\ DOMAIN request = ServerThreads
  /\ \A w \in ServerThreads : RequestInv(w)

EngineInv == ChainsInv /\ RequestsInv

-----------------------------------------------------------------------------
(* What the steps of the engine do to a chain.                             *)

\* Use, while the server is down.
LEMMA ChainUse ==
  ASSUME NEW chain, NEW n \in Nat, NEW begun \in Nat,
         ErrorChainInv(chain, <<>>, n, begun, FALSE)
  PROVE  ErrorChainInv(chain, <<>>, n + 1, begun, FALSE)
BY DEF ErrorChainInv

\* Start: all middlewares are to be appended once more.
LEMMA ChainStart ==
  ASSUME NEW chain, NEW all \in Seq(Nat), NEW begun \in Nat,
         \A k \in 1 .. Len(all) : all[k] = k,
         ErrorChainInv(chain, <<>>, Len(all), begun, FALSE)
  PROVE  ErrorChainInv(chain, all, Len(all), begun + 1, TRUE)
<1>1. chain \in Seq(Nat)
  BY DEF ErrorChainInv
<1>2. begun + 1 = 1 => chain = <<>>
  BY DEF ErrorChainInv
<1>3. Len(all) - Len(all) = 0 /\ begun + 1 # 0
  OBVIOUS
<1>4. \A k \in 1 .. Len(all) : all[k] = Len(all) - Len(all) + k
  OBVIOUS
<1>5. chain = <<>> => Len(chain) = 0
  OBVIOUS
<1> QED BY <1>1, <1>2, <1>3, <1>4, <1>5 DEF ErrorChainInv

\* One turn of a loop of RebuildHandlers.
LEMMA ChainTurn ==
  ASSUME NEW chain, NEW rest, NEW n \in Nat, NEW begun \in Nat, begun > 0,
         rest # <<>>,
         ErrorChainInv(chain, rest, n, begun, TRUE)
  PROVE  ErrorChainInv(Append(chain, Head(rest)), Tail(rest), n, begun, TRUE)
<1> DEFINE next == Append(chain, Head(rest))
           done == n - Len(rest)
<1>1. chain \in Seq(Nat) /\ rest \in Seq(Nat) /\ Len(rest) <= n
  BY DEF ErrorChainInv
<1>2. Len(rest) \in Nat /\ Len(rest) > 0
  BY <1>1
<1>3. Head(rest) = done + 1 /\ Head(rest) \in Nat
  <2>1. rest[1] = n - Len(rest) + 1
    BY <1>2 DEF ErrorChainInv
  <2> QED BY <1>1, <1>2, <2>1
<1>4. /\ Tail(rest) \in Seq(Nat)
      /\ Len(Tail(rest)) = Len(rest) - 1
      /\ \A k \in 1 .. Len(rest) - 1 : Tail(rest)[k] = rest[k + 1]
  BY <1>1, <1>2
<1>5. n - Len(Tail(rest)) = done + 1 /\ done \in Nat
  BY <1>1, <1>2, <1>4
<1>6. \A k \in 1 .. Len(Tail(rest)) : Tail(rest)[k] = n - Len(Tail(rest)) + k
  <2>1. \A k \in 1 .. Len(rest) : rest[k] = n - Len(rest) + k
    BY DEF ErrorChainInv
  <2> QED BY <1>1, <1>2, <1>4, <2>1
<1>7. /\ next \in Seq(Nat)
      /\ Len(next) = Len(chain) + 1
      /\ next[Len(chain) + 1] = Head(rest)
      /\ \A j \in 1 .. Len(chain) : next[j] = chain[j]
  BY <1>1, <1>3
<1>8. /\ done <= Len(chain)
      /\ \A k \in 1 .. done : chain[Len(chain) - done + k] = k
      /\ begun = 1 => Len(chain) = done
  BY DEF ErrorChainInv
<1>9. done + 1 <= Len(next) /\ (begun = 1 => Len(next) = done + 1)
  <2>1. Len(chain) \in Nat
    BY <1>1
  <2> HIDE DEF next, done
  <2> QED BY <1>5, <1>7, <1>8, <2>1
<1>10. ASSUME NEW k \in 1 .. done + 1
       PROVE  next[Len(next) - (done + 1) + k] = k
  <2> HIDE DEF next, done
  <2>1. Len(chain) \in Nat /\ done \in Nat
    BY <1>1, <1>5
  <2>2. Len(next) - (done + 1) + k = Len(chain) - done + k
    BY <1>7, <2>1
  <2>3. CASE k \in 1 .. done
    <3>1. Len(chain) - done + k \in 1 .. Len(chain)
      BY <1>8, <2>1, <2>3
    <3> QED BY <1>7, <1>8, <2>2, <2>3, <3>1
  <2>4. CASE k = done + 1
    <3>1. Len(chain) - done + k = Len(chain) + 1
      BY <2>1, <2>4
    <3> QED BY <1>3, <1>7, <2>2, <2>4, <3>1
  <2> QED BY <2>1, <2>3, <2>4
<1>11. begun # 0 /\ Len(Tail(rest)) <= n
  BY <1>1, <1>2, <1>4
<1> HIDE DEF next, done
<1>12. ErrorChainInv(next, Tail(rest), n, begun, TRUE)
  BY <1>4, <1>5, <1>6, <1>7, <1>9, <1>10, <1>11 DEF ErrorChainInv
<1> QED BY <1>12 DEF next

\* Stop.
LEMMA ChainStop ==
  ASSUME NEW chain, NEW n \in Nat, NEW begun \in Nat,
         ErrorChainInv(chain, <<>>, n, begun, TRUE)
  PROVE  ErrorChainInv(chain, <<>>, n, begun, FALSE)
BY DEF ErrorChainInv

\* A chain to which nothing is to be appended is what SettledChain says.
LEMMA ChainComplete ==
  ASSUME NEW chain, NEW all \in Seq(Nat), NEW begun \in Nat,
         \A k \in 1 .. Len(all) : all[k] = k,
         ErrorChainInv(chain, <<>>, Len(all), begun, TRUE)
  PROVE  Engine!IsSuffix(all, chain) /\ (begun = 1 => chain = all)
<1> DEFINE n == Len(all)
           ra == Engine!Reverse(all)
           rc == Engine!Reverse(chain)
<1>1. n - Len(<<>>) = n /\ n \in Nat
  OBVIOUS
<1>2. /\ chain \in Seq(Nat) /\ Len(chain) \in Nat
      /\ n <= Len(chain)
      /\ \A k \in 1 .. n : chain[Len(chain) - n + k] = k
      /\ begun = 1 => Len(chain) = n
  BY <1>1 DEF ErrorChainInv
<1>3. /\ ra \in Seq(Nat) /\ Len(ra) = n
      /\ \A i \in 1 .. n : ra[i] = all[n - i + 1]
  BY DEF Engine!Reverse
<1>4. /\ rc \in Seq(Nat) /\ Len(rc) = Len(chain)
      /\ \A i \in 1 .. Len(chain) : rc[i] = chain[Len(chain) - i + 1]
  BY <1>2 DEF Engine!Reverse
<1>5. ASSUME NEW i \in 1 .. n
      PROVE  ra[i] = rc[i]
  <2> HIDE DEF ra, rc
  <2>1. n - i + 1 \in 1 .. n /\ i \in 1 .. Len(chain)
    BY <1>1, <1>2
  <2>2. chain[Len(chain) - n + (n - i + 1)] = n - i + 1
    BY <1>2, <2>1
  <2>3. Len(chain) - n + (n - i + 1) = Len(chain) - i + 1
    BY <1>1, <1>2
  <2>4. all[n - i + 1] = n - i + 1
    BY <2>1
  <2> QED BY <1>3, <1>4, <2>1, <2>2, <2>3, <2>4
<1>6. Engine!IsSuffix(all, chain)
  <2> HIDE DEF ra, rc
  <2>1. /\ SubSeq(ra, 1, n) = [i \in 1 .. n |-> ra[i]]
        /\ SubSeq(rc, 1, n) = [i \in 1 .. n |-> rc[i]]
    BY <1>1, <1>2, <1>3, <1>4
  <2>2. SubSeq(ra, 1, n) = SubSeq(rc, 1, n)
    BY <1>5, <2>1
  <2>3. Engine!IsPrefix(ra, rc)
    BY <1>2, <1>3, <1>4, <2>2 DEF Engine!IsPrefix
  <2> QED BY <2>3 DEF Engine!IsSuffix, ra, rc
<1>7. ASSUME begun = 1
      PROVE  chain = all
  <2>1. ASSUME NEW k \in 1 .. n
        PROVE  chain[k] = all[k]
    <3>4. Len(chain) = n
      BY <1>2, <1>7
    <3> HIDE DEF n
    <3>1. Len(chain) - n + k = k
      BY <1>1, <3>4
    <3>2. chain[Len(chain) - n + k] = k
      BY <1>2
    <3>3. all[k] = k
      BY DEF n
    <3> QED BY <3>1, <3>2, <3>3
  <2> QED BY ONLY <1>2, <1>7, <2>1, all \in Seq(Nat), SeqEqual
<1> QED BY <1>6, <1>7

-----------------------------------------------------------------------------
(* The invariant of the engine.                                            *)

LEMMA EngineInvInit == Engine!Init => EngineInv
<1> SUFFICES ASSUME Engine!Init PROVE EngineInv
  OBVIOUS
<1>1. /\ handlers = <<>> /\ pushing = "none" /\ running = FALSE /\ starts = 0
      /\ shared = [c \in Engine!ErrorChains |-> <<>>]
      /\ todo = [c \in Engine!ErrorChains |-> <<>>]
  BY DEF Engine!Init
<1>2. ErrorChainInv(<<>>, <<>>, 0, 0, FALSE)
  BY DEF ErrorChainInv
<1>3. Numbered /\ Len(handlers) = 0
  BY <1>1 DEF Numbered
<1>4. ~Engine!Rebuilding
  BY <1>1 DEF Engine!Rebuilding
<1>5. ChainsInv
  BY <1>1, <1>2, <1>3, <1>4 DEF ChainsInv
<1>6. RequestsInv
  BY DEF Engine!Init, RequestsInv, RequestInv
<1> QED BY <1>5, <1>6 DEF EngineInv

\* While the server is down nothing is requested.
LEMMA DownNoRequest ==
  ASSUME RequestsInv, ~running
  PROVE  \A w \in ServerThreads : request[w] = Engine!NoRequest
BY DEF RequestsInv, RequestInv

LEMMA NoRequests ==
  ASSUME DOMAIN request' = ServerThreads,
         \A w \in ServerThreads : request'[w] = Engine!NoRequest
  PROVE  RequestsInv'
BY DEF RequestsInv, RequestInv

\* With nothing to append the chains are empty lists, and conversely.
LEMMA NotRebuilding ==
  ASSUME ChainsInv, ~Engine!Rebuilding
  PROVE  (\A c \in Engine!ErrorChains : todo[c] = <<>>) /\ pushing = "none"
BY DEF ChainsInv, Engine!Rebuilding

LEMMA ChainsInvOwner ==
  ASSUME ChainsInv, Engine!Owner
  PROVE  ChainsInv'
<1> DEFINE n == Len(handlers)
<1>1. /\ n \in Nat /\ handlers \in Seq(Nat) /\ \A k \in 1 .. n : handlers[k] = k
      /\ starts \in Nat
  BY DEF ChainsInv, Numbered
<1>2. CASE Engine!Use
  <2>1. /\ running = FALSE /\ ~Engine!Rebuilding
        /\ handlers' = Append(handlers, n + 1)
        /\ UNCHANGED <<shared, todo, pushing, running, starts>>
    BY <1>2 DEF Engine!Use, Engine!Down, Engine!chains, ChainsInv
  <2>2. Numbered' /\ Len(handlers)' = n + 1
    BY <1>1, <2>1 DEF Numbered
  <2>3. \A c \in Engine!ErrorChains :
          ErrorChainInv(shared[c], todo[c], n + 1, starts, FALSE)
    <3> TAKE c \in Engine!ErrorChains
    <3>1. todo[c] = <<>> /\ ErrorChainInv(shared[c], <<>>, n, starts, FALSE)
      BY <2>1, NotRebuilding DEF ChainsInv
    <3> QED BY <1>1, <3>1, ChainUse
  <2>4. (~running => ~Engine!Rebuilding)'
    BY <2>1 DEF Engine!Rebuilding
  <2> QED BY <2>1, <2>2, <2>3, <2>4 DEF ChainsInv
<1>3. CASE Engine!Start
  <2>1. /\ running = FALSE /\ ~Engine!Rebuilding /\ running' = TRUE
        /\ starts' = starts + 1
        /\ todo' = [c \in Engine!ErrorChains |-> handlers]
        /\ UNCHANGED <<handlers, shared, pushing>>
    BY <1>3 DEF Engine!Start, Engine!Down, Engine!Rebuilt, Engine!setup, ChainsInv
  <2>2. ASSUME NEW c \in Engine!ErrorChains
        PROVE  ErrorChainInv(shared[c], handlers, n, starts + 1, TRUE)
    <3>1. ErrorChainInv(shared[c], <<>>, n, starts, FALSE)
      BY <2>1, NotRebuilding DEF ChainsInv
    <3> QED BY <1>1, <3>1, ChainStart
  <2>3. pushing' = "none"
    BY <2>1, NotRebuilding
  <2>4. starts' \in Nat /\ starts' > 0
    BY <1>1, <2>1
  <2>5. DOMAIN shared' = Engine!ErrorChains /\ DOMAIN todo' = Engine!ErrorChains
    BY <2>1 DEF ChainsInv
  <2>6. \A c \in Engine!ErrorChains : ErrorChainInv(shared[c], todo[c], Len(handlers), starts, running)'
    BY <2>1, <2>2
  <2> QED BY <1>1, <2>1, <2>3, <2>4, <2>5, <2>6 DEF ChainsInv, Numbered
<1>4. CASE Engine!Stop
  <2>1. /\ running = TRUE /\ ~Engine!Rebuilding /\ running' = FALSE
        /\ UNCHANGED <<handlers, shared, todo, pushing, starts>>
    BY <1>4 DEF Engine!Stop, Engine!setup, Engine!chains, ChainsInv
  <2>2. \A c \in Engine!ErrorChains :
          ErrorChainInv(shared[c], todo[c], n, starts, FALSE)
    <3> TAKE c \in Engine!ErrorChains
    <3>1. todo[c] = <<>> /\ ErrorChainInv(shared[c], <<>>, n, starts, TRUE)
      BY <2>1, NotRebuilding DEF ChainsInv
    <3> QED BY <1>1, <3>1, ChainStop
  <2>3. ~Engine!Rebuilding'
    BY <2>1 DEF Engine!Rebuilding
  <2> QED BY <2>1, <2>2, <2>3 DEF ChainsInv, Numbered
<1>5. ASSUME NEW c \in Engine!ErrorChains, Engine!BeginPush(c)
      PROVE  ChainsInv'
  BY <1>5 DEF Engine!BeginPush, Engine!setup, ChainsInv, Numbered, Engine!Rebuilding
<1>6. ASSUME NEW c \in Engine!ErrorChains, Engine!EndPush(c)
      PROVE  ChainsInv'
  <2>1. /\ pushing = c /\ pushing' = "none"
        /\ shared' = [shared EXCEPT ![c] = Append(@, Head(todo[c]))]
        /\ todo' = [todo EXCEPT ![c] = Tail(@)]
        /\ UNCHANGED <<handlers, running, starts>>
    BY <1>6 DEF Engine!EndPush, Engine!setup
  <2>2. c # "none" /\ todo[c] # <<>>
    BY <2>1 DEF ChainsInv, Engine!ErrorChains
  <2>3. running = TRUE /\ starts > 0
    BY <2>2 DEF ChainsInv, Engine!Rebuilding
  <2>4. /\ DOMAIN shared' = Engine!ErrorChains /\ DOMAIN todo' = Engine!ErrorChains
        /\ shared'[c] = Append(shared[c], Head(todo[c])) /\ todo'[c] = Tail(todo[c])
        /\ \A d \in Engine!ErrorChains \ {c} : shared'[d] = shared[d] /\ todo'[d] = todo[d]
    BY <2>1 DEF ChainsInv
  <2>5. ErrorChainInv(Append(shared[c], Head(todo[c])), Tail(todo[c]), n, starts, TRUE)
    <3>1. ErrorChainInv(shared[c], todo[c], n, starts, TRUE)
      BY <2>3 DEF ChainsInv
    <3> QED BY <1>1, <2>2, <2>3, <3>1, ChainTurn
  <2>6. ASSUME NEW d \in Engine!ErrorChains
        PROVE  ErrorChainInv(shared'[d], todo'[d], n, starts, TRUE)
    <3>1. CASE d = c
      BY <2>4, <2>5, <3>1
    <3>2. CASE d # c
      BY <2>3, <2>4, <3>2 DEF ChainsInv
    <3> QED BY <3>1, <3>2
  <2> QED BY <2>1, <2>3, <2>4, <2>6 DEF ChainsInv, Numbered
<1>7. ASSUME NEW m, NEW p, NEW h, Engine!AddRoute(m, p, h)
      PROVE  ChainsInv'
  BY <1>7 DEF Engine!AddRoute, Engine!chains, ChainsInv, Numbered, Engine!Rebuilding
<1> QED BY <1>2, <1>3, <1>4, <1>5, <1>6, <1>7 DEF Engine!Owner

\* The owner changes a chain only when no request copies it that counts.
LEMMA RequestsInvOwner ==
  ASSUME ChainsInv, RequestsInv, Engine!Owner
  PROVE  RequestsInv'
<1>1. DOMAIN request = ServerThreads
  BY DEF RequestsInv
<1>2. CASE ~running /\ request' = request
  BY <1>1, <1>2, DownNoRequest, NoRequests
<1>3. CASE Engine!Use
  BY <1>2, <1>3 DEF Engine!Use, Engine!Down
<1>4. CASE Engine!Start
  BY <1>2, <1>4 DEF Engine!Start, Engine!Down
<1>5. ASSUME NEW m, NEW p, NEW h, Engine!AddRoute(m, p, h)
      PROVE  RequestsInv'
  BY <1>2, <1>5 DEF Engine!AddRoute, Engine!Down
<1>6. CASE Engine!Stop
  <2>1. request' = [w \in ServerThreads |-> Engine!NoRequest]
    BY <1>6 DEF Engine!Stop
  <2> QED BY <2>1, NoRequests
<1>7. ASSUME NEW c \in Engine!ErrorChains, Engine!BeginPush(c) \/ Engine!EndPush(c)
      PROVE  RequestsInv'
  <2>1. UNCHANGED <<handlers, running, request>>
    BY <1>7 DEF Engine!BeginPush, Engine!EndPush, Engine!setup
  <2>2. Engine!Rebuilding
    <3>1. CASE Engine!BeginPush(c)
      BY <3>1 DEF Engine!BeginPush, Engine!Rebuilding
    <3>2. CASE Engine!EndPush(c)
      <4>1. pushing = c /\ c # "none"
        BY <3>2 DEF Engine!EndPush, Engine!ErrorChains
      <4> QED BY <4>1 DEF ChainsInv, Engine!Rebuilding
    <3> QED BY <1>7, <3>1, <3>2
  <2>3. ASSUME NEW w \in ServerThreads, request[w] # Engine!NoRequest
        PROVE  RequestInv(w)'
    <3>1. RequestInv(w)
      BY DEF RequestsInv
    <3>2. ~request[w].settled
      BY <2>2, <2>3, <3>1 DEF RequestInv
    <3>3. Stable(w) => Engine!Source(w)' = Engine!Source(w)
      BY <2>1, <3>2 DEF Stable, Engine!Source
    <3> QED BY <2>1, <2>3, <3>1, <3>2, <3>3 DEF RequestInv, Stable
  <2>4. \A w \in ServerThreads : RequestInv(w)'
    BY <2>1, <2>3 DEF RequestInv
  <2> QED BY <1>1, <2>1, <2>4 DEF RequestsInv
<1> QED BY <1>3, <1>4, <1>5, <1>6, <1>7 DEF Engine!Owner

\* A step of one thread leaves the requests of the others as they are.
LEMMA OneRequest ==
  ASSUME RequestsInv, NEW w \in ServerThreads, NEW r,
         request' = [request EXCEPT ![w] = r],
         UNCHANGED <<handlers, shared, todo, running>>,
         RequestInv(w)'
  PROVE  RequestsInv'
<1>1. DOMAIN request' = ServerThreads
  BY DEF RequestsInv
<1>2. ASSUME NEW v \in ServerThreads, v # w
      PROVE  RequestInv(v)'
  <2>1. request'[v] = request[v]
    BY <1>2 DEF RequestsInv
  <2>2. Engine!Source(v)' = Engine!Source(v) /\ Engine!Rebuilding' = Engine!Rebuilding
    BY <2>1 DEF Engine!Source, Engine!Rebuilding
  <2>3. RequestInv(v)
    BY DEF RequestsInv
  <2> QED BY <2>1, <2>2, <2>3 DEF RequestInv, Stable
<1> QED BY <1>1, <1>2 DEF RequestsInv

\* A request that goes on, with the source of its chain.
LEMMA ActiveRequest ==
  ASSUME ChainsInv, RequestsInv, NEW w \in ServerThreads, request[w].pc # "idle"
  PROVE  /\ RequestInv(w) /\ running /\ Shape(request[w])
         /\ request[w].settled => ~Engine!Rebuilding
         /\ Stable(w) => /\ request[w].pc # "undefined"
                         /\ Copied(request[w], Engine!Source(w))
                         /\ ~Engine!Racing(w)
<1>1. RequestInv(w)
  BY DEF RequestsInv
<1>2. request[w] # Engine!NoRequest
  BY DEF Engine!NoRequest
<1>3. request[w].settled => ~Engine!Rebuilding
  BY <1>1, <1>2 DEF RequestInv
<1>4. Stable(w) => ~Engine!Racing(w)
  <2>1. CASE request[w].status = "handler"
    BY <2>1 DEF Engine!Racing
  <2>2. CASE request[w].settled
    <3>1. pushing = "none"
      BY <1>3, <2>2, NotRebuilding
    <3> QED BY <3>1 DEF Engine!Racing, Engine!SharedChain
  <2> QED BY <2>1, <2>2 DEF Stable
<1> QED BY <1>1, <1>2, <1>3, <1>4 DEF RequestInv

LEMMA SourceType ==
  ASSUME ChainsInv, NEW w \in ServerThreads
  PROVE  Engine!Source(w) \in Seq(Nat)
<1>1. handlers \in Seq(Nat)
  BY DEF ChainsInv, Numbered
<1>2. \A c \in Engine!ErrorChains : shared[c] \in Seq(Nat)
  BY DEF ChainsInv, ErrorChainInv
<1> QED BY <1>1, <1>2 DEF Engine!Source, Engine!SharedChain, Engine!ErrorChains

\* The copy loop, and the call of Next behind it.
LEMMA RequestsInvServer ==
  ASSUME ChainsInv, RequestsInv, NEW w \in ServerThreads, Engine!Server(w)
  PROVE  RequestsInv'
<1> DEFINE r == request[w]
           source == Engine!Source(w)
<1>1. /\ UNCHANGED <<handlers, shared, todo, pushing, running, starts>>
      /\ DOMAIN request = ServerThreads
  BY DEF Engine!Server, Engine!HandleHTTPRequest, Engine!TestSize, Engine!CopyElement,
         Engine!CopyGarbage, Engine!Serve, Engine!setup, Engine!chains, RequestsInv
<1>2. Engine!Rebuilding' = Engine!Rebuilding
  BY <1>1 DEF Engine!Rebuilding
<1>3. source \in Seq(Nat) /\ Len(source) \in Nat
  BY SourceType
<1>4. ASSUME NEW m, NEW p, Engine!HandleHTTPRequest(w, m, p)
      PROVE  RequestsInv'
  <2>1. running
    BY <1>4 DEF Engine!HandleHTTPRequest
  <2>2. PICK st : request' = [request EXCEPT ![w] =
            [pc |-> "test", method |-> m, path |-> p, status |-> st,
             handler |-> Engine!Found(m, p), chain |-> <<>>,
             settled |-> ~Engine!Rebuilding]]
    BY <1>4 DEF Engine!HandleHTTPRequest
  <2>3. /\ Shape(request'[w]) /\ request'[w].pc = "test" /\ request'[w].chain = <<>>
        /\ request'[w].settled = ~Engine!Rebuilding
    BY <1>1, <2>2 DEF Shape
  <2>4. Engine!Source(w)' \in Seq(Nat)
    <3>1. handlers' \in Seq(Nat)
      BY <1>1 DEF ChainsInv, Numbered
    <3>2. \A c \in Engine!ErrorChains : shared'[c] \in Seq(Nat)
      BY <1>1 DEF ChainsInv, ErrorChainInv
    <3> QED BY <3>1, <3>2 DEF Engine!Source, Engine!SharedChain, Engine!ErrorChains
  <2>5. Copied(request'[w], Engine!Source(w)')
    BY <2>3, <2>4 DEF Copied
  <2>6. RequestInv(w)'
    BY <1>1, <1>2, <2>1, <2>3, <2>5 DEF RequestInv
  <2> QED BY <1>1, <2>2, <2>6, OneRequest
<1>5. CASE Engine!TestSize(w)
  <2>1. PICK at \in {"element", "run"} :
          /\ r.pc = "test"
          /\ request' = [request EXCEPT ![w] = [r EXCEPT !.pc = at]]
          /\ ~Engine!Racing(w) => (at = "element" <=> Engine!MoreToCopy(w))
    <3>1. PICK more \in IF Engine!Racing(w) THEN BOOLEAN ELSE {Engine!MoreToCopy(w)} :
            request' = [request EXCEPT ![w].pc = IF more THEN "element" ELSE "run"]
      BY <1>5 DEF Engine!TestSize
    <3>2. r.pc = "test"
      BY <1>5 DEF Engine!TestSize
    <3>3. CASE more
      BY <3>1, <3>2, <3>3
    <3>4. CASE ~more
      BY <3>1, <3>2, <3>4
    <3> QED BY <3>3, <3>4
  <2>2. /\ running /\ Shape(r) /\ (r.settled => ~Engine!Rebuilding)
        /\ Stable(w) => Copied(r, source) /\ ~Engine!Racing(w)
    BY <2>1, ActiveRequest
  <2>3. /\ Shape(request'[w]) /\ request'[w].pc = at
        /\ request'[w].chain = r.chain /\ request'[w].settled = r.settled
        /\ request'[w].status = r.status
    BY <1>1, <2>1, <2>2 DEF Shape
  <2>4. Engine!Source(w)' = source /\ Stable(w)' = Stable(w)
    BY <1>1, <2>3 DEF Engine!Source, Stable
  <2>5. Stable(w) => (at = "element" <=> Len(r.chain) < Len(source))
    BY <2>1, <2>2 DEF Engine!MoreToCopy
  <2>6. ASSUME Stable(w)
        PROVE  Copied(request'[w], source)
    <3> HIDE DEF source
    <3>1. Copied(r, source) /\ r.pc = "test"
      BY <2>1, <2>2, <2>6
    <3> QED BY <1>3, <2>1, <2>3, <2>5, <2>6, <3>1 DEF Copied
  <2>7. RequestInv(w)'
    BY <1>1, <1>2, <2>2, <2>3, <2>4, <2>6 DEF RequestInv
  <2> QED BY <1>1, <2>1, <2>7, OneRequest
<1>6. CASE Engine!CopyElement(w)
  <2>1. /\ r.pc = "element" /\ Len(r.chain) < Len(source)
        /\ request' = [request EXCEPT ![w] =
             [r EXCEPT !.chain = Append(@, source[Len(@) + 1]), !.pc = "test"]]
    BY <1>6 DEF Engine!CopyElement
  <2>2. /\ running /\ Shape(r) /\ (r.settled => ~Engine!Rebuilding)
        /\ Stable(w) => Copied(r, source)
    BY <2>1, ActiveRequest
  <2>3. /\ Shape(request'[w]) /\ request'[w].pc = "test"
        /\ request'[w].chain = Append(r.chain, source[Len(r.chain) + 1])
        /\ request'[w].settled = r.settled /\ request'[w].status = r.status
    <3> HIDE DEF source
    <3> QED BY <1>1, <2>1, <2>2 DEF Shape
  <2>4. Engine!Source(w)' = source /\ Stable(w)' = Stable(w)
    BY <1>1, <2>3 DEF Engine!Source, Stable
  <2>5. ASSUME Stable(w)
        PROVE  Copied(request'[w], source)
    <3> HIDE DEF source
    <3>1. /\ r.chain \in Seq(Nat) /\ Len(r.chain) \in Nat
          /\ \A j \in 1 .. Len(r.chain) : r.chain[j] = source[j]
      BY <2>1, <2>2, <2>5 DEF Copied
    <3>2. source[Len(r.chain) + 1] \in Nat
      BY <1>3, <2>1, <3>1
    <3> DEFINE next == Append(r.chain, source[Len(r.chain) + 1])
    <3>3. /\ next \in Seq(Nat) /\ Len(next) = Len(r.chain) + 1
          /\ \A j \in 1 .. Len(next) : next[j] = source[j]
      BY <3>1, <3>2
    <3>4. Len(next) <= Len(source)
      BY <1>3, <2>1, <3>1, <3>3
    <3> HIDE DEF next
    <3>5. request'[w].chain = next
      BY <2>3 DEF next
    <3> QED BY <2>3, <3>3, <3>4, <3>5 DEF Copied
  <2>6. RequestInv(w)'
    BY <1>1, <1>2, <2>2, <2>3, <2>4, <2>5 DEF RequestInv
  <2> QED BY <1>1, <2>1, <2>6, OneRequest
<1>7. CASE Engine!CopyGarbage(w)
  <2>1. /\ r.pc = "element"
        /\ request' = [request EXCEPT ![w] = [r EXCEPT !.pc = "undefined"]]
    BY <1>7 DEF Engine!CopyGarbage
  <2>2. /\ running /\ Shape(r) /\ (r.settled => ~Engine!Rebuilding)
        /\ Stable(w) => Copied(r, source) /\ ~Engine!Racing(w)
    BY <2>1, <1>7, ActiveRequest DEF Engine!CopyGarbage
  <2>3. ~Stable(w)
    <3> SUFFICES ASSUME Stable(w) PROVE FALSE
      OBVIOUS
    <3> HIDE DEF source
    <3>1. r.pc = "element" /\ Len(r.chain) >= Len(source)
      BY <1>7, <2>2 DEF Engine!CopyGarbage, source
    <3>2. r.chain \in Seq(Nat) /\ Len(r.chain) < Len(source)
      BY <2>2, <3>1 DEF Copied
    <3> QED BY <1>3, <3>1, <3>2
  <2>4. /\ Shape(request'[w]) /\ request'[w].settled = r.settled
        /\ request'[w].status = r.status
    BY <1>1, <2>1, <2>2 DEF Shape
  <2>5. RequestInv(w)'
    BY <1>1, <1>2, <2>2, <2>3, <2>4 DEF RequestInv, Stable
  <2> QED BY <1>1, <2>1, <2>5, OneRequest
<1>8. CASE Engine!Serve(w)
  <2>1. /\ r.pc = "run"
        /\ request' = [request EXCEPT ![w] =
             [r EXCEPT !.chain = IF r.status = "handler" THEN Append(@, r.handler) ELSE @,
                       !.pc = "done"]]
    BY <1>8 DEF Engine!Serve
  <2>2. /\ running /\ Shape(r) /\ (r.settled => ~Engine!Rebuilding)
        /\ Stable(w) => Copied(r, source)
    BY <2>1, ActiveRequest
  <2>3. /\ Shape(request'[w]) /\ request'[w].pc = "done"
        /\ request'[w].status = r.status /\ request'[w].settled = r.settled
        /\ r.status # "handler" => request'[w].chain = r.chain
    BY <1>1, <2>1, <2>2 DEF Shape
  <2>4. Engine!Source(w)' = source /\ Stable(w)' = Stable(w)
    BY <1>1, <2>3 DEF Engine!Source, Stable
  <2>5. Stable(w) => Copied(request'[w], source)
    <3> HIDE DEF source
    <3> QED BY <2>1, <2>2, <2>3 DEF Copied
  <2>6. RequestInv(w)'
    BY <1>1, <1>2, <2>2, <2>3, <2>4, <2>5 DEF RequestInv
  <2> QED BY <1>1, <2>1, <2>6, OneRequest
<1> QED BY <1>4, <1>5, <1>6, <1>7, <1>8 DEF Engine!Server

LEMMA EngineInvStep == EngineInv /\ [Engine!Next]_engineVars => EngineInv'
<1> SUFFICES ASSUME ChainsInv, RequestsInv, [Engine!Next]_engineVars
             PROVE  ChainsInv' /\ RequestsInv'
  BY DEF EngineInv
<1>1. CASE Engine!Owner
  BY <1>1, ChainsInvOwner, RequestsInvOwner
<1>2. ASSUME NEW w \in ServerThreads, Engine!Server(w)
      PROVE  ChainsInv' /\ RequestsInv'
  <2>1. UNCHANGED <<handlers, shared, todo, pushing, running, starts>>
    BY <1>2 DEF Engine!Server, Engine!HandleHTTPRequest, Engine!TestSize,
                Engine!CopyElement, Engine!CopyGarbage, Engine!Serve,
                Engine!setup, Engine!chains
  <2>2. ChainsInv'
    BY <2>1 DEF ChainsInv, Numbered, Engine!Rebuilding
  <2> QED BY <1>2, <2>2, RequestsInvServer
<1>3. CASE UNCHANGED engineVars
  <2>1. UNCHANGED <<handlers, shared, todo, pushing, running, starts, request>>
    BY <1>3 DEF engineVars
  <2>2. ChainsInv'
    BY <2>1 DEF ChainsInv, Numbered, Engine!Rebuilding
  <2>3. RequestsInv'
    BY <2>1 DEF RequestsInv, RequestInv, Stable, Engine!Source, Engine!Rebuilding
  <2> QED BY <2>2, <2>3
<1> QED BY <1>1, <1>2, <1>3 DEF Engine!Next

\* Steps of the other parts leave the engine alone.
LEMMA EngineStep ==
  [MCNext]_<<which, vars, engineVars, formVars, matched>>
    => [Engine!Next]_engineVars
BY DEF MCNext

LEMMA EngineInvHolds == MCSpec => []EngineInv
<1>1. MCInit => EngineInv
  BY EngineInvInit DEF MCInit
<1>2. EngineInv /\ [MCNext]_<<which, vars, engineVars, formVars, matched>> => EngineInv'
  BY EngineInvStep, EngineStep
<1> QED BY <1>1, <1>2, PTL DEF MCSpec

(* A request of Engine that comes when RebuildHandlers has returned, and   *)
(* is answered with 404 or 405, has a chain that ends with all middlewares *)
(* in the order of Use, after any number of restarts, and in the first run *)
(* of the server is nothing else; the unlocked copy of such a request, and *)
(* of one that has a route whenever it comes, meets no foreign memory.     *)
(* Requests that come earlier are not covered: the run engine_use shows    *)
(* what they can miss.                                                     *)
THEOREM SettledChainHolds == MCSpec => []SettledChain
<1>1. EngineInv => SettledChain
  <2> SUFFICES ASSUME ChainsInv, RequestsInv, NEW w \in ServerThreads,
                      request[w].pc # "idle"
               PROVE  /\ request[w].pc = "undefined" =>
                           Engine!IsError(w) /\ ~request[w].settled
                      /\ Engine!Served(w) /\ Engine!IsError(w) /\ request[w].settled =>
                           /\ Engine!IsSuffix(handlers, request[w].chain)
                           /\ starts = 1 => request[w].chain = handlers
    BY DEF EngineInv, SettledChain, Engine!SettledChain
  <2>1. /\ running /\ (request[w].settled => ~Engine!Rebuilding)
        /\ Stable(w) => /\ request[w].pc # "undefined"
                        /\ Copied(request[w], Engine!Source(w))
    BY ActiveRequest
  <2>2. request[w].pc = "undefined" => Engine!IsError(w) /\ ~request[w].settled
    BY <2>1 DEF Stable, Engine!IsError
  <2>3. ASSUME Engine!Served(w), Engine!IsError(w), request[w].settled
        PROVE  /\ Engine!IsSuffix(handlers, request[w].chain)
               /\ starts = 1 => request[w].chain = handlers
    <3> DEFINE c == Engine!SharedChain(request[w].status)
    <3>1. c \in Engine!ErrorChains /\ Engine!Source(w) = shared[c]
      BY <2>3 DEF Engine!IsError, Engine!Source, Engine!SharedChain, Engine!ErrorChains
    <3>2. todo[c] = <<>>
      BY <2>1, <2>3, <3>1, NotRebuilding
    <3>3. /\ ErrorChainInv(shared[c], <<>>, Len(handlers), starts, TRUE)
          /\ handlers \in Seq(Nat) /\ \A k \in 1 .. Len(handlers) : handlers[k] = k
          /\ starts \in Nat
      BY <2>1, <3>1, <3>2 DEF ChainsInv, Numbered
    <3> HIDE DEF c
    <3>4. request[w].chain = shared[c]
      <4>1. /\ request[w].chain \in Seq(Nat)
            /\ Len(request[w].chain) = Len(shared[c])
            /\ \A j \in 1 .. Len(request[w].chain) : request[w].chain[j] = shared[c][j]
        BY <2>1, <2>3, <3>1 DEF Copied, Stable, Engine!Served, Engine!IsError
      <4>2. shared[c] \in Seq(Nat)
        BY <3>3 DEF ErrorChainInv
      <4> QED BY ONLY <4>1, <4>2, SeqEqual
    <3> QED BY <3>3, <3>4, ChainComplete
  <2> QED BY <2>2, <2>3
<1> QED BY <1>1, EngineInvHolds, PTL
=============================================================================
