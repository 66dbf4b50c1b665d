----------------------------- MODULE HttpEngine -----------------------------
(***************************************************************************)
(* Engine of workflow-http: the routes, the middleware attached with Use,  *)
(* the chains for 404 and 405, and how a request gets its chain.  The      *)
(* routes and the middleware are set up while the server is down.  Start   *)
(* first starts the server, whose threads serve requests from then on, and *)
(* rebuilds the chains for 404 and 405 afterwards, with push_back and      *)
(* without a lock, while the threads copy them element by element.         *)
(*                                                                         *)
(* A middleware is the number of its registration, the handler of a route  *)
(* the number of its own, negated.  How a chain is run is the subject of   *)
(* HttpContext; here a request ends with the chain that Next is to run.    *)
(* What ServeError writes behind it, and the parameters of a path, which   *)
(* Router is about, are left out.                                          *)
(***************************************************************************)
EXTENDS Router

CONSTANTS
  ServerThreads,                 \* threads of the WFHttpServer
  Methods, Patterns, Paths,
  MaxUse, MaxRoutes, MaxStarts,  \* bounds
  Null                           \* a route's handler that is nullptr

ErrorChains == {"allNoRoute", "allNoMethod"}

VARIABLES
  handlers,             \* Router::handlers, the middleware
  routes,               \* methodHandlerFuncMap: method -> nodes, in order
  shared,               \* the members allNoRoute and allNoMethod
  todo,                 \* what RebuildHandlers has still to append to each
  pushing,              \* the one whose push_back is under way, or "none"
  running,              \* the WFHttpServer is started
  starts,               \* successful calls of Start
  request               \* per thread: the request it serves or has served

setup == <<handlers, routes>>
chains == <<shared, todo, pushing>>
vars == <<setup, chains, running, starts, request>>

NoRequest == [pc |-> "idle"]

Init ==
  /\ handlers = <<>>
  /\ routes = <<>>
  /\ shared = [c \in ErrorChains |-> <<>>]
  /\ todo = [c \in ErrorChains |-> <<>>]
  /\ pushing = "none"
  /\ running = FALSE
  /\ starts = 0
  /\ request = [w \in ServerThreads |-> NoRequest]

-----------------------------------------------------------------------------
(* The thread that owns the engine.                                        *)

\* RebuildHandlers has not returned.
Rebuilding == \E c \in ErrorChains : todo[c] # <<>>

Down == ~running /\ ~Rebuilding

Use ==
  /\ Down
  /\ Len(handlers) < MaxUse
  /\ handlers' = Append(handlers, Len(handlers) + 1)
  /\ UNCHANGED <<routes, chains, running, starts, request>>

\* The nodes of a method, none if it is not in the map.
NodesOf(m) == IF m \in DOMAIN routes THEN routes[m] ELSE <<>>

RouteCount == FoldSet(LAMBDA m, n : Len(routes[m]) + n, 0, DOMAIN routes)

\* AddRoute, through Handle, GET, POST and the others.
AddRoute(m, pattern, handler) ==
  /\ Down
  /\ RouteCount < MaxRoutes
  /\ routes' = [k \in DOMAIN routes \cup {m} |->
                  IF k = m
                  THEN Append(NodesOf(m), [fullPath |-> pattern, handler |-> handler])
                  ELSE routes[k]]
  /\ UNCHANGED <<handlers, chains, running, starts, request>>

\* What CombineHandlers appends: the middleware; noRoute and noMethod, which
\* nothing fills, add nothing.
Rebuilt == handlers

\* Run, Start and StartTLS: the server is up and serves requests; the loops
\* of RebuildHandlers are still to come.
Start ==
  /\ Down
  /\ starts < MaxStarts
  /\ running' = TRUE
  /\ todo' = [c \in ErrorChains |-> Rebuilt]
  /\ starts' = starts + 1
  /\ UNCHANGED <<setup, shared, pushing, request>>

\* One turn of a loop of RebuildHandlers: Rebuild404Handlers comes first.
\* push_back is not atomic, it may move the elements to new memory.
BeginPush(c) ==
  /\ pushing = "none"
  /\ todo[c] # <<>>
  /\ c = "allNoMethod" => todo["allNoRoute"] = <<>>
  /\ pushing' = c
  /\ UNCHANGED <<setup, shared, todo, running, starts, request>>

EndPush(c) ==
  /\ pushing = c
  /\ shared' = [shared EXCEPT ![c] = Append(@, Head(todo[c]))]
  /\ todo' = [todo EXCEPT ![c] = Tail(@)]
  /\ pushing' = "none"
  /\ UNCHANGED <<setup, running, starts, request>>

\* Stop, called when Start has returned; it waits for the requests.
Stop ==
  /\ running
  /\ ~Rebuilding
  /\ \A w \in ServerThreads : request[w].pc \in {"idle", "done"}
  /\ running' = FALSE
  /\ request' = [w \in ServerThreads |-> NoRequest]
  /\ UNCHANGED <<setup, chains, starts>>

-----------------------------------------------------------------------------
(* The threads of the server.                                              *)

\* Mutant: the last node that matches.
FirstMatchLast(nodes, path) ==
  {i \in DOMAIN nodes :
     /\ Match(nodes[i].fullPath, path).match
     /\ \A j \in i + 1 .. Len(nodes) : ~Match(nodes[j].fullPath, path).match}

\* The loop of GetRouterNode over the nodes: the first that matches, if any.
FirstMatch(nodes, path) ==
  {i \in DOMAIN nodes :
     /\ Match(nodes[i].fullPath, path).match
     /\ \A j \in 1 .. i - 1 : ~Match(nodes[j].fullPath, path).match}

\* The handler that HandleHTTPRequest finds.
Found(m, path) ==
  LET found == FirstMatch(NodesOf(m), path)
  IN IF found = {} THEN Null ELSE NodesOf(m)[CHOOSE i \in found : TRUE].handler

\* HandleHTTPRequest up to the call of Context::CombineHandlers.  settled is
\* a history: RebuildHandlers has returned.
HandleHTTPRequest(w, m, path) ==
  /\ running
  /\ request[w].pc \in {"idle", "done"}
  /\ request' = [request EXCEPT ![w] =
       [pc |-> "test", method |-> m, path |-> path,
        status |-> IF m \notin DOMAIN routes THEN "405"
                   ELSE IF Found(m, path) = Null THEN "404" ELSE "handler",
        handler |-> Found(m, path),
        chain |-> <<>>,          \* Context::handlers
        settled |-> ~Rebuilding]]
  /\ UNCHANGED <<setup, chains, running, starts>>

\* The name of the chain that a request with this status copies.
SharedChain(status) == IF status = "405" THEN "allNoMethod" ELSE "allNoRoute"

\* The vector that the request of w copies.
Source(w) ==
  IF request[w].status = "handler" THEN handlers
  ELSE shared[SharedChain(request[w].status)]

\* It is being changed at the moment.
Racing(w) ==
  request[w].status # "handler" /\ pushing = SharedChain(request[w].status)

\* Mutant: the loop goes up to size().
MoreOrEqual(w) == Len(request[w].chain) <= Len(Source(w))

\* The condition of the loop of Context::CombineHandlers.
MoreToCopy(w) == Len(request[w].chain) < Len(Source(w))

\* The loop tests size(): the difference of two pointers that a push_back on
\* the same vector changes one after the other, so that it can be anything.
TestSize(w) ==
  /\ request[w].pc = "test"
  /\ \E more \in IF Racing(w) THEN BOOLEAN ELSE {MoreToCopy(w)} :
       request' = [request EXCEPT ![w].pc = IF more THEN "element" ELSE "run"]
  /\ UNCHANGED <<setup, chains, running, starts>>

CopyElement(w) ==
  /\ request[w].pc = "element"
  /\ Len(request[w].chain) < Len(Source(w))
  /\ request' = [request EXCEPT
       ![w].chain = Append(@, Source(w)[Len(@) + 1]), ![w].pc = "test"]
  /\ UNCHANGED <<setup, chains, running, starts>>

\* It reads memory that a push_back has freed, or that is behind the end:
\* what the program does from then on is undefined.
CopyGarbage(w) ==
  /\ request[w].pc = "element"
  /\ Racing(w) \/ Len(request[w].chain) >= Len(Source(w))
  /\ request' = [request EXCEPT ![w].pc = "undefined"]
  /\ UNCHANGED <<setup, chains, running, starts>>

\* The rest of HandleHTTPRequest: CombineHandler(f) for the handler of a
\* route, Next or ServeError.
Serve(w) ==
  /\ request[w].pc = "run"
  /\ request' = [request EXCEPT
       ![w].chain = IF request[w].status = "handler"
                    THEN Append(@, request[w].handler) ELSE @,
       ![w].pc = "done"]
  /\ UNCHANGED <<setup, chains, running, starts>>

Owner ==
  \/ Use \/ Start \/ Stop
  \/ \E c \in ErrorChains : BeginPush(c) \/ EndPush(c)
  \/ \E m \in Methods, p \in Patterns :
       AddRoute(m, p, Null) \/ AddRoute(m, p, -(RouteCount + 1))

Server(w) ==
  \/ \E m \in Methods, p \in Paths : HandleHTTPRequest(w, m, p)
  \/ TestSize(w) \/ CopyElement(w) \/ CopyGarbage(w) \/ Serve(w)

Next ==
  /\ \A w \in ServerThreads : request[w].pc # "undefined"
  /\ Owner \/ \E w \in ServerThreads : Server(w)

Spec == Init /\ [][Next]_vars

-----------------------------------------------------------------------------
Served(w) == request[w].pc = "done"

\* The first node of the method whose path describes the one of the request.
Expected(m, path) ==
  LET able == {i \in DOMAIN NodesOf(m) : Describes(NodesOf(m)[i].fullPath, path)}
  IN IF able = {} THEN Null ELSE NodesOf(m)[Min(able)].handler

(* A request goes to the handler of the route that was registered first of *)
(* those that describe its path; it is answered with 405 exactly if no     *)
(* route has its method, and with 404 exactly if none with its method      *)
(* describes its path or that route has no handler.  Before the handler    *)
(* come all middlewares, in the order of Use, whatever the other threads   *)
(* and RebuildHandlers do meanwhile.                                       *)
Dispatch ==
  \A w \in ServerThreads : Served(w) =>
    LET r == request[w]
        handler == Expected(r.method, r.path)
    IN /\ r.status = "405" <=> r.method \notin DOMAIN routes
       /\ r.status = "handler" <=> handler # Null
       /\ r.status = "handler" => r.chain = Append(handlers, handler)

\* The request of w is answered with an error.
IsError(w) == request[w].status # "handler"

(* Once RebuildHandlers has returned, what Engine::Use promises holds of   *)
(* the requests that come from then on: the chains of 404 and 405 end with *)
(* all middlewares in the order of Use, after any number of restarts; in   *)
(* the first run of the server they are nothing else.  And the copy loop   *)
(* of Context::CombineHandlers meets memory that is not its own neither in *)
(* these requests nor, at any time, in one that has a route.               *)
SettledChain ==
  \A w \in ServerThreads : request[w].pc # "idle" =>
    /\ request[w].pc = "undefined" => IsError(w) /\ ~request[w].settled
    /\ Served(w) /\ IsError(w) /\ request[w].settled =>
         /\ IsSuffix(handlers, request[w].chain)
         /\ starts = 1 => request[w].chain = handlers

(* What the comment on Use in engine.h:49 says: "the middleware attached   *)
(* though Use() will be included in the handlers chain for every single    *)
(* request. Even 404, 405"; that is, each of them, once.                   *)
InEveryChain ==
  \A w \in ServerThreads : Served(w) =>
    \A h \in DOMAIN handlers :
      Cardinality({j \in DOMAIN request[w].chain : request[w].chain[j] = handlers[h]}) = 1
=============================================================================
