------------------------------- MODULE MCHttp -------------------------------
(***************************************************************************)
(* The parts of workflow-http in one model: the chain of handlers of a     *)
(* request, the engine, the matching of paths and the multipart parser.    *)
(* A behaviour uses one of them, which the variable "which" names, and     *)
(* leaves the others as they were constructed.                             *)
(***************************************************************************)
EXTENDS HttpContext, FiniteSets

CONSTANTS
  ServerThreads, Methods, MaxUse, MaxRoutes, MaxStarts, Null,
  MaxPattern, MaxPath,   \* bounds: lengths of the paths that are matched
  MaxContent,            \* bound: the length of the content of a part
  BodyLength             \* tokens in the body of the form that is damaged

VARIABLES
  which,
  handlers, routes, shared, todo, pushing, running, starts, request,
  parts, lost, body, pos, mark, state, mpIndex, user, mp, failed,
  matched                \* a registered path, or one and a requested path

\* Strings of length up to n.
Words(alphabet, n) == UNION {[1 .. k -> alphabet] : k \in 0 .. n}

Engine == INSTANCE HttpEngine WITH
  Patterns <- {<<"/", "a">>, <<"/", ":", "x">>, <<"/", "a", "*">>},
  Paths <- {<<"/", "a">>, <<"/", "a", "b">>}

Part(name, filename, type, typeFirst, content) ==
  [name |-> name, filename |-> filename, type |-> type,
   typeFirst |-> typeFirst, content |-> content]

Plain(name, content) == Part(name, <<>>, <<>>, FALSE, content)

\* Contents that look like the boundary, all kinds of headers, and a form
\* that loses a token.
SentForms ==
  {[parts |-> <<Plain(<<"a">>, content), Plain(<<"b">>, <<"x">>)>>, lost |-> 0] :
     content \in Words({"CR", "LF", "-", "x"}, MaxContent)}
  \cup
  {[parts |-> <<Part(n, f, t, first, <<>>), Plain(<<"a">>, <<"x">>)>>, lost |-> 0] :
     n \in {<<>>, <<"a">>, <<"b">>}, f \in {<<>>, <<"f">>}, t \in {<<>>, <<"t">>},
     first \in BOOLEAN}
  \cup
  {[parts |-> <<Plain(<<"a">>, <<>>), Plain(<<"b">>, <<>>)>>, lost |-> i] :
     i \in 1 .. BodyLength}

Form == INSTANCE Multipart WITH
  Boundary <- <<"x">>, Sent <- SentForms, index <- mpIndex

engineVars == <<handlers, routes, shared, todo, pushing, running, starts,
                request>>
formVars == <<parts, lost, body, pos, mark, state, mpIndex, user, mp, failed>>

\* A form that nothing is done with.
NoForm ==
  /\ parts = <<>> /\ lost = 0 /\ body = Form!BodyOf(<<>>) /\ pos = 1 /\ mark = 1
  /\ state = "s_start" /\ mpIndex = 0 /\ user = Form!Empty /\ mp = <<>>
  /\ failed = FALSE

NoContext ==
  /\ size = 0 /\ index = Word - 1 /\ stack = <<>> /\ pc = "start"
  /\ called = <<>> /\ abortedAt = -1 /\ nexts = 0

MCInit ==
  /\ Engine!Init
  /\ \/ which = "context" /\ Init /\ NoForm /\ matched = <<>>
     \/ which = "engine" /\ NoContext /\ NoForm /\ matched = <<>>
     \/ which = "form" /\ NoContext /\ Form!Init /\ matched = <<>>
     \/ /\ which = "router" /\ NoContext /\ NoForm
        /\ matched \in {<<p>> : p \in Words({"/", "a", ":", "*"}, MaxPattern)}

\* A request for any path meets the registered one.
ChoosePath ==
  /\ Len(matched) = 1
  /\ \E path \in Words({"/", "a", "b"}, MaxPath) : matched' = Append(matched, path)

MCNext ==
  \/ which = "context" /\ Next /\ UNCHANGED <<which, engineVars, formVars, matched>>
  \/ which = "engine" /\ Engine!Next /\ UNCHANGED <<which, vars, formVars, matched>>
  \/ which = "form" /\ Form!Next /\ UNCHANGED <<which, vars, engineVars, matched>>
  \/ which = "router" /\ ChoosePath /\ UNCHANGED <<which, vars, engineVars, formVars>>

MCSpec == MCInit /\ [][MCNext]_<<which, vars, engineVars, formVars, matched>>

-----------------------------------------------------------------------------
(* Which requests the engine serves with which handlers.                   *)
Dispatch == Engine!Dispatch

(* The middlewares in the chains of 404 and 405 of requests that come when *)
(* RebuildHandlers has returned.                                           *)
SettledChain == Engine!SettledChain

(* Every middleware is in the chain of every request, as engine.h:49 says. *)
InEveryChain == Engine!InEveryChain

(* The loop of GetRouterNode decides, for every registered and every       *)
(* requested path, what its segments, parameters and wildcard mean, and    *)
(* finds the values of the parameters.                                     *)
RouterExact == Len(matched) = 2 => Engine!MatchExact(matched[1], matched[2])

(* The multipart parser builds the form that was sent.                     *)
FormExact == Form!FormExact
=============================================================================
