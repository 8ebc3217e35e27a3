----------------------------- MODULE RestServer -----------------------------
(***************************************************************************)
(* The two REST servers, echo-rest and fiber-rest: their options, the      *)
(* wrapper through which modules mount routers, middlewares and handlers,  *)
(* the way a request takes through what was mounted, Serve and Shutdown.   *)
(*                                                                         *)
(* A middleware is <<name, call>>: <<"module", n>> is the one a module gave *)
(* with its n-th call, the others have call 0.                             *)
(* Paths are sequences of pieces; one HTTP method stands for all of them.  *)
(*                                                                         *)
(* External, modelled from how the code uses them: echo, where a route     *)
(* carries the middlewares its group had when it was mounted and the last  *)
(* route of a path wins; fiber, which goes through routes and middlewares  *)
(* in the order they were mounted, takes a middleware whose path is a      *)
(* prefix and the first route whose path is equal; net/http, which         *)
(* recovers from panics of handlers, and fasthttp, which does not.         *)
(***************************************************************************)
EXTENDS Naturals, Sequences, FiniteSets, SequencesExt

CONSTANTS
    Pieces,       \* what paths consist of
    RootPath, UseGraphQL,  \* of the environment
    OptionLists,  \* sequences of option functions an application passes
    Patterns,     \* patterns of routers and handlers
    Unknown,      \* a path nobody mounts
    MaxCalls      \* bound: calls of the modules

AnyPath         == Seq(Pieces)
MiddlewareNames == {"cors", "tracer", "logger", "recover", "auth", "module"}
Middlewares     == MiddlewareNames \X Nat
RootMiddlewares == MiddlewareNames \X {0}  \* given by no module

\* Error handlers an application can give: one that looks whether an answer has been
\* given, and one that answers nothing.
ErrorHandlers == {"careful", "silent"}

\* What an application can pass to the two servers.  The engine option of echo can mount
\* middlewares; an error handler it sets is replaced.  A configuration of fiber has an
\* error handler or none.
OptionFunctions ==
    ({"SetRootMiddlewares", "AddRootMiddlewares"} \X Seq(RootMiddlewares))
        \cup ({"SetRootPath"} \X AnyPath)
        \cup ({"SetIncludeGraphQL", "SetSharedListener"} \X BOOLEAN)
        \cup {<<"AddGraphQLOption">>}
        \cup ({"SetErrorHandler"} \X ErrorHandlers)
        \cup ({"SetFiberConfig"} \X (ErrorHandlers \cup {"none"}))
        \cup ({"SetEchoEngineOption"} \X Seq(RootMiddlewares))

ASSUME RestServerAssumption ==
    /\ {"graphql", "playground", "voyager", "memstats"} \subseteq Pieces
    /\ RootPath \in AnyPath /\ UseGraphQL \in BOOLEAN
    /\ OptionLists \subseteq Seq(OptionFunctions)
    /\ Patterns \subseteq AnyPath /\ Unknown \in AnyPath
    /\ MaxCalls \in Nat

VARIABLES
    framework,  \* "echo" or "fiber"
    opt,        \* the option record
    routers,    \* routers handed to modules, the root first
    stack,      \* what is mounted, in order
    calls,      \* history: what modules asked for
    serve,      \* where Serve is
    stop,       \* Shutdown was called
    last        \* history: the last request

vars == <<framework, opt, routers, stack, calls, serve, stop, last>>
mountVars == <<routers, stack, calls>>
runVars   == <<serve, stop>>

Named(names) == [i \in 1..Len(names) |-> <<names[i], 0>>]

Handlers == {"wrapped", "native", "root", "memstats",
             "graphql", "playground", "voyager"}
NoRequest == [path |-> <<>>, chain |-> <<>>, end |-> "none", outcome |-> "none",
              answers |-> 0, panic |-> FALSE]

TypeOK ==
    /\ framework \in {"echo", "fiber"}
    /\ \A i \in 1..Len(stack) : stack[i].kind \in {"use", "route"}
                                /\ stack[i].handler \in Handlers \cup {"none"}
    /\ Len(calls) <= MaxCalls /\ Len(routers) <= MaxCalls + 1
    /\ serve \in {"mount", "built", "running", "returned", "panicked", "died"}
    /\ stop \in BOOLEAN
    /\ last.end \in Handlers \cup {"none", "rejected"} /\ last.answers \in 0..2

-----------------------------------------------------------------------------
(* Options *)

\* The fields whose effect the properties tell apart.
EchoDefaultOption ==
    [rootMiddlewares |-> Named(<<"cors", "tracer", "logger">>), rootPath |-> <<>>,
     includeGraphQL |-> FALSE, shared |-> FALSE, engine |-> <<>>, errorHandler |-> "own"]

FiberDefaultOption ==
    [rootMiddlewares |-> Named(<<"recover", "tracer", "logger">>), rootPath |-> <<>>,
     includeGraphQL |-> FALSE, graphqlPath |-> <<>>, shared |-> FALSE,
     errorHandler |-> "own"]

\* An option function sets a field, or adds to the root middlewares.
EchoOption(o, f) ==
    CASE f[1] = "SetRootMiddlewares" -> [o EXCEPT !.rootMiddlewares = f[2]]
      [] f[1] = "AddRootMiddlewares" -> [o EXCEPT !.rootMiddlewares = @ \o f[2]]
      [] f[1] = "SetRootPath"        -> [o EXCEPT !.rootPath = f[2]]
      [] f[1] = "SetIncludeGraphQL"  -> [o EXCEPT !.includeGraphQL = f[2]]
      [] f[1] = "SetSharedListener"  -> [o EXCEPT !.shared = f[2]]
      [] f[1] = "SetErrorHandler"    -> [o EXCEPT !.errorHandler = f[2]]
      [] f[1] = "SetEchoEngineOption" -> [o EXCEPT !.engine = f[2]]
      [] OTHER -> o

\* There is no shared listener; the path of GraphQL is empty until an option for it is
\* given.
FiberOption(o, f) ==
    CASE f[1] = "SetRootMiddlewares" -> [o EXCEPT !.rootMiddlewares = f[2]]
      [] f[1] = "AddRootMiddlewares" -> [o EXCEPT !.rootMiddlewares = @ \o f[2]]
      [] f[1] = "SetRootPath"        -> [o EXCEPT !.rootPath = f[2]]
      [] f[1] = "SetIncludeGraphQL"  -> [o EXCEPT !.includeGraphQL = f[2]]
      [] f[1] = "AddGraphQLOption"   -> [o EXCEPT !.graphqlPath = <<"graphql">>]
      [] f[1] = "SetFiberConfig"     ->
            [o EXCEPT !.errorHandler = IF f[2] = "none" THEN "own" ELSE f[2]]
      [] OTHER -> o

EnvOptions ==
    <<<<"SetRootPath", RootPath>>, <<"SetIncludeGraphQL", UseGraphQL>>>>
        \o (IF UseGraphQL THEN <<<<"AddGraphQLOption">>>> ELSE <<>>)

SetupRESTServer(opts)   == FoldLeft(EchoOption, EchoDefaultOption, EnvOptions \o opts)
SetupFiberServer(opts)  == FoldLeft(FiberOption, FiberDefaultOption, EnvOptions \o opts)

-----------------------------------------------------------------------------
(* NewServer and NewFiberServer *)

Route(path, mws, handler) ==
    [kind |-> "route", path |-> path, mws |-> mws, handler |-> handler]
Middleware(path, mws) ==
    [kind |-> "use", path |-> path, mws |-> mws, handler |-> "none"]

EchoNewServer(o) ==
    <<Route(<<>>, <<>>, "root"), Route(<<"memstats">>, Named(<<"auth">>), "memstats")>>

\* Variant: the root group is made without the root middlewares.
FiberNewServerBare(o) == <<Route(<<>>, <<>>, "root"), Middleware(<<>>, Named(<<"cors">>))>>

\* The root handler comes first, before any middleware.
FiberNewServer(o) ==
    <<Route(<<>>, <<>>, "root"), Middleware(<<>>, Named(<<"cors">>))>>
        \o (IF o.rootMiddlewares = <<>> THEN <<>>
            ELSE <<Middleware(o.rootPath, o.rootMiddlewares)>>)

Init ==
    /\ framework \in {"echo", "fiber"}
    /\ \E opts \in OptionLists :
          opt = IF framework = "echo" THEN SetupRESTServer(opts) ELSE SetupFiberServer(opts)
    /\ stack = IF framework = "echo" THEN EchoNewServer(opt) ELSE FiberNewServer(opt)
    /\ routers = <<[prefix |-> opt.rootPath, mws |-> <<>>, parent |-> 0, born |-> 0]>>
    /\ calls = <<>>
    /\ serve = "mount" /\ stop = FALSE
    /\ last = NoRequest

Mounting == serve = "mount" /\ Len(calls) < MaxCalls
Given(with) == IF with THEN <<<<"module", Len(calls) + 1>>>> ELSE <<>>
Asked(op, r, path, with, native) ==
    calls' = Append(calls, [op |-> op, router |-> r, path |-> routers[r].prefix \o path,
                            with |-> with, native |-> native, made |-> Len(routers) + 1])

\* A copy of the middlewares the router has so far, and the new ones.
EchoGroup(r, pattern, mws) ==
    /\ routers' = Append(routers,
                         [prefix |-> routers[r].prefix \o pattern,
                          mws |-> routers[r].mws \o mws,
                          parent |-> r, born |-> Len(calls) + 1])
    /\ UNCHANGED stack

FiberGroup(r, pattern, mws) ==
    LET prefix == routers[r].prefix \o pattern IN
    /\ routers' = Append(routers, [prefix |-> prefix, mws |-> <<>>, parent |-> r,
                                   born |-> Len(calls) + 1])
    /\ stack' = IF mws = <<>> THEN stack ELSE Append(stack, Middleware(prefix, mws))

Group(r, pattern, with) ==
    /\ Mounting
    /\ IF framework = "echo" THEN EchoGroup(r, pattern, Given(with))
                             ELSE FiberGroup(r, pattern, Given(with))
    /\ Asked("Group", r, pattern, with, FALSE)
    /\ UNCHANGED <<framework, opt, runVars, last>>

EchoUse(r, mws) ==
    /\ routers' = [routers EXCEPT ![r].mws = @ \o mws]
    /\ UNCHANGED stack

FiberUse(r, mws) ==
    /\ stack' = Append(stack, Middleware(routers[r].prefix, mws))
    /\ UNCHANGED routers

Use(r) ==
    /\ Mounting
    /\ IF framework = "echo" THEN EchoUse(r, Given(TRUE)) ELSE FiberUse(r, Given(TRUE))
    /\ Asked("Use", r, <<>>, TRUE, FALSE)
    /\ UNCHANGED <<framework, opt, runVars, last>>

transformMiddlewares(mws)    == mws
WithChainingMiddlewares(mws) == mws

\* The wrapper calls transformMiddlewares without arguments; a module that mounts on
\* the echo group itself (native) has its middlewares added.
EchoHandle(r, pattern, mws, native) ==
    Append(stack, Route(routers[r].prefix \o pattern,
                        routers[r].mws \o (IF native THEN mws
                                            ELSE transformMiddlewares(<<>>)),
                        IF native THEN "native" ELSE "wrapped"))

\* Variant: the handler is put before the middlewares of the route.
FiberHandleFirst(r, pattern, mws, native) ==
    Append(stack, Route(routers[r].prefix \o pattern, <<>>,
                        IF native THEN "native" ELSE "wrapped"))

FiberHandle(r, pattern, mws, native) ==
    Append(stack, Route(routers[r].prefix \o pattern, WithChainingMiddlewares(mws),
                        IF native THEN "native" ELSE "wrapped"))

Handle(r, pattern, with, native) ==
    /\ Mounting
    /\ stack' = IF framework = "echo" THEN EchoHandle(r, pattern, Given(with), native)
                                      ELSE FiberHandle(r, pattern, Given(with), native)
    /\ Asked("Handle", r, pattern, with, native)
    /\ UNCHANGED <<framework, opt, routers, runVars, last>>

\* All modules have mounted; the handlers of GraphQL come last.
GraphQLRoutes(path) ==
    <<Route(path, <<>>, "graphql"), Route(path \o <<"playground">>, <<>>, "playground"),
      Route(path \o <<"voyager">>, <<>>, "voyager")>>
EchoGraphQL  == GraphQLRoutes(opt.rootPath \o <<"graphql">>)
FiberGraphQL == GraphQLRoutes(opt.rootPath \o opt.graphqlPath)

Built ==
    /\ serve = "mount"
    /\ serve' = "built"
    /\ stack' = IF ~ opt.includeGraphQL THEN stack
                ELSE stack \o (IF framework = "echo" THEN EchoGraphQL ELSE FiberGraphQL)
    /\ UNCHANGED <<framework, opt, routers, calls, stop, last>>

-----------------------------------------------------------------------------
(* A request *)

\* The number of the route that takes a path, 0 if none does.
Taken(path) ==
    LET fits == {i \in 1..Len(stack) : stack[i].kind = "route" /\ stack[i].path = path}
    IN  IF fits = {} THEN 0
        ELSE IF framework = "echo" THEN CHOOSE i \in fits : \A j \in fits : j <= i
        ELSE CHOOSE i \in fits : \A j \in fits : i <= j

\* What a request passes, in order.  Fiber passes the middlewares mounted before the
\* route, or all of them when there is none.
Chain(path) ==
    LET i == Taken(path)
        own == IF i = 0 THEN <<>> ELSE stack[i].mws
        Passes(n) == /\ stack[n].kind = "use" /\ IsPrefix(stack[n].path, path)
                     /\ (i = 0 \/ n < i)
    IN  IF framework = "echo" THEN opt.engine \o opt.rootMiddlewares \o own
        ELSE FlattenSeq([n \in 1..Len(stack) |-> IF Passes(n) THEN stack[n].mws ELSE <<>>])
                \o own

\* What handlers do: answer, return an error, which wrapped ones cannot, do both, panic,
\* or answer and then panic ("late").
Outcomes(handler) ==
    IF handler = "native" THEN {"ok", "error", "both", "panic", "late"}
    ELSE IF handler = "none" THEN {"error"} ELSE {"ok", "panic", "late"}

\* Handlers write to the response itself: what a handler has written stays when it panics.
Ended(outcome) ==
    [answers |-> IF outcome \in {"ok", "both", "late"} THEN 1 ELSE 0,
     error |-> outcome \in {"error", "both"}, panic |-> outcome \in {"panic", "late"}]

\* It writes, whatever has been written before.
CustomHTTPErrorHandler(r) == [r EXCEPT !.answers = @ + 1, !.error = FALSE]

\* It replaces the response.
defaultErrHandler(r) == [r EXCEPT !.answers = 1, !.error = FALSE]

\* One that an application gave.
GivenErrorHandler(r) ==
    [r EXCEPT !.answers = IF opt.errorHandler = "careful" /\ @ = 0 THEN 1 ELSE @,
              !.error = FALSE]

HandleError(r) ==
    IF ~ r.error THEN r
    ELSE IF opt.errorHandler # "own" THEN GivenErrorHandler(r)
    ELSE IF framework = "echo" THEN CustomHTTPErrorHandler(r) ELSE defaultErrHandler(r)

\* Variant: the error is answered and returned.
LoggerReturning(r) == [HandleError(r) EXCEPT !.error = r.error]

\* The logging middlewares have the error of what they call answered and return none.
EchoLoggerMiddleware(r) == HandleError(r)

\* It writes behind what has been written.
RecoverMiddleware(r) ==
    IF r.panic THEN [r EXCEPT !.answers = @ + 1, !.panic = FALSE] ELSE r

\* That of echo itself, which an application may add, has the panic answered as an error.
EchoRecover(r) ==
    IF r.panic THEN HandleError([r EXCEPT !.panic = FALSE, !.error = TRUE]) ELSE r

\* On the way back; the tracing middlewares, among others, hand on what they get.
Back(mw, r) ==
    CASE mw[1] = "logger"  -> EchoLoggerMiddleware(r)
      [] mw[1] = "recover" -> IF framework = "echo" THEN EchoRecover(r)
                                                    ELSE RecoverMiddleware(r)
      [] OTHER -> r

\* A middleware of a module, or the authentication of an endpoint, may answer itself.
Rejecting(chain) == {n \in 1..Len(chain) : chain[n][1] \in {"module", "auth"}}

\* The error nobody has answered goes to the error handler.
Passed(chain, outcome) == HandleError(FoldRight(Back, chain, Ended(outcome)))

\* Bound: one request is followed; requests share nothing.
Request(path) ==
    /\ serve = "running" /\ ~ stop /\ last = NoRequest
    /\ LET chain == Chain(path)
           end == IF Taken(path) = 0 THEN "none" ELSE stack[Taken(path)].handler
           Served(c, e, o) ==
               LET r == Passed(c, o)
               IN  /\ last' = [path |-> path, chain |-> c, end |-> e, outcome |-> o,
                               answers |-> r.answers, panic |-> r.panic]
                   /\ serve' = IF r.panic /\ framework = "fiber" THEN "died" ELSE serve
       IN  \/ \E o \in Outcomes(end) : Served(chain, end, o)
           \/ \E n \in Rejecting(chain) : Served(SubSeq(chain, 1, n - 1), "rejected", "ok")
    /\ UNCHANGED <<framework, opt, mountVars, stop>>

-----------------------------------------------------------------------------
(* Serve and Shutdown *)

\* Start always ends with an error; Serve panics on a *net.OpError, which is what a
\* listener that cannot be opened fails with, and neither http.ErrServerClosed nor the
\* error of a closed multiplexer is.
OpErrors == {"listen"}
EchoServeEnds(why) == IF why \in OpErrors THEN "panicked" ELSE "returned"

\* Listen ends with no error when the server is shut down.
FiberServeEnds(why) == IF why = "shutdown" THEN "returned" ELSE "panicked"

ServeEnds(why) ==
    serve' = IF framework = "echo" THEN EchoServeEnds(why) ELSE FiberServeEnds(why)

\* The address may be in use, unless the listener is shared.  After Shutdown echo does
\* not start; fiber does, for nothing remembers the call.
Serve ==
    /\ serve = "built"
    /\ \/ ~ opt.shared /\ ServeEnds("listen")
       \/ framework = "echo" /\ stop /\ ServeEnds("shutdown")
       \/ /\ framework = "echo" => ~ stop
          /\ serve' = "running"
    /\ UNCHANGED <<framework, opt, mountVars, stop, last>>

Shutdown ==
    /\ serve \in {"built", "running"} /\ ~ stop
    /\ stop' = TRUE
    /\ IF serve = "running" THEN ServeEnds("shutdown") ELSE UNCHANGED serve
    /\ UNCHANGED <<framework, opt, mountVars, last>>

\* Another server closes the multiplexer the listener is shared through.
MuxClosed ==
    /\ opt.shared /\ serve = "running"
    /\ ServeEnds("mux")
    /\ UNCHANGED <<framework, opt, mountVars, stop, last>>

-----------------------------------------------------------------------------
Paths == {stack[i].path : i \in 1..Len(stack)} \cup {Unknown}

Next ==
    \/ \E r \in 1..Len(routers), p \in Patterns, with \in BOOLEAN, native \in BOOLEAN :
          \/ Group(r, p, with)
          \/ Handle(r, p, with, native)
    \/ \E r \in 1..Len(routers) : Use(r)
    \/ Built \/ Serve \/ Shutdown \/ MuxClosed
    \/ \E p \in Paths : Request(p)

Spec == Init /\ [][Next]_vars

-----------------------------------------------------------------------------
(* Properties *)

\* A router, the one it was made from, and so on.
Line[r \in 0..Len(routers)] == IF r = 0 THEN {} ELSE {r} \cup Line[routers[r].parent]

\* Calls whose middlewares guard what is mounted on a router afterwards: those that made
\* it or a router before it in the line, and Use on one of these while it was the last.
Guards(k) ==
    LET line == Line[calls[k].router]
        Before(q, j) == \A s \in line : routers[s].parent = q => j < routers[s].born
    IN  {j \in 1..(k - 1) :
            /\ calls[j].with
            /\ \/ calls[j].op = "Group" /\ calls[j].made \in line
               \/ calls[j].op = "Use" /\ calls[j].router \in line /\ Before(calls[j].router, j)}

Own(k) == IF calls[k].with THEN {k} ELSE {}

\* The calls that gave the middlewares of a chain.
Passing(chain) == {chain[n][2] : n \in 1..Len(chain)} \ {0}

\* The call that mounted the handler the last request ended in.
MountedBy ==
    LET ks == {k \in 1..Len(calls) : calls[k].op = "Handle" /\ calls[k].path = last.path}
    IN  IF framework = "echo" THEN CHOOSE k \in ks : \A j \in ks : j <= k
                              ELSE CHOOSE k \in ks : \A j \in ks : k <= j
InModule == last.end \in {"wrapped", "native"}

\* No request reaches a handler of a module past the middlewares that guard it: those of
\* the router it was mounted on come first, in the order they were given, and its own
\* come last, except that the wrapper of echo drops these.  Nothing else is in the way:
\* with echo no other middleware of a module at all, with fiber only those of routers
\* whose path is a prefix, mounted before.
GuardedByGroups ==
    InModule =>
        LET k == MountedBy
            own == IF framework = "fiber" \/ calls[k].native THEN Own(k) ELSE {}
            mws == Guards(k) \cup own
            chain == last.chain
            Above(j) == /\ framework = "fiber" /\ j < k /\ calls[j].op # "Handle"
                        /\ IsPrefix(calls[j].path, last.path)
        IN  /\ mws \subseteq Passing(chain)
            /\ \A a, b \in 1..Len(chain) :
                  a < b /\ {chain[a][2], chain[b][2]} \subseteq mws => chain[a][2] < chain[b][2]
            /\ \A j \in Passing(chain) : j \in mws \/ Above(j)

\* A handler's own middlewares are in the way of its requests.
RouteMiddlewares == InModule => Own(MountedBy) \subseteq Passing(last.chain)

\* The answers a request gets whose handler ends like that, unless it ends as a panic.
Due(outcome) ==
    LET wrote == outcome \in {"ok", "both", "late"}
        panicked == outcome \in {"panic", "late"}
        appends == IF framework = "fiber" THEN panicked
                   ELSE outcome # "ok" /\ opt.errorHandler = "own"
        silent == opt.errorHandler = "silent" /\ (framework = "fiber" => ~ panicked)
    IN  IF wrote THEN IF appends THEN 2 ELSE 1
        ELSE IF silent THEN 0 ELSE 1

\* A request is answered once, whoever answers: a middleware, the handler, a logging or
\* recovering middleware or the error handler.  It is answered twice only when the handler
\* answers and then fails, and what answers the failure appends: RecoverMiddleware in
\* fiber, the error handler of echo-rest in echo, neither of which looks whether an answer
\* has been given.  It is left without an answer only by a panic nobody recovers from, or
\* when an error handler of the application answers nothing.
AnsweredOnce == last # NoRequest /\ ~ last.panic => last.answers = Due(last.outcome)

\* A handler that panics ends the process only in fiber: in the root handler, or when
\* the application has replaced the root middlewares.
SurvivesPanic ==
    serve = "died" =>
        /\ framework = "fiber"
        /\ last.end = "root" \/ ~ Contains(opt.rootMiddlewares, <<"recover", 0>>)
=============================================================================
