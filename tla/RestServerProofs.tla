-------------------------- MODULE RestServerProofs --------------------------
(***************************************************************************)
(* The safety of the two REST servers for any options, paths and patterns  *)
(* and any number of calls of the modules.                                 *)
(*                                                                         *)
(* Options are folds over the option functions, the way back of a request  *)
(* is a fold over its middlewares: the recursive functions behind both are *)
(* shown to exist (IterExists), and what they compute by induction on sets *)
(* of numbers (CountUp), as the provers cannot apply an induction theorem  *)
(* that takes an operator.                                                 *)
(*                                                                         *)
(* The last sections are about groups: what a request passes is what the   *)
(* calls before it put in front of its handler.                            *)
(***************************************************************************)
EXTENDS RestServer, SequenceTheorems, FiniteSetTheorems, WellFoundedInduction, TLAPS

-----------------------------------------------------------------------------
(* The inductive invariant *)

Entries == [kind : {"use", "route"}, path : AnyPath, mws : Seq(Middlewares),
            handler : Handlers \cup {"none"}]
Calls == [op : {"Group", "Use", "Handle"}, router : Nat, path : AnyPath,
          with : BOOLEAN, native : BOOLEAN, made : Nat]
Routers == [prefix : AnyPath, mws : Seq(Middlewares), parent : Nat, born : Nat]

\* There is no shared listener in fiber.
OptInv ==
    /\ opt.rootMiddlewares \in Seq(RootMiddlewares) /\ opt.rootPath \in AnyPath
    /\ opt.errorHandler \in ErrorHandlers \cup {"own"}
    /\ framework = "echo" => opt.engine \in Seq(RootMiddlewares)
    /\ framework = "fiber" => opt.shared = FALSE /\ opt.graphqlPath \in AnyPath

\* Every router was made from another one, below the root path.
MountInv ==
    /\ stack \in Seq(Entries)
    /\ routers \in Seq(Routers) /\ Len(routers) <= Len(calls) + 1
    /\ \A r \in 1..Len(routers) : IsPrefix(opt.rootPath, routers[r].prefix)
    /\ calls \in Seq(Calls)

\* Fiber has its root middlewares in front of every route but that of the root handler,
\* and all of these routes are below the root path.
RootInv ==
    framework = "fiber" =>
        /\ Len(stack) >= 2
        /\ stack[1].handler = "root" /\ stack[2].kind = "use"
        /\ opt.rootMiddlewares # <<>> =>
              Len(stack) >= 3 /\ stack[3] = Middleware(opt.rootPath, opt.rootMiddlewares)
        /\ \A i \in 2..Len(stack) :
              stack[i].kind = "route" => IsPrefix(opt.rootPath, stack[i].path)

IInv == TypeOK /\ OptInv /\ MountInv /\ RootInv /\ AnsweredOnce /\ SurvivesPanic

-----------------------------------------------------------------------------
(* Induction on numbers, and the functions behind folds *)

\* What holds of 0 and goes from each number to the next one holds up to n.
LEMMA CountUp ==
    ASSUME NEW n \in Nat, NEW T, 0 \in T,
           \A k \in 0..(n - 1) : k \in T => k + 1 \in T
    PROVE  \A k \in 0..n : k \in T
PROOF
  <1> DEFINE B == {k \in 0..n : k \notin T}
  <1> SUFFICES ASSUME B # {} PROVE FALSE
      OBVIOUS
  <1>1. PICK x \in B : \A y \in B : ~ (<<y, x>> \in OpToRel(<, Nat))
      <2>1. B \subseteq Nat
          OBVIOUS
      <2> QED BY <2>1, WFMin, NatLessThanWellFounded, Zenon
  <1>2. x \in 1..n /\ x \notin T
      OBVIOUS
  <1>3. x - 1 \in 0..(n - 1) /\ x - 1 \in Nat /\ (x - 1) + 1 = x
      BY <1>2
  <1>4. x - 1 \in B
      <2>1. x - 1 \notin T
          BY <1>2, <1>3
      <2> QED BY <2>1, <1>3
  <1>5. <<x - 1, x>> \in OpToRel(<, Nat)
      BY <1>2, <1>3 DEF OpToRel
  <1> QED BY <1>1, <1>4, <1>5

\* What holds of a number when it holds of all smaller ones holds up to n.
LEMMA BelowUp ==
    ASSUME NEW n \in Nat, NEW T, \A k \in 0..n : (0..(k - 1)) \subseteq T => k \in T
    PROVE  \A k \in 0..n : k \in T
PROOF
  <1> DEFINE U == {k \in 0..n : (0..k) \subseteq T}
  <1>1. 0 \in U
      <2>1. (0..(0 - 1)) \subseteq T /\ 0 \in 0..n
          OBVIOUS
      <2>2. 0 \in T
          BY <2>1
      <2> QED BY <2>1, <2>2
  <1>2. ASSUME NEW k \in 0..(n - 1), k \in U
        PROVE  k + 1 \in U
      <2>1. k + 1 \in 0..n /\ (0..((k + 1) - 1)) \subseteq T
          BY <1>2
      <2>2. k + 1 \in T
          BY <2>1
      <2> QED BY <2>1, <2>2, <1>2
  <1>3. \A k \in 0..n : k \in U
      <2> HIDE DEF U
      <2> QED BY <1>1, <1>2, CountUp
  <1> QED BY <1>3

\* g is the recursive function of a fold over positions 1 to n: pick chooses the position
\* that is taken from a set last, F gives the next value from the one so far and it.
Folds(g, D, base, F, pick) ==
    \A s \in D : g[s] = IF s = {} THEN base ELSE F[<<g[s \ {pick[s]}], pick[s]>>]

\* There is such a function, whichever way the positions are chosen.
LEMMA IterExists ==
    ASSUME NEW A, NEW base \in A, NEW n \in Nat, NEW F \in [A \X (1..n) -> A],
           NEW pick, \A s \in SUBSET (1..n) : s # {} => pick[s] \in s
    PROVE  \E g \in [SUBSET (1..n) -> A] : Folds(g, SUBSET (1..n), base, F, pick)
PROOF
  <1> DEFINE D(k) == {s \in SUBSET (1..n) : Cardinality(s) <= k}
             T == {k \in 0..n : \E g \in [D(k) -> A] : Folds(g, D(k), base, F, pick)}
  <1>1. \A s \in SUBSET (1..n) : IsFiniteSet(s) /\ Cardinality(s) \in 0..n
      <2>1. IsFiniteSet(1..n) /\ Cardinality(1..n) = n
          BY FS_Interval
      <2> SUFFICES ASSUME NEW s \in SUBSET (1..n)
                   PROVE  IsFiniteSet(s) /\ Cardinality(s) \in 0..n
          OBVIOUS
      <2>2. IsFiniteSet(s) /\ Cardinality(s) <= n
          <3>1. IsFiniteSet(s) /\ Cardinality(s) <= Cardinality(1..n)
              <4> DEFINE all == 1..n
              <4>1. IsFiniteSet(all) /\ s \in SUBSET all
                  BY <2>1
              <4> HIDE DEF all
              <4>2. IsFiniteSet(s) /\ Cardinality(s) <= Cardinality(all)
                  BY <4>1, FS_Subset
              <4> QED BY <4>2 DEF all
          <3> QED BY <3>1, <2>1
      <2>3. Cardinality(s) \in Nat
          BY <2>2, FS_CardinalityType
      <2> QED BY <2>2, <2>3
  <1>2. 0 \in T
      <2> DEFINE g == [s \in D(0) |-> base]
      <2>1. \A s \in D(0) : s = {}
          BY <1>1, FS_EmptySet
      <2>2. g \in [D(0) -> A] /\ 0 \in 0..n
          OBVIOUS
      <2>3. Folds(g, D(0), base, F, pick)
          BY <2>1 DEF Folds
      <2> HIDE DEF g
      <2>4. \E g2 \in [D(0) -> A] : Folds(g2, D(0), base, F, pick)
          BY <2>2, <2>3
      <2> QED BY <2>2, <2>4
  <1>3. ASSUME NEW k \in 0..(n - 1), k \in T
        PROVE  k + 1 \in T
      <2>1. PICK g \in [D(k) -> A] : Folds(g, D(k), base, F, pick)
          BY <1>3
      <2> DEFINE h == [s \in D(k + 1) |->
                          IF s = {} THEN base ELSE F[<<g[s \ {pick[s]}], pick[s]>>]]
      <2>2. ASSUME NEW s \in D(k + 1), s # {}
            PROVE  s \ {pick[s]} \in D(k) /\ s \ {pick[s]} \in D(k + 1) /\ pick[s] \in 1..n
          <3>1. pick[s] \in s /\ s \in SUBSET (1..n)
              BY <2>2
          <3>2. Cardinality(s \ {pick[s]}) = Cardinality(s) - 1
              BY <3>1, <1>1, FS_RemoveElement
          <3>3. Cardinality(s) \in 0..n /\ Cardinality(s) <= k + 1
              BY <3>1, <1>1
          <3>4. s \ {pick[s]} \in SUBSET (1..n) /\ pick[s] \in 1..n
              BY <3>1
          <3>5. Cardinality(s \ {pick[s]}) <= k /\ Cardinality(s \ {pick[s]}) <= k + 1
              BY <3>2, <3>3
          <3> QED BY <3>4, <3>5
      <2>3. ASSUME NEW s \in D(k)
            PROVE  h[s] = g[s]
          <3>1. s \in D(k + 1)
              BY <2>3, <1>1
          <3> QED BY <3>1, <2>1 DEF Folds
      <2>4. h \in [D(k + 1) -> A]
          <3> SUFFICES ASSUME NEW s \in D(k + 1) PROVE h[s] \in A
              BY Zenon
          <3>1. CASE s = {}
              BY <3>1
          <3>2. CASE s # {}
              <4>1. s \ {pick[s]} \in D(k) /\ pick[s] \in 1..n
                  BY <3>2, <2>2
              <4>2. g[s \ {pick[s]}] \in A
                  BY <4>1
              <4>3. F[<<g[s \ {pick[s]}], pick[s]>>] \in A
                  BY <4>1, <4>2
              <4> QED BY <4>3, <3>2
          <3> QED BY <3>1, <3>2
      <2>5. Folds(h, D(k + 1), base, F, pick)
          <3> SUFFICES ASSUME NEW s \in D(k + 1)
                       PROVE  h[s] = IF s = {} THEN base
                                     ELSE F[<<h[s \ {pick[s]}], pick[s]>>]
              BY DEF Folds
          <3>1. CASE s = {}
              BY <3>1
          <3>2. CASE s # {}
              <4>1. h[s \ {pick[s]}] = g[s \ {pick[s]}]
                  BY <3>2, <2>2, <2>3
              <4> QED BY <4>1, <3>2
          <3> QED BY <3>1, <3>2
      <2> HIDE DEF h, D
      <2>6. \E g2 \in [D(k + 1) -> A] : Folds(g2, D(k + 1), base, F, pick)
          BY <2>4, <2>5
      <2>7. k + 1 \in 0..n
          OBVIOUS
      <2> QED BY <2>6, <2>7
  <1>4. n \in T
      <2> HIDE DEF T
      <2>1. n \in 0..n
          OBVIOUS
      <2> QED BY <1>2, <1>3, <2>1, CountUp
  <1>5. D(n) = SUBSET (1..n)
      BY <1>1
  <1>6. \E g \in [D(n) -> A] : Folds(g, D(n), base, F, pick)
      BY <1>4
  <1> HIDE DEF D
  <1> QED BY <1>5, <1>6

\* The smallest and the largest number of a set of positions are in it.
LEMMA MinInside ==
    ASSUME NEW s \in SUBSET Nat, s # {}
    PROVE  \E x \in s : \A y \in s : x <= y
PROOF
  <1>1. PICK x \in s : \A y \in s : ~ (<<y, x>> \in OpToRel(<, Nat))
      BY WFMin, NatLessThanWellFounded, Zenon
  <1>2. \A y \in s : ~ (y < x)
      BY <1>1 DEF OpToRel
  <1> QED BY <1>2

\* A set of numbers of a sequence has a largest.
LEMMA MaxInside ==
    ASSUME NEW n \in Nat, NEW s \in SUBSET (1..n), s # {}
    PROVE  Max(s) \in s /\ \E x \in s : \A y \in s : x >= y
PROOF
  <1> DEFINE D == {n - x : x \in s}
  <1>1. D \in SUBSET Nat /\ D # {}
      <2>1. \A x \in s : n - x \in Nat
          OBVIOUS
      <2>2. PICK x \in s : TRUE
          OBVIOUS
      <2>3. n - x \in D
          OBVIOUS
      <2> QED BY <2>1, <2>3
  <1>2. PICK d \in D : \A e \in D : d <= e
      <2> HIDE DEF D
      <2> QED BY <1>1, MinInside
  <1>3. PICK x \in s : d = n - x
      OBVIOUS
  <1>4. ASSUME NEW y \in s
        PROVE  x >= y
      <2>1. n - y \in D
          OBVIOUS
      <2>2. n - x <= n - y
          BY <2>1, <1>2, <1>3
      <2> QED BY <2>2
  <1> QED BY <1>4 DEF Max

\* The first k numbers without the k-th are the first k - 1.
LEMMA UpTo ==
    ASSUME NEW n \in Nat, NEW k \in 1..n
    PROVE  /\ 1..k \in SUBSET (1..n) /\ k \in 1..k
           /\ (1..k) \ {k} = 1..(k - 1)
PROOF OBVIOUS

\* The largest of the first k numbers is k.
LEMMA MaxUpTo ==
    ASSUME NEW k \in Nat \ {0}
    PROVE  Max(1..k) = k
PROOF
  <1>1. k \in 1..k /\ \A x \in 1..k : k >= x
      OBVIOUS
  <1>2. \A x \in 1..k : (\A y \in 1..k : x >= y) => x = k
      BY <1>1
  <1> QED BY <1>1, <1>2 DEF Max

-----------------------------------------------------------------------------
(* Options *)

EchoOptions == [rootMiddlewares : Seq(RootMiddlewares), rootPath : AnyPath,
                includeGraphQL : BOOLEAN, shared : BOOLEAN,
                engine : Seq(RootMiddlewares), errorHandler : ErrorHandlers \cup {"own"}]
FiberOptions == [rootMiddlewares : Seq(RootMiddlewares), rootPath : AnyPath,
                 includeGraphQL : BOOLEAN, graphqlPath : AnyPath, shared : {FALSE},
                 errorHandler : ErrorHandlers \cup {"own"}]

\* A sequence of one.
LEMMA OneSeq == ASSUME NEW S, NEW x \in S PROVE <<x>> \in Seq(S)
PROOF OBVIOUS

\* A sequence of two.
LEMMA TwoSeq == ASSUME NEW S, NEW x \in S, NEW y \in S PROVE <<x, y>> \in Seq(S)
PROOF OBVIOUS

\* A sequence of three.
LEMMA ThreeSeq == ASSUME NEW S, NEW x \in S, NEW y \in S, NEW z \in S
                  PROVE  <<x, y, z>> \in Seq(S)
PROOF OBVIOUS

\* The options both servers begin with have their types.
LEMMA DefaultOptions ==
    /\ EchoDefaultOption \in EchoOptions
    /\ FiberDefaultOption \in FiberOptions
PROOF
  <1>1. Named(<<"cors", "tracer", "logger">>) \in Seq(RootMiddlewares)
        /\ Named(<<"recover", "tracer", "logger">>) \in Seq(RootMiddlewares)
      <2>1. \A mw \in {"cors", "recover", "tracer", "logger"} : <<mw, 0>> \in RootMiddlewares
          BY DEF RootMiddlewares, MiddlewareNames
      <2>2. <<<<"cors", 0>>, <<"tracer", 0>>, <<"logger", 0>>>> \in Seq(RootMiddlewares)
            /\ <<<<"recover", 0>>, <<"tracer", 0>>, <<"logger", 0>>>> \in Seq(RootMiddlewares)
          BY <2>1, ThreeSeq
      <2>3. \A a, b, c : Named(<<a, b, c>>) = <<<<a, 0>>, <<b, 0>>, <<c, 0>>>>
          BY DEF Named
      <2> QED BY <2>2, <2>3
  <1>2. <<>> \in AnyPath /\ <<>> \in Seq(RootMiddlewares)
      BY DEF AnyPath
  <1> QED BY <1>1, <1>2 DEF EchoDefaultOption, FiberDefaultOption, EchoOptions, FiberOptions

\* The root middlewares of an application are middlewares.
LEMMA RootsTyped ==
    ASSUME OptInv
    PROVE  opt.rootMiddlewares \in Seq(Middlewares)
           /\ (framework = "echo" => opt.engine \in Seq(Middlewares))
PROOF
  <1>1. RootMiddlewares \subseteq Middlewares
      BY DEF RootMiddlewares, Middlewares
  <1>2. opt.rootMiddlewares \in Seq(RootMiddlewares)
        /\ (framework = "echo" => opt.engine \in Seq(RootMiddlewares))
      BY DEF OptInv
  <1> QED BY <1>1, <1>2

\* What an option function takes is what it is given.
LEMMA OptionArguments ==
    ASSUME NEW f \in OptionFunctions
    PROVE  /\ f[1] \in {"SetRootMiddlewares", "AddRootMiddlewares"} => f[2] \in Seq(RootMiddlewares)
           /\ f[1] = "SetRootPath" => f[2] \in AnyPath
           /\ f[1] \in {"SetIncludeGraphQL", "SetSharedListener"} => f[2] \in BOOLEAN
           /\ f[1] = "SetErrorHandler" => f[2] \in ErrorHandlers
           /\ f[1] = "SetFiberConfig" => f[2] \in ErrorHandlers \cup {"none"}
           /\ f[1] = "SetEchoEngineOption" => f[2] \in Seq(RootMiddlewares)
PROOF BY DEF OptionFunctions

\* An option function of echo keeps the types of the options.
LEMMA EchoOptionKept ==
    ASSUME NEW o \in EchoOptions, NEW f \in OptionFunctions
    PROVE  EchoOption(o, f) \in EchoOptions
PROOF
  <1>1. CASE f[1] = "SetRootMiddlewares"
      BY <1>1, OptionArguments DEF EchoOption, EchoOptions
  <1>2. CASE f[1] = "AddRootMiddlewares"
      <2>1. o.rootMiddlewares \o f[2] \in Seq(RootMiddlewares)
          BY <1>2, OptionArguments DEF EchoOptions
      <2>2. EchoOption(o, f) = [o EXCEPT !.rootMiddlewares = o.rootMiddlewares \o f[2]]
          BY <1>2 DEF EchoOption
      <2> QED BY <2>1, <2>2 DEF EchoOptions
  <1>3. CASE f[1] = "SetRootPath"
      BY <1>3, OptionArguments DEF EchoOption, EchoOptions
  <1>4. CASE f[1] = "SetIncludeGraphQL"
      BY <1>4, OptionArguments DEF EchoOption, EchoOptions
  <1>5. CASE f[1] = "SetSharedListener"
      BY <1>5, OptionArguments DEF EchoOption, EchoOptions
  <1>6. CASE f[1] = "SetErrorHandler"
      BY <1>6, OptionArguments DEF EchoOption, EchoOptions
  <1>7. CASE f[1] = "SetEchoEngineOption"
      BY <1>7, OptionArguments DEF EchoOption, EchoOptions
  <1>8. CASE f[1] \notin {"SetRootMiddlewares", "AddRootMiddlewares", "SetRootPath",
                           "SetIncludeGraphQL", "SetSharedListener", "SetErrorHandler",
                           "SetEchoEngineOption"}
      <2>1. EchoOption(o, f) = o
          BY <1>8 DEF EchoOption
      <2> QED BY <2>1
  <1> QED BY <1>1, <1>2, <1>3, <1>4, <1>5, <1>6, <1>7, <1>8

\* An option function of fiber keeps the types of the options.
LEMMA FiberOptionKept ==
    ASSUME NEW o \in FiberOptions, NEW f \in OptionFunctions
    PROVE  FiberOption(o, f) \in FiberOptions
PROOF
  <1>1. CASE f[1] = "SetRootMiddlewares"
      BY <1>1, OptionArguments DEF FiberOption, FiberOptions
  <1>2. CASE f[1] = "AddRootMiddlewares"
      <2>1. o.rootMiddlewares \o f[2] \in Seq(RootMiddlewares)
          BY <1>2, OptionArguments DEF FiberOptions
      <2>2. FiberOption(o, f) = [o EXCEPT !.rootMiddlewares = o.rootMiddlewares \o f[2]]
          BY <1>2 DEF FiberOption
      <2> QED BY <2>1, <2>2 DEF FiberOptions
  <1>3. CASE f[1] = "SetRootPath"
      BY <1>3, OptionArguments DEF FiberOption, FiberOptions
  <1>4. CASE f[1] = "SetIncludeGraphQL"
      BY <1>4, OptionArguments DEF FiberOption, FiberOptions
  <1>5. CASE f[1] = "AddGraphQLOption"
      <2>2. <<"graphql">> \in AnyPath
          BY RestServerAssumption, OneSeq DEF AnyPath
      <2> QED BY <1>5, <2>2 DEF FiberOption, FiberOptions
  <1>6. CASE f[1] = "SetFiberConfig"
      <2>1. (IF f[2] = "none" THEN "own" ELSE f[2]) \in ErrorHandlers \cup {"own"}
          BY <1>6, OptionArguments
      <2>2. FiberOption(o, f) = [o EXCEPT !.errorHandler = IF f[2] = "none" THEN "own" ELSE f[2]]
          BY <1>6 DEF FiberOption
      <2> QED BY <2>1, <2>2 DEF FiberOptions
  <1>7. CASE f[1] \notin {"SetRootMiddlewares", "AddRootMiddlewares", "SetRootPath",
                           "SetIncludeGraphQL", "AddGraphQLOption", "SetFiberConfig"}
      <2>1. FiberOption(o, f) = o
          BY <1>7 DEF FiberOption
      <2> QED BY <2>1
  <1> QED BY <1>1, <1>2, <1>3, <1>4, <1>5, <1>6, <1>7

\* Whatever options are passed, the option record of echo keeps its types.
LEMMA EchoFold ==
    ASSUME NEW opts \in Seq(OptionFunctions)
    PROVE  FoldLeft(EchoOption, EchoDefaultOption, opts) \in EchoOptions
PROOF
  <1> DEFINE n == Len(opts)
             A == EchoOptions
             Op(o, f) == EchoOption(o, f)
             F == [p \in A \X (1..n) |-> Op(p[1], opts[p[2]])]
             pick == [s \in SUBSET (1..n) |-> Max(s)]
             iter == CHOOSE g : g = [s \in SUBSET (DOMAIN opts) |->
                        IF s = {} THEN EchoDefaultOption
                        ELSE Op(g[s \ {Max(s)}], opts[Max(s)])]
             T == {k \in 0..n : iter[1..k] \in A}
  <1>1. n \in Nat /\ DOMAIN opts = 1..n /\ \A k \in 1..n : opts[k] \in OptionFunctions
      OBVIOUS
  <1>2. FoldLeft(EchoOption, EchoDefaultOption, opts) = iter[1..n]
      BY <1>1 DEF FoldLeft, MapThenFoldSet
  <1>3. EchoDefaultOption \in A
      BY DefaultOptions
  <1>4. \A o \in A, k \in 1..n : Op(o, opts[k]) \in A
      BY <1>1, EchoOptionKept
  <1>5. \A s \in SUBSET (1..n) : s # {} => pick[s] \in s /\ Max(s) \in 1..n
      <2> HIDE DEF n
      <2> SUFFICES ASSUME NEW s \in SUBSET (1..n), s # {}
                   PROVE  pick[s] \in s /\ Max(s) \in 1..n
          BY Zenon
      <2>1. Max(s) \in s
          BY <1>1, MaxInside
      <2> QED BY <2>1
  <1> HIDE DEF n, A, Op
  <1>6. F \in [A \X (1..n) -> A]
      BY <1>4
  <1>7. PICK g \in [SUBSET (1..n) -> A] : Folds(g, SUBSET (1..n), EchoDefaultOption, F, pick)
      <2> HIDE DEF F, pick
      <2> QED BY <1>1, <1>3, <1>5, <1>6, IterExists
  <1>8. g = [s \in SUBSET (DOMAIN opts) |->
                IF s = {} THEN EchoDefaultOption ELSE Op(g[s \ {Max(s)}], opts[Max(s)])]
      <2>1. ASSUME NEW s \in SUBSET (1..n)
            PROVE  g[s] = IF s = {} THEN EchoDefaultOption
                          ELSE Op(g[s \ {Max(s)}], opts[Max(s)])
          <3>1. CASE s = {}
              BY <3>1, <1>7 DEF Folds
          <3>2. CASE s # {}
              <4>1. pick[s] = Max(s) /\ Max(s) \in 1..n /\ g[s \ {Max(s)}] \in A
                  BY <3>2, <1>5
              <4>2. g[s] = F[<<g[s \ {Max(s)}], Max(s)>>]
                  BY <3>2, <4>1, <1>7 DEF Folds
              <4> QED BY <3>2, <4>1, <4>2
          <3> QED BY <3>1, <3>2
      <2>2. g = [s \in SUBSET (1..n) |-> g[s]]
          OBVIOUS
      <2>3. [s \in SUBSET (1..n) |-> g[s]] = [s \in SUBSET (1..n) |->
                IF s = {} THEN EchoDefaultOption ELSE Op(g[s \ {Max(s)}], opts[Max(s)])]
          BY <2>1
      <2> QED BY <2>2, <2>3, <1>1
  <1>9. \A s \in SUBSET (1..n) : iter[s] = IF s = {} THEN EchoDefaultOption
                                           ELSE Op(iter[s \ {Max(s)}], opts[Max(s)])
      <2>1. iter = [s \in SUBSET (DOMAIN opts) |->
                IF s = {} THEN EchoDefaultOption ELSE Op(iter[s \ {Max(s)}], opts[Max(s)])]
          BY <1>8
      <2> HIDE DEF iter
      <2> QED BY <2>1, <1>1
  <1> HIDE DEF iter
  <1>10. 0 \in T
      <2>1. 1..0 = {} /\ {} \in SUBSET (1..n) /\ 0 \in 0..n
          BY <1>1
      <2> QED BY <2>1, <1>3, <1>9
  <1>11. ASSUME NEW k \in 0..(n - 1), k \in T PROVE k + 1 \in T
      <2>1. k + 1 \in 1..n /\ k + 1 \in 0..n /\ k + 1 \in Nat
          BY <1>1
      <2>2. 1..(k + 1) \in SUBSET (1..n) /\ k + 1 \in 1..(k + 1)
            /\ (1..(k + 1)) \ {k + 1} = 1..k
          BY <1>1, <2>1, UpTo
      <2>3. Max(1..(k + 1)) = k + 1
          BY <2>1, MaxUpTo
      <2>4. iter[1..(k + 1)] = Op(iter[1..k], opts[k + 1])
          BY <2>2, <2>3, <1>9
      <2> QED BY <2>1, <2>4, <1>4, <1>11
  <1>12. n \in T
      <2> HIDE DEF T
      <2>1. n \in 0..n
          BY <1>1
      <2> QED BY <1>1, <1>10, <1>11, <2>1, CountUp
  <1> QED BY <1>2, <1>12 DEF A

\* Whatever options are passed, that of fiber does, and its listener is never shared.
LEMMA FiberFold ==
    ASSUME NEW opts \in Seq(OptionFunctions)
    PROVE  FoldLeft(FiberOption, FiberDefaultOption, opts) \in FiberOptions
PROOF
  <1> DEFINE n == Len(opts)
             A == FiberOptions
             Op(o, f) == FiberOption(o, f)
             F == [p \in A \X (1..n) |-> Op(p[1], opts[p[2]])]
             pick == [s \in SUBSET (1..n) |-> Max(s)]
             iter == CHOOSE g : g = [s \in SUBSET (DOMAIN opts) |->
                        IF s = {} THEN FiberDefaultOption
                        ELSE Op(g[s \ {Max(s)}], opts[Max(s)])]
             T == {k \in 0..n : iter[1..k] \in A}
  <1>1. n \in Nat /\ DOMAIN opts = 1..n /\ \A k \in 1..n : opts[k] \in OptionFunctions
      OBVIOUS
  <1>2. FoldLeft(FiberOption, FiberDefaultOption, opts) = iter[1..n]
      BY <1>1 DEF FoldLeft, MapThenFoldSet
  <1>3. FiberDefaultOption \in A
      BY DefaultOptions
  <1>4. \A o \in A, k \in 1..n : Op(o, opts[k]) \in A
      BY <1>1, FiberOptionKept
  <1>5. \A s \in SUBSET (1..n) : s # {} => pick[s] \in s /\ Max(s) \in 1..n
      <2> HIDE DEF n
      <2> SUFFICES ASSUME NEW s \in SUBSET (1..n), s # {}
                   PROVE  pick[s] \in s /\ Max(s) \in 1..n
          BY Zenon
      <2>1. Max(s) \in s
          BY <1>1, MaxInside
      <2> QED BY <2>1
  <1> HIDE DEF n, A, Op
  <1>6. F \in [A \X (1..n) -> A]
      BY <1>4
  <1>7. PICK g \in [SUBSET (1..n) -> A] : Folds(g, SUBSET (1..n), FiberDefaultOption, F, pick)
      <2> HIDE DEF F, pick
      <2> QED BY <1>1, <1>3, <1>5, <1>6, IterExists
  <1>8. g = [s \in SUBSET (DOMAIN opts) |->
                IF s = {} THEN FiberDefaultOption ELSE Op(g[s \ {Max(s)}], opts[Max(s)])]
      <2>1. ASSUME NEW s \in SUBSET (1..n)
            PROVE  g[s] = IF s = {} THEN FiberDefaultOption
                          ELSE Op(g[s \ {Max(s)}], opts[Max(s)])
          <3>1. CASE s = {}
              BY <3>1, <1>7 DEF Folds
          <3>2. CASE s # {}
              <4>1. pick[s] = Max(s) /\ Max(s) \in 1..n /\ g[s \ {Max(s)}] \in A
                  BY <3>2, <1>5
              <4>2. g[s] = F[<<g[s \ {Max(s)}], Max(s)>>]
                  BY <3>2, <4>1, <1>7 DEF Folds
              <4> QED BY <3>2, <4>1, <4>2
          <3> QED BY <3>1, <3>2
      <2>2. g = [s \in SUBSET (1..n) |-> g[s]]
          OBVIOUS
      <2>3. [s \in SUBSET (1..n) |-> g[s]] = [s \in SUBSET (1..n) |->
                IF s = {} THEN FiberDefaultOption ELSE Op(g[s \ {Max(s)}], opts[Max(s)])]
          BY <2>1
      <2> QED BY <2>2, <2>3, <1>1
  <1>9. \A s \in SUBSET (1..n) : iter[s] = IF s = {} THEN FiberDefaultOption
                                           ELSE Op(iter[s \ {Max(s)}], opts[Max(s)])
      <2>1. iter = [s \in SUBSET (DOMAIN opts) |->
                IF s = {} THEN FiberDefaultOption ELSE Op(iter[s \ {Max(s)}], opts[Max(s)])]
          BY <1>8
      <2> HIDE DEF iter
      <2> QED BY <2>1, <1>1
  <1> HIDE DEF iter
  <1>10. 0 \in T
      <2>1. 1..0 = {} /\ {} \in SUBSET (1..n) /\ 0 \in 0..n
          BY <1>1
      <2> QED BY <2>1, <1>3, <1>9
  <1>11. ASSUME NEW k \in 0..(n - 1), k \in T PROVE k + 1 \in T
      <2>1. k + 1 \in 1..n /\ k + 1 \in 0..n /\ k + 1 \in Nat
          BY <1>1
      <2>2. 1..(k + 1) \in SUBSET (1..n) /\ k + 1 \in 1..(k + 1)
            /\ (1..(k + 1)) \ {k + 1} = 1..k
          BY <1>1, <2>1, UpTo
      <2>3. Max(1..(k + 1)) = k + 1
          BY <2>1, MaxUpTo
      <2>4. iter[1..(k + 1)] = Op(iter[1..k], opts[k + 1])
          BY <2>2, <2>3, <1>9
      <2> QED BY <2>1, <2>4, <1>4, <1>11
  <1>12. n \in T
      <2> HIDE DEF T
      <2>1. n \in 0..n
          BY <1>1
      <2> QED BY <1>1, <1>10, <1>11, <2>1, CountUp
  <1> QED BY <1>2, <1>12 DEF A

-----------------------------------------------------------------------------
(* The way back of a request *)

Results == [answers : Nat, error : BOOLEAN, panic : BOOLEAN]

\* The error handler turns a result into a result.
LEMMA HandleErrorKept ==
    ASSUME NEW r \in Results
    PROVE  HandleError(r) \in Results
PROOF
  <1>0. \A a \in Nat, b \in BOOLEAN : [r EXCEPT !.answers = a, !.error = b] \in Results
      BY DEF Results
  <1>1. CustomHTTPErrorHandler(r) \in Results /\ defaultErrHandler(r) \in Results
      <2>1. r.answers + 1 \in Nat
          BY DEF Results
      <2> QED BY <2>1, <1>0 DEF CustomHTTPErrorHandler, defaultErrHandler
  <1>2. GivenErrorHandler(r) \in Results
      BY DEF GivenErrorHandler, Results
  <1> QED BY <1>1, <1>2 DEF HandleError

\* A middleware turns a result into a result.
LEMMA BackKept ==
    ASSUME NEW mw \in Middlewares, NEW r \in Results
    PROVE  Back(mw, r) \in Results
PROOF
  <1>1. RecoverMiddleware(r) \in Results
      <2>1. \A a \in Nat, c \in BOOLEAN : [r EXCEPT !.answers = a, !.panic = c] \in Results
          BY DEF Results
      <2>2. r.answers + 1 \in Nat
          BY DEF Results
      <2> QED BY <2>1, <2>2 DEF RecoverMiddleware
  <1>2. [r EXCEPT !.panic = FALSE, !.error = TRUE] \in Results
      BY DEF Results
  <1>3. EchoRecover(r) \in Results
      BY <1>2, HandleErrorKept DEF EchoRecover
  <1> QED BY <1>1, <1>3, HandleErrorKept DEF Back, EchoLoggerMiddleware

\* The last k + 1 numbers of a sequence without their first are the last k.
LEMMA DownTo ==
    ASSUME NEW n \in Nat, NEW k \in 0..(n - 1)
    PROVE  /\ (n - k)..n \in SUBSET (1..n) /\ n - k \in (n - k)..n /\ n - k \in 1..n
           /\ ((n - k)..n) \ {n - k} = (n - k + 1)..n
           /\ Min((n - k)..n) = n - k
PROOF
  <1>1. n - k \in (n - k)..n /\ n - k \in 1..n /\ n - k >= 1
      OBVIOUS
  <1>2. \A x \in (n - k)..n : x \in 1..n
      OBVIOUS
  <1>3. ((n - k)..n) \ {n - k} = (n - k + 1)..n
      OBVIOUS
  <1>4. \A x \in (n - k)..n : n - k <= x
      OBVIOUS
  <1>5. \A x \in (n - k)..n : (\A y \in (n - k)..n : x <= y) => x = n - k
      BY <1>1
  <1>6. Min((n - k)..n) = n - k
      BY <1>1, <1>4, <1>5 DEF Min
  <1> QED BY <1>1, <1>2, <1>3, <1>6

\* The middlewares of a chain, the innermost first, each change what they get back.
LEMMA BackWalk ==
    ASSUME NEW chain \in Seq(Middlewares), NEW base \in Results
    PROVE  \E w \in [0..Len(chain) -> Results] :
              /\ w[0] = base
              /\ \A k \in 0..(Len(chain) - 1) : w[k + 1] = Back(chain[Len(chain) - k], w[k])
              /\ FoldRight(Back, chain, base) = w[Len(chain)]
PROOF
  <1> DEFINE n == Len(chain)
             A == Results
             F == [p \in A \X (1..n) |-> Back(chain[p[2]], p[1])]
             pick == [s \in SUBSET (1..n) |-> Min(s)]
             iter == CHOOSE g : g = [s \in SUBSET (DOMAIN chain) |->
                        IF s = {} THEN base
                        ELSE Back(chain[Min(s)], g[s \ {Min(s)}])]
             w == [k \in 0..n |-> iter[(n - k + 1)..n]]
             T == {k \in 0..n : w[k] \in A}
  <1>1. n \in Nat /\ DOMAIN chain = 1..n /\ \A k \in 1..n : chain[k] \in Middlewares
      OBVIOUS
  <1>2. FoldRight(Back, chain, base) = iter[1..n]
      BY <1>1 DEF FoldRight, MapThenFoldSet
  <1>3. \A r \in A, k \in 1..n : Back(chain[k], r) \in A
      BY <1>1, BackKept
  <1>4. \A s \in SUBSET (1..n) : s # {} => pick[s] \in s /\ Min(s) \in 1..n
      <2> HIDE DEF n
      <2> SUFFICES ASSUME NEW s \in SUBSET (1..n), s # {}
                   PROVE  pick[s] \in s /\ Min(s) \in 1..n
          BY Zenon
      <2>1. s \in SUBSET Nat
          BY <1>1
      <2>2. \E x \in s : \A y \in s : x <= y
          BY <2>1, MinInside
      <2>3. Min(s) \in s
          BY <2>2 DEF Min
      <2> QED BY <2>3
  <1> HIDE DEF n, A
  <1>5. F \in [A \X (1..n) -> A]
      BY <1>3
  <1>6. PICK g \in [SUBSET (1..n) -> A] : Folds(g, SUBSET (1..n), base, F, pick)
      <2> HIDE DEF F, pick
      <2> QED BY <1>1, <1>4, <1>5, IterExists DEF A
  <1>7. g = [s \in SUBSET (DOMAIN chain) |->
                IF s = {} THEN base ELSE Back(chain[Min(s)], g[s \ {Min(s)}])]
      <2>1. ASSUME NEW s \in SUBSET (1..n)
            PROVE  g[s] = IF s = {} THEN base
                          ELSE Back(chain[Min(s)], g[s \ {Min(s)}])
          <3>1. CASE s = {}
              BY <3>1, <1>6 DEF Folds
          <3>2. CASE s # {}
              <4>1. pick[s] = Min(s) /\ Min(s) \in 1..n /\ g[s \ {Min(s)}] \in A
                  BY <3>2, <1>4
              <4>2. g[s] = F[<<g[s \ {Min(s)}], Min(s)>>]
                  BY <3>2, <4>1, <1>6 DEF Folds
              <4> QED BY <3>2, <4>1, <4>2
          <3> QED BY <3>1, <3>2
      <2>2. g = [s \in SUBSET (1..n) |-> g[s]]
          OBVIOUS
      <2>3. [s \in SUBSET (1..n) |-> g[s]] = [s \in SUBSET (1..n) |->
                IF s = {} THEN base ELSE Back(chain[Min(s)], g[s \ {Min(s)}])]
          BY <2>1
      <2> QED BY <2>2, <2>3, <1>1
  <1>8. \A s \in SUBSET (1..n) : iter[s] = IF s = {} THEN base
                                           ELSE Back(chain[Min(s)], iter[s \ {Min(s)}])
      <2>1. iter = [s \in SUBSET (DOMAIN chain) |->
                IF s = {} THEN base ELSE Back(chain[Min(s)], iter[s \ {Min(s)}])]
          BY <1>7
      <2> HIDE DEF iter
      <2> QED BY <2>1, <1>1
  <1> HIDE DEF iter
  <1>9. w[0] = base
      <2>1. (n - 0 + 1)..n = {} /\ {} \in SUBSET (1..n) /\ 0 \in 0..n
          BY <1>1
      <2> QED BY <2>1, <1>8
  <1>10. ASSUME NEW k \in 0..(n - 1)
         PROVE  w[k + 1] = Back(chain[n - k], w[k])
      <2>1. /\ (n - k)..n \in SUBSET (1..n) /\ n - k \in (n - k)..n
            /\ ((n - k)..n) \ {n - k} = (n - k + 1)..n
            /\ Min((n - k)..n) = n - k
          BY <1>1, DownTo
      <2>2. n - (k + 1) + 1 = n - k /\ k \in 0..n /\ k + 1 \in 0..n
          BY <1>1
      <2>3. w[k + 1] = iter[(n - k)..n] /\ w[k] = iter[(n - k + 1)..n]
          BY <2>2
      <2>4. iter[(n - k)..n] = Back(chain[n - k], iter[(n - k + 1)..n])
          BY <2>1, <1>8
      <2> QED BY <2>3, <2>4
  <1>11. 0 \in T
      BY <1>1, <1>9 DEF A
  <1> HIDE DEF w
  <1>12. ASSUME NEW k \in 0..(n - 1), k \in T PROVE k + 1 \in T
      <2>1. n - k \in 1..n /\ k + 1 \in 0..n
          BY <1>1
      <2> QED BY <2>1, <1>3, <1>10, <1>12
  <1>13. \A k \in 0..n : w[k] \in A
      <2> HIDE DEF T
      <2>1. \A k \in 0..n : k \in T
          BY <1>1, <1>11, <1>12, CountUp
      <2> QED BY <2>1 DEF T
  <1>14. w \in [0..n -> A] /\ w[n] = iter[1..n]
      <2>1. n - n + 1 = 1 /\ n \in 0..n
          BY <1>1
      <2> QED BY <2>1, <1>13 DEF w
  <1>15. FoldRight(Back, chain, base) = w[n]
      BY <1>2, <1>14
  <1> QED BY <1>9, <1>10, <1>14, <1>15 DEF n, A

-----------------------------------------------------------------------------
(* The chain of a request *)

\* f joins the first k of some sequences.
Joins(f, seqs, k) ==
    \A i \in 1..k : f[i] = IF i = 1 THEN seqs[i] ELSE f[i - 1] \o seqs[i]

\* The recursive function that joins sequences of middlewares one by one exists.
LEMMA JoinExists ==
    ASSUME NEW seqs \in Seq(Seq(Middlewares))
    PROVE  \E f \in [1..Len(seqs) -> Seq(Middlewares)] : Joins(f, seqs, Len(seqs))
PROOF
  <1> DEFINE S == Seq(Middlewares)
             n == Len(seqs)
             T == {k \in 0..n : \E f \in [1..k -> S] : Joins(f, seqs, k)}
  <1>1. n \in Nat /\ (\A i \in 1..n : seqs[i] \in S) /\ \A s, t \in S : s \o t \in S
      OBVIOUS
  <1> HIDE DEF n, S
  <1>2. 0 \in T
      <2> DEFINE f == [i \in 1..0 |-> <<>>]
      <2>1. f \in [1..0 -> S] /\ Joins(f, seqs, 0) /\ 0 \in 0..n
          BY <1>1 DEF Joins
      <2> HIDE DEF f
      <2>2. \E f2 \in [1..0 -> S] : Joins(f2, seqs, 0)
          BY <2>1
      <2> QED BY <2>1, <2>2
  <1>3. ASSUME NEW k \in 0..(n - 1), k \in T
        PROVE  k + 1 \in T
      <2>1. PICK f \in [1..k -> S] : Joins(f, seqs, k)
          BY <1>3
      <2>2. k \in Nat /\ k + 1 \in 1..n /\ k + 1 \in 0..n
          BY <1>1
      <2> DEFINE h == [i \in 1..(k + 1) |-> IF i \in 1..k THEN f[i]
                          ELSE IF k = 0 THEN seqs[1] ELSE f[k] \o seqs[k + 1]]
      <2>3. h \in [1..(k + 1) -> S]
          <3> SUFFICES ASSUME NEW i \in 1..(k + 1) PROVE h[i] \in S
              BY Zenon
          <3>1. CASE i \in 1..k
              BY <3>1
          <3>2. CASE i \notin 1..k /\ k = 0
              BY <3>2, <2>2, <1>1
          <3>3. CASE i \notin 1..k /\ k # 0
              <4>1. k \in 1..k
                  BY <3>3, <2>2
              <4>2. f[k] \o seqs[k + 1] \in S
                  BY <4>1, <2>2, <1>1
              <4> QED BY <3>3, <4>2
          <3> QED BY <3>1, <3>2, <3>3
      <2>4. Joins(h, seqs, k + 1)
          <3> SUFFICES ASSUME NEW i \in 1..(k + 1)
                       PROVE  h[i] = IF i = 1 THEN seqs[i] ELSE h[i - 1] \o seqs[i]
              BY DEF Joins
          <3>1. CASE i \in 1..k
              <4>1. i # 1 => i - 1 \in 1..k /\ i - 1 \in 1..(k + 1)
                  BY <3>1, <2>2
              <4>2. h[i] = f[i] /\ (i # 1 => h[i - 1] = f[i - 1])
                  BY <3>1, <4>1
              <4> QED BY <3>1, <4>2, <2>1 DEF Joins
          <3>2. CASE i \notin 1..k
              <4>1. i = k + 1
                  BY <3>2, <2>2
              <4>2. CASE k = 0
                  BY <4>1, <4>2, <3>2
              <4>3. CASE k # 0
                  <5>1. i - 1 = k /\ i # 1 /\ k \in 1..k /\ k \in 1..(k + 1)
                      BY <4>1, <4>3, <2>2
                  <5> QED BY <5>1, <4>1, <4>3, <3>2
              <4> QED BY <4>2, <4>3
          <3> QED BY <3>1, <3>2
      <2> HIDE DEF h
      <2>5. \E f2 \in [1..(k + 1) -> S] : Joins(f2, seqs, k + 1)
          BY <2>3, <2>4
      <2> QED BY <2>2, <2>5
  <1>4. n \in T
      <2> HIDE DEF T
      <2>1. n \in 0..n
          BY <1>1
      <2> QED BY <1>1, <1>2, <1>3, <2>1, CountUp
  <1>5. \E f \in [1..n -> S] : Joins(f, seqs, n)
      BY <1>4
  <1> QED BY <1>5 DEF n, S

\* What one of two sequences contains, both together contain.
LEMMA ContainsJoin ==
    ASSUME NEW s \in Seq(Middlewares), NEW t \in Seq(Middlewares), NEW e \in Middlewares
    PROVE  /\ s \o t \in Seq(Middlewares)
           /\ Contains(s, e) => Contains(s \o t, e)
           /\ Contains(t, e) => Contains(s \o t, e)
PROOF
  <1>1. s \o t \in Seq(Middlewares) /\ Len(s \o t) = Len(s) + Len(t)
        /\ Len(s) \in Nat /\ Len(t) \in Nat
      OBVIOUS
  <1>2. ASSUME NEW i \in 1..Len(s)
        PROVE  i \in 1..Len(s \o t) /\ (s \o t)[i] = s[i]
      BY <1>1
  <1>3. ASSUME NEW i \in 1..Len(t)
        PROVE  Len(s) + i \in 1..Len(s \o t) /\ (s \o t)[Len(s) + i] = t[i]
      BY <1>1
  <1> QED BY <1>1, <1>2, <1>3 DEF Contains

\* Flattened, some sequences are what joining them one by one gives.
LEMMA FlattenJoins ==
    ASSUME NEW seqs \in Seq(Seq(Middlewares)), seqs # <<>>
    PROVE  \E f \in [1..Len(seqs) -> Seq(Middlewares)] :
              Joins(f, seqs, Len(seqs)) /\ FlattenSeq(seqs) = f[Len(seqs)]
PROOF
  <1> DEFINE S == Seq(Middlewares)
             n == Len(seqs)
             flatten == CHOOSE f : f = [i \in 1..n |->
                           IF i = 1 THEN seqs[i] ELSE f[i - 1] \o seqs[i]]
  <1>1. n \in Nat /\ n # 0
      OBVIOUS
  <1>2. FlattenSeq(seqs) = flatten[n]
      BY <1>1 DEF FlattenSeq
  <1>3. PICK g \in [1..n -> S] : Joins(g, seqs, n)
      BY JoinExists
  <1> HIDE DEF n, S
  <1>4. g = [i \in 1..n |-> IF i = 1 THEN seqs[i] ELSE g[i - 1] \o seqs[i]]
      <2>1. g = [i \in 1..n |-> g[i]]
          OBVIOUS
      <2>2. [i \in 1..n |-> g[i]] = [i \in 1..n |->
                IF i = 1 THEN seqs[i] ELSE g[i - 1] \o seqs[i]]
          BY <1>3 DEF Joins
      <2> QED BY <2>1, <2>2
  <1>5. flatten = [i \in 1..n |-> IF i = 1 THEN seqs[i] ELSE flatten[i - 1] \o seqs[i]]
      BY <1>4
  <1> HIDE DEF flatten
  <1>6. ASSUME NEW k \in 0..n, (0..(k - 1)) \subseteq {j \in 0..n : j # 0 => flatten[j] = g[j]}
        PROVE  k \in {j \in 0..n : j # 0 => flatten[j] = g[j]}
      <2>1. CASE k = 0
          BY <2>1
      <2>2. CASE k = 1
          <3>1. k \in 1..n
              BY <2>2, <1>1
          <3> QED BY <3>1, <2>2, <1>4, <1>5
      <2>3. CASE k # 0 /\ k # 1
          <3>1. k \in 1..n /\ k - 1 \in 0..(k - 1) /\ k - 1 # 0
              BY <2>3, <1>1
          <3>2. flatten[k - 1] = g[k - 1]
              BY <3>1, <1>6
          <3>3. flatten[k] = flatten[k - 1] \o seqs[k] /\ g[k] = g[k - 1] \o seqs[k]
              BY <3>1, <2>3, <1>4, <1>5
          <3> QED BY <3>1, <3>2, <3>3
      <2> QED BY <2>1, <2>2, <2>3
  <1>7. \A k \in 0..n : k \in {j \in 0..n : j # 0 => flatten[j] = g[j]}
      <2> DEFINE T == {j \in 0..n : j # 0 => flatten[j] = g[j]}
      <2>1. \A k \in 0..n : (0..(k - 1)) \subseteq T => k \in T
          BY <1>6
      <2> HIDE DEF T
      <2>2. \A k \in 0..n : k \in T
          BY <2>1, <1>1, BelowUp
      <2> QED BY <2>2 DEF T
  <1>8. n \in 0..n /\ flatten[n] = g[n]
      BY <1>1, <1>7
  <1> QED BY <1>2, <1>3, <1>8 DEF n, S

\* Flattened, some sequences of middlewares are one, with all that is in them.
LEMMA FlattenHas ==
    ASSUME NEW seqs \in Seq(Seq(Middlewares)), seqs # <<>>
    PROVE  /\ FlattenSeq(seqs) \in Seq(Middlewares)
           /\ \A i \in 1..Len(seqs), e \in Middlewares :
                 Contains(seqs[i], e) => Contains(FlattenSeq(seqs), e)
PROOF
  <1> DEFINE S == Seq(Middlewares)
             n == Len(seqs)
  <1>1. n \in Nat /\ n # 0 /\ (\A i \in 1..n : seqs[i] \in S)
      OBVIOUS
  <1>2. PICK flatten \in [1..n -> S] : Joins(flatten, seqs, n) /\ FlattenSeq(seqs) = flatten[n]
      BY FlattenJoins
  <1> HIDE DEF n, S
  <1> DEFINE T == {k \in 0..n : k # 0 => /\ flatten[k] \in S
                                         /\ \A i \in 1..k, e \in Middlewares :
                                               Contains(seqs[i], e) => Contains(flatten[k], e)}
  <1>3. \A i \in 1..n : flatten[i] = IF i = 1 THEN seqs[i] ELSE flatten[i - 1] \o seqs[i]
      BY <1>2 DEF Joins
  <1>4. 0 \in T
      BY <1>1
  <1>5. ASSUME NEW k \in 0..(n - 1), k \in T
        PROVE  k + 1 \in T
      <2>1. k \in Nat /\ k + 1 \in 1..n /\ k + 1 \in 0..n /\ (k + 1) - 1 = k
          BY <1>1
      <2>2. CASE k = 0
          <3>1. 1 \in 1..n
              BY <1>1
          <3>2. flatten[1] = seqs[1] /\ seqs[1] \in S
              BY <3>1, <1>1, <1>3
          <3> QED BY <3>2, <2>1, <2>2
      <2>3. CASE k # 0
          <3>1. flatten[k + 1] = flatten[k] \o seqs[k + 1] /\ flatten[k] \in S
                /\ seqs[k + 1] \in S
              <4>1. k + 1 # 1 /\ flatten[k] \in S /\ seqs[k + 1] \in S
                  BY <2>1, <2>3, <1>1, <1>5
              <4>2. flatten[k + 1] = flatten[(k + 1) - 1] \o seqs[k + 1]
                  BY <4>1, <2>1, <1>3
              <4> QED BY <4>1, <4>2, <2>1
          <3>2. flatten[k + 1] \in S /\ \A e \in Middlewares :
                    /\ Contains(flatten[k], e) => Contains(flatten[k + 1], e)
                    /\ Contains(seqs[k + 1], e) => Contains(flatten[k + 1], e)
              BY <3>1, ContainsJoin DEF S
          <3>3. ASSUME NEW i \in 1..(k + 1), NEW e \in Middlewares, Contains(seqs[i], e)
                PROVE  Contains(flatten[k + 1], e)
              <4>1. CASE i = k + 1
                  BY <4>1, <3>2, <3>3
              <4>2. CASE i # k + 1
                  <5>1. i \in 1..k
                      BY <4>2, <2>1
                  <5> QED BY <5>1, <3>2, <3>3, <1>5, <2>3
              <4> QED BY <4>1, <4>2
          <3> QED BY <2>1, <3>2, <3>3
      <2> QED BY <2>2, <2>3
  <1>6. n \in T
      <2> HIDE DEF T
      <2>1. n \in 0..n
          BY <1>1
      <2> QED BY <1>1, <1>4, <1>5, <2>1, CountUp
  <1> QED BY <1>1, <1>2, <1>6 DEF n, S

\* What is mounted has a path and middlewares.
LEMMA EntryFields ==
    ASSUME stack \in Seq(Entries), NEW n \in 1..Len(stack)
    PROVE  stack[n].mws \in Seq(Middlewares) /\ stack[n].path \in AnyPath
PROOF
  <1>1. stack[n] \in Entries
      OBVIOUS
  <1> QED BY <1>1 DEF Entries

\* A path is taken by a route for it, or by none.
LEMMA TakenRoute ==
    ASSUME stack \in Seq(Entries), NEW path
    PROVE  /\ Taken(path) \in 0..Len(stack)
           /\ Taken(path) # 0 => /\ stack[Taken(path)].kind = "route"
                                 /\ stack[Taken(path)].path = path
PROOF
  <1> DEFINE fits == {i \in 1..Len(stack) : stack[i].kind = "route" /\ stack[i].path = path}
  <1>1. Len(stack) \in Nat /\ fits \in SUBSET (1..Len(stack)) /\ fits \in SUBSET Nat
      OBVIOUS
  <1>2. CASE fits = {}
      BY <1>1, <1>2 DEF Taken
  <1>3. CASE fits # {}
      <2>1. (CHOOSE i \in fits : \A j \in fits : i <= j) \in fits
          <3> HIDE DEF fits
          <3>1. \E i \in fits : \A j \in fits : i <= j
              BY <1>1, <1>3, MinInside
          <3> QED BY <3>1
      <2>2. (CHOOSE i \in fits : \A j \in fits : j <= i) \in fits
          <3> HIDE DEF fits
          <3>1. Max(fits) \in fits /\ \E i \in fits : \A j \in fits : i >= j
              BY <1>1, <1>3, MaxInside
          <3>2. \E i \in fits : \A j \in fits : j <= i
              BY <3>1, <1>1
          <3> QED BY <3>2
      <2>3. Taken(path) \in fits
          BY <2>1, <2>2, <1>3 DEF Taken
      <2> QED BY <2>3, <1>1
  <1> QED BY <1>2, <1>3

\* Of the routes for a path echo takes the last, fiber the first.
LEMMA TakenExtreme ==
    ASSUME stack \in Seq(Entries), NEW path, NEW i \in 1..Len(stack),
           stack[i].kind = "route", stack[i].path = path
    PROVE  /\ Taken(path) # 0
           /\ IF framework = "echo" THEN i <= Taken(path) ELSE Taken(path) <= i
PROOF
  <1> DEFINE fits == {j \in 1..Len(stack) : stack[j].kind = "route" /\ stack[j].path = path}
  <1>1. Len(stack) \in Nat /\ fits \in SUBSET (1..Len(stack)) /\ i \in fits /\ fits \in SUBSET Nat
      OBVIOUS
  <1>2. Taken(path) = IF framework = "echo" THEN CHOOSE x \in fits : \A j \in fits : j <= x
                      ELSE CHOOSE x \in fits : \A j \in fits : x <= j
      BY <1>1 DEF Taken
  <1> HIDE DEF fits
  <1>3. \E x \in fits : \A j \in fits : x <= j
      BY <1>1, MinInside
  <1>4. \E x \in fits : \A j \in fits : j <= x
      <2>1. \E x \in fits : \A j \in fits : x >= j
          BY <1>1, MaxInside
      <2> QED BY <2>1, <1>1
  <1>5. (CHOOSE x \in fits : \A j \in fits : x <= j) \in fits
        /\ \A j \in fits : (CHOOSE x \in fits : \A y \in fits : x <= y) <= j
      BY <1>3
  <1>6. (CHOOSE x \in fits : \A j \in fits : j <= x) \in fits
        /\ \A j \in fits : j <= (CHOOSE x \in fits : \A y \in fits : y <= x)
      BY <1>4
  <1>7. Taken(path) \in fits
        /\ IF framework = "echo" THEN \A j \in fits : j <= Taken(path)
           ELSE \A j \in fits : Taken(path) <= j
      BY <1>2, <1>5, <1>6
  <1> QED BY <1>1, <1>7

\* The middlewares that fiber goes through for a path, one sequence for each entry.
Fitting(path) ==
    LET i == Taken(path) IN
    [n \in 1..Len(stack) |->
        IF stack[n].kind = "use" /\ IsPrefix(stack[n].path, path) /\ (i = 0 \/ n < i)
        THEN stack[n].mws ELSE <<>>]

\* The middlewares that fit a path come in one sequence for each entry of the stack.
LEMMA FittingSeq ==
    ASSUME stack \in Seq(Entries), NEW path
    PROVE  Fitting(path) \in Seq(Seq(Middlewares)) /\ Len(Fitting(path)) = Len(stack)
PROOF
  <1>1. \A n \in 1..Len(stack) : stack[n].mws \in Seq(Middlewares)
      BY EntryFields
  <1>2. <<>> \in Seq(Middlewares) /\ Len(stack) \in Nat
      OBVIOUS
  <1> QED BY <1>1, <1>2 DEF Fitting

\* What a request passes is a sequence of middlewares, and in fiber all of those that
\* were mounted, before the route it is taken by, on a prefix of its path.
LEMMA ChainHas ==
    ASSUME IInv, NEW path
    PROVE  /\ Chain(path) \in Seq(Middlewares)
           /\ framework = "fiber" =>
                \A n \in 1..Len(stack), e \in Middlewares :
                   /\ stack[n].kind = "use" /\ IsPrefix(stack[n].path, path)
                   /\ n < Taken(path)
                   /\ Contains(stack[n].mws, e)
                   => Contains(Chain(path), e)
PROOF
  <1> DEFINE i == Taken(path)
             own == IF i = 0 THEN <<>> ELSE stack[i].mws
  <1>1. stack \in Seq(Entries) /\ Len(stack) \in Nat
      BY DEF IInv, MountInv
  <1>2. i \in 0..Len(stack)
      BY <1>1, TakenRoute
  <1>3. own \in Seq(Middlewares)
      <2>1. \A n \in 1..Len(stack) : stack[n].mws \in Seq(Middlewares)
          BY <1>1, EntryFields
      <2>2. <<>> \in Seq(Middlewares)
          OBVIOUS
      <2> HIDE DEF i
      <2>3. CASE i = 0
          BY <2>2, <2>3
      <2>4. CASE i # 0
          <3>1. i \in 1..Len(stack)
              BY <2>4, <1>1, <1>2
          <3> QED BY <2>1, <3>1, <2>4
      <2> QED BY <2>3, <2>4
  <1>4. CASE framework = "echo"
      <2>1. Chain(path) = opt.engine \o opt.rootMiddlewares \o own
          BY <1>4 DEF Chain
      <2>2. opt.rootMiddlewares \in Seq(Middlewares) /\ opt.engine \in Seq(Middlewares)
          BY <1>4, RootsTyped DEF IInv
      <2> HIDE DEF own
      <2> QED BY <2>1, <2>2, <1>3, <1>4
  <1>5. CASE framework = "fiber"
      <2>1. Chain(path) = FlattenSeq(Fitting(path)) \o own
          BY <1>5 DEF Chain, Fitting
      <2>2. Fitting(path) \in Seq(Seq(Middlewares)) /\ Len(Fitting(path)) = Len(stack)
            /\ Fitting(path) # <<>>
          <3>1. Len(stack) >= 2
              BY <1>5 DEF IInv, RootInv
          <3> QED BY <3>1, <1>1, FittingSeq
      <2>3. FlattenSeq(Fitting(path)) \in Seq(Middlewares)
            /\ \A n \in 1..Len(stack), e \in Middlewares :
                  Contains(Fitting(path)[n], e) => Contains(FlattenSeq(Fitting(path)), e)
          BY <2>2, FlattenHas
      <2>4. \A n \in 1..Len(stack) :
               stack[n].kind = "use" /\ IsPrefix(stack[n].path, path) /\ n < i =>
                   Fitting(path)[n] = stack[n].mws
          BY DEF Fitting
      <2> HIDE DEF own
      <2> QED BY <2>1, <2>3, <2>4, <1>3, ContainsJoin
  <1> QED BY <1>4, <1>5 DEF IInv, TypeOK

-----------------------------------------------------------------------------
(* What becomes of a request *)

AnyOutcome == {"ok", "error", "both", "panic", "late"}
Handled == opt.errorHandler \in ErrorHandlers \cup {"own"} /\ framework \in {"echo", "fiber"}

\* What a request can have come back as, whatever middlewares it has passed.
Stage(outcome, r) ==
    LET own == opt.errorHandler = "own"
        silent == opt.errorHandler = "silent"
        echo == framework = "echo"
    IN  /\ outcome = "ok" => r.answers = 1 /\ ~ r.error /\ ~ r.panic
        /\ outcome = "error" =>
              ~ r.panic /\ r.answers = IF r.error \/ silent THEN 0 ELSE 1
        /\ outcome = "both" =>
              ~ r.panic /\ r.answers = IF ~ r.error /\ echo /\ own THEN 2 ELSE 1
        /\ outcome = "panic" =>
              ~ r.error /\ r.answers = IF r.panic \/ (echo /\ silent) THEN 0 ELSE 1
        /\ outcome = "late" =>
              ~ r.error /\ r.answers = IF r.panic \/ (echo /\ ~ own) THEN 1 ELSE 2

\* What a handler leaves behind is a stage of its outcome.
LEMMA EndedStage ==
    ASSUME NEW outcome \in AnyOutcome
    PROVE  Ended(outcome) \in Results /\ Stage(outcome, Ended(outcome))
PROOF
  <1>1. ASSUME NEW answers \in Nat, NEW error \in BOOLEAN, NEW panic \in BOOLEAN,
               answers = IF outcome \in {"ok", "both", "late"} THEN 1 ELSE 0,
               error <=> outcome \in {"error", "both"},
               panic <=> outcome \in {"panic", "late"}
        PROVE  LET r == [answers |-> answers, error |-> error, panic |-> panic]
               IN  r \in Results /\ Stage(outcome, r)
      BY <1>1 DEF Results, Stage, AnyOutcome
  <1> DEFINE answers == IF outcome \in {"ok", "both", "late"} THEN 1 ELSE 0
             error == outcome \in {"error", "both"}
             panic == outcome \in {"panic", "late"}
  <1>2. answers \in Nat /\ error \in BOOLEAN /\ panic \in BOOLEAN
      OBVIOUS
  <1>3. Ended(outcome) = [answers |-> answers, error |-> error, panic |-> panic]
      BY DEF Ended
  <1> QED BY <1>1, <1>2, <1>3

\* The error handler leaves no error, and does nothing about a panic.
LEMMA HandleErrorStage ==
    ASSUME Handled, NEW outcome \in AnyOutcome, NEW r \in Results,
           Stage(outcome, r)
    PROVE  Stage(outcome, HandleError(r)) /\ ~ HandleError(r).error
           /\ HandleError(r).panic = r.panic /\ HandleError(r) \in Results
PROOF
  <1>1. CASE ~ r.error
      BY <1>1 DEF HandleError
  <1>2. CASE r.error /\ opt.errorHandler = "own" /\ framework = "echo"
      <2>1. HandleError(r) = [answers |-> r.answers + 1, error |-> FALSE, panic |-> r.panic]
          BY <1>2 DEF HandleError, CustomHTTPErrorHandler, Results
      <2> QED BY <2>1, <1>2 DEF Stage, Results, AnyOutcome
  <1>3. CASE r.error /\ opt.errorHandler = "own" /\ framework = "fiber"
      <2>1. HandleError(r) = [answers |-> 1, error |-> FALSE, panic |-> r.panic]
          BY <1>3 DEF HandleError, defaultErrHandler, Results
      <2> QED BY <2>1, <1>3 DEF Stage, Results, AnyOutcome
  <1>4. CASE r.error /\ opt.errorHandler \in ErrorHandlers
      <2>1. HandleError(r) = [answers |-> IF opt.errorHandler = "careful" /\ r.answers = 0
                                          THEN 1 ELSE r.answers,
                              error |-> FALSE, panic |-> r.panic]
          BY <1>4 DEF HandleError, GivenErrorHandler, Results, ErrorHandlers
      <2> QED BY <2>1, <1>4 DEF Stage, Results, AnyOutcome, ErrorHandlers
  <1> QED BY <1>1, <1>2, <1>3, <1>4 DEF Handled

\* A middleware keeps the stage, and a panic goes only through one that does not
\* recover.
LEMMA BackStage ==
    ASSUME Handled, NEW outcome \in AnyOutcome, NEW r \in Results,
           Stage(outcome, r), NEW mw \in Middlewares
    PROVE  /\ Stage(outcome, Back(mw, r))
           /\ Back(mw, r).panic => r.panic /\ mw[1] # "recover"
PROOF
  <1>1. CASE mw[1] = "logger"
      BY <1>1, HandleErrorStage DEF Back, EchoLoggerMiddleware
  <1>2. CASE mw[1] = "recover" /\ r.panic /\ framework = "fiber"
      <2>1. Back(mw, r) = [answers |-> r.answers + 1, error |-> r.error, panic |-> FALSE]
          BY <1>2 DEF Back, RecoverMiddleware, Results
      <2> QED BY <2>1, <1>2 DEF Stage, Results, AnyOutcome
  <1>3. CASE mw[1] = "recover" /\ r.panic /\ framework = "echo"
      <2> DEFINE e == [r EXCEPT !.panic = FALSE, !.error = TRUE]
      <2>1. Back(mw, r) = HandleError(e) /\ e.error /\ e \in Results
            /\ e.answers = r.answers /\ e.panic = FALSE
          <3>1. Back(mw, r) = HandleError(e)
              BY <1>3 DEF Back, EchoRecover
          <3>2. e \in Results /\ e.error /\ e.answers = r.answers /\ e.panic = FALSE
              BY DEF Results
          <3> QED BY <3>1, <3>2
      <2> HIDE DEF e
      <2>2. HandleError(e) =
               [answers |-> IF opt.errorHandler = "own" THEN r.answers + 1
                            ELSE IF opt.errorHandler = "careful" /\ r.answers = 0 THEN 1
                            ELSE r.answers,
                error |-> FALSE, panic |-> FALSE]
          BY <2>1, <1>3 DEF HandleError, GivenErrorHandler, CustomHTTPErrorHandler, Results
      <2> QED BY <2>1, <2>2, <1>3 DEF Stage, Results, AnyOutcome, Handled, ErrorHandlers
  <1>4. CASE mw[1] = "recover" /\ ~ r.panic
      BY <1>4 DEF Back, RecoverMiddleware, EchoRecover
  <1>5. CASE mw[1] # "logger" /\ mw[1] # "recover"
      BY <1>5 DEF Back
  <1> QED BY <1>1, <1>2, <1>3, <1>4, <1>5 DEF Handled

\* A request is answered as often as its outcome has it; it leaves a panic only when no
\* middleware recovers from it.
LEMMA PassedResult ==
    ASSUME Handled, NEW outcome \in AnyOutcome,
           NEW chain \in Seq(Middlewares)
    PROVE  LET r == Passed(chain, outcome) IN
           /\ r.answers \in 0..2
           /\ ~ r.panic => r.answers = Due(outcome)
           /\ r.panic => outcome \in {"panic", "late"} /\ ~ Contains(chain, <<"recover", 0>>)
PROOF
  <1> DEFINE n == Len(chain)
             base == Ended(outcome)
  <1>1. base \in Results /\ Stage(outcome, base)
      BY EndedStage
  <1> HIDE DEF base
  <1>2. PICK w \in [0..n -> Results] :
           /\ w[0] = base
           /\ \A k \in 0..(n - 1) : w[k + 1] = Back(chain[n - k], w[k])
           /\ FoldRight(Back, chain, base) = w[n]
      BY <1>1, BackWalk
  <1>3. n \in Nat /\ \A k \in 1..n : chain[k] \in Middlewares
      OBVIOUS
  <1> HIDE DEF n
  <1> DEFINE Good(k) == /\ Stage(outcome, w[k])
                        /\ w[k].panic => \A j \in (n - k + 1)..n : chain[j][1] # "recover"
             T == {k \in 0..n : Good(k)}
  <1>4. 0 \in T
      BY <1>1, <1>2, <1>3
  <1>5. ASSUME NEW k \in 0..(n - 1), k \in T
        PROVE  k + 1 \in T
      <2>1. k \in 0..n /\ k + 1 \in 0..n /\ n - k \in 1..n /\ w[k] \in Results
            /\ n - (k + 1) + 1 = n - k
          BY <1>3
      <2>2. w[k + 1] = Back(chain[n - k], w[k]) /\ chain[n - k] \in Middlewares
          BY <2>1, <1>2, <1>3
      <2>3. Stage(outcome, w[k + 1])
            /\ (w[k + 1].panic => w[k].panic /\ chain[n - k][1] # "recover")
          BY <2>1, <2>2, <1>5, BackStage
      <2>4. ASSUME w[k + 1].panic, NEW j \in (n - (k + 1) + 1)..n
            PROVE  chain[j][1] # "recover"
          <3>1. CASE j = n - k
              BY <3>1, <2>3, <2>4
          <3>2. CASE j # n - k
              <4>1. j \in (n - k + 1)..n
                  BY <3>2, <1>3
              <4> QED BY <4>1, <2>3, <2>4, <1>5
          <3> QED BY <3>1, <3>2
      <2> QED BY <2>1, <2>3, <2>4
  <1>6. n \in T
      <2> HIDE DEF T
      <2>1. n \in 0..n
          BY <1>3
      <2> QED BY <1>3, <1>4, <1>5, <2>1, CountUp
  <1>7. Stage(outcome, w[n]) /\ w[n] \in Results
        /\ (w[n].panic => \A j \in 1..n : chain[j][1] # "recover")
      <2>1. n - n + 1 = 1 /\ n \in 0..n
          BY <1>3
      <2> QED BY <2>1, <1>6, <1>2
  <1>8. Passed(chain, outcome) = HandleError(w[n])
      BY <1>2 DEF Passed, base
  <1> DEFINE r == HandleError(w[n])
  <1>9. Stage(outcome, r) /\ ~ r.error /\ r.panic = w[n].panic /\ r \in Results
      BY <1>7, HandleErrorStage
  <1>10. r.panic => ~ Contains(chain, <<"recover", 0>>)
      BY <1>7, <1>9 DEF Contains, n
  <1> HIDE DEF r
  <1>11. /\ r.answers \in 0..2
         /\ ~ r.panic => r.answers = Due(outcome)
         /\ r.panic => outcome \in {"panic", "late"}
      BY <1>9 DEF Stage, AnyOutcome, Due, Handled, ErrorHandlers
  <1> QED BY <1>8, <1>10, <1>11 DEF r

-----------------------------------------------------------------------------
(* What modules mount *)

\* What a path begins with, a longer path begins with.
LEMMA PrefixGrows ==
    ASSUME NEW s \in AnyPath, NEW t \in AnyPath, NEW u \in AnyPath
    PROVE  /\ t \o u \in AnyPath
           /\ IsPrefix(s, s)
           /\ IsPrefix(s, t) => IsPrefix(s, t \o u)
PROOF
  <1> USE DEF AnyPath
  <1>1. t \o u \in AnyPath /\ Len(t \o u) = Len(t) + Len(u)
        /\ Len(s) \in Nat /\ Len(t) \in Nat /\ Len(u) \in Nat
      OBVIOUS
  <1>2. IsPrefix(s, s)
      BY DEF IsPrefix
  <1>3. ASSUME IsPrefix(s, t)
        PROVE  IsPrefix(s, t \o u)
      <2>1. Len(s) <= Len(t) /\ SubSeq(s, 1, Len(s)) = SubSeq(t, 1, Len(s))
          BY <1>3 DEF IsPrefix
      <2>2. SubSeq(t \o u, 1, Len(s)) = SubSeq(t, 1, Len(s))
          BY <2>1, <1>1
      <2> QED BY <2>1, <2>2, <1>1 DEF IsPrefix
  <1> QED BY <1>1, <1>2, <1>3

\* What is mounted comes after the rest, below the root path.
LEMMA StackGrows ==
    ASSUME OptInv, MountInv, RootInv, NEW e \in Entries,
           e.kind = "route" => IsPrefix(opt.rootPath, e.path),
           stack' = Append(stack, e), UNCHANGED <<framework, opt>>
    PROVE  stack' \in Seq(Entries) /\ RootInv'
PROOF
  <1>1. stack \in Seq(Entries) /\ Len(stack) \in Nat
      BY DEF MountInv
  <1>2. stack' \in Seq(Entries) /\ Len(stack') = Len(stack) + 1
        /\ stack'[Len(stack) + 1] = e
        /\ \A i \in 1..Len(stack) : stack'[i] = stack[i]
      BY <1>1
  <1>3. ASSUME framework = "fiber", NEW i \in 2..Len(stack'), stack'[i].kind = "route"
        PROVE  IsPrefix(opt.rootPath, stack'[i].path)
      <2>1. CASE i = Len(stack) + 1
          BY <2>1, <1>2, <1>3
      <2>2. CASE i # Len(stack) + 1
          <3>1. i \in 2..Len(stack) /\ i \in 1..Len(stack)
              BY <2>2, <1>1, <1>2
          <3> QED BY <3>1, <1>2, <1>3 DEF RootInv
      <2> QED BY <2>1, <2>2
  <1>4. RootInv'
      <2> SUFFICES ASSUME framework' = "fiber" PROVE RootInv'
          BY DEF RootInv
      <2>1. /\ framework = "fiber" /\ Len(stack) >= 2
            /\ stack[1].handler = "root" /\ stack[2].kind = "use"
            /\ opt.rootMiddlewares # <<>> =>
                  Len(stack) >= 3 /\ stack[3] = Middleware(opt.rootPath, opt.rootMiddlewares)
          BY DEF RootInv
      <2>2. /\ Len(stack') >= 2
            /\ stack'[1].handler = "root" /\ stack'[2].kind = "use"
            /\ opt.rootMiddlewares # <<>> =>
                  Len(stack') >= 3 /\ stack'[3] = Middleware(opt.rootPath, opt.rootMiddlewares)
          BY <1>1, <1>2, <2>1
      <2> QED BY <2>1, <2>2, <1>3 DEF RootInv
  <1> QED BY <1>2, <1>4

\* The middlewares a call of a module gives are a sequence of them.
LEMMA GivenSeq ==
    ASSUME NEW with \in BOOLEAN, MountInv
    PROVE  Given(with) \in Seq(Middlewares)
PROOF
  <1>1. <<"module", Len(calls) + 1>> \in Middlewares
      BY DEF Middlewares, MiddlewareNames, MountInv
  <1>2. <<>> \in Seq(Middlewares)
      OBVIOUS
  <1> QED BY <1>1, <1>2, OneSeq DEF Given

\* A router handed out lies under the root path.
LEMMA RouterFields ==
    ASSUME MountInv, NEW r \in 1..Len(routers)
    PROVE  routers[r].prefix \in AnyPath /\ routers[r].mws \in Seq(Middlewares)
           /\ IsPrefix(opt.rootPath, routers[r].prefix) /\ routers[r] \in Routers
PROOF
  <1>1. routers[r] \in Routers
      BY DEF MountInv
  <1> QED BY <1>1 DEF Routers, MountInv

\* A call of a module keeps the invariant when what it mounts is below the root path.
LEMMA MountStep ==
    ASSUME IInv, NEW op \in {"Group", "Use", "Handle"}, NEW r \in 1..Len(routers),
           NEW p \in AnyPath, NEW with \in BOOLEAN, NEW native \in BOOLEAN,
           Mounting, Asked(op, r, p, with, native),
           UNCHANGED <<framework, opt, serve, stop, last>>,
           stack' \in Seq(Entries), RootInv',
           routers' \in Seq(Routers), Len(routers') <= Len(routers) + 1,
           \A q \in 1..Len(routers') : IsPrefix(opt.rootPath, routers'[q].prefix)
    PROVE  IInv'
PROOF
  <1>1. calls' \in Seq(Calls) /\ Len(calls') = Len(calls) + 1
      <2> DEFINE c == [op |-> op, router |-> r, path |-> routers[r].prefix \o p,
                       with |-> with, native |-> native, made |-> Len(routers) + 1]
      <2>1. routers[r].prefix \o p \in AnyPath
          BY RouterFields DEF IInv, AnyPath
      <2>2. r \in Nat /\ Len(routers) + 1 \in Nat
          BY DEF IInv, MountInv
      <2>3. c \in Calls
          BY <2>1, <2>2 DEF Calls
      <2>4. calls' = Append(calls, c) /\ calls \in Seq(Calls)
          BY DEF Asked, IInv, MountInv
      <2> HIDE DEF c
      <2> QED BY <2>3, <2>4
  <1>2. Len(calls) \in Nat /\ Len(calls) < MaxCalls /\ Len(routers) <= Len(calls) + 1
        /\ Len(routers) \in Nat /\ Len(routers') \in Nat /\ MaxCalls \in Nat
      BY RestServerAssumption DEF Mounting, IInv, MountInv
  <1>3. Len(calls') <= MaxCalls /\ Len(routers') <= MaxCalls + 1
        /\ Len(routers') <= Len(calls') + 1
      BY <1>1, <1>2
  <1>4. \A i \in 1..Len(stack') : stack'[i] \in Entries
      OBVIOUS
  <1>5. TypeOK'
      BY <1>3, <1>4 DEF TypeOK, IInv, Entries
  <1>6. MountInv'
      BY <1>1, <1>3 DEF MountInv
  <1>7. OptInv'
      BY DEF IInv, OptInv
  <1>8. AnsweredOnce' /\ SurvivesPanic'
      BY DEF IInv, AnsweredOnce, SurvivesPanic, Due
  <1> QED BY <1>5, <1>6, <1>7, <1>8 DEF IInv

\* A router added under the root path keeps what holds of all routers.
LEMMA RouterAdded ==
    ASSUME MountInv, NEW e \in Routers, IsPrefix(opt.rootPath, e.prefix),
           routers' = Append(routers, e)
    PROVE  /\ routers' \in Seq(Routers) /\ Len(routers') <= Len(routers) + 1
           /\ \A q \in 1..Len(routers') : IsPrefix(opt.rootPath, routers'[q].prefix)
PROOF
  <1>1. routers \in Seq(Routers) /\ Len(routers) \in Nat
      BY DEF MountInv
  <1>2. routers' \in Seq(Routers) /\ Len(routers') = Len(routers) + 1
        /\ routers'[Len(routers) + 1] = e
        /\ \A i \in 1..Len(routers) : routers'[i] = routers[i]
      BY <1>1
  <1>3. \A q \in 1..Len(routers') : q \in 1..Len(routers) \/ q = Len(routers) + 1
      BY <1>1, <1>2
  <1> QED BY <1>1, <1>2, <1>3 DEF MountInv

\* Group hands out a router under the root path.
LEMMA GroupStep ==
    ASSUME IInv, NEW r \in 1..Len(routers), NEW p \in Patterns, NEW with \in BOOLEAN,
           Group(r, p, with)
    PROVE  IInv'
PROOF
  <1> DEFINE prefix == routers[r].prefix \o p
  <1>1. MountInv /\ OptInv /\ RootInv /\ framework \in {"echo", "fiber"}
      BY DEF IInv, TypeOK
  <1>2. p \in AnyPath /\ opt.rootPath \in AnyPath
      BY <1>1, RestServerAssumption DEF OptInv
  <1>3. prefix \in AnyPath /\ IsPrefix(opt.rootPath, prefix)
      BY <1>1, <1>2, RouterFields, PrefixGrows
  <1>4. Given(with) \in Seq(Middlewares) /\ routers[r].mws \in Seq(Middlewares)
      BY <1>1, GivenSeq, RouterFields
  <1>5. Len(calls) + 1 \in Nat /\ r \in Nat
      BY <1>1 DEF MountInv
  <1> HIDE DEF prefix
  <1>6. CASE framework = "echo"
      <2> DEFINE e == [prefix |-> prefix, mws |-> routers[r].mws \o Given(with),
                       parent |-> r, born |-> Len(calls) + 1]
      <2>1. routers' = Append(routers, e) /\ stack' = stack
          BY <1>6 DEF Group, EchoGroup, prefix
      <2>2. routers[r].mws \o Given(with) \in Seq(Middlewares)
          BY <1>4
      <2>3. e \in Routers /\ e.prefix = prefix
          BY <2>2, <1>3, <1>5 DEF Routers
      <2> HIDE DEF e
      <2>4. /\ routers' \in Seq(Routers) /\ Len(routers') <= Len(routers) + 1
            /\ \A q \in 1..Len(routers') : IsPrefix(opt.rootPath, routers'[q].prefix)
          BY <2>1, <2>3, <1>1, <1>3, RouterAdded
      <2>5. stack' \in Seq(Entries) /\ RootInv'
          BY <2>1, <1>1 DEF MountInv, RootInv, Group
      <2> QED BY <2>4, <2>5, <1>2, MountStep DEF Group, runVars
  <1>7. CASE framework = "fiber"
      <2> DEFINE e == [prefix |-> prefix, mws |-> <<>>, parent |-> r, born |-> Len(calls) + 1]
                 m == Middleware(prefix, Given(with))
      <2>1. /\ routers' = Append(routers, e)
            /\ stack' = stack \/ stack' = Append(stack, m)
          BY <1>7 DEF Group, FiberGroup, prefix
      <2>2. e \in Routers /\ e.prefix = prefix
          <3>1. <<>> \in Seq(Middlewares)
              OBVIOUS
          <3> QED BY <3>1, <1>3, <1>5 DEF Routers
      <2>3. m \in Entries /\ m.kind = "use"
          BY <1>3, <1>4 DEF Middleware, Entries
      <2> HIDE DEF e, m
      <2>4. /\ routers' \in Seq(Routers) /\ Len(routers') <= Len(routers) + 1
            /\ \A q \in 1..Len(routers') : IsPrefix(opt.rootPath, routers'[q].prefix)
          BY <2>1, <2>2, <1>1, <1>3, RouterAdded
      <2>5. stack' \in Seq(Entries) /\ RootInv'
          <3>1. CASE stack' = stack
              BY <3>1, <1>1 DEF MountInv, RootInv, Group
          <3>2. CASE stack' = Append(stack, m)
              BY <3>2, <2>3, <1>1, StackGrows DEF Group
          <3> QED BY <2>1, <3>1, <3>2
      <2> QED BY <2>4, <2>5, <1>2, MountStep DEF Group, runVars
  <1> QED BY <1>1, <1>6, <1>7

\* Use mounts middlewares, or remembers them, under the path of its router.
LEMMA UseStep ==
    ASSUME IInv, NEW r \in 1..Len(routers), Use(r)
    PROVE  IInv'
PROOF
  <1>1. MountInv /\ OptInv /\ RootInv /\ framework \in {"echo", "fiber"}
      BY DEF IInv, TypeOK
  <1>2. PICK with \in BOOLEAN, native \in BOOLEAN :
           /\ Mounting /\ Asked("Use", r, <<>>, with, native)
           /\ IF framework = "echo" THEN EchoUse(r, Given(with)) ELSE FiberUse(r, Given(with))
      BY DEF Use
  <1>3. Given(with) \in Seq(Middlewares) /\ <<>> \in AnyPath
      BY <1>1, GivenSeq DEF AnyPath
  <1>4. routers[r].prefix \in AnyPath /\ routers[r].mws \in Seq(Middlewares)
        /\ routers[r] \in Routers
      BY <1>1, RouterFields
  <1>5. CASE framework = "echo"
      <2> DEFINE mws == routers[r].mws \o Given(with)
      <2>1. routers' = [routers EXCEPT ![r].mws = mws] /\ stack' = stack
          BY <1>2, <1>5 DEF EchoUse
      <2>2. mws \in Seq(Middlewares)
          BY <1>3, <1>4
      <2> HIDE DEF mws
      <2>3. [routers[r] EXCEPT !.mws = mws] \in Routers
            /\ [routers[r] EXCEPT !.mws = mws].prefix = routers[r].prefix
          BY <2>2, <1>4 DEF Routers
      <2>4. routers' = [routers EXCEPT ![r] = [routers[r] EXCEPT !.mws = mws]]
          BY <2>1
      <2>5. routers' \in Seq(Routers) /\ Len(routers') = Len(routers)
            /\ Len(routers) \in Nat
          BY <2>3, <2>4, <1>1 DEF MountInv
      <2>6. \A q \in 1..Len(routers') : IsPrefix(opt.rootPath, routers'[q].prefix)
          <3> SUFFICES ASSUME NEW q \in 1..Len(routers')
                       PROVE  IsPrefix(opt.rootPath, routers'[q].prefix)
              OBVIOUS
          <3>1. routers'[q].prefix = routers[q].prefix
              BY <2>3, <2>4, <2>5, <1>1 DEF MountInv
          <3> QED BY <3>1, <2>5, <1>1 DEF MountInv
      <2>7. stack' \in Seq(Entries) /\ RootInv'
          BY <2>1, <1>1 DEF MountInv, RootInv, Use
      <2> QED BY <2>5, <2>6, <2>7, <1>2, <1>3, MountStep DEF Use, runVars
  <1>6. CASE framework = "fiber"
      <2> DEFINE m == Middleware(routers[r].prefix, Given(with))
      <2>1. routers' = routers /\ stack' = Append(stack, m)
          BY <1>2, <1>6 DEF FiberUse
      <2>2. m \in Entries /\ m.kind = "use"
          BY <1>3, <1>4 DEF Middleware, Entries
      <2> HIDE DEF m
      <2>3. stack' \in Seq(Entries) /\ RootInv'
          BY <2>1, <2>2, <1>1, StackGrows DEF Use
      <2>4. /\ routers' \in Seq(Routers) /\ Len(routers') <= Len(routers) + 1
            /\ \A q \in 1..Len(routers') : IsPrefix(opt.rootPath, routers'[q].prefix)
          BY <2>1, <1>1 DEF MountInv
      <2> QED BY <2>3, <2>4, <1>2, <1>3, MountStep DEF Use, runVars
  <1> QED BY <1>1, <1>5, <1>6

\* Handle mounts a route under the path of its router.
LEMMA HandleStep ==
    ASSUME IInv, NEW r \in 1..Len(routers), NEW p \in Patterns, NEW with \in BOOLEAN,
           NEW native \in BOOLEAN, Handle(r, p, with, native)
    PROVE  IInv'
PROOF
  <1> DEFINE path == routers[r].prefix \o p
             handler == IF native THEN "native" ELSE "wrapped"
  <1>1. MountInv /\ OptInv /\ RootInv /\ framework \in {"echo", "fiber"}
      BY DEF IInv, TypeOK
  <1>2. p \in AnyPath /\ opt.rootPath \in AnyPath
      BY <1>1, RestServerAssumption DEF OptInv
  <1>3. path \in AnyPath /\ IsPrefix(opt.rootPath, path)
      BY <1>1, <1>2, RouterFields, PrefixGrows
  <1>4. Given(with) \in Seq(Middlewares) /\ routers[r].mws \in Seq(Middlewares)
      BY <1>1, GivenSeq, RouterFields
  <1>5. PICK mws \in Seq(Middlewares) : stack' = Append(stack, Route(path, mws, handler))
      <2>1. CASE framework = "echo"
          <3> DEFINE own == IF native THEN Given(with) ELSE transformMiddlewares(<<>>)
          <3>1. own \in Seq(Middlewares)
              <4>1. <<>> \in Seq(Middlewares)
                  OBVIOUS
              <4> QED BY <4>1, <1>4 DEF transformMiddlewares
          <3>2. stack' = Append(stack, Route(path, routers[r].mws \o own, handler))
              BY <2>1 DEF Handle, EchoHandle
          <3> HIDE DEF own, path, handler
          <3>3. routers[r].mws \o own \in Seq(Middlewares)
              BY <3>1, <1>4
          <3> QED BY <3>2, <3>3
      <2>2. CASE framework = "fiber"
          <3>1. stack' = Append(stack, Route(path, Given(with), handler))
              BY <2>2 DEF Handle, FiberHandle, WithChainingMiddlewares
          <3> QED BY <3>1, <1>4
      <2> QED BY <2>1, <2>2, <1>1
  <1> DEFINE e == Route(path, mws, handler)
  <1>6. e \in Entries /\ e.path = path
      <2>1. handler \in Handlers
          BY DEF Handlers
      <2> HIDE DEF path, handler
      <2> QED BY <2>1, <1>3 DEF Route, Entries
  <1>7. stack' = Append(stack, e)
      BY <1>5
  <1> HIDE DEF path, handler, e
  <1>8. stack' \in Seq(Entries) /\ RootInv'
      BY <1>1, <1>3, <1>6, <1>7, StackGrows DEF Handle
  <1>9. /\ routers' \in Seq(Routers) /\ Len(routers') <= Len(routers) + 1
        /\ \A q \in 1..Len(routers') : IsPrefix(opt.rootPath, routers'[q].prefix)
      BY <1>1 DEF MountInv, Handle
  <1> QED BY <1>8, <1>9, <1>2, MountStep DEF Handle, runVars

\* The routes of GraphQL are routes of no module, below the path they are given.
LEMMA GraphQLEntries ==
    ASSUME NEW root \in AnyPath, NEW path \in AnyPath, IsPrefix(root, path)
    PROVE  /\ GraphQLRoutes(path) \in Seq(Entries) /\ Len(GraphQLRoutes(path)) = 3
           /\ \A i \in 1..Len(GraphQLRoutes(path)) :
                 IsPrefix(root, GraphQLRoutes(path)[i].path)
PROOF
  <1> DEFINE a == Route(path, <<>>, "graphql")
             b == Route(path \o <<"playground">>, <<>>, "playground")
             c == Route(path \o <<"voyager">>, <<>>, "voyager")
  <1>1. <<"playground">> \in AnyPath /\ <<"voyager">> \in AnyPath /\ <<>> \in Seq(Middlewares)
      BY RestServerAssumption, OneSeq DEF AnyPath
  <1>2. path \o <<"playground">> \in AnyPath /\ path \o <<"voyager">> \in AnyPath
        /\ IsPrefix(root, path \o <<"playground">>) /\ IsPrefix(root, path \o <<"voyager">>)
      BY <1>1, PrefixGrows
  <1>3. /\ a \in Entries /\ b \in Entries /\ c \in Entries
        /\ IsPrefix(root, a.path) /\ IsPrefix(root, b.path) /\ IsPrefix(root, c.path)
      BY <1>1, <1>2 DEF Route, Entries, Handlers
  <1>4. GraphQLRoutes(path) = <<a, b, c>>
      BY DEF GraphQLRoutes
  <1> HIDE DEF a, b, c
  <1>5. <<a, b, c>> \in Seq(Entries)
      BY <1>3, ThreeSeq
  <1>6. Len(<<a, b, c>>) = 3 /\ <<a, b, c>>[1] = a /\ <<a, b, c>>[2] = b /\ <<a, b, c>>[3] = c
      OBVIOUS
  <1>7. \A i \in 1..3 : i = 1 \/ i = 2 \/ i = 3
      OBVIOUS
  <1> QED BY <1>3, <1>4, <1>5, <1>6, <1>7

\* What the server itself mounts after the rest, below the root path.
LEMMA StackExtended ==
    ASSUME OptInv, MountInv, RootInv, NEW more \in Seq(Entries),
           \A i \in 1..Len(more) : IsPrefix(opt.rootPath, more[i].path),
           stack' = stack \o more, UNCHANGED <<framework, opt>>
    PROVE  stack' \in Seq(Entries) /\ RootInv'
PROOF
  <1>1. stack \in Seq(Entries) /\ Len(stack) \in Nat /\ Len(more) \in Nat
      BY DEF MountInv
  <1>2. stack' \in Seq(Entries) /\ Len(stack') = Len(stack) + Len(more)
        /\ (\A i \in 1..Len(stack) : stack'[i] = stack[i])
        /\ \A i \in (Len(stack) + 1)..Len(stack') :
              i - Len(stack) \in 1..Len(more) /\ stack'[i] = more[i - Len(stack)]
      BY <1>1, ConcatProperties
  <1>3. ASSUME framework = "fiber", NEW i \in 2..Len(stack'), stack'[i].kind = "route"
        PROVE  IsPrefix(opt.rootPath, stack'[i].path)
      <2>1. CASE i > Len(stack)
          <3>1. i \in (Len(stack) + 1)..Len(stack')
              BY <2>1, <1>1, <1>2
          <3> QED BY <3>1, <1>2
      <2>2. CASE ~ (i > Len(stack))
          <3>1. i \in 2..Len(stack) /\ i \in 1..Len(stack)
              BY <2>2, <1>1, <1>2
          <3> QED BY <3>1, <1>2, <1>3 DEF RootInv
      <2> QED BY <2>1, <2>2
  <1>4. RootInv'
      <2> SUFFICES ASSUME framework' = "fiber" PROVE RootInv'
          BY DEF RootInv
      <2>1. /\ framework = "fiber" /\ Len(stack) >= 2
            /\ stack[1].handler = "root" /\ stack[2].kind = "use"
            /\ opt.rootMiddlewares # <<>> =>
                  Len(stack) >= 3 /\ stack[3] = Middleware(opt.rootPath, opt.rootMiddlewares)
          BY DEF RootInv
      <2>2. /\ Len(stack') >= 2
            /\ stack'[1].handler = "root" /\ stack'[2].kind = "use"
            /\ opt.rootMiddlewares # <<>> =>
                  Len(stack') >= 3 /\ stack'[3] = Middleware(opt.rootPath, opt.rootMiddlewares)
          BY <1>1, <1>2, <2>1
      <2> QED BY <2>1, <2>2, <1>3 DEF RootInv
  <1> QED BY <1>2, <1>4

\* What the servers mount after the modules lies under the root path too.
LEMMA BuiltStep ==
    ASSUME IInv, Built
    PROVE  IInv'
PROOF
  <1>1. MountInv /\ OptInv /\ RootInv /\ framework \in {"echo", "fiber"}
      BY DEF IInv, TypeOK
  <1>2. stack' \in Seq(Entries) /\ RootInv'
      <2>1. CASE ~ opt.includeGraphQL
          BY <2>1, <1>1 DEF Built, MountInv, RootInv
      <2>2. CASE opt.includeGraphQL
          <3>1. <<"graphql">> \in AnyPath /\ opt.rootPath \in AnyPath
                /\ (framework = "fiber" => opt.graphqlPath \in AnyPath)
              BY <1>1, RestServerAssumption, OneSeq DEF AnyPath, OptInv
          <3>2. PICK sub \in AnyPath : stack' = stack \o GraphQLRoutes(opt.rootPath \o sub)
              BY <2>2, <3>1, <1>1 DEF Built, EchoGraphQL, FiberGraphQL
          <3>3. opt.rootPath \o sub \in AnyPath /\ IsPrefix(opt.rootPath, opt.rootPath \o sub)
              BY <3>1, PrefixGrows
          <3>4. /\ GraphQLRoutes(opt.rootPath \o sub) \in Seq(Entries)
                /\ \A i \in 1..Len(GraphQLRoutes(opt.rootPath \o sub)) :
                      IsPrefix(opt.rootPath, GraphQLRoutes(opt.rootPath \o sub)[i].path)
              BY <3>1, <3>3, GraphQLEntries
          <3> DEFINE more == GraphQLRoutes(opt.rootPath \o sub)
          <3>5. stack' = stack \o more /\ more \in Seq(Entries)
                /\ \A i \in 1..Len(more) : IsPrefix(opt.rootPath, more[i].path)
              BY <3>2, <3>4
          <3> HIDE DEF more
          <3> QED BY <3>5, <1>1, StackExtended DEF Built
      <2> QED BY <2>1, <2>2
  <1>3. \A i \in 1..Len(stack') : stack'[i] \in Entries
      BY <1>2
  <1>4. TypeOK'
      BY <1>3 DEF TypeOK, IInv, Entries, Built
  <1>5. MountInv' /\ OptInv'
      BY <1>1, <1>2 DEF MountInv, OptInv, Built
  <1>6. AnsweredOnce' /\ SurvivesPanic'
      BY DEF IInv, AnsweredOnce, SurvivesPanic, Due, Built
  <1> QED BY <1>2, <1>4, <1>5, <1>6 DEF IInv

-----------------------------------------------------------------------------
(* Serve, Shutdown and requests *)

\* A step that mounts nothing and serves no request keeps the invariant.
LEMMA RunStep ==
    ASSUME IInv, UNCHANGED <<framework, opt, mountVars, last>>,
           serve' \in {"running", "returned", "panicked"} \/ serve' = serve,
           stop' \in BOOLEAN
    PROVE  IInv'
PROOF
  <1> USE DEF mountVars
  <1>1. TypeOK'
      BY DEF IInv, TypeOK
  <1>2. OptInv' /\ MountInv' /\ RootInv'
      BY DEF IInv, OptInv, MountInv, RootInv
  <1>3. AnsweredOnce' /\ SurvivesPanic'
      BY DEF IInv, AnsweredOnce, SurvivesPanic, Due
  <1> QED BY <1>1, <1>2, <1>3 DEF IInv

\* Serve panics or returns.
LEMMA EndStep ==
    ASSUME NEW why, ServeEnds(why)
    PROVE  serve' \in {"returned", "panicked"}
PROOF BY DEF ServeEnds, EchoServeEnds, FiberServeEnds

\* Serve ends at once only when it cannot listen or was shut down before.
LEMMA ServeStep ==
    ASSUME IInv, Serve
    PROVE  IInv'
PROOF
  <1>1. UNCHANGED <<framework, opt, mountVars, stop, last>> /\ stop \in BOOLEAN
      BY DEF Serve, IInv, TypeOK
  <1>2. serve' \in {"running", "returned", "panicked"}
      BY EndStep DEF Serve
  <1> QED BY <1>1, <1>2, RunStep

\* Shutdown and the end of a shared listener end Serve.
LEMMA StopSteps ==
    ASSUME IInv, Shutdown \/ MuxClosed
    PROVE  IInv'
PROOF
  <1>1. UNCHANGED <<framework, opt, mountVars, last>> /\ stop' \in BOOLEAN
      BY DEF Shutdown, MuxClosed, IInv, TypeOK
  <1>2. serve' \in {"running", "returned", "panicked"} \/ serve' = serve
      BY EndStep DEF Shutdown, MuxClosed
  <1> QED BY <1>1, <1>2, RunStep

\* In fiber a handler of a module is behind the root middlewares.
LEMMA RootGuards ==
    ASSUME IInv, framework = "fiber", NEW path, Taken(path) \notin {0, 1},
           NEW e \in Middlewares, Contains(opt.rootMiddlewares, e)
    PROVE  Contains(Chain(path), e)
PROOF
  <1>1. stack \in Seq(Entries) /\ Len(stack) \in Nat /\ opt.rootMiddlewares \in Seq(Middlewares)
      BY RootsTyped DEF IInv, MountInv
  <1>2. opt.rootMiddlewares # <<>>
      BY <1>1 DEF Contains
  <1>3. Len(stack) >= 3 /\ stack[3] = Middleware(opt.rootPath, opt.rootMiddlewares)
        /\ stack[2].kind = "use"
      BY <1>2 DEF IInv, RootInv
  <1>4. stack[3].kind = "use" /\ stack[3].path = opt.rootPath
        /\ stack[3].mws = opt.rootMiddlewares
      BY <1>3 DEF Middleware
  <1>5. Taken(path) \in 1..Len(stack) /\ stack[Taken(path)].kind = "route"
        /\ stack[Taken(path)].path = path
      BY <1>1, TakenRoute
  <1>6. Taken(path) \in 4..Len(stack)
      BY <1>1, <1>3, <1>4, <1>5
  <1>7. IsPrefix(stack[3].path, path) /\ 3 < Taken(path) /\ 3 \in 1..Len(stack)
      BY <1>1, <1>4, <1>5, <1>6 DEF IInv, RootInv
  <1> QED BY <1>4, <1>7, ChainHas

\* A request is answered as often as it should be, and its panic ends the process only
\* where nothing recovers.
LEMMA RequestStep ==
    ASSUME IInv, NEW path, Request(path)
    PROVE  IInv'
PROOF
  <1> DEFINE chain == Chain(path)
             end == IF Taken(path) = 0 THEN "none" ELSE stack[Taken(path)].handler
             Served(c, e, o) ==
                LET r == Passed(c, o)
                IN  /\ last' = [path |-> path, chain |-> c, end |-> e, outcome |-> o,
                                answers |-> r.answers, panic |-> r.panic]
                    /\ serve' = IF r.panic /\ framework = "fiber" THEN "died" ELSE serve
  <1>1. Handled /\ stack \in Seq(Entries) /\ Len(stack) \in Nat
      BY DEF Handled, IInv, TypeOK, OptInv, MountInv
  <1>2. chain \in Seq(Middlewares)
      BY ChainHas
  <1>3. serve = "running" /\ UNCHANGED <<framework, opt, mountVars, stop>>
      BY DEF Request
  <1>4. end \in Handlers \cup {"none"} /\ Outcomes(end) \subseteq AnyOutcome
      <2>1. Taken(path) # 0 => Taken(path) \in 1..Len(stack)
          BY <1>1, TakenRoute
      <2>2. Taken(path) # 0 => stack[Taken(path)] \in Entries
          BY <2>1, <1>1
      <2>3. end \in Handlers \cup {"none"}
          BY <2>2 DEF Entries
      <2> QED BY <2>3 DEF Outcomes, AnyOutcome
  <1>5. \/ \E o \in Outcomes(end) : Served(chain, end, o)
        \/ \E n \in Rejecting(chain) : Served(SubSeq(chain, 1, n - 1), "rejected", "ok")
      BY DEF Request
  <1>6. ASSUME NEW c \in Seq(Middlewares), NEW e \in Handlers \cup {"none", "rejected"},
               NEW o \in AnyOutcome, Served(c, e, o),
               Passed(c, o).panic => framework = "echo" \/ e = "root"
                                     \/ ~ Contains(opt.rootMiddlewares, <<"recover", 0>>)
        PROVE  IInv'
      <2> DEFINE r == Passed(c, o)
      <2>1. /\ r.answers \in 0..2
            /\ ~ r.panic => r.answers = Due(o)
          BY <1>1, PassedResult
      <2>2. /\ last'.end = e /\ last'.outcome = o /\ last'.answers = r.answers
            /\ last'.panic = r.panic
            /\ serve' = IF r.panic /\ framework = "fiber" THEN "died" ELSE serve
          BY <1>6
      <2> HIDE DEF Served, r
      <2>3. TypeOK'
          BY <2>1, <2>2, <1>3 DEF IInv, TypeOK, mountVars
      <2>4. OptInv' /\ MountInv' /\ RootInv'
          BY <1>3 DEF IInv, OptInv, MountInv, RootInv, mountVars
      <2>5. AnsweredOnce'
          BY <2>1, <2>2, <1>3 DEF AnsweredOnce, Due
      <2>6. SurvivesPanic'
          BY <2>2, <1>1, <1>3, <1>6 DEF SurvivesPanic, r, Handled
      <2> QED BY <2>3, <2>4, <2>5, <2>6 DEF IInv
  <1>7. ASSUME NEW o \in Outcomes(end), Passed(chain, o).panic, framework = "fiber",
               Contains(opt.rootMiddlewares, <<"recover", 0>>)
        PROVE  end = "root"
      <2>1. o \in {"panic", "late"} /\ ~ Contains(chain, <<"recover", 0>>)
          BY <1>1, <1>2, <1>4, <1>7, PassedResult
      <2>2. Taken(path) # 0
          BY <2>1 DEF Outcomes
      <2>3. <<"recover", 0>> \in Middlewares
          BY DEF Middlewares, MiddlewareNames
      <2>4. Taken(path) = 1
          BY <2>1, <2>2, <2>3, <1>7, RootGuards
      <2>5. stack[1].handler = "root"
          BY <1>7 DEF IInv, RootInv
      <2> QED BY <2>4, <2>5
  <1>8. CASE \E o \in Outcomes(end) : Served(chain, end, o)
      <2>1. PICK o \in Outcomes(end) : Served(chain, end, o)
          BY <1>8
      <2>2. Passed(chain, o).panic => framework = "echo" \/ end = "root"
                                      \/ ~ Contains(opt.rootMiddlewares, <<"recover", 0>>)
          BY <1>1, <1>7 DEF Handled
      <2> HIDE DEF Served, chain, end
      <2> QED BY <2>1, <2>2, <1>2, <1>4, <1>6
  <1>9. CASE \E n \in Rejecting(chain) : Served(SubSeq(chain, 1, n - 1), "rejected", "ok")
      <2>1. PICK n \in Rejecting(chain) : Served(SubSeq(chain, 1, n - 1), "rejected", "ok")
          BY <1>9
      <2> DEFINE c == SubSeq(chain, 1, n - 1)
      <2>2. c \in Seq(Middlewares)
          <3> HIDE DEF chain
          <3>1. n \in 1..Len(chain)
              BY DEF Rejecting
          <3>2. \A i \in 1..(n - 1) : chain[i] \in Middlewares
              BY <3>1, <1>2
          <3> QED BY <3>1, <3>2, SubSeqProperties
      <2>3. ~ Passed(c, "ok").panic
          BY <2>2, <1>1, PassedResult DEF AnyOutcome
      <2> HIDE DEF Served, chain, c
      <2> QED BY <2>1, <2>2, <2>3, <1>6 DEF AnyOutcome, c
  <1> QED BY <1>5, <1>8, <1>9

-----------------------------------------------------------------------------
(* The invariant and the theorems *)

\* Whatever options an application passes, both servers start with typed ones.
LEMMA InitOptions ==
    ASSUME Init
    PROVE  framework \in {"echo", "fiber"}
           /\ (framework = "echo" => opt \in EchoOptions)
           /\ (framework = "fiber" => opt \in FiberOptions)
PROOF
  <1>1. PICK opts \in OptionLists :
           opt = IF framework = "echo" THEN SetupRESTServer(opts) ELSE SetupFiberServer(opts)
      BY DEF Init
  <1>2. EnvOptions \in Seq(OptionFunctions)
      <2>1. <<"SetRootPath", RootPath>> \in OptionFunctions
            /\ <<"SetIncludeGraphQL", UseGraphQL>> \in OptionFunctions
            /\ <<"AddGraphQLOption">> \in OptionFunctions
          BY RestServerAssumption DEF OptionFunctions
      <2> HIDE DEF OptionFunctions
      <2>2. <<<<"SetRootPath", RootPath>>, <<"SetIncludeGraphQL", UseGraphQL>>>>
               \in Seq(OptionFunctions)
            /\ <<<<"AddGraphQLOption">>>> \in Seq(OptionFunctions)
            /\ <<>> \in Seq(OptionFunctions)
          BY <2>1
      <2> QED BY <2>2 DEF EnvOptions
  <1>3. EnvOptions \o opts \in Seq(OptionFunctions)
      <2>1. opts \in Seq(OptionFunctions)
          BY RestServerAssumption
      <2> QED BY <2>1, <1>2
  <1> QED BY <1>1, <1>3, EchoFold, FiberFold DEF SetupRESTServer, SetupFiberServer, Init

\* A sequence of two and one more are a sequence of three.
LEMMA OneMore ==
  ASSUME NEW S, NEW a \in S, NEW b \in S, NEW c \in S
  PROVE  <<a, b>> \o <<c>> = <<a, b, c>>
PROOF
  <1> DEFINE two == <<a, b>>
             one == <<c>>
             three == <<a, b, c>>
  <1>1. two \in Seq(S) /\ Len(two) = 2 /\ two[1] = a /\ two[2] = b
      OBVIOUS
  <1>2. one \in Seq(S) /\ Len(one) = 1 /\ one[1] = c
      OBVIOUS
  <1>3. three \in Seq(S) /\ Len(three) = 3 /\ three[1] = a /\ three[2] = b /\ three[3] = c
      OBVIOUS
  <1> HIDE DEF two, one, three
  <1> DEFINE both == two \o one
  <1>4. /\ both \in Seq(S)
        /\ Len(both) = Len(two) + Len(one)
        /\ \A i \in 1 .. Len(two) + Len(one) :
              both[i] = IF i <= Len(two) THEN two[i] ELSE one[i - Len(two)]
      BY <1>1, <1>2, ConcatProperties, Zenon
  <1> HIDE DEF both
  <1>5. Len(both) = 3 /\ both[1] = a /\ both[2] = b /\ both[3] = c
      <2>1. Len(both) = 3
          BY <1>1, <1>2, <1>4
      <2>2. both[1] = a /\ both[2] = b
          BY <1>1, <1>2, <1>4
      <2>3. both[3] = one[1]
          BY <1>1, <1>2, <1>4
      <2> QED BY <2>1, <2>2, <2>3, <1>2
  <1>6. \A i \in 1 .. Len(both) : both[i] = three[i]
      <2> SUFFICES ASSUME NEW i \in 1 .. Len(both) PROVE both[i] = three[i]
          OBVIOUS
      <2>1. i = 1 \/ i = 2 \/ i = 3
          BY <1>5
      <2> QED BY <2>1, <1>5, <1>3
  <1>7. both = three
      BY <1>3, <1>4, <1>5, <1>6, SeqEqual
  <1> QED BY <1>7 DEF both, two, one, three

\* Both constructors mount the root handler and the root middlewares first.
LEMMA InitInv == Init => IInv
PROOF
  <1> SUFFICES ASSUME Init PROVE IInv
      OBVIOUS
  <1>1. framework \in {"echo", "fiber"}
        /\ (framework = "echo" => opt \in EchoOptions)
        /\ (framework = "fiber" => opt \in FiberOptions)
      BY InitOptions
  <1>2. OptInv
      BY <1>1 DEF OptInv, EchoOptions, FiberOptions
  <1>3. <<>> \in AnyPath /\ <<>> \in Seq(Middlewares) /\ <<"memstats">> \in AnyPath
        /\ <<<<"auth", 0>>>> \in Seq(Middlewares) /\ <<<<"cors", 0>>>> \in Seq(Middlewares)
      <2>1. <<"auth", 0>> \in Middlewares /\ <<"cors", 0>> \in Middlewares
          BY DEF Middlewares, MiddlewareNames
      <2> QED BY <2>1, OneSeq, RestServerAssumption DEF AnyPath
  <1>4. Named(<<"auth">>) = <<<<"auth", 0>>>> /\ Named(<<"cors">>) = <<<<"cors", 0>>>>
      BY DEF Named
  <1> DEFINE root == Route(<<>>, <<>>, "root")
             stats == Route(<<"memstats">>, Named(<<"auth">>), "memstats")
             cors == Middleware(<<>>, Named(<<"cors">>))
             mine == Middleware(opt.rootPath, opt.rootMiddlewares)
  <1>5. root \in Entries /\ stats \in Entries /\ cors \in Entries /\ mine \in Entries
      BY <1>2, <1>3, <1>4, RootsTyped DEF Route, Middleware, Entries, Handlers, OptInv
  <1>6. root.handler = "root" /\ cors.kind = "use" /\ mine.kind = "use"
      BY DEF Route, Middleware
  <1>7. \/ framework = "echo" /\ stack = <<root, stats>>
        \/ framework = "fiber" /\ opt.rootMiddlewares = <<>> /\ stack = <<root, cors>>
        \/ framework = "fiber" /\ opt.rootMiddlewares # <<>> /\ stack = <<root, cors, mine>>
      <2>1. CASE framework = "echo"
          BY <2>1 DEF Init, EchoNewServer
      <2>2. CASE framework = "fiber"
          <3>1. stack = <<root, cors>> \o (IF opt.rootMiddlewares = <<>> THEN <<>> ELSE <<mine>>)
              BY <2>2 DEF Init, FiberNewServer
          <3> HIDE DEF root, cors, mine
          <3>2. <<root, cors>> \o <<>> = <<root, cors>>
              OBVIOUS
          <3>3. <<root, cors>> \o <<mine>> = <<root, cors, mine>>
              BY <1>5, OneMore
          <3> QED BY <2>2, <3>1, <3>2, <3>3
      <2> QED BY <2>1, <2>2, <1>1
  <1> HIDE DEF root, stats, cors, mine
  <1>8. stack \in Seq(Entries)
      BY <1>5, <1>7, TwoSeq, ThreeSeq
  <1>9. RootInv
      BY <1>6, <1>7 DEF RootInv, mine
  <1>10. MountInv
      <2> DEFINE r == [prefix |-> opt.rootPath, mws |-> <<>>, parent |-> 0, born |-> 0]
      <2>1. r \in Routers /\ r.prefix = opt.rootPath
          BY <1>2, <1>3 DEF Routers, OptInv
      <2>2. routers = <<r>>
          BY DEF Init
      <2> HIDE DEF r
      <2>3. routers \in Seq(Routers) /\ Len(routers) = 1 /\ routers[1] = r
          BY <2>1, <2>2
      <2>4. IsPrefix(opt.rootPath, opt.rootPath)
          BY <1>2, PrefixGrows DEF OptInv
      <2>5. calls \in Seq(Calls) /\ Len(calls) = 0
          BY DEF Init
      <2>6. \A q \in 1..Len(routers) : IsPrefix(opt.rootPath, routers[q].prefix)
          BY <2>1, <2>3, <2>4
      <2> QED BY <1>8, <2>3, <2>5, <2>6 DEF MountInv
  <1>11. TypeOK
      <2>1. \A i \in 1..Len(stack) : stack[i] \in Entries
          BY <1>8
      <2>2. Len(calls) = 0 /\ Len(routers) = 1 /\ MaxCalls \in Nat
          BY RestServerAssumption DEF Init
      <2>3. last.end = "none" /\ last.answers \in 0..2
          BY DEF Init, NoRequest
      <2>4. \A i \in 1..Len(stack) : stack[i].kind \in {"use", "route"}
                                    /\ stack[i].handler \in Handlers \cup {"none"}
          BY <2>1 DEF Entries
      <2>5. Len(calls) <= MaxCalls /\ Len(routers) <= MaxCalls + 1
          BY <2>2
      <2>6. serve = "mount" /\ stop = FALSE
          BY DEF Init
      <2> QED BY <2>3, <2>4, <2>5, <2>6, <1>1 DEF TypeOK
  <1>12. AnsweredOnce /\ SurvivesPanic
      BY DEF Init, AnsweredOnce, SurvivesPanic
  <1> QED BY <1>2, <1>9, <1>10, <1>11, <1>12 DEF IInv

\* Every step keeps the invariant.
LEMMA NextInv == IInv /\ [Next]_vars => IInv'
PROOF
  <1> SUFFICES ASSUME IInv, [Next]_vars PROVE IInv'
      OBVIOUS
  <1>1. CASE UNCHANGED vars
      BY <1>1 DEF vars, IInv, TypeOK, OptInv, MountInv, RootInv, AnsweredOnce,
                  SurvivesPanic, Due
  <1>2. CASE \E r \in 1..Len(routers), p \in Patterns, with \in BOOLEAN, native \in BOOLEAN :
                Group(r, p, with) \/ Handle(r, p, with, native)
      BY <1>2, GroupStep, HandleStep
  <1>3. CASE \E r \in 1..Len(routers) : Use(r)
      BY <1>3, UseStep
  <1>4. CASE Built \/ Serve \/ Shutdown \/ MuxClosed
      BY <1>4, BuiltStep, ServeStep, StopSteps
  <1>5. CASE \E p \in Paths : Request(p)
      BY <1>5, RequestStep
  <1> QED BY <1>1, <1>2, <1>3, <1>4, <1>5 DEF Next

\* Whatever options are given and in whatever order modules mount, fiber has its root
\* middlewares in front of every route of a module, all below the root path.
THEOREM RestInductive == Spec => []IInv
PROOF BY InitInv, NextInv, PTL DEF Spec

\* Every variable keeps its type: a request is never answered more than twice.
THEOREM RestTypeCorrect == Spec => []TypeOK
PROOF
  <1>1. IInv => TypeOK
      BY DEF IInv
  <1> QED BY <1>1, RestInductive, PTL

\* A request is answered once, through any chain of middlewares and with any error handler
\* of the application; twice only when a handler answers and then panics, or in echo
\* returns an error, and what answers that appends; never only when the application's
\* error handler is silent.
THEOREM RestAnsweredOnce == Spec => []AnsweredOnce
PROOF
  <1>1. IInv => AnsweredOnce
      BY DEF IInv
  <1> QED BY <1>1, RestInductive, PTL

\* A panic ends the process only in fiber, in the root handler or without the middleware
\* that recovers.
THEOREM RestSurvivesPanic == Spec => []SurvivesPanic
PROOF
  <1>1. IInv => SurvivesPanic
      BY DEF IInv
  <1> QED BY <1>1, RestInductive, PTL

-----------------------------------------------------------------------------
(* Groups: what a router carries, and what stands in front of what it mounts *)

\* The middlewares of a chain that calls gave are in the order of these calls.
InOrder(chain) ==
    \A a, b \in 1..Len(chain) :
        a < b /\ chain[a][2] # 0 /\ chain[b][2] # 0 => chain[a][2] < chain[b][2]

\* They are those of the calls in S, each once, in order.
Lists(chain, S) == Passing(chain) = S /\ InOrder(chain)

\* The lines of some routers.
LineOf(rs) ==
    CHOOSE f : f = [r \in 0..Len(rs) |-> IF r = 0 THEN {} ELSE {r} \cup f[rs[r].parent]]

\* The first n of some calls that guard what is mounted on router r.
Guarding(cs, rs, r, n) ==
    {j \in 1..n :
        /\ cs[j].with
        /\ \/ cs[j].op = "Group" /\ cs[j].made \in LineOf(rs)[r]
           \/ /\ cs[j].op = "Use" /\ cs[j].router \in LineOf(rs)[r]
              /\ \A s \in LineOf(rs)[r] : rs[s].parent = cs[j].router => j < rs[s].born}

\* A router was made from an earlier one, by a call of a module.
RouterInv ==
    \A r \in 1..Len(routers) :
        /\ routers[r].parent \in 0..(r - 1) /\ routers[r].born \in 0..Len(calls)
        /\ routers[r].parent # 0 =>
              IsPrefix(routers[routers[r].parent].prefix, routers[r].prefix)

\* What a call was made on, and the path it is about.
CallInv ==
    \A k \in 1..Len(calls) :
        LET c == calls[k] IN
        /\ c.router \in 1..Len(routers)
        /\ c.op = "Use" => c.with /\ c.path = routers[c.router].prefix
        /\ c.op = "Group" => c.made \in 1..Len(routers) /\ c.path = routers[c.made].prefix
        /\ c.op = "Handle" => IsPrefix(routers[c.router].prefix, c.path)

\* A router of echo carries the middlewares that guard it so far.
EchoInv ==
    framework = "echo" =>
        \A r \in 1..Len(routers) :
            Lists(routers[r].mws, Guarding(calls, routers, r, Len(calls)))

\* The calls whose middlewares an entry carries that call k mounted.
Carried(k) ==
    IF framework = "echo" THEN Guards(k) \cup (IF calls[k].native THEN Own(k) ELSE {})
                          ELSE Own(k)

\* Call k mounted entry i.
EntryOf(i, k) ==
    /\ stack[i].path = calls[k].path
    /\ Lists(stack[i].mws, Carried(k))
    /\ IF calls[k].op = "Handle"
       THEN stack[i].kind = "route"
            /\ stack[i].handler = IF calls[k].native THEN "native" ELSE "wrapped"
       ELSE framework = "fiber" /\ stack[i].kind = "use"

\* from gives the call that mounted each entry, 0 for those of the constructor and for
\* GraphQL.
Mounts(from) ==
    /\ \A i, j \in 1..Len(stack) :
          i < j /\ from[i] # 0 /\ from[j] # 0 => from[i] < from[j]
    /\ \A i \in 1..Len(stack) :
          IF from[i] = 0
          THEN stack[i].handler \notin {"wrapped", "native"} /\ Passing(stack[i].mws) = {}
          ELSE EntryOf(i, from[i])
    /\ \A k \in 1..Len(calls) :
          calls[k].op = "Handle" \/ (framework = "fiber" /\ calls[k].with)
              => \E i \in 1..Len(stack) : from[i] = k

\* Entries stand in the order of the calls that mounted them, and no call is missing.
StackInv == \E from \in [1..Len(stack) -> 0..Len(calls)] : Mounts(from)

\* There are no requests while modules mount.
FreshInv == serve = "mount" => last = NoRequest

\* The inductive invariant of groups, on top of IInv.
GroupInv == RouterInv /\ CallInv /\ EchoInv /\ StackInv /\ FreshInv /\ GuardedByGroups

-----------------------------------------------------------------------------
(* The lines of routers *)

\* f gives the first k routers with those they were made from.
Lines(f, rs, k) ==
    \A r \in 0..k : f[r] = IF r = 0 THEN {} ELSE {r} \cup f[rs[r].parent]

\* There is such a function.
LEMMA LinesExist ==
    ASSUME NEW rs, Len(rs) \in Nat, \A r \in 1..Len(rs) : rs[r].parent \in 0..(r - 1)
    PROVE  \E f \in [0..Len(rs) -> SUBSET Nat] : Lines(f, rs, Len(rs))
PROOF
  <1> DEFINE n == Len(rs)
             T == {k \in 0..n : \E f \in [0..k -> SUBSET Nat] : Lines(f, rs, k)}
  <1>1. 0 \in T
      <2> DEFINE f == [r \in 0..0 |-> {}]
      <2>1. f \in [0..0 -> SUBSET Nat] /\ Lines(f, rs, 0)
          BY DEF Lines
      <2> HIDE DEF f
      <2>2. \E g \in [0..0 -> SUBSET Nat] : Lines(g, rs, 0)
          BY <2>1
      <2> QED BY <2>2
  <1>2. ASSUME NEW k \in 0..(n - 1), k \in T
        PROVE  k + 1 \in T
      <2>1. PICK f \in [0..k -> SUBSET Nat] : Lines(f, rs, k)
          BY <1>2
      <2> DEFINE g == [r \in 0..(k + 1) |->
                          IF r = k + 1 THEN {r} \cup f[rs[r].parent] ELSE f[r]]
      <2>2. k + 1 \in 1..n /\ k + 1 \in 0..n /\ rs[k + 1].parent \in 0..k
          BY <1>2
      <2>3. g \in [0..(k + 1) -> SUBSET Nat]
          <3> SUFFICES ASSUME NEW r \in 0..(k + 1)
                       PROVE  (IF r = k + 1 THEN {r} \cup f[rs[r].parent] ELSE f[r]) \in SUBSET Nat
              OBVIOUS
          <3>1. CASE r = k + 1
              <4>1. f[rs[k + 1].parent] \in SUBSET Nat
                  BY <2>2
              <4> QED BY <4>1, <3>1
          <3>2. CASE r # k + 1
              <4>1. r \in 0..k
                  BY <3>2
              <4> QED BY <4>1, <3>2
          <3> QED BY <3>1, <3>2
      <2>4. \A r \in 0..k : g[r] = f[r]
          OBVIOUS
      <2>5. Lines(g, rs, k + 1)
          <3> SUFFICES ASSUME NEW r \in 0..(k + 1)
                       PROVE  g[r] = IF r = 0 THEN {} ELSE {r} \cup g[rs[r].parent]
              BY DEF Lines
          <3>1. CASE r = k + 1
              <4>1. g[rs[k + 1].parent] = f[rs[k + 1].parent]
                  BY <2>2, <2>4
              <4> QED BY <4>1, <3>1, <2>2
          <3>2. CASE r # k + 1
              <4>1. r \in 0..k
                  BY <3>2
              <4>2. r # 0 => rs[r].parent \in 0..k
                  BY <4>1, <1>2
              <4>3. f[r] = IF r = 0 THEN {} ELSE {r} \cup f[rs[r].parent]
                  BY <4>1, <2>1 DEF Lines
              <4> HIDE DEF g
              <4> QED BY <4>1, <4>2, <4>3, <2>4
          <3> QED BY <3>1, <3>2
      <2> HIDE DEF g
      <2>6. \E h \in [0..(k + 1) -> SUBSET Nat] : Lines(h, rs, k + 1)
          BY <2>3, <2>5
      <2> QED BY <2>2, <2>6
  <1>3. n \in T
      <2> HIDE DEF T
      <2>1. n \in 0..n
          OBVIOUS
      <2> QED BY <1>1, <1>2, <2>1, CountUp
  <1> QED BY <1>3

\* The line of a router is the router and the line of the one it was made from.
LEMMA LineStep ==
    ASSUME NEW rs, Len(rs) \in Nat, \A r \in 1..Len(rs) : rs[r].parent \in 0..(r - 1)
    PROVE  /\ LineOf(rs)[0] = {}
           /\ \A r \in 1..Len(rs) : LineOf(rs)[r] = {r} \cup LineOf(rs)[rs[r].parent]
PROOF
  <1> DEFINE n == Len(rs)
             L == LineOf(rs)
  <1>1. PICK f \in [0..n -> SUBSET Nat] : Lines(f, rs, n)
      BY LinesExist
  <1>2. f = [r \in 0..n |-> IF r = 0 THEN {} ELSE {r} \cup f[rs[r].parent]]
      BY <1>1 DEF Lines
  <1>3. L = [r \in 0..n |-> IF r = 0 THEN {} ELSE {r} \cup L[rs[r].parent]]
      BY <1>2 DEF LineOf
  <1> HIDE DEF L
  <1> QED BY <1>3 DEF L

\* Line gives the lines of the routers there are, before a step and after it.
LEMMA LineIs == Line = LineOf(routers) /\ Line' = LineOf(routers')
PROOF BY DEF Line, LineOf

\* The guards of a call are among those before it.
LEMMA GuardsAre ==
    ASSUME NEW k
    PROVE  /\ Guards(k) = Guarding(calls, routers, calls[k].router, k - 1)
           /\ Guards(k)' = Guarding(calls', routers', calls'[k].router, k - 1)
PROOF BY LineIs DEF Guards, Guarding

\* A line consists of routers up to its own, and of everyone's parent.
LEMMA LineParts ==
    ASSUME NEW rs, Len(rs) \in Nat, \A r \in 1..Len(rs) : rs[r].parent \in 0..(r - 1)
    PROVE  \A r \in 1..Len(rs) :
              /\ LineOf(rs)[r] \subseteq 1..r /\ r \in LineOf(rs)[r]
              /\ \A q \in LineOf(rs)[r] : q # r => \E s \in LineOf(rs)[r] : rs[s].parent = q
PROOF
  <1> DEFINE L == LineOf(rs)
             P(r) == /\ L[r] \subseteq 1..r
                     /\ \A q \in L[r] : q # r => \E s \in L[r] : rs[s].parent = q
             T == {r \in 0..Len(rs) : P(r)}
  <1>1. L[0] = {} /\ \A r \in 1..Len(rs) : L[r] = {r} \cup L[rs[r].parent]
      BY LineStep
  <1> HIDE DEF L
  <1>2. ASSUME NEW k \in 0..Len(rs), (0..(k - 1)) \subseteq T
        PROVE  k \in T
      <2>1. CASE k = 0
          BY <2>1, <1>1
      <2>2. CASE k # 0
          <3> DEFINE p == rs[k].parent
          <3>1. k \in 1..Len(rs) /\ p \in 0..(k - 1) /\ p \in T
              BY <2>2, <1>2
          <3>2. L[k] = {k} \cup L[p]
              BY <3>1, <1>1
          <3>3. L[p] \subseteq 1..p /\ \A q \in L[p] : q # p => \E s \in L[p] : rs[s].parent = q
              BY <3>1
          <3>4. L[k] \subseteq 1..k
              BY <3>1, <3>2, <3>3
          <3>5. ASSUME NEW q \in L[k], q # k
                PROVE  \E s \in L[k] : rs[s].parent = q
              <4>1. q \in L[p]
                  BY <3>2, <3>5
              <4>2. CASE q = p
                  <5>1. k \in L[k]
                      BY <3>2
                  <5> QED BY <5>1, <4>2
              <4>3. CASE q # p
                  BY <4>1, <4>3, <3>3, <3>2
              <4> QED BY <4>2, <4>3
          <3> QED BY <3>4, <3>5
      <2> QED BY <2>1, <2>2
  <1>3. \A r \in 0..Len(rs) : r \in T
      <2> HIDE DEF T
      <2> QED BY <1>2, BelowUp
  <1>4. \A r \in 1..Len(rs) : r \in L[r]
      BY <1>1
  <1> QED BY <1>3, <1>4 DEF L

\* It does not change when later routers are made.
LEMMA LineSame ==
    ASSUME NEW rs, Len(rs) \in Nat, \A r \in 1..Len(rs) : rs[r].parent \in 0..(r - 1),
           NEW rt, Len(rt) \in Nat, \A r \in 1..Len(rt) : rt[r].parent \in 0..(r - 1),
           Len(rs) <= Len(rt), \A r \in 1..Len(rs) : rs[r].parent = rt[r].parent
    PROVE  \A r \in 1..Len(rs) : LineOf(rs)[r] = LineOf(rt)[r]
PROOF
  <1> DEFINE L == LineOf(rs)
             M == LineOf(rt)
             T == {r \in 0..Len(rs) : L[r] = M[r]}
  <1>1. L[0] = {} /\ \A r \in 1..Len(rs) : L[r] = {r} \cup L[rs[r].parent]
      BY LineStep
  <1>2. M[0] = {} /\ \A r \in 1..Len(rt) : M[r] = {r} \cup M[rt[r].parent]
      BY LineStep
  <1> HIDE DEF L, M
  <1>3. ASSUME NEW k \in 0..Len(rs), (0..(k - 1)) \subseteq T
        PROVE  k \in T
      <2>1. CASE k = 0
          BY <2>1, <1>1, <1>2
      <2>2. CASE k # 0
          <3>1. k \in 1..Len(rs) /\ k \in 1..Len(rt) /\ rs[k].parent \in 0..(k - 1)
                /\ rs[k].parent = rt[k].parent
              BY <2>2, <1>3
          <3>2. L[rs[k].parent] = M[rs[k].parent]
              BY <3>1, <1>3
          <3>3. L[k] = {k} \cup L[rs[k].parent] /\ M[k] = {k} \cup M[rt[k].parent]
              BY <3>1, <1>1, <1>2
          <3>4. L[k] = M[k]
              BY <3>1, <3>2, <3>3
          <3> QED BY <3>1, <3>4
      <2> QED BY <2>1, <2>2
  <1>4. \A r \in 0..Len(rs) : r \in T
      <2> HIDE DEF T
      <2> QED BY <1>3, BelowUp
  <1> QED BY <1>4 DEF L, M

\* A prefix of a prefix is a prefix.
LEMMA PrefixChain ==
    ASSUME NEW s \in AnyPath, NEW t \in AnyPath, NEW u \in AnyPath,
           IsPrefix(s, t), IsPrefix(t, u)
    PROVE  IsPrefix(s, u)
PROOF
  <1> USE DEF AnyPath
  <1>1. Len(s) \in Nat /\ Len(t) \in Nat /\ Len(u) \in Nat
      OBVIOUS
  <1>2. /\ Len(s) <= Len(t) /\ SubSeq(s, 1, Len(s)) = SubSeq(t, 1, Len(s))
        /\ Len(t) <= Len(u) /\ SubSeq(t, 1, Len(t)) = SubSeq(u, 1, Len(t))
      BY DEF IsPrefix
  <1>3. \A i \in 1..Len(t) : t[i] = u[i]
      <2>1. \A i \in 1..Len(t) : SubSeq(t, 1, Len(t))[i] = t[i] /\ SubSeq(u, 1, Len(t))[i] = u[i]
          BY <1>1, <1>2
      <2> QED BY <2>1, <1>2
  <1>4. SubSeq(t, 1, Len(s)) = SubSeq(u, 1, Len(s))
      BY <1>1, <1>2, <1>3
  <1> QED BY <1>1, <1>2, <1>4 DEF IsPrefix

\* The path of a router begins with those of the routers of its line.
LEMMA LinePrefix ==
    ASSUME NEW rs, Len(rs) \in Nat,
           \A r \in 1..Len(rs) :
              /\ rs[r].parent \in 0..(r - 1) /\ rs[r].prefix \in AnyPath
              /\ rs[r].parent # 0 => IsPrefix(rs[rs[r].parent].prefix, rs[r].prefix)
    PROVE  \A r \in 1..Len(rs) : \A q \in LineOf(rs)[r] : IsPrefix(rs[q].prefix, rs[r].prefix)
PROOF
  <1> DEFINE L == LineOf(rs)
             P(r) == \A q \in L[r] : IsPrefix(rs[q].prefix, rs[r].prefix)
             T == {r \in 0..Len(rs) : P(r)}
  <1>1. L[0] = {} /\ \A r \in 1..Len(rs) : L[r] = {r} \cup L[rs[r].parent]
      BY LineStep
  <1>2. \A r \in 1..Len(rs) : L[r] \subseteq 1..r
      BY LineParts
  <1> HIDE DEF L
  <1>3. ASSUME NEW k \in 0..Len(rs), (0..(k - 1)) \subseteq T
        PROVE  k \in T
      <2>1. CASE k = 0
          BY <2>1, <1>1
      <2>2. CASE k # 0
          <3> DEFINE p == rs[k].parent
          <3>1. k \in 1..Len(rs) /\ p \in 0..(k - 1) /\ p \in T
              BY <2>2, <1>3
          <3>2. L[k] = {k} \cup L[p] /\ rs[k].prefix \in AnyPath
              BY <3>1, <1>1
          <3>3. ASSUME NEW q \in L[k]
                PROVE  IsPrefix(rs[q].prefix, rs[k].prefix)
              <4>1. CASE q = k
                  BY <4>1, <3>2, PrefixGrows
              <4>2. CASE q # k
                  <5>1. q \in L[p]
                      BY <3>2, <3>3, <4>2
                  <5>2. p # 0
                      BY <5>1, <1>1
                  <5>3. p \in 1..Len(rs) /\ q \in 1..Len(rs)
                      BY <5>1, <5>2, <3>1, <1>2
                  <5>4. rs[p].prefix \in AnyPath /\ rs[q].prefix \in AnyPath
                      BY <5>3
                  <5>5. IsPrefix(rs[q].prefix, rs[p].prefix) /\ IsPrefix(rs[p].prefix, rs[k].prefix)
                      BY <5>1, <5>2, <3>1
                  <5> QED BY <5>4, <5>5, <3>2, PrefixChain
              <4> QED BY <4>1, <4>2
          <3> QED BY <3>3
      <2> QED BY <2>1, <2>2
  <1>4. \A r \in 0..Len(rs) : r \in T
      <2> HIDE DEF T
      <2> QED BY <1>3, BelowUp
  <1> QED BY <1>4 DEF L

-----------------------------------------------------------------------------
(* What guards a router *)

\* rt are the routers of rs and perhaps later ones, each made from an earlier one.
RoutersGrow(rs, rt) ==
    /\ Len(rs) \in Nat /\ Len(rt) \in Nat /\ Len(rs) <= Len(rt)
    /\ \A r \in 1..Len(rs) : rs[r].parent \in 0..(r - 1)
    /\ \A r \in 1..Len(rt) : rt[r].parent \in 0..(r - 1)
    /\ \A r \in 1..Len(rs) : rt[r].parent = rs[r].parent /\ rt[r].born = rs[r].born

\* The first m calls are the same.
SameCalls(cs, ct, m) == \A j \in 1..m : ct[j] = cs[j]

\* Later routers and later calls change nothing about the guards of a router so far.
LEMMA GuardingSame ==
    ASSUME NEW rs, NEW rt, RoutersGrow(rs, rt), NEW cs, NEW ct, NEW m \in Nat,
           SameCalls(cs, ct, m), NEW r \in 1..Len(rs)
    PROVE  Guarding(ct, rt, r, m) = Guarding(cs, rs, r, m)
PROOF
  <1>1. LineOf(rs)[r] = LineOf(rt)[r]
      BY LineSame DEF RoutersGrow
  <1>2. LineOf(rs)[r] \subseteq 1..Len(rs)
      <2>1. LineOf(rs)[r] \subseteq 1..r
          BY LineParts DEF RoutersGrow
      <2> QED BY <2>1 DEF RoutersGrow
  <1>3. \A s \in LineOf(rs)[r] : rt[s].parent = rs[s].parent /\ rt[s].born = rs[s].born
      BY <1>2 DEF RoutersGrow
  <1> DEFINE L == LineOf(rs)[r]
  <1> HIDE DEF L
  <1>4. ASSUME NEW j \in 1..m
        PROVE  j \in Guarding(ct, rt, r, m) <=> j \in Guarding(cs, rs, r, m)
      <2>1. ct[j] = cs[j]
          BY DEF SameCalls
      <2>2. L = LineOf(rs)[r] /\ L = LineOf(rt)[r]
          BY <1>1 DEF L
      <2>3. \A s \in L : rt[s].parent = rs[s].parent /\ rt[s].born = rs[s].born
          BY <1>3 DEF L
      <2> QED BY <2>1, <2>2, <2>3 DEF Guarding
  <1> QED BY <1>4 DEF Guarding

\* One more call may be one more guard.
LEMMA GuardingNext ==
    ASSUME NEW cs, NEW rs, NEW r, NEW m \in Nat
    PROVE  Guarding(cs, rs, r, m + 1)
              = Guarding(cs, rs, r, m)
                  \cup (IF m + 1 \in Guarding(cs, rs, r, m + 1) THEN {m + 1} ELSE {})
PROOF
  <1>1. \A j \in 1..(m + 1) : j \in 1..m \/ j = m + 1
      OBVIOUS
  <1>2. \A j \in 1..m : j \in 1..(m + 1)
      OBVIOUS
  <1>3. \A j \in 1..m : j \in Guarding(cs, rs, r, m + 1) <=> j \in Guarding(cs, rs, r, m)
      BY <1>2 DEF Guarding
  <1>4. Guarding(cs, rs, r, m + 1) \subseteq 1..(m + 1) /\ Guarding(cs, rs, r, m) \subseteq 1..m
      BY DEF Guarding
  <1> QED BY <1>1, <1>3, <1>4

\* Every router was made from an earlier one by one of the first b calls, or is the root.
MadeBy(rs, b) ==
    \A r \in 1..Len(rs) : rs[r].parent \in 0..(r - 1) /\ rs[r].born \in 0..b

\* The first m calls were made on, and made, some of the first n routers.
CallsOn(cs, m, n) ==
    \A j \in 1..m : /\ cs[j].router \in 1..n
                    /\ cs[j].op = "Group" => cs[j].made \in 1..n

\* A call of Use guards its own router, and nothing that was made from it before.
LEMMA UseGuards ==
    ASSUME NEW rs, Len(rs) \in Nat, NEW m \in Nat, MadeBy(rs, m),
           NEW cs, cs[m + 1].op = "Use", cs[m + 1].with, NEW r \in 1..Len(rs)
    PROVE  m + 1 \in Guarding(cs, rs, r, m + 1) <=> r = cs[m + 1].router
PROOF
  <1> USE DEF MadeBy
  <1> DEFINE L == LineOf(rs)[r]
             q == cs[m + 1].router
  <1>1. L \subseteq 1..r /\ r \in L /\ \A x \in L : x # r => \E s \in L : rs[s].parent = x
      BY LineParts
  <1>2. \A s \in L : s \in 1..Len(rs) /\ rs[s].parent \in 0..(s - 1) /\ rs[s].born <= m /\ s <= r
      <2> HIDE DEF L
      <2> SUFFICES ASSUME NEW s \in L
                   PROVE  s \in 1..Len(rs) /\ rs[s].parent \in 0..(s - 1) /\ rs[s].born <= m
                          /\ s <= r
          OBVIOUS
      <2>1. s \in 1..Len(rs) /\ s <= r
          BY <1>1
      <2>2. rs[s].parent \in 0..(s - 1) /\ rs[s].born \in 0..m
          BY <2>1
      <2> QED BY <2>1, <2>2
  <1>3. m + 1 \in Guarding(cs, rs, r, m + 1)
          <=> q \in L /\ \A s \in L : rs[s].parent = q => m + 1 < rs[s].born
      BY DEF Guarding
  <1> HIDE DEF L, q
  <1>4. ASSUME q = r
        PROVE  q \in L /\ \A s \in L : rs[s].parent # q
      BY <1>1, <1>2, <1>4
  <1>5. ASSUME q \in L, \A s \in L : rs[s].parent = q => m + 1 < rs[s].born
        PROVE  q = r
      <2>1. SUFFICES ASSUME q # r PROVE FALSE
          OBVIOUS
      <2>2. PICK s \in L : rs[s].parent = q
          BY <2>1, <1>1, <1>5
      <2>3. m + 1 < rs[s].born /\ rs[s].born <= m /\ s \in 1..Len(rs)
          BY <2>2, <1>2, <1>5
      <2>4. rs[s].born \in Nat
          BY <2>3
      <2> QED BY <2>3, <2>4
  <1> QED BY <1>3, <1>4, <1>5 DEF q

\* No other call guards a router that was there before it.
LEMMA OthersGuardLater ==
    ASSUME NEW rs, Len(rs) \in Nat, NEW m \in Nat,
           \A r \in 1..Len(rs) : rs[r].parent \in 0..(r - 1),
           NEW cs, cs[m + 1].op # "Use", NEW r \in 1..Len(rs),
           cs[m + 1].op = "Group" => cs[m + 1].made > r /\ cs[m + 1].made \in Nat
    PROVE  m + 1 \notin Guarding(cs, rs, r, m + 1)
PROOF
  <1>1. LineOf(rs)[r] \subseteq 1..r
      BY LineParts
  <1>2. cs[m + 1].op = "Group" => cs[m + 1].made \notin LineOf(rs)[r]
      BY <1>1
  <1> QED BY <1>2 DEF Guarding

\* A new router is guarded by what guards the one it is made from, and by the call that
\* makes it.
LEMMA GroupGuards ==
    ASSUME NEW rs, NEW n \in Nat, Len(rs) = n + 1, NEW m \in Nat, MadeBy(rs, m + 1),
           rs[n + 1].born = m + 1, rs[n + 1].parent \in 1..n, NEW cs, CallsOn(cs, m, n),
           cs[m + 1].op = "Group", cs[m + 1].made = n + 1
    PROVE  Guarding(cs, rs, n + 1, m + 1)
              = Guarding(cs, rs, rs[n + 1].parent, m) \cup (IF cs[m + 1].with THEN {m + 1} ELSE {})
PROOF
  <1> USE DEF MadeBy, CallsOn
  <1> DEFINE p == rs[n + 1].parent
             L == LineOf(rs)[n + 1]
             M == LineOf(rs)[p]
  <1>1. L = {n + 1} \cup M
      <2>1. n + 1 \in 1..Len(rs) /\ Len(rs) \in Nat
          OBVIOUS
      <2>2. \A r \in 1..Len(rs) : LineOf(rs)[r] = {r} \cup LineOf(rs)[rs[r].parent]
          BY <2>1, LineStep
      <2> QED BY <2>1, <2>2
  <1>2. m + 1 \in Guarding(cs, rs, n + 1, m + 1) <=> cs[m + 1].with
      BY <1>1 DEF Guarding
  <1>3. ASSUME NEW j \in 1..m
        PROVE  j \in Guarding(cs, rs, n + 1, m) <=> j \in Guarding(cs, rs, p, m)
      <2>1. cs[j].router # n + 1 /\ (cs[j].op = "Group" => cs[j].made # n + 1)
          <3>1. n + 1 \notin 1..n
              OBVIOUS
          <3> QED BY <3>1
      <2>2. j < rs[n + 1].born
          OBVIOUS
      <2> DEFINE All(S) == \A s \in S : rs[s].parent = cs[j].router => j < rs[s].born
      <2>3. /\ j \in Guarding(cs, rs, n + 1, m) <=>
                  /\ cs[j].with
                  /\ \/ cs[j].op = "Group" /\ cs[j].made \in L
                     \/ cs[j].op = "Use" /\ cs[j].router \in L /\ All(L)
            /\ j \in Guarding(cs, rs, p, m) <=>
                  /\ cs[j].with
                  /\ \/ cs[j].op = "Group" /\ cs[j].made \in M
                     \/ cs[j].op = "Use" /\ cs[j].router \in M /\ All(M)
          BY DEF Guarding
      <2> HIDE DEF L, M
      <2>4. All(L) <=> All(M)
          BY <2>2, <1>1
      <2> HIDE DEF All
      <2> QED BY <2>1, <2>3, <2>4, <1>1
  <1>4. Guarding(cs, rs, n + 1, m) = Guarding(cs, rs, p, m)
      BY <1>3 DEF Guarding
  <1>5. Guarding(cs, rs, n + 1, m + 1)
          = Guarding(cs, rs, n + 1, m)
              \cup (IF m + 1 \in Guarding(cs, rs, n + 1, m + 1) THEN {m + 1} ELSE {})
      BY GuardingNext
  <1> QED BY <1>2, <1>4, <1>5

-----------------------------------------------------------------------------
(* Lists of middlewares *)

\* What two sequences of middlewares list, joined they list too, if what the first lists
\* comes before what the second does.
LEMMA ListsJoin ==
    ASSUME NEW s \in Seq(Middlewares), NEW t \in Seq(Middlewares), NEW A, NEW B,
           Lists(s, A), Lists(t, B), \A a \in A, b \in B : a < b
    PROVE  s \o t \in Seq(Middlewares) /\ Lists(s \o t, A \cup B)
PROOF
  <1> DEFINE u == s \o t
             n == Len(s)
             m == Len(t)
  <1>1. u \in Seq(Middlewares) /\ Len(u) = n + m /\ n \in Nat /\ m \in Nat
        /\ \A i \in 1..(n + m) : u[i] = IF i <= n THEN s[i] ELSE t[i - n]
      BY ConcatProperties
  <1>2. Passing(s) = A /\ Passing(t) = B /\ InOrder(s) /\ InOrder(t)
      BY DEF Lists
  <1> HIDE DEF u
  <1>3. \A i \in 1..n : i \in 1..(n + m) /\ u[i] = s[i]
      BY <1>1
  <1>4. \A i \in 1..m : i + n \in 1..(n + m) /\ u[i + n] = t[i]
      <2> SUFFICES ASSUME NEW i \in 1..m PROVE i + n \in 1..(n + m) /\ u[i + n] = t[i]
          OBVIOUS
      <2>1. i + n \in 1..(n + m) /\ ~ (i + n <= n) /\ (i + n) - n = i
          BY <1>1
      <2> QED BY <2>1, <1>1
  <1>5. ASSUME NEW i \in 1..(n + m)
        PROVE  i \in 1..n \/ \E j \in 1..m : i = j + n
      <2>1. CASE i <= n
          BY <2>1, <1>1
      <2>2. CASE ~ (i <= n)
          <3>1. i - n \in 1..m /\ i = (i - n) + n
              BY <2>2, <1>1
          <3> QED BY <3>1
      <2> QED BY <2>1, <2>2
  <1> HIDE DEF n, m
  <1>6. A = {s[i][2] : i \in 1..n} \ {0} /\ B = {t[i][2] : i \in 1..m} \ {0}
        /\ Passing(u) = {u[i][2] : i \in 1..(n + m)} \ {0}
      BY <1>1, <1>2 DEF Passing, n, m
  <1>7. Passing(u) = A \cup B
      <2>1. ASSUME NEW x \in Passing(u) PROVE x \in A \cup B
          <3>1. PICK i \in 1..(n + m) : x = u[i][2] /\ x # 0
              BY <1>6
          <3>2. CASE i \in 1..n
              BY <3>1, <3>2, <1>3, <1>6
          <3>3. CASE i \notin 1..n
              <4>1. PICK j \in 1..m : i = j + n
                  BY <3>3, <1>5
              <4>2. x = t[j][2] /\ x # 0
                  BY <3>1, <4>1, <1>4
              <4> QED BY <4>2, <1>6
          <3> QED BY <3>2, <3>3
      <2>2. ASSUME NEW x \in A PROVE x \in Passing(u)
          BY <1>3, <1>6
      <2>3. ASSUME NEW x \in B PROVE x \in Passing(u)
          BY <1>4, <1>6
      <2> QED BY <2>1, <2>2, <2>3
  <1>8. ASSUME NEW a \in 1..(n + m), NEW b \in 1..(n + m), a < b, u[a][2] # 0, u[b][2] # 0
        PROVE  u[a][2] < u[b][2]
      <2>1. CASE a \in 1..n /\ b \in 1..n
          <3>1. \A x, y \in 1..n : x < y /\ s[x][2] # 0 /\ s[y][2] # 0 => s[x][2] < s[y][2]
              BY <1>2 DEF InOrder, n
          <3> QED BY <2>1, <3>1, <1>3, <1>8
      <2>2. CASE a \in 1..n /\ b \notin 1..n
          <3>1. PICK j \in 1..m : b = j + n
              BY <2>2, <1>5
          <3>2. u[a][2] \in A /\ u[b][2] \in B
              BY <2>2, <3>1, <1>3, <1>4, <1>6, <1>8
          <3> QED BY <3>2
      <2>3. CASE a \notin 1..n
          <3>1. PICK j \in 1..m : a = j + n
              BY <2>3, <1>5
          <3>2. b \notin 1..n
              BY <2>3, <1>1, <1>8
          <3>3. PICK k \in 1..m : b = k + n
              BY <3>2, <1>5
          <3>4. j < k
              BY <3>1, <3>3, <1>1, <1>8
          <3>5. \A x, y \in 1..m : x < y /\ t[x][2] # 0 /\ t[y][2] # 0 => t[x][2] < t[y][2]
              BY <1>2 DEF InOrder, m
          <3> QED BY <3>1, <3>3, <3>4, <3>5, <1>4, <1>8
      <2> QED BY <2>1, <2>2, <2>3
  <1>9. InOrder(u)
      BY <1>1, <1>8 DEF InOrder
  <1> QED BY <1>1, <1>7, <1>9 DEF u, Lists

\* No middleware lists no call, nor do those an application gives.
LEMMA ListsNone ==
    Lists(<<>>, {}) /\ \A s \in Seq(RootMiddlewares) : Lists(s, {})
PROOF
  <1>1. ASSUME NEW s \in Seq(RootMiddlewares)
        PROVE  Lists(s, {})
      <2>1. \A i \in 1..Len(s) : s[i][2] = 0
          BY DEF RootMiddlewares
      <2> QED BY <2>1 DEF Lists, Passing, InOrder
  <1>2. <<>> \in Seq(RootMiddlewares)
      OBVIOUS
  <1> QED BY <1>1, <1>2

\* A call that gives a middleware lists itself.
LEMMA ListsGiven ==
    ASSUME NEW with \in BOOLEAN, Len(calls) \in Nat
    PROVE  Lists(Given(with), IF with THEN {Len(calls) + 1} ELSE {})
PROOF
  <1>1. CASE with
      <2> DEFINE n == Len(calls) + 1
                 s == <<<<"module", n>>>>
      <2>1. Given(with) = s /\ n # 0
          BY <1>1 DEF Given
      <2>2. Len(s) = 1 /\ s[1][2] = n
          OBVIOUS
      <2> HIDE DEF s
      <2>3. Passing(s) = {n}
          BY <2>1, <2>2 DEF Passing
      <2>4. InOrder(s)
          BY <2>2 DEF InOrder
      <2> QED BY <1>1, <2>1, <2>3, <2>4 DEF Lists
  <1>2. CASE ~ with
      BY <1>2, ListsNone DEF Given
  <1> QED BY <1>1, <1>2

-----------------------------------------------------------------------------
(* A call of a module *)

\* What a step keeps that adds calls or routers.
Kept ==
    /\ framework' = framework
    /\ calls \in Seq(Calls) /\ calls' \in Seq(Calls) /\ Len(calls) <= Len(calls')
    /\ \A k \in 1..Len(calls) : calls'[k] = calls[k]
    /\ RoutersGrow(routers, routers')
    /\ \A r \in 1..Len(routers) : routers'[r].prefix = routers[r].prefix

\* What was mounted stays as it should be.
LEMMA EntryKept ==
    ASSUME Kept, CallInv, NEW k \in 1..Len(calls), NEW i, EntryOf(i, k), stack'[i] = stack[i]
    PROVE  EntryOf(i, k)'
PROOF
  <1>1. calls'[k] = calls[k] /\ framework' = framework
      BY DEF Kept
  <1>2. calls[k].router \in 1..Len(routers)
      BY DEF CallInv
  <1>3. Guarding(calls', routers', calls[k].router, k - 1)
          = Guarding(calls, routers, calls[k].router, k - 1)
      <2>1. Len(calls) \in Nat
          BY DEF Kept
      <2>2. k - 1 \in Nat /\ \A j \in 1..(k - 1) : j \in 1..Len(calls)
          BY <2>1
      <2>3. \A j \in 1..(k - 1) : calls'[j] = calls[j]
          BY <2>2 DEF Kept
      <2>4. RoutersGrow(routers, routers')
          BY DEF Kept
      <2> DEFINE m == k - 1
                 r == calls[k].router
                 cs == calls
                 ct == calls'
                 rs == routers
                 rt == routers'
      <2>5. m \in Nat /\ r \in 1..Len(rs) /\ RoutersGrow(rs, rt) /\ SameCalls(cs, ct, m)
          BY <1>2, <2>2, <2>3, <2>4 DEF SameCalls
      <2> HIDE DEF m, r, cs, ct, rs, rt
      <2>6. Guarding(ct, rt, r, m) = Guarding(cs, rs, r, m)
          BY <2>5, GuardingSame
      <2> QED BY <2>6 DEF m, r, cs, ct, rs, rt
  <1>4. Guards(k)' = Guards(k)
      BY <1>1, <1>3, GuardsAre
  <1>5. Own(k)' = Own(k)
      BY <1>1 DEF Own
  <1>6. Carried(k)' = Carried(k)
      BY <1>1, <1>4, <1>5 DEF Carried
  <1>7. Lists(stack[i].mws, Carried(k)) <=> Lists(stack'[i].mws, Carried(k)')
      BY <1>6
  <1> QED BY <1>1, <1>7 DEF EntryOf, Lists

\* A call that mounts nothing, and need not, leaves the stack as it should be.
LEMMA StackStays ==
    ASSUME Kept, CallInv, StackInv, stack' = stack,
           \A k \in 1..Len(calls') :
              calls'[k].op = "Handle" \/ (framework = "fiber" /\ calls'[k].with)
                  => k \in 1..Len(calls)
    PROVE  StackInv'
PROOF
  <1>1. PICK from \in [1..Len(stack) -> 0..Len(calls)] : Mounts(from)
      BY DEF StackInv
  <1>2. from \in [1..Len(stack') -> 0..Len(calls')]
      BY DEF Kept
  <1>3. framework' = framework /\ \A k \in 1..Len(calls) : calls'[k] = calls[k]
      BY DEF Kept
  <1>4. ASSUME NEW i \in 1..Len(stack'), from[i] # 0
        PROVE  EntryOf(i, from[i])'
      <2>1. i \in 1..Len(stack) /\ from[i] \in 1..Len(calls) /\ stack'[i] = stack[i]
          <3>1. from[i] \in 0..Len(calls) /\ Len(calls) \in Nat
              BY DEF Kept
          <3> QED BY <3>1, <1>4
      <2>2. EntryOf(i, from[i])
          BY <2>1, <1>1, <1>4 DEF Mounts
      <2> DEFINE k == from[i]
      <2> HIDE DEF k
      <2>3. k \in 1..Len(calls) /\ EntryOf(i, k)
          BY <2>1, <2>2 DEF k
      <2>4. EntryOf(i, k)'
          BY <2>1, <2>3, EntryKept
      <2> QED BY <2>4 DEF k
  <1>5. Mounts(from)'
      <2>1. \A k \in 1..Len(calls') :
              calls'[k].op = "Handle" \/ (framework' = "fiber" /\ calls'[k].with)
                  => \E i \in 1..Len(stack') : from[i] = k
          BY <1>1, <1>3 DEF Mounts
      <2>2. \A i \in 1..Len(stack') :
               from[i] = 0 => stack'[i].handler \notin {"wrapped", "native"}
                              /\ Passing(stack'[i].mws) = {}
          BY <1>1 DEF Mounts
      <2>3. \A i, j \in 1..Len(stack') :
               i < j /\ from[i] # 0 /\ from[j] # 0 => from[i] < from[j]
          BY <1>1 DEF Mounts
      <2> QED BY <1>4, <2>1, <2>2, <2>3 DEF Mounts, Passing
  <1> QED BY <1>2, <1>5 DEF StackInv

\* What is mounted after the rest, by a new call or by the server itself, leaves the stack
\* as it should be.
LEMMA StackMore ==
    ASSUME Kept, CallInv, StackInv, stack \in Seq(Entries), NEW e, stack' = Append(stack, e),
           NEW new \in 0..Len(calls'), new \notin 1..Len(calls),
           new = 0 => e.handler \notin {"wrapped", "native"} /\ Passing(e.mws) = {},
           new # 0 => EntryOf(Len(stack), new)',
           \A k \in 1..Len(calls') :
              calls'[k].op = "Handle" \/ (framework = "fiber" /\ calls'[k].with)
                  => k \in 1..Len(calls) \/ k = new
    PROVE  StackInv'
PROOF
  <1> DEFINE n == Len(stack)
  <1>1. PICK from \in [1..n -> 0..Len(calls)] : Mounts(from)
      BY DEF StackInv
  <1>2. n \in Nat /\ Len(stack') = n + 1 /\ stack'[n + 1] = e
        /\ \A i \in 1..n : stack'[i] = stack[i]
      OBVIOUS
  <1>3. framework' = framework /\ (\A k \in 1..Len(calls) : calls'[k] = calls[k])
        /\ Len(calls) \in Nat /\ Len(calls') \in Nat /\ Len(calls) <= Len(calls')
      BY DEF Kept
  <1> HIDE DEF n
  <1>3a. PICK to : to = [i \in 1..(n + 1) |-> IF i = n + 1 THEN new ELSE from[i]]
      OBVIOUS
  <1>4. to[n + 1] = new /\ \A i \in 1..n : to[i] = from[i] /\ from[i] \in 0..Len(calls)
      BY <1>2, <1>3a
  <1>5. to \in [1..Len(stack') -> 0..Len(calls')]
      <2>1. ASSUME NEW i \in 1..(n + 1)
            PROVE  (IF i = n + 1 THEN new ELSE from[i]) \in 0..Len(calls')
          <3>1. CASE i = n + 1
              BY <3>1
          <3>2. CASE i # n + 1
              <4>1. i \in 1..n
                  BY <3>2, <1>2
              <4>2. from[i] \in 0..Len(calls)
                  BY <4>1
              <4> QED BY <4>2, <3>2, <1>3
          <3> QED BY <3>1, <3>2
      <2> QED BY <2>1, <1>2, <1>3a
  <1>6. \A i \in 1..(n + 1) : i \in 1..n \/ i = n + 1
      BY <1>2
  <1>7. ASSUME NEW i \in 1..Len(stack'), to[i] # 0
        PROVE  EntryOf(i, to[i])'
      <2>1. CASE i = n + 1
          <3>1. i = Len(stack') /\ to[i] = new /\ new # 0
              BY <2>1, <1>2, <1>4, <1>7
          <3>2. EntryOf(Len(stack), new)'
              BY <3>1
          <3> QED BY <3>1, <3>2 DEF EntryOf
      <2>2. CASE i # n + 1
          <3>1. i \in 1..n /\ to[i] = from[i] /\ from[i] \in 1..Len(calls) /\ stack'[i] = stack[i]
              <4>1. i \in 1..n
                  BY <2>2, <1>2, <1>6
              <4>2. to[i] = from[i] /\ from[i] \in 0..Len(calls) /\ stack'[i] = stack[i]
                  BY <4>1, <1>2, <1>4
              <4> QED BY <4>1, <4>2, <1>3, <1>7
          <3>2. EntryOf(i, from[i])
              BY <3>1, <1>1, <1>3 DEF Mounts, n
          <3> DEFINE k == from[i]
          <3>3. k \in 1..Len(calls) /\ EntryOf(i, k)
              BY <3>1, <3>2
          <3> HIDE DEF k
          <3>4. EntryOf(i, k)'
              BY <3>1, <3>3, EntryKept
          <3> QED BY <3>1, <3>4 DEF k
      <2> QED BY <2>1, <2>2
  <1>8. ASSUME NEW i \in 1..Len(stack'), to[i] = 0
        PROVE  stack'[i].handler \notin {"wrapped", "native"} /\ Passing(stack'[i].mws) = {}
      <2>1. CASE i = n + 1
          BY <2>1, <1>2, <1>4, <1>8
      <2>2. CASE i # n + 1
          <3>1. i \in 1..n /\ from[i] = 0 /\ stack'[i] = stack[i]
              BY <2>2, <1>2, <1>4, <1>6, <1>8
          <3>2. stack[i].handler \notin {"wrapped", "native"} /\ Passing(stack[i].mws) = {}
              BY <3>1, <1>1 DEF Mounts, n
          <3> QED BY <3>1, <3>2
      <2> QED BY <2>1, <2>2
  <1>9. ASSUME NEW i \in 1..Len(stack'), NEW j \in 1..Len(stack'), i < j, to[i] # 0, to[j] # 0
        PROVE  to[i] < to[j]
      <2>1. i \in 1..n /\ to[i] = from[i] /\ from[i] \in 0..Len(calls)
          BY <1>2, <1>4, <1>6, <1>9
      <2>2. CASE j = n + 1
          BY <2>1, <2>2, <1>3, <1>4, <1>9
      <2>3. CASE j # n + 1
          <3>1. j \in 1..n /\ to[j] = from[j]
              BY <2>3, <1>2, <1>4, <1>6
          <3> QED BY <2>1, <3>1, <1>1, <1>9 DEF Mounts, n
      <2> QED BY <2>2, <2>3
  <1>10. ASSUME NEW k \in 1..Len(calls'),
                calls'[k].op = "Handle" \/ (framework' = "fiber" /\ calls'[k].with)
         PROVE  \E i \in 1..Len(stack') : to[i] = k
      <2>1. CASE k = new
          <3>1. n + 1 \in 1..Len(stack')
              BY <1>2
          <3> QED BY <2>1, <3>1, <1>4
      <2>2. CASE k # new
          <3>1. k \in 1..Len(calls) /\ calls'[k] = calls[k]
              BY <2>2, <1>3, <1>10
          <3>2. PICK i \in 1..n : from[i] = k
              BY <3>1, <1>1, <1>3, <1>10 DEF Mounts, n
          <3>3. i \in 1..Len(stack')
              BY <1>2
          <3> QED BY <3>2, <3>3, <1>4
      <2> QED BY <2>1, <2>2
  <1>11. Mounts(to)'
      BY <1>7, <1>8, <1>9, <1>10 DEF Mounts, Passing
  <1>12. \E f \in [1..Len(stack') -> 0..Len(calls')] : Mounts(f)'
      BY <1>5, <1>11
  <1> QED BY <1>12 DEF StackInv

\* The routers there were keep where they came from.
OldRouters ==
    \A q \in 1..Len(routers) :
        /\ routers'[q].prefix = routers[q].prefix /\ routers'[q].parent = routers[q].parent
        /\ routers'[q].born = routers[q].born

\* A call of a module comes after the others, and changes nothing about them.
LEMMA CallKept ==
    ASSUME IInv, IInv', RouterInv, RouterInv', OldRouters, Len(routers) <= Len(routers'),
           framework' = framework, NEW op, NEW r, NEW p, NEW with, NEW native,
           Asked(op, r, p, with, native)
    PROVE  /\ Kept /\ Len(calls') = Len(calls) + 1
           /\ calls'[Len(calls) + 1]
                = [op |-> op, router |-> r, path |-> routers[r].prefix \o p, with |-> with,
                   native |-> native, made |-> Len(routers) + 1]
PROOF
  <1> DEFINE c == [op |-> op, router |-> r, path |-> routers[r].prefix \o p, with |-> with,
                   native |-> native, made |-> Len(routers) + 1]
  <1>1. calls \in Seq(Calls) /\ calls' \in Seq(Calls) /\ calls' = Append(calls, c)
        /\ routers \in Seq(Routers) /\ routers' \in Seq(Routers)
      BY DEF IInv, MountInv, Asked
  <1> HIDE DEF c
  <1>2. Len(calls') = Len(calls) + 1 /\ calls'[Len(calls) + 1] = c
        /\ \A k \in 1..Len(calls) : calls'[k] = calls[k]
      BY <1>1
  <1>3. RoutersGrow(routers, routers')
      <2>1. Len(routers) \in Nat /\ Len(routers') \in Nat
          BY <1>1
      <2>2. /\ \A q \in 1..Len(routers) : routers[q].parent \in 0..(q - 1)
            /\ \A q \in 1..Len(routers') : routers'[q].parent \in 0..(q - 1)
          BY DEF RouterInv
      <2> QED BY <2>1, <2>2 DEF RoutersGrow, OldRouters
  <1>4. Len(calls) \in Nat /\ Len(calls) <= Len(calls')
      BY <1>1, <1>2
  <1> QED BY <1>1, <1>2, <1>3, <1>4 DEF Kept, OldRouters, c

\* What a call is about stays so.
LEMMA CallInvKept ==
    ASSUME Kept, CallInv, Len(calls') = Len(calls) + 1,
           LET c == calls'[Len(calls) + 1] IN
           /\ c.router \in 1..Len(routers')
           /\ c.op = "Use" => c.with /\ c.path = routers'[c.router].prefix
           /\ c.op = "Group" => c.made \in 1..Len(routers') /\ c.path = routers'[c.made].prefix
           /\ c.op = "Handle" => IsPrefix(routers'[c.router].prefix, c.path)
    PROVE  CallInv'
PROOF
  <1>1. Len(calls) \in Nat /\ Len(routers) \in Nat /\ Len(routers') \in Nat
        /\ Len(routers) <= Len(routers')
      BY DEF Kept, RoutersGrow
  <1>2. \A q \in 1..Len(routers) : q \in 1..Len(routers') /\ routers'[q].prefix = routers[q].prefix
      BY <1>1 DEF Kept
  <1>3. ASSUME NEW k \in 1..Len(calls')
        PROVE  LET c == calls'[k] IN
               /\ c.router \in 1..Len(routers')
               /\ c.op = "Use" => c.with /\ c.path = routers'[c.router].prefix
               /\ c.op = "Group" =>
                     c.made \in 1..Len(routers') /\ c.path = routers'[c.made].prefix
               /\ c.op = "Handle" => IsPrefix(routers'[c.router].prefix, c.path)
      <2>1. CASE k = Len(calls) + 1
          BY <2>1
      <2>2. CASE k # Len(calls) + 1
          <3>1. k \in 1..Len(calls)
              BY <2>2, <1>1
          <3> DEFINE c == calls[k]
          <3>2. calls'[k] = c
              BY <3>1 DEF Kept
          <3>3. /\ c.router \in 1..Len(routers)
                /\ c.op = "Use" => c.with /\ c.path = routers[c.router].prefix
                /\ c.op = "Group" =>
                      c.made \in 1..Len(routers) /\ c.path = routers[c.made].prefix
                /\ c.op = "Handle" => IsPrefix(routers[c.router].prefix, c.path)
              BY <3>1 DEF CallInv
          <3> HIDE DEF c
          <3>4. /\ c.router \in 1..Len(routers')
                /\ routers'[c.router].prefix = routers[c.router].prefix
                /\ c.op = "Group" => /\ c.made \in 1..Len(routers')
                                     /\ routers'[c.made].prefix = routers[c.made].prefix
              BY <3>3, <1>2
          <3> QED BY <3>2, <3>3, <3>4
      <2> QED BY <2>1, <2>2
  <1> QED BY <1>3 DEF CallInv

\* A router of echo that a call does not guard carries what it did.
LEMMA EchoKept ==
    ASSUME Kept, EchoInv, framework = "echo", NEW r \in 1..Len(routers),
           routers'[r].mws = routers[r].mws,
           Len(calls') = Len(calls) + 1,
           Len(calls) + 1 \notin Guarding(calls', routers', r, Len(calls) + 1)
    PROVE  Lists(routers'[r].mws, Guarding(calls', routers', r, Len(calls')))
PROOF
  <1>1. Len(calls) \in Nat /\ SameCalls(calls, calls', Len(calls)) /\ RoutersGrow(routers, routers')
      BY DEF Kept, SameCalls
  <1>2. Guarding(calls', routers', r, Len(calls)) = Guarding(calls, routers, r, Len(calls))
      BY <1>1, GuardingSame
  <1>3. Guarding(calls', routers', r, Len(calls) + 1) = Guarding(calls', routers', r, Len(calls))
      <2> DEFINE m == Len(calls)
                 cs == calls'
                 rs == routers'
      <2>1. m \in Nat /\ m + 1 \notin Guarding(cs, rs, r, m + 1)
          BY <1>1
      <2> HIDE DEF m, cs, rs
      <2>2. Guarding(cs, rs, r, m + 1) = Guarding(cs, rs, r, m)
                \cup (IF m + 1 \in Guarding(cs, rs, r, m + 1) THEN {m + 1} ELSE {})
          BY <2>1, GuardingNext
      <2>3. Guarding(cs, rs, r, m + 1) = Guarding(cs, rs, r, m)
          BY <2>1, <2>2
      <2> QED BY <2>3 DEF m, cs, rs
  <1>4. Lists(routers[r].mws, Guarding(calls, routers, r, Len(calls)))
      BY DEF EchoInv
  <1> QED BY <1>2, <1>3, <1>4

\* Group makes a router that carries, or stands behind, what guards the one it is made
\* from and what the call gives.
LEMMA GroupGroups ==
    ASSUME IInv, IInv', RouterInv, CallInv, EchoInv, StackInv, NEW r \in 1..Len(routers),
           NEW p \in Patterns, NEW with \in BOOLEAN, Group(r, p, with)
    PROVE  RouterInv' /\ CallInv' /\ EchoInv' /\ StackInv'
PROOF
  <1> DEFINE n == Len(routers)
             m == Len(calls)
             prefix == routers[r].prefix \o p
  <1>1. /\ n \in Nat /\ m \in Nat /\ routers \in Seq(Routers) /\ routers' \in Seq(Routers)
        /\ stack \in Seq(Entries) /\ framework \in {"echo", "fiber"} /\ framework' = framework
        /\ r \in 1..n
      BY DEF IInv, MountInv, TypeOK, Group
  <1>2. /\ n + 1 = Len(routers') /\ \A q \in 1..n : routers'[q] = routers[q]
        /\ routers'[n + 1].prefix = prefix /\ routers'[n + 1].parent = r
        /\ routers'[n + 1].born = m + 1
        /\ framework = "echo" => routers'[n + 1].mws = routers[r].mws \o Given(with)
      <2>1. CASE framework = "echo"
          <3> DEFINE e == [prefix |-> prefix, mws |-> routers[r].mws \o Given(with), parent |-> r,
                           born |-> m + 1]
          <3>1. routers' = Append(routers, e)
              BY <2>1 DEF Group, EchoGroup
          <3>2. e.prefix = prefix /\ e.parent = r /\ e.born = m + 1
                /\ e.mws = routers[r].mws \o Given(with)
              OBVIOUS
          <3> HIDE DEF e
          <3>3. /\ Len(routers') = n + 1 /\ routers'[n + 1] = e
                /\ \A q \in 1..n : routers'[q] = routers[q]
              BY <3>1, <1>1
          <3> QED BY <3>2, <3>3
      <2>2. CASE framework = "fiber"
          <3> DEFINE e == [prefix |-> prefix, mws |-> <<>>, parent |-> r, born |-> m + 1]
          <3>1. routers' = Append(routers, e)
              BY <2>2 DEF Group, FiberGroup
          <3>2. e.prefix = prefix /\ e.parent = r /\ e.born = m + 1
              OBVIOUS
          <3> HIDE DEF e
          <3>3. /\ Len(routers') = n + 1 /\ routers'[n + 1] = e
                /\ \A q \in 1..n : routers'[q] = routers[q]
              BY <3>1, <1>1
          <3> QED BY <3>2, <3>3, <2>2
      <2> QED BY <2>1, <2>2, <1>1
  <1>3. prefix \in AnyPath /\ IsPrefix(routers[r].prefix, prefix)
      <2>1. routers[r].prefix \in AnyPath /\ p \in AnyPath
          BY RouterFields, RestServerAssumption DEF IInv
      <2> QED BY <2>1, PrefixGrows
  <1>4. Asked("Group", r, p, with, FALSE)
      BY DEF Group
  <1> HIDE DEF prefix
  <1>5. OldRouters /\ Len(routers) <= Len(routers')
      BY <1>1, <1>2 DEF OldRouters
  <1>6. m + 1 = Len(calls')
      <2>1. calls \in Seq(Calls)
          BY DEF IInv, MountInv
      <2> QED BY <2>1, <1>4 DEF Asked
  <1> HIDE DEF n, m
  <1>7. RouterInv'
      <2> SUFFICES ASSUME NEW q \in 1..(n + 1)
                   PROVE  /\ routers'[q].parent \in 0..(q - 1) /\ routers'[q].born \in 0..(m + 1)
                          /\ routers'[q].parent # 0 =>
                                IsPrefix(routers'[routers'[q].parent].prefix, routers'[q].prefix)
          BY <1>2, <1>6 DEF RouterInv
      <2>1. CASE q = n + 1
          BY <2>1, <1>1, <1>2, <1>3
      <2>2. CASE q # n + 1
          <3>1. q \in 1..n /\ routers'[q] = routers[q]
              BY <2>2, <1>1, <1>2
          <3>2. /\ routers[q].parent \in 0..(q - 1) /\ routers[q].born \in 0..m
                /\ routers[q].parent # 0 =>
                      IsPrefix(routers[routers[q].parent].prefix, routers[q].prefix)
              BY <3>1 DEF RouterInv, n, m
          <3>3. routers[q].parent # 0 =>
                   IsPrefix(routers'[routers[q].parent].prefix, routers[q].prefix)
              <4> SUFFICES ASSUME routers[q].parent # 0
                           PROVE  IsPrefix(routers'[routers[q].parent].prefix, routers[q].prefix)
                  OBVIOUS
              <4>1. routers[q].parent \in 1..n
                  BY <3>1, <3>2, <1>1
              <4>2. routers'[routers[q].parent] = routers[routers[q].parent]
                  BY <4>1, <1>2
              <4> QED BY <4>2, <3>2
          <3>4. routers[q].born \in 0..(m + 1)
              BY <3>2, <1>1
          <3> QED BY <3>1, <3>2, <3>3, <3>4
      <2> QED BY <2>1, <2>2
  <1>8. /\ Kept /\ Len(calls') = Len(calls) + 1
        /\ calls'[m + 1] = [op |-> "Group", router |-> r, path |-> prefix, with |-> with,
                            native |-> FALSE, made |-> n + 1]
      BY <1>1, <1>4, <1>5, <1>7, CallKept DEF prefix, n, m
  <1>9. CallInv'
      <2>1. r \in 1..Len(routers') /\ n + 1 \in 1..Len(routers')
          BY <1>1, <1>2
      <2> QED BY <2>1, <1>2, <1>8, CallInvKept DEF m
  <1>10. SameCalls(calls, calls', m) /\ RoutersGrow(routers, routers')
      BY <1>8 DEF Kept, SameCalls, m
  <1>11. EchoInv'
      <2> SUFFICES ASSUME framework = "echo", NEW q \in 1..(n + 1)
                   PROVE  Lists(routers'[q].mws, Guarding(calls', routers', q, Len(calls')))
          BY <1>1, <1>2 DEF EchoInv
      <2>1. CASE q = n + 1
          <3> DEFINE A == Guarding(calls, routers, r, m)
                     B == IF with THEN {m + 1} ELSE {}
          <3>1. Lists(routers[r].mws, A) /\ Lists(Given(with), B)
                /\ routers[r].mws \in Seq(Middlewares) /\ Given(with) \in Seq(Middlewares)
              BY <1>1, ListsGiven, RouterFields, GivenSeq DEF EchoInv, m, IInv
          <3>2. \A a \in A, b \in B : a < b
              BY <1>1 DEF Guarding
          <3> HIDE DEF A, B
          <3>3. Lists(routers[r].mws \o Given(with), A \cup B)
              BY <3>1, <3>2, ListsJoin
          <3>4. Guarding(calls', routers', r, m) = A
              <4>1. r \in 1..Len(routers)
                  OBVIOUS
              <4> QED BY <4>1, <1>1, <1>10, GuardingSame DEF A
          <3>5. Guarding(calls', routers', n + 1, m + 1) = Guarding(calls', routers', r, m) \cup B
              <4> DEFINE rs == routers'
                         cs == calls'
              <4>1. MadeBy(rs, m + 1)
                  BY <1>6, <1>7 DEF RouterInv, MadeBy
              <4>2. CallsOn(cs, m, n)
                  <5>1. \A j \in 1..m : cs[j] = calls[j]
                      BY <1>10 DEF SameCalls
                  <5> QED BY <5>1 DEF CallInv, CallsOn, n, m
              <4>3. rs[n + 1].born = m + 1 /\ rs[n + 1].parent = r /\ r \in 1..n
                    /\ Len(rs) = n + 1 /\ n \in Nat /\ m \in Nat
                  BY <1>1, <1>2
              <4>4. cs[m + 1].op = "Group" /\ cs[m + 1].made = n + 1 /\ cs[m + 1].with = with
                  BY <1>8
              <4> HIDE DEF rs, cs
              <4>5. Guarding(cs, rs, n + 1, m + 1)
                      = Guarding(cs, rs, rs[n + 1].parent, m)
                          \cup (IF cs[m + 1].with THEN {m + 1} ELSE {})
                  BY <4>1, <4>2, <4>3, <4>4, GroupGuards
              <4> QED BY <4>3, <4>4, <4>5 DEF rs, cs, B
          <3> QED BY <2>1, <3>3, <3>4, <3>5, <1>2, <1>6
      <2>2. CASE q # n + 1
          <3>1. q \in 1..n /\ routers'[q].mws = routers[q].mws
              BY <2>2, <1>1, <1>2
          <3>2. m + 1 \notin Guarding(calls', routers', q, m + 1)
              <4> DEFINE rs == routers'
                         cs == calls'
              <4>1. \A x \in 1..Len(rs) : rs[x].parent \in 0..(x - 1)
                  BY <1>7 DEF RouterInv
              <4>2. cs[m + 1].op = "Group" /\ cs[m + 1].made = n + 1 /\ Len(rs) \in Nat
                    /\ q \in 1..Len(rs) /\ n + 1 > q /\ n + 1 \in Nat
                  BY <3>1, <1>1, <1>2, <1>8
              <4> HIDE DEF rs, cs
              <4>3. m + 1 \notin Guarding(cs, rs, q, m + 1)
                  BY <4>1, <4>2, <1>1, OthersGuardLater
              <4> QED BY <4>3 DEF rs, cs
          <3> QED BY <3>1, <3>2, <1>8, EchoKept DEF m, n
      <2> QED BY <2>1, <2>2
  <1>12. StackInv'
      <2>1. CASE framework = "fiber" /\ with
          <3> DEFINE e == Middleware(prefix, Given(with))
          <3>1. Given(with) = <<<<"module", m + 1>>>>
              BY <2>1 DEF Given, m
          <3>2. stack' = Append(stack, e)
              <4>1. Given(with) # <<>>
                  BY <3>1
              <4> QED BY <4>1, <2>1 DEF Group, FiberGroup, prefix
          <3>3. e.kind = "use" /\ e.path = prefix /\ e.mws = Given(with)
              BY DEF Middleware
          <3> HIDE DEF e
          <3>4. stack'[Len(stack')] = e
              BY <3>2, <1>1
          <3>5. Lists(Given(with), {m + 1})
              BY <2>1, <1>1, ListsGiven DEF m
          <3>6. PICK k : k = m + 1
              OBVIOUS
          <3>7. EntryOf(Len(stack), k)'
              <4>1. calls'[k].with /\ calls'[k].op = "Group" /\ calls'[k].path = prefix
                  BY <2>1, <3>6, <1>8
              <4>2. Own(k)' = {k} /\ framework' = "fiber"
                  BY <4>1, <2>1, <1>1 DEF Own
              <4>3. Carried(k)' = {k}
                  BY <4>2 DEF Carried
              <4> QED BY <4>1, <4>2, <4>3, <3>3, <3>4, <3>5, <3>6 DEF EntryOf, Lists
          <3>8. /\ k \in 0..Len(calls') /\ k # 0 /\ k \notin 1..Len(calls)
                /\ \A x \in 1..Len(calls') : x \in 1..Len(calls) \/ x = k
              BY <3>6, <1>1, <1>6 DEF m
          <3> QED BY <3>2, <3>7, <3>8, <1>1, <1>8, StackMore
      <2>2. CASE ~ (framework = "fiber" /\ with)
          <3>1. stack' = stack
              BY <2>2, <1>1 DEF Group, EchoGroup, FiberGroup, Given
          <3>2. \A k \in 1..Len(calls') :
                   calls'[k].op = "Handle" \/ (framework = "fiber" /\ calls'[k].with)
                       => k \in 1..Len(calls)
              BY <2>2, <1>1, <1>6, <1>8 DEF m
          <3> QED BY <3>1, <3>2, <1>8, StackStays
      <2> QED BY <2>1, <2>2
  <1> QED BY <1>7, <1>9, <1>11, <1>12

\* Use adds to what a router carries, or stands in front of what it mounts afterwards.
LEMMA UseGroups ==
    ASSUME IInv, IInv', RouterInv, CallInv, EchoInv, StackInv, NEW r \in 1..Len(routers), Use(r)
    PROVE  RouterInv' /\ CallInv' /\ EchoInv' /\ StackInv'
PROOF
  <1> DEFINE n == Len(routers)
             m == Len(calls)
             prefix == routers[r].prefix
  <1>1. /\ n \in Nat /\ m \in Nat /\ routers \in Seq(Routers) /\ routers' \in Seq(Routers)
        /\ stack \in Seq(Entries) /\ framework \in {"echo", "fiber"} /\ framework' = framework
        /\ r \in 1..n
      BY DEF IInv, MountInv, TypeOK, Use
  <1>2. PICK with : with = TRUE
      OBVIOUS
  <1>3. Asked("Use", r, <<>>, with, FALSE)
        /\ IF framework = "echo" THEN EchoUse(r, Given(with)) ELSE FiberUse(r, Given(with))
      BY <1>2 DEF Use
  <1>4. /\ Len(routers') = n
        /\ \A q \in 1..n : /\ routers'[q].prefix = routers[q].prefix
                           /\ routers'[q].parent = routers[q].parent
                           /\ routers'[q].born = routers[q].born
                           /\ q # r => routers'[q].mws = routers[q].mws
        /\ framework = "echo" => routers'[r].mws = routers[r].mws \o Given(with)
      <2>1. CASE framework = "echo"
          <3> DEFINE e == [routers[r] EXCEPT !.mws = routers[r].mws \o Given(with)]
          <3>1. routers[r] \in Routers
              BY <1>1
          <3>2. routers' = [routers EXCEPT ![r] = e]
              BY <2>1, <1>3 DEF EchoUse
          <3>3. e.prefix = routers[r].prefix /\ e.parent = routers[r].parent
                /\ e.born = routers[r].born /\ e.mws = routers[r].mws \o Given(with)
              BY <3>1 DEF Routers
          <3> HIDE DEF e
          <3>4. /\ Len(routers') = n /\ routers'[r] = e
                /\ \A q \in 1..n : q # r => routers'[q] = routers[q]
              BY <3>2, <1>1
          <3> QED BY <3>3, <3>4
      <2>2. CASE framework = "fiber"
          BY <2>2, <1>3 DEF FiberUse
      <2> QED BY <2>1, <2>2, <1>1
  <1>5. prefix \in AnyPath /\ routers[r].prefix \o <<>> = prefix
      BY RouterFields DEF IInv, AnyPath
  <1>6. OldRouters /\ Len(routers) <= Len(routers')
      BY <1>1, <1>4 DEF OldRouters
  <1>7. m + 1 = Len(calls')
      <2>1. calls \in Seq(Calls)
          BY DEF IInv, MountInv
      <2> QED BY <2>1, <1>3 DEF Asked
  <1> HIDE DEF n, m, prefix
  <1>8. RouterInv'
      <2> SUFFICES ASSUME NEW q \in 1..n
                   PROVE  /\ routers'[q].parent \in 0..(q - 1) /\ routers'[q].born \in 0..(m + 1)
                          /\ routers'[q].parent # 0 =>
                                IsPrefix(routers'[routers'[q].parent].prefix, routers'[q].prefix)
          BY <1>4, <1>7 DEF RouterInv
      <2>1. /\ routers[q].parent \in 0..(q - 1) /\ routers[q].born \in 0..m
            /\ routers[q].parent # 0 =>
                  IsPrefix(routers[routers[q].parent].prefix, routers[q].prefix)
          BY DEF RouterInv, n, m
      <2>2. routers[q].parent # 0 =>
               IsPrefix(routers'[routers[q].parent].prefix, routers[q].prefix)
          <3> SUFFICES ASSUME routers[q].parent # 0
                       PROVE  IsPrefix(routers'[routers[q].parent].prefix, routers[q].prefix)
              OBVIOUS
          <3>1. routers[q].parent \in 1..n
              BY <2>1, <1>1
          <3>2. routers'[routers[q].parent].prefix = routers[routers[q].parent].prefix
              BY <3>1, <1>4
          <3> QED BY <3>2, <2>1
      <2>3. routers[q].born \in 0..(m + 1)
          BY <2>1, <1>1
      <2>4. routers'[q].parent = routers[q].parent /\ routers'[q].prefix = routers[q].prefix
            /\ routers'[q].born = routers[q].born
          BY <1>4
      <2> QED BY <2>1, <2>2, <2>3, <2>4
  <1>9. /\ Kept /\ Len(calls') = Len(calls) + 1
        /\ calls'[m + 1] = [op |-> "Use", router |-> r, path |-> prefix, with |-> with,
                            native |-> FALSE, made |-> n + 1]
      BY <1>1, <1>3, <1>5, <1>6, <1>8, CallKept DEF prefix, n, m
  <1>10. CallInv'
      <2>1. r \in 1..Len(routers') /\ routers'[r].prefix = prefix
          BY <1>1, <1>4 DEF prefix
      <2> QED BY <2>1, <1>2, <1>9, CallInvKept DEF m
  <1>11. SameCalls(calls, calls', m) /\ RoutersGrow(routers, routers')
      BY <1>9 DEF Kept, SameCalls, m
  <1>12. EchoInv'
      <2> SUFFICES ASSUME framework = "echo", NEW q \in 1..n
                   PROVE  Lists(routers'[q].mws, Guarding(calls', routers', q, Len(calls')))
          BY <1>1, <1>4 DEF EchoInv
      <2>1. m + 1 \in Guarding(calls', routers', q, m + 1) <=> q = r
          <3> DEFINE rs == routers'
                     cs == calls'
          <3>1. MadeBy(rs, m) /\ Len(rs) \in Nat /\ q \in 1..Len(rs)
              <4>1. \A x \in 1..n : routers[x].parent \in 0..(x - 1) /\ routers[x].born \in 0..m
                  BY DEF RouterInv, n, m
              <4> QED BY <4>1, <1>1, <1>4 DEF MadeBy
          <3>2. cs[m + 1].op = "Use" /\ cs[m + 1].with /\ cs[m + 1].router = r
              BY <1>2, <1>9
          <3> HIDE DEF rs, cs
          <3>3. m + 1 \in Guarding(cs, rs, q, m + 1) <=> q = cs[m + 1].router
              BY <3>1, <3>2, <1>1, UseGuards
          <3> QED BY <3>2, <3>3 DEF rs, cs
      <2>2. CASE q = r
          <3> DEFINE A == Guarding(calls, routers, r, m)
                     B == {m + 1}
          <3>1. Lists(routers[r].mws, A) /\ Lists(Given(with), B)
                /\ routers[r].mws \in Seq(Middlewares) /\ Given(with) \in Seq(Middlewares)
              BY <2>2, <1>1, <1>2, ListsGiven, RouterFields, GivenSeq DEF EchoInv, m, IInv
          <3>2. \A a \in A, b \in B : a < b
              BY <1>1 DEF Guarding
          <3> HIDE DEF A, B
          <3>3. Lists(routers[r].mws \o Given(with), A \cup B)
              BY <3>1, <3>2, ListsJoin
          <3>4. Guarding(calls', routers', r, m) = A
              <4>1. r \in 1..Len(routers)
                  OBVIOUS
              <4> QED BY <4>1, <1>1, <1>11, GuardingSame DEF A
          <3>5. Guarding(calls', routers', r, m + 1) = A \cup B
              <4> DEFINE rs == routers'
                         cs == calls'
              <4>1. m \in Nat /\ m + 1 \in Guarding(cs, rs, r, m + 1) /\ Guarding(cs, rs, r, m) = A
                  BY <2>1, <2>2, <3>4, <1>1
              <4> HIDE DEF rs, cs
              <4>2. Guarding(cs, rs, r, m + 1) = Guarding(cs, rs, r, m)
                       \cup (IF m + 1 \in Guarding(cs, rs, r, m + 1) THEN {m + 1} ELSE {})
                  BY <4>1, GuardingNext
              <4>3. Guarding(cs, rs, r, m + 1) = A \cup B
                  BY <4>1, <4>2 DEF B
              <4> QED BY <4>3 DEF rs, cs
          <3> QED BY <2>2, <3>3, <3>5, <1>4, <1>7
      <2>3. CASE q # r
          BY <2>1, <2>3, <1>4, <1>9, EchoKept DEF m, n
      <2> QED BY <2>2, <2>3
  <1>13. StackInv'
      <2>1. CASE framework = "fiber"
          <3> DEFINE e == Middleware(prefix, Given(with))
          <3>1. stack' = Append(stack, e)
              BY <2>1, <1>3 DEF FiberUse, prefix
          <3>2. e.kind = "use" /\ e.path = prefix /\ e.mws = Given(with)
              BY DEF Middleware
          <3> HIDE DEF e
          <3>3. stack'[Len(stack')] = e
              BY <3>1, <1>1
          <3>4. Lists(Given(with), {m + 1})
              BY <1>1, <1>2, ListsGiven DEF m
          <3>5. PICK k : k = m + 1
              OBVIOUS
          <3>6. EntryOf(Len(stack), k)'
              <4>1. calls'[k].with /\ calls'[k].op = "Use" /\ calls'[k].path = prefix
                  BY <3>5, <1>2, <1>9
              <4>2. Own(k)' = {k} /\ framework' = "fiber"
                  BY <4>1, <2>1, <1>1 DEF Own
              <4>3. Carried(k)' = {k}
                  BY <4>2 DEF Carried
              <4> QED BY <4>1, <4>2, <4>3, <3>2, <3>3, <3>4, <3>5 DEF EntryOf, Lists
          <3>7. /\ k \in 0..Len(calls') /\ k # 0 /\ k \notin 1..Len(calls)
                /\ \A x \in 1..Len(calls') : x \in 1..Len(calls) \/ x = k
              BY <3>5, <1>1, <1>7 DEF m
          <3> QED BY <3>1, <3>6, <3>7, <1>1, <1>9, StackMore
      <2>2. CASE framework = "echo"
          <3>1. stack' = stack
              BY <2>2, <1>3 DEF EchoUse
          <3>2. \A k \in 1..Len(calls') :
                   calls'[k].op = "Handle" \/ (framework = "fiber" /\ calls'[k].with)
                       => k \in 1..Len(calls)
              BY <2>2, <1>1, <1>7, <1>9 DEF m
          <3> QED BY <3>1, <3>2, <1>9, StackStays
      <2> QED BY <2>1, <2>2, <1>1
  <1> QED BY <1>8, <1>10, <1>12, <1>13

\* Handle mounts a route that carries the middlewares of its router, in echo, and those
\* of the call, unless the wrapper of echo drops them.
LEMMA HandleGroups ==
    ASSUME IInv, IInv', RouterInv, CallInv, EchoInv, StackInv, NEW r \in 1..Len(routers),
           NEW p \in Patterns, NEW with \in BOOLEAN, NEW native \in BOOLEAN,
           Handle(r, p, with, native)
    PROVE  RouterInv' /\ CallInv' /\ EchoInv' /\ StackInv'
PROOF
  <1> DEFINE n == Len(routers)
             m == Len(calls)
             prefix == routers[r].prefix \o p
             handler == IF native THEN "native" ELSE "wrapped"
  <1>1. /\ n \in Nat /\ m \in Nat /\ routers \in Seq(Routers) /\ routers' = routers
        /\ stack \in Seq(Entries) /\ framework \in {"echo", "fiber"} /\ framework' = framework
        /\ r \in 1..n
      BY DEF IInv, MountInv, TypeOK, Handle
  <1>2. prefix \in AnyPath /\ IsPrefix(routers[r].prefix, prefix)
      <2>1. routers[r].prefix \in AnyPath /\ p \in AnyPath
          BY RouterFields, RestServerAssumption DEF IInv
      <2> QED BY <2>1, PrefixGrows
  <1>3. Asked("Handle", r, p, with, native)
      BY DEF Handle
  <1>4. OldRouters /\ Len(routers) <= Len(routers')
      BY <1>1 DEF OldRouters
  <1>5. m + 1 = Len(calls')
      <2>1. calls \in Seq(Calls)
          BY DEF IInv, MountInv
      <2> QED BY <2>1, <1>3 DEF Asked
  <1>6. RouterInv'
      <2>1. \A x \in 0..m : x \in 0..(m + 1)
          BY <1>1
      <2> QED BY <2>1, <1>1, <1>5 DEF RouterInv
  <1> HIDE DEF n, m, prefix, handler
  <1>7. /\ Kept /\ Len(calls') = Len(calls) + 1
        /\ calls'[m + 1] = [op |-> "Handle", router |-> r, path |-> prefix, with |-> with,
                            native |-> native, made |-> n + 1]
      BY <1>1, <1>3, <1>4, <1>6, CallKept DEF prefix, n, m
  <1>8. CallInv'
      BY <1>1, <1>2, <1>7, CallInvKept DEF m, n
  <1>9. SameCalls(calls, calls', m) /\ RoutersGrow(routers, routers')
      BY <1>7 DEF Kept, SameCalls, m
  <1>10. EchoInv'
      <2> SUFFICES ASSUME framework = "echo", NEW q \in 1..n
                   PROVE  Lists(routers'[q].mws, Guarding(calls', routers', q, Len(calls')))
          BY <1>1 DEF EchoInv, n
      <2>1. m + 1 \notin Guarding(calls', routers', q, m + 1)
          BY <1>7 DEF Guarding
      <2> QED BY <2>1, <1>1, <1>7, EchoKept DEF m, n
  <1>11. PICK k : k = m + 1
      OBVIOUS
  <1>12. Guards(k)' = Guarding(calls, routers, r, m)
      <2>1. Guards(k)' = Guarding(calls', routers', r, k - 1)
          BY <1>7, <1>11, GuardsAre
      <2>2. k - 1 = m /\ r \in 1..Len(routers)
          BY <1>1, <1>11
      <2>3. Guarding(calls', routers', r, m) = Guarding(calls, routers, r, m)
          BY <2>2, <1>1, <1>9, GuardingSame
      <2> QED BY <2>1, <2>2, <2>3
  <1>13. Own(k)' = IF with THEN {k} ELSE {}
      BY <1>7, <1>11 DEF Own
  <1>14. PICK mws : /\ stack' = Append(stack, Route(prefix, mws, handler))
                    /\ Lists(mws, Carried(k)')
      <2>1. CASE framework = "echo"
          <3> DEFINE own == IF native THEN Given(with) ELSE <<>>
                     A == Guarding(calls, routers, r, m)
                     B == IF native /\ with THEN {m + 1} ELSE {}
          <3>1. stack' = Append(stack, Route(prefix, routers[r].mws \o own, handler))
              BY <2>1 DEF Handle, EchoHandle, transformMiddlewares, prefix, handler
          <3>2. Lists(routers[r].mws, A) /\ routers[r].mws \in Seq(Middlewares)
              BY <2>1, RouterFields DEF EchoInv, m, IInv
          <3>3. Lists(own, B) /\ own \in Seq(Middlewares)
              <4>1. Lists(Given(with), IF with THEN {m + 1} ELSE {})
                  BY <1>1, ListsGiven DEF m
              <4>2. Given(with) \in Seq(Middlewares) /\ <<>> \in Seq(Middlewares)
                  BY GivenSeq DEF IInv
              <4>3. Lists(<<>>, {})
                  BY ListsNone
              <4> QED BY <4>1, <4>2, <4>3
          <3>4. \A a \in A, b \in B : a < b
              BY <1>1 DEF Guarding
          <3>5. Carried(k)' = A \cup B
              <4>1. calls'[k].native = native /\ framework' = "echo"
                  BY <2>1, <1>1, <1>7, <1>11
              <4> QED BY <4>1, <1>11, <1>12, <1>13 DEF Carried
          <3> HIDE DEF own, A, B
          <3>6. Lists(routers[r].mws \o own, A \cup B)
              BY <3>2, <3>3, <3>4, ListsJoin
          <3> QED BY <3>1, <3>5, <3>6
      <2>2. CASE framework = "fiber"
          <3>1. stack' = Append(stack, Route(prefix, Given(with), handler))
              BY <2>2 DEF Handle, FiberHandle, WithChainingMiddlewares, prefix, handler
          <3>2. Lists(Given(with), IF with THEN {m + 1} ELSE {})
              BY <1>1, ListsGiven DEF m
          <3>3. Carried(k)' = IF with THEN {m + 1} ELSE {}
              BY <2>2, <1>1, <1>11, <1>13 DEF Carried
          <3> QED BY <3>1, <3>2, <3>3
      <2> QED BY <2>1, <2>2, <1>1
  <1>15. StackInv'
      <2> DEFINE e == Route(prefix, mws, handler)
      <2>1. stack' = Append(stack, e)
          BY <1>14
      <2>2. e.kind = "route" /\ e.path = prefix /\ e.mws = mws /\ e.handler = handler
          BY DEF Route
      <2> HIDE DEF e
      <2>3. stack'[Len(stack')] = e
          BY <2>1, <1>1
      <2>4. EntryOf(Len(stack), k)'
          <3>1. calls'[k].op = "Handle" /\ calls'[k].path = prefix /\ calls'[k].native = native
              BY <1>7, <1>11
          <3> QED BY <3>1, <2>2, <2>3, <1>14 DEF EntryOf, Lists, handler
      <2>5. /\ k \in 0..Len(calls') /\ k # 0 /\ k \notin 1..Len(calls)
            /\ \A x \in 1..Len(calls') : x \in 1..Len(calls) \/ x = k
          BY <1>1, <1>5, <1>11 DEF m
      <2> QED BY <2>1, <2>4, <2>5, <1>1, <1>7, StackMore
  <1> QED BY <1>6, <1>8, <1>10, <1>15

\* Nothing changes about what was mounted when nothing is.
LEMMA GroupsStay ==
    ASSUME IInv, RouterInv, CallInv, EchoInv, StackInv,
           UNCHANGED <<framework, routers, calls>>
    PROVE  /\ Kept /\ RouterInv' /\ CallInv' /\ EchoInv'
           /\ stack' = stack => StackInv'
PROOF
  <1>1. RouterInv' /\ CallInv' /\ EchoInv'
      BY DEF RouterInv, CallInv, EchoInv
  <1>2. Kept
      <2>1. calls \in Seq(Calls) /\ Len(calls) \in Nat /\ Len(routers) \in Nat
          BY DEF IInv, MountInv
      <2>2. RoutersGrow(routers, routers')
          BY <2>1 DEF RouterInv, RoutersGrow
      <2> QED BY <2>1, <2>2 DEF Kept
  <1>3. ASSUME stack' = stack
        PROVE  StackInv'
      BY <1>2, <1>3, StackStays
  <1> QED BY <1>1, <1>2, <1>3

\* What the server itself mounts leaves the stack as it should be.
LEMMA StackOwn ==
    ASSUME Kept, CallInv, StackInv, stack \in Seq(Entries), NEW more \in Seq(Entries),
           \A i \in 1..Len(more) : more[i].handler \notin {"wrapped", "native"}
                                   /\ Passing(more[i].mws) = {},
           stack' = stack \o more, calls' = calls
    PROVE  StackInv'
PROOF
  <1> DEFINE n == Len(stack)
             m == Len(stack')
  <1>1. PICK from \in [1..n -> 0..Len(calls)] : Mounts(from)
      BY DEF StackInv
  <1>2. n \in Nat /\ Len(more) \in Nat /\ m = n + Len(more)
        /\ (\A i \in 1..n : stack'[i] = stack[i])
        /\ \A i \in (n + 1)..m : i - n \in 1..Len(more) /\ stack'[i] = more[i - n]
      BY ConcatProperties
  <1>3. framework' = framework /\ Len(calls) \in Nat
      BY DEF Kept
  <1> HIDE DEF n, m
  <1>4. PICK to : to = [i \in 1..m |-> IF i > n THEN 0 ELSE from[i]]
      OBVIOUS
  <1>5. \A i \in 1..m : (i > n /\ to[i] = 0) \/ (i \in 1..n /\ to[i] = from[i])
      BY <1>2, <1>4
  <1>6. \A i \in 1..n : i \in 1..m /\ to[i] = from[i] /\ from[i] \in 0..Len(calls)
      BY <1>2, <1>4
  <1>7. to \in [1..m -> 0..Len(calls')]
      <2>1. \A i \in 1..m : to[i] \in 0..Len(calls')
          BY <1>3, <1>5, <1>6
      <2> QED BY <2>1, <1>4
  <1>8. ASSUME NEW i \in 1..m, to[i] # 0
        PROVE  EntryOf(i, to[i])'
      <2> DEFINE k == from[i]
      <2>1. i \in 1..n /\ to[i] = k
          BY <1>5, <1>8
      <2>2. k \in 1..Len(calls) /\ stack'[i] = stack[i]
          <3>1. k \in 0..Len(calls) /\ stack'[i] = stack[i]
              BY <2>1, <1>2, <1>6
          <3>2. k # 0
              BY <2>1, <1>8
          <3> HIDE DEF k
          <3> QED BY <3>1, <3>2, <1>3
      <2>3. EntryOf(i, k)
          BY <2>1, <2>2, <1>1, <1>3 DEF Mounts, n
      <2> HIDE DEF k
      <2>4. EntryOf(i, k)'
          BY <2>1, <2>2, <2>3, EntryKept DEF n
      <2> QED BY <2>1, <2>4
  <1>9. ASSUME NEW i \in 1..m, to[i] = 0
        PROVE  stack'[i].handler \notin {"wrapped", "native"} /\ Passing(stack'[i].mws) = {}
      <2>1. CASE i > n
          <3>1. i \in (n + 1)..m
              BY <2>1, <1>2
          <3> QED BY <3>1, <1>2
      <2>2. CASE ~ (i > n)
          <3>1. i \in 1..n /\ from[i] = 0 /\ stack'[i] = stack[i]
              BY <2>2, <1>2, <1>5, <1>9
          <3> QED BY <3>1, <1>1 DEF Mounts, n
      <2> QED BY <2>1, <2>2
  <1>10. ASSUME NEW i \in 1..m, NEW j \in 1..m, i < j, to[i] # 0, to[j] # 0
         PROVE  to[i] < to[j]
      BY <1>1, <1>5, <1>10 DEF Mounts, n
  <1>11. ASSUME NEW k \in 1..Len(calls),
                calls[k].op = "Handle" \/ (framework = "fiber" /\ calls[k].with)
         PROVE  \E i \in 1..m : to[i] = k
      <2>1. PICK i \in 1..n : from[i] = k
          BY <1>1, <1>11 DEF Mounts, n
      <2> QED BY <2>1, <1>6
  <1>12. Mounts(to)'
      BY <1>3, <1>8, <1>9, <1>10, <1>11 DEF Mounts, Passing, m
  <1>13. \E f \in [1..Len(stack') -> 0..Len(calls')] : Mounts(f)'
      BY <1>7, <1>12 DEF m
  <1> QED BY <1>13 DEF StackInv

\* The handlers of GraphQL are mounted by no module.
LEMMA BuiltGroups ==
    ASSUME IInv, RouterInv, CallInv, EchoInv, StackInv, Built
    PROVE  RouterInv' /\ CallInv' /\ EchoInv' /\ StackInv'
PROOF
  <1>1. UNCHANGED <<framework, routers, calls>>
      BY DEF Built
  <1>2. Kept /\ RouterInv' /\ CallInv' /\ EchoInv' /\ (stack' = stack => StackInv')
      BY <1>1, GroupsStay
  <1>3. CASE stack' # stack
      <2>0. <<"graphql">> \in AnyPath /\ opt.rootPath \in AnyPath
            /\ (framework = "fiber" => opt.graphqlPath \in AnyPath)
            /\ framework \in {"echo", "fiber"}
          BY RestServerAssumption, OneSeq DEF AnyPath, OptInv, IInv, TypeOK
      <2>0a. opt.rootPath \o <<"graphql">> \in AnyPath
             /\ (framework = "fiber" => opt.rootPath \o opt.graphqlPath \in AnyPath)
          BY <2>0 DEF AnyPath
      <2>1. PICK path \in AnyPath : stack' = stack \o GraphQLRoutes(path)
          BY <2>0, <2>0a, <1>3 DEF Built, EchoGraphQL, FiberGraphQL
      <2> DEFINE more == GraphQLRoutes(path)
      <2>2. more \in Seq(Entries) /\ Len(more) = 3
          BY PrefixGrows, GraphQLEntries
      <2>3. \A i \in 1..3 : more[i].handler \notin {"wrapped", "native"}
                            /\ Passing(more[i].mws) = {}
          BY DEF GraphQLRoutes, Route, Passing
      <2>4. stack \in Seq(Entries) /\ stack' = stack \o more
          BY <2>1 DEF IInv, MountInv
      <2> HIDE DEF more
      <2>5. StackInv'
          BY <2>2, <2>3, <2>4, <1>1, <1>2, StackOwn
      <2> QED BY <2>5, <1>2
  <1> QED BY <1>2, <1>3

-----------------------------------------------------------------------------
(* The call that mounted what takes a request *)

\* As MountedBy has it, for any path.
MountOf(path) ==
    LET ks == {k \in 1..Len(calls) : calls[k].op = "Handle" /\ calls[k].path = path}
    IN  IF framework = "echo" THEN CHOOSE k \in ks : \A j \in ks : j <= k
                              ELSE CHOOSE k \in ks : \A j \in ks : k <= j

\* It is the call that mounted the route which takes the path.
LEMMA TakenCall ==
    ASSUME IInv, NEW from \in [1..Len(stack) -> 0..Len(calls)], Mounts(from), NEW path,
           Taken(path) # 0, stack[Taken(path)].handler \in {"wrapped", "native"}
    PROVE  LET i == Taken(path)
               k == from[i]
           IN  /\ i \in 1..Len(stack) /\ k \in 1..Len(calls) /\ MountOf(path) = k
               /\ calls[k].op = "Handle" /\ calls[k].path = path
               /\ Lists(stack[i].mws, Carried(k))
PROOF
  <1> DEFINE i == Taken(path)
             k == from[i]
             ks == {j \in 1..Len(calls) : calls[j].op = "Handle" /\ calls[j].path = path}
  <1>1. stack \in Seq(Entries) /\ Len(stack) \in Nat /\ Len(calls) \in Nat
      BY DEF IInv, MountInv
  <1>2. i \in 1..Len(stack) /\ stack[i].kind = "route" /\ stack[i].path = path
      BY <1>1, TakenRoute
  <1>3. k # 0 /\ EntryOf(i, k)
      BY <1>2 DEF Mounts
  <1>4. k \in 1..Len(calls)
      BY <1>1, <1>2, <1>3
  <1>5. calls[k].op = "Handle" /\ calls[k].path = path /\ Lists(stack[i].mws, Carried(k))
      BY <1>2, <1>3 DEF EntryOf
  <1>6. k \in ks
      BY <1>4, <1>5
  <1> HIDE DEF i, k
  <1>7. ASSUME NEW j \in ks
        PROVE  IF framework = "echo" THEN j <= k ELSE k <= j
      <2>1. j \in 1..Len(calls) /\ calls[j].op = "Handle" /\ calls[j].path = path
          OBVIOUS
      <2>2. PICK x \in 1..Len(stack) : from[x] = j
          BY <2>1 DEF Mounts
      <2>3. j # 0 /\ EntryOf(x, j)
          BY <2>1, <2>2 DEF Mounts
      <2>4. stack[x].kind = "route" /\ stack[x].path = path
          BY <2>1, <2>3 DEF EntryOf
      <2>5. IF framework = "echo" THEN x <= i ELSE i <= x
          BY <2>4, <1>1, TakenExtreme DEF i
      <2>6. \A a, b \in 1..Len(stack) : a < b /\ from[a] # 0 /\ from[b] # 0 => from[a] < from[b]
          BY DEF Mounts
      <2>7. from[i] = k
          BY DEF k
      <2>8. CASE x = i
          BY <2>2, <2>7, <2>8, <1>1, <1>4
      <2>9. CASE x # i
          BY <2>1, <2>2, <2>3, <2>5, <2>6, <2>7, <2>9, <1>1, <1>2, <1>3, <1>4
      <2> QED BY <2>8, <2>9
  <1>8. MountOf(path) = IF framework = "echo" THEN CHOOSE x \in ks : \A j \in ks : j <= x
                        ELSE CHOOSE x \in ks : \A j \in ks : x <= j
      BY DEF MountOf
  <1>9. ks \subseteq Nat
      OBVIOUS
  <1> HIDE DEF ks
  <1>10. MountOf(path) = k
      <2>1. CASE framework = "echo"
          <3>1. ASSUME NEW x \in ks, \A j \in ks : j <= x
                PROVE  x = k
              <4>1. k <= x /\ x <= k
                  BY <2>1, <3>1, <1>6, <1>7
              <4>2. x \in Nat /\ k \in Nat
                  BY <1>6, <1>9
              <4> QED BY <4>1, <4>2
          <3>2. \A j \in ks : j <= k
              BY <2>1, <1>7
          <3> QED BY <2>1, <3>1, <3>2, <1>6, <1>8
      <2>2. CASE framework # "echo"
          <3>1. ASSUME NEW x \in ks, \A j \in ks : x <= j
                PROVE  x = k
              <4>1. k <= x /\ x <= k
                  BY <2>2, <3>1, <1>6, <1>7
              <4>2. x \in Nat /\ k \in Nat
                  BY <1>6, <1>9
              <4> QED BY <4>1, <4>2
          <3>2. \A j \in ks : k <= j
              BY <2>2, <1>7
          <3> QED BY <2>2, <3>1, <3>2, <1>6, <1>8
      <2> QED BY <2>1, <2>2
  <1> QED BY <1>2, <1>4, <1>5, <1>10 DEF i, k

-----------------------------------------------------------------------------
(* What a chain lists *)

\* Joined, sequences that list sets of calls, one after the other, list them all.
LEMMA ListsFlatten ==
    ASSUME NEW seqs \in Seq(Seq(Middlewares)), seqs # <<>>, NEW D,
           \A i \in 1..Len(seqs) : Lists(seqs[i], D[i]),
           \A i, j \in 1..Len(seqs) : i < j => \A a \in D[i], b \in D[j] : a < b
    PROVE  /\ FlattenSeq(seqs) \in Seq(Middlewares)
           /\ Lists(FlattenSeq(seqs), UNION {D[i] : i \in 1..Len(seqs)})
PROOF
  <1> DEFINE S == Seq(Middlewares)
             n == Len(seqs)
             U(k) == UNION {D[i] : i \in 1..k}
  <1>1. n \in Nat /\ n # 0 /\ \A i \in 1..n : seqs[i] \in S
      OBVIOUS
  <1>2. PICK f \in [1..n -> S] : Joins(f, seqs, n) /\ FlattenSeq(seqs) = f[n]
      BY FlattenJoins
  <1> DEFINE T == {k \in 0..n : k # 0 => Lists(f[k], U(k))}
  <1>3. 0 \in T
      BY <1>1
  <1>4. ASSUME NEW k \in 0..(n - 1), k \in T
        PROVE  k + 1 \in T
      <2>1. k \in Nat /\ k + 1 \in 1..n /\ k + 1 \in 0..n /\ (k + 1) - 1 = k
          BY <1>1
      <2>2. CASE k = 0
          <3>1. 1 \in 1..n
              BY <1>1
          <3>2. f[1] = seqs[1] /\ Lists(seqs[1], D[1])
              BY <3>1, <1>2 DEF Joins
          <3>3. U(1) = D[1]
              OBVIOUS
          <3> HIDE DEF U
          <3> QED BY <2>1, <2>2, <3>2, <3>3
      <2>3. CASE k # 0
          <3>1. k \in 1..n /\ f[k + 1] = f[k] \o seqs[k + 1] /\ f[k] \in S /\ seqs[k + 1] \in S
              <4>1. k \in 1..n /\ k + 1 # 1
                  BY <2>1, <2>3, <1>1
              <4>2. f[k + 1] = f[(k + 1) - 1] \o seqs[k + 1]
                  BY <4>1, <2>1, <1>2 DEF Joins
              <4> QED BY <4>1, <4>2, <2>1, <1>1, <1>2
          <3>2. Lists(f[k], U(k)) /\ Lists(seqs[k + 1], D[k + 1])
              BY <2>1, <2>3, <1>4
          <3>3. \A a \in U(k), b \in D[k + 1] : a < b
              <4> SUFFICES ASSUME NEW i \in 1..k, NEW a \in D[i], NEW b \in D[k + 1]
                           PROVE  a < b
                  OBVIOUS
              <4>1. i \in 1..n /\ i < k + 1
                  BY <2>1
              <4> QED BY <4>1, <2>1
          <3>4. U(k + 1) = U(k) \cup D[k + 1]
              <4>1. \A i \in 1..(k + 1) : i \in 1..k \/ i = k + 1
                  BY <2>1
              <4>2. \A i \in 1..k : i \in 1..(k + 1)
                  BY <2>1
              <4>3. k + 1 \in 1..(k + 1)
                  BY <2>1
              <4> QED BY <4>1, <4>2, <4>3
          <3> HIDE DEF U
          <3>5. Lists(f[k] \o seqs[k + 1], U(k) \cup D[k + 1])
              BY <3>1, <3>2, <3>3, ListsJoin DEF S
          <3> QED BY <2>1, <3>1, <3>4, <3>5
      <2> QED BY <2>2, <2>3
  <1>5. n \in T
      <2> HIDE DEF T
      <2>1. n \in 0..n
          BY <1>1
      <2> QED BY <1>1, <1>3, <1>4, <2>1, CountUp
  <1>6. Lists(f[n], U(n)) /\ f[n] \in S
      BY <1>1, <1>2, <1>5
  <1> QED BY <1>2, <1>6

-----------------------------------------------------------------------------
(* What guards the handler of a request *)

\* As GuardedByGroups has it of a request for path that passed chain, when call k mounted
\* the handler it ended in.
Guarded(k, path, chain) ==
    LET own == IF framework = "fiber" \/ calls[k].native THEN Own(k) ELSE {}
        mws == Guards(k) \cup own
        Above(j) == /\ framework = "fiber" /\ j < k /\ calls[j].op # "Handle"
                    /\ IsPrefix(calls[j].path, path)
    IN  /\ mws \subseteq Passing(chain)
        /\ \A a, b \in 1..Len(chain) :
              a < b /\ {chain[a][2], chain[b][2]} \subseteq mws => chain[a][2] < chain[b][2]
        /\ \A j \in Passing(chain) : j \in mws \/ Above(j)

\* A chain that lists these middlewares, and perhaps some from above, is as it should be.
LEMMA GuardedLists ==
    ASSUME NEW k, NEW path, NEW chain, NEW S, Lists(chain, S), S \subseteq Nat,
           Guards(k) \cup (IF framework = "fiber" \/ calls[k].native THEN Own(k) ELSE {})
              \subseteq S,
           \A j \in S :
              \/ j \in Guards(k)
              \/ j \in (IF framework = "fiber" \/ calls[k].native THEN Own(k) ELSE {})
              \/ /\ framework = "fiber" /\ j < k /\ calls[j].op # "Handle"
                 /\ IsPrefix(calls[j].path, path)
    PROVE  Guarded(k, path, chain)
PROOF
  <1> DEFINE mws == Guards(k)
                      \cup (IF framework = "fiber" \/ calls[k].native THEN Own(k) ELSE {})
  <1>1. Passing(chain) = S /\ InOrder(chain) /\ 0 \notin S
      BY DEF Lists, Passing
  <1>2. mws \subseteq S
      OBVIOUS
  <1>3. ASSUME NEW a \in 1..Len(chain), NEW b \in 1..Len(chain), a < b,
               {chain[a][2], chain[b][2]} \subseteq mws
        PROVE  chain[a][2] < chain[b][2]
      <2>1. chain[a][2] \in S /\ chain[b][2] \in S
          BY <1>2, <1>3
      <2>2. chain[a][2] # 0 /\ chain[b][2] # 0
          BY <2>1, <1>1
      <2> QED BY <2>2, <1>1, <1>3 DEF InOrder
  <1> QED BY <1>1, <1>2, <1>3 DEF Guarded

\* In echo a request passes the middlewares its route carries, after those of the
\* application.
LEMMA EchoGuarded ==
    ASSUME IInv, framework = "echo", NEW from \in [1..Len(stack) -> 0..Len(calls)],
           Mounts(from), NEW path, Taken(path) # 0,
           stack[Taken(path)].handler \in {"wrapped", "native"}
    PROVE  Guarded(MountOf(path), path, Chain(path))
PROOF
  <1> DEFINE i == Taken(path)
             k == MountOf(path)
             mws == stack[i].mws
             root == opt.engine \o opt.rootMiddlewares
             S == Carried(k)
  <1>1. i \in 1..Len(stack) /\ k \in 1..Len(calls) /\ Lists(mws, S)
      BY TakenCall
  <1>2. mws \in Seq(Middlewares) /\ root \in Seq(Middlewares)
      BY <1>1, EntryFields, RootsTyped DEF IInv, MountInv
  <1>3. Lists(root, {})
      <2>1. opt.engine \o opt.rootMiddlewares \in Seq(RootMiddlewares)
          BY DEF IInv, OptInv
      <2> QED BY <2>1, ListsNone
  <1>4. Chain(path) = root \o mws
      BY <1>1 DEF Chain
  <1>5. S = Guards(k) \cup (IF calls[k].native THEN Own(k) ELSE {}) /\ S \subseteq Nat
      <2>1. Guards(k) \subseteq Nat
          BY <1>1 DEF Guards
      <2>2. Own(k) \subseteq Nat
          BY <1>1 DEF Own
      <2> QED BY <2>1, <2>2 DEF Carried
  <1> HIDE DEF i, k, mws, root, S
  <1>6. Lists(root \o mws, {} \cup S)
      <2>1. \A a \in {}, b \in S : a < b
          OBVIOUS
      <2> QED BY <2>1, <1>1, <1>2, <1>3, ListsJoin
  <1>7. Lists(Chain(path), S)
      <2>1. {} \cup S = S
          OBVIOUS
      <2> QED BY <2>1, <1>4, <1>6
  <1>8. Guarded(k, path, Chain(path))
      BY <1>5, <1>7, GuardedLists
  <1> QED BY <1>8 DEF k

\* In fiber a call that guards a handler has mounted its middleware before it, on a path
\* that its path begins with.
LEMMA GuardsMounted ==
    ASSUME IInv, RouterInv, CallInv, framework = "fiber",
           NEW from \in [1..Len(stack) -> 0..Len(calls)], Mounts(from), NEW i \in 1..Len(stack),
           NEW k \in 1..Len(calls), from[i] = k, calls[k].op = "Handle", NEW j \in Guards(k)
    PROVE  /\ j \in Own(j) /\ \E n \in 1..Len(stack) :
                /\ n < i /\ from[n] = j /\ stack[n].kind = "use"
                /\ IsPrefix(stack[n].path, calls[k].path)
PROOF
  <1> DEFINE r == calls[k].router
             L == LineOf(routers)[r]
  <1>1. Len(stack) \in Nat /\ Len(calls) \in Nat /\ Len(routers) \in Nat /\ calls \in Seq(Calls)
        /\ \A q \in 1..Len(routers) : routers[q].prefix \in AnyPath
      <2>1. stack \in Seq(Entries) /\ routers \in Seq(Routers) /\ calls \in Seq(Calls)
          BY DEF IInv, MountInv
      <2>2. \A q \in 1..Len(routers) : routers[q].prefix \in AnyPath
          BY RouterFields DEF IInv
      <2>3. Len(stack) \in Nat /\ Len(calls) \in Nat /\ Len(routers) \in Nat
          BY <2>1
      <2> QED BY <2>1, <2>2, <2>3
  <1>2. j \in 1..(k - 1) /\ calls[j].with /\ calls[j].op # "Handle"
        /\ \/ calls[j].op = "Group" /\ calls[j].made \in L
           \/ calls[j].op = "Use" /\ calls[j].router \in L
      BY GuardsAre DEF Guarding
  <1>3. j \in 1..Len(calls) /\ j < k /\ j # 0
      BY <1>1, <1>2
  <1>4. PICK n \in 1..Len(stack) : from[n] = j
      BY <1>2, <1>3 DEF Mounts
  <1>5. EntryOf(n, j)
      BY <1>3, <1>4 DEF Mounts
  <1>6. stack[n].kind = "use" /\ stack[n].path = calls[j].path
      BY <1>2, <1>5 DEF EntryOf
  <1>7. n < i
      <2>1. i < n => from[i] < from[n]
          BY <1>3, <1>4 DEF Mounts
      <2> QED BY <2>1, <1>1, <1>3, <1>4
  <1>8. r \in 1..Len(routers) /\ IsPrefix(routers[r].prefix, calls[k].path)
      BY DEF CallInv
  <1>9. \A x \in 1..Len(routers) :
           /\ routers[x].parent \in 0..(x - 1) /\ routers[x].prefix \in AnyPath
           /\ routers[x].parent # 0 =>
                 IsPrefix(routers[routers[x].parent].prefix, routers[x].prefix)
      BY <1>1 DEF RouterInv
  <1>10. L \subseteq 1..r /\ \A q \in L : IsPrefix(routers[q].prefix, routers[r].prefix)
      BY <1>1, <1>8, <1>9, LineParts, LinePrefix
  <1>11. PICK q \in L : calls[j].path = routers[q].prefix
      BY <1>2, <1>3 DEF CallInv
  <1>12. q \in 1..Len(routers) /\ calls[k].path \in AnyPath
      <2>1. calls[k] \in Calls
          BY <1>1
      <2> QED BY <2>1, <1>8, <1>10 DEF Calls
  <1>13. IsPrefix(routers[q].prefix, calls[k].path)
      BY <1>1, <1>8, <1>10, <1>12, PrefixChain
  <1>14. j \in Own(j)
      BY <1>2 DEF Own
  <1> QED BY <1>4, <1>6, <1>7, <1>11, <1>13, <1>14

\* In fiber a request passes what was mounted, before its route, on prefixes of its path:
\* all that guards the handler is among it.
LEMMA FiberGuarded ==
    ASSUME IInv, RouterInv, CallInv, framework = "fiber",
           NEW from \in [1..Len(stack) -> 0..Len(calls)], Mounts(from), NEW path,
           Taken(path) # 0, stack[Taken(path)].handler \in {"wrapped", "native"}
    PROVE  Guarded(MountOf(path), path, Chain(path))
PROOF
  <1> DEFINE i == Taken(path)
             k == MountOf(path)
             mws == stack[i].mws
             N == 1..Len(stack)
             Passes(n) == stack[n].kind = "use" /\ IsPrefix(stack[n].path, path) /\ n < i
             D == [n \in N |-> IF Passes(n) /\ from[n] # 0 THEN Own(from[n]) ELSE {}]
             U == UNION {D[n] : n \in N}
             flat == FlattenSeq(Fitting(path))
  <1>1. /\ i \in N /\ k \in 1..Len(calls) /\ from[i] = k /\ calls[k].op = "Handle"
        /\ calls[k].path = path /\ Lists(mws, Own(k))
      <2>1. Carried(k) = Own(k)
          BY DEF Carried
      <2> QED BY <2>1, TakenCall
  <1>2. stack \in Seq(Entries) /\ Len(stack) \in Nat /\ Len(calls) \in Nat /\ Len(stack) >= 2
      BY DEF IInv, MountInv, RootInv
  <1>3. mws \in Seq(Middlewares)
      BY <1>1, <1>2, EntryFields
  <1>4. Chain(path) = flat \o mws
      BY <1>1 DEF Chain, Fitting
  <1>5. Fitting(path) \in Seq(Seq(Middlewares)) /\ Len(Fitting(path)) = Len(stack)
        /\ Fitting(path) # <<>>
      BY <1>2, FittingSeq
  <1>6. \A n \in N : Fitting(path)[n] = IF Passes(n) THEN stack[n].mws ELSE <<>>
      BY <1>1 DEF Fitting
  <1>7. \A n \in N : from[n] \in 0..Len(calls) /\ (from[n] # 0 => from[n] \in 1..Len(calls))
      BY <1>2
  <1>8. \A a, b \in N : a < b /\ from[a] # 0 /\ from[b] # 0 => from[a] < from[b]
      BY DEF Mounts
  <1>9. ASSUME NEW n \in N
        PROVE  Lists(Fitting(path)[n], D[n])
      <2>1. CASE Passes(n) /\ from[n] # 0
          <3>1. EntryOf(n, from[n])
              BY <2>1 DEF Mounts
          <3>2. Lists(stack[n].mws, Own(from[n]))
              BY <3>1 DEF EntryOf, Carried
          <3> QED BY <2>1, <3>2, <1>6
      <2>2. CASE Passes(n) /\ from[n] = 0
          <3>1. Passing(stack[n].mws) = {}
              BY <2>2 DEF Mounts
          <3>2. \A x \in 1..Len(stack[n].mws) : stack[n].mws[x][2] = 0
              BY <3>1 DEF Passing
          <3>3. Lists(stack[n].mws, {})
              BY <3>1, <3>2 DEF Lists, InOrder
          <3> QED BY <2>2, <3>3, <1>6
      <2>3. CASE ~ Passes(n)
          BY <2>3, <1>6, ListsNone
      <2> QED BY <2>1, <2>2, <2>3
  <1>10. ASSUME NEW n \in N, NEW j \in D[n]
         PROVE  /\ j = from[n] /\ j # 0 /\ Passes(n) /\ j \in 1..Len(calls) /\ j < k
      <2>1. Passes(n) /\ from[n] # 0 /\ j \in Own(from[n])
          BY <1>10
      <2>2. j = from[n] /\ n < i
          BY <2>1 DEF Own
      <2>3. k # 0
          BY <1>1
      <2> QED BY <2>1, <2>2, <2>3, <1>1, <1>7, <1>8
  <1> HIDE DEF D
  <1>11. \A n, m \in N : n < m => \A a \in D[n], b \in D[m] : a < b
      BY <1>8, <1>10
  <1>12. flat \in Seq(Middlewares) /\ Lists(flat, U)
      <2> DEFINE seqs == Fitting(path)
      <2>1. /\ \A n \in 1..Len(seqs) : Lists(seqs[n], D[n])
            /\ \A n, m \in 1..Len(seqs) : n < m => \A a \in D[n], b \in D[m] : a < b
            /\ seqs \in Seq(Seq(Middlewares)) /\ seqs # <<>> /\ N = 1..Len(seqs)
          BY <1>5, <1>9, <1>11
      <2> HIDE DEF seqs, N
      <2>2. FlattenSeq(seqs) \in Seq(Middlewares)
            /\ Lists(FlattenSeq(seqs), UNION {D[n] : n \in 1..Len(seqs)})
          BY <2>1, ListsFlatten
      <2> QED BY <2>1, <2>2 DEF seqs
  <1>13. \A a \in U, b \in Own(k) : a < b
      BY <1>10 DEF Own
  <1>14. Lists(Chain(path), U \cup Own(k))
      <2> HIDE DEF flat, mws, U, k
      <2>1. Lists(flat \o mws, U \cup Own(k))
          BY <1>1, <1>3, <1>12, <1>13, ListsJoin
      <2> QED BY <2>1, <1>4
  <1>15. ASSUME NEW j \in Guards(k)
         PROVE  j \in U
      <2>1. j \in Own(j)
          BY <1>1, GuardsMounted
      <2>2. PICK n \in N : n < i /\ from[n] = j /\ stack[n].kind = "use"
                           /\ IsPrefix(stack[n].path, calls[k].path)
          BY <1>1, GuardsMounted
      <2>3. j # 0
          BY <1>15 DEF Guards
      <2>4. D[n] = Own(j)
          BY <2>2, <2>3, <1>1 DEF D
      <2> QED BY <2>1, <2>4
  <1>16. ASSUME NEW j \in U
         PROVE  j < k /\ calls[j].op # "Handle" /\ IsPrefix(calls[j].path, path) /\ j \in Nat
      <2>1. PICK n \in N : j \in D[n]
          OBVIOUS
      <2>2. j = from[n] /\ j # 0 /\ Passes(n) /\ j \in 1..Len(calls) /\ j < k
          BY <2>1, <1>10
      <2>3. EntryOf(n, j)
          BY <2>2 DEF Mounts
      <2>4. stack[n].kind = "use" /\ IsPrefix(stack[n].path, path)
          BY <2>2
      <2> QED BY <2>2, <2>3, <2>4 DEF EntryOf
  <1>17. Own(k) \subseteq Nat
      BY <1>1 DEF Own
  <1> HIDE DEF i, k, mws, U, flat
  <1>18. Guarded(k, path, Chain(path))
      <2> DEFINE S == U \cup Own(k)
      <2>1. S \subseteq Nat
          BY <1>16, <1>17
      <2>2. Guards(k) \cup (IF framework = "fiber" \/ calls[k].native THEN Own(k) ELSE {})
               \subseteq S
          BY <1>15
      <2>3. \A j \in S :
              \/ j \in Guards(k)
              \/ j \in (IF framework = "fiber" \/ calls[k].native THEN Own(k) ELSE {})
              \/ /\ framework = "fiber" /\ j < k /\ calls[j].op # "Handle"
                 /\ IsPrefix(calls[j].path, path)
          BY <1>16
      <2>4. Lists(Chain(path), S)
          BY <1>14
      <2> HIDE DEF S
      <2> QED BY <2>1, <2>2, <2>3, <2>4, GuardedLists
  <1> QED BY <1>18 DEF k

\* What guards a handler depends on what modules asked for only.
LEMMA GuardedSame ==
    ASSUME UNCHANGED <<framework, calls, routers>>, NEW k, NEW path, NEW chain,
           Guarded(k, path, chain)
    PROVE  Guarded(k, path, chain)'
PROOF
  <1>1. Guards(k)' = Guards(k)
      BY GuardsAre
  <1>2. Own(k)' = Own(k)
      BY DEF Own
  <1> QED BY <1>1, <1>2 DEF Guarded

\* So the last request stays guarded, whoever mounted its handler.
LEMMA GuardedNext ==
    ASSUME NEW k, NEW path, NEW chain, last'.path = path, last'.chain = chain,
           InModule' => MountedBy' = k /\ Guarded(k, path, chain)'
    PROVE  GuardedByGroups'
PROOF BY DEF GuardedByGroups, Guarded

\* What neither mounts nor handles a request leaves the last one as it was.
LEMMA GuardedStays ==
    ASSUME GuardedByGroups, UNCHANGED <<framework, calls, routers, last>>
    PROVE  GuardedByGroups'
PROOF
  <1>1. PICK k, path, chain : k = MountedBy /\ path = last.path /\ chain = last.chain
      OBVIOUS
  <1>2. MountedBy' = k
      BY <1>1 DEF MountedBy
  <1>3. InModule' => Guarded(k, path, chain)
      BY <1>1 DEF InModule, GuardedByGroups, Guarded
  <1>4. last'.path = path /\ last'.chain = chain
      BY <1>1
  <1> QED BY <1>2, <1>3, <1>4, GuardedSame, GuardedNext

\* A request that ends in the handler of a module has passed what guards it.
LEMMA RequestGuarded ==
    ASSUME IInv, RouterInv, CallInv, StackInv, NEW path, Request(path)
    PROVE  GuardedByGroups'
PROOF
  <1> DEFINE end == IF Taken(path) = 0 THEN "none" ELSE stack[Taken(path)].handler
  <1>1. UNCHANGED <<framework, calls, routers>> /\ framework \in {"echo", "fiber"}
      BY DEF Request, mountVars, IInv, TypeOK
  <1>2. /\ last'.path = path
        /\ \/ last'.chain = Chain(path) /\ last'.end = end
           \/ last'.end = "rejected"
      BY DEF Request
  <1>3. PICK from \in [1..Len(stack) -> 0..Len(calls)] : Mounts(from)
      BY DEF StackInv
  <1>4. PICK k, chain : k = MountOf(path) /\ chain = last'.chain
      OBVIOUS
  <1>5. ASSUME InModule'
        PROVE  MountedBy' = k /\ Guarded(k, path, chain)'
      <2>1. chain = Chain(path) /\ Taken(path) # 0
            /\ stack[Taken(path)].handler \in {"wrapped", "native"}
          BY <1>2, <1>4, <1>5 DEF InModule
      <2>2. MountedBy' = k
          BY <1>1, <1>2, <1>4 DEF MountedBy, MountOf
      <2>3. Guarded(k, path, chain)
          BY <2>1, <1>1, <1>3, <1>4, EchoGuarded, FiberGuarded
      <2> QED BY <2>2, <2>3, <1>1, GuardedSame
  <1> QED BY <1>2, <1>4, <1>5, GuardedNext

-----------------------------------------------------------------------------
(* The invariant of the groups *)

\* Before any call of a module the root router carries nothing, and what the servers mount
\* themselves carries no middleware of a module.
LEMMA InitGroups == Init => GroupInv
PROOF
  <1> SUFFICES ASSUME Init PROVE GroupInv
      OBVIOUS
  <1>1. IInv
      BY InitInv
  <1>2. /\ Len(routers) = 1 /\ Len(calls) = 0
        /\ routers[1] = [prefix |-> opt.rootPath, mws |-> <<>>, parent |-> 0, born |-> 0]
      BY DEF Init
  <1>3. RouterInv
      BY <1>2 DEF RouterInv
  <1>4. CallInv
      BY <1>2 DEF CallInv
  <1>5. EchoInv
      <2>1. Guarding(calls, routers, 1, Len(calls)) = {}
          BY <1>2 DEF Guarding
      <2>2. \A r \in 1..Len(routers) : r = 1
          BY <1>2
      <2>3. routers[1].mws = <<>> /\ Lists(<<>>, {})
          BY <1>2, ListsNone
      <2> QED BY <2>1, <2>2, <2>3 DEF EchoInv
  <1>6. StackInv
      <2>1. \A i \in 1..Len(stack) :
               stack[i].handler \notin {"wrapped", "native"} /\ Passing(stack[i].mws) = {}
          <3>1. Named(<<"auth">>) = <<<<"auth", 0>>>> /\ Named(<<"cors">>) = <<<<"cors", 0>>>>
              BY DEF Named
          <3>2. Passing(<<>>) = {} /\ Passing(Named(<<"auth">>)) = {}
                /\ Passing(Named(<<"cors">>)) = {} /\ Passing(opt.rootMiddlewares) = {}
              <4>1. Passing(opt.rootMiddlewares) = {} /\ Passing(<<>>) = {}
                  BY <1>1, ListsNone DEF IInv, OptInv, Lists
              <4> QED BY <4>1, <3>1 DEF Passing
          <3> DEFINE root == Route(<<>>, <<>>, "root")
                     stats == Route(<<"memstats">>, Named(<<"auth">>), "memstats")
                     cors == Middleware(<<>>, Named(<<"cors">>))
                     mine == Middleware(opt.rootPath, opt.rootMiddlewares)
                     Of(e) == e.handler \notin {"wrapped", "native"} /\ Passing(e.mws) = {}
          <3>3. Of(root) /\ Of(stats) /\ Of(cors) /\ Of(mine)
              BY <3>2 DEF Route, Middleware
          <3>4. CASE framework = "echo"
              <4>1. stack = <<root, stats>>
                  BY <3>4 DEF Init, EchoNewServer
              <4> HIDE DEF root, stats, cors, mine
              <4> QED BY <4>1, <3>3
          <3>5. CASE framework = "fiber"
              <4>1. stack = <<root, cors>>
                       \o (IF opt.rootMiddlewares = <<>> THEN <<>> ELSE <<mine>>)
                  BY <3>5 DEF Init, FiberNewServer
              <4> HIDE DEF root, stats, cors, mine
              <4>2. <<root, cors>> \o <<mine>> = <<root, cors, mine>>
                  <5> DEFINE S == {root, cors, mine}
                  <5>1. root \in S /\ cors \in S /\ mine \in S
                      OBVIOUS
                  <5> HIDE DEF S
                  <5> QED BY <5>1, OneMore
              <4>3. <<root, cors>> \o <<>> = <<root, cors>>
                  OBVIOUS
              <4>4. stack = <<root, cors>> \/ stack = <<root, cors, mine>>
                  BY <4>1, <4>2, <4>3
              <4> QED BY <4>4, <3>3
          <3> QED BY <3>4, <3>5, <1>1 DEF IInv, TypeOK
      <2> DEFINE from == [i \in 1..Len(stack) |-> 0]
      <2>2. from \in [1..Len(stack) -> 0..Len(calls)] /\ \A i \in 1..Len(stack) : from[i] = 0
          BY <1>2
      <2> HIDE DEF from
      <2>3. Mounts(from)
          <3>1. \A i, j \in 1..Len(stack) :
                   i < j /\ from[i] # 0 /\ from[j] # 0 => from[i] < from[j]
              BY <2>2
          <3>2. \A k \in 1..Len(calls) : FALSE
              BY <1>2
          <3> QED BY <2>1, <2>2, <3>1, <3>2 DEF Mounts
      <2>4. \E f \in [1..Len(stack) -> 0..Len(calls)] : Mounts(f)
          BY <2>2, <2>3
      <2> QED BY <2>4 DEF StackInv
  <1>7. FreshInv
      BY DEF Init, FreshInv
  <1>8. GuardedByGroups
      BY DEF Init, NoRequest, GuardedByGroups, InModule
  <1> QED BY <1>3, <1>4, <1>5, <1>6, <1>7, <1>8 DEF GroupInv

\* Every step keeps what holds of groups.
LEMMA NextGroups == IInv /\ GroupInv /\ [Next]_vars => GroupInv'
PROOF
  <1> SUFFICES ASSUME IInv, GroupInv, [Next]_vars PROVE GroupInv'
      OBVIOUS
  <1> USE DEF GroupInv
  <1>1. IInv'
      BY NextInv
  <1>2. ASSUME serve = "mount", UNCHANGED last
        PROVE  GuardedByGroups' /\ FreshInv'
      BY <1>2 DEF FreshInv, GuardedByGroups, InModule, NoRequest
  <1>3. CASE UNCHANGED vars
      <2>1. UNCHANGED <<framework, routers, calls, stack, last, serve>>
          BY <1>3 DEF vars
      <2>2. FreshInv'
          BY <2>1 DEF FreshInv
      <2> QED BY <2>1, <2>2, GroupsStay, GuardedStays
  <1>4. ASSUME NEW r \in 1..Len(routers), NEW p \in Patterns, NEW with \in BOOLEAN,
               Group(r, p, with)
        PROVE  GroupInv'
      <2>1. serve = "mount" /\ UNCHANGED last
          BY <1>4 DEF Group, Mounting
      <2> QED BY <2>1, <1>1, <1>2, <1>4, GroupGroups
  <1>5. ASSUME NEW r \in 1..Len(routers), Use(r)
        PROVE  GroupInv'
      <2>1. serve = "mount" /\ UNCHANGED last
          BY <1>5 DEF Use, Mounting
      <2> QED BY <2>1, <1>1, <1>2, <1>5, UseGroups
  <1>6. ASSUME NEW r \in 1..Len(routers), NEW p \in Patterns, NEW with \in BOOLEAN,
               NEW native \in BOOLEAN, Handle(r, p, with, native)
        PROVE  GroupInv'
      <2>1. serve = "mount" /\ UNCHANGED last
          BY <1>6 DEF Handle, Mounting
      <2> QED BY <2>1, <1>1, <1>2, <1>6, HandleGroups
  <1>7. CASE Built
      <2>1. serve = "mount" /\ UNCHANGED last
          BY <1>7 DEF Built
      <2> QED BY <2>1, <1>2, <1>7, BuiltGroups
  <1>8. CASE Serve \/ Shutdown \/ MuxClosed
      <2>1. UNCHANGED <<framework, routers, calls, stack, last>>
          BY <1>8 DEF Serve, Shutdown, MuxClosed, mountVars
      <2>2. serve' # "mount"
          BY <1>8 DEF Serve, Shutdown, MuxClosed, ServeEnds, EchoServeEnds, FiberServeEnds
      <2> QED BY <2>1, <2>2, GroupsStay, GuardedStays DEF FreshInv
  <1>9. ASSUME NEW p, Request(p)
        PROVE  GroupInv'
      <2>1. UNCHANGED <<framework, routers, calls, stack>> /\ serve = "running"
          BY <1>9 DEF Request, mountVars
      <2>2. serve' # "mount"
          BY <2>1, <1>9 DEF Request
      <2> QED BY <2>1, <2>2, <1>9, GroupsStay, RequestGuarded DEF FreshInv
  <1> QED BY <1>3, <1>4, <1>5, <1>6, <1>7, <1>8, <1>9 DEF Next

\* In whatever order modules make groups, use middlewares and mount handlers: what a
\* router carries, and what stands in front of a route, is what was given to the routers
\* of its line so far.
THEOREM RestGroupsInductive == Spec => [](IInv /\ GroupInv)
PROOF
  <1>1. Init => IInv /\ GroupInv
      BY InitInv, InitGroups
  <1>2. IInv /\ GroupInv /\ [Next]_vars => (IInv /\ GroupInv)'
      BY NextInv, NextGroups
  <1> QED BY <1>1, <1>2, PTL DEF Spec

\* No request reaches a handler of a module past the middlewares that guard it, they come
\* in the order they were given, and no others are in the way than with fiber those of
\* routers whose path is a prefix.
THEOREM RestGuarded == Spec => []GuardedByGroups
PROOF
  <1>1. IInv /\ GroupInv => GuardedByGroups
      BY DEF GroupInv
  <1> QED BY <1>1, RestGroupsInductive, PTL
=============================================================================
