----------------------------- MODULE MqttRouter -----------------------------
(***************************************************************************)
(* The topic router of the MQTT subscriber (mqtt-broker/router.go): a      *)
(* prefix tree of topic levels with static and parameter children.         *)
(* NewMQTTSubscriber mounts the patterns of all modules one after the      *)
(* other, the order being theirs, and match looks the topic of a message   *)
(* up in the finished tree.                                                *)
(*                                                                         *)
(* A node is the sequence of the edges that lead to it.  Patterns and      *)
(* topics are sequences of levels; Empty is the level between two slashes. *)
(* The tree takes the levels "+" and "#" of a pattern for static ones; in  *)
(* the filter the worker subscribes to they are wildcards.                 *)
(*                                                                         *)
(* External: which topics the broker delivers for a subscribed filter.     *)
(***************************************************************************)
EXTENDS Naturals, Sequences, FiniteSets, SequencesExt

CONSTANTS
    Tokens,     \* levels of topics
    Names,      \* parameter names: the level ":id" is the name id
    Plus, Hash, \* the levels "+" and "#"
    Empty,      \* the level without characters
    Param,      \* the edge to a parameter child
    None,       \* no node, no handler
    Patterns,   \* patterns the modules may mount
    Topics,     \* topics messages may come with
    MaxRoutes   \* bound: patterns mounted

ASSUME MqttRouterAssumption ==
    /\ Empty \in Tokens
    /\ Tokens \cap Names = {} /\ {Plus, Hash} \cap (Tokens \cup Names) = {}
    /\ {Param, None} \cap (Tokens \cup Names \cup {Plus, Hash}) = {}
    /\ Param # None /\ Plus # Hash
    /\ None \notin Seq(Tokens \cup Names \cup {Plus, Hash, Param})
    /\ Patterns \subseteq Seq(Tokens \cup Names \cup {Plus, Hash})
    /\ Topics \subseteq Seq(Tokens) \ {<<>>}
    /\ MaxRoutes \in Nat

VARIABLES
    nodes,      \* the nodes of the tree
    paramName,  \* the name of each parameter node
    handler,    \* the pattern whose handler each node has, or None
    mounted,    \* history: patterns mounted so far
    panicked    \* the constructor panicked

vars == <<nodes, paramName, handler, mounted, panicked>>

Edges == Tokens \cup {Plus, Hash, Param}
IsParam(n) == n # <<>> /\ Last(n) = Param

TypeOK ==
    /\ <<>> \in nodes /\ nodes \subseteq Seq(Edges)
    /\ \A n \in nodes : n = <<>> \/ Front(n) \in nodes
    /\ paramName \in [{n \in nodes : IsParam(n)} -> Names]
    /\ handler \in [nodes -> Patterns \cup {None}]
    /\ mounted \subseteq Patterns
    /\ panicked \in BOOLEAN

Init ==
    /\ nodes = {<<>>}
    /\ paramName = [n \in {} |-> None]
    /\ handler = [n \in {<<>>} |-> None]
    /\ mounted = {}
    /\ panicked = FALSE

-----------------------------------------------------------------------------
(* addRoute *)

\* strings.Trim(path, "/")
Trim(path) ==
    LET full == {i \in DOMAIN path : path[i] # Empty}
    IN  IF full = {} THEN <<>>
        ELSE SubSeq(path, CHOOSE i \in full : \A j \in full : i <= j,
                          CHOOSE i \in full : \A j \in full : i >= j)

\* Variant: a parameter level finds only the parameter child.
NewEdge(n, level) == IF level \in Names THEN Param ELSE level

\* insertChild.  A parameter node has the path "", and findChild takes a static
\* child with that path for it.
Edge(n, level) ==
    IF level \notin Names THEN level
    ELSE IF Append(n, Empty) \in nodes THEN Empty ELSE Param

\* The node that insertChild returns for every level of a pattern.
Node(pattern) ==
    FoldLeft(LAMBDA n, level : Append(n, Edge(n, level)), <<>>, Trim(pattern))

\* Variant: only the last node is linked into the tree.
LastNode(pattern) == {Node(pattern)}

PathNodes(pattern) == {SubSeq(Node(pattern), 1, i) : i \in 0..Len(Node(pattern))}

\* Variant: a parameter node keeps its first name whatever the later ones are.
NoClash(pattern) == FALSE

\* "Param name must be same for"
NameClash(pattern) ==
    \E n \in PathNodes(pattern) \cap nodes :
        IsParam(n) /\ paramName[n] # Trim(pattern)[Len(n)]

\* Variant: a second handler of a node replaces the first.
NotTaken(pattern) == FALSE

\* "'%s' has already a handler"
Taken(pattern) == Node(pattern) \in nodes /\ handler[Node(pattern)] # None

addRoute(pattern) ==
    /\ ~ panicked /\ Cardinality(mounted) < MaxRoutes
    /\ ~ NameClash(pattern) /\ ~ Taken(pattern)
    /\ LET all == nodes \cup PathNodes(pattern)
       IN  /\ nodes' = all
           /\ paramName' = [n \in {x \in all : IsParam(x)} |->
                  IF n \in nodes THEN paramName[n] ELSE Trim(pattern)[Len(n)]]
           /\ handler' = [n \in all |->
                  IF n = Node(pattern) THEN pattern
                  ELSE IF n \in nodes THEN handler[n] ELSE None]
    /\ mounted' = mounted \cup {pattern}
    /\ UNCHANGED panicked

\* The panic ends the constructor, and with it the program.
addRoutePanics(pattern) ==
    /\ ~ panicked
    /\ NameClash(pattern) \/ Taken(pattern)
    /\ panicked' = TRUE
    /\ UNCHANGED <<nodes, paramName, handler, mounted>>

-----------------------------------------------------------------------------
(* match *)

\* A static child, else the parameter child; there is no way back.
Child(n, token) ==
    IF n = None THEN None
    ELSE IF Append(n, token) \in nodes THEN Append(n, token)
    ELSE IF Append(n, Param) \in nodes THEN Append(n, Param) ELSE None

\* Variant: the walk ends at the first parameter child.
EndsAtParam(topic) ==
    FoldLeft(LAMBDA n, token : IF n # None /\ IsParam(n) THEN n ELSE Child(n, token),
             <<>>, Trim(topic))

MatchNode(topic) == FoldLeft(Child, <<>>, Trim(topic))

\* The handler match returns; a node without one has no functions to run.
match(topic) == LET n == MatchNode(topic) IN IF n = None THEN None ELSE handler[n]

\* The params of a match, the value of a repeated name being the last.
params(topic) ==
    LET n == MatchNode(topic)
        at(x) == {i \in DOMAIN n : n[i] = Param /\ paramName[SubSeq(n, 1, i)] = x}
    IN  [x \in {y \in Names : at(y) # {}} |->
            Trim(topic)[CHOOSE i \in at(x) : \A j \in at(x) : i >= j]]

-----------------------------------------------------------------------------
Next == \E pattern \in Patterns : addRoute(pattern) \/ addRoutePanics(pattern)

Spec == Init /\ [][Next]_vars

-----------------------------------------------------------------------------
(* What a pattern means *)

\* normalizePath, the filter Serve subscribes to.
Filter(pattern) ==
    LET levels == Trim(pattern)
    IN  [i \in DOMAIN levels |-> IF levels[i] \in Names THEN Plus ELSE levels[i]]

\* What the broker delivers for a filter: "+" stands for one level and a "#" at the end
\* for all that remain, if any; an empty filter, or a "#" elsewhere, is refused.
Fits(filter, topic) ==
    LET n == Len(filter)
    IN  /\ n > 0 /\ \A i \in 1..n - 1 : filter[i] # Hash
        /\ Len(topic) = n \/ (filter[n] = Hash /\ Len(topic) >= n - 1)
        /\ \A i \in 1..n : filter[i] \in {Plus, Hash} \/ filter[i] = topic[i]

Delivers(pattern, topic) == Fits(Filter(pattern), topic)

Bindings(pattern, topic) ==
    LET p == Trim(pattern)
        at(x) == {i \in DOMAIN p : p[i] = x}
    IN  [x \in {y \in Names : at(y) # {}} |->
            topic[CHOOSE i \in at(x) : \A j \in at(x) : i >= j]]

Plain(levels) == \A i \in DOMAIN levels : levels[i] # Empty
Literal(levels) == \A i \in DOMAIN levels : levels[i] \notin {Plus, Hash}
Candidates(topic) == {p \in mounted : Delivers(p, topic)}

\* No parameter child has static siblings.
Unambiguous == \A n \in nodes : IsParam(n) =>
    \A token \in Tokens : Append(Front(n), token) \notin nodes

-----------------------------------------------------------------------------
(* Properties *)

\* For a topic without empty levels, match returns the handler of a mounted pattern
\* the topic fits, and the params are those of that pattern with its own names,
\* however many patterns share its nodes.
MatchSound ==
    \A topic \in Topics :
        Plain(topic) /\ match(topic) # None =>
            /\ Delivers(match(topic), topic)
            /\ params(topic) = Bindings(match(topic), topic)

\* Two patterns never share a node with a handler: none is replaced, and a pattern
\* mounted without a panic keeps its handler in the tree.
HandlersKept == \A p \in mounted : \E n \in nodes : handler[n] = p

\* Where no parameter has static siblings, every message the broker delivers for a
\* subscription finds a handler.  Messages that come for patterns with "+" or "#" alone
\* are not meant: the tree knows no wildcards and has no handler for them.
UnambiguousComplete ==
    Unambiguous /\ (\A p \in mounted : Plain(Trim(p))) =>
        \A topic \in Topics :
            Plain(topic) /\ (\E p \in Candidates(topic) : Literal(Trim(p)))
                => match(topic) # None

\* What the constructor logs of every pattern it mounts, "(topic): ... --> (module): ...":
\* every message the broker delivers for it is given to a handler.  The code does not
\* keep it: match does not come back from a static child.
TopicsHandled ==
    \A topic \in Topics :
        Plain(topic) /\ Candidates(topic) # {} => match(topic) # None
=============================================================================
