-------------------------- MODULE MqttRouterProofs --------------------------
(***************************************************************************)
(* The safety of the topic router for any levels, patterns and topics.     *)
(*                                                                         *)
(* The walks of insertChild and match are folds over the levels of a path. *)
(* The provers cannot apply an induction theorem that takes an operator,   *)
(* so induction over a path is done here on sets of numbers (CountUp), and *)
(* the recursive function behind a fold is shown to exist (IterExists).    *)
(***************************************************************************)
EXTENDS MqttRouter, SequenceTheorems, WellFoundedInduction, TLAPS

-----------------------------------------------------------------------------
(* The inductive invariant *)

\* A node stands for a pattern, given the names of the parameter nodes: a parameter edge
\* for a parameter of that name, any other edge for that static level, or for a parameter
\* where insertChild took a static child with the path "" for the parameter child.
Leads(names, n, pattern) ==
    LET levels == Trim(pattern) IN
    /\ Len(n) = Len(levels)
    /\ \A i \in 1..Len(n) :
          IF n[i] = Param
          THEN levels[i] \in Names /\ names[SubSeq(n, 1, i)] = levels[i]
          ELSE n[i] = levels[i] \/ (n[i] = Empty /\ levels[i] \in Names)

\* The tree is closed under prefixes.
PathsInv == \A n \in nodes : \A i \in 0..Len(n) : SubSeq(n, 1, i) \in nodes

\* Who has a handler is the node of a mounted pattern.
HandlerInv ==
    \A n \in nodes : handler[n] # None =>
        handler[n] \in mounted /\ Leads(paramName, n, handler[n])

\* An edge without characters comes from a pattern with such a level.
PlainInv == (\A p \in mounted : Plain(Trim(p))) => \A n \in nodes : Plain(n)

IInv == TypeOK /\ PathsInv /\ HandlerInv /\ PlainInv /\ HandlersKept

-----------------------------------------------------------------------------
(* Induction on numbers, and folds *)

\* What holds of 0 and goes from each number to the next one holds up to n.
LEMMA CountUp ==
    ASSUME NEW n \in Nat, NEW T, 0 \in T,
           \A k \in 0..(n - 1) : k \in T => k + 1 \in T
    PROVE  \A k \in 0..n : k \in T
PROOF
  <1> DEFINE B == {k \in 0..n : k \notin T}
  <1> SUFFICES ASSUME B # {} PROVE FALSE
      OBVIOUS
  <1>1. PICK x \in B : \A y \in B : ~ (<<y, x>> \in OpToRel(<, Nat))
      <2>1. B \subseteq Nat
          OBVIOUS
      <2> QED BY <2>1, WFMin, NatLessThanWellFounded, Zenon
  <1>2. x \in 1..n /\ x \notin T
      OBVIOUS
  <1>3. x - 1 \in 0..(n - 1) /\ x - 1 \in Nat /\ (x - 1) + 1 = x
      BY <1>2
  <1>4. x - 1 \in B
      <2>1. x - 1 \notin T
          BY <1>2, <1>3
      <2> QED BY <2>1, <1>3
  <1>5. <<x - 1, x>> \in OpToRel(<, Nat)
      BY <1>2, <1>3 DEF OpToRel
  <1> QED BY <1>1, <1>4, <1>5

\* The largest number of a set that reaches up to n.
LEMMA MaxOfTop ==
    ASSUME NEW n \in Nat, NEW s \in SUBSET (1..n), n \in s
    PROVE  Max(s) = n
PROOF
  <1>1. \A x \in s : n >= x
      OBVIOUS
  <1>2. \A x \in s : (\A y \in s : x >= y) => x = n
      OBVIOUS
  <1> QED BY <1>1, <1>2 DEF Max

\* The largest number of a set is one of it.
LEMMA MaxInside ==
    ASSUME NEW n \in Nat, NEW s \in SUBSET (1..n), s # {}
    PROVE  Max(s) \in s
PROOF
  <1> DEFINE D == {n - x : x \in s}
  <1>1. D \subseteq Nat /\ D # {}
      <2>1. \A x \in s : n - x \in Nat
          OBVIOUS
      <2>2. PICK x \in s : TRUE
          OBVIOUS
      <2>3. n - x \in D
          OBVIOUS
      <2> QED BY <2>1, <2>3
  <1>2. PICK d \in D : \A e \in D : ~ (<<e, d>> \in OpToRel(<, Nat))
      BY <1>1, WFMin, NatLessThanWellFounded, Zenon
  <1>3. PICK x \in s : d = n - x
      OBVIOUS
  <1>4. ASSUME NEW y \in s
        PROVE  x >= y
      <2>1. n - y \in D /\ n - y \in Nat /\ d \in Nat
          BY <1>1
      <2>2. ~ (n - y < d)
          BY <2>1, <1>2 DEF OpToRel
      <2> QED BY <2>2, <1>3
  <1> QED BY <1>4 DEF Max

\* g is the recursive function of a fold from the left over positions 1 to n: F gives the
\* next value from the value so far and the position of the element.
Folds(g, base, n, F) ==
    \A s \in SUBSET (1..n) :
        g[s] = IF s = {} THEN base ELSE F[<<g[s \ {Max(s)}], Max(s)>>]

\* There is such a function.
LEMMA IterExists ==
    ASSUME NEW A, NEW base \in A, NEW n \in Nat, NEW F \in [A \X (1..n) -> A]
    PROVE  \E g \in [SUBSET (1..n) -> A] : Folds(g, base, n, F)
PROOF
  <1> DEFINE Good(g, k) == Folds(g, base, k, F)
             T == {k \in 0..n : \E g \in [SUBSET (1..k) -> A] : Good(g, k)}
  <1>1. 0 \in T
      <2> DEFINE g == [s \in SUBSET (1..0) |-> base]
      <2>1. SUBSET (1..0) = {{}}
          OBVIOUS
      <2>2. g \in [SUBSET (1..0) -> A]
          OBVIOUS
      <2>3. Good(g, 0)
          BY <2>1 DEF Folds
      <2> HIDE DEF g, Good
      <2>4. \E g2 \in [SUBSET (1..0) -> A] : Good(g2, 0)
          BY <2>2, <2>3
      <2>5. 0 \in 0..n
          OBVIOUS
      <2> QED BY <2>4, <2>5
  <1>2. ASSUME NEW k \in 0..(n - 1), k \in T
        PROVE  k + 1 \in T
      <2>1. PICK g \in [SUBSET (1..k) -> A] : Good(g, k)
          BY <1>2
      <2> DEFINE h == [s \in SUBSET (1..(k + 1)) |->
                          IF s \in SUBSET (1..k) THEN g[s]
                          ELSE F[<<g[s \ {k + 1}], k + 1>>]]
      <2>2. SUBSET (1..k) \subseteq SUBSET (1..(k + 1)) /\ k + 1 \in 1..n /\ k + 1 \in 0..n
          OBVIOUS
      <2>3. ASSUME NEW s \in SUBSET (1..(k + 1)), s \notin SUBSET (1..k)
            PROVE  Max(s) = k + 1 /\ s \ {k + 1} \in SUBSET (1..k) /\ s # {}
          <3>1. k + 1 \in s
              BY <2>3
          <3>2. Max(s) = k + 1
              BY <3>1, MaxOfTop
          <3> QED BY <3>1, <3>2
      <2>4. h \in [SUBSET (1..(k + 1)) -> A]
          <3> SUFFICES ASSUME NEW s \in SUBSET (1..(k + 1)) PROVE h[s] \in A
              BY Zenon
          <3>1. CASE s \in SUBSET (1..k)
              BY <3>1
          <3>2. CASE s \notin SUBSET (1..k)
              <4>1. s \ {k + 1} \in SUBSET (1..k)
                  BY <2>3, <3>2
              <4>2. g[s \ {k + 1}] \in A
                  BY <4>1
              <4>3. F[<<g[s \ {k + 1}], k + 1>>] \in A
                  BY <4>2, <2>2
              <4> QED BY <4>3, <3>2
          <3> QED BY <3>1, <3>2
      <2>5. Good(h, k + 1)
          <3> SUFFICES ASSUME NEW s \in SUBSET (1..(k + 1))
                       PROVE  h[s] = IF s = {} THEN base
                                     ELSE F[<<h[s \ {Max(s)}], Max(s)>>]
              BY DEF Folds
          <3>1. CASE s \in SUBSET (1..k)
              <4>1. h[s] = g[s] /\ s \ {Max(s)} \in SUBSET (1..k)
                  BY <3>1
              <4>2. h[s \ {Max(s)}] = g[s \ {Max(s)}]
                  BY <4>1, <2>2
              <4> QED BY <4>1, <4>2, <2>1, <3>1 DEF Folds
          <3>2. CASE s \notin SUBSET (1..k)
              <4>1. Max(s) = k + 1 /\ s \ {k + 1} \in SUBSET (1..k) /\ s # {}
                  BY <2>3, <3>2
              <4>2. h[s \ {k + 1}] = g[s \ {k + 1}]
                  BY <4>1, <2>2
              <4>3. h[s] = F[<<g[s \ {k + 1}], k + 1>>]
                  BY <3>2
              <4> QED BY <4>1, <4>2, <4>3
          <3> QED BY <3>1, <3>2
      <2> HIDE DEF h, Good
      <2>6. \E g2 \in [SUBSET (1..(k + 1)) -> A] : Good(g2, k + 1)
          BY <2>4, <2>5
      <2> QED BY <2>6, <2>2
  <1>3. n \in T
      <2> HIDE DEF T
      <2>1. n \in 0..n
          OBVIOUS
      <2> QED BY <1>1, <1>2, <2>1, CountUp
  <1>4. PICK g \in [SUBSET (1..n) -> A] : Good(g, n)
      BY <1>3
  <1> QED BY <1>4

-----------------------------------------------------------------------------
(* The walks *)

Levels == Tokens \cup Names \cup {Plus, Hash}

\* What insertChild returns along the levels of a pattern.
LEMMA NodeWalk ==
    ASSUME NEW pattern, Trim(pattern) \in Seq(Levels)
    PROVE  \E w \in [0..Len(Trim(pattern)) -> Seq(Edges)] :
              /\ w[0] = <<>>
              /\ \A k \in 1..Len(Trim(pattern)) :
                    w[k] = Append(w[k - 1], Edge(w[k - 1], Trim(pattern)[k]))
              /\ Node(pattern) = w[Len(Trim(pattern))]
PROOF
  <1> DEFINE levels == Trim(pattern)
             n == Len(levels)
             Op(m, level) == Append(m, Edge(m, level))
             A == Seq(Edges)
             F == [p \in A \X (1..n) |-> Op(p[1], levels[p[2]])]
             iter == CHOOSE g : g = [s \in SUBSET (DOMAIN levels) |->
                        IF s = {} THEN <<>>
                        ELSE Op(g[s \ {Max(s)}], levels[Max(s)])]
             w == [k \in 0..n |-> iter[1..k]]
  <1>1. n \in Nat /\ DOMAIN levels = 1..n /\ <<>> \in A
      OBVIOUS
  <1>2. Node(pattern) = iter[DOMAIN levels]
      BY DEF Node, FoldLeft, MapThenFoldSet
  <1>3. \A m \in A, k \in 1..n : Op(m, levels[k]) \in A
      <2> SUFFICES ASSUME NEW m \in A, NEW k \in 1..n PROVE Op(m, levels[k]) \in A
          BY Zenon
      <2>1. levels[k] \in Levels
          OBVIOUS
      <2>2. Edge(m, levels[k]) \in Edges
          BY <2>1, MqttRouterAssumption DEF Edge, Edges, Levels
      <2> QED BY <2>2, AppendProperties
  <1>4. F \in [A \X (1..n) -> A]
      <2> HIDE DEF n, A, Op
      <2> QED BY <1>3
  <1>5. PICK g \in [SUBSET (1..n) -> A] : Folds(g, <<>>, n, F)
      <2> HIDE DEF n, A, F
      <2>1. n \in Nat /\ <<>> \in A
          BY <1>1
      <2> QED BY <2>1, <1>4, IterExists
  <1>6. \A s \in SUBSET (1..n) :
           iter[s] = IF s = {} THEN <<>> ELSE Op(iter[s \ {Max(s)}], levels[Max(s)])
      <2>1. ASSUME NEW s \in SUBSET (1..n), s # {}
            PROVE  F[<<g[s \ {Max(s)}], Max(s)>>] = Op(g[s \ {Max(s)}], levels[Max(s)])
          <3>1. Max(s) \in 1..n
              <4>1. Max(s) \in s
                  BY <2>1, <1>1, MaxInside
              <4> QED BY <4>1
          <3>2. g[s \ {Max(s)}] \in A
              OBVIOUS
          <3> HIDE DEF Op, A, n, levels
          <3> QED BY <3>1, <3>2
      <2>2. g = [s \in SUBSET (DOMAIN levels) |->
                   IF s = {} THEN <<>> ELSE Op(g[s \ {Max(s)}], levels[Max(s)])]
          <3> HIDE DEF Op, A, F, n
          <3>1. g = [s \in SUBSET (1..n) |-> g[s]]
              OBVIOUS
          <3>2. [s \in SUBSET (1..n) |-> g[s]] = [s \in SUBSET (1..n) |->
                   IF s = {} THEN <<>> ELSE Op(g[s \ {Max(s)}], levels[Max(s)])]
              BY <2>1, <1>5 DEF Folds
          <3> QED BY <3>1, <3>2, <1>1
      <2>3. iter = [s \in SUBSET (DOMAIN levels) |->
                   IF s = {} THEN <<>> ELSE Op(iter[s \ {Max(s)}], levels[Max(s)])]
          <3> HIDE DEF Op, levels
          <3> QED BY <2>2
      <2> HIDE DEF iter, Op, n
      <2> QED BY <2>3, <1>1
  <1>7. w[0] = <<>>
      <2> HIDE DEF iter, n
      <2>1. {} \in SUBSET (1..n) /\ 1..0 = {} /\ 0 \in 0..n
          BY <1>1
      <2> QED BY <2>1, <1>6
  <1>8. \A k \in 1..n : w[k] = Op(w[k - 1], levels[k])
      <2> HIDE DEF iter, n, Op, levels
      <2> SUFFICES ASSUME NEW k \in 1..n PROVE w[k] = Op(w[k - 1], levels[k])
          OBVIOUS
      <2>1. 1..k \in SUBSET (1..n) /\ 1..k # {} /\ k \in 1..k
          <3>1. n \in Nat /\ k \in Nat /\ 1 <= k /\ k <= n
              BY <1>1
          <3>2. k \in 1..k
              BY <3>1
          <3>3. \A i \in 1..k : i \in 1..n
              BY <3>1
          <3> QED BY <3>2, <3>3
      <2>2. Max(1..k) = k
          <3>1. k \in Nat /\ 1..k \in SUBSET (1..k)
              BY <1>1
          <3> QED BY <3>1, <2>1, MaxOfTop
      <2>3. (1..k) \ {k} = 1..(k - 1) /\ k \in 0..n /\ k - 1 \in 0..n
          BY <1>1
      <2>4. iter[1..k] = Op(iter[(1..k) \ {Max(1..k)}], levels[Max(1..k)])
          BY <2>1, <1>6
      <2> QED BY <2>2, <2>3, <2>4
  <1>9. \A k \in 0..n : w[k] \in A
      <2> DEFINE T == {k \in 0..n : w[k] \in A}
      <2>1. 0 \in T
          <3>1. 0 \in 0..n
              BY <1>1
          <3> HIDE DEF w, n, A
          <3> QED BY <1>1, <1>7, <3>1
      <2>2. ASSUME NEW k \in 0..(n - 1), k \in T PROVE k + 1 \in T
          <3>1. k + 1 \in 1..n /\ (k + 1) - 1 = k /\ k + 1 \in 0..n
              BY <1>1
          <3>2. w[k + 1] = Op(w[k], levels[k + 1])
              BY <3>1, <1>8
          <3>3. w[k] \in A
              BY <2>2
          <3> HIDE DEF w, A, Op, levels, n
          <3> QED BY <3>1, <3>2, <3>3, <1>3
      <2> HIDE DEF T
      <2>3. \A k \in 0..n : k \in T
          BY <2>1, <2>2, <1>1, CountUp
      <2> QED BY <2>3 DEF T
  <1>10. w \in [0..n -> A] /\ w[n] = Node(pattern)
      <2> HIDE DEF iter, A
      <2>1. n \in 0..n
          BY <1>1
      <2> QED BY <1>9, <1>2, <1>1, <2>1
  <1> HIDE DEF iter, F, w
  <1> QED BY <1>7, <1>8, <1>10
\* The nodes match goes through along the levels of a topic.
LEMMA MatchWalk ==
    ASSUME NEW topic, nodes \subseteq Seq(Edges), Trim(topic) \in Seq(Tokens)
    PROVE  \E w \in [0..Len(Trim(topic)) -> Seq(Edges) \cup {None}] :
              /\ w[0] = <<>>
              /\ \A k \in 1..Len(Trim(topic)) :
                    w[k] = Child(w[k - 1], Trim(topic)[k])
              /\ MatchNode(topic) = w[Len(Trim(topic))]
PROOF
  <1> DEFINE levels == Trim(topic)
             n == Len(levels)
             Op(m, level) == Child(m, level)
             A == Seq(Edges) \cup {None}
             F == [p \in A \X (1..n) |-> Op(p[1], levels[p[2]])]
             iter == CHOOSE g : g = [s \in SUBSET (DOMAIN levels) |->
                        IF s = {} THEN <<>>
                        ELSE Op(g[s \ {Max(s)}], levels[Max(s)])]
             w == [k \in 0..n |-> iter[1..k]]
  <1>1. n \in Nat /\ DOMAIN levels = 1..n /\ <<>> \in A
      OBVIOUS
  <1>2. MatchNode(topic) = iter[DOMAIN levels]
      BY DEF MatchNode, FoldLeft, MapThenFoldSet
  <1>3. \A m \in A, k \in 1..n : Op(m, levels[k]) \in A
      <2> SUFFICES ASSUME NEW m \in A, NEW k \in 1..n PROVE Op(m, levels[k]) \in A
          BY Zenon
      <2> QED BY DEF Child
  <1>4. F \in [A \X (1..n) -> A]
      <2> HIDE DEF n, A, Op
      <2> QED BY <1>3
  <1>5. PICK g \in [SUBSET (1..n) -> A] : Folds(g, <<>>, n, F)
      <2> HIDE DEF n, A, F
      <2>1. n \in Nat /\ <<>> \in A
          BY <1>1
      <2> QED BY <2>1, <1>4, IterExists
  <1>6. \A s \in SUBSET (1..n) :
           iter[s] = IF s = {} THEN <<>> ELSE Op(iter[s \ {Max(s)}], levels[Max(s)])
      <2>1. ASSUME NEW s \in SUBSET (1..n), s # {}
            PROVE  F[<<g[s \ {Max(s)}], Max(s)>>] = Op(g[s \ {Max(s)}], levels[Max(s)])
          <3>1. Max(s) \in 1..n
              <4>1. Max(s) \in s
                  BY <2>1, <1>1, MaxInside
              <4> QED BY <4>1
          <3>2. g[s \ {Max(s)}] \in A
              OBVIOUS
          <3> HIDE DEF Op, A, n, levels
          <3> QED BY <3>1, <3>2
      <2>2. g = [s \in SUBSET (DOMAIN levels) |->
                   IF s = {} THEN <<>> ELSE Op(g[s \ {Max(s)}], levels[Max(s)])]
          <3> HIDE DEF Op, A, F, n
          <3>1. g = [s \in SUBSET (1..n) |-> g[s]]
              OBVIOUS
          <3>2. [s \in SUBSET (1..n) |-> g[s]] = [s \in SUBSET (1..n) |->
                   IF s = {} THEN <<>> ELSE Op(g[s \ {Max(s)}], levels[Max(s)])]
              BY <2>1, <1>5 DEF Folds
          <3> QED BY <3>1, <3>2, <1>1
      <2>3. iter = [s \in SUBSET (DOMAIN levels) |->
                   IF s = {} THEN <<>> ELSE Op(iter[s \ {Max(s)}], levels[Max(s)])]
          <3> HIDE DEF Op, levels
          <3> QED BY <2>2
      <2> HIDE DEF iter, Op, n
      <2> QED BY <2>3, <1>1
  <1>7. w[0] = <<>>
      <2> HIDE DEF iter, n
      <2>1. {} \in SUBSET (1..n) /\ 1..0 = {} /\ 0 \in 0..n
          BY <1>1
      <2> QED BY <2>1, <1>6
  <1>8. \A k \in 1..n : w[k] = Op(w[k - 1], levels[k])
      <2> HIDE DEF iter, n, Op, levels
      <2> SUFFICES ASSUME NEW k \in 1..n PROVE w[k] = Op(w[k - 1], levels[k])
          OBVIOUS
      <2>1. 1..k \in SUBSET (1..n) /\ 1..k # {} /\ k \in 1..k
          <3>1. n \in Nat /\ k \in Nat /\ 1 <= k /\ k <= n
              BY <1>1
          <3>2. k \in 1..k
              BY <3>1
          <3>3. \A i \in 1..k : i \in 1..n
              BY <3>1
          <3> QED BY <3>2, <3>3
      <2>2. Max(1..k) = k
          <3>1. k \in Nat /\ 1..k \in SUBSET (1..k)
              BY <1>1
          <3> QED BY <3>1, <2>1, MaxOfTop
      <2>3. (1..k) \ {k} = 1..(k - 1) /\ k \in 0..n /\ k - 1 \in 0..n
          BY <1>1
      <2>4. iter[1..k] = Op(iter[(1..k) \ {Max(1..k)}], levels[Max(1..k)])
          BY <2>1, <1>6
      <2> QED BY <2>2, <2>3, <2>4
  <1>9. \A k \in 0..n : w[k] \in A
      <2> DEFINE T == {k \in 0..n : w[k] \in A}
      <2>1. 0 \in T
          <3>1. 0 \in 0..n
              BY <1>1
          <3> HIDE DEF w, n, A
          <3> QED BY <1>1, <1>7, <3>1
      <2>2. ASSUME NEW k \in 0..(n - 1), k \in T PROVE k + 1 \in T
          <3>1. k + 1 \in 1..n /\ (k + 1) - 1 = k /\ k + 1 \in 0..n
              BY <1>1
          <3>2. w[k + 1] = Op(w[k], levels[k + 1])
              BY <3>1, <1>8
          <3>3. w[k] \in A
              BY <2>2
          <3> HIDE DEF w, A, Op, levels, n
          <3> QED BY <3>1, <3>2, <3>3, <1>3
      <2> HIDE DEF T
      <2>3. \A k \in 0..n : k \in T
          BY <2>1, <2>2, <1>1, CountUp
      <2> QED BY <2>3 DEF T
  <1>10. w \in [0..n -> A] /\ w[n] = MatchNode(topic)
      <2> HIDE DEF iter, A
      <2>1. n \in 0..n
          BY <1>1
      <2> QED BY <1>9, <1>2, <1>1, <2>1
  <1> HIDE DEF iter, F, w
  <1> QED BY <1>7, <1>8, <1>10

-----------------------------------------------------------------------------
(* Paths *)

\* The smallest number of a set is one of it, and no larger than the others.
LEMMA MinInside ==
    ASSUME NEW s \in SUBSET Nat, s # {}
    PROVE  \E x \in s : \A y \in s : x <= y
PROOF
  <1>1. PICK x \in s : \A y \in s : ~ (<<y, x>> \in OpToRel(<, Nat))
      BY WFMin, NatLessThanWellFounded, Zenon
  <1>2. \A y \in s : ~ (y < x)
      BY <1>1 DEF OpToRel
  <1> QED BY <1>2

\* Trimmed or not, a path consists of its levels.
LEMMA TrimSeq ==
    ASSUME NEW S, NEW path \in Seq(S)
    PROVE  Trim(path) \in Seq(S)
PROOF
  <1> DEFINE full == {i \in DOMAIN path : path[i] # Empty}
             lo == CHOOSE i \in full : \A j \in full : i <= j
             hi == CHOOSE i \in full : \A j \in full : i >= j
  <1>1. <<>> \in Seq(S)
      OBVIOUS
  <1>2. CASE full = {}
      BY <1>1, <1>2 DEF Trim
  <1>3. CASE full # {}
      <2>1. full \in SUBSET (1..Len(path)) /\ Len(path) \in Nat /\ full \in SUBSET Nat
          OBVIOUS
      <2>2. lo \in full
          <3> HIDE DEF full
          <3>1. \E i \in full : \A j \in full : i <= j
              BY <2>1, <1>3, MinInside
          <3> QED BY <3>1
      <2>3. hi \in full
          <3> HIDE DEF full
          <3>1. Max(full) \in full
              BY <2>1, <1>3, MaxInside
          <3> QED BY <3>1 DEF Max
      <2>4. lo \in Int /\ hi \in Int /\ \A i \in lo..hi : path[i] \in S
          <3>1. lo \in 1..Len(path) /\ hi \in 1..Len(path)
              BY <2>1, <2>2, <2>3
          <3> HIDE DEF lo, hi
          <3> QED BY <3>1
      <2>5. Trim(path) = SubSeq(path, lo, hi)
          BY <1>3 DEF Trim
      <2> HIDE DEF lo, hi
      <2> QED BY <2>4, <2>5, SubSeqProperties
  <1> QED BY <1>2, <1>3

\* Nothing is trimmed from a path without empty levels.
LEMMA TrimPlain ==
    ASSUME NEW S, NEW path \in Seq(S), Plain(path)
    PROVE  Trim(path) = path
PROOF
  <1> DEFINE full == {i \in DOMAIN path : path[i] # Empty}
             n == Len(path)
  <1>1. full = 1..n /\ n \in Nat
      BY DEF Plain
  <1>2. CASE path = <<>>
      BY <1>2 DEF Trim
  <1>3. CASE path # <<>>
      <2>1. n >= 1
          BY <1>3
      <2>2. full # {}
          BY <2>1, <1>1
      <2>3. Trim(path) = SubSeq(path, CHOOSE i \in 1..n : \A j \in 1..n : i <= j,
                                      CHOOSE i \in 1..n : \A j \in 1..n : i >= j)
          BY <2>2, <1>1 DEF Trim
      <2> HIDE DEF n
      <2>4. (CHOOSE i \in 1..n : \A j \in 1..n : i <= j) = 1
          <3>1. 1 \in 1..n /\ \A j \in 1..n : 1 <= j
              BY <2>1, <1>1
          <3>2. \A i \in 1..n : (\A j \in 1..n : i <= j) => i = 1
              BY <3>1
          <3> QED BY <3>1, <3>2
      <2>5. (CHOOSE i \in 1..n : \A j \in 1..n : i >= j) = n
          <3>1. n \in 1..n /\ \A j \in 1..n : n >= j
              BY <2>1, <1>1
          <3>2. \A i \in 1..n : (\A j \in 1..n : i >= j) => i = n
              BY <3>1, <1>1
          <3> QED BY <3>1, <3>2
      <2>6. SubSeq(path, 1, Len(path)) = path
          BY SubSeqFull
      <2> QED BY <2>3, <2>4, <2>5, <2>6 DEF n
  <1> QED BY <1>2, <1>3

\* What is appended leaves the prefixes as they are.
LEMMA AppendPrefix ==
    ASSUME NEW S, NEW s \in Seq(S), NEW e \in S, NEW i \in 0..Len(s)
    PROVE  SubSeq(Append(s, e), 1, i) = SubSeq(s, 1, i)
PROOF OBVIOUS

\* The node of a pattern has one edge for every level, the one that insertChild takes
\* from the node before.
LEMMA NodeShape ==
    ASSUME NEW pattern, Trim(pattern) \in Seq(Levels)
    PROVE  /\ Node(pattern) \in Seq(Edges)
           /\ Len(Node(pattern)) = Len(Trim(pattern))
           /\ \A i \in 1..Len(Trim(pattern)) : Node(pattern)[i] =
                 Edge(SubSeq(Node(pattern), 1, i - 1), Trim(pattern)[i])
PROOF
  <1> DEFINE levels == Trim(pattern)
             n == Len(levels)
             Good(u, k) == Len(u[k]) = k /\ \A i \in 0..k : u[i] = SubSeq(u[k], 1, i)
  <1>1. PICK w \in [0..n -> Seq(Edges)] :
           /\ w[0] = <<>>
           /\ \A k \in 1..n : w[k] = Append(w[k - 1], Edge(w[k - 1], levels[k]))
           /\ Node(pattern) = w[n]
      BY NodeWalk
  <1>2. n \in Nat
      OBVIOUS
  <1>3. \A k \in 1..n, m \in Seq(Edges) : Edge(m, levels[k]) \in Edges
      BY MqttRouterAssumption DEF Edge, Edges, Levels
  <1> HIDE DEF levels, n
  <1> DEFINE T == {k \in 0..n : Good(w, k)}
  <1>4. 0 \in T
      BY <1>1, <1>2
  <1>5. ASSUME NEW k \in 0..(n - 1), k \in T
        PROVE  k + 1 \in T
      <2> DEFINE e == Edge(w[k], levels[k + 1])
      <2>1. k + 1 \in 1..n /\ (k + 1) - 1 = k /\ k \in 0..n /\ k + 1 \in 0..n
          BY <1>2
      <2>2. w[k + 1] = Append(w[k], e) /\ w[k] \in Seq(Edges) /\ w[k + 1] \in Seq(Edges)
            /\ e \in Edges
          BY <2>1, <1>1, <1>3
      <2> HIDE DEF e
      <2>3. Len(w[k + 1]) = k + 1
          BY <2>2, <1>5
      <2>4. ASSUME NEW i \in 0..(k + 1)
            PROVE  w[i] = SubSeq(w[k + 1], 1, i)
          <3>1. CASE i = k + 1
              BY <3>1, <2>2, <2>3, SubSeqFull
          <3>2. CASE i # k + 1
              <4>1. i \in 0..k /\ i \in 0..Len(w[k])
                  BY <3>2, <2>1, <1>5
              <4>2. SubSeq(w[k + 1], 1, i) = SubSeq(w[k], 1, i)
                  BY <4>1, <2>2, AppendPrefix
              <4> QED BY <4>1, <4>2, <1>5
          <3> QED BY <3>1, <3>2
      <2> QED BY <2>1, <2>3, <2>4
  <1>6. n \in T
      <2> HIDE DEF T
      <2>1. n \in 0..n
          BY <1>2
      <2> QED BY <1>2, <1>4, <1>5, <2>1, CountUp
  <1>7. ASSUME NEW i \in 1..n
        PROVE  w[n][i] = Edge(SubSeq(w[n], 1, i - 1), levels[i])
      <2>1. i \in 0..n /\ i - 1 \in 0..n /\ i \in 1..Len(w[n]) /\ w[n] \in Seq(Edges)
          BY <1>2, <1>6
      <2>2. w[i] = SubSeq(w[n], 1, i) /\ w[i - 1] = SubSeq(w[n], 1, i - 1)
          BY <2>1, <1>6
      <2>3. Len(w[i - 1]) = i - 1
          BY <2>1, <2>2
      <2>4. w[i][i] = w[n][i]
          BY <2>1, <2>2
      <2>5. w[i][i] = Edge(w[i - 1], levels[i])
          BY <1>1, <1>3, <2>1, <2>3
      <2> QED BY <2>2, <2>4, <2>5
  <1>8. w[n] \in Seq(Edges) /\ Len(w[n]) = n
      BY <1>1, <1>2, <1>6
  <1> QED BY <1>1, <1>7, <1>8 DEF levels, n

-----------------------------------------------------------------------------
(* addRoute *)

\* The prefixes of a node have as many edges as they say, and prefixes of their own.
LEMMA PrefixShape ==
    ASSUME NEW n \in Seq(Edges), NEW i \in 0..Len(n)
    PROVE  /\ SubSeq(n, 1, i) \in Seq(Edges) /\ Len(SubSeq(n, 1, i)) = i
           /\ \A j \in 1..i : SubSeq(n, 1, i)[j] = n[j]
           /\ \A j \in 0..i : SubSeq(SubSeq(n, 1, i), 1, j) = SubSeq(n, 1, j)
PROOF OBVIOUS

\* A prefix of a node is a parameter node when its last edge is one.
LEMMA ParamPrefix ==
    ASSUME NEW n \in Seq(Edges), NEW i \in 1..Len(n)
    PROVE  IsParam(SubSeq(n, 1, i)) <=> n[i] = Param
PROOF BY DEF IsParam, Last

\* An edge to a parameter child is there for a parameter, any other edge for the level
\* itself or, without characters, for a parameter.
LEMMA NodeLevels ==
    ASSUME NEW pattern \in Patterns
    PROVE  /\ Trim(pattern) \in Seq(Levels)
           /\ Node(pattern) \in Seq(Edges) /\ Len(Node(pattern)) = Len(Trim(pattern))
           /\ \A i \in 1..Len(Node(pattern)) :
                 /\ Node(pattern)[i] = Param => Trim(pattern)[i] \in Names
                 /\ Node(pattern)[i] # Param =>
                       \/ Node(pattern)[i] = Trim(pattern)[i]
                       \/ Node(pattern)[i] = Empty /\ Trim(pattern)[i] \in Names
PROOF
  <1>1. Trim(pattern) \in Seq(Levels)
      BY TrimSeq, MqttRouterAssumption DEF Levels
  <1>2. ASSUME NEW i \in 1..Len(Trim(pattern)), NEW n
        PROVE  /\ Edge(n, Trim(pattern)[i]) = Param => Trim(pattern)[i] \in Names
               /\ Edge(n, Trim(pattern)[i]) # Param =>
                     \/ Edge(n, Trim(pattern)[i]) = Trim(pattern)[i]
                     \/ /\ Edge(n, Trim(pattern)[i]) = Empty
                        /\ Trim(pattern)[i] \in Names
      <2>1. Trim(pattern)[i] \in Levels
          BY <1>1
      <2> QED BY <2>1, MqttRouterAssumption DEF Edge, Levels
  <1> QED BY <1>1, <1>2, NodeShape

\* Mounting a pattern keeps what was mounted and adds its own handler.
LEMMA MountStep ==
    ASSUME IInv, NEW pattern \in Patterns, addRoute(pattern)
    PROVE  IInv'
PROOF
  <1> DEFINE N == Node(pattern)
             levels == Trim(pattern)
             all == nodes \cup PathNodes(pattern)
  <1>1. /\ levels \in Seq(Levels) /\ N \in Seq(Edges) /\ Len(N) = Len(levels)
        /\ \A i \in 1..Len(N) :
              /\ N[i] = Param => levels[i] \in Names
              /\ N[i] # Param => N[i] = levels[i] \/ (N[i] = Empty /\ levels[i] \in Names)
      BY NodeLevels
  <1>2. PathNodes(pattern) = {SubSeq(N, 1, i) : i \in 0..Len(N)}
      BY DEF PathNodes
  <1>3. /\ nodes' = all
        /\ paramName' = [n \in {x \in all : IsParam(x)} |->
              IF n \in nodes THEN paramName[n] ELSE levels[Len(n)]]
        /\ handler' = [n \in all |->
              IF n = N THEN pattern ELSE IF n \in nodes THEN handler[n] ELSE None]
        /\ mounted' = mounted \cup {pattern} /\ panicked' = panicked
        /\ ~ NameClash(pattern) /\ ~ Taken(pattern)
      BY DEF addRoute
  <1>4. TypeOK /\ PathsInv /\ HandlerInv /\ PlainInv /\ HandlersKept
      BY DEF IInv
  <1>5. None \notin Patterns /\ mounted \subseteq Patterns
      <2>1. Seq(Levels) \subseteq Seq(Tokens \cup Names \cup {Plus, Hash, Param})
          BY DEF Levels
      <2> QED BY <2>1, <1>4, MqttRouterAssumption DEF TypeOK, Levels
  <1>6. all \subseteq Seq(Edges) /\ N \in all /\ <<>> \in all
      <2>1. PathNodes(pattern) \subseteq Seq(Edges)
          BY <1>1, <1>2, PrefixShape
      <2>2. N = SubSeq(N, 1, Len(N)) /\ Len(N) \in 0..Len(N)
          BY <1>1
      <2> QED BY <2>1, <2>2, <1>2, <1>4 DEF TypeOK
  <1> HIDE DEF N, levels
  <1>7. PathsInv'
      <2> SUFFICES ASSUME NEW n \in all, NEW i \in 0..Len(n) PROVE SubSeq(n, 1, i) \in all
          BY <1>3 DEF PathsInv
      <2>1. CASE n \in nodes
          BY <2>1, <1>4 DEF PathsInv
      <2>2. CASE n \notin nodes
          <3>1. PICK j \in 0..Len(N) : n = SubSeq(N, 1, j)
              BY <2>2, <1>2
          <3>2. Len(n) = j /\ i \in 0..Len(N) /\ SubSeq(n, 1, i) = SubSeq(N, 1, i)
              BY <3>1, <1>1, PrefixShape
          <3> QED BY <3>2, <1>2
      <2> QED BY <2>1, <2>2
  <1>8. ASSUME NEW i \in 1..Len(N), N[i] = Param
        PROVE  /\ SubSeq(N, 1, i) \in {x \in all : IsParam(x)}
               /\ paramName'[SubSeq(N, 1, i)] = levels[i]
      <2>1. SubSeq(N, 1, i) \in PathNodes(pattern) /\ Len(SubSeq(N, 1, i)) = i
            /\ IsParam(SubSeq(N, 1, i))
          BY <1>1, <1>2, <1>8, PrefixShape, ParamPrefix
      <2>2. CASE SubSeq(N, 1, i) \in nodes
          BY <2>1, <2>2, <1>3 DEF NameClash, levels
      <2>3. CASE SubSeq(N, 1, i) \notin nodes
          BY <2>1, <2>3, <1>3
      <2> QED BY <2>1, <2>2, <2>3
  <1>9. TypeOK'
      <2>1. \A n \in all : n = <<>> \/ Front(n) \in all
          <3> SUFFICES ASSUME NEW n \in all, n # <<>> PROVE Front(n) \in all
              OBVIOUS
          <3>1. Len(n) - 1 \in 0..Len(n)
              BY <1>6
          <3> QED BY <3>1, <1>3, <1>7 DEF PathsInv, Front
      <2>2. ASSUME NEW n \in all, IsParam(n)
            PROVE  paramName'[n] \in Names
          <3>1. CASE n \in nodes
              BY <2>2, <3>1, <1>3, <1>4 DEF TypeOK
          <3>2. CASE n \notin nodes
              <4>1. PICK j \in 0..Len(N) : n = SubSeq(N, 1, j)
                  BY <3>2, <1>2
              <4>2. j # 0
                  BY <4>1, <2>2 DEF IsParam
              <4>3. j \in 1..Len(N) /\ N[j] = Param
                  BY <4>1, <4>2, <2>2, <1>1, ParamPrefix
              <4> QED BY <4>1, <4>3, <1>1, <1>8
          <3> QED BY <3>1, <3>2
      <2>3. paramName' \in [{n \in all : IsParam(n)} -> Names]
          BY <2>2, <1>3
      <2>4. handler' \in [all -> Patterns \cup {None}]
          BY <1>3, <1>4 DEF TypeOK
      <2>5. mounted' \subseteq Patterns /\ panicked' \in BOOLEAN
          BY <1>3, <1>4 DEF TypeOK
      <2> QED BY <2>1, <2>3, <2>4, <2>5, <1>3, <1>6 DEF TypeOK
  <1>10. HandlerInv'
      <2> SUFFICES ASSUME NEW n \in all, handler'[n] # None
                   PROVE  handler'[n] \in mounted' /\ Leads(paramName', n, handler'[n])
          BY <1>3 DEF HandlerInv
      <2>1. CASE n = N
          <3>1. handler'[n] = pattern /\ pattern \in mounted'
              BY <2>1, <1>3
          <3>2. Leads(paramName', N, pattern)
              BY <1>1, <1>8 DEF Leads, levels
          <3> QED BY <3>1, <3>2, <2>1
      <2>2. CASE n # N
          <3>1. n \in nodes /\ handler'[n] = handler[n] /\ handler[n] # None
              BY <2>2, <1>3
          <3>2. handler[n] \in mounted /\ Leads(paramName, n, handler[n]) /\ n \in Seq(Edges)
              BY <3>1, <1>4, <1>6 DEF HandlerInv
          <3>3. ASSUME NEW i \in 1..Len(n), n[i] = Param
                PROVE  paramName'[SubSeq(n, 1, i)] = paramName[SubSeq(n, 1, i)]
              <4>1. SubSeq(n, 1, i) \in nodes /\ IsParam(SubSeq(n, 1, i))
                  BY <3>1, <3>2, <3>3, <1>4, ParamPrefix DEF PathsInv
              <4> QED BY <4>1, <1>3
          <3>4. Leads(paramName', n, handler[n])
              BY <3>2, <3>3 DEF Leads
          <3> QED BY <3>1, <3>2, <3>4, <1>3
      <2> QED BY <2>1, <2>2
  <1>11. PlainInv'
      <2> SUFFICES ASSUME \A p \in mounted' : Plain(Trim(p)), NEW n \in all
                   PROVE  Plain(n)
          BY <1>3 DEF PlainInv
      <2>1. Plain(levels) /\ \A m \in nodes : Plain(m)
          BY <1>3, <1>4 DEF PlainInv, levels
      <2>2. CASE n \in nodes
          BY <2>1, <2>2
      <2>3. CASE n \notin nodes
          <3>1. PICK j \in 0..Len(N) : n = SubSeq(N, 1, j)
              BY <2>3, <1>2
          <3>2. ASSUME NEW i \in 1..Len(N)
                PROVE  N[i] # Empty
              <4>1. N[i] = Edge(SubSeq(N, 1, i - 1), levels[i]) /\ levels[i] # Empty
                  BY <1>1, <2>1, NodeShape DEF Plain, N, levels
              <4>2. i - 1 \in 0..Len(N)
                  BY <1>1
              <4>3. ASSUME NEW m \in Seq(Edges), Append(m, Empty) \in nodes
                    PROVE  FALSE
                  <5>1. Empty \in Edges
                      BY MqttRouterAssumption DEF Edges
                  <5>2. Append(m, Empty)[Len(m) + 1] = Empty
                        /\ Len(m) + 1 \in DOMAIN Append(m, Empty)
                      BY <5>1
                  <5> QED BY <4>3, <5>2, <2>1 DEF Plain
              <4>4. SubSeq(N, 1, i - 1) \in Seq(Edges)
                  BY <4>2, <1>1, PrefixShape
              <4> QED BY <4>1, <4>3, <4>4, MqttRouterAssumption DEF Edge
          <3> QED BY <3>1, <3>2, <1>1, PrefixShape DEF Plain
      <2> QED BY <2>2, <2>3
  <1>12. HandlersKept'
      <2> SUFFICES ASSUME NEW p \in mounted' PROVE \E n \in all : handler'[n] = p
          BY <1>3 DEF HandlersKept
      <2>1. CASE p = pattern
          BY <2>1, <1>3, <1>6
      <2>2. CASE p # pattern
          <3>1. p \in mounted
              BY <2>2, <1>3
          <3>2. PICK n \in nodes : handler[n] = p
              BY <3>1, <1>4 DEF HandlersKept
          <3>3. n # N
              BY <3>1, <3>2, <1>3, <1>5 DEF Taken, N
          <3> QED BY <3>2, <3>3, <1>3
      <2> QED BY <2>1, <2>2
  <1> QED BY <1>7, <1>9, <1>10, <1>11, <1>12 DEF IInv

\* The empty tree satisfies the invariant.
LEMMA InitInv == Init => IInv
PROOF
  <1> SUFFICES ASSUME Init PROVE IInv
      OBVIOUS
  <1>1. TypeOK
      <2>1. ~ IsParam(<<>>) /\ <<>> \in Seq(Edges)
          BY DEF IsParam
      <2>2. paramName \in [{n \in nodes : IsParam(n)} -> Names]
          <3>1. {n \in nodes : IsParam(n)} = {}
              BY <2>1 DEF Init
          <3> QED BY <3>1 DEF Init
      <2> QED BY <2>1, <2>2 DEF Init, TypeOK
  <1>2. PathsInv
      BY DEF Init, PathsInv
  <1>3. HandlerInv /\ HandlersKept
      BY DEF Init, HandlerInv, HandlersKept
  <1>4. PlainInv
      BY DEF Init, PlainInv, Plain
  <1> QED BY <1>1, <1>2, <1>3, <1>4 DEF IInv

\* Mounting a pattern keeps the invariant, whether it is inserted or panics.
LEMMA NextInv == IInv /\ [Next]_vars => IInv'
PROOF
  <1> SUFFICES ASSUME IInv, [Next]_vars PROVE IInv'
      OBVIOUS
  <1>1. ASSUME NEW pattern \in Patterns, addRoute(pattern)
        PROVE  IInv'
      BY <1>1, MountStep
  <1>2. ASSUME nodes' = nodes, paramName' = paramName, handler' = handler,
               mounted' = mounted, panicked' \in BOOLEAN
        PROVE  IInv'
      BY <1>2 DEF IInv, TypeOK, PathsInv, HandlerInv, PlainInv, HandlersKept
  <1>3. ASSUME NEW pattern \in Patterns, addRoutePanics(pattern)
        PROVE  IInv'
      BY <1>2, <1>3 DEF addRoutePanics
  <1>4. CASE UNCHANGED vars
      BY <1>2, <1>4 DEF vars, IInv, TypeOK
  <1> QED BY <1>1, <1>3, <1>4 DEF Next

-----------------------------------------------------------------------------
(* match *)

\* The levels of a topic without empty ones are the topic.
LEMMA TopicLevels ==
    ASSUME NEW topic \in Topics, Plain(topic)
    PROVE  Trim(topic) = topic /\ topic \in Seq(Tokens) /\ Len(topic) \in Nat \ {0}
PROOF
  <1>1. topic \in Seq(Tokens) /\ topic # <<>>
      BY MqttRouterAssumption
  <1> QED BY <1>1, TrimPlain

\* A pattern without wildcards is delivered for the topics that have its static levels
\* and some level for each parameter.
LEMMA LiteralDelivers ==
    ASSUME NEW pattern \in Patterns, Literal(Trim(pattern)), NEW topic \in Seq(Tokens)
    PROVE  Delivers(pattern, topic) <=>
               /\ Trim(pattern) # <<>> /\ Len(Trim(pattern)) = Len(topic)
               /\ \A i \in 1..Len(topic) :
                     Trim(pattern)[i] \in Names \/ Trim(pattern)[i] = topic[i]
PROOF
  <1> DEFINE levels == Trim(pattern)
             filter == Filter(pattern)
             n == Len(levels)
  <1>1. levels \in Seq(Levels) /\ n \in Nat /\ DOMAIN levels = 1..n
      BY NodeLevels
  <1>2. /\ filter \in Seq(Levels \cup {Plus}) /\ Len(filter) = n
        /\ \A i \in 1..n : filter[i] = IF levels[i] \in Names THEN Plus ELSE levels[i]
      <2>1. filter = [i \in 1..n |-> IF levels[i] \in Names THEN Plus ELSE levels[i]]
          BY <1>1 DEF Filter
      <2>2. \A i \in 1..n : levels[i] \in Levels
          BY <1>1
      <2> HIDE DEF levels, filter, n
      <2> QED BY <2>1, <2>2, <1>1
  <1>3. \A i \in 1..n : levels[i] \notin {Plus, Hash} /\ filter[i] # Hash
      BY <1>1, <1>2, MqttRouterAssumption DEF Literal
  <1>4. levels = <<>> <=> n = 0
      BY <1>1
  <1>5. \A i \in 1..n : filter[i] = Plus <=> levels[i] \in Names
      BY <1>2, <1>3
  <1>6. Delivers(pattern, topic) <=> Fits(filter, topic)
      BY DEF Delivers
  <1> HIDE DEF levels, filter, n
  <1>7. Fits(filter, topic) <=>
            /\ n > 0 /\ n = Len(topic)
            /\ \A i \in 1..n : filter[i] = Plus \/ filter[i] = topic[i]
      <2>1. n > 0 => n \in 1..n /\ filter[n] # Hash
          BY <1>1, <1>3
      <2>2. \A i \in 1..n - 1 : i \in 1..n
          BY <1>1
      <2> QED BY <1>1, <1>2, <1>3, <2>1, <2>2 DEF Fits
  <1>8. \A i \in 1..n : filter[i] # Plus => filter[i] = levels[i]
      BY <1>2
  <1>9. n > 0 <=> levels # <<>>
      BY <1>1, <1>4
  <1>10. (\A i \in 1..n : filter[i] = Plus \/ filter[i] = topic[i])
             <=> \A i \in 1..n : levels[i] \in Names \/ levels[i] = topic[i]
      BY <1>5, <1>8
  <1> QED BY <1>6, <1>7, <1>9, <1>10 DEF levels, n

\* The nodes of the tree are no marker for their absence.
LEMMA NodesAreNodes ==
    ASSUME TypeOK
    PROVE  nodes \subseteq Seq(Edges) /\ None \notin Seq(Edges) /\ None \notin nodes
PROOF
  <1>1. Seq(Edges) \subseteq Seq(Tokens \cup Names \cup {Plus, Hash, Param})
      BY DEF Edges
  <1> QED BY <1>1, MqttRouterAssumption DEF TypeOK

\* The node match ends in has an edge for each level of the topic: the level itself, or
\* the one to a parameter child.
LEMMA MatchShape ==
    ASSUME IInv, NEW topic \in Topics, Plain(topic), MatchNode(topic) # None
    PROVE  /\ MatchNode(topic) \in nodes /\ Len(MatchNode(topic)) = Len(topic)
           /\ \A i \in 1..Len(topic) : MatchNode(topic)[i] \in {topic[i], Param}
PROOF
  <1> DEFINE n == Len(topic)
             Walked(m, k) == /\ m \in nodes /\ Len(m) = k
                             /\ \A i \in 1..k : m[i] \in {topic[i], Param}
  <1>1. Trim(topic) = topic /\ topic \in Seq(Tokens) /\ n \in Nat
      BY TopicLevels
  <1>2. nodes \subseteq Seq(Edges) /\ None \notin Seq(Edges) /\ <<>> \in nodes
      BY NodesAreNodes DEF IInv, TypeOK
  <1>3. PICK w \in [0..n -> Seq(Edges) \cup {None}] :
           /\ w[0] = <<>>
           /\ \A k \in 1..n : w[k] = Child(w[k - 1], topic[k])
           /\ MatchNode(topic) = w[n]
      BY <1>1, <1>2, MatchWalk
  <1> HIDE DEF n
  <1> DEFINE T == {k \in 0..n : w[k] # None => Walked(w[k], k)}
  <1>4. 0 \in T
      BY <1>1, <1>2, <1>3
  <1>5. ASSUME NEW k \in 0..(n - 1), k \in T
        PROVE  k + 1 \in T
      <2>1. k + 1 \in 1..n /\ (k + 1) - 1 = k /\ k \in 0..n /\ k + 1 \in 0..n
          BY <1>1
      <2>2. w[k + 1] = Child(w[k], topic[k + 1]) /\ topic[k + 1] \in Tokens
          BY <2>1, <1>1, <1>3 DEF n
      <2>3. ASSUME w[k + 1] # None
            PROVE  Walked(w[k + 1], k + 1)
          <3>1. w[k] # None /\ Walked(w[k], k) /\ w[k] \in Seq(Edges)
              BY <2>2, <2>3, <1>5, <1>2 DEF Child
          <3>2. PICK e \in {topic[k + 1], Param} : w[k + 1] = Append(w[k], e)
                                                   /\ Append(w[k], e) \in nodes
              BY <2>2, <2>3, <3>1 DEF Child
          <3>3. e \in Edges
              BY <2>2 DEF Edges
          <3>4. Len(w[k + 1]) = k + 1 /\ w[k + 1][k + 1] = e
                /\ \A i \in 1..k : w[k + 1][i] = w[k][i]
              BY <3>1, <3>2, <3>3
          <3>5. ASSUME NEW i \in 1..(k + 1)
                PROVE  w[k + 1][i] \in {topic[i], Param}
              <4>1. CASE i = k + 1
                  BY <4>1, <3>4
              <4>2. CASE i # k + 1
                  <5>1. i \in 1..k
                      BY <4>2, <2>1
                  <5> QED BY <5>1, <3>1, <3>4
              <4> QED BY <4>1, <4>2
          <3> QED BY <3>2, <3>4, <3>5
      <2> QED BY <2>1, <2>3
  <1>6. n \in T
      <2> HIDE DEF T
      <2>1. n \in 0..n
          BY <1>1
      <2> QED BY <1>1, <1>4, <1>5, <2>1, CountUp
  <1> QED BY <1>3, <1>6 DEF n

\* What a match of a plain topic says about the pattern whose handler it returns.
LEMMA MatchMeans ==
    ASSUME IInv, NEW topic \in Topics, Plain(topic), match(topic) # None
    PROVE  /\ Delivers(match(topic), topic)
           /\ params(topic) = Bindings(match(topic), topic)
PROOF
  <1> DEFINE n == MatchNode(topic)
             p == match(topic)
             levels == Trim(p)
  <1>1. n # None /\ p = handler[n]
      BY DEF match
  <1>2. n \in nodes /\ Len(n) = Len(topic) /\ \A i \in 1..Len(topic) : n[i] \in {topic[i], Param}
      BY <1>1, MatchShape
  <1>3. Trim(topic) = topic /\ topic \in Seq(Tokens) /\ Len(topic) \in Nat \ {0}
      BY TopicLevels
  <1>4. p \in mounted /\ Leads(paramName, n, p)
      BY <1>1, <1>2 DEF IInv, HandlerInv
  <1>5. n \in Seq(Edges)
      BY <1>2 DEF IInv, TypeOK
  <1>6. levels \in Seq(Levels)
      BY <1>4, NodeLevels DEF IInv, TypeOK
  <1> HIDE DEF n, p
  <1>7. Len(levels) = Len(topic) /\ DOMAIN levels = 1..Len(topic) /\ DOMAIN n = 1..Len(topic)
      BY <1>2, <1>4, <1>5, <1>6 DEF Leads
  <1>8. ASSUME NEW i \in 1..Len(topic)
        PROVE  \/ n[i] = Param /\ levels[i] \in Names /\ paramName[SubSeq(n, 1, i)] = levels[i]
               \/ n[i] # Param /\ levels[i] = topic[i] /\ levels[i] \notin Names
      <2>1. topic[i] \in Tokens /\ topic[i] # Empty /\ topic[i] \notin Names
          BY <1>3, MqttRouterAssumption DEF Plain
      <2> QED BY <2>1, <1>2, <1>4 DEF Leads
  <1>9. Delivers(p, topic)
      <2>1. levels # <<>>
          BY <1>3, <1>7
      <2>2. \A i \in 1..Len(topic) : topic[i] \in Tokens
          BY <1>3
      <2>3. Literal(levels)
          BY <2>2, <1>7, <1>8, MqttRouterAssumption DEF Literal
      <2>4. p \in Patterns
          BY <1>4 DEF IInv, TypeOK
      <2> QED BY <2>1, <2>3, <2>4, <1>3, <1>7, <1>8, LiteralDelivers
  <1>10. params(topic) = Bindings(p, topic)
      <2> DEFINE of(x) == {i \in DOMAIN n : n[i] = Param /\ paramName[SubSeq(n, 1, i)] = x}
                 at(x) == {i \in DOMAIN levels : levels[i] = x}
      <2>1. \A x \in Names : of(x) = at(x)
          BY <1>7, <1>8
      <2> DEFINE value(is) == topic[CHOOSE i \in is : \A j \in is : i >= j]
      <2>2. params(topic) = [x \in {y \in Names : of(y) # {}} |-> value(of(x))]
          BY <1>3 DEF params, n
      <2>3. Bindings(p, topic) = [x \in {y \in Names : at(y) # {}} |-> value(at(x))]
          BY DEF Bindings
      <2> HIDE DEF of, at, value
      <2>4. {y \in Names : of(y) # {}} = {y \in Names : at(y) # {}}
          BY <2>1
      <2>5. [x \in {y \in Names : of(y) # {}} |-> value(of(x))]
               = [x \in {y \in Names : at(y) # {}} |-> value(at(x))]
          BY <2>1, <2>4
      <2> QED BY <2>2, <2>3, <2>5
  <1> QED BY <1>9, <1>10 DEF p

\* Without a parameter child that has static siblings, match finds the node of a pattern
\* without wildcards that the topic fits.
LEMMA MatchFinds ==
    ASSUME IInv, Unambiguous, \A q \in mounted : Plain(Trim(q)),
           NEW topic \in Topics, Plain(topic),
           NEW p \in mounted, Delivers(p, topic), Literal(Trim(p))
    PROVE  match(topic) # None
PROOF
  <1> DEFINE L == Len(topic)
             levels == Trim(p)
  <1>1. Trim(topic) = topic /\ topic \in Seq(Tokens) /\ L \in Nat
      BY TopicLevels
  <1>2. nodes \subseteq Seq(Edges) /\ None \notin Seq(Edges) /\ <<>> \in nodes
      BY NodesAreNodes DEF IInv, TypeOK
  <1>3. PICK w \in [0..L -> Seq(Edges) \cup {None}] :
           /\ w[0] = <<>>
           /\ \A k \in 1..L : w[k] = Child(w[k - 1], topic[k])
           /\ MatchNode(topic) = w[L]
      BY <1>1, <1>2, MatchWalk
  <1>4. p \in Patterns /\ p # None
      <2>1. Seq(Levels) \subseteq Seq(Tokens \cup Names \cup {Plus, Hash, Param})
          BY DEF Levels
      <2> QED BY <2>1, MqttRouterAssumption DEF IInv, TypeOK, Levels
  <1>5. PICK n \in nodes : handler[n] = p
      BY DEF IInv, HandlersKept
  <1>6. Leads(paramName, n, p) /\ Plain(n) /\ n \in Seq(Edges)
        /\ \A k \in 0..Len(n) : SubSeq(n, 1, k) \in nodes
      BY <1>2, <1>4, <1>5 DEF IInv, HandlerInv, PlainInv, PathsInv
  <1>7. levels \in Seq(Levels)
      BY <1>4, NodeLevels
  <1>8. /\ Len(levels) = L /\ Len(n) = L /\ DOMAIN levels = 1..L /\ DOMAIN n = 1..L
        /\ \A i \in 1..L : levels[i] \in Names \/ levels[i] = topic[i]
      <2>1. /\ Len(levels) = L
            /\ \A i \in 1..L : levels[i] \in Names \/ levels[i] = topic[i]
          BY <1>1, <1>4, LiteralDelivers
      <2> QED BY <2>1, <1>6, <1>7 DEF Leads
  <1>9. ASSUME NEW k \in 1..L
        PROVE  topic[k] \in Tokens /\ n[k] \in {topic[k], Param}
      <2>1. n[k] \in Edges /\ n[k] # Empty /\ topic[k] \in Tokens
          BY <1>1, <1>6, <1>8 DEF Plain, L
      <2>2. levels[k] \in Names \/ levels[k] = topic[k]
          BY <1>8
      <2>3. n[k] # Param => n[k] = levels[k]
          BY <2>1, <1>6, <1>8 DEF Leads
      <2> QED BY <2>1, <2>2, <2>3, MqttRouterAssumption DEF Edges
  <1> HIDE DEF L, levels
  <1> DEFINE T == {k \in 0..L : w[k] = SubSeq(n, 1, k)}
  <1>10. 0 \in T
      <2>1. SubSeq(n, 1, 0) = <<>> /\ 0 \in 0..L
          BY <1>1, SubSeqEmpty
      <2> QED BY <2>1, <1>3
  <1>11. ASSUME NEW k \in 0..(L - 1), k \in T
         PROVE  k + 1 \in T
      <2> DEFINE m == SubSeq(n, 1, k)
                 next == SubSeq(n, 1, k + 1)
      <2>1. k + 1 \in 1..L /\ (k + 1) - 1 = k /\ k \in 0..L /\ k + 1 \in 0..L
          BY <1>1
      <2>2. w[k + 1] = Child(m, topic[k + 1])
          BY <2>1, <1>3, <1>11
      <2>3. m \in nodes /\ next \in nodes /\ m # None
          BY <2>1, <1>2, <1>6, <1>8
      <2>4. next = Append(m, n[k + 1]) /\ Front(next) = m
          BY <2>1, <1>6, <1>8 DEF Front
      <2>5. IsParam(next) <=> n[k + 1] = Param
          BY <2>1, <1>6, <1>8, ParamPrefix
      <2>6. topic[k + 1] \in Tokens /\ n[k + 1] \in {topic[k + 1], Param}
          BY <2>1, <1>9
      <2> HIDE DEF m, next
      <2>7. CASE n[k + 1] = topic[k + 1]
          BY <2>2, <2>3, <2>4, <2>7, <2>1 DEF Child, next
      <2>8. CASE n[k + 1] = Param
          <3>1. Append(m, topic[k + 1]) \notin nodes
              BY <2>3, <2>4, <2>5, <2>6, <2>8 DEF Unambiguous
          <3> QED BY <3>1, <2>1, <2>2, <2>3, <2>4, <2>8 DEF Child, next
      <2> QED BY <2>6, <2>7, <2>8
  <1>12. L \in T
      <2> HIDE DEF T
      <2>1. L \in 0..L
          BY <1>1
      <2> QED BY <1>1, <1>10, <1>11, <2>1, CountUp
  <1>13. MatchNode(topic) = n
      BY <1>3, <1>6, <1>8, <1>12, SubSeqFull
  <1> QED BY <1>2, <1>4, <1>5, <1>13 DEF match

-----------------------------------------------------------------------------
(* The theorems *)

\* The tree of every router is closed under prefixes, and its handlers are those of the
\* mounted patterns, at the nodes that stand for these.
THEOREM RouterInductive == Spec => []IInv
PROOF BY InitInv, NextInv, PTL DEF Spec

\* Every variable keeps its type: each node but the root hangs under another one, and
\* exactly the parameter nodes have names.
THEOREM RouterTypeCorrect == Spec => []TypeOK
PROOF
  <1>1. IInv => TypeOK
      BY DEF IInv
  <1> QED BY <1>1, RouterInductive, PTL

\* A pattern mounted without a panic keeps its handler, whatever is mounted after it.
THEOREM RouterHandlersKept == Spec => []HandlersKept
PROOF
  <1>1. IInv => HandlersKept
      BY DEF IInv
  <1> QED BY <1>1, RouterInductive, PTL

\* match returns only handlers of patterns the topic fits, with the parameters these
\* patterns name, in every tree that can be built.
THEOREM RouterMatchSound == Spec => []MatchSound
PROOF
  <1>1. IInv => MatchSound
      BY MatchMeans DEF MatchSound
  <1> QED BY <1>1, RouterInductive, PTL

\* Where no parameter has static siblings, match finds a handler for every topic a
\* mounted pattern without wildcards is delivered for, whatever wildcards others have.
THEOREM RouterComplete == Spec => []UnambiguousComplete
PROOF
  <1>1. IInv => UnambiguousComplete
      BY MatchFinds DEF UnambiguousComplete, Candidates, Literal
  <1> QED BY <1>1, RouterInductive, PTL
=============================================================================
