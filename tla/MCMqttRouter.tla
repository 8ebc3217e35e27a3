---------------------------- MODULE MCMqttRouter ----------------------------
(* Small instances of MqttRouter for TLC. *)
EXTENDS MqttRouter

CONSTANTS a, b, x, y

\* Every topic of at most three levels.
AllTopics == UNION {[1..n -> Tokens] : n \in 1..3}

\* Every plain pattern of at most two levels, some of three, and patterns with
\* slashes at the ends or in a row or with wildcards.
SomePatterns ==
    [1..1 -> {a, b, x, y}] \cup [1..2 -> {a, b, x, y}]
    \cup {<<l1, l2, l3>> : l1 \in {a, x}, l2 \in {b, x, y}, l3 \in {a, y}}
    \cup {<<>>, <<Empty, a>>, <<a, Empty, b>>}
    \cup {<<Plus>>, <<a, Hash>>, <<x, Plus>>, <<Hash, b>>}

\* A static and a parameter level under one node.
TwoPatterns == {<<a, b>>, <<x, a>>, <<a, x, b>>, <<b, x>>}
=============================================================================
