-------------------------- MODULE MCMqttSubscriber --------------------------
(* Small instances of MqttSubscriber for TLC. *)
EXTENDS MqttSubscriber

CONSTANTS a, b, x, m1, m2, m3

\* The subscriptions "a" and "+" overlap on the topic a.
TwoPatterns == {<<a>>, <<x>>}
TwoTopics == {<<a>>, <<b>>}
TopicsOf == [m \in Msgs |-> IF m = m3 THEN <<b>> ELSE <<a>>]
KeptOrClean == {<<FALSE, TRUE>>, <<FALSE, FALSE>>, <<TRUE, FALSE>>}
AckOne == [p \in Patterns |-> p = <<a>>]
=============================================================================
