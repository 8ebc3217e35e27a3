------------------------------- MODULE MCGcp -------------------------------
(* Small instances of GcpPubSubWorker for TLC. *)
EXTENDS GcpPubSubWorker

CONSTANTS m1, m2, m3, t1, t2

\* m1 and m2 share a topic, m3 has its own.
TwoTopics == [m \in Msgs |-> IF m = m3 THEN t2 ELSE t1]
\* m1 is delivered twice.
OnceMore == [m \in Msgs |-> IF m = m1 THEN 2 ELSE 1]
AckOne == [t \in Topics |-> t = t1]
=============================================================================
