------------------------------ MODULE MCStomp ------------------------------
(* Small instances of StompWorker for TLC. *)
EXTENDS StompWorker, TLC

CONSTANTS m1, m2, m3, t1, t2, e1, e2, e3

\* m1 and m2 share a topic, m3 has its own.
TwoTopics == [m \in Msgs |-> IF m = m3 THEN t2 ELSE t1]
OneTopic  == [m \in Msgs |-> t1]

\* PublishMessage gives every message a fresh event id ...
FreshEvents == [m \in Msgs |-> CASE m = m1 -> e1 [] m = m2 -> e2 [] OTHER -> e3]
\* ... and a retried publication, or another producer, repeats one or sets none.
SomeEvents == [m \in Msgs |-> IF m = m3 THEN NoEvent ELSE e1]

AckAll == [t \in Topics |-> TRUE]
PodSymmetry == Permutations(Pods)
=============================================================================
