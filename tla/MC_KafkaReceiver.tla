-------------------------- MODULE MC_KafkaReceiver --------------------------
(* Two partitions, the last message of one cannot be unmarshalled. *)
EXTENDS KafkaReceiver

CONSTANTS p1, p2

MCSize == [p \in Partitions |-> IF p = p1 THEN 2 ELSE 1]
MCBad == {<<p1, 1>>}

=============================================================================
