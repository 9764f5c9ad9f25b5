------------------------ MODULE MCIdempotentConsumer ------------------------
(***************************************************************************)
(* Small topics for the consumer.  In one, the relay has published an      *)
(* event twice with a poisonous one and one without id in between.  In the *)
(* other, a poisonous event comes before a good one, next to a second      *)
(* partition.                                                              *)
(***************************************************************************)
EXTENDS IdempotentConsumer, TLC

CONSTANTS a, b, c, p1

Duplicated == [p \in Partitions |-> <<a, b, NoId, a>>]
Mixed == [p \in Partitions |-> IF p = p1 THEN <<b, a>> ELSE <<c>>]
MembersAreAlike == Permutations(Members)
=============================================================================
