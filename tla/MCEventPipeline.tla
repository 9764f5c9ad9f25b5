-------------------------- MODULE MCEventPipeline ---------------------------
(***************************************************************************)
(* Two events of one order, one relay worker and one consumer of two       *)
(* partitions.                                                             *)
(***************************************************************************)
EXTENDS EventPipeline

CONSTANTS p1, p2

MCEvents == 1..2
MCKeyOf == [e \in MCEvents |-> 1]
MCHashOf == [k \in MCEvents |-> IF k = 1 THEN p1 ELSE p2]
=============================================================================
