--------------------------- MODULE MCOutboxRelay ----------------------------
(***************************************************************************)
(* Three events, the first two of one aggregate.                           *)
(***************************************************************************)
EXTENDS OutboxRelay

MCEvents == 1..3
MCKeyOf == [e \in MCEvents |-> IF e = 3 THEN "balance" ELSE "order"]
=============================================================================
