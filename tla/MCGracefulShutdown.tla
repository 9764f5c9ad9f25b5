------------------------- MODULE MCGracefulShutdown -------------------------
(***************************************************************************)
(* Two events of one aggregate and a server that is stopped twice.         *)
(***************************************************************************)
EXTENDS GracefulShutdown

MCEvents == 1..2
MCKeyOf == [e \in MCEvents |-> "order"]
=============================================================================
