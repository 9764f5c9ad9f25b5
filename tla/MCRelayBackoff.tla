--------------------------- MODULE MCRelayBackoff ---------------------------
(***************************************************************************)
(* Two events of one aggregate; the database's clock outlasts the backoff  *)
(* of the last attempt, the application's is a second behind or ahead.     *)
(***************************************************************************)
EXTENDS RelayBackoff, TLC

MCEvents == 1..2
MCKeyOf == [e \in MCEvents |-> "order"]
MCSkews == {-1, 1}
WorkersAreAlike == Permutations(Workers)
=============================================================================
