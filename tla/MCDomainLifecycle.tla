------------------------- MODULE MCDomainLifecycle --------------------------
(***************************************************************************)
(* Orders for three units, in every shape NewOrder tells apart: the last   *)
(* two are refused.                                                        *)
(***************************************************************************)
EXTENDS DomainLifecycle

Draft(side, type, price, quantity) ==
    [user |-> "u", pair |-> [base |-> "BTC", quote |-> "KRW"],
     side |-> side, type |-> type, price |-> price, quantity |-> quantity]

MCDrafts ==
    {Draft("BUY", "LIMIT", 2, 3), Draft("SELL", "MARKET", 0, 3),
     Draft("SELL", "LIMIT", 0, 3), Draft("BUY", "MARKET", 2, 0)}
=============================================================================
