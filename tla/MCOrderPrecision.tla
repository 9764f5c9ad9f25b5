-------------------------- MODULE MCOrderPrecision --------------------------
(***************************************************************************)
(* Requests count in thirds of what the columns keep.                      *)
(***************************************************************************)
EXTENDS OrderPrecision, TLC

Buy(price, quantity) ==
    [user |-> "u", pair |-> [base |-> "BTC", quote |-> "KRW"],
     side |-> "BUY", type |-> "LIMIT", price |-> price, quantity |-> quantity]

\* Prices and quantities, and with them amounts, that the columns round up,
\* round down, round to zero or store exactly.
MCCommands == {Buy(p, q) : p \in {1, 2, 3, 4, 9}, q \in 1..5}

MCOrders == Permutations(Orders)
=============================================================================
