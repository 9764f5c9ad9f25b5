--------------------------- MODULE MCOrderService ---------------------------
(***************************************************************************)
(* Small instances of OrderService for TLC.  One user holds KRW and BTC.   *)
(***************************************************************************)
EXTENDS OrderServiceProperties, TLC

CONSTANTS k1

MCAccounts == {<<"u", "KRW">>, <<"u", "BTC">>}
MCRequests == Permutations(Requests)

Ask(key, base, side, type, price, quantity) ==
    [kind |-> "place", key |-> key, user |-> "u", pair |-> [base |-> base, quote |-> "KRW"],
     side |-> side, type |-> type, price |-> price, quantity |-> quantity]

\* Neither account can pay for two orders at the same time.
MCFunds == [a \in MCAccounts |-> IF a[2] = "KRW" THEN 6 ELSE 2]
MCKeys == {k1}

\* A purchase and a sale under one key, over different accounts.  With
\* Scale = 2 the columns store both amounts exactly.
Purchase == Ask(k1, "BTC", "BUY", "LIMIT", 2, 2)
Sale == Ask(k1, "BTC", "SELL", "MARKET", 0, 1)

\* Requests the service refuses inside the transaction: there is no such
\* account; there is no such side, which only the ENUM column notices, after
\* the balance has been saved.
NoAccount == Ask(NoKey, "ETH", "SELL", "LIMIT", 1, 1)
NoSuchSide == Ask(NoKey, "BTC", "HOLD", "LIMIT", 1, 1)

MCCommands == {Purchase, Sale, NoAccount, NoSuchSide}

\* Two small purchases fit side by side, so that cancelling one of them twice
\* would find enough locked by the other.
RaceCommands ==
    {Ask(k1, "BTC", "BUY", "LIMIT", 1, 2), Ask(NoKey, "BTC", "BUY", "LIMIT", 2, 1)}
=============================================================================
