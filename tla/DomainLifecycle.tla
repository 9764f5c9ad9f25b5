--------------------------- MODULE DomainLifecycle --------------------------
(***************************************************************************)
(* One Order and the Balance it is paid from, with the methods of both     *)
(* called in any order and with any argument: what the aggregates          *)
(* themselves guarantee, whoever calls them.  The use cases of today call  *)
(* only Accept, Cancel, DeductAndLock and Unlock; Fill, Reject and         *)
(* SettleFill are the domain's API for a matching engine.                  *)
(***************************************************************************)
EXTENDS OrderAggregate, BalanceAggregate

CONSTANTS
    Drafts,       \* the commands an order may be created from
    Funds         \* what the balance has available at first

ASSUME FundsIsNat == Funds \in Nat
\* Prices and quantities count column units; nothing else is asked of a draft.
ASSUME DraftsAssumption == \A d \in Drafts : d.price \in Int /\ d.quantity \in Int

VARIABLES
    order,        \* the Order
    balance,      \* the Balance
    settled,      \* total taken out by SettleFill (history)
    published     \* types of the order events handed out by PullEvents (history)

vars == <<order, balance, settled, published>>

Init ==
    /\ \E d \in Drafts : CanCreate(d) /\ order = NewOrder(d)
    /\ balance = [available |-> Funds, locked |-> 0, version |-> 1, events |-> <<>>]
    /\ settled = 0
    /\ published = <<>>

EventTypes(events) == [i \in DOMAIN events |-> events[i].type]

OrderCall(new) == order' = new /\ UNCHANGED <<balance, settled, published>>

DoAccept == CanAccept(order) /\ OrderCall(Accept(order))
DoFill == \E qty \in 1..order.quantity : CanFill(order, qty) /\ OrderCall(Fill(order, qty))
DoCancel == CanCancel(order) /\ OrderCall(Cancel(order))
DoReject == CanReject(order) /\ OrderCall(Reject(order))

DoPullEvents ==
    /\ order.events # <<>>
    /\ published' = published \o EventTypes(order.events)
    /\ order' = ClearEvents(order)
    /\ UNCHANGED <<balance, settled>>

BalanceCall(new) == balance' = ClearBalanceEvents(new) /\ UNCHANGED <<order, published>>

DoDeductAndLock ==
    \E amount \in 0..Funds + 1 :
        /\ CanDeductAndLock(balance, amount)
        /\ BalanceCall(DeductAndLock(balance, amount, "order"))
        /\ UNCHANGED settled

DoUnlock ==
    \E amount \in 0..Funds + 1 :
        /\ CanUnlock(balance, amount)
        /\ BalanceCall(Unlock(balance, amount, "order"))
        /\ UNCHANGED settled

DoSettleFill ==
    \E amount \in 0..Funds + 1 :
        /\ CanSettleFill(balance, amount)
        /\ BalanceCall(SettleFill(balance, amount))
        /\ settled' = settled + amount

Next ==
    \/ DoAccept \/ DoFill \/ DoCancel \/ DoReject \/ DoPullEvents
    \/ DoDeductAndLock \/ DoUnlock \/ DoSettleFill

Spec == Init /\ [][Next]_vars
-----------------------------------------------------------------------------
\* The status says how much is filled: FILLED exactly when everything is, no
\* fill before the order is accepted or after it is rejected, and never more
\* than was ordered, however the fills are cut and whatever follows them.
StatusMatchesFill ==
    /\ order.filledQty \in 0..order.quantity
    /\ order.status = "FILLED" <=> order.filledQty = order.quantity
    /\ order.status = "PARTIALLY_FILLED" => order.filledQty > 0
    /\ order.status \in {"PENDING", "ACCEPTED", "REJECTED"} => order.filledQty = 0

\* No method moves an order out of FILLED, CANCELLED or REJECTED; only its
\* events can still be pulled.
TerminalIsFinal ==
    [][IsTerminal(order) => ClearEvents(order') = ClearEvents(order)]_vars

\* Pulled and pending together, the events of an order tell its history once:
\* OrderPlaced when it was accepted, then one event for how it ended.
EventsTellTheHistory ==
    published \o EventTypes(order.events) =
        CASE order.status \in {"PENDING", "REJECTED"} -> <<>>
          [] order.status \in Cancellable -> <<"OrderPlaced">>
          [] order.status = "FILLED" -> <<"OrderPlaced", "OrderFilled">>
          [] order.status = "CANCELLED" -> <<"OrderPlaced", "OrderCancelled">>

\* No sequence of calls creates money, loses it, or overdraws the balance: what
\* was there is available, locked or settled.
NoMoneyCreated ==
    /\ balance.available + balance.locked + settled = Funds
    /\ balance.available >= 0
    /\ balance.locked >= 0
=============================================================================
