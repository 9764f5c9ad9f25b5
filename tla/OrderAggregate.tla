--------------------------- MODULE OrderAggregate ---------------------------
(***************************************************************************)
(* The Order aggregate (internal/order/domain/order.go): each method is a  *)
(* precondition, CanX, for its error returns and an operator X for the     *)
(* order it leaves behind.  An order is a record; events is the slice the  *)
(* aggregate collects until PullEvents.  The order's id, the timestamps    *)
(* and the free-text reason carry no control and are left out.             *)
(***************************************************************************)
EXTENDS Decimals, Sequences

Sides == {"BUY", "SELL"}
OrderTypes == {"LIMIT", "MARKET"}
OrderStatuses ==
    {"PENDING", "ACCEPTED", "PARTIALLY_FILLED", "FILLED", "CANCELLED", "REJECTED"}

Cancellable == {"ACCEPTED", "PARTIALLY_FILLED"}

\* NewOrder's two error returns; side and type are stored unvalidated.
CanCreate(c) ==
    /\ c.quantity > 0
    /\ c.type = "LIMIT" => c.price > 0

NewOrder(c) ==
    [user |-> c.user, pair |-> c.pair, side |-> c.side, type |-> c.type,
     price |-> c.price, quantity |-> c.quantity, filledQty |-> 0,
     status |-> "PENDING", version |-> 1, events |-> <<>>]

\* Of what the events carry only their type matters here.
OrderPlacedEvent == [type |-> "OrderPlaced"]
OrderFilledEvent == [type |-> "OrderFilled"]
OrderCancelledEvent == [type |-> "OrderCancelled"]

CanAccept(o) == o.status = "PENDING"

Accept(o) ==
    [o EXCEPT !.status = "ACCEPTED",
              !.events = Append(@, OrderPlacedEvent)]

\* Mutation: the sum with what is already filled is not bounded.
CanFillTooMuch(o, qty) ==
    /\ o.status \in Cancellable
    /\ qty > 0
    /\ qty <= o.quantity

CanFill(o, qty) ==
    /\ o.status \in Cancellable
    /\ qty > 0
    /\ o.filledQty + qty <= o.quantity

\* Mutation: every fill reports the order as filled.
FillAlwaysReports(o, qty) ==
    [o EXCEPT !.filledQty = @ + qty,
              !.status = IF o.filledQty + qty = o.quantity THEN "FILLED" ELSE "PARTIALLY_FILLED",
              !.events = Append(@, OrderFilledEvent)]

Fill(o, qty) ==
    LET filled == o.filledQty + qty
        full == filled = o.quantity
    IN  [o EXCEPT !.filledQty = filled,
                  !.status = IF full THEN "FILLED" ELSE "PARTIALLY_FILLED",
                  !.events = IF full THEN Append(@, OrderFilledEvent) ELSE @]

\* Mutation: every order that was accepted can be cancelled.
CanCancelUnlessPending(o) == o.status # "PENDING"

CanCancel(o) == o.status \in Cancellable

Cancel(o) ==
    [o EXCEPT !.status = "CANCELLED",
              !.events = Append(@, OrderCancelledEvent)]

CanReject(o) == o.status = "PENDING"

Reject(o) == [o EXCEPT !.status = "REJECTED"]

IsTerminal(o) == o.status \in {"FILLED", "CANCELLED", "REJECTED"}

RemainingQty(o) == o.quantity - o.filledQty

\* The amount of the locked currency that qty of the order stands for.
AmountOf(o, qty) == IF o.side = "BUY" THEN o.price * qty ELSE qty * Scale

RequiredAmount(o) == AmountOf(o, o.quantity)

\* cancel_order.go recomputes the amount from what is not yet filled.
RemainingAmount(o) == AmountOf(o, RemainingQty(o))

LockedCurrency(o) == IF o.side = "BUY" THEN o.pair.quote ELSE o.pair.base

\* PullEvents hands the collected events over and clears them.
ClearEvents(o) == [o EXCEPT !.events = <<>>]
=============================================================================
