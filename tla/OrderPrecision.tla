--------------------------- MODULE OrderPrecision ---------------------------
(***************************************************************************)
(* Orders asked for with more decimals than the columns keep.  The amount  *)
(* that is locked is computed from the exact price and quantity of the     *)
(* request; the amount that is unlocked from the price and quantity that   *)
(* table orders stored, rounded (mysql_order_repo.go, init.sql).           *)
(*                                                                         *)
(* Prices and quantities count units of which One make 1 and Fine make the *)
(* last decimal of a column; amounts count products of two such units.     *)
(* Transactions are atomic and all use one account: their interleaving is  *)
(* OrderService's subject, the arithmetic is this module's.                *)
(***************************************************************************)
EXTENDS Integers, Sequences, FiniteSets, FiniteSetsExt

CONSTANTS
    Orders,          \* the ids of the orders
    PlaceCommands,   \* what clients ask for, all of one side
    Funds,           \* what the account has available at first
    One,             \* units in 1
    Fine             \* units in a column's last decimal; the code has One = 10^8 * Fine

ASSUME PrecisionAssumption ==
    /\ IsFiniteSet(Orders)
    /\ Fine \in Nat \ {0}
    /\ One \in Nat \ {0}
    /\ One % Fine = 0
    /\ Funds \in Nat
    /\ Funds % (One * Fine) = 0
    /\ \A c \in PlaceCommands : c.price \in Int /\ c.quantity \in Int

VARIABLES
    balance,   \* the account's row
    orders,    \* order id -> its row, or Absent
    saves      \* how often the balance was written

vars == <<balance, orders, saves>>

O == INSTANCE OrderAggregate WITH Scale <- One
B == INSTANCE BalanceAggregate
Size == INSTANCE Decimals WITH Scale <- Fine           \* price, quantity
Amount == INSTANCE Decimals WITH Scale <- One * Fine   \* available, locked

Absent == [absent |-> TRUE]

Init ==
    /\ balance = [available |-> Funds, locked |-> 0, events |-> <<>>]
    /\ orders = [o \in Orders |-> Absent]
    /\ saves = 0

\* UPDATE balances: both columns round on their own.
SaveBalance(b) ==
    /\ balance' = [B!ClearBalanceEvents(b) EXCEPT !.available = Amount!Column(@),
                                                  !.locked = Amount!Column(@)]
    /\ saves' = saves + 1

\* Mutation: the column of the quantity is One times coarser than init.sql's.
InsertOrderCoarse(o) ==
    [O!ClearEvents(o) EXCEPT !.price = Size!Column(@), !.quantity = Amount!Column(@)]

\* What INSERT orders leaves of an order for FindByID.
InsertOrder(o) ==
    [O!ClearEvents(o) EXCEPT !.price = Size!Column(@), !.quantity = Size!Column(@)]

\* UPDATE orders writes no price and no quantity.
UpdateOrder(o) == [O!ClearEvents(o) EXCEPT !.version = @ + 1]

Place(o) ==
    /\ orders[o] = Absent
    /\ \E c \in PlaceCommands :
          LET amount == O!RequiredAmount(O!NewOrder(c))
          IN  /\ O!CanCreate(c)
              /\ B!CanDeductAndLock(balance, amount)
              /\ SaveBalance(B!DeductAndLock(balance, amount, o))
              /\ orders' = [orders EXCEPT ![o] = InsertOrder(O!Accept(O!NewOrder(c)))]

Cancel(o) ==
    /\ orders[o] # Absent
    /\ LET amount == O!RemainingAmount(orders[o])
       IN  /\ O!CanCancel(orders[o])
           /\ B!CanUnlock(balance, amount)
           /\ SaveBalance(B!Unlock(balance, amount, o))
           /\ orders' = [orders EXCEPT ![o] = UpdateOrder(O!Cancel(orders[o]))]

Next == \E o \in Orders : Place(o) \/ Cancel(o)

Spec == Init /\ [][Next]_vars
-----------------------------------------------------------------------------
\* Every write of the balance rounds available and locked by at most half a
\* column unit each (Save): whatever orders are placed and cancelled, what the
\* account holds drifts by at most one column unit per write.
DriftIsBounded ==
    LET drift == balance.available + balance.locked - Funds
    IN  /\ drift <= saves * One * Fine
        /\ -drift <= saves * One * Fine
        /\ balance.available >= 0
        /\ balance.locked >= 0

Placed == {o \in Orders : orders[o] # Absent}

OpenOrders == {o \in Placed : O!CanCancel(orders[o])}

\* Twice what rounding price and quantity of a row can move price * quantity by.
RowMargin(o) ==
    IF o.side = "BUY" THEN Fine * (o.price + o.quantity + Fine) ELSE Fine * One

\* A placement locks the amount of the request and a cancellation unlocks the
\* amount of the row (mysql_order_repo.go:61), so a cancelled order leaves
\* something locked, or takes it from what other orders have locked.  Whatever
\* was placed and cancelled, what is locked is off what the open orders can
\* unlock by no more than half a unit per write of the balance and the error of
\* one product of rounded numbers per order.
ResidueIsBounded ==
    LET needed == MapThenSumSet(LAMBDA o : O!RemainingAmount(orders[o]), OpenOrders)
        margin == saves * One * Fine + MapThenSumSet(LAMBDA o : RowMargin(orders[o]), Placed)
    IN  /\ 2 * (balance.locked - needed) <= margin
        /\ 2 * (needed - balance.locked) <= margin
=============================================================================
