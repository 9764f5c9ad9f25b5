---------------------- MODULE OrderServiceMoneyProofs -----------------------
(***************************************************************************)
(* What OrderService writes down, for any requests, accounts, funds, keys  *)
(* and orders asked for: which events a transaction stages, in which       *)
(* order they become visible in outbox_events, and that they tell what the *)
(* tables hold; and, for orders whose amounts the columns store exactly    *)
(* (AmountsRepresentable), that money is conserved, that the events of an  *)
(* account replay its balance, that what is locked is what open orders     *)
(* need, and that the service implements the ledger.                       *)
(***************************************************************************)
EXTENDS OrderServiceProofs, FiniteSetTheorems

-----------------------------------------------------------------------------
(* The operators. *)

\* The row of a single event takes the next id.
LEMMA OutboxRowsOfOne ==
    ASSUME nextId \in Nat, NEW a, NEW e
    PROVE  /\ OutboxRows(a, <<e>>) = {[id |-> nextId, aggregate |-> a, event |-> e]}
           /\ Len(<<e>>) = 1
<1>1. Len(<<e>>) = 1 /\ <<e>>[1] = e
  OBVIOUS
<1>2. \A i \in 1..Len(<<e>>) : i = 1
  BY <1>1
<1>3. nextId + 1 - 1 = nextId /\ 1 \in 1..Len(<<e>>)
  BY <1>1
<1>4. OutboxRows(a, <<e>>) = {[id |-> nextId + 1 - 1, aggregate |-> a, event |-> <<e>>[1]]}
  BY <1>2, <1>3 DEF OutboxRows
<1> QED
  BY <1>1, <1>3, <1>4

\* What an order stands for does not change when its status does.
LEMMA AmountsKept ==
    ASSUME NEW o \in OrderRecords
    PROVE  /\ RemainingAmount(Accept(o)) = RemainingAmount(o)
           /\ RemainingAmount(Cancel(o)) = RemainingAmount(o)
           /\ RemainingAmount(ClearEvents(o)) = RemainingAmount(o)
           /\ RemainingAmount(o) \in Int
           /\ o.filledQty = 0 => RequiredAmount(o) = RemainingAmount(o)
<1>1. o.quantity \in Int /\ o.filledQty \in Int
  BY DEF OrderRecords
<1>2. o.filledQty = 0 => RemainingQty(o) = o.quantity
  BY <1>1 DEF RemainingQty
<1> QED
  BY <1>2, OrderMethodsType
  DEF RemainingAmount, RequiredAmount, RemainingQty, AmountOf, Accept, Cancel, ClearEvents,
      OrderRecords

\* The balances and the events that DeductAndLock and Unlock leave behind.
LEMMA BalanceMethodsFields ==
    ASSUME NEW a \in Accounts, NEW amount \in Int, NEW ref, TypeInv
    PROVE  LET b == LoadBalance(a)
               d == DeductAndLock(b, amount, ref)
               u == Unlock(b, amount, ref)
           IN  /\ b.available = balances[a].available
               /\ b.locked = balances[a].locked
               /\ d.available = balances[a].available - amount
               /\ d.locked = balances[a].locked + amount
               /\ d.events = <<BalanceEvent("BalanceDeducted", d, amount, ref)>>
               /\ u.available = balances[a].available + amount
               /\ u.locked = balances[a].locked - amount
               /\ u.events = <<BalanceEvent("BalanceRestored", u, amount, ref)>>
<1> DEFINE b == LoadBalance(a)
           d == DeductAndLock(b, amount, ref)
           u == Unlock(b, amount, ref)
<1>1. b \in BalanceRecords
  BY LoadBalanceType
<1>2. \A x : Append(<<>>, x) = <<x>>
  OBVIOUS
<1>3. /\ b.available = balances[a].available
      /\ b.locked = balances[a].locked
      /\ b.events = <<>>
  BY DEF LoadBalance
<1> HIDE DEF b
<1>4. /\ d.available = b.available - amount
      /\ d.locked = b.locked + amount
      /\ u.available = b.available + amount
      /\ u.locked = b.locked - amount
  BY <1>1 DEF DeductAndLock, Unlock, BalanceRecords
<1>5. d.events = <<BalanceEvent("BalanceDeducted", d, amount, ref)>>
  <2> DEFINE e == BalanceEvent("BalanceDeducted",
                    [b EXCEPT !.available = b.available - amount, !.locked = b.locked + amount],
                    amount, ref)
  <2>1. d.events = Append(b.events, e)
    BY <1>1 DEF DeductAndLock, BalanceDeductedEvent, BalanceRecords
  <2>2. e = BalanceEvent("BalanceDeducted", d, amount, ref)
    BY <1>1, <1>4 DEF BalanceEvent, BalanceRecords
  <2> HIDE DEF e, d
  <2> QED
    BY <1>2, <1>3, <2>1, <2>2
<1>6. u.events = <<BalanceEvent("BalanceRestored", u, amount, ref)>>
  <2> DEFINE e == BalanceEvent("BalanceRestored",
                    [b EXCEPT !.available = b.available + amount, !.locked = b.locked - amount],
                    amount, ref)
  <2>1. u.events = Append(b.events, e)
    BY <1>1 DEF Unlock, BalanceRestoredEvent, BalanceRecords
  <2>2. e = BalanceEvent("BalanceRestored", u, amount, ref)
    BY <1>1, <1>4 DEF BalanceEvent, BalanceRecords
  <2> HIDE DEF e, u
  <2> QED
    BY <1>2, <1>3, <2>1, <2>2
<1> HIDE DEF d, u
<1>7. /\ d.available = balances[a].available - amount
      /\ d.locked = balances[a].locked + amount
      /\ u.available = balances[a].available + amount
      /\ u.locked = balances[a].locked - amount
  BY <1>3, <1>4
<1> QED
  BY <1>3, <1>5, <1>6, <1>7 DEF b, d, u

-----------------------------------------------------------------------------
(* WorkOK is inductive. *)

\* A step that keeps the command, the account, the amounts and the balance in
\* memory keeps what the request is about to say and write.
LEMMA WorkKept ==
    ASSUME NEW r \in Requests, UNCHANGED cmd,
           AccountOf(order'[r]) = AccountOf(order[r]),
           RemainingAmount(order'[r]) = RemainingAmount(order[r]),
           balance'[r].available = balance[r].available,
           balance'[r].locked = balance[r].locked
    PROVE  /\ BalanceEventInHand(r)' = BalanceEventInHand(r)
           /\ \A n : [id |-> n, aggregate |-> AccountOf(order'[r]), event |-> BalanceEventInHand(r)']
                    = BalanceEntry(r, n)
           /\ UNCHANGED balances /\ MoneyInHand(r) => MoneyInHand(r)'
<1>1. IsPlace(r)' = IsPlace(r) /\ OrderId(r)' = OrderId(r)
  BY DEF IsPlace, OrderId
<1>2. RemainingAmount(order[r])' = RemainingAmount(order[r])
  BY DEF RemainingAmount, AmountOf, RemainingQty
<1>3. AccountOf(order[r])' = AccountOf(order[r])
  BY DEF AccountOf, LockedCurrency
<1>4. BalanceEventInHand(r)' = BalanceEventInHand(r)
  BY <1>1, <1>2 DEF BalanceEventInHand, BalanceEvent
<1>5. UNCHANGED balances /\ MoneyInHand(r) => MoneyInHand(r)'
  BY <1>1, <1>2, <1>3 DEF MoneyInHand
<1> QED
  BY <1>4, <1>5 DEF BalanceEntry

WorkInHand(r) == (pc[r] \in InTransaction => MoneyInHand(r)) /\ EventsInHand(r)

LEMMA WorkStays ==
    ASSUME NEW s \in Requests, WorkInHand(s),
           pc'[s] = pc[s], cmd'[s] = cmd[s], order'[s] = order[s], balance'[s] = balance[s],
           tx'[s] = tx[s],
           pc[s] \in InTransaction =>
               balances'[AccountOf(order[s])] = balances[AccountOf(order[s])]
    PROVE  WorkInHand(s)'
<1>1. /\ IsPlace(s)' = IsPlace(s)
      /\ OrderId(s)' = OrderId(s)
      /\ AccountOf(order[s])' = AccountOf(order[s])
      /\ RemainingAmount(order[s])' = RemainingAmount(order[s])
  BY DEF IsPlace, OrderId, AccountOf, RemainingAmount, AmountOf, RemainingQty, LockedCurrency
<1>2. BalanceEventInHand(s)' = BalanceEventInHand(s)
  BY <1>1 DEF BalanceEventInHand, BalanceEvent
<1>3. EventsInHand(s)'
  BY <1>1, <1>2
  DEF WorkInHand, EventsInHand, BalanceEntry, OrderEntry, StagedIds, OrderPlacedEvent,
      OrderCancelledEvent
<1>4. pc'[s] \in InTransaction => MoneyInHand(s)'
  BY <1>1 DEF WorkInHand, MoneyInHand
<1> QED
  BY <1>3, <1>4 DEF WorkInHand

\* The work of a request is nobody else's business, as long as the row of its
\* account stays as it is.
LEMMA OthersKeepTheirWork ==
    ASSUME WorkOK, NEW r \in Requests, OthersUnchanged(r), WorkInHand(r)',
           \A s \in Requests \ {r} : pc[s] \in InTransaction =>
               balances'[AccountOf(order[s])] = balances[AccountOf(order[s])]
    PROVE  WorkOK'
<1>1. ASSUME NEW s \in Requests \ {r} PROVE WorkInHand(s)'
  <2>1. WorkInHand(s)
    BY DEF WorkOK, WorkInHand
  <2> QED
    BY <2>1, WorkStays DEF OthersUnchanged
<1> QED
  BY <1>1 DEF WorkOK, WorkInHand

LEMMA StepKeepsWork ==
    ASSUME TypeInv, LocksOK, KeysOK, OrdersOK, WorkOK,
           NEW r \in Requests, OthersUnchanged(r), Effect(r)
    PROVE  WorkOK'
<1>1. ASSUME UNCHANGED balances, WorkInHand(r)' PROVE WorkOK'
  BY <1>1, OthersKeepTheirWork
<1>2. WorkInHand(r) /\ InHand(r)
  BY DEF WorkOK, WorkInHand, TypeInv, ControlOK
<1>3. UNCHANGED cmd => IsPlace(r)' = IsPlace(r) /\ OrderId(r)' = OrderId(r)
  BY DEF IsPlace, OrderId
<1>4. nextId \in Nat
  BY DEF TypeInv, TypeOK, TablesOK
<1>5. pc[r] \in {"lock"} \cup InTransaction =>
         /\ order[r] \in OrderRecords
         /\ OrderInHand(r)
         /\ order[r].filledQty = 0
  BY <1>2 DEF InHand, OrdersOK, OrderInHand, NewOrderInHand, ReadOrderInHand
\* Statements outside the transaction stage nothing.
<1>6. ASSUME UNCHANGED balances, tx'[r].events = {}, pc'[r] \notin InTransaction PROVE WorkOK'
  <2>1. WorkInHand(r)'
    BY <1>6 DEF WorkInHand, EventsInHand, InTransaction
  <2> QED
    BY <1>1, <1>6, <2>1
<1>7. pc[r] \notin InTransaction \ {"saveBalance"} => tx[r].events = {}
  BY <1>2 DEF WorkInHand, EventsInHand
<1>8. CASE Leaving(r)
  BY <1>6, <1>7, <1>8 DEF Leaving
<1>9. CASE Creating(r) \/ Reading(r)
  BY <1>6, <1>7, <1>9 DEF Creating, Reading, InTransaction
\* The domain operation moves the amount and says so in one event.
<1>10. ASSUME NEW b, NEW o, Locking(r, b, o), UNCHANGED balances,
              LET amount == RemainingAmount(order[r])
                  row == balances[AccountOf(order[r])]
              IN  /\ AccountOf(o) = AccountOf(order[r])
                  /\ RemainingAmount(o) = amount
                  /\ amount > 0
                  /\ IF IsPlace(r)
                     THEN /\ amount <= row.available
                          /\ b.available = row.available - amount
                          /\ b.locked = row.locked + amount
                          /\ b.events = <<BalanceEvent("BalanceDeducted", b, amount, OrderId(r))>>
                     ELSE /\ amount <= row.locked
                          /\ b.available = row.available + amount
                          /\ b.locked = row.locked - amount
                          /\ b.events = <<BalanceEvent("BalanceRestored", b, amount, OrderId(r))>>
       PROVE  WorkOK'
  <2>1. /\ pc[r] = "lock"
        /\ pc'[r] = "saveBalance"
        /\ balance'[r] = b
        /\ order'[r] = o
        /\ UNCHANGED <<cmd, tx>>
    BY <1>10 DEF Locking
  <2>2. /\ AccountOf(order[r])' = AccountOf(order[r])
        /\ RemainingAmount(order[r])' = RemainingAmount(order[r])
    BY <1>10, <2>1 DEF AccountOf, LockedCurrency, RemainingAmount, AmountOf, RemainingQty
  <2>3. MoneyInHand(r)'
    BY <1>3, <1>10, <2>1, <2>2 DEF MoneyInHand
  <2>4. balance'[r].events = <<BalanceEventInHand(r)'>>
    BY <1>3, <1>10, <2>1, <2>2 DEF BalanceEventInHand, BalanceEvent
  <2>5. EventsInHand(r)'
    BY <1>7, <2>1, <2>4 DEF EventsInHand, InTransaction
  <2> QED
    BY <1>1, <1>10, <2>1, <2>3, <2>5 DEF WorkInHand
<1>11. CASE Deducting(r)
  <2> DEFINE a == AccountOf(order[r])
             amount == RequiredAmount(order[r])
             b == DeductAndLock(LoadBalance(a), amount, r)
  <2>1. /\ pc[r] = "lock"
        /\ IsPlace(r)
        /\ a \in Accounts
        /\ CanDeductAndLock(LoadBalance(a), amount)
        /\ Locking(r, b, Accept(order[r]))
        /\ UNCHANGED balances
    BY <1>11 DEF Deducting, Locking
  <2>2. /\ amount = RemainingAmount(order[r])
        /\ amount \in Int
        /\ AccountOf(Accept(order[r])) = a
        /\ RemainingAmount(Accept(order[r])) = RemainingAmount(order[r])
    BY <1>5, <2>1, AmountsKept, OrderMethodsType
  <2>3. /\ LoadBalance(a).available = balances[a].available
        /\ b.available = balances[a].available - amount
        /\ b.locked = balances[a].locked + amount
        /\ b.events = <<BalanceEvent("BalanceDeducted", b, amount, r)>>
    BY <2>1, <2>2, BalanceMethodsFields
  <2>4. amount > 0 /\ LoadBalance(a).available >= amount
    BY <2>1 DEF CanDeductAndLock
  <2>5. balances[a].available \in Int
    BY <2>1 DEF TypeInv, TypeOK, TablesOK, BalanceRows
  <2>6. amount <= balances[a].available /\ OrderId(r) = r
    BY <2>1, <2>2, <2>3, <2>4, <2>5 DEF OrderId
  <2> HIDE DEF b, amount, a
  <2> QED
    BY <1>10, <2>1, <2>2, <2>3, <2>4, <2>6 DEF a
<1>12. CASE Unlocking(r)
  <2> DEFINE a == AccountOf(order[r])
             amount == RemainingAmount(order[r])
             b == Unlock(LoadBalance(a), amount, cmd[r].order)
  <2>1. /\ pc[r] = "lock"
        /\ ~IsPlace(r)
        /\ a \in Accounts
        /\ CanUnlock(LoadBalance(a), amount)
        /\ Locking(r, b, Cancel(order[r]))
        /\ UNCHANGED balances
    BY <1>12 DEF Unlocking, Locking
  <2>2. /\ amount \in Int
        /\ AccountOf(Cancel(order[r])) = a
        /\ RemainingAmount(Cancel(order[r])) = amount
    BY <1>5, <2>1, AmountsKept, OrderMethodsType
  <2>3. /\ LoadBalance(a).locked = balances[a].locked
        /\ b.available = balances[a].available + amount
        /\ b.locked = balances[a].locked - amount
        /\ b.events = <<BalanceEvent("BalanceRestored", b, amount, cmd[r].order)>>
    BY <2>1, <2>2, BalanceMethodsFields
  <2>4. amount > 0 /\ LoadBalance(a).locked >= amount
    BY <2>1 DEF CanUnlock
  <2>5. balances[a].locked \in Int
    BY <2>1 DEF TypeInv, TypeOK, TablesOK, BalanceRows
  <2>6. amount <= balances[a].locked /\ OrderId(r) = cmd[r].order
    BY <2>1, <2>2, <2>3, <2>4, <2>5 DEF OrderId
  <2> HIDE DEF b
  <2> QED
    BY <1>10, <2>1, <2>2, <2>3, <2>4, <2>6
\* From here on a statement only adds what is in hand to what is staged.
<1>13. ASSUME pc[r] \in InTransaction, pc'[r] \in InTransaction, UNCHANGED <<balances, cmd>>,
              AccountOf(order'[r]) = AccountOf(order[r]),
              RemainingAmount(order'[r]) = RemainingAmount(order[r]),
              balance'[r].available = balance[r].available,
              balance'[r].locked = balance[r].locked
       PROVE  /\ MoneyInHand(r)'
              /\ \A n : BalanceEntry(r, n)' = BalanceEntry(r, n)
              /\ \A n : OrderEntry(r, n)' = OrderEntry(r, n)
  <2>1. MoneyInHand(r)
    BY <1>2, <1>13 DEF WorkInHand
  <2>2. AccountOf(order[r])' = AccountOf(order'[r])
    BY DEF AccountOf, LockedCurrency
  <2>3. \A n : BalanceEntry(r, n)' =
               [id |-> n, aggregate |-> AccountOf(order'[r]), event |-> BalanceEventInHand(r)']
    BY <2>2 DEF BalanceEntry
  <2>4. \A n : OrderEntry(r, n)' = OrderEntry(r, n)
    BY <1>3, <1>13 DEF OrderEntry, OrderPlacedEvent, OrderCancelledEvent
  <2> QED
    BY <1>13, <2>1, <2>3, <2>4, WorkKept
<1>14. CASE Saving(r)
  <2> DEFINE a == AccountOf(order[r])
  <2>1. /\ pc[r] = "saveBalance"
        /\ pc'[r] = IF IsPlace(r) THEN "insertOrder" ELSE "updateOrder"
        /\ tx'[r].events = tx[r].events \cup OutboxRows(a, balance[r].events)
        /\ balance'[r] = ClearBalanceEvents(balance[r])
        /\ UNCHANGED <<balances, cmd, order>>
    BY <1>14 DEF Saving
  <2>2. balance[r] \in BalanceRecords
    BY <1>2, <2>1 DEF InHand, InTransaction
  <2>3. balance'[r].available = balance[r].available /\ balance'[r].locked = balance[r].locked
    BY <2>1, <2>2, 0 \in Int, BalanceMethodsPreserve
  <2>4. tx[r].events = {} /\ balance[r].events = <<BalanceEventInHand(r)>>
    BY <1>2, <2>1 DEF WorkInHand, EventsInHand
  <2>5. tx'[r].events = {BalanceEntry(r, nextId)}
    BY <1>4, <2>1, <2>4, OutboxRowsOfOne DEF BalanceEntry
  <2>6. PICK n : n = nextId
    OBVIOUS
  <2>7. /\ MoneyInHand(r)'
        /\ BalanceEntry(r, n)' = BalanceEntry(r, n)
    BY <1>13, <2>1, <2>3 DEF InTransaction
  <2>8. tx'[r].events = {BalanceEntry(r, n)'} /\ n \in StagedIds(r)'
    BY <2>5, <2>6, <2>7 DEF StagedIds, BalanceEntry
  <2>9. EventsInHand(r)'
    BY <2>1, <2>8 DEF EventsInHand, InTransaction
  <2> QED
    BY <1>1, <2>1, <2>7, <2>9 DEF WorkInHand
<1>15. ASSUME NEW row, StagingOrder(r, row), pc[r] \in {"insertOrder", "updateOrder"},
              pc'[r] \in {"saveKey", "commit"},
              order[r].events = <<IF IsPlace(r) THEN OrderPlacedEvent ELSE OrderCancelledEvent>>
       PROVE  WorkOK'
  <2> DEFINE e == IF IsPlace(r) THEN OrderPlacedEvent ELSE OrderCancelledEvent
             q == OrderId(r)
  <2>1. /\ tx'[r].events = tx[r].events \cup OutboxRows(q, order[r].events)
        /\ order'[r] = ClearEvents(order[r])
        /\ UNCHANGED <<balances, cmd, balance>>
    BY <1>15 DEF StagingOrder
  <2>2. PICK n \in StagedIds(r) : tx[r].events = {BalanceEntry(r, n)}
    BY <1>2, <1>15 DEF WorkInHand, EventsInHand
  <2>3. OutboxRows(q, order[r].events) = {[id |-> nextId, aggregate |-> q, event |-> e]}
    BY <1>4, <1>15, OutboxRowsOfOne
  <2>4. PICK m : m = nextId
    OBVIOUS
  <2>5. OutboxRows(q, order[r].events) = {OrderEntry(r, m)}
    BY <2>3, <2>4 DEF OrderEntry
  <2>6. /\ AccountOf(order'[r]) = AccountOf(order[r])
        /\ RemainingAmount(order'[r]) = RemainingAmount(order[r])
    BY <1>5, <1>15, <2>1, AmountsKept, OrderMethodsType DEF InTransaction
  <2>7. /\ MoneyInHand(r)'
        /\ BalanceEntry(r, n)' = BalanceEntry(r, n)
        /\ OrderEntry(r, m)' = OrderEntry(r, m)
    BY <1>13, <1>15, <2>1, <2>6 DEF InTransaction
  <2>8. /\ tx'[r].events = {BalanceEntry(r, n)', OrderEntry(r, m)'}
        /\ n \in StagedIds(r)'
        /\ m \in StagedIds(r)'
    BY <2>1, <2>2, <2>5, <2>7 DEF StagedIds, BalanceEntry, OrderEntry
  <2>9. EventsInHand(r)'
    BY <1>15, <2>8 DEF EventsInHand, InTransaction
  <2> QED
    BY <1>1, <2>1, <2>7, <2>9 DEF WorkInHand
<1>16. CASE Inserting(r)
  <2>1. IsPlace(r) /\ pc[r] = "insertOrder" /\ pc'[r] \in {"saveKey", "commit"}
    BY <1>16 DEF Inserting
  <2>2. order[r].events = <<OrderPlacedEvent>>
    BY <1>5, <2>1 DEF OrderInHand, NewOrderInHand, InTransaction
  <2> QED
    BY <1>15, <1>16, <2>1, <2>2 DEF Inserting
<1>17. CASE Updating(r)
  <2>1. ~IsPlace(r) /\ pc[r] = "updateOrder" /\ pc'[r] = "commit"
    BY <1>17 DEF Updating
  <2>2. order[r].events = <<OrderCancelledEvent>>
    BY <1>5, <2>1 DEF OrderInHand, ReadOrderInHand, InTransaction
  <2> QED
    BY <1>15, <1>17, <2>1, <2>2 DEF Updating
<1>18. CASE SavingKey(r)
  <2>1. /\ pc[r] = "saveKey"
        /\ pc'[r] = "commit"
        /\ tx'[r].events = tx[r].events
        /\ UNCHANGED <<balances, cmd, order, balance>>
    BY <1>18 DEF SavingKey
  <2>2. PICK n \in StagedIds(r), m \in StagedIds(r) :
           tx[r].events = {BalanceEntry(r, n), OrderEntry(r, m)}
    BY <1>2, <2>1 DEF WorkInHand, EventsInHand
  <2>3. /\ MoneyInHand(r)'
        /\ BalanceEntry(r, n)' = BalanceEntry(r, n)
        /\ OrderEntry(r, m)' = OrderEntry(r, m)
    BY <1>13, <2>1 DEF InTransaction
  <2>4. /\ tx'[r].events = {BalanceEntry(r, n)', OrderEntry(r, m)'}
        /\ n \in StagedIds(r)'
        /\ m \in StagedIds(r)'
    BY <2>1, <2>2, <2>3 DEF StagedIds
  <2>5. EventsInHand(r)'
    BY <2>1, <2>4 DEF EventsInHand, InTransaction
  <2> QED
    BY <1>1, <2>1, <2>3, <2>5 DEF WorkInHand
<1>19. CASE Committing(r)
  <2>1. /\ pc[r] = "commit"
        /\ pc'[r] = "done"
        /\ tx'[r].events = {}
        /\ \A c \in Accounts \ {AccountOf(order[r])} : balances'[c] = balances[c]
    BY <1>19 DEF Committing
  <2>2. \A s \in Requests \ {r} : pc[s] \in InTransaction =>
           balances'[AccountOf(order[s])] = balances[AccountOf(order[s])]
    BY <2>1 DEF LocksOK, BalanceLocksExclude, InTransaction, TypeInv, ControlOK, InHand
  <2>3. WorkInHand(r)'
    BY <2>1 DEF WorkInHand, EventsInHand, InTransaction
  <2> QED
    BY <2>2, <2>3, OthersKeepTheirWork
<1> QED
  BY <1>8, <1>9, <1>11, <1>12, <1>14, <1>16, <1>17, <1>18, <1>19 DEF Effect

LEMMA InitWork == Init => WorkOK
<1> SUFFICES ASSUME Init PROVE WorkOK
  OBVIOUS
<1>1. \A r \in Requests : pc[r] = "idle" /\ tx[r].events = {}
  BY DEF Init, NoWrites
<1> QED
  BY <1>1 DEF WorkOK, EventsInHand, InTransaction

LEMMA NextWork ==
    TypeInv /\ LocksOK /\ KeysOK /\ OrdersOK /\ WorkOK /\ [Next]_vars => WorkOK'
<1> SUFFICES ASSUME TypeInv, LocksOK, KeysOK, OrdersOK, WorkOK, [Next]_vars PROVE WorkOK'
  OBVIOUS
<1>1. ASSUME NEW r \in Requests, OthersUnchanged(r), Effect(r) PROVE WorkOK'
  BY <1>1, StepKeepsWork
<1>2. ASSUME UNCHANGED <<balances, pc, cmd, order, balance, tx>> PROVE WorkOK'
  <2>1. ASSUME NEW s \in Requests PROVE WorkInHand(s)'
    <3>1. WorkInHand(s)
      BY DEF WorkOK, WorkInHand
    <3> QED
      BY <1>2, <3>1, WorkStays
  <2> QED
    BY <2>1 DEF WorkOK, WorkInHand
<1> QED
  BY <1>1, <1>2, StepsOfOthers

-----------------------------------------------------------------------------
(* The order in which events become visible. *)

Invariants == TypeInv /\ LocksOK /\ KeysOK /\ OrdersOK /\ WorkOK

\* A transaction writes events of its account and of its order only.
LEMMA StagedAggregates ==
    ASSUME Invariants, NEW r \in Requests, NEW e \in tx[r].events
    PROVE  /\ pc[r] \in InTransaction
           /\ \/ /\ e.aggregate = AccountOf(order[r])
                 /\ e.aggregate \in Accounts
              \/ /\ e.aggregate = OrderId(r)
                 /\ e.aggregate \in Requests
                 /\ pc[r] \in {"saveKey", "commit"}
<1>1. EventsInHand(r) /\ InHand(r)
  BY DEF Invariants, WorkOK, TypeInv, ControlOK
<1>2. pc[r] \in InTransaction \ {"saveBalance"}
  BY <1>1 DEF EventsInHand
<1>3. OrderId(r) \in Requests
  BY <1>1, <1>2, CommandKinds DEF InHand, OrderId, IsPlace, InTransaction
<1>4. AccountOf(order[r]) \in Accounts
  BY <1>1, <1>2 DEF InHand
<1>5. CASE pc[r] \in {"insertOrder", "updateOrder"}
  <2>1. PICK n : e = BalanceEntry(r, n)
    BY <1>1, <1>5 DEF EventsInHand
  <2> QED
    BY <1>2, <1>4, <2>1 DEF BalanceEntry
<1>6. CASE pc[r] \in {"saveKey", "commit"}
  <2>1. PICK n, m : e = BalanceEntry(r, n) \/ e = OrderEntry(r, m)
    BY <1>1, <1>6 DEF EventsInHand
  <2> QED
    BY <1>2, <1>3, <1>4, <1>6, <2>1 DEF BalanceEntry, OrderEntry
<1> QED
  BY <1>2, <1>5, <1>6 DEF InTransaction

\* While one transaction commits, nobody else has events of its aggregates.
LEMMA StagedAggregatesExclude ==
    ASSUME Invariants, NEW r \in Requests, pc[r] = "commit", NEW s \in Requests \ {r},
           NEW d \in tx[r].events, NEW e \in tx[s].events
    PROVE  d.aggregate # e.aggregate
<1> SUFFICES ASSUME d.aggregate = e.aggregate PROVE FALSE
  OBVIOUS
<1>1. /\ pc[r] \in InTransaction
      /\ \/ d.aggregate = AccountOf(order[r]) /\ d.aggregate \in Accounts
         \/ d.aggregate = OrderId(r) /\ d.aggregate \in Requests
  BY StagedAggregates
<1>2. /\ pc[s] \in InTransaction
      /\ \/ e.aggregate = AccountOf(order[s]) /\ e.aggregate \in Accounts
         \/ /\ e.aggregate = OrderId(s)
            /\ e.aggregate \in Requests
            /\ pc[s] \in {"saveKey", "commit"}
  BY StagedAggregates
<1>3. AccountOf(order[r]) # AccountOf(order[s])
  BY <1>1, <1>2 DEF Invariants, LocksOK, BalanceLocksExclude
<1>4. OrderId(r) = OrderId(s) /\ OrderId(r) \in Requests /\ pc[s] \in {"saveKey", "commit"}
  BY <1>1, <1>2, <1>3, AggregateIdsAssumption
<1>5. ASSUME NEW p \in Requests, NEW c \in Requests \ {p}, IsPlace(p), ~IsPlace(c),
             pc[p] \in InTransaction, pc[c] \in InTransaction
      PROVE  OrderId(p) # OrderId(c)
  <2>1. orders[cmd[c].order] # Absent /\ orders[p] = Absent
    BY <1>5 DEF Invariants, KeysOK, OrdersComeFromPlacing, InTransaction
  <2> QED
    BY <1>5, <2>1 DEF OrderId
<1>6. CASE IsPlace(r) /\ IsPlace(s)
  BY <1>4, <1>6 DEF OrderId
<1>7. CASE ~IsPlace(r) /\ ~IsPlace(s)
  <2>1. pc[s] = "commit"
    BY <1>4, <1>7 DEF Invariants, TypeInv, ControlOK, InHand
  <2> QED
    BY <1>4, <1>7, <2>1 DEF OrderId, Invariants, OrdersOK, CancellationsExclude
<1> QED
  BY <1>1, <1>2, <1>4, <1>5, <1>6, <1>7

\* Staged rows take ids that were never used.
LEMMA OutboxRowIds ==
    ASSUME nextId \in Nat, NEW a,
           NEW events \in Seq(OrderEventRecords) \cup Seq(BalanceEventRecords),
           NEW e \in OutboxRows(a, events)
    PROVE  nextId <= e.id /\ e.id < nextId + Len(events) /\ e.id \in Nat
<1>1. Len(events) \in Nat
  OBVIOUS
<1>2. PICK i \in 1..Len(events) : e.id = nextId + i - 1
  BY DEF OutboxRows
<1> QED
  BY <1>1, <1>2

\* A step that commits nothing, and stages only events with new ids.
LEMMA StagingKeepsIds ==
    ASSUME TypeInv, IdsOK, NEW r \in Requests, OthersUnchanged(r), UNCHANGED outbox,
           NEW n \in Nat, nextId' = nextId + n,
           \A e \in tx'[r].events :
               \/ e \in tx[r].events
               \/ nextId <= e.id /\ e.id < nextId + n /\ e.id \in Nat
    PROVE  IdsOK'
<1>1. nextId \in Nat /\ \A d \in outbox : d.id \in Nat
  BY DEF TypeInv, TypeOK, TablesOK, OutboxRecords
<1>2. \A s \in Requests : \A e \in tx[s].events : e.id \in Nat
  BY DEF TypeInv, TypeOK, RequestsOK, WriteSets, OutboxRecords
<1>3. \A d \in outbox : d.id < nextId /\ d.id < nextId'
  <2>1. \A d \in outbox : d.id < nextId
    BY DEF IdsOK
  <2> QED
    BY <1>1, <2>1
<1>4. ASSUME NEW s \in Requests, NEW e \in tx'[s].events
      PROVE  e.id < nextId' /\ \A d \in outbox : d.aggregate = e.aggregate => d.id < e.id
  <2>1. CASE e \in tx[s].events
    <3>1. e.id < nextId /\ \A d \in outbox : d.aggregate = e.aggregate => d.id < e.id
      BY <2>1 DEF IdsOK
    <3>2. e.id < nextId'
      BY <1>1, <1>2, <2>1, <3>1
    <3> QED
      BY <3>1, <3>2
  <2>2. CASE nextId <= e.id /\ e.id < nextId + n /\ e.id \in Nat
    <3>1. \A d \in outbox : d.id < e.id
      BY <1>1, <1>3, <2>2
    <3> QED
      BY <2>2, <3>1
  <2> QED
    BY <1>4, <2>1, <2>2 DEF OthersUnchanged
<1> QED
  BY <1>3, <1>4 DEF IdsOK

\* What a committing transaction appends.
LEMMA CommittedEvents ==
    ASSUME Invariants, NEW r \in Requests, pc[r] = "commit"
    PROVE  /\ \E n, m \in StagedIds(r) : tx[r].events = {BalanceEntry(r, n), OrderEntry(r, m)}
           /\ AccountOf(order[r]) \in Accounts
           /\ OrderId(r) \in Requests
           /\ AccountOf(order[r]) # OrderId(r)
<1>1. EventsInHand(r) /\ InHand(r)
  BY DEF Invariants, WorkOK, TypeInv, ControlOK
<1>2. \E n, m \in StagedIds(r) : tx[r].events = {BalanceEntry(r, n), OrderEntry(r, m)}
  BY <1>1 DEF EventsInHand
<1>3. OrderId(r) \in Requests
  BY <1>1, CommandKinds DEF InHand, OrderId, IsPlace
<1>4. AccountOf(order[r]) \in Accounts
  BY <1>1 DEF InHand, InTransaction
<1> QED
  BY <1>2, <1>3, <1>4, AggregateIdsAssumption

LEMMA CommittingKeepsIds ==
    ASSUME Invariants, IdsOK, NEW r \in Requests, OthersUnchanged(r), Committing(r)
    PROVE  IdsOK'
<1>1. /\ pc[r] = "commit"
      /\ outbox' = outbox \cup tx[r].events
      /\ tx'[r].events = {}
      /\ nextId' = nextId
      /\ \A s \in Requests \ {r} : tx'[s] = tx[s]
  BY DEF Committing, OthersUnchanged
<1>2. \A d \in outbox' : d.id < nextId'
  BY <1>1 DEF IdsOK
<1>3. \A d \in outbox' : d.id \in Nat
  BY <1>1
  DEF Invariants, TypeInv, TypeOK, TablesOK, RequestsOK, WriteSets, OutboxRecords
<1>4. \A d \in outbox, e \in tx[r].events : d.aggregate = e.aggregate => d.id # e.id
  BY <1>1, <1>3 DEF IdsOK
<1>5. \A d, e \in tx[r].events : d.aggregate = e.aggregate => d = e
  <2>1. PICK n, m : tx[r].events = {BalanceEntry(r, n), OrderEntry(r, m)}
    BY <1>1, CommittedEvents
  <2>2. BalanceEntry(r, n).aggregate # OrderEntry(r, m).aggregate
    BY <1>1, CommittedEvents DEF BalanceEntry, OrderEntry
  <2> QED
    BY <2>1, <2>2
<1>6. \A d, e \in outbox' : d.aggregate = e.aggregate /\ d.id = e.id => d = e
  <2>1. \A d, e \in outbox : d.aggregate = e.aggregate /\ d.id = e.id => d = e
    BY DEF IdsOK
  <2> QED
    BY <1>1, <1>4, <1>5, <2>1
<1>7. ASSUME NEW s \in Requests, NEW e \in tx'[s].events
      PROVE  e.id < nextId' /\ \A d \in outbox' : d.aggregate = e.aggregate => d.id < e.id
  <2>1. s # r /\ e \in tx[s].events
    BY <1>1, <1>7
  <2>2. \A d \in tx[r].events : d.aggregate # e.aggregate
    BY <1>1, <2>1, StagedAggregatesExclude
  <2> QED
    BY <1>1, <2>1, <2>2 DEF IdsOK
<1> QED
  BY <1>2, <1>6, <1>7 DEF IdsOK

LEMMA StepKeepsIds ==
    ASSUME Invariants, IdsOK, NEW r \in Requests, OthersUnchanged(r), Effect(r)
    PROVE  IdsOK'
<1>1. TypeInv /\ nextId \in Nat
  BY DEF Invariants, TypeInv, TypeOK, TablesOK
<1>2. ASSUME UNCHANGED <<outbox, nextId>>, tx'[r].events \subseteq tx[r].events PROVE IdsOK'
  <2>1. nextId' = nextId + 0
    BY <1>1, <1>2
  <2> QED
    BY <1>1, <1>2, <2>1, StagingKeepsIds
<1>3. ASSUME NEW a, NEW events \in Seq(OrderEventRecords) \cup Seq(BalanceEventRecords),
             UNCHANGED outbox,
             tx'[r].events = tx[r].events \cup OutboxRows(a, events),
             nextId' = nextId + Len(events)
      PROVE  IdsOK'
  <2>1. Len(events) \in Nat
    OBVIOUS
  <2>2. \A e \in OutboxRows(a, events) :
           nextId <= e.id /\ e.id < nextId + Len(events) /\ e.id \in Nat
    BY <1>1, OutboxRowIds
  <2> QED
    BY <1>1, <1>3, <2>1, <2>2, StagingKeepsIds
<1>4. InHand(r)
  BY DEF Invariants, TypeInv, ControlOK
<1>5. CASE Leaving(r)
  BY <1>2, <1>5 DEF Leaving
<1>6. CASE Creating(r) \/ Reading(r) \/ Deducting(r) \/ Unlocking(r) \/ SavingKey(r)
  BY <1>2, <1>6 DEF Creating, Reading, Deducting, Unlocking, Locking, SavingKey
<1>7. CASE Saving(r)
  <2>1. balance[r].events \in Seq(BalanceEventRecords)
    BY <1>4, <1>7 DEF Saving, InHand, InTransaction, BalanceRecords
  <2> QED
    BY <1>3, <1>7, <2>1 DEF Saving
<1>8. CASE Inserting(r) \/ Updating(r)
  <2>1. order[r].events \in Seq(OrderEventRecords)
    BY <1>4, <1>8 DEF Inserting, Updating, InHand, InTransaction, OrderRecords
  <2> QED
    BY <1>3, <1>8, <2>1 DEF Inserting, Updating, StagingOrder
<1>9. CASE Committing(r)
  BY <1>9, CommittingKeepsIds
<1> QED
  BY <1>5, <1>6, <1>7, <1>8, <1>9 DEF Effect

LEMMA InitIds == Init => IdsOK
<1> SUFFICES ASSUME Init PROVE IdsOK
  OBVIOUS
<1>1. outbox = {} /\ \A r \in Requests : tx[r].events = {}
  BY DEF Init, NoWrites
<1> QED
  BY <1>1 DEF IdsOK

LEMMA NextIds == Invariants /\ IdsOK /\ [Next]_vars => IdsOK'
<1> SUFFICES ASSUME Invariants, IdsOK, [Next]_vars PROVE IdsOK'
  OBVIOUS
<1>1. ASSUME NEW r \in Requests, OthersUnchanged(r), Effect(r) PROVE IdsOK'
  BY <1>1, StepKeepsIds
<1>2. ASSUME UNCHANGED <<outbox, nextId, tx>> PROVE IdsOK'
  BY <1>2 DEF IdsOK
<1> QED
  BY <1>1, <1>2, StepsOfOthers DEF Invariants

\* Everything that the proofs about the outbox, the replay and the ledger need.
LEMMA InvariantsHold == Spec => [](Invariants /\ IdsOK)
<1>1. Init => Invariants /\ IdsOK
  BY InitType, InitLocks, InitKeys, InitOrders, InitWork, InitIds DEF Invariants
<1>2. Invariants /\ [Next]_vars => Invariants'
  BY NextType, NextLocks, NextKeys, NextOrders, NextWork DEF Invariants
<1> QED
  BY <1>1, <1>2, NextIds, PTL DEF Spec

\* The events that a commit makes visible have later ids than the visible ones
\* of the same aggregate, although ids are handed out long before the commit.
THEOREM OutboxGrowsInOrder == Spec => OutboxGrowsInKeyOrder
<1>1. ASSUME Invariants, IdsOK, [Next]_vars
      PROVE  [\A new \in outbox' \ outbox, old \in outbox :
                 new.aggregate = old.aggregate => old.id < new.id]_vars
  <2>1. ASSUME NEW r \in Requests, Committing(r),
               NEW new \in outbox' \ outbox, NEW old \in outbox,
               new.aggregate = old.aggregate
        PROVE  old.id < new.id
    <3>1. new \in tx[r].events
      BY <2>1 DEF Committing
    <3> QED
      BY <1>1, <2>1, <3>1 DEF IdsOK
  <2> QED
    BY <1>1, <2>1, StepsOfOthers
    DEF Invariants, Effect, Leaving, Creating, Reading, Deducting, Unlocking, Locking, Saving,
        Inserting, Updating, StagingOrder, SavingKey
<1> QED
  BY <1>1, InvariantsHold, PTL DEF Spec, OutboxGrowsInKeyOrder

-----------------------------------------------------------------------------
(* The outbox tells what the tables hold. *)

\* The events of the orders that a commit is not about stay the same.
LEMMA EventsOfOtherOrders ==
    ASSUME Invariants, NEW r \in Requests, Committing(r),
           NEW o \in Requests, o # OrderId(r), NEW type
    PROVE  OrderEvents(o, type)' = OrderEvents(o, type) /\ BalanceEvents(o, type)' = BalanceEvents(o, type)
<1>1. pc[r] = "commit" /\ outbox' = outbox \cup tx[r].events
  BY DEF Committing
<1>2. PICK n, m : tx[r].events = {BalanceEntry(r, n), OrderEntry(r, m)}
  BY <1>1, CommittedEvents
<1>3. AccountOf(order[r]) \in Accounts /\ OrderId(r) \in Requests
  BY <1>1, CommittedEvents
<1>4. /\ BalanceEntry(r, n).aggregate = AccountOf(order[r])
      /\ BalanceEntry(r, n).event.ref = OrderId(r)
      /\ OrderEntry(r, m).aggregate = OrderId(r)
  BY DEF BalanceEntry, BalanceEventInHand, BalanceEvent, OrderEntry
<1>5. \A e \in tx[r].events :
         /\ e.aggregate # o
         /\ e.aggregate \in Accounts => e.event.ref # o
  BY <1>2, <1>3, <1>4, AggregateIdsAssumption
<1> QED
  BY <1>1, <1>5 DEF OrderEvents, BalanceEvents

\* A commit adds the two events that its request stands for.
LEMMA EventsOfThisOrder ==
    ASSUME Invariants, NEW r \in Requests, Committing(r), NEW o \in Requests, o = OrderId(r)
    PROVE  LET what == IF IsPlace(r) THEN "OrderPlaced" ELSE "OrderCancelled"
               money == IF IsPlace(r) THEN "BalanceDeducted" ELSE "BalanceRestored"
           IN  \E p, m \in outbox' :
                  /\ \A type : OrderEvents(o, type)' =
                         IF type = what THEN OrderEvents(o, type) \cup {p} ELSE OrderEvents(o, type)
                  /\ \A type : BalanceEvents(o, type)' =
                         IF type = money THEN BalanceEvents(o, type) \cup {m}
                                         ELSE BalanceEvents(o, type)
                  /\ m.event.amount = RemainingAmount(order[r])
                  /\ m.aggregate = AccountOf(order[r])
<1> DEFINE what == IF IsPlace(r) THEN "OrderPlaced" ELSE "OrderCancelled"
           money == IF IsPlace(r) THEN "BalanceDeducted" ELSE "BalanceRestored"
<1>1. pc[r] = "commit" /\ outbox' = outbox \cup tx[r].events
  BY DEF Committing
<1>2. PICK i, j : tx[r].events = {BalanceEntry(r, i), OrderEntry(r, j)}
  BY <1>1, CommittedEvents
<1>3. AccountOf(order[r]) \in Accounts 
  BY <1>1, CommittedEvents
<1> DEFINE m == BalanceEntry(r, i)
           p == OrderEntry(r, j)
<1>4. /\ m.aggregate = AccountOf(order[r])
      /\ m.event.ref = o
      /\ m.event.amount = RemainingAmount(order[r])
      /\ m.event.type = money
  BY DEF BalanceEntry, BalanceEventInHand, BalanceEvent
<1>5. p.aggregate = o /\ p.event.type = what
  BY DEF OrderEntry, OrderPlacedEvent, OrderCancelledEvent
<1> HIDE DEF m, p, what, money
<1>6. outbox' = outbox \cup {m, p} /\ p \in outbox' /\ m \in outbox'
  BY <1>1, <1>2 DEF m, p
<1>7. p.aggregate \notin Accounts /\ m.aggregate # o /\ m.aggregate \in Accounts
  BY <1>3, <1>4, <1>5, AggregateIdsAssumption
<1>8. ASSUME NEW type
      PROVE  OrderEvents(o, type)' =
                IF type = what THEN OrderEvents(o, type) \cup {p} ELSE OrderEvents(o, type)
  <2>1. OrderEvents(o, type)' = {e \in outbox' : e.aggregate = o /\ e.event.type = type}
    BY DEF OrderEvents
  <2> QED
    BY <1>5, <1>6, <1>7, <2>1 DEF OrderEvents
<1>9. ASSUME NEW type
      PROVE  BalanceEvents(o, type)' =
                IF type = money THEN BalanceEvents(o, type) \cup {m} ELSE BalanceEvents(o, type)
  <2>1. BalanceEvents(o, type)' =
           {e \in outbox' : e.aggregate \in Accounts /\ e.event.type = type /\ e.event.ref = o}
    BY DEF BalanceEvents
  <2> QED
    BY <1>4, <1>6, <1>7, <2>1 DEF BalanceEvents
<1> QED
  BY <1>4, <1>6, <1>8, <1>9 DEF what, money

\* What a commit does to the row that its request is about: the row appears
\* accepted, or goes from accepted to cancelled for the same amount and account.
LEMMA CommittedRow ==
    ASSUME Invariants, NEW r \in Requests, Committing(r)
    PROVE  LET o == OrderId(r)
           IN  /\ o \in Requests
               /\ orders'[o] # Absent
               /\ RemainingAmount(orders'[o]) = RemainingAmount(order[r])
               /\ AccountOf(orders'[o]) = AccountOf(order[r])
               /\ IF IsPlace(r)
                  THEN orders[o] = Absent /\ orders'[o].status = "ACCEPTED"
                  ELSE /\ orders[o] # Absent
                       /\ orders[o].status = "ACCEPTED"
                       /\ RemainingAmount(orders[o]) = RemainingAmount(order[r])
                       /\ AccountOf(orders[o]) = AccountOf(order[r])
                       /\ orders'[o].status = "CANCELLED"
<1> DEFINE o == OrderId(r)
<1>1. /\ pc[r] = "commit"
      /\ o \in Requests
      /\ orders'[o] = tx[r].order
  BY CommittedEvents DEF Committing
<1>2. /\ TypeInv
      /\ KeysOK
      /\ tx[r].order \in OrderRecords
      /\ order[r] \in OrderRecords
      /\ OrderInHand(r)
  BY <1>1 DEF Invariants, TypeInv, ControlOK, InHand, InTransaction, OrdersOK, OrderInHand
<1>3. orders'[o] # Absent
  BY <1>1, <1>2, AbsentIsNoRow
<1>4. CASE IsPlace(r)
  <2>1. orders[o] = Absent
    BY <1>1, <1>2, <1>4 DEF OrderId, KeysOK, OrdersComeFromPlacing
  <2>2. tx[r].order = order[r] /\ order[r].status = "ACCEPTED"
    BY <1>1, <1>2, <1>4 DEF OrderInHand, NewOrderInHand, InTransaction
  <2> QED
    BY <1>1, <1>3, <1>4, <2>1, <2>2
<1>5. CASE ~IsPlace(r)
  <2> DEFINE row == orders[o]
  <2>1. /\ row \in OrderRecords
        /\ row # Absent
        /\ row.status = "ACCEPTED"
        /\ order[r] = ClearEvents(Cancel(row))
        /\ tx[r].order = [order[r] EXCEPT !.version = row.version + 1]
    BY <1>1, <1>2, <1>5, ReadRow DEF OrderId, InTransaction, OrderInHand, ReadOrderInHand
  <2>2. Cancel(row) \in OrderRecords
    BY <2>1, OrderMethodsType
  <2>3. /\ RemainingAmount(order[r]) = RemainingAmount(row)
        /\ AccountOf(order[r]) = AccountOf(row)
        /\ order[r].status = "CANCELLED"
    BY <2>1, <2>2, AmountsKept, OrderMethodsType, OrderMethodsFields
  <2> HIDE DEF row
  <2>4. /\ tx[r].order.status = order[r].status
        /\ RemainingAmount(tx[r].order) = RemainingAmount(order[r])
        /\ AccountOf(tx[r].order) = AccountOf(order[r])
    BY <1>2, <2>1
    DEF OrderRecords, RemainingAmount, RemainingQty, AmountOf, AccountOf, LockedCurrency
  <2> QED
    BY <1>1, <1>3, <1>5, <2>1, <2>3, <2>4 DEF row
<1> QED
  BY <1>4, <1>5

LEMMA CommittingKeepsOutbox ==
    ASSUME Invariants, OutboxOK, NEW r \in Requests, Committing(r)
    PROVE  OutboxOK'
<1>1. PICK q \in Requests : q = OrderId(r)
  BY CommittedRow
<1> DEFINE Placed(o) == OrderEvents(o, "OrderPlaced")
           Deducted(o) == BalanceEvents(o, "BalanceDeducted")
           Cancelled(o) == OrderEvents(o, "OrderCancelled")
           Restored(o) == BalanceEvents(o, "BalanceRestored")
<1>2. SUFFICES ASSUME NEW o \in Requests
               PROVE  /\ Told(orders'[o] # Absent, Placed(o)', Deducted(o)', orders'[o])
                      /\ Told(orders'[o] # Absent /\ orders'[o].status = "CANCELLED",
                              Cancelled(o)', Restored(o)', orders'[o])
  BY DEF OutboxOK, Told, RemainingAmount, RemainingQty, AmountOf, AccountOf, LockedCurrency
<1>3. /\ Told(orders[o] # Absent, Placed(o), Deducted(o), orders[o])
      /\ Told(orders[o] # Absent /\ orders[o].status = "CANCELLED",
              Cancelled(o), Restored(o), orders[o])
  BY DEF OutboxOK
<1>4. CASE o # q
  <2>1. orders'[o] = orders[o]
    BY <1>1, <1>4 DEF Committing
  <2>2. /\ Placed(o)' = Placed(o)
        /\ Deducted(o)' = Deducted(o)
        /\ Cancelled(o)' = Cancelled(o)
        /\ Restored(o)' = Restored(o)
    BY <1>1, <1>4, EventsOfOtherOrders
  <2> HIDE DEF Placed, Deducted, Cancelled, Restored
  <2> QED
    BY <1>3, <2>1, <2>2
<1>5. CASE o = q
  <2> DEFINE what == IF IsPlace(r) THEN "OrderPlaced" ELSE "OrderCancelled"
             money == IF IsPlace(r) THEN "BalanceDeducted" ELSE "BalanceRestored"
  <2>0. o = OrderId(r) /\ Committing(r) /\ Invariants
    BY <1>1, <1>5
  <2>1. PICK p, m \in outbox' :
           /\ \A type : OrderEvents(o, type)' =
                  IF type = what THEN OrderEvents(o, type) \cup {p} ELSE OrderEvents(o, type)
           /\ \A type : BalanceEvents(o, type)' =
                  IF type = money THEN BalanceEvents(o, type) \cup {m} ELSE BalanceEvents(o, type)
           /\ m.event.amount = RemainingAmount(order[r])
           /\ m.aggregate = AccountOf(order[r])
    BY <2>0, EventsOfThisOrder, Zenon
  <2>2. /\ orders'[o] # Absent
        /\ m.event.amount = RemainingAmount(orders'[o])
        /\ m.aggregate = AccountOf(orders'[o])
    BY <1>1, <1>5, <2>1, CommittedRow
  <2>3. CASE IsPlace(r)
    <3>1. orders[o] = Absent /\ orders'[o].status = "ACCEPTED"
      BY <1>1, <1>5, <2>3, CommittedRow
    <3>2. /\ Placed(o)' = Placed(o) \cup {p}
          /\ Deducted(o)' = Deducted(o) \cup {m}
          /\ Cancelled(o)' = Cancelled(o)
          /\ Restored(o)' = Restored(o)
      BY <2>1, <2>3
    <3> HIDE DEF Placed, Deducted, Cancelled, Restored
    <3>3. Placed(o)' = {p} /\ Deducted(o)' = {m} /\ Cancelled(o)' = {} /\ Restored(o)' = {}
      BY <1>3, <3>1, <3>2 DEF Told
    <3> QED
      BY <2>2, <3>1, <3>3 DEF Told
  <2>4. CASE ~IsPlace(r)
    <3>1. /\ orders[o] # Absent
          /\ orders[o].status = "ACCEPTED"
          /\ orders'[o].status = "CANCELLED"
          /\ RemainingAmount(orders'[o]) = RemainingAmount(orders[o])
          /\ AccountOf(orders'[o]) = AccountOf(orders[o])
      BY <1>1, <1>5, <2>4, CommittedRow
    <3>2. /\ Placed(o)' = Placed(o)
          /\ Deducted(o)' = Deducted(o)
          /\ Cancelled(o)' = Cancelled(o) \cup {p}
          /\ Restored(o)' = Restored(o) \cup {m}
      BY <2>1, <2>4
    <3> HIDE DEF Placed, Deducted, Cancelled, Restored
    <3>3. Cancelled(o)' = {p} /\ Restored(o)' = {m}
      BY <1>3, <3>1, <3>2 DEF Told
    <3> QED
      BY <1>3, <2>2, <3>1, <3>2, <3>3 DEF Told
  <2> QED
    BY <2>3, <2>4
<1> QED
  BY <1>4, <1>5

LEMMA InitOutbox == Init => OutboxOK
<1> SUFFICES ASSUME Init PROVE OutboxOK
  OBVIOUS
<1>1. outbox = {} /\ \A o \in Requests : orders[o] = Absent
  BY DEF Init
<1> QED
  BY <1>1 DEF OutboxOK, Told, OrderEvents, BalanceEvents

LEMMA NextOutbox == Invariants /\ OutboxOK /\ [Next]_vars => OutboxOK'
<1> SUFFICES ASSUME Invariants, OutboxOK, [Next]_vars PROVE OutboxOK'
  OBVIOUS
<1>1. ASSUME UNCHANGED <<orders, outbox>> PROVE OutboxOK'
  BY <1>1 DEF OutboxOK, Told, OrderEvents, BalanceEvents
<1> QED
  BY <1>1, StepsOfOthers, CommittingKeepsOutbox
  DEF Invariants, Effect, Leaving, Creating, Reading, Deducting, Unlocking, Locking, Saving,
      Inserting, Updating, StagingOrder, SavingKey

\* For every order in the table, and for no other, the outbox holds one event of
\* each thing that happened to it, and what was restored is what was deducted.
THEOREM OutboxTellsTheTables == Spec => []OutboxMatchesTables
<1>1. ASSUME OutboxOK PROVE OutboxMatchesTables
  <2>1. /\ Cardinality({}) = 0
        /\ \A x : Cardinality({x}) = 1
    BY FS_EmptySet, FS_Singleton
  <2> SUFFICES ASSUME NEW o \in Requests
               PROVE  LET placed == IF orders[o] # Absent THEN 1 ELSE 0
                          cancelled == IF orders[o] # Absent /\ orders[o].status = "CANCELLED"
                                       THEN 1 ELSE 0
                          deducted == BalanceEvents(o, "BalanceDeducted")
                          restored == BalanceEvents(o, "BalanceRestored")
                      IN  /\ Cardinality(OrderEvents(o, "OrderPlaced")) = placed
                          /\ Cardinality(deducted) = placed
                          /\ Cardinality(OrderEvents(o, "OrderCancelled")) = cancelled
                          /\ Cardinality(restored) = cancelled
                          /\ \A d \in deducted, e \in restored :
                                /\ d.event.amount = e.event.amount
                                /\ d.aggregate = e.aggregate
    BY DEF OutboxMatchesTables
  <2>2. /\ Told(orders[o] # Absent, OrderEvents(o, "OrderPlaced"),
                BalanceEvents(o, "BalanceDeducted"), orders[o])
        /\ Told(orders[o] # Absent /\ orders[o].status = "CANCELLED",
                OrderEvents(o, "OrderCancelled"), BalanceEvents(o, "BalanceRestored"), orders[o])
    BY <1>1 DEF OutboxOK
  <2> DEFINE P == OrderEvents(o, "OrderPlaced")
             D == BalanceEvents(o, "BalanceDeducted")
             C == OrderEvents(o, "OrderCancelled")
             R == BalanceEvents(o, "BalanceRestored")
  <2> HIDE DEF P, D, C, R
  <2>3. /\ Cardinality(P) = IF orders[o] # Absent THEN 1 ELSE 0
        /\ Cardinality(D) = IF orders[o] # Absent THEN 1 ELSE 0
        /\ \A m \in D : /\ m.event.amount = RemainingAmount(orders[o])
                       /\ m.aggregate = AccountOf(orders[o])
    BY <2>1, <2>2 DEF P, D, Told
  <2>4. /\ Cardinality(C) = IF orders[o] # Absent /\ orders[o].status = "CANCELLED" THEN 1 ELSE 0
        /\ Cardinality(R) = IF orders[o] # Absent /\ orders[o].status = "CANCELLED" THEN 1 ELSE 0
        /\ \A m \in R : /\ m.event.amount = RemainingAmount(orders[o])
                       /\ m.aggregate = AccountOf(orders[o])
    BY <2>1, <2>2 DEF C, R, Told
  <2> QED
    BY <2>3, <2>4 DEF P, D, C, R
<1> QED
  BY <1>1, InvariantsHold, InitOutbox, NextOutbox, PTL DEF Spec

-----------------------------------------------------------------------------
(* Sums over a finite set. *)

\* Induction over the subsets of a finite set, stated with the set of those
\* for which a claim holds.
LEMMA SubsetInduction ==
    ASSUME NEW S, IsFiniteSet(S), NEW Good,
           \A A \in SUBSET S : (\A B \in SUBSET A : B # A => B \in Good) => A \in Good
    PROVE  S \in Good
<1> DEFINE Bad == (SUBSET S) \ Good
           R == StrictSubsetOrdering(S)
<1>1. IsWellFoundedOn(R, SUBSET S)
  BY FS_StrictSubsetOrderingWellFounded, FS_FiniteSubsetsOfFinite
<1>2. ASSUME Bad # {} PROVE FALSE
  <2>1. Bad \subseteq SUBSET S
    OBVIOUS
  <2>2. PICK A \in Bad : \A B \in Bad : <<B, A>> \notin R
    <3> HIDE DEF Bad, R
    <3> QED
      BY <1>1, <1>2, <2>1, WFMin
  <2>3. ASSUME NEW B \in SUBSET A, B # A PROVE B \in Good
    <3>1. B \in SUBSET S /\ A \in SUBSET S
      OBVIOUS
    <3>2. <<B, A>> \in R
      BY <2>3, <3>1 DEF StrictSubsetOrdering
    <3> QED
      BY <2>2, <3>1, <3>2
  <2> QED
    BY <2>2, <2>3
<1> QED
  BY <1>2

Chosen(A) == CHOOSE x \in A : TRUE

LEMMA ChosenElement == \A A : A # {} => Chosen(A) \in A
BY DEF Chosen

\* g adds up w over every subset of S.
Adds(g, w, S) ==
    g = [A \in SUBSET S |-> IF A = {} THEN 0 ELSE w[Chosen(A)] + g[A \ {Chosen(A)}]]

SumOf(w, S) == (CHOOSE g : Adds(g, w, S))[S]

\* Two ways to add up agree wherever what they add does.
LEMMA SumsAgree ==
    ASSUME NEW S, IsFiniteSet(S), NEW T, NEW U, S \subseteq T, S \subseteq U,
           NEW g, NEW h, NEW v, NEW w, Adds(g, v, T), Adds(h, w, U),
           \A x \in S : v[x] = w[x]
    PROVE  g[S] = h[S]
<1> DEFINE Good == {A \in SUBSET S : g[A] = h[A]}
<1>1. ASSUME NEW A \in SUBSET S, \A B \in SUBSET A : B # A => B \in Good PROVE A \in Good
  <2>1. /\ g[A] = IF A = {} THEN 0 ELSE v[Chosen(A)] + g[A \ {Chosen(A)}]
        /\ h[A] = IF A = {} THEN 0 ELSE w[Chosen(A)] + h[A \ {Chosen(A)}]
    BY DEF Adds
  <2>2. ASSUME A # {} PROVE g[A] = h[A]
    <3>1. Chosen(A) \in A
      BY <2>2, ChosenElement
    <3>2. A \ {Chosen(A)} \in Good /\ v[Chosen(A)] = w[Chosen(A)]
      BY <1>1, <3>1
    <3> QED
      BY <2>1, <2>2, <3>2
  <2> QED
    BY <2>1, <2>2
<1> HIDE DEF Good
<1>2. S \in Good
  BY <1>1, SubsetInduction
<1> QED
  BY <1>2 DEF Good

LEMMA SumsExist ==
    ASSUME NEW S, IsFiniteSet(S), NEW w
    PROVE  Adds(CHOOSE g : Adds(g, w, S), w, S)
<1> DEFINE G(A) == CHOOSE g : Adds(g, w, A)
           Good == {A \in SUBSET S : Adds(G(A), w, A)}
           F(B) == IF B = {} THEN 0 ELSE w[Chosen(B)] + G(B \ {Chosen(B)})[B \ {Chosen(B)}]
<1>1. ASSUME NEW A \in SUBSET S, \A B \in SUBSET A : B # A => B \in Good PROVE A \in Good
  <2> DEFINE g == [B \in SUBSET A |-> F(B)]
  <2>1. ASSUME NEW B \in SUBSET A, B # A PROVE G(B)[B] = F(B)
    <3>1. Adds(G(B), w, B)
      BY <1>1, <2>1
    <3> HIDE DEF G
    <3>2. G(B)[B] = IF B = {} THEN 0 ELSE w[Chosen(B)] + G(B)[B \ {Chosen(B)}]
      BY <3>1 DEF Adds
    <3>3. ASSUME B # {} PROVE G(B)[B \ {Chosen(B)}] = G(B \ {Chosen(B)})[B \ {Chosen(B)}]
      <4> DEFINE C == B \ {Chosen(B)}
      <4>1. C \in SUBSET A /\ C # A /\ C \in SUBSET S /\ C \subseteq B
        BY <2>1, <3>3, ChosenElement
      <4>2. Adds(G(C), w, C)
        BY <1>1, <4>1
      <4>3. IsFiniteSet(C)
        BY <4>1, FS_Subset
      <4> HIDE DEF C
      <4>4. G(B)[C] = G(C)[C]
        BY <3>1, <4>1, <4>2, <4>3, SumsAgree
      <4> QED
        BY <4>4 DEF C
    <3> QED
      BY <3>2, <3>3
  <2>2. ASSUME NEW B \in SUBSET A
        PROVE  F(B) = IF B = {} THEN 0 ELSE w[Chosen(B)] + g[B \ {Chosen(B)}]
    <3> DEFINE C == B \ {Chosen(B)}
    <3>1. ASSUME B # {} PROVE G(C)[C] = g[C]
      <4>1. C \in SUBSET A /\ C # A
        BY <3>1, ChosenElement
      <4> HIDE DEF C, G
      <4>2. G(C)[C] = F(C)
        BY <2>1, <4>1
      <4> HIDE DEF F
      <4> QED
        BY <4>1, <4>2
    <3> HIDE DEF g, G
    <3> QED
      BY <3>1
  <2>3. g = [B \in SUBSET A |-> IF B = {} THEN 0 ELSE w[Chosen(B)] + g[B \ {Chosen(B)}]]
    <3> DEFINE H(B) == IF B = {} THEN 0 ELSE w[Chosen(B)] + g[B \ {Chosen(B)}]
    <3>1. \A B \in SUBSET A : F(B) = H(B)
      BY <2>2
    <3> HIDE DEF F, H
    <3>2. [B \in SUBSET A |-> F(B)] = [B \in SUBSET A |-> H(B)]
      BY <3>1
    <3> QED
      BY <3>2 DEF H
  <2>4. Adds(g, w, A)
    <3> HIDE DEF g
    <3> QED
      BY <2>3 DEF Adds
  <2> QED
    BY <2>4
<1> HIDE DEF Good
<1>2. S \in Good
  BY <1>1, SubsetInduction
<1> QED
  BY <1>2 DEF Good

\* A sum is zero, or takes an element that SumOf chooses and what is left.
LEMMA SumSteps ==
    ASSUME NEW S, IsFiniteSet(S), NEW w
    PROVE  SumOf(w, S) = IF S = {} THEN 0 ELSE w[Chosen(S)] + SumOf(w, S \ {Chosen(S)})
<1> DEFINE g == CHOOSE h : Adds(h, w, S)
           T == S \ {Chosen(S)}
           k == CHOOSE h : Adds(h, w, T)
<1>1. T \in SUBSET S /\ IsFiniteSet(T)
  BY FS_Subset
<1>2. Adds(g, w, S) /\ Adds(k, w, T)
  BY <1>1, SumsExist
<1>3. SumOf(w, S) = g[S] /\ SumOf(w, T) = k[T]
  BY DEF SumOf
<1> HIDE DEF g, k
<1>4. g[T] = k[T]
  BY <1>1, <1>2, SumsAgree
<1>5. g[S] = IF S = {} THEN 0 ELSE w[Chosen(S)] + g[T]
  BY <1>2 DEF Adds
<1> QED
  BY <1>3, <1>4, <1>5

LEMMA SumType ==
    ASSUME NEW S, IsFiniteSet(S), NEW w, \A x \in S : w[x] \in Int
    PROVE  SumOf(w, S) \in Int
<1> DEFINE Good == {A \in SUBSET S : SumOf(w, A) \in Int}
<1>1. ASSUME NEW A \in SUBSET S, \A B \in SUBSET A : B # A => B \in Good PROVE A \in Good
  <2>1. SumOf(w, A) = IF A = {} THEN 0 ELSE w[Chosen(A)] + SumOf(w, A \ {Chosen(A)})
    BY FS_Subset, SumSteps
  <2>2. ASSUME A # {} PROVE SumOf(w, A) \in Int
    <3>1. Chosen(A) \in A
      BY <2>2, ChosenElement
    <3>2. A \ {Chosen(A)} \in Good /\ w[Chosen(A)] \in Int
      BY <1>1, <3>1
    <3> QED
      BY <2>1, <2>2, <3>2
  <2> QED
    BY <2>1, <2>2
<1> HIDE DEF Good
<1>2. S \in Good
  BY <1>1, SubsetInduction
<1> QED
  BY <1>2 DEF Good

\* The order in which the elements are taken does not matter.
LEMMA SumRemoves ==
    ASSUME NEW S, IsFiniteSet(S), NEW w, \A x \in S : w[x] \in Int, NEW x \in S
    PROVE  SumOf(w, S) = w[x] + SumOf(w, S \ {x})
<1> DEFINE Good == {A \in SUBSET S : \A y \in A : SumOf(w, A) = w[y] + SumOf(w, A \ {y})}
<1>1. ASSUME NEW A \in SUBSET S, \A B \in SUBSET A : B # A => B \in Good PROVE A \in Good
  <2> SUFFICES ASSUME NEW y \in A PROVE SumOf(w, A) = w[y] + SumOf(w, A \ {y})
    OBVIOUS
  <2> DEFINE c == Chosen(A)
             rest == A \ {c, y}
  <2>1. c \in A /\ A # {}
    BY ChosenElement
  <2>2. SumOf(w, A) = w[c] + SumOf(w, A \ {c})
    BY <2>1, FS_Subset, SumSteps
  <2> HIDE DEF c
  <2>3. CASE c = y
    BY <2>2, <2>3
  <2>4. CASE c # y
    <3>1. (A \ {c}) \ {y} = rest /\ (A \ {y}) \ {c} = rest
      OBVIOUS
    <3>2. A \ {c} \in Good /\ A \ {y} \in Good
      BY <1>1, <2>1
    <3>3. SumOf(w, A \ {c}) = w[y] + SumOf(w, rest)
      <4>1. y \in A \ {c}
        BY <2>4
      <4> QED
        BY <3>1, <3>2, <4>1
    <3>4. SumOf(w, A \ {y}) = w[c] + SumOf(w, rest)
      <4>1. c \in A \ {y}
        BY <2>1, <2>4
      <4> QED
        BY <3>1, <3>2, <4>1
    <3>5. SumOf(w, rest) \in Int /\ w[c] \in Int /\ w[y] \in Int
      <4>1. rest \in SUBSET S /\ IsFiniteSet(rest)
        BY FS_Subset
      <4> QED
        BY <2>1, <4>1, SumType
    <3> QED
      BY <2>2, <3>3, <3>4, <3>5
  <2> QED
    BY <2>3, <2>4
<1> HIDE DEF Good
<1>2. S \in Good
  BY <1>1, SubsetInduction
<1> QED
  BY <1>2 DEF Good

\* A sum depends only on what it adds.
LEMMA SumCongruence ==
    ASSUME NEW S, IsFiniteSet(S), NEW v, NEW w, \A x \in S : v[x] = w[x]
    PROVE  SumOf(v, S) = SumOf(w, S)
BY SumsExist, SumsAgree DEF SumOf

-----------------------------------------------------------------------------
(* Columns. *)

LEMMA RepresentableMultiple ==
    ASSUME NEW x \in Int, Representable(x)
    PROVE  (x \div Scale) \in Int /\ x = Scale * (x \div Scale)
BY ScaleAssumption DEF Representable

LEMMA MultipleRepresentable ==
    ASSUME NEW k \in Int
    PROVE  Representable(Scale * k)
BY ScaleAssumption DEF Representable

LEMMA Distributivity ==
    ASSUME NEW i \in Int, NEW j \in Int
    PROVE  /\ Scale * i + Scale * j = Scale * (i + j)
           /\ Scale * i - Scale * j = Scale * (i - j)
BY ScaleAssumption

\* Sums and differences of exact amounts are exact.
LEMMA RepresentableSums ==
    ASSUME NEW x \in Int, NEW y \in Int, Representable(x), Representable(y)
    PROVE  Representable(x + y) /\ Representable(x - y)
<1> DEFINE i == x \div Scale
           j == y \div Scale
<1>1. i \in Int /\ x = Scale * i
  BY RepresentableMultiple
<1>2. j \in Int /\ y = Scale * j
  BY RepresentableMultiple
<1> HIDE DEF i, j
<1>3. x + y = Scale * (i + j) /\ x - y = Scale * (i - j)
  BY <1>1, <1>2, Distributivity
<1>4. i + j \in Int /\ i - j \in Int
  BY <1>1, <1>2
<1> QED
  BY <1>3, <1>4, MultipleRepresentable

\* A column stores an exact amount unchanged.
LEMMA ColumnExact ==
    ASSUME NEW x \in Int, Representable(x)
    PROVE  Column(x) = x
BY ScaleAssumption DEF Column, Representable

-----------------------------------------------------------------------------
(* The domain operations on exact balances and orders. *)

\* What is left of an order that was not filled is all of it.
LEMMA ExactAmounts ==
    ASSUME NEW o \in OrderRecords, OrderIsExact(o)
    PROVE  /\ RemainingAmount(o) = RequiredAmount(o)
           /\ RequiredAmount(o) \in Int
           /\ Representable(RequiredAmount(o))
           /\ OrderIsExact(Accept(o))
           /\ OrderIsExact(Cancel(o))
           /\ OrderIsExact(ClearEvents(o))
<1>1. o.quantity - o.filledQty = o.quantity
  BY DEF OrderIsExact, OrderRecords
<1>2. RemainingAmount(o) = RequiredAmount(o)
  BY <1>1 DEF RemainingAmount, RemainingQty, RequiredAmount
<1>3. RequiredAmount(o) \in Int
  BY OrderMethodsType
<1>4. OrderIsExact(Accept(o)) /\ OrderIsExact(Cancel(o)) /\ OrderIsExact(ClearEvents(o))
  BY DEF OrderIsExact, RequiredAmount, AmountOf, Accept, Cancel, ClearEvents, OrderRecords
<1> QED
  BY <1>2, <1>3, <1>4 DEF OrderIsExact

\* A guarded deduction or release keeps a balance exact and non-negative.
LEMMA ExactBalances ==
    ASSUME NEW b \in BalanceRecords, BalanceIsExact(b),
           NEW amount \in Int, Representable(amount), NEW ref
    PROVE  /\ CanDeductAndLock(b, amount) => BalanceIsExact(DeductAndLock(b, amount, ref))
           /\ CanUnlock(b, amount) => BalanceIsExact(Unlock(b, amount, ref))
<1>1. b.available \in Int /\ b.locked \in Int
  BY DEF BalanceRecords
<1>2. /\ Representable(b.available + amount)
      /\ Representable(b.available - amount)
      /\ Representable(b.locked + amount)
      /\ Representable(b.locked - amount)
  BY <1>1, RepresentableSums DEF BalanceIsExact
<1>3. /\ DeductAndLock(b, amount, ref).available = b.available - amount
      /\ DeductAndLock(b, amount, ref).locked = b.locked + amount
      /\ Unlock(b, amount, ref).available = b.available + amount
      /\ Unlock(b, amount, ref).locked = b.locked - amount
  BY DEF DeductAndLock, Unlock, BalanceRecords
<1> QED
  BY <1>1, <1>2, <1>3 DEF BalanceIsExact, CanDeductAndLock, CanUnlock

-----------------------------------------------------------------------------
(* Steps. *)

\* A step of r that writes neither balances nor orders.
LEMMA StepsOutsideTablesKeepMoney ==
    ASSUME MoneyOK, NEW r \in Requests, OthersUnchanged(r),
           UNCHANGED <<balances, orders>>, WritesAreExact(r)'
    PROVE  MoneyOK'
<1>1. ASSUME NEW s \in Requests PROVE WritesAreExact(s)'
  <2>1. CASE s = r
    BY <2>1
  <2>2. CASE s # r
    <3>1. WritesAreExact(s)
      BY DEF MoneyOK
    <3> QED
      BY <2>2, <3>1 DEF WritesAreExact, OthersUnchanged
  <2> QED
    BY <2>1, <2>2
<1>2. Conservation' /\ TablesAreExact'
  BY DEF MoneyOK, Conservation, TablesAreExact
<1> QED
  BY <1>1, <1>2 DEF MoneyOK

LEMMA CommittingKeepsMoney ==
    ASSUME TypeInv, LocksOK, MoneyOK, NEW r \in Requests,
           Commit(r) \/ CommitUnacknowledged(r)
    PROVE  MoneyOK'
<1> DEFINE a == AccountOf(order[r])
           q == OrderId(r)
<1>1. pc[r] = "commit" /\ Apply(r)
  BY DEF Commit, CommitUnacknowledged
<1>2. /\ a \in Accounts
      /\ tx[r].balance \in BalanceRows
      /\ tx[r].order \in OrderRecords
      /\ balance[r] \in BalanceRecords
      /\ cmd[r] \in Commands
  BY <1>1 DEF TypeInv, ControlOK, InHand, InTransaction
<1>3. q \in Requests
  BY <1>2, CommandKinds DEF OrderId, IsPlace
<1>4. WritesAreExact(r)
  BY DEF MoneyOK
<1>5. /\ BalanceIsExact(tx[r].balance)
      /\ tx[r].balance.available + tx[r].balance.locked
           = balance[r].available + balance[r].locked
      /\ OrderIsExact(tx[r].order)
  BY <1>1, <1>4 DEF WritesAreExact, BalanceIsExact, InTransaction
<1>6. tx[r].balance.available + tx[r].balance.locked = InitialFunds[a]
  <2>1. balances[a].available + balances[a].locked = balance[r].available + balance[r].locked
    BY <1>1 DEF LocksOK, HeldBalanceIsCurrent, InTransaction
  <2> QED
    BY <1>2, <1>5, <2>1 DEF MoneyOK, Conservation
<1>7. /\ balances' = [balances EXCEPT ![a] = tx[r].balance]
      /\ orders' = [orders EXCEPT ![q] = tx[r].order]
  BY <1>1 DEF Apply
<1> HIDE DEF a, q
<1>8. \A c \in Accounts : balances'[c] = IF c = a THEN tx[r].balance ELSE balances[c]
  BY <1>7 DEF TypeInv, TypeOK, TablesOK
<1>9. \A o \in Requests : orders'[o] = IF o = q THEN tx[r].order ELSE orders[o]
  BY <1>7 DEF TypeInv, TypeOK, TablesOK
<1>10. Conservation'
  BY <1>5, <1>6, <1>8 DEF MoneyOK, Conservation, BalanceIsExact
<1>11. TablesAreExact'
  <2>1. \A c \in Accounts : BalanceIsExact(balances'[c])
    BY <1>5, <1>8 DEF MoneyOK, TablesAreExact
  <2>2. \A o \in Requests : orders'[o] # Absent => OrderIsExact(orders'[o])
    BY <1>5, <1>9 DEF MoneyOK, TablesAreExact
  <2> QED
    BY <2>1, <2>2 DEF TablesAreExact, BalanceIsExact, OrderIsExact, RequiredAmount, AmountOf,
       Representable
<1>12. ASSUME NEW s \in Requests PROVE WritesAreExact(s)'
  <2>1. CASE s = r
    <3>1. pc'[r] = "done"
      BY DEF Commit, CommitUnacknowledged, Respond, Goto, TypeInv, TypeOK, RequestsOK
    <3> QED
      BY <2>1, <3>1 DEF WritesAreExact, InTransaction
  <2>2. CASE s # r
    <3>1. WritesAreExact(s) /\ OthersUnchanged(r)
      BY StepIsLocal DEF MoneyOK, StepOf, Serve
    <3> QED
      BY <2>2, <3>1 DEF WritesAreExact, OthersUnchanged
  <2> QED
    BY <2>1, <2>2
<1> QED
  BY <1>10, <1>11, <1>12 DEF MoneyOK

LEMMA StepKeepsMoney ==
    ASSUME TypeInv, LocksOK, MoneyOK, AmountsRepresentable, NEW r \in Requests, StepOf(r)
    PROVE  MoneyOK'
<1>1. OthersUnchanged(r)
  BY StepIsLocal
<1>2. WritesAreExact(r) /\ InHand(r)
  BY DEF MoneyOK, TypeInv, ControlOK
<1> USE DEF Goto
<1>3. ASSUME UNCHANGED <<balances, orders>>, WritesAreExact(r)' PROVE MoneyOK'
  BY <1>1, <1>3, StepsOutsideTablesKeepMoney
<1>4. ASSUME UNCHANGED <<balances, orders>>, pc'[r] \notin {"lock"} \cup InTransaction
      PROVE  MoneyOK'
  BY <1>3, <1>4 DEF WritesAreExact, InTransaction
<1>5. ASSUME NEW response, Respond(r, response), UNCHANGED <<balances, orders>>
      PROVE  MoneyOK'
  BY <1>4, <1>5 DEF Respond, InTransaction, TypeInv, TypeOK, RequestsOK
<1>6. ASSUME Abort(r) PROVE MoneyOK'
  BY <1>5, <1>6 DEF Abort, tables
<1>7. CASE Receive(r)
  <2>1. PICK label \in {"find", "check", "create"} : pc' = [pc EXCEPT ![r] = label]
    <3>1. PICK c \in Commands :
             pc' = [pc EXCEPT ![r] = CASE c.kind = "cancel" -> "find"
                                       [] c.kind = "place" /\ c.key # NoKey -> "check"
                                       [] OTHER -> "create"]
      BY <1>7 DEF Receive
    <3> QED
      BY <3>1
  <2>2. pc'[r] \notin {"lock"} \cup InTransaction
    BY <2>1 DEF InTransaction, TypeInv, TypeOK, RequestsOK
  <2> QED
    BY <1>4, <1>7, <2>2 DEF Receive, tables
<1>8. CASE CheckHit(r)
  BY <1>5, <1>8 DEF CheckHit, tables
<1>9. CASE CheckMiss(r)
  BY <1>4, <1>9 DEF CheckMiss, tables, InTransaction, TypeInv, TypeOK, RequestsOK
\* A new order is exact because the client's amount is.
<1>10. CASE CreateOrder(r) /\ ~Abort(r)
  <2>1. /\ pc[r] = "create"
        /\ CanCreate(cmd[r])
        /\ pc'[r] = "lock"
        /\ order'[r] = NewOrder(cmd[r])
        /\ UNCHANGED <<balances, orders>>
    BY <1>10 DEF CreateOrder, tables, TypeInv, TypeOK, RequestsOK
  <2>2. cmd[r] \in PlaceCommands
    BY <1>2, <2>1, CommandKinds DEF InHand, IsPlace
  <2>3. OrderIsExact(NewOrder(cmd[r]))
    BY <2>1, <2>2 DEF AmountsRepresentable, OrderIsExact, RequiredAmount, AmountOf, NewOrder
  <2>4. OrderIsExact(order[r])'
    BY <2>1, <2>3 DEF OrderIsExact, RequiredAmount, AmountOf, Representable
  <2> QED
    BY <1>3, <2>1, <2>4 DEF WritesAreExact, InTransaction
<1>11. CASE FindOrder(r)
  <2> DEFINE row == orders[cmd[r].order]
  <2>1. CASE \E response : Respond(r, response)
    BY <1>5, <1>11, <2>1 DEF FindOrder, tables, Abort
  <2>2. CASE /\ row # Absent
             /\ pc' = [pc EXCEPT ![r] = "lock"]
             /\ order' = [order EXCEPT ![r] = row]
             /\ UNCHANGED tables
    <3>1. cmd[r].order \in Requests
      BY <1>2, <1>11, CommandKinds DEF FindOrder, InHand, IsPlace
    <3>2. OrderIsExact(row)
      BY <2>2, <3>1 DEF MoneyOK, TablesAreExact
    <3>3. pc'[r] = "lock" /\ order'[r] = row /\ UNCHANGED <<balances, orders>>
      BY <2>2 DEF tables, TypeInv, TypeOK, RequestsOK
    <3>4. OrderIsExact(order[r])'
      BY <3>2, <3>3 DEF OrderIsExact, RequiredAmount, AmountOf, Representable
    <3> QED
      BY <1>3, <3>3, <3>4 DEF WritesAreExact, InTransaction
  <2> QED
    BY <1>11, <2>1, <2>2 DEF FindOrder, FindByID, Abort
\* Exact aggregates go on to be saved.
<1>12. ASSUME NEW b, NEW o, Locked(r, b, o), BalanceIsExact(b), OrderIsExact(o)
       PROVE  MoneyOK'
  <2>1. /\ pc'[r] = "saveBalance"
        /\ order'[r] = o
        /\ balance'[r] = b
        /\ UNCHANGED <<balances, orders>>
    BY <1>12 DEF Locked, tables, TypeInv, TypeOK, RequestsOK
  <2>2. OrderIsExact(order[r])' /\ BalanceIsExact(balance[r])'
    BY <1>12, <2>1
    DEF OrderIsExact, RequiredAmount, AmountOf, BalanceIsExact, Representable
  <2> QED
    BY <1>3, <2>1, <2>2 DEF WritesAreExact
<1>13. ASSUME NEW a \in Accounts
       PROVE  LoadBalance(a) \in BalanceRecords /\ BalanceIsExact(LoadBalance(a))
  BY LoadBalanceType DEF MoneyOK, TablesAreExact, BalanceIsExact, LoadBalance
<1>14. CASE LockAndDeduct(r) /\ ~Abort(r)
  <2> DEFINE a == AccountOf(order[r])
             amount == RequiredAmount(order[r])
  <2>1. order[r] \in OrderRecords /\ OrderIsExact(order[r])
    BY <1>2, <1>14 DEF LockAndDeduct, InHand, WritesAreExact
  <2>2. /\ a \in Accounts
        /\ CanDeductAndLock(LoadBalance(a), amount)
        /\ Locked(r, DeductAndLock(LoadBalance(a), amount, r), Accept(order[r]))
    BY <1>14 DEF LockAndDeduct
  <2>3. amount \in Int /\ Representable(amount) /\ OrderIsExact(Accept(order[r]))
    BY <2>1, ExactAmounts
  <2>4. BalanceIsExact(DeductAndLock(LoadBalance(a), amount, r))
    BY <1>13, <2>2, <2>3, ExactBalances
  <2> QED
    BY <1>12, <2>2, <2>3, <2>4
<1>15. CASE LockAndUnlock(r) /\ ~Abort(r)
  <2> DEFINE a == AccountOf(order[r])
             amount == RemainingAmount(order[r])
             ref == cmd[r].order
  <2>1. order[r] \in OrderRecords /\ OrderIsExact(order[r])
    BY <1>2, <1>15 DEF LockAndUnlock, InHand, WritesAreExact
  <2>2. /\ a \in Accounts
        /\ CanUnlock(LoadBalance(a), amount)
        /\ Locked(r, Unlock(LoadBalance(a), amount, ref), Cancel(order[r]))
    BY <1>15 DEF LockAndUnlock
  <2>3. amount \in Int /\ Representable(amount) /\ OrderIsExact(Cancel(order[r]))
    BY <2>1, ExactAmounts
  <2>4. BalanceIsExact(Unlock(LoadBalance(a), amount, ref))
    BY <1>13, <2>2, <2>3, ExactBalances
  <2> QED
    BY <1>12, <2>2, <2>3, <2>4
<1>16. ASSUME pc[r] \in InTransaction
       PROVE  /\ order[r] \in OrderRecords
              /\ balance[r] \in BalanceRecords
              /\ OrderIsExact(order[r])
              /\ BalanceIsExact(balance[r])
  BY <1>2, <1>16 DEF InHand, WritesAreExact
\* The columns of balances take the balance unrounded.
<1>17. CASE SaveBalance(r) /\ ~Abort(r)
  <2>1. /\ pc[r] \in InTransaction
        /\ pc'[r] \in {"insertOrder", "updateOrder"}
        /\ balance'[r] = ClearBalanceEvents(balance[r])
        /\ tx'[r].balance.available = Column(balance[r].available)
        /\ tx'[r].balance.locked = Column(balance[r].locked)
        /\ UNCHANGED <<balances, orders, order>>
    BY <1>17 DEF SaveBalance, StageBalance, InTransaction, tables, TypeInv, TypeOK, RequestsOK,
       WriteSets
  <2>2. /\ balance'[r].available = balance[r].available
        /\ balance'[r].locked = balance[r].locked
    BY <1>16, <2>1, 0 \in Int, BalanceMethodsPreserve
  <2>3. /\ Column(balance[r].available) = balance[r].available
        /\ Column(balance[r].locked) = balance[r].locked
    BY <1>16, <2>1, ColumnExact DEF BalanceIsExact, BalanceRecords
  <2>4. OrderIsExact(order[r])' /\ BalanceIsExact(balance[r])'
    BY <1>16, <2>1, <2>2
    DEF OrderIsExact, RequiredAmount, AmountOf, BalanceIsExact, Representable
  <2> QED
    BY <1>3, <2>1, <2>2, <2>3, <2>4 DEF WritesAreExact, InTransaction
\* The order is staged with the amounts it has.
<1>18. ASSUME NEW row, pc[r] \in InTransaction \ {"saveBalance"}, pc'[r] \in {"saveKey", "commit"},
              UNCHANGED <<balances, orders, balance>>,
              OrderIsExact(row),
              tx'[r].order = row,
              tx'[r].balance = tx[r].balance,
              OrderIsExact(order'[r])
       PROVE  MoneyOK'
  <2>1. OrderIsExact(order[r])' /\ OrderIsExact(tx[r].order)'
    BY <1>18 DEF OrderIsExact, RequiredAmount, AmountOf, Representable
  <2>2. BalanceIsExact(balance[r])'
    BY <1>16, <1>18 DEF BalanceIsExact, Representable
  <2>3. /\ tx'[r].balance.available = balance'[r].available
        /\ tx'[r].balance.locked = balance'[r].locked
    BY <1>2, <1>18 DEF WritesAreExact
  <2> QED
    BY <1>3, <1>18, <2>1, <2>2, <2>3 DEF WritesAreExact
<1>19. CASE InsertOrder(r) /\ ~Abort(r)
  <2> DEFINE row == ClearEvents(order[r])
  <2>1. /\ pc[r] = "insertOrder"
        /\ pc'[r] \in {"saveKey", "commit"}
        /\ UNCHANGED <<balances, orders, balance>>
        /\ tx'[r].order = row
        /\ tx'[r].balance = tx[r].balance
        /\ order'[r] = row
    BY <1>19 DEF InsertOrder, tables, TypeInv, TypeOK, RequestsOK, WriteSets
  <2>2. OrderIsExact(row)
    BY <1>16, <2>1, ExactAmounts DEF InTransaction
  <2> QED
    BY <1>18, <2>1, <2>2 DEF InTransaction
<1>20. CASE UpdateOrder(r) /\ ~Abort(r)
  <2> DEFINE row == [ClearEvents(order[r]) EXCEPT !.version = orders[OrderId(r)].version + 1]
  <2>1. /\ pc[r] = "updateOrder"
        /\ pc'[r] = "commit"
        /\ UNCHANGED <<balances, orders, balance>>
        /\ tx'[r].order = row
        /\ tx'[r].balance = tx[r].balance
        /\ order'[r] = ClearEvents(order[r])
    BY <1>20 DEF UpdateOrder, StageOrder, tables, TypeInv, TypeOK, RequestsOK, WriteSets
  <2>2. order[r] \in OrderRecords /\ OrderIsExact(ClearEvents(order[r]))
    BY <1>16, <2>1, ExactAmounts DEF InTransaction
  <2>3. OrderIsExact(row)
    BY <2>2, OrderMethodsType DEF OrderIsExact, RequiredAmount, AmountOf, OrderRecords
  <2> QED
    BY <1>18, <2>1, <2>2, <2>3 DEF InTransaction
<1>21. CASE SaveKey(r) /\ ~Abort(r)
  <2>1. /\ pc[r] = "saveKey"
        /\ pc'[r] = "commit"
        /\ UNCHANGED <<balances, orders, balance, order>>
        /\ tx'[r].order = tx[r].order
        /\ tx'[r].balance = tx[r].balance
    BY <1>21 DEF SaveKey, StageKey, tables, local, TypeInv, TypeOK, RequestsOK, WriteSets
  <2>2. OrderIsExact(tx[r].order) /\ OrderIsExact(order[r])
    BY <1>2, <2>1 DEF WritesAreExact, InTransaction
  <2> QED
    BY <1>18, <2>1, <2>2 DEF InTransaction
<1>22. CASE Commit(r) \/ CommitUnacknowledged(r)
  BY <1>22, CommittingKeepsMoney
<1>23. CASE Fail(r)
  BY <1>6, <1>23 DEF Fail
<1> QED
  BY <1>6, <1>7, <1>8, <1>9, <1>10, <1>11, <1>14, <1>15, <1>17, <1>19, <1>20, <1>21, <1>22, <1>23
  DEF StepOf, Serve

LEMMA InitMoney == Init => MoneyOK
<1> SUFFICES ASSUME Init PROVE MoneyOK
  OBVIOUS
<1>1. \A a \in Accounts :
         /\ balances[a].available = InitialFunds[a]
         /\ balances[a].locked = 0
         /\ InitialFunds[a] \in Nat
         /\ Representable(InitialFunds[a])
  BY FundsAssumption DEF Init
<1>2. Representable(0)
  BY ScaleAssumption DEF Representable
<1>3. Conservation
  BY <1>1 DEF Conservation
<1>4. TablesAreExact
  BY <1>1, <1>2 DEF Init, TablesAreExact, BalanceIsExact
<1>5. \A r \in Requests : WritesAreExact(r)
  BY DEF Init, WritesAreExact, InTransaction
<1> QED
  BY <1>3, <1>4, <1>5 DEF MoneyOK

LEMMA NextMoney ==
    AmountsRepresentable /\ TypeInv /\ LocksOK /\ MoneyOK /\ [Next]_vars => MoneyOK'
<1> SUFFICES ASSUME AmountsRepresentable, TypeInv, LocksOK, MoneyOK, [Next]_vars PROVE MoneyOK'
  OBVIOUS
<1>1. ASSUME NEW r \in Requests, StepOf(r) PROVE MoneyOK'
  BY <1>1, StepKeepsMoney
<1>2. ASSUME UNCHANGED <<balances, orders, pc, order, balance, tx>> PROVE MoneyOK'
  BY <1>2 DEF MoneyOK, Conservation, TablesAreExact, WritesAreExact
<1>3. ASSUME NEW k \in Keys, ExpireKey(k) PROVE MoneyOK'
  BY <1>2, <1>3 DEF ExpireKey, local
<1>4. CASE UNCHANGED vars
  BY <1>2, <1>4 DEF vars
<1> QED
  BY <1>1, <1>3, <1>4 DEF Next, StepOf, Terminating

\* If no order stands for a fraction of a column unit, no interleaving,
\* failure or retry creates or destroys money, and nothing goes below zero.
THEOREM MoneyIsConserved ==
    ASSUME AmountsRepresentable
    PROVE  Spec => []Conservation
<1>1. MoneyOK => Conservation
  BY DEF MoneyOK
<1>2. TypeInv /\ LocksOK /\ MoneyOK /\ [Next]_vars => MoneyOK'
  BY NextMoney
<1> QED
  BY <1>1, <1>2, InitType, NextType, InitLocks, NextLocks, InitMoney, PTL DEF Spec

-----------------------------------------------------------------------------
(* The events of an account replay its history. *)

\* The event with the greatest id is the latest.
LEMMA LatestIsGreatest ==
    ASSUME NEW events, NEW e, \A d \in events : d.id \in Nat /\ d.id < e.id, e.id \in Nat
    PROVE  LatestOf(events \cup {e}) = e
<1>1. /\ e \in events \cup {e}
      /\ \A d \in events \cup {e} : d.id <= e.id
  OBVIOUS
<1>2. \A x \in events \cup {e} : (\A d \in events \cup {e} : d.id <= x.id) => x = e
  OBVIOUS
<1> QED
  BY <1>1, <1>2 DEF LatestOf

Replays(a, events, row) ==
    /\ \A e \in events : Follows(a, e, {d \in events : d.id < e.id})
    /\ row.available = AvailableAfter(a, events)
    /\ row.locked = LockedAfter(events)

\* An event with a later id than all before it, which follows from the row and
\* says what the row becomes, continues the history.
LEMMA ReplayGrows ==
    ASSUME NEW a, NEW events, NEW row, Replays(a, events, row),
           NEW e, \A d \in events : d.id \in Nat /\ d.id < e.id, e.id \in Nat,
           e.event.availableAfter = row.available - LockedBy(e),
           e.event.lockedAfter = row.locked + LockedBy(e),
           NEW new, new.available = e.event.availableAfter, new.locked = e.event.lockedAfter
    PROVE  Replays(a, events \cup {e}, new)
<1>1. ASSUME NEW x \in events PROVE Follows(a, x, {d \in events \cup {e} : d.id < x.id})
  <2>1. ~(e.id < x.id)
    OBVIOUS
  <2>2. {d \in events \cup {e} : d.id < x.id} = {d \in events : d.id < x.id}
    BY <2>1
  <2> QED
    BY <2>2 DEF Replays
<1>2. Follows(a, e, {d \in events \cup {e} : d.id < e.id})
  <2>1. ~(e.id < e.id)
    OBVIOUS
  <2>2. {d \in events \cup {e} : d.id < e.id} = events
    BY <2>1
  <2> QED
    BY <2>2 DEF Replays, Follows
<1>3. AvailableAfter(a, events \cup {e}) = new.available /\ LockedAfter(events \cup {e}) = new.locked
  BY LatestIsGreatest DEF AvailableAfter, LockedAfter
<1> QED
  BY <1>1, <1>2, <1>3 DEF Replays

AccountEvents(a) == {e \in outbox : e.aggregate = a}
ReplayOK == \A a \in Accounts : Replays(a, AccountEvents(a), balances[a])

LEMMA CommittingKeepsReplay ==
    ASSUME Invariants, IdsOK, MoneyOK, ReplayOK, NEW r \in Requests, Committing(r)
    PROVE  ReplayOK'
<1>1. /\ pc[r] = "commit"
      /\ outbox' = outbox \cup tx[r].events
      /\ \A c \in Accounts : balances'[c] = IF c = AccountOf(order[r]) THEN tx[r].balance
                                                                    ELSE balances[c]
  BY DEF Committing
<1>2. PICK i, j : tx[r].events = {BalanceEntry(r, i), OrderEntry(r, j)}
  BY <1>1, CommittedEvents
<1>3. AccountOf(order[r]) \in Accounts /\ OrderId(r) \in Requests
  BY <1>1, CommittedEvents
<1> DEFINE m == BalanceEntry(r, i)
           p == OrderEntry(r, j)
           row == balances[AccountOf(order[r])]
<1>4. m.aggregate = AccountOf(order[r]) /\ p.aggregate \notin Accounts
  BY <1>3, AggregateIdsAssumption DEF BalanceEntry, OrderEntry
<1>5. /\ m.event.availableAfter = balance[r].available
      /\ m.event.lockedAfter = balance[r].locked
      /\ LockedBy(m) = IF IsPlace(r) THEN RemainingAmount(order[r]) ELSE -RemainingAmount(order[r])
  BY DEF BalanceEntry, BalanceEventInHand, BalanceEvent, LockedBy
<1>6. /\ tx[r].balance.available = balance[r].available
      /\ tx[r].balance.locked = balance[r].locked
  BY <1>1 DEF MoneyOK, WritesAreExact, InTransaction
<1>7. /\ m.event.availableAfter = row.available - LockedBy(m)
      /\ m.event.lockedAfter = row.locked + LockedBy(m)
  <2>1. /\ row.available \in Int
        /\ row.locked \in Int
        /\ RemainingAmount(order[r]) \in Int
    BY <1>1, <1>3, AmountsKept
    DEF Invariants, TypeInv, TypeOK, TablesOK, BalanceRows, ControlOK, InHand, InTransaction
  <2>2. MoneyInHand(r)
    BY <1>1 DEF Invariants, WorkOK, InTransaction
  <2> QED
    BY <1>5, <2>1, <2>2 DEF MoneyInHand
<1>8. m \in tx[r].events /\ p \in tx[r].events
  BY <1>2
<1>9. /\ m.id \in Nat
      /\ \A d \in AccountEvents(AccountOf(order[r])) : d.id \in Nat /\ d.id < m.id
  BY <1>4, <1>8
  DEF Invariants, TypeInv, TypeOK, TablesOK, RequestsOK, WriteSets, OutboxRecords, IdsOK,
      AccountEvents
<1> HIDE DEF m, p
<1>10. ASSUME NEW a \in Accounts PROVE Replays(a, AccountEvents(a)', balances'[a])
  <2>1. Replays(a, AccountEvents(a), balances[a])
    BY DEF ReplayOK
  <2>2. AccountEvents(a)' = IF a = AccountOf(order[r]) THEN AccountEvents(a) \cup {m}
                                                       ELSE AccountEvents(a)
    BY <1>1, <1>2, <1>4 DEF AccountEvents, m, p
  <2>3. CASE a = AccountOf(order[r])
    BY <1>1, <1>5, <1>6, <1>7, <1>9, <2>1, <2>2, <2>3, ReplayGrows
  <2>4. CASE a # AccountOf(order[r])
    BY <1>1, <2>1, <2>2, <2>4
  <2> QED
    BY <2>3, <2>4
<1> QED
  BY <1>10 DEF ReplayOK, Replays, Follows, AvailableAfter, LockedAfter

LEMMA InitReplay == Init => ReplayOK
BY DEF Init, ReplayOK, Replays, AccountEvents, AvailableAfter, LockedAfter

LEMMA NextReplay == Invariants /\ IdsOK /\ MoneyOK /\ ReplayOK /\ [Next]_vars => ReplayOK'
<1> SUFFICES ASSUME Invariants, IdsOK, MoneyOK, ReplayOK, [Next]_vars PROVE ReplayOK'
  OBVIOUS
<1>1. ASSUME UNCHANGED <<balances, outbox>> PROVE ReplayOK'
  BY <1>1 DEF ReplayOK, Replays, AccountEvents, Follows, AvailableAfter, LockedAfter
<1> QED
  BY <1>1, StepsOfOthers, CommittingKeepsReplay
  DEF Invariants, Effect, Leaving, Creating, Reading, Deducting, Unlocking, Locking, Saving,
      Inserting, Updating, StagingOrder, SavingKey

\* If no order stands for a fraction of a column unit, then a consumer that
\* applies the events of an account in id order arrives at its row, and each
\* event it sees follows from the one before.
THEOREM EventsReplayTheBalance ==
    ASSUME AmountsRepresentable
    PROVE  Spec => []BalanceEventsReplay
<1>1. ReplayOK => BalanceEventsReplay
  BY DEF ReplayOK, Replays, AccountEvents, BalanceEventsReplay
<1>2. TypeInv /\ LocksOK /\ MoneyOK /\ [Next]_vars => MoneyOK'
  BY NextMoney
<1>3. Invariants => TypeInv /\ LocksOK
  BY DEF Invariants
<1> QED
  BY <1>1, <1>2, <1>3, InvariantsHold, InitMoney, InitReplay, NextReplay, PTL DEF Spec

-----------------------------------------------------------------------------
(* What an account has locked is what its open orders need. *)

\* A commit moves the amount of its order from available to locked, or back.
LEMMA CommittedBalance ==
    ASSUME Invariants, MoneyOK, NEW r \in Requests, Committing(r)
    PROVE  LET a == AccountOf(order[r])
               amount == RemainingAmount(order[r])
               moved == IF IsPlace(r) THEN amount ELSE -amount
           IN  /\ a \in Accounts
               /\ amount \in Int
               /\ amount > 0
               /\ balances[a].available \in Int
               /\ balances[a].locked \in Int
               /\ IsPlace(r) => amount <= balances[a].available
               /\ balances'[a].available = balances[a].available - moved
               /\ balances'[a].locked = balances[a].locked + moved
               /\ \A c \in Accounts : c # a => balances'[c] = balances[c]
<1> DEFINE a == AccountOf(order[r])
           amount == RemainingAmount(order[r])
           moved == IF IsPlace(r) THEN amount ELSE -amount
<1>1. /\ pc[r] = "commit"
      /\ \A c \in Accounts : balances'[c] = IF c = a THEN tx[r].balance ELSE balances[c]
  BY DEF Committing
<1>2. /\ a \in Accounts
      /\ order[r] \in OrderRecords
  BY <1>1 DEF Invariants, TypeInv, ControlOK, InHand, InTransaction
<1>3. /\ amount \in Int
      /\ balances[a].available \in Int
      /\ balances[a].locked \in Int
  BY <1>2, AmountsKept DEF Invariants, TypeInv, TypeOK, TablesOK, BalanceRows
<1>4. MoneyInHand(r)
  BY <1>1 DEF Invariants, WorkOK, InTransaction
<1>5. /\ tx[r].balance.available = balance[r].available
      /\ tx[r].balance.locked = balance[r].locked
  BY <1>1 DEF MoneyOK, WritesAreExact, InTransaction
<1>6. /\ balances'[a].available = balances[a].available - moved
      /\ balances'[a].locked = balances[a].locked + moved
  BY <1>1, <1>2, <1>3, <1>4, <1>5 DEF MoneyInHand
<1>7. amount > 0 /\ (IsPlace(r) => amount <= balances[a].available)
  BY <1>4 DEF MoneyInHand
<1> QED
  BY <1>1, <1>2, <1>3, <1>6, <1>7

\* MapThenSumSet adds up what is left of the orders.
Fold(g, S) ==
    g = [A \in SUBSET S |-> IF A = {} THEN 0
                            ELSE RemainingAmount(orders[Chosen(A)]) + g[A \ {Chosen(A)}]]

Needs(S) == [o \in S |-> RemainingAmount(orders[o])]

LEMMA FoldIsSum ==
    ASSUME NEW S, IsFiniteSet(S)
    PROVE  MapThenSumSet(LAMBDA o : RemainingAmount(orders[o]), S) = SumOf(Needs(S), S)
<1>1. MapThenSumSet(LAMBDA o : RemainingAmount(orders[o]), S) = (CHOOSE g : Fold(g, S))[S]
  BY DEF MapThenSumSet, MapThenFoldSet, Fold, Chosen
<1>2. ASSUME NEW g PROVE Fold(g, S) <=> Adds(g, Needs(S), S)
  <2> DEFINE F(A) == IF A = {} THEN 0
                     ELSE RemainingAmount(orders[Chosen(A)]) + g[A \ {Chosen(A)}]
             H(A) == IF A = {} THEN 0 ELSE Needs(S)[Chosen(A)] + g[A \ {Chosen(A)}]
  <2>1. ASSUME NEW A \in SUBSET S PROVE F(A) = H(A)
    <3>1. CASE A # {}
      <4>1. Needs(S)[Chosen(A)] = RemainingAmount(orders[Chosen(A)])
        BY <3>1, ChosenElement DEF Needs
      <4> QED
        BY <4>1
    <3> QED
      BY <3>1
  <2> HIDE DEF F, H
  <2>2. [A \in SUBSET S |-> F(A)] = [A \in SUBSET S |-> H(A)]
    BY <2>1
  <2>3. (g = [A \in SUBSET S |-> F(A)]) <=> (g = [A \in SUBSET S |-> H(A)])
    BY <2>2
  <2> QED
    BY <2>3 DEF Fold, Adds, F, H
<1> DEFINE sum == CHOOSE g : Adds(g, Needs(S), S)
           fold == CHOOSE g : Fold(g, S)
<1>3. Adds(sum, Needs(S), S)
  BY SumsExist
<1> HIDE DEF sum
<1>4. Fold(fold, S)
  BY <1>2, <1>3
<1> HIDE DEF fold
<1>5. Adds(fold, Needs(S), S)
  BY <1>2, <1>4
<1>6. fold[S] = sum[S]
  BY <1>3, <1>5, SumsAgree
<1> QED
  BY <1>1, <1>6 DEF SumOf, sum, fold

LockedAddsUp ==
    \A a \in Accounts : \A S, w :
        S = OpenOrders(a) /\ w = Needs(S) => balances[a].locked = SumOf(w, S)

LEMMA OpenOrdersAreFinite ==
    ASSUME TypeInv, NEW a
    PROVE  /\ IsFiniteSet(OpenOrders(a))
           /\ \A o \in OpenOrders(a) : Needs(OpenOrders(a))[o] = RemainingAmount(orders[o])
           /\ \A o \in OpenOrders(a) : RemainingAmount(orders[o]) \in Int
<1>1. OpenOrders(a) \in SUBSET Requests
  BY DEF OpenOrders
<1>2. IsFiniteSet(OpenOrders(a))
  BY <1>1, RequestsAssumption, FS_Subset
<1>3. \A o \in OpenOrders(a) : orders[o] \in OrderRecords
  BY DEF OpenOrders, TypeInv, TypeOK, TablesOK
<1>4. \A o \in OpenOrders(a) : RemainingAmount(orders[o]) \in Int
  BY <1>3, AmountsKept
<1> QED
  BY <1>2, <1>4 DEF Needs

LEMMA CommittingKeepsLocked ==
    ASSUME Invariants, MoneyOK, LockedAddsUp, NEW r \in Requests, Committing(r), TypeInv'
    PROVE  LockedAddsUp'
<1>1. PICK q \in Requests : q = OrderId(r)
  BY CommittedRow
<1>2. PICK a : a = AccountOf(order[r])
  OBVIOUS
<1>3. PICK amount : amount = RemainingAmount(order[r])
  OBVIOUS
<1>4. /\ a \in Accounts
      /\ amount \in Int
      /\ balances[a].locked \in Int
      /\ balances'[a].locked = balances[a].locked + IF IsPlace(r) THEN amount ELSE -amount
      /\ \A c \in Accounts : c # a => balances'[c] = balances[c]
  BY <1>2, <1>3, CommittedBalance
<1>5. /\ \A o \in Requests : o # q => orders'[o] = orders[o]
      /\ orders'[q] # Absent
      /\ RemainingAmount(orders'[q]) = amount
      /\ AccountOf(orders'[q]) = a
      /\ IF IsPlace(r)
         THEN orders[q] = Absent /\ orders'[q].status = "ACCEPTED"
         ELSE /\ orders[q] # Absent
              /\ orders[q].status = "ACCEPTED"
              /\ RemainingAmount(orders[q]) = amount
              /\ AccountOf(orders[q]) = a
              /\ orders'[q].status = "CANCELLED"
  BY <1>1, <1>2, <1>3, CommittedRow DEF Committing
<1>6. \A c : OpenOrders(c)' = {o \in Requests : /\ orders'[o] # Absent
                                              /\ orders'[o].status \in Cancellable
                                              /\ AccountOf(orders'[o]) = c}
  BY DEF OpenOrders, AccountOf, LockedCurrency
<1>7. ASSUME NEW S PROVE Needs(S)' = [o \in S |-> RemainingAmount(orders'[o])]
  BY DEF Needs, RemainingAmount, RemainingQty, AmountOf
<1>8. TypeInv
  BY DEF Invariants
<1>9. ASSUME NEW c \in Accounts, c # a, NEW T, T = OpenOrders(c)', NEW w, w = Needs(T)'
      PROVE  balances'[c].locked = SumOf(w, T)
  <2>1. OpenOrders(c)' = OpenOrders(c) /\ q \notin OpenOrders(c)
    BY <1>5, <1>6, <1>9 DEF OpenOrders
  <2>2. \A o \in T : RemainingAmount(orders'[o]) = RemainingAmount(orders[o])
    BY <1>5, <1>9, <2>1 DEF OpenOrders
  <2>3. w = Needs(T)
    BY <1>7, <1>9, <2>2 DEF Needs
  <2> QED
    BY <1>4, <1>9, <2>1, <2>3 DEF LockedAddsUp
<1>10. ASSUME NEW T, T = OpenOrders(a)', NEW w, w = Needs(T)'
       PROVE  balances'[a].locked = SumOf(w, T)
  <2>1. PICK S : S = OpenOrders(a)
    OBVIOUS
  <2>2. T = OpenOrders(a)'
    BY <1>10
  <2>3. PICK v : v = Needs(S)
    OBVIOUS
  <2>4. w = Needs(T)'
    BY <1>10
  <2>5. /\ IsFiniteSet(S)
        /\ \A o \in S : v[o] = RemainingAmount(orders[o]) /\ v[o] \in Int
    BY <1>8, <2>1, <2>3, OpenOrdersAreFinite
  <2>6. w = [o \in T |-> RemainingAmount(orders'[o])]
    BY <1>7, <2>4
  <2>7. S \subseteq Requests
    BY <2>1 DEF OpenOrders
  <2>8. balances[a].locked = SumOf(v, S)
    BY <1>4, <2>1, <2>3 DEF LockedAddsUp
  <2>9. CASE IsPlace(r)
    <3>1. T = S \cup {q} /\ q \notin S
      BY <1>5, <1>6, <2>1, <2>2, <2>9 DEF OpenOrders, Cancellable
    <3>2. IsFiniteSet(T) /\ T \ {q} = S
      BY <2>5, <3>1, FS_AddElement
    <3>3. /\ w[q] = amount
          /\ \A o \in S : w[o] = v[o]
      BY <1>5, <2>5, <2>6, <2>7, <3>1
    <3>4. \A o \in T : w[o] \in Int
      BY <1>4, <2>5, <3>1, <3>3
    <3>5. SumOf(w, T) = amount + SumOf(w, S)
      BY <3>1, <3>2, <3>3, <3>4, SumRemoves
    <3>6. SumOf(w, S) = SumOf(v, S)
      BY <2>5, <3>3, SumCongruence
    <3> QED
      BY <1>4, <2>8, <2>9, <3>5, <3>6
  <2>10. CASE ~IsPlace(r)
    <3>1. T = S \ {q} /\ q \in S
      BY <1>5, <1>6, <2>1, <2>2, <2>10 DEF OpenOrders, Cancellable
    <3>2. IsFiniteSet(T)
      BY <2>5, <3>1, FS_Subset
    <3>3. /\ v[q] = amount
          /\ \A o \in T : w[o] = v[o]
      <4>1. v[q] = amount
        BY <1>5, <2>5, <2>10, <3>1
      <4>2. ASSUME NEW o \in T PROVE w[o] = v[o]
        BY <1>5, <2>5, <2>6, <2>7, <3>1, <4>2
      <4> QED
        BY <4>1, <4>2
    <3>4. SumOf(v, S) = amount + SumOf(v, T)
      BY <2>5, <3>1, <3>3, SumRemoves
    <3>5. SumOf(w, T) = SumOf(v, T)
      BY <3>2, <3>3, SumCongruence
    <3>6. SumOf(v, T) \in Int
      BY <2>5, <3>1, <3>2, SumType
    <3> QED
      BY <1>4, <2>8, <2>10, <3>4, <3>5, <3>6
  <2> QED
    BY <2>9, <2>10
<1> QED
  BY <1>9, <1>10 DEF LockedAddsUp

LEMMA InitLocked == Init => LockedAddsUp
<1> SUFFICES ASSUME Init PROVE LockedAddsUp
  OBVIOUS
<1>1. \A a \in Accounts : balances[a].locked = 0 /\ OpenOrders(a) = {}
  BY DEF Init, OpenOrders
<1>2. \A w : SumOf(w, {}) = 0
  BY FS_EmptySet, SumSteps
<1> QED
  BY <1>1, <1>2 DEF LockedAddsUp

LEMMA NextLocked ==
    Invariants /\ MoneyOK /\ LockedAddsUp /\ [Next]_vars /\ TypeInv' => LockedAddsUp'
<1> SUFFICES ASSUME Invariants, MoneyOK, LockedAddsUp, [Next]_vars, TypeInv' PROVE LockedAddsUp'
  OBVIOUS
<1>1. ASSUME UNCHANGED <<balances, orders>> PROVE LockedAddsUp'
  BY <1>1 DEF LockedAddsUp, OpenOrders, Needs, AccountOf, LockedCurrency,
     RemainingAmount, RemainingQty, AmountOf
<1> QED
  BY <1>1, StepsOfOthers, CommittingKeepsLocked
  DEF Invariants, Effect, Leaving, Creating, Reading, Deducting, Unlocking, Locking, Saving,
      Inserting, Updating, StagingOrder, SavingKey

\* If no order stands for a fraction of a column unit, then no order is ever
\* open without its money, and no money stays locked without an order.
THEOREM LockedIsWhatOrdersNeed ==
    ASSUME AmountsRepresentable
    PROVE  Spec => []LockedMatchesOrders
<1>1. TypeInv /\ LockedAddsUp => LockedMatchesOrders
  BY OpenOrdersAreFinite, FoldIsSum DEF LockedMatchesOrders, LockedAddsUp
<1>2. TypeInv /\ LocksOK /\ MoneyOK /\ [Next]_vars => MoneyOK'
  BY NextMoney
<1>3. Invariants => TypeInv /\ LocksOK
  BY DEF Invariants
<1> QED
  BY <1>1, <1>2, <1>3, InvariantsHold, InitMoney, InitLocked, NextLocked, PTL DEF Spec

-----------------------------------------------------------------------------
(* The service implements the ledger. *)

ledgerVars == <<LedgerFunds, LedgerBook, LedgerUsed>>

\* Nothing in the ledger depends on whether a key has expired.
LEMMA ExpiryIsInvisible ==
    ASSUME TypeInv, NEW k \in Keys, ExpireKey(k)
    PROVE  UNCHANGED ledgerVars
<1>1. keys[k] \in KeyRows /\ keys[k] # Absent
  BY DEF ExpireKey, TypeInv, TypeOK, TablesOK
<1>2. keys' = [keys EXCEPT ![k] = [keys[k] EXCEPT !.live = FALSE]]
  BY DEF ExpireKey
<1>3. [keys[k] EXCEPT !.live = FALSE] \in KeyRows /\ [keys[k] EXCEPT !.live = FALSE].order = keys[k].order
  BY <1>1 DEF KeyRows
<1>4. \A j \in Keys : IF j = k THEN keys'[j] # Absent /\ keys'[j].order = keys[j].order
                              ELSE keys'[j] = keys[j]
  BY <1>2, <1>3, AbsentIsNoRow DEF TypeInv, TypeOK, TablesOK
<1>5. LedgerUsed' = LedgerUsed
  BY <1>1, <1>4 DEF LedgerUsed
<1>6. LedgerFunds' = LedgerFunds /\ LedgerBook' = LedgerBook
  BY DEF ExpireKey, LedgerFunds, LedgerBook, BookEntry, RemainingAmount, RemainingQty, AmountOf,
     AccountOf, LockedCurrency
<1> QED
  BY <1>5, <1>6 DEF ledgerVars

LEMMA CommittedFunds ==
    ASSUME Invariants, MoneyOK, NEW r \in Requests, Committing(r)
    PROVE  LET a == AccountOf(order[r])
               amount == RemainingAmount(order[r])
           IN  /\ LedgerFunds[a].available = balances[a].available
               /\ LedgerView!Move(a, IF IsPlace(r) THEN amount ELSE -amount)
<1> DEFINE a == AccountOf(order[r])
           amount == RemainingAmount(order[r])
           moved == IF IsPlace(r) THEN amount ELSE -amount
<1>1. /\ a \in Accounts
      /\ balances'[a].available = balances[a].available - moved
      /\ balances'[a].locked = balances[a].locked + moved
      /\ \A c \in Accounts : c # a => balances'[c] = balances[c]
  BY CommittedBalance
<1> HIDE DEF a, amount, moved
<1>2. LedgerFunds' = [LedgerFunds EXCEPT ![a].available = @ - moved, ![a].locked = @ + moved]
  BY <1>1 DEF LedgerFunds
<1>3. LedgerView!Move(a, moved)
  BY <1>2 DEF LedgerView!Move
<1>4. LedgerFunds[a].available = balances[a].available
  BY <1>1 DEF LedgerFunds
<1> QED
  BY <1>3, <1>4 DEF a, amount, moved

LEMMA EntryIsNotAbsent == \A row : BookEntry(row) # Absent
<1>1. DOMAIN Absent = {"absent"}
  BY DEF Absent
<1>2. \A row : DOMAIN BookEntry(row) # {"absent"}
  BY DEF BookEntry
<1> QED
  BY <1>1, <1>2

LEMMA ClosedEntry ==
    ASSUME NEW a, NEW amount
    PROVE  [[account |-> a, amount |-> amount, open |-> TRUE] EXCEPT !.open = FALSE]
             = [account |-> a, amount |-> amount, open |-> FALSE]
<1> DEFINE Entries == [account : {a}, amount : {amount}, open : BOOLEAN]
           entry == [account |-> a, amount |-> amount, open |-> TRUE]
           closed == [account |-> a, amount |-> amount, open |-> FALSE]
<1>1. entry \in Entries /\ closed \in Entries /\ closed.open = FALSE
  OBVIOUS
<1> HIDE DEF entry, closed
<1>2. [entry EXCEPT !.open = FALSE] \in Entries /\ [entry EXCEPT !.open = FALSE].open = FALSE
  BY <1>1
<1>3. \A x, y \in Entries : x.open = y.open => x = y
  OBVIOUS
<1>4. [entry EXCEPT !.open = FALSE] = closed
  BY <1>1, <1>2, <1>3
<1> QED
  BY <1>4 DEF entry, closed

\* A commit is one step of the ledger.
LEMMA CommitIsALedgerStep ==
    ASSUME Invariants, MoneyOK, NEW r \in Requests, Committing(r)
    PROVE  LedgerView!LedgerNext
<1>1. PICK q \in Requests : q = OrderId(r)
  BY CommittedRow
<1>2. PICK a : a = AccountOf(order[r])
  OBVIOUS
<1>3. PICK amount : amount = RemainingAmount(order[r])
  OBVIOUS
<1>4. /\ pc[r] = "commit"
      /\ \A o \in Requests : o # q => orders'[o] = orders[o]
      /\ keys' = IF tx[r].key = Absent THEN keys ELSE [keys EXCEPT ![cmd[r].key] = tx[r].key]
  BY <1>1 DEF Committing
<1>5. /\ orders'[q] # Absent
      /\ RemainingAmount(orders'[q]) = amount
      /\ AccountOf(orders'[q]) = a
  BY <1>1, <1>2, <1>3, CommittedRow
<1>6. /\ a \in Accounts
      /\ amount \in Int
      /\ amount > 0
      /\ LedgerFunds[a].available \in Int
      /\ IsPlace(r) => amount <= LedgerFunds[a].available
  BY <1>2, <1>3, CommittedFunds, CommittedBalance
<1>7. LedgerBook' = [LedgerBook EXCEPT ![q] =
                        [account |-> a, amount |-> amount, open |-> orders'[q].status \in Cancellable]]
  <2>1. BookEntry(orders'[q]) =
           [account |-> a, amount |-> amount, open |-> orders'[q].status \in Cancellable]
    BY <1>5 DEF BookEntry
  <2>2. LedgerBook' = [o \in Requests |-> IF orders'[o] = Absent THEN Absent
                                                            ELSE BookEntry(orders'[o])]
    BY DEF LedgerBook, BookEntry, RemainingAmount, RemainingQty, AmountOf, AccountOf, LockedCurrency
  <2> QED
    BY <1>4, <1>5, <2>1, <2>2 DEF LedgerBook
<1>8. CASE IsPlace(r)
  <2>1. PICK k : k = cmd[r].key
    OBVIOUS
  <2>2. k \in Keys \cup {NoKey} /\ q = r
    <3>1. cmd[r] \in PlaceCommands
      BY <1>4, <1>8, CommandKinds DEF Invariants, TypeInv, ControlOK, InHand, IsPlace
    <3> QED
      BY <1>1, <1>8, <2>1, <3>1, CommandsAssumption DEF OrderId
  <2>3. orders[q] = Absent /\ orders'[q].status = "ACCEPTED"
    BY <1>1, <1>8, CommittedRow
  <2>4. LedgerBook[q] = Absent
    BY <2>3 DEF LedgerBook
  <2>5. LedgerBook' = [LedgerBook EXCEPT ![q] = [account |-> a, amount |-> amount, open |-> TRUE]]
    BY <1>7, <2>3 DEF Cancellable
  <2>6. tx[r].key # Absent <=> k # NoKey
    BY <1>4, <1>8, <2>1 DEF Invariants, KeysOK, NewOrdersStageTheirKey
  <2>7. k # NoKey => keys[k] = Absent /\ tx[r].key.order = q
    BY <2>1, <2>2, <2>6 DEF Invariants, KeysOK, StagedKeysAreNew
  <2>8. k # NoKey => LedgerUsed[k] = Absent
    BY <2>2, <2>7 DEF LedgerUsed
  <2>9. LedgerUsed' = IF k = NoKey THEN LedgerUsed ELSE [LedgerUsed EXCEPT ![k] = q]
    <3>1. k = NoKey => keys' = keys
      BY <1>4, <2>6
    <3>2. k # NoKey => \A j \in Keys : keys'[j] = IF j = k THEN tx[r].key ELSE keys[j]
      BY <1>4, <2>1, <2>6 DEF Invariants, TypeInv, TypeOK, TablesOK
    <3> QED
      BY <2>2, <2>6, <2>7, <3>1, <3>2 DEF LedgerUsed
  <2>10. amount \in 1..LedgerFunds[a].available /\ LedgerView!Move(a, amount)
    BY <1>2, <1>3, <1>6, <1>8, CommittedFunds
  <2>11. LedgerView!PlaceOrder(q, a, amount, k)
    BY <2>4, <2>5, <2>8, <2>9, <2>10 DEF LedgerView!PlaceOrder
  <2> QED
    BY <1>6, <2>2, <2>10, <2>11 DEF LedgerView!LedgerNext
<1>9. CASE ~IsPlace(r)
  <2>1. /\ orders[q] # Absent
        /\ orders[q].status = "ACCEPTED"
        /\ RemainingAmount(orders[q]) = amount
        /\ AccountOf(orders[q]) = a
        /\ orders'[q].status = "CANCELLED"
    BY <1>1, <1>2, <1>3, <1>9, CommittedRow
  <2>2. LedgerBook[q] = [account |-> a, amount |-> amount, open |-> TRUE]
    BY <2>1 DEF LedgerBook, BookEntry, Cancellable
  <2>3. LedgerBook[q] # Absent /\ LedgerBook[q].open
    BY <2>1, <2>2, EntryIsNotAbsent DEF LedgerBook
  <2>4. LedgerBook' = [LedgerBook EXCEPT ![q].open = FALSE]
    <3> DEFINE entry == LedgerBook[q]
               closed == [account |-> a, amount |-> amount, open |-> FALSE]
    <3>1. entry = [account |-> a, amount |-> amount, open |-> TRUE]
      BY <2>2
    <3>2. [[account |-> a, amount |-> amount, open |-> TRUE] EXCEPT !.open = FALSE] = closed
      BY ClosedEntry
    <3>3. (orders'[q].status \in Cancellable) = FALSE
      BY <2>1 DEF Cancellable
    <3>4. LedgerBook' = [LedgerBook EXCEPT ![q] = closed]
      BY <1>7, <3>3
    <3>5. LedgerBook' = [LedgerBook EXCEPT ![q] = [entry EXCEPT !.open = FALSE]]
      <4> HIDE DEF entry, closed
      <4> QED
        BY <3>1, <3>2, <3>4
    <3> QED
      BY <3>5
  <2>5. LedgerUsed' = LedgerUsed
    <3>1. tx[r].key = Absent
      BY <1>9 DEF Invariants, KeysOK, StagedKeysAreNew
    <3> QED
      BY <1>4, <3>1 DEF LedgerUsed
  <2>6. LedgerView!Move(LedgerBook[q].account, -LedgerBook[q].amount)
    BY <1>2, <1>3, <1>9, <2>2, CommittedFunds
  <2>7. LedgerView!CancelOrder(q)
    BY <2>3, <2>4, <2>5, <2>6 DEF LedgerView!CancelOrder
  <2> QED
    BY <2>7 DEF LedgerView!LedgerNext
<1> QED
  BY <1>8, <1>9

LEMMA InitLedger == Init => LedgerView!LedgerInit
<1> SUFFICES ASSUME Init PROVE LedgerView!LedgerInit
  OBVIOUS
<1>1. LedgerFunds = [a \in Accounts |-> [available |-> InitialFunds[a], locked |-> 0]]
  BY DEF Init, LedgerFunds
<1>2. LedgerBook = [o \in Requests |-> Absent] /\ LedgerUsed = [k \in Keys |-> Absent]
  BY DEF Init, LedgerBook, LedgerUsed
<1> QED
  BY <1>1, <1>2 DEF LedgerView!LedgerInit

LEMMA NextLedger ==
    Invariants /\ MoneyOK /\ [Next]_vars => LedgerView!LedgerNext \/ UNCHANGED ledgerVars
<1> SUFFICES ASSUME Invariants, MoneyOK, [Next]_vars
             PROVE  LedgerView!LedgerNext \/ UNCHANGED ledgerVars
  OBVIOUS
<1>1. TypeInv
  BY DEF Invariants
<1>2. ASSUME UNCHANGED <<balances, orders, keys>> PROVE UNCHANGED ledgerVars
  BY <1>2 DEF ledgerVars, LedgerFunds, LedgerBook, LedgerUsed, BookEntry, RemainingAmount,
     RemainingQty, AmountOf, AccountOf, LockedCurrency
<1>3. ASSUME NEW r \in Requests, StepOf(r) PROVE LedgerView!LedgerNext \/ UNCHANGED ledgerVars
  <2>1. Effect(r)
    BY <1>1, <1>3, StepEffects
  <2>2. CASE Committing(r)
    BY <2>2, CommitIsALedgerStep
  <2>3. CASE ~Committing(r)
    BY <1>2, <2>1, <2>3
    DEF Effect, Leaving, Creating, Reading, Deducting, Unlocking, Locking, Saving, Inserting,
        Updating, StagingOrder, SavingKey
  <2> QED
    BY <2>2, <2>3
<1>4. ASSUME NEW k \in Keys, ExpireKey(k) PROVE UNCHANGED ledgerVars
  BY <1>1, <1>4, ExpiryIsInvisible
<1>5. CASE UNCHANGED vars
  BY <1>2, <1>5 DEF vars
<1> QED
  BY <1>3, <1>4, <1>5 DEF Next, StepOf, Terminating

\* If no order stands for a fraction of a column unit, then clients cannot tell
\* the statements, locks, failures and retries from a ledger on which placing
\* and cancelling an order are single steps.
THEOREM ServiceImplementsLedger ==
    ASSUME AmountsRepresentable
    PROVE  Spec => ImplementsLedger
<1>1. TypeInv /\ LocksOK /\ MoneyOK /\ [Next]_vars => MoneyOK'
  BY NextMoney
<1>2. Invariants => TypeInv /\ LocksOK
  BY DEF Invariants
<1>3. Invariants /\ MoneyOK /\ [Next]_vars => [LedgerView!LedgerNext]_(LedgerView!ledger)
  BY NextLedger DEF ledgerVars, LedgerView!ledger
<1> QED
  BY <1>1, <1>2, <1>3, InvariantsHold, InitMoney, InitLedger, PTL
  DEF Spec, ImplementsLedger, LedgerView!LedgerSpec
=============================================================================
