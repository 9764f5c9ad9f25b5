----------------------- MODULE DomainLifecycleProofs ------------------------
(***************************************************************************)
(* Proofs about DomainLifecycle, for any drafts and any funds: what the    *)
(* two aggregates guarantee whoever calls them, in whatever order.         *)
(***************************************************************************)
EXTENDS DomainLifecycle, TLAPS, SequenceTheorems

EventNames == {"OrderPlaced", "OrderFilled", "OrderCancelled"}
OrderEvents == [type : EventNames]

\* The fields that no method touches may hold anything.
OrderRecords ==
    [user : {d.user : d \in Drafts}, pair : {d.pair : d \in Drafts},
     side : {d.side : d \in Drafts}, type : {d.type : d \in Drafts},
     price : Int, quantity : Int, filledQty : Int,
     status : OrderStatuses, version : {1}, events : Seq(OrderEvents)]

BalanceRecords == [available : Int, locked : Int, version : {1}, events : {<<>>}]

TypeInv ==
    /\ order \in OrderRecords
    /\ balance \in BalanceRecords
    /\ settled \in Int
    /\ published \in Seq(EventNames)

-----------------------------------------------------------------------------
(* What the methods do to the fields of their aggregate. *)

LEMMA NewOrderFields ==
    ASSUME NEW d \in Drafts
    PROVE  /\ NewOrder(d) \in OrderRecords
           /\ NewOrder(d).quantity = d.quantity
           /\ NewOrder(d).filledQty = 0
           /\ NewOrder(d).status = "PENDING"
           /\ NewOrder(d).events = <<>>
<1>1. <<>> \in Seq(OrderEvents)
  OBVIOUS
<1>2. /\ d.user \in {x.user : x \in Drafts}
      /\ d.pair \in {x.pair : x \in Drafts}
      /\ d.side \in {x.side : x \in Drafts}
      /\ d.type \in {x.type : x \in Drafts}
  OBVIOUS
<1> QED
  BY <1>1, <1>2, DraftsAssumption DEF NewOrder, OrderRecords, OrderStatuses

\* The three events are well-formed.
LEMMA EventsAreTyped ==
    /\ OrderPlacedEvent \in OrderEvents
    /\ OrderFilledEvent \in OrderEvents
    /\ OrderCancelledEvent \in OrderEvents
BY DEF OrderEvents, EventNames, OrderPlacedEvent, OrderFilledEvent, OrderCancelledEvent

LEMMA AcceptFields ==
    ASSUME NEW o \in OrderRecords
    PROVE  /\ Accept(o) \in OrderRecords
           /\ Accept(o).quantity = o.quantity
           /\ Accept(o).filledQty = o.filledQty
           /\ Accept(o).status = "ACCEPTED"
           /\ Accept(o).events = Append(o.events, OrderPlacedEvent)
<1>1. Append(o.events, OrderPlacedEvent) \in Seq(OrderEvents)
  BY EventsAreTyped DEF OrderRecords
<1> QED
  BY <1>1 DEF Accept, OrderRecords, OrderStatuses

LEMMA FillFields ==
    ASSUME NEW o \in OrderRecords, NEW qty \in Int
    PROVE  LET filled == o.filledQty + qty
               full == filled = o.quantity
           IN  /\ Fill(o, qty) \in OrderRecords
               /\ Fill(o, qty).quantity = o.quantity
               /\ Fill(o, qty).filledQty = filled
               /\ Fill(o, qty).status = IF full THEN "FILLED" ELSE "PARTIALLY_FILLED"
               /\ Fill(o, qty).events =
                      IF full THEN Append(o.events, OrderFilledEvent) ELSE o.events
<1> DEFINE filled == o.filledQty + qty
           full == filled = o.quantity
           status == IF full THEN "FILLED" ELSE "PARTIALLY_FILLED"
           events == IF full THEN Append(o.events, OrderFilledEvent) ELSE o.events
<1>1. /\ filled \in Int
      /\ status \in OrderStatuses
      /\ events \in Seq(OrderEvents)
  <2>1. Append(o.events, OrderFilledEvent) \in Seq(OrderEvents) /\ o.events \in Seq(OrderEvents)
    BY EventsAreTyped DEF OrderRecords
  <2> QED
    BY <2>1 DEF OrderRecords, OrderStatuses
<1>2. Fill(o, qty) = [o EXCEPT !.filledQty = filled, !.status = status, !.events = events]
  BY DEF Fill, OrderRecords
<1> HIDE DEF filled, status, events
<1>3. /\ Fill(o, qty) \in OrderRecords
      /\ Fill(o, qty).quantity = o.quantity
      /\ Fill(o, qty).filledQty = filled
      /\ Fill(o, qty).status = status
      /\ Fill(o, qty).events = events
  BY <1>1, <1>2 DEF OrderRecords
<1> QED
  BY <1>3 DEF filled, status, events

LEMMA CancelFields ==
    ASSUME NEW o \in OrderRecords
    PROVE  /\ Cancel(o) \in OrderRecords
           /\ Cancel(o).quantity = o.quantity
           /\ Cancel(o).filledQty = o.filledQty
           /\ Cancel(o).status = "CANCELLED"
           /\ Cancel(o).events = Append(o.events, OrderCancelledEvent)
<1>1. Append(o.events, OrderCancelledEvent) \in Seq(OrderEvents)
  BY EventsAreTyped DEF OrderRecords
<1> QED
  BY <1>1 DEF Cancel, OrderRecords, OrderStatuses

LEMMA RejectFields ==
    ASSUME NEW o \in OrderRecords
    PROVE  /\ Reject(o) \in OrderRecords
           /\ Reject(o).quantity = o.quantity
           /\ Reject(o).filledQty = o.filledQty
           /\ Reject(o).status = "REJECTED"
           /\ Reject(o).events = o.events
BY DEF Reject, OrderRecords, OrderStatuses

LEMMA ClearEventsFields ==
    ASSUME NEW o \in OrderRecords
    PROVE  /\ ClearEvents(o) \in OrderRecords
           /\ ClearEvents(o).quantity = o.quantity
           /\ ClearEvents(o).filledQty = o.filledQty
           /\ ClearEvents(o).status = o.status
           /\ ClearEvents(o).events = <<>>
           /\ ClearEvents(ClearEvents(o)) = ClearEvents(o)
<1>1. <<>> \in Seq(OrderEvents)
  OBVIOUS
<1> QED
  BY <1>1 DEF ClearEvents, OrderRecords

\* The row that a balance method leaves once its events are pulled.
LEMMA BalanceFields ==
    ASSUME NEW b \in BalanceRecords, NEW amount \in Int, NEW ref
    PROVE  LET deducted == ClearBalanceEvents(DeductAndLock(b, amount, ref))
               unlocked == ClearBalanceEvents(Unlock(b, amount, ref))
               settles == ClearBalanceEvents(SettleFill(b, amount))
           IN  /\ {deducted, unlocked, settles} \subseteq BalanceRecords
               /\ deducted.available = b.available - amount
               /\ deducted.locked = b.locked + amount
               /\ unlocked.available = b.available + amount
               /\ unlocked.locked = b.locked - amount
               /\ settles.available = b.available
               /\ settles.locked = b.locked - amount
<1> DEFINE deducted == ClearBalanceEvents(DeductAndLock(b, amount, ref))
           unlocked == ClearBalanceEvents(Unlock(b, amount, ref))
           settles == ClearBalanceEvents(SettleFill(b, amount))
<1>1. /\ deducted = [b EXCEPT !.available = b.available - amount, !.locked = b.locked + amount]
      /\ unlocked = [b EXCEPT !.available = b.available + amount, !.locked = b.locked - amount]
      /\ settles = [b EXCEPT !.locked = b.locked - amount]
  BY DEF ClearBalanceEvents, DeductAndLock, Unlock, SettleFill, BalanceRecords
<1>2. b.available \in Int /\ b.locked \in Int
  BY DEF BalanceRecords
<1> HIDE DEF deducted, unlocked, settles
<1>3. deducted \in BalanceRecords /\ unlocked \in BalanceRecords /\ settles \in BalanceRecords
  <2>1. /\ b.available - amount \in Int /\ b.locked + amount \in Int
        /\ b.available + amount \in Int /\ b.locked - amount \in Int
    BY <1>2
  <2>2. deducted \in BalanceRecords
    BY <1>1, <2>1 DEF BalanceRecords
  <2>3. unlocked \in BalanceRecords
    BY <1>1, <2>1 DEF BalanceRecords
  <2>4. settles \in BalanceRecords
    BY <1>1, <2>1 DEF BalanceRecords
  <2> QED
    BY <2>2, <2>3, <2>4
<1>4. /\ deducted.available = b.available - amount
      /\ deducted.locked = b.locked + amount
      /\ unlocked.available = b.available + amount
      /\ unlocked.locked = b.locked - amount
      /\ settles.available = b.available
      /\ settles.locked = b.locked - amount
  BY <1>1 DEF BalanceRecords
<1> QED
  BY <1>3, <1>4 DEF deducted, unlocked, settles

-----------------------------------------------------------------------------
(* The steps: a method of one aggregate leaves the other alone. *)

OrderStep == DoAccept \/ DoFill \/ DoCancel \/ DoReject
BalanceStep == DoDeductAndLock \/ DoUnlock \/ DoSettleFill

LEMMA EventNamesType ==
    ASSUME NEW events \in Seq(OrderEvents)
    PROVE  EventTypes(events) \in Seq(EventNames)
<1>1. DOMAIN events = 1..Len(events) /\ Len(events) \in Nat
  OBVIOUS
<1>2. \A i \in 1..Len(events) : events[i] \in OrderEvents
  OBVIOUS
<1>3. \A i \in 1..Len(events) : events[i].type \in EventNames
  BY <1>2 DEF OrderEvents
<1> QED
  BY <1>1, <1>3 DEF EventTypes

LEMMA InitType == Init => TypeInv
<1> SUFFICES ASSUME Init PROVE TypeInv
  OBVIOUS
<1>1. order \in OrderRecords
  BY NewOrderFields DEF Init
<1>2. balance \in BalanceRecords /\ settled \in Int /\ published \in Seq(EventNames)
  BY FundsIsNat DEF Init, BalanceRecords
<1> QED
  BY <1>1, <1>2 DEF TypeInv

LEMMA OrderStepType ==
    ASSUME TypeInv, OrderStep
    PROVE  TypeInv' /\ UNCHANGED <<balance, settled, published>>
<1>1. order \in OrderRecords
  BY DEF TypeInv
<1>2. ASSUME NEW new \in OrderRecords, OrderCall(new)
      PROVE  TypeInv' /\ UNCHANGED <<balance, settled, published>>
  BY <1>2 DEF OrderCall, TypeInv
<1>3. CASE DoFill
  <2>1. PICK qty \in 1..order.quantity : OrderCall(Fill(order, qty))
    BY <1>3 DEF DoFill
  <2>2. qty \in Int
    BY <1>1, <2>1 DEF OrderRecords
  <2> QED
    BY <1>1, <1>2, <2>1, <2>2, FillFields
<1>4. CASE DoAccept \/ DoCancel \/ DoReject
  BY <1>1, <1>2, <1>4, AcceptFields, CancelFields, RejectFields DEF DoAccept, DoCancel, DoReject
<1> QED
  BY <1>3, <1>4 DEF OrderStep

LEMMA PullType ==
    ASSUME TypeInv, DoPullEvents
    PROVE  TypeInv'
<1>1. order \in OrderRecords /\ order.events \in Seq(OrderEvents)
  BY DEF TypeInv, OrderRecords
<1>2. published' \in Seq(EventNames)
  BY <1>1, EventNamesType, ConcatProperties DEF DoPullEvents, TypeInv
<1> QED
  BY <1>1, <1>2, ClearEventsFields DEF DoPullEvents, TypeInv

LEMMA BalanceStepType ==
    ASSUME TypeInv, BalanceStep
    PROVE  /\ TypeInv'
           /\ UNCHANGED <<order, published>>
           /\ balance'.available + balance'.locked + settled' =
                 balance.available + balance.locked + settled
           /\ balance.available >= 0 => balance'.available >= 0
           /\ balance.locked >= 0 => balance'.locked >= 0
<1>1. /\ balance \in BalanceRecords
      /\ balance.available \in Int
      /\ balance.locked \in Int
      /\ settled \in Int
  BY DEF TypeInv, BalanceRecords
<1>2. CASE DoDeductAndLock
  <2>1. PICK amount \in 0..Funds + 1 :
           /\ CanDeductAndLock(balance, amount)
           /\ BalanceCall(DeductAndLock(balance, amount, "order"))
           /\ UNCHANGED settled
    BY <1>2 DEF DoDeductAndLock
  <2>2. amount \in Int /\ Funds \in Int
    BY <2>1, FundsIsNat
  <2>3. /\ balance' = ClearBalanceEvents(DeductAndLock(balance, amount, "order"))
        /\ UNCHANGED <<order, published>>
    BY <2>1 DEF BalanceCall
  <2>4. /\ balance' \in BalanceRecords
        /\ balance'.available = balance.available - amount
        /\ balance'.locked = balance.locked + amount
    BY <1>1, <2>2, <2>3, BalanceFields
  <2>5. TypeInv'
    BY <1>1, <2>1, <2>2, <2>3, <2>4 DEF TypeInv
  <2> QED
    BY <1>1, <2>1, <2>2, <2>3, <2>4, <2>5 DEF CanDeductAndLock
<1>3. CASE DoUnlock
  <2>1. PICK amount \in 0..Funds + 1 :
           /\ CanUnlock(balance, amount)
           /\ BalanceCall(Unlock(balance, amount, "order"))
           /\ UNCHANGED settled
    BY <1>3 DEF DoUnlock
  <2>2. amount \in Int /\ Funds \in Int
    BY <2>1, FundsIsNat
  <2>3. /\ balance' = ClearBalanceEvents(Unlock(balance, amount, "order"))
        /\ UNCHANGED <<order, published>>
    BY <2>1 DEF BalanceCall
  <2>4. /\ balance' \in BalanceRecords
        /\ balance'.available = balance.available + amount
        /\ balance'.locked = balance.locked - amount
    BY <1>1, <2>2, <2>3, BalanceFields
  <2>5. TypeInv'
    BY <1>1, <2>1, <2>2, <2>3, <2>4 DEF TypeInv
  <2> QED
    BY <1>1, <2>1, <2>2, <2>3, <2>4, <2>5 DEF CanUnlock
<1>4. CASE DoSettleFill
  <2>1. PICK amount \in 0..Funds + 1 :
           /\ CanSettleFill(balance, amount)
           /\ BalanceCall(SettleFill(balance, amount))
           /\ settled' = settled + amount
    BY <1>4 DEF DoSettleFill
  <2>2. amount \in Int /\ Funds \in Int
    BY <2>1, FundsIsNat
  <2>3. /\ balance' = ClearBalanceEvents(SettleFill(balance, amount))
        /\ UNCHANGED <<order, published>>
    BY <2>1 DEF BalanceCall
  <2>4. /\ balance' \in BalanceRecords
        /\ balance'.available = balance.available
        /\ balance'.locked = balance.locked - amount
    BY <1>1, <2>2, <2>3, BalanceFields
  <2>5. TypeInv'
    BY <1>1, <2>1, <2>2, <2>3, <2>4 DEF TypeInv
  <2> QED
    BY <1>1, <2>1, <2>2, <2>3, <2>4, <2>5 DEF CanSettleFill
<1> QED
  BY <1>2, <1>3, <1>4 DEF BalanceStep

LEMMA NextType == TypeInv /\ [Next]_vars => TypeInv'
<1>1. TypeInv /\ UNCHANGED vars => TypeInv'
  BY DEF TypeInv, vars
<1> QED
  BY <1>1, OrderStepType, PullType, BalanceStepType DEF Next, OrderStep, BalanceStep

-----------------------------------------------------------------------------
(* No sequence of calls creates money. *)

LEMMA NextMoney == TypeInv /\ NoMoneyCreated /\ [Next]_vars => NoMoneyCreated'
<1> SUFFICES ASSUME TypeInv, NoMoneyCreated, [Next]_vars PROVE NoMoneyCreated'
  OBVIOUS
<1>1. ASSUME UNCHANGED <<balance, settled>> PROVE NoMoneyCreated'
  BY <1>1 DEF NoMoneyCreated
<1>2. CASE BalanceStep
  BY <1>2, BalanceStepType DEF NoMoneyCreated
<1>3. CASE OrderStep
  BY <1>1, <1>3, OrderStepType
<1>4. CASE DoPullEvents
  BY <1>1, <1>4 DEF DoPullEvents
<1> QED
  BY <1>1, <1>2, <1>3, <1>4 DEF Next, OrderStep, BalanceStep, vars

\* Whatever amounts DeductAndLock, Unlock and SettleFill are called with, in
\* whatever order, what the balance had is available, locked or settled.
THEOREM MoneyIsKept == Spec => []NoMoneyCreated
<1>1. Init => NoMoneyCreated
  BY FundsIsNat DEF Init, NoMoneyCreated
<1> QED
  BY <1>1, InitType, NextType, NextMoney, PTL DEF Spec

-----------------------------------------------------------------------------
(* The status says how much is filled, and an end is an end. *)

LEMMA InitFill == Init => StatusMatchesFill
<1> SUFFICES ASSUME Init PROVE StatusMatchesFill
  OBVIOUS
<1>1. PICK d \in Drafts : CanCreate(d) /\ order = NewOrder(d)
  BY DEF Init
<1>2. d.quantity \in Int /\ d.quantity > 0
  BY <1>1, DraftsAssumption DEF CanCreate
<1> QED
  BY <1>1, <1>2, NewOrderFields DEF StatusMatchesFill

LEMMA NextFill == TypeInv /\ StatusMatchesFill /\ [Next]_vars => StatusMatchesFill'
<1> SUFFICES ASSUME TypeInv, StatusMatchesFill, [Next]_vars PROVE StatusMatchesFill'
  OBVIOUS
<1>1. order \in OrderRecords /\ order.quantity \in Int /\ order.filledQty \in Int
  BY DEF TypeInv, OrderRecords
<1>2. CASE DoAccept
  BY <1>1, <1>2, AcceptFields DEF DoAccept, CanAccept, OrderCall, StatusMatchesFill
<1>3. CASE DoFill
  <2>1. PICK qty \in 1..order.quantity : CanFill(order, qty) /\ OrderCall(Fill(order, qty))
    BY <1>3 DEF DoFill
  <2>2. qty \in Int
    BY <1>1, <2>1
  <2>3. order' = Fill(order, qty) /\ qty > 0 /\ order.filledQty + qty <= order.quantity
    BY <2>1 DEF OrderCall, CanFill
  <2>4. /\ order'.quantity = order.quantity
        /\ order'.filledQty = order.filledQty + qty
        /\ order'.status = IF order'.filledQty = order'.quantity THEN "FILLED"
                                                                 ELSE "PARTIALLY_FILLED"
    <3>1. /\ order'.quantity = order.quantity
          /\ order'.filledQty = order.filledQty + qty
          /\ order'.status = IF order.filledQty + qty = order.quantity THEN "FILLED"
                                                                       ELSE "PARTIALLY_FILLED"
      BY <1>1, <2>2, <2>3, FillFields
    <3> QED
      BY <3>1
  <2> QED
    BY <1>1, <2>2, <2>3, <2>4 DEF StatusMatchesFill
<1>4. CASE DoCancel
  BY <1>1, <1>4, CancelFields DEF DoCancel, CanCancel, OrderCall, StatusMatchesFill, Cancellable
<1>5. CASE DoReject
  BY <1>1, <1>5, RejectFields DEF DoReject, CanReject, OrderCall, StatusMatchesFill
<1>6. CASE DoPullEvents
  BY <1>1, <1>6, ClearEventsFields DEF DoPullEvents, StatusMatchesFill
<1>7. CASE BalanceStep
  BY <1>7, BalanceStepType DEF StatusMatchesFill
<1>8. CASE UNCHANGED vars
  BY <1>8 DEF vars, StatusMatchesFill
<1> QED
  BY <1>2, <1>3, <1>4, <1>5, <1>6, <1>7, <1>8 DEF Next, BalanceStep

\* However the fills are cut and whatever is called around them, an order is
\* FILLED exactly when its fills add up to its quantity (Fill), and no fill
\* comes before Accept or after Reject.
THEOREM StatusTellsTheFill == Spec => []StatusMatchesFill
BY InitType, NextType, InitFill, NextFill, PTL DEF Spec

\* No method moves an order out of FILLED, CANCELLED or REJECTED: the error
\* returns of Accept, Fill, Cancel and Reject cover all three.
THEOREM TheEndIsFinal == Spec => TerminalIsFinal
<1>1. TypeInv /\ [Next]_vars =>
         [IsTerminal(order) => ClearEvents(order') = ClearEvents(order)]_vars
  <2> SUFFICES ASSUME TypeInv, Next, IsTerminal(order)
               PROVE  ClearEvents(order') = ClearEvents(order)
    OBVIOUS
  <2>1. order \in OrderRecords
    BY DEF TypeInv
  <2>2. CASE OrderStep
    BY <2>2 DEF OrderStep, DoAccept, DoFill, DoCancel, DoReject, CanAccept, CanFill, CanCancel,
       CanReject, Cancellable, IsTerminal
  <2>3. CASE DoPullEvents
    BY <2>1, <2>3, ClearEventsFields DEF DoPullEvents
  <2>4. CASE BalanceStep
    BY <2>4, BalanceStepType
  <2> QED
    BY <2>2, <2>3, <2>4 DEF Next, OrderStep, BalanceStep
<1> QED
  BY <1>1, InitType, NextType, PTL DEF Spec, TerminalIsFinal

-----------------------------------------------------------------------------
(* Pulled and pending together, the events tell the history once. *)

\* An event that is collected comes last in the history.
LEMMA Collected ==
    ASSUME NEW events \in Seq(OrderEvents), NEW e \in OrderEvents, NEW said \in Seq(EventNames)
    PROVE  said \o EventTypes(Append(events, e)) = Append(said \o EventTypes(events), e.type)
<1>1. e.type \in EventNames
  BY DEF OrderEvents
<1>2. /\ EventTypes(events) \in Seq(EventNames)
      /\ Len(EventTypes(events)) = Len(events)
      /\ \A i \in 1..Len(events) : EventTypes(events)[i] = events[i].type
  BY EventNamesType DEF EventTypes
<1>3. PICK more : more = Append(events, e)
  OBVIOUS
<1>4. /\ more \in Seq(OrderEvents)
      /\ Len(more) = Len(events) + 1
      /\ \A i \in 1..Len(more) : more[i] = IF i <= Len(events) THEN events[i] ELSE e
  BY <1>3
<1>5. /\ EventTypes(more) \in Seq(EventNames)
      /\ Len(EventTypes(more)) = Len(more)
      /\ \A i \in 1..Len(more) : EventTypes(more)[i] = more[i].type
  <2>1. EventTypes(more) \in Seq(EventNames)
    BY <1>4, EventNamesType
  <2>2. DOMAIN more = 1..Len(more) /\ EventTypes(more) = [i \in 1..Len(more) |-> more[i].type]
    BY <1>4 DEF EventTypes
  <2>3. DOMAIN EventTypes(more) = 1..Len(more) /\ Len(more) \in Nat
    BY <1>4, <2>2
  <2>4. Len(EventTypes(more)) = Len(more)
    BY <2>1, <2>3, LenProperties
  <2> QED
    BY <2>1, <2>2, <2>4
<1>6. PICK types : types = EventTypes(events)
  OBVIOUS
<1>7. /\ Append(types, e.type) \in Seq(EventNames)
      /\ Len(Append(types, e.type)) = Len(EventTypes(more))
      /\ \A i \in 1..Len(more) : Append(types, e.type)[i] = EventTypes(more)[i]
  BY <1>1, <1>2, <1>4, <1>5, <1>6
<1>8. EventTypes(more) = Append(types, e.type)
  BY <1>5, <1>7, SeqEqual
<1>9. said \o Append(types, e.type) = Append(said \o types, e.type)
  BY <1>1, <1>2, <1>6
<1> QED
  BY <1>3, <1>6, <1>8, <1>9

LEMMA SecondAfterFirst ==
    ASSUME NEW x, NEW y
    PROVE  Append(<<x>>, y) = <<x, y>>
<1> DEFINE S == {x, y}
<1>1. /\ <<x>> \in Seq(S)
      /\ <<x, y>> \in Seq(S)
      /\ Len(<<x>>) = 1
      /\ Len(<<x, y>>) = 2
      /\ <<x>>[1] = x
      /\ <<x, y>>[1] = x
      /\ <<x, y>>[2] = y
  OBVIOUS
<1>2. PICK s : s = <<x>>
  OBVIOUS
<1>3. PICK t : t = <<x, y>>
  OBVIOUS
<1>4. /\ Append(s, y) \in Seq(S)
      /\ Len(Append(s, y)) = 2
      /\ Append(s, y)[1] = x
      /\ Append(s, y)[2] = y
  BY <1>1, <1>2
<1>5. Append(s, y) = t
  <2>1. t \in Seq(S) /\ Len(Append(s, y)) = Len(t)
    BY <1>1, <1>3, <1>4
  <2>2. \A i \in 1..Len(Append(s, y)) : Append(s, y)[i] = t[i]
    <3>1. \A i \in 1..2 : i = 1 \/ i = 2
      OBVIOUS
    <3> QED
      BY <1>1, <1>3, <1>4, <3>1
  <2> HIDE DEF S
  <2> QED
    BY <1>4, <2>1, <2>2, SeqEqual
<1> QED
  BY <1>2, <1>3, <1>5

LEMMA NextHistory == TypeInv /\ EventsTellTheHistory /\ [Next]_vars => EventsTellTheHistory'
<1> SUFFICES ASSUME TypeInv, EventsTellTheHistory, [Next]_vars PROVE EventsTellTheHistory'
  OBVIOUS
<1>1. /\ order \in OrderRecords
      /\ order.events \in Seq(OrderEvents)
      /\ published \in Seq(EventNames)
      /\ order.status \in OrderStatuses
  BY DEF TypeInv, OrderRecords
<1>2. /\ OrderPlacedEvent.type = "OrderPlaced"
      /\ OrderFilledEvent.type = "OrderFilled"
      /\ OrderCancelledEvent.type = "OrderCancelled"
  BY DEF OrderPlacedEvent, OrderFilledEvent, OrderCancelledEvent
<1>3. CASE DoAccept
  <2>1. /\ order' = Accept(order) /\ published' = published
        /\ order.status = "PENDING"
    BY <1>3 DEF DoAccept, CanAccept, OrderCall
  <2>2. order'.events = Append(order.events, OrderPlacedEvent) /\ order'.status = "ACCEPTED"
    BY <1>1, <2>1, AcceptFields
  <2>3. published \o EventTypes(order.events) = <<>>
    BY <2>1 DEF EventsTellTheHistory, Cancellable
  <2>4. published' \o EventTypes(order'.events) =
           Append(published \o EventTypes(order.events), OrderPlacedEvent.type)
    BY <1>1, <2>1, <2>2, Collected, EventsAreTyped
  <2>5. published' \o EventTypes(order'.events) = <<"OrderPlaced">>
    BY <1>2, <2>3, <2>4
  <2> QED
    BY <2>2, <2>5 DEF EventsTellTheHistory, Cancellable
<1>4. CASE DoFill
  <2>1. PICK qty \in 1..order.quantity : CanFill(order, qty) /\ OrderCall(Fill(order, qty))
    BY <1>4 DEF DoFill
  <2>2. qty \in Int
    BY <1>1, <2>1 DEF OrderRecords
  <2>3. /\ order' = Fill(order, qty) /\ published' = published
        /\ order.status \in Cancellable
    BY <2>1 DEF OrderCall, CanFill
  <2>4. published \o EventTypes(order.events) = <<"OrderPlaced">>
    BY <2>3 DEF EventsTellTheHistory, Cancellable
  <2>5. CASE order.filledQty + qty = order.quantity
    <3>1. order'.status = "FILLED" /\ order'.events = Append(order.events, OrderFilledEvent)
      BY <1>1, <2>2, <2>3, <2>5, FillFields
    <3>2. published' \o EventTypes(order'.events) =
             Append(published \o EventTypes(order.events), OrderFilledEvent.type)
      BY <1>1, <2>3, <3>1, Collected, EventsAreTyped
    <3>3. published' \o EventTypes(order'.events) = <<"OrderPlaced", "OrderFilled">>
      BY <1>2, <2>4, <3>2, SecondAfterFirst
    <3> QED
      BY <3>1, <3>3 DEF EventsTellTheHistory, Cancellable
  <2>6. CASE order.filledQty + qty # order.quantity
    <3>1. order'.status = "PARTIALLY_FILLED" /\ order'.events = order.events
      BY <1>1, <2>2, <2>3, <2>6, FillFields
    <3> QED
      BY <2>3, <2>4, <3>1 DEF EventsTellTheHistory, Cancellable
  <2> QED
    BY <2>5, <2>6
<1>5. CASE DoCancel
  <2>1. /\ order' = Cancel(order) /\ published' = published
        /\ order.status \in Cancellable
    BY <1>5 DEF DoCancel, CanCancel, OrderCall
  <2>2. published \o EventTypes(order.events) = <<"OrderPlaced">>
    BY <2>1 DEF EventsTellTheHistory, Cancellable
  <2>3. order'.events = Append(order.events, OrderCancelledEvent) /\ order'.status = "CANCELLED"
    BY <1>1, <2>1, CancelFields
  <2>4. published' \o EventTypes(order'.events) =
           Append(published \o EventTypes(order.events), OrderCancelledEvent.type)
    BY <1>1, <2>1, <2>3, Collected, EventsAreTyped
  <2>5. published' \o EventTypes(order'.events) = <<"OrderPlaced", "OrderCancelled">>
    BY <1>2, <2>2, <2>4, SecondAfterFirst
  <2> QED
    BY <2>3, <2>5 DEF EventsTellTheHistory, Cancellable
<1>6. CASE DoReject
  <2>1. /\ order'.events = order.events /\ published' = published
        /\ order.status = "PENDING" /\ order'.status = "REJECTED"
    BY <1>1, <1>6, RejectFields DEF DoReject, CanReject, OrderCall
  <2> QED
    BY <2>1 DEF EventsTellTheHistory, Cancellable
<1>7. CASE DoPullEvents
  <2>1. /\ published' = published \o EventTypes(order.events)
        /\ order'.events = <<>> /\ order'.status = order.status
    BY <1>1, <1>7, ClearEventsFields DEF DoPullEvents
  <2>2. EventTypes(<<>>) = <<>>
    BY DEF EventTypes
  <2>3. published' \in Seq(EventNames)
    BY <1>1, <2>1, EventNamesType, ConcatProperties
  <2>4. published' \o EventTypes(order'.events) = published \o EventTypes(order.events)
    BY <2>1, <2>2, <2>3, ConcatEmptySeq
  <2> QED
    BY <2>1, <2>4 DEF EventsTellTheHistory
<1>8. CASE UNCHANGED <<order, published>>
  BY <1>8 DEF EventsTellTheHistory
<1> QED
  BY <1>3, <1>4, <1>5, <1>6, <1>7, <1>8, BalanceStepType DEF Next, BalanceStep, vars

\* Whenever and however often PullEvents is called, no event of an order is
\* lost, repeated or out of order.
THEOREM EventsAreTheHistory == Spec => []EventsTellTheHistory
<1>1. Init => EventsTellTheHistory
  <2> SUFFICES ASSUME Init PROVE EventsTellTheHistory
    OBVIOUS
  <2>1. published = <<>> /\ order.events = <<>> /\ order.status = "PENDING"
    BY NewOrderFields DEF Init
  <2>2. EventTypes(<<>>) = <<>>
    BY DEF EventTypes
  <2>3. <<>> \o <<>> = <<>>
    OBVIOUS
  <2>4. published \o EventTypes(order.events) = <<>>
    BY <2>1, <2>2, <2>3
  <2> QED
    BY <2>1, <2>4 DEF EventsTellTheHistory, Cancellable
<1> QED
  BY <1>1, InitType, NextType, NextHistory, PTL DEF Spec
=============================================================================
