----------------------- MODULE OrderServiceProperties -----------------------
(***************************************************************************)
(* What OrderService.tla is meant to guarantee.                            *)
(***************************************************************************)
EXTENDS OrderService, FiniteSetsExt

Statements ==
    {"idle", "check", "create", "find", "lock", "saveBalance", "insertOrder",
     "updateOrder", "saveKey", "commit", "done"}

\* Statements executed with the balance row locked.
InTransaction == {"saveBalance", "insertOrder", "updateOrder", "saveKey", "commit"}

\* The rows of the tables and the aggregates in memory.
BalanceRows == [available : Int, locked : Int, version : Nat]
KeyRows == [order : Requests, live : BOOLEAN]

OrderEventRecords == [type : {"OrderPlaced", "OrderFilled", "OrderCancelled"}]
BalanceEventRecords ==
    [type : {"BalanceDeducted", "BalanceRestored"}, ref : Requests, amount : Int,
     availableAfter : Int, lockedAfter : Int]
OutboxRecords ==
    [id : Nat, aggregate : Accounts \cup Requests,
     event : OrderEventRecords \cup BalanceEventRecords]

BalanceRecords ==
    [available : Int, locked : Int, version : Nat, events : Seq(BalanceEventRecords)]

\* What clients fill in and nobody validates.
Users == {c.user : c \in PlaceCommands}
Pairs == {c.pair : c \in PlaceCommands}
AskedSides == {c.side : c \in PlaceCommands}
AskedTypes == {c.type : c \in PlaceCommands}

OrderRecords ==
    [user : Users, pair : Pairs, side : AskedSides, type : AskedTypes,
     price : Int, quantity : Int, filledQty : Int, status : OrderStatuses,
     version : Nat, events : Seq(OrderEventRecords)]

WriteSets ==
    [balance : BalanceRows \cup {Absent}, order : OrderRecords \cup {Absent},
     key : KeyRows \cup {Absent}, events : SUBSET OutboxRecords]

Rows ==
    {BalanceRow(a) : a \in Accounts} \cup {OrderRow(o) : o \in Requests}
        \cup {KeyRow(k) : k \in Keys}

Answers == [ok : {TRUE}, order : Requests, status : OrderStatuses] \cup {Failure}

TablesOK ==
    /\ balances \in [Accounts -> BalanceRows]
    /\ orders \in [Requests -> OrderRecords \cup {Absent}]
    /\ keys \in [Keys -> KeyRows \cup {Absent}]
    /\ outbox \in SUBSET OutboxRecords
    /\ nextId \in Nat

RequestsOK ==
    /\ pc \in [Requests -> Statements]
    /\ cmd \in [Requests -> Commands \cup {Absent}]
    /\ order \in [Requests -> OrderRecords \cup {Absent}]
    /\ balance \in [Requests -> BalanceRecords \cup {Absent}]
    /\ tx \in [Requests -> WriteSets]
    /\ held \in [Requests -> SUBSET Rows]
    /\ answer \in [Requests -> Answers \cup {Absent}]

\* Every variable has its type: the tables and the write sets hold well-formed
\* rows or no row, and an answer is an error or names an order.
TypeOK == TablesOK /\ RequestsOK

\* What a request has in hand at the statement it executes next.
InHand(r) ==
    /\ pc[r] # "idle" => cmd[r] \in Commands
    /\ pc[r] \in {"check", "saveKey"} => cmd[r].key \in Keys
    /\ pc[r] \in {"check", "create", "insertOrder", "saveKey"} => IsPlace(r)
    /\ pc[r] \in {"find", "updateOrder"} => ~IsPlace(r)
    /\ pc[r] \in {"lock"} \cup InTransaction => order[r] \in OrderRecords
    /\ pc[r] \in InTransaction =>
          balance[r] \in BalanceRecords /\ AccountOf(order[r]) \in Accounts
    /\ pc[r] \in InTransaction \ {"saveBalance"} => tx[r].balance \in BalanceRows
    /\ pc[r] \in {"saveKey", "commit"} => tx[r].order \in OrderRecords

\* With it, TypeOK is inductive.
ControlOK == \A r \in Requests : InHand(r)
-----------------------------------------------------------------------------
(* Balances. *)

\* Placing and cancelling only move money between available and locked: in
\* every account they add up to what it was given, and neither is negative
\* (docs/00_Design.md: "available + locked", the conservation law).
Conservation ==
    \A a \in Accounts :
        /\ balances[a].available + balances[a].locked = InitialFunds[a]
        /\ balances[a].available >= 0
        /\ balances[a].locked >= 0

OpenOrders(a) ==
    {o \in Requests : /\ orders[o] # Absent
                      /\ orders[o].status \in Cancellable
                      /\ AccountOf(orders[o]) = a}

\* What an account has locked is exactly what its open orders still need,
\* whatever requests failed or raced on the way: no order is open without its
\* money, and no money stays locked without an order.
LockedMatchesOrders ==
    \A a \in Accounts :
        balances[a].locked =
            MapThenSumSet(LAMBDA o : RemainingAmount(orders[o]), OpenOrders(a))

\* The row lock taken by SELECT ... FOR UPDATE is enough: until the request
\* ends, the balance it works on is the committed one, so the optimistic
\* version check of mysql_balance_repo.go never refuses a write.
HeldBalanceIsCurrent ==
    \A r \in Requests :
        pc[r] \in InTransaction =>
            /\ balances[AccountOf(order[r])].version = balance[r].version
            /\ balances[AccountOf(order[r])].available + balances[AccountOf(order[r])].locked
                 = balance[r].available + balance[r].locked
\* Why: the row is locked throughout, and nobody else works on that account.
BalanceLocksHeld ==
    \A r \in Requests :
        pc[r] \in InTransaction => BalanceRow(AccountOf(order[r])) \in held[r]

BalanceLocksExclude ==
    \A r, s \in Requests :
        r # s /\ pc[r] \in InTransaction /\ pc[s] \in InTransaction =>
            AccountOf(order[r]) # AccountOf(order[s])

LocksOK == BalanceLocksHeld /\ BalanceLocksExclude /\ HeldBalanceIsCurrent
\* Conservation needs amounts that the columns store exactly; the products of
\* a price and a quantity that the API accepts can have twice their decimals.
AmountsRepresentable ==
    \A c \in PlaceCommands : CanCreate(c) => Representable(AmountOf(c, c.quantity))

\* Why, with such amounts: no statement rounds anything, ...
BalanceIsExact(b) ==
    /\ b.available >= 0
    /\ b.locked >= 0
    /\ Representable(b.available)
    /\ Representable(b.locked)

OrderIsExact(o) == o.filledQty = 0 /\ Representable(RequiredAmount(o))

TablesAreExact ==
    /\ \A a \in Accounts : BalanceIsExact(balances[a])
    /\ \A o \in Requests : orders[o] # Absent => OrderIsExact(orders[o])

\* ... and what a request is about to write is what it computed.
WritesAreExact(r) ==
    /\ pc[r] \in {"lock"} \cup InTransaction => OrderIsExact(order[r])
    /\ pc[r] \in InTransaction => BalanceIsExact(balance[r])
    /\ pc[r] \in InTransaction \ {"saveBalance"} =>
          /\ tx[r].balance.available = balance[r].available
          /\ tx[r].balance.locked = balance[r].locked
    /\ pc[r] \in {"saveKey", "commit"} => OrderIsExact(tx[r].order)

MoneyOK ==
    /\ Conservation
    /\ TablesAreExact
    /\ \A r \in Requests : WritesAreExact(r)
-----------------------------------------------------------------------------
(* Idempotency keys. *)

OrdersWithKey(k) == {o \in Requests : orders[o] # Absent /\ cmd[o].key = k}

\* An idempotency key stands for at most one order, for ever: concurrent
\* requests with the same key, a retry after a lost acknowledgement, a failing
\* lookup and an expired key never create a second one, and the key's row names
\* the order that was created.
OneOrderPerKey ==
    \A k \in Keys :
        OrdersWithKey(k) = IF keys[k] = Absent THEN {} ELSE {keys[k].order}

\* Why: a staged key is locked and unused ...
StagedKeysAreNew ==
    \A r \in Requests :
        tx[r].key # Absent =>
            /\ pc[r] = "commit"
            /\ IsPlace(r)
            /\ tx[r].key.order = r
            /\ KeyRow(cmd[r].key) \in held[r]
            /\ keys[cmd[r].key] = Absent

\* ... by one request at a time, ...
StagedKeysExclude ==
    \A r, s \in Requests :
        r # s /\ tx[r].key # Absent /\ tx[s].key # Absent => cmd[r].key # cmd[s].key

\* ... every new order with a key stages it, ...
NewOrdersStageTheirKey ==
    \A r \in Requests :
        pc[r] = "commit" /\ IsPlace(r) => (tx[r].key # Absent <=> cmd[r].key # NoKey)

\* ... and only the request that places an order makes its row appear.
OrdersComeFromPlacing ==
    \A r \in Requests :
        /\ orders[r] # Absent => pc[r] = "done" /\ IsPlace(r)
        /\ pc[r] \in {"lock"} \cup InTransaction /\ ~IsPlace(r) => orders[cmd[r].order] # Absent

KeysOK ==
    /\ StagedKeysAreNew
    /\ StagedKeysExclude
    /\ NewOrdersStageTheirKey
    /\ OrdersComeFromPlacing
    /\ OneOrderPerKey

\* A success reported to a client is true and stays true: the order it names is
\* in the table, was placed under the same key, and is cancelled if the client
\* asked for that.
SuccessIsDurable ==
    \A r \in Requests :
        answer[r] # Absent /\ answer[r].ok =>
            LET o == answer[r].order
            IN  /\ orders[o] # Absent
                /\ IF IsPlace(r) THEN o = r \/ cmd[o].key = cmd[r].key
                                 ELSE o = cmd[r].order /\ orders[o].status = "CANCELLED"

\* With it, SuccessIsDurable is inductive.
AnswersAreFinal == \A r \in Requests : answer[r] # Absent => pc[r] = "done"
-----------------------------------------------------------------------------
(* The transactional outbox. *)

OrderEvents(o, type) == {e \in outbox : e.aggregate = o /\ e.event.type = type}
BalanceEvents(o, type) ==
    {e \in outbox : e.aggregate \in Accounts /\ e.event.type = type /\ e.event.ref = o}

\* outbox_events and the tables say the same: an order in the table has one
\* OrderPlaced and one BalanceDeducted event, a cancelled one also one
\* OrderCancelled and one BalanceRestored event over the amount that was
\* deducted, and a request that failed leaves no event behind.
OutboxMatchesTables ==
    \A o \in Requests :
        LET placed == IF orders[o] # Absent THEN 1 ELSE 0
            cancelled == IF orders[o] # Absent /\ orders[o].status = "CANCELLED" THEN 1 ELSE 0
            deducted == BalanceEvents(o, "BalanceDeducted")
            restored == BalanceEvents(o, "BalanceRestored")
        IN  /\ Cardinality(OrderEvents(o, "OrderPlaced")) = placed
            /\ Cardinality(deducted) = placed
            /\ Cardinality(OrderEvents(o, "OrderCancelled")) = cancelled
            /\ Cardinality(restored) = cancelled
            /\ \A d \in deducted, e \in restored :
                  /\ d.event.amount = e.event.amount
                  /\ d.aggregate = e.aggregate

\* Why: one event of the order and one of its account say each of these things,
\* and the latter is about the amount and the account of the row.
Told(said, ofOrder, ofBalance, row) ==
    IF said
    THEN \E p \in ofOrder, m \in ofBalance :
            /\ ofOrder = {p}
            /\ ofBalance = {m}
            /\ m.event.amount = RemainingAmount(row)
            /\ m.aggregate = AccountOf(row)
    ELSE ofOrder = {} /\ ofBalance = {}

OutboxOK ==
    \A o \in Requests :
        LET row == orders[o]
        IN  /\ Told(row # Absent,
                    OrderEvents(o, "OrderPlaced"), BalanceEvents(o, "BalanceDeducted"), row)
            /\ Told(row # Absent /\ row.status = "CANCELLED",
                    OrderEvents(o, "OrderCancelled"), BalanceEvents(o, "BalanceRestored"), row)

LatestOf(events) == CHOOSE e \in events : \A d \in events : d.id <= e.id

\* The balance after these events of an account, and the one that e leaves.
AvailableAfter(a, events) ==
    IF events = {} THEN InitialFunds[a] ELSE LatestOf(events).event.availableAfter
LockedAfter(events) ==
    IF events = {} THEN 0 ELSE LatestOf(events).event.lockedAfter
LockedBy(e) ==
    IF e.event.type = "BalanceDeducted" THEN e.event.amount ELSE -e.event.amount
Follows(a, e, events) ==
    /\ e.event.availableAfter = AvailableAfter(a, events) - LockedBy(e)
    /\ e.event.lockedAfter = LockedAfter(events) + LockedBy(e)

\* Read in id order, as the relay reads them, the events of an account replay
\* its history: each AvailableAfter and LockedAfter follows from the event
\* before, and the last one is the row of the account.
BalanceEventsReplay ==
    \A a \in Accounts :
        LET events == {e \in outbox : e.aggregate = a}
        IN  /\ \A e \in events : Follows(a, e, {d \in events : d.id < e.id})
            /\ balances[a].available = AvailableAfter(a, events)
            /\ balances[a].locked = LockedAfter(events)

\* Ids are handed out before the commit, yet for one aggregate (one Kafka key)
\* events become visible in id order: the relay never meets an event that
\* should have gone before one it has already sent.
OutboxGrowsInKeyOrder ==
    [][\A new \in outbox' \ outbox, old \in outbox :
          new.aggregate = old.aggregate => old.id < new.id]_vars

\* Why: the amount a request works on is what its order stands for, between
\* the committed balance and the one in memory, ...
MoneyInHand(r) ==
    LET b == balance[r]
        row == balances[AccountOf(order[r])]
        amount == RemainingAmount(order[r])
    IN  /\ amount > 0
        /\ IF IsPlace(r)
           THEN /\ amount <= row.available
                /\ b.available = row.available - amount
                /\ b.locked = row.locked + amount
           ELSE /\ amount <= row.locked
                /\ b.available = row.available + amount
                /\ b.locked = row.locked - amount

\* ... each transaction stages one event of the balance and one of the order, ...
BalanceEventInHand(r) ==
    BalanceEvent(IF IsPlace(r) THEN "BalanceDeducted" ELSE "BalanceRestored",
                 balance[r], RemainingAmount(order[r]), OrderId(r))
BalanceEntry(r, n) ==
    [id |-> n, aggregate |-> AccountOf(order[r]), event |-> BalanceEventInHand(r)]
OrderEntry(r, n) ==
    [id |-> n, aggregate |-> OrderId(r),
     event |-> IF IsPlace(r) THEN OrderPlacedEvent ELSE OrderCancelledEvent]

StagedIds(r) == {e.id : e \in tx[r].events}

EventsInHand(r) ==
    /\ pc[r] \notin InTransaction \ {"saveBalance"} => tx[r].events = {}
    /\ pc[r] = "saveBalance" => balance[r].events = <<BalanceEventInHand(r)>>
    /\ pc[r] \in {"insertOrder", "updateOrder"} =>
          \E n \in StagedIds(r) : tx[r].events = {BalanceEntry(r, n)}
    /\ pc[r] \in {"saveKey", "commit"} =>
          \E n, m \in StagedIds(r) : tx[r].events = {BalanceEntry(r, n), OrderEntry(r, m)}

WorkOK ==
    \A r \in Requests :
        /\ pc[r] \in InTransaction => MoneyInHand(r)
        /\ EventsInHand(r)

\* ... and takes their ids after every event that is visible for its aggregate.
IdsOK ==
    /\ \A d \in outbox : d.id < nextId
    /\ \A d, e \in outbox : d.aggregate = e.aggregate /\ d.id = e.id => d = e
    /\ \A r \in Requests : \A e \in tx[r].events :
          /\ e.id < nextId
          /\ \A d \in outbox : d.aggregate = e.aggregate => d.id < e.id
-----------------------------------------------------------------------------
(* Orders. *)

\* A row of orders changes once, from ACCEPTED to CANCELLED with the next
\* version: two cancellations that both read it as ACCEPTED never both commit.
OrdersAreCancelledOnce ==
    [][\A o \in Requests :
          orders[o] # Absent /\ orders'[o] # orders[o] =>
              /\ orders[o].status = "ACCEPTED"
              /\ orders'[o] = [orders[o] EXCEPT !.status = "CANCELLED", !.version = @ + 1]]_vars

\* Why: the use cases of today leave an order accepted or cancelled, unfilled, ...
RowsAreAcceptedOrCancelled ==
    \A o \in Requests :
        orders[o] # Absent =>
            /\ orders[o].status \in {"ACCEPTED", "CANCELLED"}
            /\ orders[o].filledQty = 0
            /\ orders[o].events = <<>>

\* ... a new order is accepted in memory and inserted as it is, ...
NewOrderInHand(r) ==
    /\ order[r].filledQty = 0
    /\ pc[r] = "lock" => order[r].status = "PENDING" /\ order[r].events = <<>>
    /\ pc[r] \in InTransaction => order[r].status = "ACCEPTED"
    /\ pc[r] \in {"saveBalance", "insertOrder"} => order[r].events = <<OrderPlacedEvent>>
    /\ pc[r] \in {"saveKey", "commit"} => order[r].events = <<>> /\ tx[r].order = order[r]

\* ... a cancellation works on a row that it read without a lock: once the
\* version has matched under the row lock, it is the row of the table, ...
ReadOrderInHand(r) ==
    LET row == orders[cmd[r].order]
        fresh == order[r].version = row.version
    IN  /\ order[r].version <= row.version
        /\ order[r].filledQty = 0
        /\ pc[r] = "lock" =>
              /\ order[r].status = "ACCEPTED"
              /\ order[r].events = <<>>
              /\ fresh => order[r] = row
        /\ pc[r] \in {"saveBalance", "updateOrder"} =>
              /\ order[r].status = "CANCELLED"
              /\ order[r].events = <<OrderCancelledEvent>>
              /\ fresh => row.status = "ACCEPTED" /\ order[r] = Cancel(row)
        /\ pc[r] = "commit" =>
              /\ row.status = "ACCEPTED"
              /\ order[r] = ClearEvents(Cancel(row))
              /\ tx[r].order = [order[r] EXCEPT !.version = row.version + 1]
              /\ OrderRow(cmd[r].order) \in held[r]

\* ... and no other cancellation of that order has come as far.
CancellationsExclude ==
    \A r, s \in Requests :
        r # s /\ pc[r] = "commit" /\ pc[s] = "commit" /\ ~IsPlace(r) /\ ~IsPlace(s) =>
            cmd[r].order # cmd[s].order

OrdersOK ==
    /\ RowsAreAcceptedOrCancelled
    /\ \A r \in Requests :
          pc[r] \in {"lock"} \cup InTransaction =>
              IF IsPlace(r) THEN NewOrderInHand(r) ELSE ReadOrderInHand(r)
    /\ CancellationsExclude

\* Every request is answered: no set of requests waits for one another's row
\* locks for ever, although no statement has to fail or time out.
EveryRequestIsAnswered == \A r \in Requests : pc[r] # "idle" ~> pc[r] = "done"

\* The statements, locks and rollbacks add up to the ledger: every committed
\* transaction is one of its steps and everything else is invisible in it.
BookEntry(row) ==
    [account |-> AccountOf(row), amount |-> RemainingAmount(row),
     open |-> row.status \in Cancellable]

LedgerFunds ==
    [a \in Accounts |-> [available |-> balances[a].available, locked |-> balances[a].locked]]
LedgerBook == [o \in Requests |-> IF orders[o] = Absent THEN Absent ELSE BookEntry(orders[o])]
LedgerUsed == [k \in Keys |-> IF keys[k] = Absent THEN Absent ELSE keys[k].order]

LedgerView == INSTANCE Ledger WITH
    Orders <- Requests, funds <- LedgerFunds, book <- LedgerBook, used <- LedgerUsed

ImplementsLedger == LedgerView!LedgerSpec
=============================================================================
