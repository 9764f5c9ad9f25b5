---------------------------- MODULE OrderService ----------------------------
(***************************************************************************)
(* The HTTP requests that place and cancel orders, each served by its own  *)
(* goroutine, over the MySQL tables they share:                            *)
(*                                                                         *)
(*   internal/order/application/{place,cancel}_order.go   the use cases    *)
(*   internal/order/infrastructure/mysql_order_repo.go    table orders     *)
(*   internal/balance/infrastructure/mysql_balance_repo.go   balances      *)
(*   internal/outbox/mysql_outbox_repo.go    outbox_events, idempotency    *)
(*   internal/shared/infrastructure/tx.go    RunInTx                       *)
(*                                                                         *)
(* One action is one statement sent to the database together with the      *)
(* in-memory work up to the next one, so requests interleave exactly where *)
(* the database lets them.  A transaction writes to its own copy (tx) and  *)
(* takes row locks as InnoDB does at READ COMMITTED; others see its writes *)
(* only after the commit.  Any statement may fail, and the acknowledgement *)
(* of a commit may be lost.                                                *)
(***************************************************************************)
EXTENDS OrderAggregate, BalanceAggregate, FiniteSets

CONSTANTS
    Requests,        \* HTTP requests; the id of an order is the request that made it
    Accounts,        \* the rows of balances, as <<user, currency>>
    InitialFunds,    \* what each account has available at first
    PlaceCommands,   \* the orders that clients may ask for
    Keys,            \* idempotency keys
    NoKey            \* a request without an Idempotency-Key header

Absent == [absent |-> TRUE]      \* no such row, or nothing yet

CancelCommands == [kind : {"cancel"}, order : Requests]
Commands == PlaceCommands \cup CancelCommands

ASSUME RequestsAssumption == IsFiniteSet(Requests)
ASSUME NoKeyAssumption == NoKey \notin Keys
ASSUME CommandsAssumption ==
    \A c \in PlaceCommands :
        /\ c.kind = "place"
        /\ c.key \in Keys \cup {NoKey}
        /\ c.price \in Int
        /\ c.quantity \in Int
\* Ids of orders are UUIDs, ids of balances are row numbers (AggregateID() in
\* both events.go).
ASSUME AggregateIdsAssumption == Accounts \cap Requests = {}
\* The seeded balances were written to the same DECIMAL columns.
ASSUME FundsAssumption ==
    /\ InitialFunds \in [Accounts -> Nat]
    /\ \A a \in Accounts : Representable(InitialFunds[a])

VARIABLES
    \* committed tables
    balances,    \* account -> [available, locked, version]
    orders,      \* order id -> row, or Absent
    keys,        \* idempotency key -> [order, live], or Absent
    outbox,      \* set of [id, aggregate, event]
    nextId,      \* AUTO_INCREMENT of outbox_events: a rollback leaves a gap
    \* one request
    pc,          \* the statement it executes next
    cmd,         \* what the client asked for
    order,       \* the Order in memory
    balance,     \* the Balance in memory
    tx,          \* its uncommitted writes
    held,        \* its row locks
    answer       \* its HTTP response
-----------------------------------------------------------------------------
tables == <<balances, orders, keys, outbox>>
local == <<order, balance>>
vars == <<balances, orders, keys, outbox, nextId, pc, cmd, order, balance, tx, held, answer>>

\* Row locks.
BalanceRow(a) == <<"balances", a>>
OrderRow(o) == <<"orders", o>>
KeyRow(k) == <<"keys", k>>

\* Mutation: SELECT without FOR UPDATE.
NeverBlocked(r, row) == TRUE

\* No other transaction holds the lock of this row.
Free(r, row) == \A s \in Requests \ {r} : row \notin held[s]

NoWrites == [balance |-> Absent, order |-> Absent, key |-> Absent, events |-> {}]

AccountOf(o) == <<o.user, LockedCurrency(o)>>
IsPlace(r) == cmd[r].kind = "place"
\* NewOrder gives an order a fresh id: here, the request that makes it.
OrderId(r) == IF IsPlace(r) THEN r ELSE cmd[r].order

Init ==
    /\ balances = [a \in Accounts |-> [available |-> InitialFunds[a], locked |-> 0, version |-> 1]]
    /\ orders = [o \in Requests |-> Absent]
    /\ keys = [k \in Keys |-> Absent]
    /\ outbox = {}
    /\ nextId = 1
    /\ pc = [r \in Requests |-> "idle"]
    /\ cmd = [r \in Requests |-> Absent]
    /\ order = [r \in Requests |-> Absent]
    /\ balance = [r \in Requests |-> Absent]
    /\ tx = [r \in Requests |-> NoWrites]
    /\ held = [r \in Requests |-> {}]
    /\ answer = [r \in Requests |-> Absent]
-----------------------------------------------------------------------------
(* How a request ends. *)

Goto(r, label) == pc' = [pc EXCEPT ![r] = label]

\* The handler writes its response and forgets everything it held.  RunInTx
\* has rolled back or committed by then, and the row locks are released.
Respond(r, response) ==
    /\ Goto(r, "done")
    /\ answer' = [answer EXCEPT ![r] = response]
    /\ tx' = [tx EXCEPT ![r] = NoWrites]
    /\ held' = [held EXCEPT ![r] = {}]
    /\ order' = [order EXCEPT ![r] = Absent]
    /\ balance' = [balance EXCEPT ![r] = Absent]
    /\ UNCHANGED cmd

Success(o, status) == [ok |-> TRUE, order |-> o, status |-> status]
Failure == [ok |-> FALSE]

\* Mutation: RunInTx returns the error without rolling back.
AbortWithoutRollback(r) ==
    /\ Goto(r, "done")
    /\ answer' = [answer EXCEPT ![r] = Failure]
    /\ UNCHANGED <<tables, nextId, cmd, local, tx, held>>

\* Returning an error: RunInTx rolls back, and no table changes.
Abort(r) == Respond(r, Failure) /\ UNCHANGED <<tables, nextId>>
-----------------------------------------------------------------------------
(* Before the transaction. *)

Receive(r) ==
    /\ pc[r] = "idle"
    /\ \E c \in Commands :
          /\ cmd' = [cmd EXCEPT ![r] = c]
          /\ Goto(r, CASE c.kind = "cancel" -> "find"
                       [] c.kind = "place" /\ c.key # NoKey -> "check"
                       [] OTHER -> "create")
    /\ UNCHANGED <<tables, nextId, local, tx, held, answer>>

\* Check finds the stored response of a key that has not expired ...
CheckHit(r) ==
    /\ pc[r] = "check"
    /\ LET row == keys[cmd[r].key]
       IN  /\ row # Absent
           /\ row.live
           /\ Respond(r, Success(row.order, "ACCEPTED"))
    /\ UNCHANGED <<tables, nextId>>

\* ... and takes everything else, a database error included, for a key that
\* was never used.
CheckMiss(r) ==
    /\ pc[r] = "check"
    /\ Goto(r, "create")
    /\ UNCHANGED <<tables, nextId, cmd, local, tx, held, answer>>

CreateOrder(r) ==
    /\ pc[r] = "create"
    /\ IF CanCreate(cmd[r])
       THEN /\ order' = [order EXCEPT ![r] = NewOrder(cmd[r])]
            /\ Goto(r, "lock")
            /\ UNCHANGED <<tables, nextId, cmd, balance, tx, held, answer>>
       ELSE Abort(r)

\* The committed row, rebuilt as an aggregate without events.
FindByID(o) == orders[o]

\* FindByID reads the order outside the transaction and without a lock.
FindOrder(r) ==
    /\ pc[r] = "find"
    /\ LET row == FindByID(cmd[r].order)
       IN  IF row = Absent THEN Abort(r)
           ELSE IF row.status = "CANCELLED"
           THEN /\ Respond(r, Success(cmd[r].order, row.status))
                /\ UNCHANGED <<tables, nextId>>
           ELSE /\ order' = [order EXCEPT ![r] = row]
                /\ Goto(r, "lock")
                /\ UNCHANGED <<tables, nextId, cmd, balance, tx, held, answer>>
-----------------------------------------------------------------------------
(* The transaction. *)

LoadBalance(a) ==
    [available |-> balances[a].available, locked |-> balances[a].locked,
     version |-> balances[a].version, events |-> <<>>]

\* The balance row is locked; the domain calls left this balance and order.
Locked(r, b, o) ==
    /\ balance' = [balance EXCEPT ![r] = b]
    /\ order' = [order EXCEPT ![r] = o]
    /\ held' = [held EXCEPT ![r] = @ \cup {BalanceRow(AccountOf(o))}]
    /\ Goto(r, "saveBalance")
    /\ UNCHANGED <<tables, nextId, cmd, tx, answer>>

\* SELECT ... FOR UPDATE waits for the row; then DeductAndLock and Accept.
LockAndDeduct(r) ==
    /\ pc[r] = "lock"
    /\ IsPlace(r)
    /\ LET a == AccountOf(order[r])
           amount == RequiredAmount(order[r])
       IN  IF a \notin Accounts THEN Abort(r)
           ELSE /\ Free(r, BalanceRow(a))
                /\ IF CanDeductAndLock(LoadBalance(a), amount) /\ CanAccept(order[r])
                   THEN Locked(r, DeductAndLock(LoadBalance(a), amount, r), Accept(order[r]))
                   ELSE Abort(r)

\* The same lock for a cancellation; then Cancel, on the order read before the
\* transaction, and Unlock of the amount computed from that read.
LockAndUnlock(r) ==
    /\ pc[r] = "lock"
    /\ ~IsPlace(r)
    /\ LET a == AccountOf(order[r])
           amount == RemainingAmount(order[r])
       IN  IF a \notin Accounts THEN Abort(r)
           ELSE /\ Free(r, BalanceRow(a))
                /\ IF CanCancel(order[r]) /\ CanUnlock(LoadBalance(a), amount)
                   THEN Locked(r, Unlock(LoadBalance(a), amount, cmd[r].order), Cancel(order[r]))
                   ELSE Abort(r)

\* InsertEvent for every event of an aggregate, in order.
OutboxRows(aggregate, events) ==
    {[id |-> nextId + i - 1, aggregate |-> aggregate, event |-> events[i]] :
        i \in 1..Len(events)}

\* The new balance row, and what goes on with it in memory.
StageBalance(r) ==
    LET a == AccountOf(order[r])
        b == balance[r]
    IN  /\ tx' = [tx EXCEPT
              ![r].balance = [available |-> Column(b.available), locked |-> Column(b.locked),
                              version |-> balances[a].version + 1],
              ![r].events = @ \cup OutboxRows(a, b.events)]
        /\ nextId' = nextId + Len(b.events)
        /\ balance' = [balance EXCEPT ![r] = ClearBalanceEvents(@)]
        /\ Goto(r, IF IsPlace(r) THEN "insertOrder" ELSE "updateOrder")

\* Mutation: the outbox rows are inserted outside the transaction.
SaveBalanceEventsOutside(r) ==
    /\ pc[r] = "saveBalance"
    /\ StageBalance(r)
    /\ outbox' = outbox \cup OutboxRows(AccountOf(order[r]), balance[r].events)
    /\ UNCHANGED <<balances, orders, keys, cmd, order, held, answer>>

\* UPDATE balances ... WHERE version = ?, then the outbox inserts.
SaveBalance(r) ==
    /\ pc[r] = "saveBalance"
    /\ IF balances[AccountOf(order[r])].version # balance[r].version THEN Abort(r)
       ELSE StageBalance(r) /\ UNCHANGED <<tables, cmd, order, held, answer>>

\* INSERT orders and its outbox rows; the ENUM columns refuse other values.
InsertOrder(r) ==
    /\ pc[r] = "insertOrder"
    /\ IF order[r].side \notin Sides \/ order[r].type \notin OrderTypes THEN Abort(r)
       ELSE /\ tx' = [tx EXCEPT
                  ![r].order = ClearEvents(order[r]),
                  ![r].events = @ \cup OutboxRows(OrderId(r), order[r].events)]
            /\ nextId' = nextId + Len(order[r].events)
            /\ order' = [order EXCEPT ![r] = ClearEvents(@)]
            /\ held' = [held EXCEPT ![r] = @ \cup {OrderRow(OrderId(r))}]
            /\ Goto(r, IF cmd[r].key = NoKey THEN "commit" ELSE "saveKey")
            /\ UNCHANGED <<tables, cmd, balance, answer>>

StageOrder(r) ==
    /\ tx' = [tx EXCEPT
          ![r].order = [ClearEvents(order[r]) EXCEPT !.version = orders[OrderId(r)].version + 1],
          ![r].events = @ \cup OutboxRows(OrderId(r), order[r].events)]
    /\ nextId' = nextId + Len(order[r].events)
    /\ order' = [order EXCEPT ![r] = ClearEvents(@)]
    /\ held' = [held EXCEPT ![r] = @ \cup {OrderRow(OrderId(r))}]
    /\ Goto(r, "commit")
    /\ UNCHANGED <<tables, cmd, balance, answer>>

\* Mutation: UPDATE orders without the version condition.
UpdateOrderUnversioned(r) ==
    /\ pc[r] = "updateOrder"
    /\ Free(r, OrderRow(OrderId(r)))
    /\ StageOrder(r)

\* UPDATE orders ... WHERE version = ?: no row matches a stale version.
UpdateOrder(r) ==
    /\ pc[r] = "updateOrder"
    /\ Free(r, OrderRow(OrderId(r)))
    /\ IF orders[OrderId(r)].version # order[r].version THEN Abort(r) ELSE StageOrder(r)

StageKey(r, row) ==
    /\ tx' = [tx EXCEPT ![r].key = row]
    /\ held' = [held EXCEPT ![r] = @ \cup {KeyRow(cmd[r].key)}]
    /\ Goto(r, "commit")
    /\ UNCHANGED <<tables, nextId, cmd, local, answer>>

\* Mutation: an upsert instead of an insert.
SaveKeyUpsert(r) ==
    /\ pc[r] = "saveKey"
    /\ Free(r, KeyRow(cmd[r].key))
    /\ StageKey(r, [order |-> OrderId(r), live |-> TRUE])

\* Mutation: the response is serialised before there is a result.
SaveKeyWithoutResult(r) ==
    /\ pc[r] = "saveKey"
    /\ Free(r, KeyRow(cmd[r].key))
    /\ IF keys[cmd[r].key] # Absent THEN Abort(r)
       ELSE StageKey(r, [order |-> Absent, live |-> TRUE])

\* INSERT idempotency_keys waits for an uncommitted row with the same key;
\* the primary key refuses a second row, an expired one included.
SaveKey(r) ==
    /\ pc[r] = "saveKey"
    /\ Free(r, KeyRow(cmd[r].key))
    /\ IF keys[cmd[r].key] # Absent THEN Abort(r)
       ELSE StageKey(r, [order |-> OrderId(r), live |-> TRUE])

\* The writes of a transaction reach the tables together.
Apply(r) ==
    /\ balances' = [balances EXCEPT ![AccountOf(order[r])] = tx[r].balance]
    /\ orders' = [orders EXCEPT ![OrderId(r)] = tx[r].order]
    /\ keys' = IF tx[r].key = Absent THEN keys
               ELSE [keys EXCEPT ![cmd[r].key] = tx[r].key]
    /\ outbox' = outbox \cup tx[r].events
    /\ UNCHANGED nextId

Commit(r) ==
    /\ pc[r] = "commit"
    /\ Apply(r)
    /\ Respond(r, Success(OrderId(r), order[r].status))

\* The commit happened but its acknowledgement is lost, or the process dies
\* before it answers: the client sees an error.
CommitUnacknowledged(r) ==
    /\ pc[r] = "commit"
    /\ Apply(r)
    /\ Respond(r, Failure)
-----------------------------------------------------------------------------
(* The environment. *)

\* Mutation: RunInTx drops the error of Commit.
FailIgnoringCommitError(r) ==
    /\ pc[r] = "commit"
    /\ Respond(r, Success(OrderId(r), order[r].status))
    /\ UNCHANGED <<tables, nextId>>

\* A statement fails: connection lost, lock wait timeout, deadlock victim,
\* cancelled request context, panic, or a crash of the process.
Fail(r) ==
    /\ pc[r] \notin {"idle", "done"}
    /\ Abort(r)

\* expires_at passes, 24 hours after the key was saved.  The row stays.
ExpireKey(k) ==
    /\ keys[k] # Absent
    /\ keys[k].live
    /\ keys' = [keys EXCEPT ![k].live = FALSE]
    /\ UNCHANGED <<balances, orders, outbox, nextId, pc, cmd, local, tx, held, answer>>

\* Every request has been answered.
Terminating == (\A r \in Requests : pc[r] = "done") /\ UNCHANGED vars
-----------------------------------------------------------------------------
Serve(r) ==
    \/ CheckHit(r) \/ CheckMiss(r) \/ CreateOrder(r) \/ FindOrder(r)
    \/ LockAndDeduct(r) \/ LockAndUnlock(r) \/ SaveBalance(r) \/ InsertOrder(r)
    \/ UpdateOrder(r) \/ SaveKey(r) \/ Commit(r)

Next ==
    \/ \E r \in Requests :
          Receive(r) \/ Serve(r) \/ CommitUnacknowledged(r) \/ Fail(r)
    \/ \E k \in Keys : ExpireKey(k)
    \/ Terminating

Spec == Init /\ [][Next]_vars

\* A goroutine that can run does run; InnoDB hands a released lock to a waiter.
\* Nothing is assumed of clients, failures or the clock.
Fairness == \A r \in Requests : WF_vars(Serve(r))
FairSpec == Spec /\ Fairness
=============================================================================
