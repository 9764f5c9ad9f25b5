------------------------- MODULE OrderServiceProofs -------------------------
(***************************************************************************)
(* Proofs about OrderService, for any set of requests, accounts, funds,    *)
(* keys and orders asked for.  First its types; then what its row locks    *)
(* buy: the balance of a request is the committed one until it ends, and   *)
(* an idempotency key stands for at most one order; then what becomes of   *)
(* the orders: a row is cancelled at most once although cancellations read *)
(* it without a lock, and what a client was told stays true.               *)
(***************************************************************************)
EXTENDS OrderServiceProperties, TLAPS

TypeInv == TypeOK /\ ControlOK

\* A step of r is invisible in what the other requests have in hand.
OthersUnchanged(r) ==
    \A s \in Requests \ {r} :
        /\ pc'[s] = pc[s]
        /\ cmd'[s] = cmd[s]
        /\ order'[s] = order[s]
        /\ balance'[s] = balance[s]
        /\ tx'[s] = tx[s]
        /\ held'[s] = held[s]

-----------------------------------------------------------------------------
(* Facts about the operators that the actions are built from. *)

\* A place command gives a well-formed order.
LEMMA NewOrderType ==
    ASSUME NEW c \in PlaceCommands
    PROVE  NewOrder(c) \in OrderRecords
<1>1. c.user \in Users /\ c.pair \in Pairs /\ c.side \in AskedSides /\ c.type \in AskedTypes
  BY DEF Users, Pairs, AskedSides, AskedTypes
<1>2. <<>> \in Seq(OrderEventRecords)
  OBVIOUS
<1> QED
  BY <1>1, <1>2, CommandsAssumption DEF NewOrder, OrderRecords, OrderStatuses

\* The kind of a command tells which set it comes from.
LEMMA CommandKinds ==
    ASSUME NEW c \in Commands
    PROVE  /\ c.kind = "place" => c \in PlaceCommands
           /\ c.kind # "place" => c \in CancelCommands /\ c.order \in Requests
BY CommandsAssumption DEF Commands, CancelCommands

\* Accept, Cancel and ClearEvents keep an order well-formed.
LEMMA OrderMethodsType ==
    ASSUME NEW o \in OrderRecords
    PROVE  /\ Accept(o) \in OrderRecords
           /\ Cancel(o) \in OrderRecords
           /\ ClearEvents(o) \in OrderRecords
           /\ AccountOf(Accept(o)) = AccountOf(o)
           /\ AccountOf(Cancel(o)) = AccountOf(o)
           /\ AccountOf(ClearEvents(o)) = AccountOf(o)
           /\ RequiredAmount(o) \in Int
           /\ RemainingAmount(o) \in Int
<1>1. Append(o.events, OrderPlacedEvent) \in Seq(OrderEventRecords)
  BY DEF OrderRecords, OrderEventRecords, OrderPlacedEvent
<1>2. Append(o.events, OrderCancelledEvent) \in Seq(OrderEventRecords)
  BY DEF OrderRecords, OrderEventRecords, OrderCancelledEvent
<1>3. Accept(o) \in OrderRecords
  BY <1>1 DEF Accept, OrderRecords, OrderStatuses
<1>4. Cancel(o) \in OrderRecords
  BY <1>2 DEF Cancel, OrderRecords, OrderStatuses
<1>5. ClearEvents(o) \in OrderRecords
  <2>1. <<>> \in Seq(OrderEventRecords)
    OBVIOUS
  <2> QED
    BY <2>1 DEF ClearEvents, OrderRecords
<1>6. /\ AccountOf(Accept(o)) = AccountOf(o)
      /\ AccountOf(Cancel(o)) = AccountOf(o)
      /\ AccountOf(ClearEvents(o)) = AccountOf(o)
  BY DEF AccountOf, LockedCurrency, Accept, Cancel, ClearEvents, OrderRecords
<1>7. RequiredAmount(o) \in Int /\ RemainingAmount(o) \in Int
  BY ScaleAssumption
  DEF RequiredAmount, RemainingAmount, RemainingQty, AmountOf, OrderRecords
<1> QED
  BY <1>3, <1>4, <1>5, <1>6, <1>7

\* DeductAndLock, Unlock and ClearBalanceEvents keep a balance well-formed.
LEMMA BalanceMethodsType ==
    ASSUME NEW b \in BalanceRecords, NEW amount \in Int, NEW ref \in Requests
    PROVE  /\ DeductAndLock(b, amount, ref) \in BalanceRecords
           /\ Unlock(b, amount, ref) \in BalanceRecords
           /\ ClearBalanceEvents(b) \in BalanceRecords
<1>1. DeductAndLock(b, amount, ref) \in BalanceRecords
  <2> DEFINE e == [type |-> "BalanceDeducted", ref |-> ref, amount |-> amount,
                   availableAfter |-> b.available - amount, lockedAfter |-> b.locked + amount]
  <2>1. e \in BalanceEventRecords
    BY DEF BalanceRecords, BalanceEventRecords
  <2>2. Append(b.events, e) \in Seq(BalanceEventRecords)
    BY <2>1 DEF BalanceRecords
  <2>3. DeductAndLock(b, amount, ref) =
          [b EXCEPT !.available = b.available - amount, !.locked = b.locked + amount,
                    !.events = Append(b.events, e)]
    BY DEF DeductAndLock, BalanceDeductedEvent, BalanceEvent, BalanceRecords
  <2>4. b.available - amount \in Int /\ b.locked + amount \in Int
    BY DEF BalanceRecords
  <2> HIDE DEF e
  <2> QED
    BY <2>2, <2>3, <2>4 DEF BalanceRecords
<1>2. Unlock(b, amount, ref) \in BalanceRecords
  <2> DEFINE e == [type |-> "BalanceRestored", ref |-> ref, amount |-> amount,
                   availableAfter |-> b.available + amount, lockedAfter |-> b.locked - amount]
  <2>1. e \in BalanceEventRecords
    BY DEF BalanceRecords, BalanceEventRecords
  <2>2. Append(b.events, e) \in Seq(BalanceEventRecords)
    BY <2>1 DEF BalanceRecords
  <2>3. Unlock(b, amount, ref) =
          [b EXCEPT !.available = b.available + amount, !.locked = b.locked - amount,
                    !.events = Append(b.events, e)]
    BY DEF Unlock, BalanceRestoredEvent, BalanceEvent, BalanceRecords
  <2>4. b.available + amount \in Int /\ b.locked - amount \in Int
    BY DEF BalanceRecords
  <2> HIDE DEF e
  <2> QED
    BY <2>2, <2>3, <2>4 DEF BalanceRecords
<1>3. ClearBalanceEvents(b) \in BalanceRecords
  <2>1. <<>> \in Seq(BalanceEventRecords)
    OBVIOUS
  <2> QED
    BY <2>1 DEF ClearBalanceEvents, BalanceRecords
<1> QED
  BY <1>1, <1>2, <1>3

\* A column holds an integer.
LEMMA ColumnType ==
    ASSUME NEW x \in Int
    PROVE  Column(x) \in Int
BY ScaleAssumption DEF Column

\* The outbox rows of an aggregate's events are well-formed.
LEMMA OutboxRowsType ==
    ASSUME nextId \in Nat,
           NEW a \in Accounts \cup Requests,
           NEW events \in Seq(OrderEventRecords) \cup Seq(BalanceEventRecords)
    PROVE  /\ OutboxRows(a, events) \in SUBSET OutboxRecords
           /\ nextId + Len(events) \in Nat
<1>1. \A i \in 1..Len(events) : events[i] \in OrderEventRecords \cup BalanceEventRecords
  OBVIOUS
<1>2. \A i \in 1..Len(events) : nextId + i - 1 \in Nat
  OBVIOUS
<1> QED
  BY <1>1, <1>2 DEF OutboxRows, OutboxRecords
-----------------------------------------------------------------------------
(* Type correctness: one lemma per action. *)

\* A balance row loaded under its lock is a well-formed aggregate.
LEMMA LoadBalanceType ==
    ASSUME TypeInv, NEW a \in Accounts
    PROVE  LoadBalance(a) \in BalanceRecords
<1>1. balances[a] \in BalanceRows
  BY DEF TypeInv, TypeOK, TablesOK
<1>2. <<>> \in Seq(BalanceEventRecords)
  OBVIOUS
<1> QED
  BY <1>1, <1>2 DEF LoadBalance, BalanceRows, BalanceRecords

\* What a request has in hand depends on its own state only, so a step of
\* another request leaves it alone.
LEMMA OthersKeepWhatTheyHave ==
    ASSUME TypeInv, NEW r \in Requests, TypeOK', InHand(r)', OthersUnchanged(r)
    PROVE  TypeInv'
<1>1. ASSUME NEW s \in Requests PROVE InHand(s)'
  <2>1. CASE s = r
    BY <2>1
  <2>2. CASE s # r
    <3>1. InHand(s)
      BY DEF TypeInv, ControlOK
    <3> QED
      BY <2>2, <3>1 DEF InHand, IsPlace, OthersUnchanged
  <2> QED
    BY <2>1, <2>2
<1> QED
  BY <1>1 DEF TypeInv, ControlOK

\* Whatever the response, a request that ends leaves well-typed tables so.
LEMMA RespondType ==
    ASSUME TypeInv, NEW r \in Requests, NEW response \in Answers, pc[r] # "idle",
           Respond(r, response), TablesOK'
    PROVE  TypeInv'
<1> USE DEF Respond, Goto
<1>1. NoWrites \in WriteSets
  BY DEF NoWrites, WriteSets
<1>2. RequestsOK'
  <2>1. "done" \in Statements
    BY DEF Statements
  <2> QED
    BY <1>1, <2>1 DEF RequestsOK, TypeInv, TypeOK
<1>3. InHand(r)'
  BY DEF InHand, TypeInv, TypeOK, RequestsOK, ControlOK, InTransaction
<1>4. OthersUnchanged(r)
  BY DEF TypeInv, TypeOK, RequestsOK, OthersUnchanged
<1> QED
  BY <1>2, <1>3, <1>4, OthersKeepWhatTheyHave DEF TypeOK

LEMMA AbortType ==
    ASSUME TypeInv, NEW r \in Requests, pc[r] # "idle", Abort(r)
    PROVE  TypeInv'
<1>1. Failure \in Answers
  BY DEF Answers
<1>2. TablesOK'
  BY DEF Abort, tables, TypeInv, TypeOK, TablesOK
<1> QED
  BY <1>1, <1>2, RespondType DEF Abort

LEMMA ReceiveType ==
    ASSUME TypeInv, NEW r \in Requests, Receive(r)
    PROVE  TypeInv'
<1>1. PICK c \in Commands :
         /\ cmd' = [cmd EXCEPT ![r] = c]
         /\ Goto(r, CASE c.kind = "cancel" -> "find"
                      [] c.kind = "place" /\ c.key # NoKey -> "check"
                      [] OTHER -> "create")
  BY DEF Receive
<1>2. /\ c.kind \in {"place", "cancel"}
      /\ c.kind = "place" => c.key \in Keys \cup {NoKey}
  BY CommandsAssumption DEF Commands, CancelCommands
<1>3. \/ c.kind = "cancel" /\ pc' = [pc EXCEPT ![r] = "find"]
      \/ c.kind = "place" /\ c.key \in Keys /\ pc' = [pc EXCEPT ![r] = "check"]
      \/ c.kind = "place" /\ pc' = [pc EXCEPT ![r] = "create"]
  BY <1>1, <1>2 DEF Goto
<1>4. UNCHANGED <<tables, nextId, local, tx, held, answer>>
  BY DEF Receive
<1> USE DEF TypeInv, TypeOK, RequestsOK
<1>5. TypeOK'
  BY <1>1, <1>3, <1>4 DEF TablesOK, tables, local, Statements
<1>6. InHand(r)'
  BY <1>1, <1>3 DEF InHand, IsPlace, InTransaction
<1>7. OthersUnchanged(r)
  BY <1>1, <1>3, <1>4 DEF local, OthersUnchanged
<1> QED
  BY <1>5, <1>6, <1>7, OthersKeepWhatTheyHave

LEMMA CheckHitType ==
    ASSUME TypeInv, NEW r \in Requests, CheckHit(r)
    PROVE  TypeInv'
<1> DEFINE row == keys[cmd[r].key]
<1>1. row \in KeyRows
  BY DEF CheckHit, TypeInv, TypeOK, TablesOK, ControlOK, InHand
<1>2. Success(row.order, "ACCEPTED") \in Answers
  BY <1>1 DEF Success, Answers, KeyRows, OrderStatuses
<1>3. TablesOK'
  BY DEF CheckHit, tables, TypeInv, TypeOK, TablesOK
<1> QED
  BY <1>2, <1>3, RespondType DEF CheckHit

LEMMA CheckMissType ==
    ASSUME TypeInv, NEW r \in Requests, CheckMiss(r)
    PROVE  TypeInv'
<1> USE DEF CheckMiss, Goto, TypeInv, TypeOK, RequestsOK
<1>1. TypeOK'
  BY DEF TablesOK, tables, local, Statements
<1>2. InHand(r)'
  BY DEF InHand, IsPlace, ControlOK, InTransaction
<1> QED
  BY <1>1, <1>2, OthersKeepWhatTheyHave DEF local, OthersUnchanged

LEMMA CreateOrderType ==
    ASSUME TypeInv, NEW r \in Requests, CreateOrder(r)
    PROVE  TypeInv'
<1>1. CASE ~CanCreate(cmd[r])
  BY <1>1, AbortType DEF CreateOrder
<1>2. CASE CanCreate(cmd[r])
  <2>1. cmd[r] \in PlaceCommands
    BY CommandKinds DEF CreateOrder, TypeInv, ControlOK, InHand, IsPlace
  <2>2. NewOrder(cmd[r]) \in OrderRecords
    BY <2>1, NewOrderType
  <2>3. /\ order' = [order EXCEPT ![r] = NewOrder(cmd[r])]
        /\ pc' = [pc EXCEPT ![r] = "lock"]
        /\ UNCHANGED <<tables, nextId, cmd, balance, tx, held, answer>>
        /\ pc[r] = "create"
    BY <1>2 DEF CreateOrder, Goto
  <2> USE DEF TypeInv, TypeOK, RequestsOK
  <2>4. TypeOK'
    BY <2>2, <2>3 DEF TablesOK, tables, Statements
  <2>5. InHand(r)'
    BY <2>2, <2>3 DEF InHand, ControlOK, InTransaction
  <2> QED
    BY <2>3, <2>4, <2>5, OthersKeepWhatTheyHave DEF OthersUnchanged
<1> QED
  BY <1>1, <1>2

LEMMA FindOrderType ==
    ASSUME TypeInv, NEW r \in Requests, FindOrder(r)
    PROVE  TypeInv'
<1> DEFINE row == FindByID(cmd[r].order)
<1>1. cmd[r].order \in Requests
  BY CommandKinds DEF FindOrder, TypeInv, ControlOK, InHand, IsPlace
<1>2. row \in OrderRecords \cup {Absent}
  BY <1>1 DEF FindByID, TypeInv, TypeOK, TablesOK
<1>3. pc[r] = "find"
  BY DEF FindOrder
<1>4. CASE row = Absent
  BY <1>3, <1>4, AbortType DEF FindOrder
<1>5. CASE row # Absent /\ row.status = "CANCELLED"
  <2>1. Success(cmd[r].order, row.status) \in Answers
    BY <1>1, <1>5 DEF Success, Answers, OrderStatuses
  <2>2. TablesOK'
    BY <1>5 DEF FindOrder, tables, TypeInv, TypeOK, TablesOK
  <2> QED
    BY <1>3, <1>5, <2>1, <2>2, RespondType DEF FindOrder
<1>6. CASE row # Absent /\ row.status # "CANCELLED"
  <2>1. row \in OrderRecords
    BY <1>2, <1>6
  <2>2. /\ order' = [order EXCEPT ![r] = row]
        /\ pc' = [pc EXCEPT ![r] = "lock"]
        /\ UNCHANGED <<tables, nextId, cmd, balance, tx, held, answer>>
    BY <1>6 DEF FindOrder, Goto
  <2> HIDE DEF row
  <2> USE DEF TypeInv, TypeOK, RequestsOK
  <2>3. TypeOK'
    BY <2>1, <2>2 DEF TablesOK, tables, Statements
  <2>4. InHand(r)'
    BY <1>3, <2>1, <2>2 DEF InHand, ControlOK, InTransaction
  <2> QED
    BY <2>2, <2>3, <2>4, OthersKeepWhatTheyHave DEF OthersUnchanged
<1> QED
  BY <1>4, <1>5, <1>6

\* The two statements that lock a balance leave the same things in hand.
LEMMA LockedType ==
    ASSUME TypeInv, NEW r \in Requests, pc[r] = "lock",
           NEW b \in BalanceRecords, NEW o \in OrderRecords,
           AccountOf(o) \in Accounts, Locked(r, b, o), UNCHANGED nextId
    PROVE  TypeInv'
<1>1. BalanceRow(AccountOf(o)) \in Rows
  BY DEF Rows
<1> HIDE DEF BalanceRow
<1>2. /\ balance' = [balance EXCEPT ![r] = b]
      /\ order' = [order EXCEPT ![r] = o]
      /\ held' = [held EXCEPT ![r] = @ \cup {BalanceRow(AccountOf(o))}]
      /\ pc' = [pc EXCEPT ![r] = "saveBalance"]
      /\ UNCHANGED <<tables, nextId, cmd, tx, answer>>
  BY DEF Locked, Goto
<1> USE DEF TypeInv, TypeOK, RequestsOK
<1>3. TypeOK'
  BY <1>1, <1>2 DEF TablesOK, tables, Statements
<1>4. InHand(r)'
  <2>1. pc'[r] = "saveBalance" /\ order'[r] = o /\ balance'[r] = b /\ cmd'[r] \in Commands
    BY <1>2 DEF ControlOK, InHand
  <2> QED
    BY <2>1 DEF InHand, InTransaction
<1>5. OthersUnchanged(r)
  BY <1>2 DEF OthersUnchanged
<1> QED
  BY <1>3, <1>4, <1>5, OthersKeepWhatTheyHave

LEMMA LockAndDeductType ==
    ASSUME TypeInv, NEW r \in Requests, LockAndDeduct(r)
    PROVE  TypeInv'
<1> DEFINE a == AccountOf(order[r])
           amount == RequiredAmount(order[r])
<1>1. pc[r] = "lock" /\ order[r] \in OrderRecords
  BY DEF LockAndDeduct, TypeInv, ControlOK, InHand
<1>2. CASE Abort(r)
  BY <1>1, <1>2, AbortType
<1>3. CASE a \in Accounts /\ Locked(r, DeductAndLock(LoadBalance(a), amount, r), Accept(order[r]))
  <2>1. amount \in Int /\ Accept(order[r]) \in OrderRecords /\ AccountOf(Accept(order[r])) = a
    BY <1>1, OrderMethodsType
  <2>2. DeductAndLock(LoadBalance(a), amount, r) \in BalanceRecords
    BY <1>3, <2>1, LoadBalanceType, BalanceMethodsType
  <2> QED
    BY <1>1, <1>3, <2>1, <2>2, LockedType DEF Locked
<1> QED
  BY <1>2, <1>3 DEF LockAndDeduct

LEMMA LockAndUnlockType ==
    ASSUME TypeInv, NEW r \in Requests, LockAndUnlock(r)
    PROVE  TypeInv'
<1> DEFINE a == AccountOf(order[r])
           amount == RemainingAmount(order[r])
<1>1. pc[r] = "lock" /\ order[r] \in OrderRecords
  BY DEF LockAndUnlock, TypeInv, ControlOK, InHand
<1>2. CASE Abort(r)
  BY <1>1, <1>2, AbortType
<1>3. CASE a \in Accounts
             /\ Locked(r, Unlock(LoadBalance(a), amount, cmd[r].order), Cancel(order[r]))
  <2>1. amount \in Int /\ Cancel(order[r]) \in OrderRecords /\ AccountOf(Cancel(order[r])) = a
    BY <1>1, OrderMethodsType
  <2>2. cmd[r].order \in Requests
    BY CommandKinds DEF LockAndUnlock, TypeInv, ControlOK, InHand, IsPlace
  <2>3. Unlock(LoadBalance(a), amount, cmd[r].order) \in BalanceRecords
    BY <1>3, <2>1, <2>2, LoadBalanceType, BalanceMethodsType
  <2> QED
    BY <1>1, <1>3, <2>1, <2>3, LockedType DEF Locked
<1> QED
  BY <1>2, <1>3 DEF LockAndUnlock

LEMMA SaveBalanceType ==
    ASSUME TypeInv, NEW r \in Requests, SaveBalance(r)
    PROVE  TypeInv'
<1> DEFINE a == AccountOf(order[r])
           b == balance[r]
           row == [available |-> Column(b.available), locked |-> Column(b.locked),
                   version |-> balances[a].version + 1]
<1>1. pc[r] = "saveBalance"
  BY DEF SaveBalance
<1>2. a \in Accounts /\ b \in BalanceRecords
  BY <1>1 DEF TypeInv, ControlOK, InHand, InTransaction
<1>3. CASE Abort(r)
  BY <1>1, <1>3, AbortType
<1>4. CASE StageBalance(r) /\ UNCHANGED <<tables, cmd, order, held, answer>>
  <2>1. row \in BalanceRows
    <3>1. b.available \in Int /\ b.locked \in Int
      BY <1>2 DEF BalanceRecords
    <3>2. balances[a].version + 1 \in Nat
      BY <1>2 DEF TypeInv, TypeOK, TablesOK, BalanceRows
    <3> QED
      BY <3>1, <3>2, ColumnType DEF BalanceRows
  <2>2. OutboxRows(a, b.events) \in SUBSET OutboxRecords /\ nextId + Len(b.events) \in Nat
    <3>1. b.events \in Seq(BalanceEventRecords)
      BY <1>2 DEF BalanceRecords
    <3>2. nextId \in Nat
      BY DEF TypeInv, TypeOK, TablesOK
    <3> QED
      BY <1>2, <3>1, <3>2, OutboxRowsType
  <2>3. ClearBalanceEvents(b) \in BalanceRecords
    BY <1>2, BalanceMethodsType
  <2>4. PICK label \in {"insertOrder", "updateOrder"} :
           /\ pc' = [pc EXCEPT ![r] = label]
           /\ label = "insertOrder" => IsPlace(r)
           /\ label = "updateOrder" => ~IsPlace(r)
    BY <1>4 DEF StageBalance, Goto
  <2>5. /\ tx' = [tx EXCEPT ![r].balance = row, ![r].events = @ \cup OutboxRows(a, b.events)]
        /\ nextId' = nextId + Len(b.events)
        /\ balance' = [balance EXCEPT ![r] = ClearBalanceEvents(b)]
        /\ UNCHANGED <<tables, cmd, order, held, answer>>
    BY <1>2, <1>4 DEF StageBalance, TypeInv, TypeOK, RequestsOK
  <2> HIDE DEF row
  <2> USE DEF TypeInv, TypeOK, RequestsOK
  <2>6. tx' \in [Requests -> WriteSets] /\ tx'[r].balance = row
    <3> DEFINE w == [tx[r] EXCEPT !.balance = row, !.events = @ \cup OutboxRows(a, b.events)]
    <3>1. w \in WriteSets /\ w.balance = row
      BY <2>1, <2>2 DEF WriteSets
    <3>2. tx' = [tx EXCEPT ![r] = w]
      BY <2>5
    <3> HIDE DEF w
    <3> QED
      BY <3>1, <3>2
  <2>7. TypeOK'
    BY <2>2, <2>3, <2>4, <2>5, <2>6 DEF TablesOK, tables, Statements
  <2>8. InHand(r)'
    BY <1>1, <1>2, <2>1, <2>3, <2>4, <2>5, <2>6 DEF InHand, ControlOK, InTransaction, IsPlace
  <2>9. OthersUnchanged(r)
    BY <2>4, <2>5 DEF OthersUnchanged
  <2> QED
    BY <2>7, <2>8, <2>9, OthersKeepWhatTheyHave
<1> QED
  BY <1>3, <1>4 DEF SaveBalance

\* The two statements that write an order stage the same things; the row is
\* the order without its events, with the version the statement gives it.
LEMMA OrderStagedType ==
    ASSUME TypeInv, NEW r \in Requests, pc[r] \in {"insertOrder", "updateOrder"},
           NEW row \in OrderRecords, NEW label \in {"commit", "saveKey"},
           label = "saveKey" => IsPlace(r) /\ cmd[r].key \in Keys,
           tx' = [tx EXCEPT ![r].order = row,
                            ![r].events = @ \cup OutboxRows(OrderId(r), order[r].events)],
           nextId' = nextId + Len(order[r].events),
           order' = [order EXCEPT ![r] = ClearEvents(@)],
           held' = [held EXCEPT ![r] = @ \cup {OrderRow(OrderId(r))}],
           Goto(r, label),
           UNCHANGED <<tables, cmd, balance, answer>>
    PROVE  TypeInv'
<1>1. /\ order[r] \in OrderRecords
      /\ balance[r] \in BalanceRecords
      /\ AccountOf(order[r]) \in Accounts
      /\ tx[r].balance \in BalanceRows
      /\ cmd[r] \in Commands
  BY DEF TypeInv, ControlOK, InHand, InTransaction
<1>2. OrderId(r) \in Requests
  BY <1>1, CommandKinds DEF OrderId, IsPlace
<1>3. OrderRow(OrderId(r)) \in Rows
  BY <1>2 DEF Rows
<1>4. ClearEvents(order[r]) \in OrderRecords
      /\ AccountOf(ClearEvents(order[r])) = AccountOf(order[r])
  BY <1>1, OrderMethodsType
<1>5. /\ OutboxRows(OrderId(r), order[r].events) \in SUBSET OutboxRecords
      /\ nextId + Len(order[r].events) \in Nat
  <2>1. order[r].events \in Seq(OrderEventRecords)
    BY <1>1 DEF OrderRecords
  <2>2. nextId \in Nat
    BY DEF TypeInv, TypeOK, TablesOK
  <2> QED
    BY <1>2, <2>1, <2>2, OutboxRowsType
<1>6. pc' = [pc EXCEPT ![r] = label]
  BY DEF Goto
<1> HIDE DEF OrderRow
<1> USE DEF TypeInv, TypeOK, RequestsOK
<1>7. order' = [order EXCEPT ![r] = ClearEvents(order[r])]
  OBVIOUS
<1>8. /\ tx' \in [Requests -> WriteSets]
      /\ tx'[r].order = row
      /\ tx'[r].balance = tx[r].balance
  <2> DEFINE w == [tx[r] EXCEPT !.order = row,
                                !.events = @ \cup OutboxRows(OrderId(r), order[r].events)]
  <2>1. w \in WriteSets /\ w.order = row /\ w.balance = tx[r].balance
    BY <1>5 DEF WriteSets
  <2>2. tx' = [tx EXCEPT ![r] = w]
    OBVIOUS
  <2> HIDE DEF w
  <2> QED
    BY <2>1, <2>2
<1>9. TypeOK'
  BY <1>3, <1>4, <1>5, <1>6, <1>7, <1>8 DEF TablesOK, tables, Statements
<1>10. InHand(r)'
  BY <1>1, <1>4, <1>6, <1>7, <1>8 DEF InHand, ControlOK, InTransaction, IsPlace
<1>11. OthersUnchanged(r)
  BY <1>6, <1>7 DEF OthersUnchanged
<1> QED
  BY <1>9, <1>10, <1>11, OthersKeepWhatTheyHave

LEMMA InsertOrderType ==
    ASSUME TypeInv, NEW r \in Requests, InsertOrder(r)
    PROVE  TypeInv'
<1>1. pc[r] = "insertOrder"
  BY DEF InsertOrder
<1>2. CASE Abort(r)
  BY <1>1, <1>2, AbortType
<1>3. CASE order[r].side \in Sides /\ order[r].type \in OrderTypes
  <2>1. ClearEvents(order[r]) \in OrderRecords
    BY <1>1, OrderMethodsType DEF TypeInv, ControlOK, InHand, InTransaction
  <2>2. cmd[r] \in Commands /\ IsPlace(r)
    BY <1>1 DEF TypeInv, ControlOK, InHand
  <2>3. cmd[r] \in PlaceCommands
    BY <2>2, CommandKinds DEF IsPlace
  <2>4. cmd[r].key # NoKey => cmd[r].key \in Keys
    BY <2>3, CommandsAssumption
  <2>5. PICK label \in {"commit", "saveKey"} :
           /\ label = "saveKey" => IsPlace(r) /\ cmd[r].key \in Keys
           /\ Goto(r, label)
    BY <1>3, <2>2, <2>4 DEF InsertOrder
  <2> QED
    BY <1>1, <1>3, <2>1, <2>5, OrderStagedType DEF InsertOrder
<1> QED
  BY <1>2, <1>3 DEF InsertOrder

LEMMA UpdateOrderType ==
    ASSUME TypeInv, NEW r \in Requests, UpdateOrder(r)
    PROVE  TypeInv'
<1> DEFINE row == [ClearEvents(order[r]) EXCEPT !.version = orders[OrderId(r)].version + 1]
<1>1. pc[r] = "updateOrder"
  BY DEF UpdateOrder
<1>2. CASE Abort(r)
  BY <1>1, <1>2, AbortType
<1>3. CASE orders[OrderId(r)].version = order[r].version /\ StageOrder(r)
  <2>1. ClearEvents(order[r]) \in OrderRecords /\ order[r] \in OrderRecords
    BY <1>1, OrderMethodsType DEF TypeInv, ControlOK, InHand, InTransaction
  <2>2. orders[OrderId(r)].version + 1 \in Nat
    BY <1>3, <2>1 DEF OrderRecords
  <2>3. row \in OrderRecords
    BY <2>1, <2>2 DEF OrderRecords
  <2> QED
    BY <1>1, <1>3, <2>3, OrderStagedType DEF StageOrder
<1> QED
  BY <1>2, <1>3 DEF UpdateOrder

LEMMA SaveKeyType ==
    ASSUME TypeInv, NEW r \in Requests, SaveKey(r)
    PROVE  TypeInv'
<1> DEFINE row == [order |-> OrderId(r), live |-> TRUE]
<1>1. pc[r] = "saveKey"
  BY DEF SaveKey
<1>2. CASE Abort(r)
  BY <1>1, <1>2, AbortType
<1>3. CASE StageKey(r, row)
  <2>1. /\ order[r] \in OrderRecords
        /\ balance[r] \in BalanceRecords
        /\ AccountOf(order[r]) \in Accounts
        /\ tx[r].balance \in BalanceRows
        /\ tx[r].order \in OrderRecords
        /\ cmd[r] \in Commands
        /\ cmd[r].key \in Keys
    BY <1>1 DEF TypeInv, ControlOK, InHand, InTransaction
  <2>2. row \in KeyRows
    BY <2>1, CommandKinds DEF OrderId, IsPlace, KeyRows
  <2>3. KeyRow(cmd[r].key) \in Rows
    BY <2>1 DEF Rows
  <2> HIDE DEF row, KeyRow
  <2>4. /\ tx' = [tx EXCEPT ![r].key = row]
        /\ held' = [held EXCEPT ![r] = @ \cup {KeyRow(cmd[r].key)}]
        /\ pc' = [pc EXCEPT ![r] = "commit"]
        /\ UNCHANGED <<tables, nextId, cmd, local, answer>>
    BY <1>3 DEF StageKey, Goto
  <2> USE DEF TypeInv, TypeOK, RequestsOK
  <2>5. /\ tx' \in [Requests -> WriteSets]
        /\ tx'[r].order = tx[r].order
        /\ tx'[r].balance = tx[r].balance
    BY <2>2, <2>4 DEF WriteSets
  <2>6. TypeOK'
    BY <2>3, <2>4, <2>5 DEF TablesOK, tables, local, Statements
  <2>7. InHand(r)'
    BY <2>1, <2>4, <2>5 DEF InHand, InTransaction, IsPlace, local
  <2>8. OthersUnchanged(r)
    BY <2>4 DEF local, OthersUnchanged
  <2> QED
    BY <2>6, <2>7, <2>8, OthersKeepWhatTheyHave
<1> QED
  BY <1>2, <1>3 DEF SaveKey

\* The writes of a transaction are rows of the tables they go to.
LEMMA ApplyType ==
    ASSUME TypeInv, NEW r \in Requests, pc[r] = "commit", Apply(r)
    PROVE  TablesOK'
<1>1. /\ AccountOf(order[r]) \in Accounts
      /\ tx[r].balance \in BalanceRows
      /\ tx[r].order \in OrderRecords
      /\ cmd[r] \in Commands
  BY DEF TypeInv, ControlOK, InHand, InTransaction
<1>2. OrderId(r) \in Requests
  BY <1>1, CommandKinds DEF OrderId, IsPlace
<1>3. tx[r].key \in KeyRows \cup {Absent} /\ tx[r].events \in SUBSET OutboxRecords
  BY DEF TypeInv, TypeOK, RequestsOK, WriteSets
<1> QED
  BY <1>1, <1>2, <1>3 DEF Apply, TypeInv, TypeOK, TablesOK

LEMMA CommitType ==
    ASSUME TypeInv, NEW r \in Requests, Commit(r) \/ CommitUnacknowledged(r)
    PROVE  TypeInv'
<1>1. pc[r] = "commit" /\ Apply(r)
  BY DEF Commit, CommitUnacknowledged
<1>2. TablesOK'
  BY <1>1, ApplyType
<1>3. order[r] \in OrderRecords /\ cmd[r] \in Commands
  BY <1>1 DEF TypeInv, ControlOK, InHand, InTransaction
<1>4. OrderId(r) \in Requests /\ order[r].status \in OrderStatuses
  BY <1>3, CommandKinds DEF OrderId, IsPlace, OrderRecords
<1>5. Success(OrderId(r), order[r].status) \in Answers /\ Failure \in Answers
  BY <1>4 DEF Success, Answers
<1> QED
  BY <1>1, <1>2, <1>5, RespondType DEF Commit, CommitUnacknowledged

LEMMA ExpireKeyType ==
    ASSUME TypeInv, NEW k \in Keys, ExpireKey(k)
    PROVE  TypeInv'
<1>1. TablesOK'
  <2>1. keys[k] \in KeyRows
    BY DEF ExpireKey, TypeInv, TypeOK, TablesOK
  <2>2. [keys[k] EXCEPT !.live = FALSE] \in KeyRows
    BY <2>1 DEF KeyRows
  <2> QED
    BY <2>2 DEF ExpireKey, TypeInv, TypeOK, TablesOK
<1>2. RequestsOK'
  BY DEF ExpireKey, local, TypeInv, TypeOK, RequestsOK
<1>3. ControlOK'
  BY DEF ExpireKey, local, TypeInv, ControlOK, InHand, IsPlace
<1> QED
  BY <1>1, <1>2, <1>3 DEF TypeInv, TypeOK

-----------------------------------------------------------------------------
\* The initial state is well-typed.
LEMMA InitType == Init => TypeInv
<1> SUFFICES ASSUME Init PROVE TypeInv
  OBVIOUS
<1>1. TablesOK
  BY FundsAssumption DEF Init, TablesOK, BalanceRows
<1>2. NoWrites \in WriteSets
  BY DEF NoWrites, WriteSets
<1>3. RequestsOK
  BY <1>2 DEF Init, RequestsOK, Statements
<1>4. ControlOK
  BY DEF Init, ControlOK, InHand, InTransaction
<1> QED
  BY <1>1, <1>3, <1>4 DEF TypeInv, TypeOK

\* Every step keeps it so.
LEMMA NextType == TypeInv /\ [Next]_vars => TypeInv'
<1> SUFFICES ASSUME TypeInv, [Next]_vars PROVE TypeInv'
  OBVIOUS
<1>1. ASSUME NEW r \in Requests, Receive(r) PROVE TypeInv'
  BY <1>1, ReceiveType
<1>2. ASSUME NEW r \in Requests, Serve(r) PROVE TypeInv'
  BY <1>2, CheckHitType, CheckMissType, CreateOrderType, FindOrderType, LockAndDeductType,
     LockAndUnlockType, SaveBalanceType, InsertOrderType, UpdateOrderType, SaveKeyType,
     CommitType DEF Serve
<1>3. ASSUME NEW r \in Requests, CommitUnacknowledged(r) PROVE TypeInv'
  BY <1>3, CommitType
<1>4. ASSUME NEW r \in Requests, Fail(r) PROVE TypeInv'
  BY <1>4, AbortType DEF Fail
<1>5. ASSUME NEW k \in Keys, ExpireKey(k) PROVE TypeInv'
  BY <1>5, ExpireKeyType
<1>6. CASE UNCHANGED vars
  BY <1>6 DEF vars, TypeInv, TypeOK, TablesOK, RequestsOK, ControlOK, InHand, IsPlace
<1> QED
  BY <1>1, <1>2, <1>3, <1>4, <1>5, <1>6 DEF Next, Terminating

\* Every variable keeps its type, and every request has in hand what the
\* statement it executes next reads.
THEOREM TypeCorrect == Spec => []TypeOK
<1>1. TypeInv => TypeOK
  BY DEF TypeInv
<1> QED
  BY <1>1, InitType, NextType, PTL DEF Spec

-----------------------------------------------------------------------------
(* Steps of the requests. *)

\* Steps of a request.
StepOf(r) == Receive(r) \/ Serve(r) \/ CommitUnacknowledged(r) \/ Fail(r)

LEMMA StepIsLocal ==
    ASSUME TypeInv, NEW r \in Requests, StepOf(r)
    PROVE  OthersUnchanged(r)
<1> USE DEF TypeInv, TypeOK, RequestsOK, OthersUnchanged, Goto, local
<1>1. ASSUME NEW response, Respond(r, response) PROVE OthersUnchanged(r)
  BY <1>1 DEF Respond
<1>2. ASSUME Abort(r) PROVE OthersUnchanged(r)
  BY <1>1, <1>2 DEF Abort
<1> HIDE DEF OthersUnchanged
<1>3. CASE Receive(r)
  <2>1. PICK c, label :
           /\ cmd' = [cmd EXCEPT ![r] = c]
           /\ pc' = [pc EXCEPT ![r] = label]
    BY <1>3 DEF Receive
  <2> QED
    BY <1>3, <2>1 DEF Receive, OthersUnchanged
<1>4. CASE CheckHit(r)
  BY <1>1, <1>4 DEF CheckHit
<1>5. CASE CheckMiss(r)
  BY <1>5 DEF CheckMiss, OthersUnchanged
<1>6. CASE CreateOrder(r)
  BY <1>2, <1>6 DEF CreateOrder, OthersUnchanged
<1>7. CASE FindOrder(r)
  BY <1>1, <1>2, <1>7 DEF FindOrder, OthersUnchanged
<1>8. ASSUME NEW b, NEW o, Locked(r, b, o) PROVE OthersUnchanged(r)
  BY <1>8 DEF Locked, OthersUnchanged
<1>9. CASE LockAndDeduct(r) \/ LockAndUnlock(r)
  BY <1>2, <1>8, <1>9 DEF LockAndDeduct, LockAndUnlock
<1>10. CASE SaveBalance(r)
  BY <1>2, <1>10 DEF SaveBalance, StageBalance, OthersUnchanged
<1>11. CASE InsertOrder(r)
  BY <1>2, <1>11 DEF InsertOrder, OthersUnchanged
<1>12. CASE UpdateOrder(r)
  BY <1>2, <1>12 DEF UpdateOrder, StageOrder, OthersUnchanged
<1>13. CASE SaveKey(r)
  BY <1>2, <1>13 DEF SaveKey, StageKey, OthersUnchanged
<1>14. CASE Commit(r) \/ CommitUnacknowledged(r)
  BY <1>1, <1>14 DEF Commit, CommitUnacknowledged
<1>15. CASE Fail(r)
  BY <1>2, <1>15 DEF Fail
<1> QED
  BY <1>3, <1>4, <1>5, <1>6, <1>7, <1>9, <1>10, <1>11, <1>12, <1>13, <1>14, <1>15
  DEF StepOf, Serve

-----------------------------------------------------------------------------
(* The lock of a balance row. *)

\* A request that is in no transaction afterwards disturbs nobody's balance, if
\* it leaves alone the accounts that others work on.
LEMMA LeavingKeepsLocks ==
    ASSUME LocksOK, NEW r \in Requests, pc'[r] \notin InTransaction, OthersUnchanged(r),
           \A s \in Requests \ {r} : pc[s] \in InTransaction =>
               balances'[AccountOf(order[s])] = balances[AccountOf(order[s])]
    PROVE  LocksOK'
<1>1. \A s \in Requests : pc'[s] \in InTransaction =>
         /\ s # r
         /\ pc[s] \in InTransaction
         /\ AccountOf(order[s])' = AccountOf(order[s])
         /\ balance'[s] = balance[s]
         /\ held'[s] = held[s]
         /\ balances'[AccountOf(order[s])] = balances[AccountOf(order[s])]
  BY DEF OthersUnchanged, AccountOf
<1>2. BalanceLocksHeld'
  BY <1>1 DEF LocksOK, BalanceLocksHeld, BalanceRow
<1>3. BalanceLocksExclude'
  BY <1>1 DEF LocksOK, BalanceLocksExclude
<1>4. HeldBalanceIsCurrent'
  BY <1>1 DEF LocksOK, HeldBalanceIsCurrent
<1> QED
  BY <1>2, <1>3, <1>4 DEF LocksOK

\* A request that stays in its transaction keeps its account, its locks and
\* the balance it works on.
LEMMA StayingKeepsLocks ==
    ASSUME LocksOK, NEW r \in Requests, pc[r] \in InTransaction, OthersUnchanged(r),
           AccountOf(order[r])' = AccountOf(order[r]),
           held[r] \subseteq held'[r],
           balance'[r].version = balance[r].version,
           balance'[r].available = balance[r].available,
           balance'[r].locked = balance[r].locked,
           UNCHANGED balances
    PROVE  LocksOK'
<1>1. \A s \in Requests : pc'[s] \in InTransaction =>
         /\ pc[s] \in InTransaction
         /\ AccountOf(order[s])' = AccountOf(order[s])
         /\ balance'[s].version = balance[s].version
         /\ balance'[s].available = balance[s].available
         /\ balance'[s].locked = balance[s].locked
         /\ held[s] \subseteq held'[s]
  <2>1. \A s \in Requests \ {r} :
           /\ pc'[s] = pc[s]
           /\ AccountOf(order[s])' = AccountOf(order[s])
           /\ balance'[s] = balance[s]
           /\ held'[s] = held[s]
    BY DEF OthersUnchanged, AccountOf
  <2> QED
    BY <2>1
<1>2. BalanceLocksHeld'
  BY <1>1 DEF LocksOK, BalanceLocksHeld, BalanceRow
<1>3. BalanceLocksExclude'
  BY <1>1 DEF LocksOK, BalanceLocksExclude
<1>4. HeldBalanceIsCurrent'
  BY <1>1 DEF LocksOK, HeldBalanceIsCurrent
<1> QED
  BY <1>2, <1>3, <1>4 DEF LocksOK

\* A request that locks a free row works on an account nobody else works on.
LEMMA LockingKeepsLocks ==
    ASSUME TypeInv, LocksOK, NEW r \in Requests, OthersUnchanged(r),
           NEW o \in OrderRecords, NEW b \in BalanceRecords,
           AccountOf(o) \in Accounts,
           Free(r, BalanceRow(AccountOf(o))), Locked(r, b, o),
           b.version = balances[AccountOf(o)].version,
           b.available + b.locked =
               balances[AccountOf(o)].available + balances[AccountOf(o)].locked
    PROVE  LocksOK'
<1>1. /\ order'[r] = o
      /\ balance'[r] = b
      /\ BalanceRow(AccountOf(o)) \in held'[r]
      /\ UNCHANGED balances
  BY DEF Locked, TypeInv, TypeOK, RequestsOK, tables
<1>2. \A s \in Requests \ {r} :
         /\ pc'[s] = pc[s]
         /\ AccountOf(order[s])' = AccountOf(order[s])
         /\ balance'[s] = balance[s]
         /\ held'[s] = held[s]
  BY DEF OthersUnchanged, AccountOf
<1>3. \A s \in Requests \ {r} : pc[s] \in InTransaction => AccountOf(order[s]) # AccountOf(o)
  BY DEF Free, LocksOK, BalanceLocksHeld
<1>4. AccountOf(order[r])' = AccountOf(o)
  BY <1>1 DEF AccountOf
<1>5. BalanceLocksHeld'
  BY <1>1, <1>2, <1>4 DEF LocksOK, BalanceLocksHeld, BalanceRow
<1>6. BalanceLocksExclude'
  BY <1>2, <1>3, <1>4 DEF LocksOK, BalanceLocksExclude
<1>7. HeldBalanceIsCurrent'
  BY <1>1, <1>2, <1>4 DEF LocksOK, HeldBalanceIsCurrent
<1> QED
  BY <1>5, <1>6, <1>7 DEF LocksOK

\* Neither domain operation changes the version or creates money.
LEMMA BalanceMethodsPreserve ==
    ASSUME NEW b \in BalanceRecords, NEW amount \in Int, NEW ref
    PROVE  /\ DeductAndLock(b, amount, ref).version = b.version
           /\ DeductAndLock(b, amount, ref).available + DeductAndLock(b, amount, ref).locked
                = b.available + b.locked
           /\ Unlock(b, amount, ref).version = b.version
           /\ Unlock(b, amount, ref).available + Unlock(b, amount, ref).locked
                = b.available + b.locked
           /\ ClearBalanceEvents(b).version = b.version
           /\ ClearBalanceEvents(b).available = b.available
           /\ ClearBalanceEvents(b).locked = b.locked
<1>1. b.available \in Int /\ b.locked \in Int
  BY DEF BalanceRecords
<1>2. /\ DeductAndLock(b, amount, ref).version = b.version
      /\ DeductAndLock(b, amount, ref).available = b.available - amount
      /\ DeductAndLock(b, amount, ref).locked = b.locked + amount
  BY DEF DeductAndLock, BalanceRecords
<1>3. /\ Unlock(b, amount, ref).version = b.version
      /\ Unlock(b, amount, ref).available = b.available + amount
      /\ Unlock(b, amount, ref).locked = b.locked - amount
  BY DEF Unlock, BalanceRecords
<1>4. /\ ClearBalanceEvents(b).version = b.version
      /\ ClearBalanceEvents(b).available = b.available
      /\ ClearBalanceEvents(b).locked = b.locked
  BY DEF ClearBalanceEvents, BalanceRecords
<1> QED
  BY <1>1, <1>2, <1>3, <1>4

LEMMA StepKeepsLocks ==
    ASSUME TypeInv, LocksOK, NEW r \in Requests, StepOf(r)
    PROVE  LocksOK'
<1>1. OthersUnchanged(r)
  BY StepIsLocal
<1> USE DEF Goto
<1>2. ASSUME pc'[r] \notin InTransaction, UNCHANGED balances PROVE LocksOK'
  BY <1>1, <1>2, LeavingKeepsLocks
<1>3. ASSUME NEW response, Respond(r, response), UNCHANGED balances PROVE LocksOK'
  BY <1>2, <1>3 DEF Respond, InTransaction, TypeInv, TypeOK, RequestsOK
<1>4. ASSUME Abort(r) PROVE LocksOK'
  BY <1>3, <1>4 DEF Abort, tables
<1>5. CASE Receive(r)
  <2>1. PICK label \in {"find", "check", "create"} : pc' = [pc EXCEPT ![r] = label]
    <3>1. PICK c \in Commands :
             pc' = [pc EXCEPT ![r] = CASE c.kind = "cancel" -> "find"
                                       [] c.kind = "place" /\ c.key # NoKey -> "check"
                                       [] OTHER -> "create"]
      BY <1>5 DEF Receive
    <3> QED
      BY <3>1
  <2> QED
    BY <1>2, <1>5, <2>1 DEF Receive, tables, InTransaction, TypeInv, TypeOK, RequestsOK
<1>6. CASE CheckHit(r)
  BY <1>3, <1>6 DEF CheckHit, tables
<1>7. CASE CheckMiss(r)
  BY <1>2, <1>7 DEF CheckMiss, tables, InTransaction, TypeInv, TypeOK, RequestsOK
<1>8. CASE CreateOrder(r)
  BY <1>2, <1>4, <1>8 DEF CreateOrder, tables, InTransaction, TypeInv, TypeOK, RequestsOK
<1>9. CASE FindOrder(r)
  BY <1>2, <1>3, <1>4, <1>9
  DEF FindOrder, tables, InTransaction, TypeInv, TypeOK, RequestsOK
<1>10. CASE LockAndDeduct(r) /\ ~Abort(r)
  <2> DEFINE a == AccountOf(order[r])
             amount == RequiredAmount(order[r])
             b == DeductAndLock(LoadBalance(a), amount, r)
  <2>1. pc[r] = "lock" /\ order[r] \in OrderRecords
    BY <1>10 DEF LockAndDeduct, TypeInv, ControlOK, InHand
  <2>2. a \in Accounts /\ Free(r, BalanceRow(a)) /\ Locked(r, b, Accept(order[r]))
    BY <1>10 DEF LockAndDeduct
  <2>3. amount \in Int /\ Accept(order[r]) \in OrderRecords /\ AccountOf(Accept(order[r])) = a
    BY <2>1, OrderMethodsType
  <2>4. LoadBalance(a) \in BalanceRecords
    BY <2>2, LoadBalanceType
  <2>5. /\ b \in BalanceRecords
        /\ b.version = LoadBalance(a).version
        /\ b.available + b.locked = LoadBalance(a).available + LoadBalance(a).locked
    BY <2>3, <2>4, BalanceMethodsType, BalanceMethodsPreserve
  <2>6. /\ b.version = balances[a].version
        /\ b.available + b.locked = balances[a].available + balances[a].locked
    BY <2>5 DEF LoadBalance
  <2> HIDE DEF b
  <2> QED
    BY <1>1, <2>2, <2>3, <2>5, <2>6, LockingKeepsLocks
<1>11. CASE LockAndUnlock(r) /\ ~Abort(r)
  <2> DEFINE a == AccountOf(order[r])
             amount == RemainingAmount(order[r])
             b == Unlock(LoadBalance(a), amount, cmd[r].order)
  <2>1. pc[r] = "lock" /\ order[r] \in OrderRecords
    BY <1>11 DEF LockAndUnlock, TypeInv, ControlOK, InHand
  <2>2. a \in Accounts /\ Free(r, BalanceRow(a)) /\ Locked(r, b, Cancel(order[r]))
    BY <1>11 DEF LockAndUnlock
  <2>3. amount \in Int /\ Cancel(order[r]) \in OrderRecords /\ AccountOf(Cancel(order[r])) = a
    BY <2>1, OrderMethodsType
  <2>4. LoadBalance(a) \in BalanceRecords
    BY <2>2, LoadBalanceType
  <2>5. cmd[r].order \in Requests
    BY <1>11, <2>1, CommandKinds DEF LockAndUnlock, TypeInv, ControlOK, InHand, IsPlace
  <2>6. /\ b \in BalanceRecords
        /\ b.version = LoadBalance(a).version
        /\ b.available + b.locked = LoadBalance(a).available + LoadBalance(a).locked
    BY <2>3, <2>4, <2>5, BalanceMethodsType, BalanceMethodsPreserve
  <2>7. /\ b.version = balances[a].version
        /\ b.available + b.locked = balances[a].available + balances[a].locked
    BY <2>6 DEF LoadBalance
  <2> HIDE DEF b
  <2> QED
    BY <1>1, <2>2, <2>3, <2>6, <2>7, LockingKeepsLocks
<1>12. ASSUME pc[r] \in InTransaction
       PROVE  /\ order[r] \in OrderRecords
              /\ balance[r] \in BalanceRecords
              /\ AccountOf(ClearEvents(order[r])) = AccountOf(order[r])
  <2>1. order[r] \in OrderRecords /\ balance[r] \in BalanceRecords
    BY <1>12 DEF TypeInv, ControlOK, InHand
  <2> QED
    BY <2>1, OrderMethodsType
<1>13. CASE SaveBalance(r) /\ ~Abort(r)
  <2>1. pc[r] \in InTransaction /\ balance'[r] = ClearBalanceEvents(balance[r])
    BY <1>13 DEF SaveBalance, StageBalance, InTransaction, TypeInv, TypeOK, RequestsOK
  <2>2. UNCHANGED <<balances, order, held>>
    BY <1>13 DEF SaveBalance, tables
  <2>3. AccountOf(order[r])' = AccountOf(order[r])
    BY <2>2
  <2> QED
    BY <1>1, <1>12, <2>1, <2>2, <2>3, 0 \in Int, BalanceMethodsPreserve, StayingKeepsLocks
<1>14. ASSUME pc[r] \in InTransaction, UNCHANGED <<balances, balance>>,
              order' = [order EXCEPT ![r] = ClearEvents(@)],
              held' = [held EXCEPT ![r] = @ \cup {OrderRow(OrderId(r))}]
       PROVE  LocksOK'
  <2>1. order'[r] = ClearEvents(order[r]) /\ held[r] \subseteq held'[r]
    BY <1>14 DEF TypeInv, TypeOK, RequestsOK
  <2>2. AccountOf(order[r])' = AccountOf(order[r])
    BY <1>12, <1>14, <2>1 DEF AccountOf
  <2> QED
    BY <1>1, <1>14, <2>1, <2>2, StayingKeepsLocks
<1>15. CASE InsertOrder(r) /\ ~Abort(r)
  BY <1>14, <1>15 DEF InsertOrder, tables, InTransaction
<1>16. CASE UpdateOrder(r) /\ ~Abort(r)
  BY <1>14, <1>16 DEF UpdateOrder, StageOrder, tables, InTransaction
<1>17. CASE SaveKey(r) /\ ~Abort(r)
  <2>1. pc[r] \in InTransaction /\ UNCHANGED <<balances, order, balance>>
    BY <1>17 DEF SaveKey, StageKey, tables, local, InTransaction
  <2>2. held[r] \subseteq held'[r]
    BY <1>17 DEF SaveKey, StageKey, TypeInv, TypeOK, RequestsOK
  <2>3. AccountOf(order[r])' = AccountOf(order[r])
    BY <2>1
  <2> QED
    BY <1>1, <2>1, <2>2, <2>3, StayingKeepsLocks
<1>18. CASE Commit(r) \/ CommitUnacknowledged(r)
  <2>1. pc[r] = "commit" /\ Apply(r)
    BY <1>18 DEF Commit, CommitUnacknowledged
  <2>2. pc'[r] = "done"
    BY <1>18 DEF Commit, CommitUnacknowledged, Respond, TypeInv, TypeOK, RequestsOK
  <2>3. \A s \in Requests \ {r} : pc[s] \in InTransaction =>
           balances'[AccountOf(order[s])] = balances[AccountOf(order[s])]
    <3>1. \A s \in Requests \ {r} : pc[s] \in InTransaction =>
             AccountOf(order[s]) # AccountOf(order[r]) /\ AccountOf(order[s]) \in Accounts
      BY <2>1 DEF LocksOK, BalanceLocksExclude, InTransaction, TypeInv, ControlOK, InHand
    <3> QED
      BY <2>1, <3>1 DEF Apply, TypeInv, TypeOK, TablesOK
  <2> QED
    BY <1>1, <2>2, <2>3, LeavingKeepsLocks DEF InTransaction
<1>19. CASE Fail(r)
  BY <1>4, <1>19 DEF Fail
<1> QED
  BY <1>4, <1>5, <1>6, <1>7, <1>8, <1>9, <1>10, <1>11, <1>13, <1>15, <1>16, <1>17, <1>18, <1>19
  DEF StepOf, Serve

LEMMA InitLocks == Init => LocksOK
BY DEF Init, LocksOK, BalanceLocksHeld, BalanceLocksExclude, HeldBalanceIsCurrent, InTransaction

LEMMA NextLocks == TypeInv /\ LocksOK /\ [Next]_vars => LocksOK'
<1> SUFFICES ASSUME TypeInv, LocksOK, [Next]_vars PROVE LocksOK'
  OBVIOUS
<1>1. ASSUME NEW r \in Requests, StepOf(r) PROVE LocksOK'
  BY <1>1, StepKeepsLocks
<1>2. ASSUME UNCHANGED <<balances, pc, order, balance, held>> PROVE LocksOK'
  BY <1>2 DEF LocksOK, BalanceLocksHeld, BalanceLocksExclude, HeldBalanceIsCurrent
<1>3. ASSUME NEW k \in Keys, ExpireKey(k) PROVE LocksOK'
  BY <1>2, <1>3 DEF ExpireKey, local
<1>4. CASE UNCHANGED vars
  BY <1>2, <1>4 DEF vars
<1> QED
  BY <1>1, <1>3, <1>4 DEF Next, StepOf, Terminating

\* SELECT ... FOR UPDATE is enough to keep the balance of a request current
\* until it ends: the version check of UPDATE balances never refuses a row.
THEOREM HeldBalanceStaysCurrent == Spec => []HeldBalanceIsCurrent
<1>1. LocksOK => HeldBalanceIsCurrent
  BY DEF LocksOK
<1> QED
  BY <1>1, InitType, NextType, InitLocks, NextLocks, PTL DEF Spec
-----------------------------------------------------------------------------
(* An idempotency key stands for at most one order.  KeysOK is inductive:  *)
(* the row of idempotency_keys, its lock, the staged writes and the orders *)
(* table agree at every statement.                                         *)

\* No row is neither an order nor a key.
LEMMA AbsentIsNoRow == Absent \notin OrderRecords /\ Absent \notin KeyRows
<1>1. DOMAIN Absent = {"absent"}
  BY DEF Absent
<1>2. \A o \in OrderRecords : DOMAIN o # {"absent"}
  BY DEF OrderRecords
<1>3. \A k \in KeyRows : DOMAIN k # {"absent"}
  BY DEF KeyRows
<1> QED
  BY <1>1, <1>2, <1>3

\* A step of r that leaves the two tables alone and stages no key.
LEMMA QuietStepsKeepKeys ==
    ASSUME TypeInv, KeysOK, NEW r \in Requests, OthersUnchanged(r), pc[r] # "done",
           UNCHANGED <<orders, keys>>,
           tx'[r].key = Absent,
           pc'[r] = "commit" /\ IsPlace(r)' => cmd'[r].key = NoKey,
           pc'[r] \in {"lock"} \cup InTransaction /\ ~IsPlace(r)' =>
               orders[cmd'[r].order] # Absent
    PROVE  KeysOK'
<1>1. \A s \in Requests \ {r} :
         /\ pc'[s] = pc[s]
         /\ cmd'[s] = cmd[s]
         /\ tx'[s] = tx[s]
         /\ held'[s] = held[s]
         /\ IsPlace(s)' = IsPlace(s)
  BY DEF OthersUnchanged, IsPlace
<1>2. orders[r] = Absent
  BY DEF KeysOK, OrdersComeFromPlacing
<1>3. StagedKeysAreNew'
  BY <1>1 DEF KeysOK, StagedKeysAreNew, KeyRow
<1>4. StagedKeysExclude'
  BY <1>1 DEF KeysOK, StagedKeysExclude
<1>5. NewOrdersStageTheirKey'
  BY <1>1 DEF KeysOK, NewOrdersStageTheirKey
<1>6. OrdersComeFromPlacing'
  BY <1>1, <1>2 DEF KeysOK, OrdersComeFromPlacing
<1>7. \A k \in Keys : OrdersWithKey(k)' = OrdersWithKey(k)
  BY <1>1, <1>2 DEF OrdersWithKey
<1>8. OneOrderPerKey'
  BY <1>7 DEF KeysOK, OneOrderPerKey
<1> QED
  BY <1>3, <1>4, <1>5, <1>6, <1>8 DEF KeysOK

LEMMA SavingAKeyKeepsKeys ==
    ASSUME TypeInv, KeysOK, NEW r \in Requests, SaveKey(r), ~Abort(r)
    PROVE  KeysOK'
<1> DEFINE row == [order |-> OrderId(r), live |-> TRUE]
           k0 == cmd[r].key
<1>1. /\ pc[r] = "saveKey"
      /\ Free(r, KeyRow(k0))
      /\ keys[k0] = Absent
      /\ StageKey(r, row)
  BY DEF SaveKey
<1>2. IsPlace(r) /\ cmd[r] \in Commands /\ k0 \in Keys
  BY <1>1 DEF TypeInv, ControlOK, InHand
<1>3. row.order = r /\ row # Absent
  <2>1. row \in KeyRows
    BY <1>2, CommandKinds DEF OrderId, KeyRows
  <2> QED
    BY <1>2, <2>1, AbsentIsNoRow DEF OrderId
<1>4. /\ pc'[r] = "commit"
      /\ tx'[r].key = row
      /\ KeyRow(k0) \in held'[r]
      /\ UNCHANGED <<orders, keys, cmd>>
  BY <1>1 DEF StageKey, Goto, tables, TypeInv, TypeOK, RequestsOK, WriteSets
<1>5. OthersUnchanged(r)
  BY StepIsLocal DEF StepOf, Serve
<1>6. \A s \in Requests \ {r} :
         /\ pc'[s] = pc[s]
         /\ tx'[s] = tx[s]
         /\ held'[s] = held[s]
  BY <1>5 DEF OthersUnchanged
<1>7. \A s \in Requests : IsPlace(s)' = IsPlace(s)
  BY <1>4 DEF IsPlace
<1>8. \A s \in Requests \ {r} : tx[s].key # Absent => cmd[s].key # k0
  BY <1>1 DEF Free, KeysOK, StagedKeysAreNew
<1> HIDE DEF row, k0
<1>9. StagedKeysAreNew'
  <2>1. \A s \in Requests \ {r} : tx'[s].key # Absent =>
           /\ pc'[s] = "commit"
           /\ IsPlace(s)'
           /\ tx'[s].key.order = s
           /\ KeyRow(cmd'[s].key) \in held'[s]
           /\ keys'[cmd'[s].key] = Absent
    BY <1>4, <1>6, <1>7 DEF KeysOK, StagedKeysAreNew
  <2>2. /\ pc'[r] = "commit"
        /\ IsPlace(r)'
        /\ tx'[r].key.order = r
        /\ KeyRow(cmd'[r].key) \in held'[r]
        /\ keys'[cmd'[r].key] = Absent
    BY <1>1, <1>2, <1>3, <1>4, <1>7 DEF k0
  <2> QED
    BY <2>1, <2>2 DEF StagedKeysAreNew, KeyRow
<1>10. StagedKeysExclude'
  BY <1>4, <1>6, <1>8 DEF KeysOK, StagedKeysExclude, k0
<1>11. NewOrdersStageTheirKey'
  <2>1. cmd'[r].key # NoKey /\ tx'[r].key # Absent
    BY <1>2, <1>3, <1>4, NoKeyAssumption DEF k0
  <2> QED
    BY <1>4, <1>6, <1>7, <2>1 DEF KeysOK, NewOrdersStageTheirKey
<1>12. OrdersComeFromPlacing'
  BY <1>1, <1>2, <1>4, <1>6, <1>7 DEF KeysOK, OrdersComeFromPlacing
<1>13. OneOrderPerKey'
  BY <1>4 DEF KeysOK, OneOrderPerKey, OrdersWithKey
<1> QED
  BY <1>9, <1>10, <1>11, <1>12, <1>13 DEF KeysOK

LEMMA CommittingKeepsKeys ==
    ASSUME TypeInv, KeysOK, NEW r \in Requests, Commit(r) \/ CommitUnacknowledged(r)
    PROVE  KeysOK'
<1> DEFINE q == OrderId(r)
           k0 == cmd[r].key
<1>1. pc[r] = "commit" /\ Apply(r)
  BY DEF Commit, CommitUnacknowledged
<1>2. PICK response : Respond(r, response)
  BY DEF Commit, CommitUnacknowledged
<1>3. /\ pc'[r] = "done"
      /\ tx'[r].key = Absent
      /\ UNCHANGED cmd
  BY <1>2 DEF Respond, Goto, NoWrites, TypeInv, TypeOK, RequestsOK
<1>4. OthersUnchanged(r)
  BY StepIsLocal DEF StepOf, Serve
<1>5. \A s \in Requests \ {r} :
         /\ pc'[s] = pc[s]
         /\ tx'[s] = tx[s]
         /\ held'[s] = held[s]
  BY <1>4 DEF OthersUnchanged
<1>6. \A s \in Requests : IsPlace(s)' = IsPlace(s)
  BY <1>3 DEF IsPlace
<1>7. tx[r].order \in OrderRecords /\ cmd[r] \in Commands
  BY <1>1 DEF TypeInv, ControlOK, InHand
<1>8. q \in Requests
  BY <1>7, CommandKinds DEF OrderId, IsPlace
<1>9. IsPlace(r) => q = r /\ orders[r] = Absent /\ (k0 \in Keys \/ k0 = NoKey)
  BY <1>1, <1>7, CommandKinds, CommandsAssumption
  DEF OrderId, IsPlace, KeysOK, OrdersComeFromPlacing
<1>10. ~IsPlace(r) => q # r /\ orders[q] # Absent /\ tx[r].key = Absent
  <2> SUFFICES ASSUME ~IsPlace(r) PROVE q # r /\ orders[q] # Absent /\ tx[r].key = Absent
    OBVIOUS
  <2>1. q = cmd[r].order /\ orders[q] # Absent /\ tx[r].key = Absent
    BY <1>1 DEF OrderId, KeysOK, OrdersComeFromPlacing, StagedKeysAreNew, InTransaction
  <2> QED
    BY <1>8, <2>1 DEF KeysOK, OrdersComeFromPlacing
\* Which orders have a row: the new order's row appears, no row disappears.
<1>11. /\ orders'[q] # Absent
       /\ \A o \in Requests \ {q} : orders'[o] = orders[o]
  <2>1. orders' = [orders EXCEPT ![q] = tx[r].order]
    BY <1>1 DEF Apply
  <2> QED
    BY <1>7, <1>8, <2>1, AbsentIsNoRow DEF TypeInv, TypeOK, TablesOK
<1>12. IF tx[r].key = Absent THEN keys' = keys
       ELSE /\ IsPlace(r)
            /\ k0 \in Keys
            /\ tx[r].key.order = r
            /\ keys[k0] = Absent
            /\ keys' = [keys EXCEPT ![k0] = tx[r].key]
  <2>1. tx[r].key # Absent => IsPlace(r) /\ tx[r].key.order = r /\ keys[k0] = Absent
    BY DEF KeysOK, StagedKeysAreNew
  <2>2. tx[r].key # Absent => k0 # NoKey
    BY <1>1, <2>1 DEF KeysOK, NewOrdersStageTheirKey
  <2> QED
    BY <1>1, <1>9, <2>1, <2>2 DEF Apply
<1> HIDE DEF q
<1>13. StagedKeysAreNew'
  <2>1. \A s \in Requests \ {r} : tx[s].key # Absent =>
           /\ keys[cmd[s].key] = Absent
           /\ cmd[s].key \in Keys
           /\ tx[r].key # Absent => cmd[s].key # k0
    <3> SUFFICES ASSUME NEW s \in Requests \ {r}, tx[s].key # Absent
                 PROVE  /\ keys[cmd[s].key] = Absent
                        /\ cmd[s].key \in Keys
                        /\ tx[r].key # Absent => cmd[s].key # k0
      OBVIOUS
    <3>1. pc[s] = "commit" /\ IsPlace(s) /\ keys[cmd[s].key] = Absent
      BY DEF KeysOK, StagedKeysAreNew
    <3>2. cmd[s].key # NoKey
      BY <3>1 DEF KeysOK, NewOrdersStageTheirKey
    <3>3. cmd[s].key \in Keys
      BY <3>1, <3>2, CommandKinds, CommandsAssumption
      DEF IsPlace, TypeInv, ControlOK, InHand
    <3> QED
      BY <3>1, <3>3 DEF KeysOK, StagedKeysExclude
  <2>2. \A s \in Requests \ {r} : tx[s].key # Absent => keys'[cmd[s].key] = keys[cmd[s].key]
    <3>1. CASE tx[r].key = Absent
      BY <1>12, <3>1
    <3>2. CASE tx[r].key # Absent
      BY <1>12, <2>1, <3>2 DEF TypeInv, TypeOK, TablesOK
    <3> QED
      BY <3>1, <3>2
  <2> QED
    BY <1>3, <1>5, <1>6, <2>1, <2>2 DEF KeysOK, StagedKeysAreNew, KeyRow
<1>14. StagedKeysExclude'
  BY <1>3, <1>5 DEF KeysOK, StagedKeysExclude
<1>15. NewOrdersStageTheirKey'
  BY <1>3, <1>5, <1>6 DEF KeysOK, NewOrdersStageTheirKey
<1>16. OrdersComeFromPlacing'
  <2>1. \A o \in Requests : orders[o] # Absent => orders'[o] # Absent
    BY <1>11
  <2>2. \A o \in Requests : orders'[o] # Absent => pc'[o] = "done" /\ IsPlace(o)'
    <3>1. \A o \in Requests \ {q} : orders'[o] # Absent => pc'[o] = "done" /\ IsPlace(o)'
      BY <1>1, <1>3, <1>5, <1>6, <1>11 DEF KeysOK, OrdersComeFromPlacing
    <3>2. CASE IsPlace(r)
      BY <1>3, <1>6, <1>9, <3>1, <3>2
    <3>3. CASE ~IsPlace(r)
      <4>1. \A o \in Requests : o = q => pc'[o] = "done" /\ IsPlace(o)'
        <5>1. pc[q] = "done" /\ IsPlace(q)
          BY <1>8, <1>10, <3>3 DEF KeysOK, OrdersComeFromPlacing
        <5> QED
          BY <1>5, <1>6, <1>8, <1>10, <3>3, <5>1
      <4> QED
        BY <3>1, <4>1
    <3> QED
      BY <3>2, <3>3
  <2>3. \A s \in Requests : pc'[s] \in {"lock"} \cup InTransaction /\ ~IsPlace(s)' =>
           orders'[cmd'[s].order] # Absent
    <3> SUFFICES ASSUME NEW s \in Requests, ~IsPlace(s)',
                        pc'[s] \in {"lock"} \cup InTransaction
                 PROVE  orders'[cmd'[s].order] # Absent
      OBVIOUS
    <3>1. s # r
      BY <1>3 DEF InTransaction
    <3>2. pc[s] \in {"lock"} \cup InTransaction /\ ~IsPlace(s)
      BY <1>5, <1>6, <3>1
    <3>3. cmd[s].order \in Requests /\ orders[cmd[s].order] # Absent
      BY <3>2, CommandKinds
      DEF KeysOK, OrdersComeFromPlacing, InTransaction, TypeInv, ControlOK, InHand, IsPlace
    <3> QED
      BY <1>3, <2>1, <3>3
  <2> QED
    BY <2>2, <2>3 DEF OrdersComeFromPlacing
<1>17. OneOrderPerKey'
  <2> SUFFICES ASSUME NEW k \in Keys
               PROVE  OrdersWithKey(k)' = IF keys'[k] = Absent THEN {} ELSE {keys'[k].order}
    BY DEF OneOrderPerKey
  <2>1. OrdersWithKey(k) = IF keys[k] = Absent THEN {} ELSE {keys[k].order}
    BY DEF KeysOK, OneOrderPerKey
  <2>2. CASE ~IsPlace(r)
    <3>1. OrdersWithKey(k)' = OrdersWithKey(k)
      BY <1>3, <1>8, <1>10, <1>11, <2>2 DEF OrdersWithKey
    <3> QED
      BY <1>10, <1>12, <2>1, <2>2, <3>1
  <2>3. CASE IsPlace(r) /\ k0 # k
    <3>1. OrdersWithKey(k)' = OrdersWithKey(k)
      BY <1>3, <1>9, <1>11, <2>3 DEF OrdersWithKey
    <3>2. keys'[k] = keys[k]
      BY <1>12, <2>3 DEF TypeInv, TypeOK, TablesOK
    <3> QED
      BY <2>1, <3>1, <3>2
  <2>4. CASE IsPlace(r) /\ k0 = k
    <3>1. tx[r].key # Absent
      BY <1>1, <2>4, NoKeyAssumption DEF KeysOK, NewOrdersStageTheirKey
    <3>2. keys'[k] = tx[r].key
      BY <1>12, <2>4, <3>1 DEF TypeInv, TypeOK, TablesOK
    <3>3. OrdersWithKey(k) = {}
      BY <1>12, <2>1, <2>4, <3>1
    <3>4. OrdersWithKey(k)' = {r}
      BY <1>3, <1>9, <1>11, <2>4, <3>3 DEF OrdersWithKey
    <3> QED
      BY <1>12, <3>1, <3>2, <3>4
  <2> QED
    BY <2>2, <2>3, <2>4
<1> QED
  BY <1>13, <1>14, <1>15, <1>16, <1>17 DEF KeysOK

LEMMA ExpiringKeepsKeys ==
    ASSUME TypeInv, KeysOK, NEW k \in Keys, ExpireKey(k)
    PROVE  KeysOK'
<1> DEFINE row == [keys[k] EXCEPT !.live = FALSE]
<1>1. keys[k] \in KeyRows
  BY DEF ExpireKey, TypeInv, TypeOK, TablesOK
<1>2. row \in KeyRows /\ row.order = keys[k].order
  BY <1>1 DEF KeyRows
<1>3. row # Absent
  BY <1>2, AbsentIsNoRow
<1>4. keys' = [keys EXCEPT ![k] = row] /\ UNCHANGED <<orders, pc, cmd, tx, held>>
  BY DEF ExpireKey, local
<1> HIDE DEF row
<1>5. \A j \in Keys \ {k} : keys'[j] = keys[j]
  BY <1>4 DEF TypeInv, TypeOK, TablesOK
<1>6. keys'[k] # Absent /\ keys'[k].order = keys[k].order /\ keys[k] # Absent
  BY <1>2, <1>3, <1>4 DEF ExpireKey, TypeInv, TypeOK, TablesOK
<1>7. StagedKeysAreNew'
  <2>1. \A s \in Requests : tx[s].key # Absent => cmd[s].key # k
    BY <1>6 DEF KeysOK, StagedKeysAreNew
  <2>2. \A s \in Requests : tx[s].key # Absent => keys'[cmd[s].key] = Absent
    BY <1>4, <2>1 DEF KeysOK, StagedKeysAreNew, TypeInv, TypeOK, TablesOK
  <2> QED
    BY <1>4, <2>2 DEF KeysOK, StagedKeysAreNew, IsPlace, KeyRow
<1>8. StagedKeysExclude' /\ NewOrdersStageTheirKey' /\ OrdersComeFromPlacing'
  BY <1>4 DEF KeysOK, StagedKeysExclude, NewOrdersStageTheirKey, OrdersComeFromPlacing, IsPlace
<1>9. OneOrderPerKey'
  BY <1>4, <1>5, <1>6 DEF KeysOK, OneOrderPerKey, OrdersWithKey
<1> QED
  BY <1>7, <1>8, <1>9 DEF KeysOK

LEMMA StepKeepsKeys ==
    ASSUME TypeInv, KeysOK, NEW r \in Requests, StepOf(r)
    PROVE  KeysOK'
<1>1. OthersUnchanged(r)
  BY StepIsLocal
<1> USE DEF Goto
\* A request stages no key before it has saved it.
<1>2. pc[r] # "commit" => tx[r].key = Absent
  BY DEF KeysOK, StagedKeysAreNew
\* What an unfinished cancellation found is still there.
<1>3. pc[r] \in {"lock"} \cup InTransaction /\ ~IsPlace(r) => orders[cmd[r].order] # Absent
  BY DEF KeysOK, OrdersComeFromPlacing
<1>4. ASSUME NEW response, Respond(r, response), UNCHANGED <<orders, keys>>, pc[r] # "done"
      PROVE  KeysOK'
  <2>1. pc'[r] = "done" /\ tx'[r].key = Absent
    BY <1>4 DEF Respond, NoWrites, TypeInv, TypeOK, RequestsOK
  <2> QED
    BY <1>1, <1>4, <2>1, QuietStepsKeepKeys DEF InTransaction
<1>5. ASSUME Abort(r), pc[r] # "done" PROVE KeysOK'
  BY <1>4, <1>5 DEF Abort, tables
\* A step that neither ends the request nor stages a key.
<1>6. ASSUME pc[r] \notin {"commit", "done"}, UNCHANGED <<orders, keys>>,
             tx'[r].key = tx[r].key,
             pc'[r] = "commit" /\ IsPlace(r)' => cmd'[r].key = NoKey,
             pc'[r] \in {"lock"} \cup InTransaction /\ ~IsPlace(r)' =>
                 orders[cmd'[r].order] # Absent
      PROVE  KeysOK'
  BY <1>1, <1>2, <1>6, QuietStepsKeepKeys
<1>7. CASE Receive(r)
  <2>1. PICK label \in {"find", "check", "create"} : pc' = [pc EXCEPT ![r] = label]
    <3>1. PICK c \in Commands :
             pc' = [pc EXCEPT ![r] = CASE c.kind = "cancel" -> "find"
                                       [] c.kind = "place" /\ c.key # NoKey -> "check"
                                       [] OTHER -> "create"]
      BY <1>7 DEF Receive
    <3> QED
      BY <3>1
  <2>2. pc[r] = "idle" /\ UNCHANGED <<orders, keys, tx>>
    BY <1>7 DEF Receive, tables
  <2>3. pc'[r] \notin {"lock"} \cup InTransaction
    BY <2>1 DEF InTransaction, TypeInv, TypeOK, RequestsOK
  <2> QED
    BY <1>6, <2>2, <2>3 DEF InTransaction
<1>8. CASE CheckHit(r)
  BY <1>4, <1>8 DEF CheckHit, tables
<1>9. CASE CheckMiss(r)
  BY <1>6, <1>9 DEF CheckMiss, tables, InTransaction, TypeInv, TypeOK, RequestsOK
<1>10. CASE CreateOrder(r) /\ ~Abort(r)
  <2>1. IsPlace(r) /\ UNCHANGED cmd
    BY <1>10 DEF CreateOrder, TypeInv, ControlOK, InHand
  <2>2. IsPlace(r)'
    BY <2>1 DEF IsPlace
  <2> QED
    BY <1>6, <1>10, <2>2 DEF CreateOrder, tables, InTransaction, TypeInv, TypeOK, RequestsOK
<1>11. CASE FindOrder(r)
  <2>1. pc[r] = "find"
    BY <1>11 DEF FindOrder
  <2>2. CASE \E response : Respond(r, response)
    BY <1>4, <1>11, <2>1, <2>2 DEF FindOrder, tables, Abort
  <2>3. CASE /\ orders[cmd[r].order] # Absent
             /\ pc' = [pc EXCEPT ![r] = "lock"]
             /\ UNCHANGED <<tables, nextId, cmd, balance, tx, held, answer>>
    BY <1>6, <2>1, <2>3 DEF tables, TypeInv, TypeOK, RequestsOK
  <2> QED
    BY <1>11, <2>2, <2>3 DEF FindOrder, FindByID, Abort
<1>12. ASSUME NEW b, NEW o, pc[r] = "lock", Locked(r, b, o) PROVE KeysOK'
  <2>1. pc'[r] = "saveBalance" /\ UNCHANGED <<orders, keys, cmd, tx>>
    BY <1>12 DEF Locked, tables, TypeInv, TypeOK, RequestsOK
  <2>2. IsPlace(r)' = IsPlace(r)
    BY <2>1 DEF IsPlace
  <2> QED
    BY <1>3, <1>6, <1>12, <2>1, <2>2
<1>13. CASE LockAndDeduct(r) \/ LockAndUnlock(r)
  BY <1>5, <1>12, <1>13 DEF LockAndDeduct, LockAndUnlock
<1>14. CASE SaveBalance(r) /\ ~Abort(r)
  <2>1. /\ pc[r] = "saveBalance"
        /\ pc'[r] \in {"insertOrder", "updateOrder"}
        /\ UNCHANGED <<orders, keys, cmd>>
        /\ tx'[r].key = tx[r].key
    BY <1>14 DEF SaveBalance, StageBalance, tables, TypeInv, TypeOK, RequestsOK, WriteSets
  <2>2. IsPlace(r)' = IsPlace(r)
    BY <2>1 DEF IsPlace
  <2> QED
    BY <1>3, <1>6, <2>1, <2>2 DEF InTransaction
<1>15. CASE InsertOrder(r) /\ ~Abort(r)
  <2>1. /\ pc[r] = "insertOrder"
        /\ pc'[r] = IF cmd[r].key = NoKey THEN "commit" ELSE "saveKey"
        /\ UNCHANGED <<orders, keys, cmd>>
        /\ tx'[r].key = tx[r].key
    BY <1>15 DEF InsertOrder, tables, TypeInv, TypeOK, RequestsOK, WriteSets
  <2>2. IsPlace(r)' = IsPlace(r)
    BY <2>1 DEF IsPlace
  <2> QED
    BY <1>3, <1>6, <2>1, <2>2 DEF InTransaction
<1>16. CASE UpdateOrder(r) /\ ~Abort(r)
  <2>1. /\ pc[r] = "updateOrder"
        /\ pc'[r] = "commit"
        /\ UNCHANGED <<orders, keys, cmd>>
        /\ tx'[r].key = tx[r].key
    BY <1>16 DEF UpdateOrder, StageOrder, tables, TypeInv, TypeOK, RequestsOK, WriteSets
  <2>2. ~IsPlace(r) /\ IsPlace(r)' = IsPlace(r)
    BY <2>1 DEF IsPlace, TypeInv, ControlOK, InHand
  <2> QED
    BY <1>3, <1>6, <2>1, <2>2 DEF InTransaction
<1>17. CASE SaveKey(r)
  BY <1>5, <1>17, SavingAKeyKeepsKeys DEF SaveKey
<1>18. CASE Commit(r) \/ CommitUnacknowledged(r)
  BY <1>18, CommittingKeepsKeys
<1>19. CASE Fail(r)
  BY <1>5, <1>19 DEF Fail
<1> QED
  BY <1>5, <1>7, <1>8, <1>9, <1>10, <1>11, <1>13, <1>14, <1>15, <1>16, <1>17, <1>18, <1>19
  DEF StepOf, Serve, CreateOrder, SaveBalance, InsertOrder, UpdateOrder

LEMMA InitKeys == Init => KeysOK
<1> SUFFICES ASSUME Init PROVE KeysOK
  OBVIOUS
<1>1. \A r \in Requests : pc[r] = "idle" /\ tx[r].key = Absent /\ orders[r] = Absent
  BY DEF Init, NoWrites
<1>2. \A k \in Keys : keys[k] = Absent /\ OrdersWithKey(k) = {}
  BY <1>1 DEF Init, OrdersWithKey
<1> QED
  BY <1>1, <1>2 DEF KeysOK, StagedKeysAreNew, StagedKeysExclude, NewOrdersStageTheirKey,
     OrdersComeFromPlacing, OneOrderPerKey, InTransaction

LEMMA NextKeys == TypeInv /\ KeysOK /\ [Next]_vars => KeysOK'
<1> SUFFICES ASSUME TypeInv, KeysOK, [Next]_vars PROVE KeysOK'
  OBVIOUS
<1>1. ASSUME NEW r \in Requests, StepOf(r) PROVE KeysOK'
  BY <1>1, StepKeepsKeys
<1>2. ASSUME NEW k \in Keys, ExpireKey(k) PROVE KeysOK'
  BY <1>2, ExpiringKeepsKeys
<1>3. CASE UNCHANGED vars
  BY <1>3 DEF vars, KeysOK, StagedKeysAreNew, StagedKeysExclude, NewOrdersStageTheirKey,
     OrdersComeFromPlacing, OneOrderPerKey, OrdersWithKey, IsPlace, KeyRow
<1> QED
  BY <1>1, <1>2, <1>3 DEF Next, StepOf, Terminating

\* However requests with the same key overlap, fail, are retried after a lost
\* acknowledgement or outlive the key's 24 hours, the key stands for no order
\* or for the one its row names.
THEOREM KeyStandsForOneOrder == Spec => []OneOrderPerKey
<1>1. KeysOK => OneOrderPerKey
  BY DEF KeysOK
<1> QED
  BY <1>1, InitType, NextType, InitKeys, NextKeys, PTL DEF Spec

-----------------------------------------------------------------------------
(* What becomes of the orders.  What a step of a request does, variable by *)
(* variable.                                                               *)

\* It is in no transaction afterwards and wrote nothing: a refusal, a failure,
\* an answer from a lookup, or a statement before the order is in memory.
Leaving(r) ==
    /\ pc'[r] \notin {"lock"} \cup InTransaction
    /\ tx'[r].events = {} \/ (pc[r] \notin InTransaction /\ tx'[r] = tx[r])
    /\ UNCHANGED <<balances, orders, keys, outbox, nextId>>

Creating(r) ==
    /\ pc'[r] = "lock"
    /\ pc[r] = "create"
    /\ IsPlace(r)
    /\ order'[r] = NewOrder(cmd[r])
    /\ UNCHANGED <<balances, orders, keys, outbox, nextId, cmd, tx>>

Reading(r) ==
    /\ pc'[r] = "lock"
    /\ pc[r] = "find"
    /\ ~IsPlace(r)
    /\ orders[cmd[r].order] # Absent
    /\ orders[cmd[r].order].status # "CANCELLED"
    /\ order'[r] = orders[cmd[r].order]
    /\ UNCHANGED <<balances, orders, keys, outbox, nextId, cmd, tx>>

Locking(r, b, o) ==
    /\ pc'[r] = "saveBalance"
    /\ pc[r] = "lock"
    /\ balance'[r] = b
    /\ order'[r] = o
    /\ UNCHANGED <<balances, orders, keys, outbox, nextId, cmd, tx>>

Deducting(r) ==
    LET b == LoadBalance(AccountOf(order[r]))
        amount == RequiredAmount(order[r])
    IN  /\ IsPlace(r)
        /\ AccountOf(order[r]) \in Accounts
        /\ CanDeductAndLock(b, amount)
        /\ CanAccept(order[r])
        /\ Locking(r, DeductAndLock(b, amount, r), Accept(order[r]))

Unlocking(r) ==
    LET b == LoadBalance(AccountOf(order[r]))
        amount == RemainingAmount(order[r])
    IN  /\ ~IsPlace(r)
        /\ AccountOf(order[r]) \in Accounts
        /\ CanUnlock(b, amount)
        /\ CanCancel(order[r])
        /\ Locking(r, Unlock(b, amount, cmd[r].order), Cancel(order[r]))

Saving(r) ==
    LET a == AccountOf(order[r])
    IN  /\ pc'[r] = IF IsPlace(r) THEN "insertOrder" ELSE "updateOrder"
        /\ pc[r] = "saveBalance"
        /\ tx'[r].order = tx[r].order
        /\ tx'[r].balance.available = Column(balance[r].available)
        /\ tx'[r].balance.locked = Column(balance[r].locked)
        /\ tx'[r].events = tx[r].events \cup OutboxRows(a, balance[r].events)
        /\ nextId' = nextId + Len(balance[r].events)
        /\ balance'[r] = ClearBalanceEvents(balance[r])
        /\ UNCHANGED <<balances, orders, keys, outbox, cmd, order>>

\* Inserting and updating have this in common.
StagingOrder(r, row) ==
    /\ tx'[r].order = row
    /\ tx'[r].balance = tx[r].balance
    /\ tx'[r].events = tx[r].events \cup OutboxRows(OrderId(r), order[r].events)
    /\ nextId' = nextId + Len(order[r].events)
    /\ order'[r] = ClearEvents(order[r])
    /\ held'[r] = held[r] \cup {OrderRow(OrderId(r))}
    /\ UNCHANGED <<balances, orders, keys, outbox, cmd, balance>>

Inserting(r) ==
    /\ pc'[r] \in {"saveKey", "commit"}
    /\ pc[r] = "insertOrder"
    /\ IsPlace(r)
    /\ StagingOrder(r, ClearEvents(order[r]))

Updating(r) ==
    /\ pc'[r] = "commit"
    /\ pc[r] = "updateOrder"
    /\ ~IsPlace(r)
    /\ Free(r, OrderRow(OrderId(r)))
    /\ orders[OrderId(r)].version = order[r].version
    /\ StagingOrder(r, [ClearEvents(order[r]) EXCEPT !.version = orders[OrderId(r)].version + 1])

SavingKey(r) ==
    /\ pc'[r] = "commit"
    /\ pc[r] = "saveKey"
    /\ IsPlace(r)
    /\ tx'[r].order = tx[r].order
    /\ tx'[r].balance = tx[r].balance
    /\ tx'[r].events = tx[r].events
    /\ UNCHANGED <<balances, orders, keys, outbox, nextId, cmd, order, balance>>

Committing(r) ==
    LET a == AccountOf(order[r])
        q == OrderId(r)
    IN  /\ pc'[r] = "done"
        /\ pc[r] = "commit"
        /\ \A c \in Accounts : balances'[c] = IF c = a THEN tx[r].balance ELSE balances[c]
        /\ \A o \in Requests : orders'[o] = IF o = q THEN tx[r].order ELSE orders[o]
        /\ keys' = IF tx[r].key = Absent THEN keys ELSE [keys EXCEPT ![cmd[r].key] = tx[r].key]
        /\ outbox' = outbox \cup tx[r].events
        /\ tx'[r].events = {}
        /\ UNCHANGED <<nextId, cmd>>

Effect(r) ==
    \/ Leaving(r) \/ Creating(r) \/ Reading(r) \/ Deducting(r) \/ Unlocking(r)
    \/ Saving(r) \/ Inserting(r) \/ Updating(r) \/ SavingKey(r) \/ Committing(r)

\* Every statement has one of these effects.
LEMMA StepEffects ==
    ASSUME TypeInv, NEW r \in Requests, StepOf(r)
    PROVE  Effect(r)
<1> USE DEF Goto
<1>1. ASSUME pc[r] \notin InTransaction, pc'[r] \notin {"lock"} \cup InTransaction,
             UNCHANGED <<tables, nextId, tx>>
      PROVE  Effect(r)
  BY <1>1 DEF Leaving, Effect, tables
<1>2. ASSUME NEW response, Respond(r, response), UNCHANGED <<tables, nextId>>
      PROVE  Effect(r)
  <2>1. pc'[r] = "done" /\ tx'[r].events = {}
    BY <1>2 DEF Respond, NoWrites, TypeInv, TypeOK, RequestsOK
  <2> QED
    BY <1>2, <2>1 DEF Leaving, Effect, tables, InTransaction
<1>3. ASSUME Abort(r) PROVE Effect(r)
  BY <1>2, <1>3 DEF Abort
<1>4. CASE Receive(r)
  <2>1. PICK label \in {"find", "check", "create"} : pc' = [pc EXCEPT ![r] = label]
    <3>1. PICK c \in Commands :
             pc' = [pc EXCEPT ![r] = CASE c.kind = "cancel" -> "find"
                                       [] c.kind = "place" /\ c.key # NoKey -> "check"
                                       [] OTHER -> "create"]
      BY <1>4 DEF Receive
    <3> QED
      BY <3>1
  <2>2. pc'[r] \notin {"lock"} \cup InTransaction
    BY <2>1 DEF InTransaction, TypeInv, TypeOK, RequestsOK
  <2> QED
    BY <1>1, <1>4, <2>2 DEF Receive, InTransaction
<1>5. CASE CheckHit(r)
  BY <1>2, <1>5 DEF CheckHit
<1>6. CASE CheckMiss(r)
  BY <1>1, <1>6 DEF CheckMiss, InTransaction, TypeInv, TypeOK, RequestsOK
<1>7. CASE CreateOrder(r) /\ ~Abort(r)
  <2>1. Creating(r)
    BY <1>7 DEF CreateOrder, Creating, tables, TypeInv, TypeOK, RequestsOK, ControlOK, InHand
  <2> QED
    BY <2>1 DEF Effect
<1>8. CASE FindOrder(r)
  <2>1. pc[r] = "find" /\ ~IsPlace(r)
    BY <1>8 DEF FindOrder, TypeInv, ControlOK, InHand
  <2>2. CASE \E response : Respond(r, response)
    BY <1>2, <1>8, <2>2 DEF FindOrder, Abort
  <2>3. CASE /\ orders[cmd[r].order] # Absent
             /\ orders[cmd[r].order].status # "CANCELLED"
             /\ order' = [order EXCEPT ![r] = orders[cmd[r].order]]
             /\ pc' = [pc EXCEPT ![r] = "lock"]
             /\ UNCHANGED <<tables, nextId, cmd, balance, tx, held, answer>>
    <3>1. Reading(r)
      BY <2>1, <2>3 DEF Reading, tables, TypeInv, TypeOK, RequestsOK
    <3> QED
      BY <3>1 DEF Effect
  <2> QED
    BY <1>8, <2>2, <2>3 DEF FindOrder, FindByID, Abort
<1>9. ASSUME NEW b, NEW o, Locked(r, b, o), pc[r] = "lock" PROVE Locking(r, b, o)
  BY <1>9 DEF Locked, Locking, tables, TypeInv, TypeOK, RequestsOK
<1>10. CASE LockAndDeduct(r) /\ ~Abort(r)
  <2>1. Deducting(r)
    BY <1>9, <1>10 DEF LockAndDeduct, Deducting
  <2> QED
    BY <2>1 DEF Effect
<1>11. CASE LockAndUnlock(r) /\ ~Abort(r)
  <2>1. Unlocking(r)
    BY <1>9, <1>11 DEF LockAndUnlock, Unlocking
  <2> QED
    BY <2>1 DEF Effect
<1>12. CASE SaveBalance(r) /\ ~Abort(r)
  <2>1. Saving(r)
    BY <1>12
    DEF SaveBalance, StageBalance, Saving, tables, TypeInv, TypeOK, RequestsOK, WriteSets
  <2> QED
    BY <2>1 DEF Effect
<1>13. CASE InsertOrder(r) /\ ~Abort(r)
  <2>1. pc[r] = "insertOrder" /\ IsPlace(r)
    BY <1>13 DEF InsertOrder, TypeInv, ControlOK, InHand
  <2>2. pc'[r] \in {"saveKey", "commit"}
    BY <1>13 DEF InsertOrder, TypeInv, TypeOK, RequestsOK
  <2>3. StagingOrder(r, ClearEvents(order[r]))
    BY <1>13 DEF InsertOrder, StagingOrder, tables, TypeInv, TypeOK, RequestsOK, WriteSets
  <2> QED
    BY <2>1, <2>2, <2>3 DEF Inserting, Effect
<1>14. CASE UpdateOrder(r) /\ ~Abort(r)
  <2>1. pc[r] = "updateOrder" /\ ~IsPlace(r) /\ StageOrder(r)
    BY <1>14 DEF UpdateOrder, TypeInv, ControlOK, InHand
  <2>2. Free(r, OrderRow(OrderId(r))) /\ orders[OrderId(r)].version = order[r].version
    BY <1>14 DEF UpdateOrder
  <2>3. pc'[r] = "commit"
    BY <2>1 DEF StageOrder, TypeInv, TypeOK, RequestsOK
  <2>4. StagingOrder(r, [ClearEvents(order[r]) EXCEPT !.version = orders[OrderId(r)].version + 1])
    BY <2>1 DEF StageOrder, StagingOrder, tables, TypeInv, TypeOK, RequestsOK, WriteSets
  <2> QED
    BY <2>1, <2>2, <2>3, <2>4 DEF Updating, Effect
<1>15. CASE SaveKey(r) /\ ~Abort(r)
  <2>1. IsPlace(r)
    BY <1>15 DEF SaveKey, TypeInv, ControlOK, InHand
  <2>2. SavingKey(r)
    BY <1>15, <2>1
    DEF SaveKey, StageKey, SavingKey, tables, local, TypeInv, TypeOK, RequestsOK, WriteSets
  <2> QED
    BY <2>2 DEF Effect
<1>16. CASE Commit(r) \/ CommitUnacknowledged(r)
  <2>1. pc[r] = "commit" /\ Apply(r)
    BY <1>16 DEF Commit, CommitUnacknowledged
  <2>2. pc'[r] = "done" /\ tx'[r].events = {} /\ UNCHANGED cmd
    BY <1>16
    DEF Commit, CommitUnacknowledged, Respond, NoWrites, TypeInv, TypeOK, RequestsOK
  <2>3. Committing(r)
    BY <2>1, <2>2 DEF Apply, Committing, TypeInv, TypeOK, TablesOK
  <2> QED
    BY <2>3 DEF Effect
<1>17. CASE Fail(r)
  BY <1>3, <1>17 DEF Fail
<1> QED
  BY <1>3, <1>4, <1>5, <1>6, <1>7, <1>8, <1>10, <1>11, <1>12, <1>13, <1>14, <1>15, <1>16, <1>17
  DEF StepOf, Serve

-----------------------------------------------------------------------------
(* The domain operations. *)

LEMMA NewOrderFields ==
    ASSUME NEW c
    PROVE  /\ NewOrder(c).filledQty = 0
           /\ NewOrder(c).status = "PENDING"
           /\ NewOrder(c).events = <<>>
BY DEF NewOrder

LEMMA OrderMethodsFields ==
    ASSUME NEW o \in OrderRecords
    PROVE  /\ Accept(o).filledQty = o.filledQty
           /\ Accept(o).status = "ACCEPTED"
           /\ o.events = <<>> => Accept(o).events = <<OrderPlacedEvent>>
           /\ Cancel(o).filledQty = o.filledQty
           /\ Cancel(o).status = "CANCELLED"
           /\ Cancel(o).version = o.version
           /\ o.events = <<>> => Cancel(o).events = <<OrderCancelledEvent>>
           /\ ClearEvents(o).filledQty = o.filledQty
           /\ ClearEvents(o).status = o.status
           /\ ClearEvents(o).version = o.version
           /\ ClearEvents(o).events = <<>>
<1>1. \A x : Append(<<>>, x) = <<x>>
  OBVIOUS
<1>2. /\ Accept(o).events = Append(o.events, OrderPlacedEvent)
      /\ Cancel(o).events = Append(o.events, OrderCancelledEvent)
      /\ ClearEvents(o).events = <<>>
  BY DEF OrderRecords, Accept, Cancel, ClearEvents
<1>3. /\ Accept(o).filledQty = o.filledQty
      /\ Accept(o).status = "ACCEPTED"
      /\ Cancel(o).filledQty = o.filledQty
      /\ Cancel(o).status = "CANCELLED"
      /\ Cancel(o).version = o.version
      /\ ClearEvents(o).filledQty = o.filledQty
      /\ ClearEvents(o).status = o.status
      /\ ClearEvents(o).version = o.version
  BY DEF OrderRecords, Accept, Cancel, ClearEvents
<1> QED
  BY <1>1, <1>2, <1>3

-----------------------------------------------------------------------------
(* OrdersOK is inductive. *)

OrderInHand(r) == IF IsPlace(r) THEN NewOrderInHand(r) ELSE ReadOrderInHand(r)

\* A step of r that leaves the table alone.
LEMMA QuietStepsKeepOrders ==
    ASSUME OrdersOK, NEW r \in Requests, OthersUnchanged(r), UNCHANGED orders,
           pc'[r] \in {"lock"} \cup InTransaction => OrderInHand(r)',
           pc'[r] = "commit" /\ ~IsPlace(r)' =>
               \A s \in Requests \ {r} :
                   pc[s] = "commit" /\ ~IsPlace(s) => cmd[s].order # cmd'[r].order
    PROVE  OrdersOK'
<1>1. \A s \in Requests \ {r} :
         /\ pc'[s] = pc[s]
         /\ cmd'[s] = cmd[s]
         /\ IsPlace(s)' = IsPlace(s)
  BY DEF OthersUnchanged, IsPlace
<1>2. ASSUME NEW s \in Requests, pc'[s] \in {"lock"} \cup InTransaction PROVE OrderInHand(s)'
  <2>1. CASE s = r
    BY <1>2, <2>1
  <2>2. CASE s # r
    <3>1. OrderInHand(s)
      BY <1>1, <1>2, <2>2 DEF OrdersOK, OrderInHand
    <3> QED
      BY <1>1, <2>2, <3>1
      DEF OrderInHand, NewOrderInHand, ReadOrderInHand, OthersUnchanged, OrderRow
  <2> QED
    BY <2>1, <2>2
<1>3. RowsAreAcceptedOrCancelled'
  BY DEF OrdersOK, RowsAreAcceptedOrCancelled
<1>4. CancellationsExclude'
  BY <1>1 DEF OrdersOK, CancellationsExclude
<1> QED
  BY <1>2, <1>3, <1>4 DEF OrdersOK, OrderInHand

\* What a cancellation has read is still in the table, and well-formed.
LEMMA ReadRow ==
    ASSUME TypeInv, KeysOK, NEW r \in Requests, pc[r] \in {"lock"} \cup InTransaction, ~IsPlace(r)
    PROVE  /\ cmd[r].order \in Requests
           /\ orders[cmd[r].order] # Absent
           /\ orders[cmd[r].order] \in OrderRecords
           /\ order[r] \in OrderRecords
<1>1. cmd[r].order \in Requests
  BY CommandKinds DEF TypeInv, ControlOK, InHand, IsPlace, InTransaction
<1> QED
  BY <1>1
  DEF KeysOK, OrdersComeFromPlacing, TypeInv, TypeOK, TablesOK, ControlOK, InHand, InTransaction

\* A committing cancellation leaves every other one with a stale version, and
\* none of them has passed the version check.
LEMMA CommittingKeepsOrders ==
    ASSUME TypeInv, KeysOK, OrdersOK, NEW r \in Requests, OthersUnchanged(r), Committing(r)
    PROVE  OrdersOK'
<1> DEFINE q == OrderId(r)
<1>1. /\ pc[r] = "commit"
      /\ pc'[r] = "done"
      /\ \A o \in Requests : orders'[o] = IF o = q THEN tx[r].order ELSE orders[o]
  BY DEF Committing
<1>2. /\ order[r] \in OrderRecords
      /\ tx[r].order \in OrderRecords
      /\ cmd[r] \in Commands
      /\ OrderInHand(r)
  BY <1>1 DEF TypeInv, ControlOK, InHand, InTransaction, OrdersOK, OrderInHand
<1>3. q \in Requests
  BY <1>2, CommandKinds DEF OrderId, IsPlace
<1>4. \A s \in Requests \ {r} :
         /\ pc'[s] = pc[s]
         /\ cmd'[s] = cmd[s]
         /\ order'[s] = order[s]
         /\ tx'[s] = tx[s]
         /\ held'[s] = held[s]
         /\ IsPlace(s)' = IsPlace(s)
  BY DEF OthersUnchanged, IsPlace
<1>5. RowsAreAcceptedOrCancelled'
  <2>1. CASE IsPlace(r)
    <3>1. /\ tx[r].order.status = "ACCEPTED"
          /\ tx[r].order.filledQty = 0
          /\ tx[r].order.events = <<>>
      BY <1>1, <1>2, <2>1 DEF OrderInHand, NewOrderInHand, InTransaction
    <3> QED
      BY <1>1, <3>1 DEF OrdersOK, RowsAreAcceptedOrCancelled
  <2>2. CASE ~IsPlace(r)
    <3> DEFINE row == orders[q]
    <3>1. /\ row \in OrderRecords
          /\ order[r] = ClearEvents(Cancel(row))
          /\ tx[r].order = [order[r] EXCEPT !.version = row.version + 1]
          /\ order[r].filledQty = 0
      BY <1>1, <1>2, <2>2, ReadRow DEF OrderInHand, ReadOrderInHand, OrderId, InTransaction
    <3>2. order[r].status = "CANCELLED" /\ order[r].events = <<>>
      <4>1. Cancel(row) \in OrderRecords /\ Cancel(row).status = "CANCELLED"
        BY <3>1, OrderMethodsFields, OrderMethodsType
      <4> QED
        BY <3>1, <4>1, OrderMethodsFields
    <3>3. /\ tx[r].order.status = "CANCELLED"
          /\ tx[r].order.filledQty = 0
          /\ tx[r].order.events = <<>>
      BY <1>2, <3>1, <3>2 DEF OrderRecords
    <3> QED
      BY <1>1, <3>3 DEF OrdersOK, RowsAreAcceptedOrCancelled
  <2> QED
    BY <2>1, <2>2
\* Whoever else has read the order that r cancels has an older version.
<1>6. ASSUME NEW s \in Requests \ {r}, pc[s] \in {"lock"} \cup InTransaction, ~IsPlace(s),
             cmd[s].order = q
      PROVE  ~IsPlace(r) /\ pc[s] # "commit" /\ order[s].version < orders'[q].version
  <2>1. orders[q] # Absent
    BY <1>6 DEF KeysOK, OrdersComeFromPlacing
  <2>2. ~IsPlace(r)
    BY <1>1, <2>1 DEF OrderId, KeysOK, OrdersComeFromPlacing
  <2>3. cmd[r].order = q
    BY <2>2 DEF OrderId
  <2>4. pc[s] # "commit"
    BY <1>1, <1>6, <2>2, <2>3 DEF OrdersOK, CancellationsExclude
  <2>5. tx[r].order = [order[r] EXCEPT !.version = orders[q].version + 1]
    BY <1>1, <1>2, <2>2, <2>3 DEF OrderInHand, ReadOrderInHand
  <2>6. orders[q].version \in Nat /\ order[s].version \in Nat
    <3>1. orders[q] \in OrderRecords /\ order[s] \in OrderRecords
      BY <1>6, ReadRow
    <3> QED
      BY <3>1 DEF OrderRecords
  <2>7. order[s].version <= orders[q].version
    BY <1>6 DEF OrdersOK, ReadOrderInHand
  <2>8. orders'[q].version = orders[q].version + 1
    BY <1>1, <1>2, <1>3, <2>5 DEF OrderRecords
  <2> QED
    BY <2>2, <2>4, <2>6, <2>7, <2>8
<1> HIDE DEF q
<1>7. ASSUME NEW s \in Requests, pc'[s] \in {"lock"} \cup InTransaction PROVE OrderInHand(s)'
  <2>1. s # r
    BY <1>1, <1>7 DEF InTransaction
  <2>2. pc[s] \in {"lock"} \cup InTransaction /\ OrderInHand(s)
    BY <1>4, <1>7, <2>1 DEF OrdersOK, OrderInHand
  <2>3. CASE IsPlace(s)
    BY <1>4, <2>1, <2>2, <2>3 DEF OrderInHand, NewOrderInHand
  <2>4. CASE ~IsPlace(s) /\ cmd[s].order # q
    <3>1. orders'[cmd[s].order] = orders[cmd[s].order]
      BY <1>1, <2>2, <2>4, ReadRow
    <3> QED
      BY <1>4, <2>1, <2>2, <2>4, <3>1 DEF OrderInHand, ReadOrderInHand, OrderRow
  <2>5. CASE ~IsPlace(s) /\ cmd[s].order = q
    <3>1. pc[s] # "commit" /\ order[s].version < orders'[q].version
      BY <1>6, <2>1, <2>2, <2>5
    <3>2. order[s].version \in Nat /\ orders'[q].version \in Nat
      <4>1. order[s] \in OrderRecords /\ orders'[q] \in OrderRecords
        BY <1>1, <1>2, <1>3, <2>2, <2>5, ReadRow
      <4> QED
        BY <4>1 DEF OrderRecords
    <3>3. order[s].version # orders'[q].version /\ order[s].version <= orders'[q].version
      BY <3>1, <3>2
    <3> QED
      BY <1>4, <2>1, <2>2, <2>5, <3>1, <3>3 DEF OrderInHand, ReadOrderInHand
  <2> QED
    BY <2>3, <2>4, <2>5
<1>8. CancellationsExclude'
  BY <1>1, <1>4 DEF OrdersOK, CancellationsExclude
<1> QED
  BY <1>5, <1>7, <1>8 DEF OrdersOK, OrderInHand

LEMMA StepKeepsOrders ==
    ASSUME TypeInv, KeysOK, OrdersOK, NEW r \in Requests, OthersUnchanged(r), Effect(r)
    PROVE  OrdersOK'
<1>1. ASSUME UNCHANGED orders, pc'[r] # "commit",
             pc'[r] \in {"lock"} \cup InTransaction => OrderInHand(r)'
      PROVE  OrdersOK'
  BY <1>1, QuietStepsKeepOrders
<1>2. pc[r] \in {"lock"} \cup InTransaction => OrderInHand(r) /\ order[r] \in OrderRecords
  BY DEF OrdersOK, OrderInHand, TypeInv, ControlOK, InHand
<1>3. UNCHANGED cmd => IsPlace(r)' = IsPlace(r)
  BY DEF IsPlace
<1>4. CASE Leaving(r)
  <2>1. pc'[r] # "commit"
    BY <1>4 DEF Leaving, InTransaction
  <2> QED
    BY <1>1, <1>4, <2>1 DEF Leaving
<1>5. CASE Creating(r)
  <2>1. NewOrderInHand(r)'
    BY <1>5, NewOrderFields DEF Creating, NewOrderInHand, InTransaction
  <2> QED
    BY <1>1, <1>3, <1>5, <2>1 DEF Creating, OrderInHand
<1>6. CASE Reading(r)
  <2> DEFINE row == orders[cmd[r].order]
  <2>1. row # Absent /\ row.status # "CANCELLED"
    BY <1>6 DEF Reading
  <2>2. cmd[r].order \in Requests
    BY <1>6, CommandKinds DEF Reading, TypeInv, ControlOK, InHand, IsPlace
  <2>3. /\ row.status = "ACCEPTED"
        /\ row.filledQty = 0
        /\ row.events = <<>>
        /\ row.version \in Nat
    BY <2>1, <2>2
    DEF OrdersOK, RowsAreAcceptedOrCancelled, TypeInv, TypeOK, TablesOK, OrderRecords
  <2>4. pc'[r] = "lock" /\ order'[r] = row /\ orders'[cmd'[r].order] = row
    BY <1>6 DEF Reading
  <2> HIDE DEF row
  <2>5. ReadOrderInHand(r)'
    BY <2>3, <2>4 DEF ReadOrderInHand
  <2> QED
    BY <1>1, <1>3, <1>6, <2>5 DEF Reading, OrderInHand
<1>7. CASE Deducting(r)
  <2>1. /\ pc[r] = "lock"
        /\ pc'[r] = "saveBalance"
        /\ order'[r] = Accept(order[r])
        /\ IsPlace(r)
        /\ UNCHANGED <<orders, cmd>>
    BY <1>7 DEF Deducting, Locking
  <2>2. NewOrderInHand(r)'
    BY <1>2, <2>1, OrderMethodsFields DEF OrderInHand, NewOrderInHand
  <2> QED
    BY <1>1, <1>3, <2>1, <2>2 DEF OrderInHand
<1>8. CASE Unlocking(r)
  <2> DEFINE row == orders[cmd[r].order]
  <2>1. /\ pc[r] = "lock"
        /\ pc'[r] = "saveBalance"
        /\ order'[r] = Cancel(order[r])
        /\ ~IsPlace(r)
        /\ UNCHANGED <<orders, cmd>>
    BY <1>8 DEF Unlocking, Locking
  <2>2. /\ order[r].version <= row.version
        /\ order[r].filledQty = 0
        /\ order[r].status = "ACCEPTED"
        /\ order[r].events = <<>>
        /\ order[r].version = row.version => order[r] = row
    BY <1>2, <2>1 DEF OrderInHand, ReadOrderInHand
  <2>3. /\ order'[r].status = "CANCELLED"
        /\ order'[r].events = <<OrderCancelledEvent>>
        /\ order'[r].filledQty = 0
        /\ order'[r].version = order[r].version
    BY <1>2, <2>1, <2>2, OrderMethodsFields
  <2>4. orders'[cmd'[r].order] = row
    BY <2>1
  <2>5. order'[r].version = row.version => row.status = "ACCEPTED" /\ order'[r] = Cancel(row)
    BY <2>1, <2>2, <2>3
  <2> HIDE DEF row
  <2>6. ReadOrderInHand(r)'
    BY <2>1, <2>2, <2>3, <2>4, <2>5 DEF ReadOrderInHand, Cancel, OrderCancelledEvent
  <2> QED
    BY <1>1, <1>3, <2>1, <2>6 DEF OrderInHand
<1>9. CASE Saving(r)
  <2>1. /\ pc[r] = "saveBalance"
        /\ pc'[r] = IF IsPlace(r) THEN "insertOrder" ELSE "updateOrder"
        /\ UNCHANGED <<orders, cmd, order>>
    BY <1>9 DEF Saving
  <2>2. OrderInHand(r)
    BY <1>2, <2>1 DEF InTransaction
  <2>3. OrderInHand(r)'
    BY <1>3, <2>1, <2>2
    DEF OrderInHand, NewOrderInHand, ReadOrderInHand, InTransaction, Cancel, OrderPlacedEvent,
        OrderCancelledEvent
  <2> QED
    BY <1>1, <2>1, <2>3
\* A new order has no row yet, so nobody cancels it.
<1>10. ASSUME IsPlace(r), UNCHANGED <<orders, cmd>>, NewOrderInHand(r)' PROVE OrdersOK'
  BY <1>3, <1>10, QuietStepsKeepOrders DEF OrderInHand
<1>11. CASE Inserting(r)
  <2>1. /\ pc[r] = "insertOrder"
        /\ pc'[r] \in {"saveKey", "commit"}
        /\ order'[r] = ClearEvents(order[r])
        /\ tx'[r].order = ClearEvents(order[r])
        /\ IsPlace(r)
        /\ UNCHANGED <<orders, cmd>>
    BY <1>11 DEF Inserting, StagingOrder
  <2>2. NewOrderInHand(r)'
    BY <1>2, <2>1, OrderMethodsFields DEF OrderInHand, NewOrderInHand, InTransaction
  <2> QED
    BY <1>10, <2>1, <2>2
<1>12. CASE SavingKey(r)
  <2>1. /\ pc[r] = "saveKey"
        /\ pc'[r] = "commit"
        /\ tx'[r].order = tx[r].order
        /\ IsPlace(r)
        /\ UNCHANGED <<orders, cmd, order>>
    BY <1>12 DEF SavingKey
  <2>2. NewOrderInHand(r)'
    BY <1>2, <2>1 DEF OrderInHand, NewOrderInHand, InTransaction
  <2> QED
    BY <1>10, <2>1, <2>2
<1>13. CASE Updating(r)
  <2> DEFINE q == cmd[r].order
             row == orders[q]
  <2>1. /\ pc[r] = "updateOrder"
        /\ pc'[r] = "commit"
        /\ ~IsPlace(r)
        /\ Free(r, OrderRow(q))
        /\ row.version = order[r].version
        /\ order'[r] = ClearEvents(order[r])
        /\ tx'[r].order = [ClearEvents(order[r]) EXCEPT !.version = row.version + 1]
        /\ OrderRow(q) \in held'[r]
        /\ UNCHANGED <<orders, cmd>>
    BY <1>13 DEF Updating, StagingOrder, OrderId
  <2>2. /\ row.status = "ACCEPTED"
        /\ order[r] = Cancel(row)
        /\ order[r].filledQty = 0
        /\ order[r].version <= row.version
    BY <1>2, <2>1 DEF OrderInHand, ReadOrderInHand, InTransaction
  <2>3. order'[r].filledQty = 0 /\ order'[r].version <= row.version
    BY <1>2, <2>1, <2>2, OrderMethodsFields DEF InTransaction
  <2>4. \A s \in Requests \ {r} : pc[s] = "commit" /\ ~IsPlace(s) => cmd[s].order # q
    <3> SUFFICES ASSUME NEW s \in Requests \ {r}, pc[s] = "commit", ~IsPlace(s)
                 PROVE  cmd[s].order # q
      OBVIOUS
    <3>1. OrderRow(cmd[s].order) \in held[s]
      BY DEF OrdersOK, ReadOrderInHand, InTransaction
    <3> QED
      BY <2>1, <3>1 DEF Free
  <2>5. orders'[cmd'[r].order] = row /\ cmd'[r].order = q
    BY <2>1
  <2>6. order'[r] = ClearEvents(Cancel(row))
    BY <2>1, <2>2
  <2>7. tx'[r].order = [order'[r] EXCEPT !.version = row.version + 1]
    BY <2>1
  <2> HIDE DEF row, q
  <2>8. ReadOrderInHand(r)'
    BY <2>1, <2>2, <2>3, <2>5, <2>6, <2>7 DEF ReadOrderInHand, ClearEvents, Cancel, OrderRow,
       OrderCancelledEvent
  <2> QED
    BY <1>3, <2>1, <2>4, <2>5, <2>8, QuietStepsKeepOrders DEF OrderInHand
<1>14. CASE Committing(r)
  BY <1>14, CommittingKeepsOrders
<1> QED
  BY <1>4, <1>5, <1>6, <1>7, <1>8, <1>9, <1>11, <1>12, <1>13, <1>14 DEF Effect

LEMMA InitOrders == Init => OrdersOK
<1> SUFFICES ASSUME Init PROVE OrdersOK
  OBVIOUS
<1>1. \A r \in Requests : pc[r] = "idle" /\ orders[r] = Absent
  BY DEF Init
<1> QED
  BY <1>1 DEF OrdersOK, RowsAreAcceptedOrCancelled, CancellationsExclude, InTransaction

\* A step is the step of one request, or leaves everything but the keys alone.
LEMMA StepsOfOthers ==
    ASSUME TypeInv, [Next]_vars
    PROVE  \/ \E r \in Requests : StepOf(r) /\ OthersUnchanged(r) /\ Effect(r)
           \/ UNCHANGED <<balances, orders, outbox, nextId, pc, cmd, order, balance, tx, held, answer>>
<1>1. ASSUME NEW r \in Requests, StepOf(r) PROVE OthersUnchanged(r) /\ Effect(r)
  BY <1>1, StepIsLocal, StepEffects
<1>2. ASSUME NEW k \in Keys, ExpireKey(k)
      PROVE  UNCHANGED <<balances, orders, outbox, nextId, pc, cmd, order, balance, tx, held, answer>>
  BY <1>2 DEF ExpireKey, local
<1> QED
  BY <1>1, <1>2 DEF Next, StepOf, Terminating, vars

LEMMA NextOrders == TypeInv /\ KeysOK /\ OrdersOK /\ [Next]_vars => OrdersOK'
<1> SUFFICES ASSUME TypeInv, KeysOK, OrdersOK, [Next]_vars PROVE OrdersOK'
  OBVIOUS
<1>1. ASSUME NEW r \in Requests, OthersUnchanged(r), Effect(r) PROVE OrdersOK'
  BY <1>1, StepKeepsOrders
<1>2. ASSUME UNCHANGED <<orders, pc, cmd, order, tx, held>> PROVE OrdersOK'
  BY <1>2 DEF OrdersOK, RowsAreAcceptedOrCancelled, NewOrderInHand, ReadOrderInHand,
     CancellationsExclude, IsPlace, OrderRow
<1> QED
  BY <1>1, <1>2, StepsOfOthers

\* What a step may do to the row of an order.
OrderStep(o) ==
    orders[o] # Absent /\ orders'[o] # orders[o] =>
        /\ orders[o].status = "ACCEPTED"
        /\ orders'[o] = [orders[o] EXCEPT !.status = "CANCELLED", !.version = @ + 1]

LEMMA OrderSteps ==
    ASSUME TypeInv, KeysOK, OrdersOK, [Next]_vars, NEW o \in Requests
    PROVE  OrderStep(o)
<1>1. CASE orders' = orders
  BY <1>1 DEF OrderStep
<1>2. ASSUME NEW r \in Requests, Committing(r) PROVE OrderStep(o)
  <2>1. /\ pc[r] = "commit"
        /\ orders'[o] = IF o = OrderId(r) THEN tx[r].order ELSE orders[o]
    BY <1>2 DEF Committing
  <2>2. CASE o # OrderId(r)
    BY <2>1, <2>2 DEF OrderStep
  <2>3. CASE o = OrderId(r) /\ IsPlace(r)
    <3>1. orders[o] = Absent
      BY <2>1, <2>3 DEF OrderId, KeysOK, OrdersComeFromPlacing
    <3> QED
      BY <3>1 DEF OrderStep
  <2>4. CASE o = OrderId(r) /\ ~IsPlace(r)
    <3> DEFINE row == orders[o]
    <3>1. /\ row \in OrderRecords
          /\ row # Absent
          /\ row.status = "ACCEPTED"
          /\ row.events = <<>>
      BY <2>1, <2>4, ReadRow
      DEF OrderId, InTransaction, OrdersOK, ReadOrderInHand, RowsAreAcceptedOrCancelled
    <3>2. tx[r].order = [ClearEvents(Cancel(row)) EXCEPT !.version = row.version + 1]
      <4>1. /\ order[r] = ClearEvents(Cancel(row))
            /\ tx[r].order = [order[r] EXCEPT !.version = row.version + 1]
        BY <2>1, <2>4 DEF OrderId, InTransaction, OrdersOK, ReadOrderInHand
      <4> QED
        BY <4>1
    <3>3. tx[r].order = [row EXCEPT !.status = "CANCELLED", !.version = row.version + 1]
      <4> DEFINE pulled == Append(row.events, OrderCancelledEvent)
      <4>1. Cancel(row) = [row EXCEPT !.status = "CANCELLED", !.events = pulled]
        BY <3>1 DEF Cancel, OrderRecords
      <4> HIDE DEF pulled
      <4>2. ClearEvents(Cancel(row)) = [row EXCEPT !.status = "CANCELLED"]
        BY <3>1, <4>1 DEF ClearEvents, OrderRecords
      <4> QED
        BY <3>1, <3>2, <4>2 DEF OrderRecords
    <3> QED
      BY <2>1, <2>4, <3>1, <3>3 DEF OrderStep
  <2> QED
    BY <2>2, <2>3, <2>4
<1> QED
  BY <1>1, <1>2, StepsOfOthers
  DEF Effect, Leaving, Creating, Reading, Deducting, Unlocking, Locking, Saving, Inserting,
      Updating, StagingOrder, SavingKey

\* Two cancellations that both read an order as accepted never both commit, and
\* no transaction changes anything but the status and the version of a row.
THEOREM OrdersChangeOnce == Spec => OrdersAreCancelledOnce
<1>1. TypeInv /\ KeysOK /\ OrdersOK /\ [Next]_vars =>
         [\A o \in Requests :
             orders[o] # Absent /\ orders'[o] # orders[o] =>
                 /\ orders[o].status = "ACCEPTED"
                 /\ orders'[o] = [orders[o] EXCEPT !.status = "CANCELLED", !.version = @ + 1]]_vars
  BY OrderSteps DEF OrderStep
<1> QED
  BY <1>1, InitType, NextType, InitKeys, NextKeys, InitOrders, NextOrders, PTL
  DEF Spec, OrdersAreCancelledOnce

-----------------------------------------------------------------------------
(* What clients were told. *)

\* A row never disappears, and a cancelled one stays cancelled.
LEMMA RowsStay ==
    ASSUME TypeInv, KeysOK, OrdersOK, [Next]_vars, NEW o \in Requests, orders[o] # Absent
    PROVE  /\ orders'[o] # Absent
           /\ orders[o].status = "CANCELLED" => orders'[o].status = "CANCELLED"
<1>1. orders[o] \in OrderRecords
  BY DEF TypeInv, TypeOK, TablesOK
<1>2. CASE orders'[o] = orders[o]
  BY <1>2
<1>3. CASE orders'[o] # orders[o]
  <2>1. orders'[o] = [orders[o] EXCEPT !.status = "CANCELLED", !.version = orders[o].version + 1]
    BY <1>3, OrderSteps DEF OrderStep
  <2>2. orders'[o] \in OrderRecords /\ orders'[o].status = "CANCELLED"
    <3> DEFINE next == orders[o].version + 1
    <3>1. next \in Nat
      BY <1>1 DEF OrderRecords
    <3> HIDE DEF next
    <3>2. orders'[o] = [orders[o] EXCEPT !.status = "CANCELLED", !.version = next]
      BY <2>1 DEF next
    <3> QED
      BY <1>1, <3>1, <3>2 DEF OrderRecords, OrderStatuses
  <2> QED
    BY <2>2, AbsentIsNoRow
<1> QED
  BY <1>2, <1>3

\* The body of SuccessIsDurable.
SuccessHolds(r) ==
    answer[r] # Absent /\ answer[r].ok =>
        LET o == answer[r].order
        IN  /\ orders[o] # Absent
            /\ IF IsPlace(r) THEN o = r \/ cmd[o].key = cmd[r].key
                             ELSE o = cmd[r].order /\ orders[o].status = "CANCELLED"

\* A step answers nobody, or answers its own request truthfully and for good.
Answering(r) ==
    \/ /\ answer' = answer
       /\ \A s \in Requests : pc[s] # "idle" => cmd'[s] = cmd[s]
       /\ pc[r] # "done"
    \/ /\ pc'[r] = "done"
       /\ \A s \in Requests \ {r} : answer'[s] = answer[s]
       /\ UNCHANGED cmd
       /\ SuccessHolds(r)'

LEMMA FailureClaimsNothing == Failure.ok = FALSE
BY DEF Failure

LEMMA StepsAnswer ==
    ASSUME TypeInv, KeysOK, OrdersOK, NEW r \in Requests, StepOf(r)
    PROVE  Answering(r)
<1> USE DEF Goto
<1>1. ASSUME UNCHANGED <<cmd, answer>>, pc[r] # "done" PROVE Answering(r)
  BY <1>1 DEF Answering
<1>2. ASSUME NEW response, Respond(r, response)
      PROVE  /\ pc'[r] = "done"
             /\ answer'[r] = response
             /\ \A s \in Requests \ {r} : answer'[s] = answer[s]
             /\ UNCHANGED cmd
  BY <1>2 DEF Respond, TypeInv, TypeOK, RequestsOK
<1>3. ASSUME Respond(r, Failure) PROVE Answering(r)
  <2>1. SuccessHolds(r)'
    BY <1>2, <1>3, FailureClaimsNothing DEF SuccessHolds
  <2> QED
    BY <1>2, <1>3, <2>1 DEF Answering
<1>4. ASSUME Abort(r) PROVE Answering(r)
  BY <1>3, <1>4 DEF Abort
<1>5. ASSUME NEW o, NEW status, Respond(r, Success(o, status)),
             orders'[o] # Absent,
             IF IsPlace(r) THEN o = r \/ cmd[o].key = cmd[r].key
                           ELSE o = cmd[r].order /\ orders'[o].status = "CANCELLED"
      PROVE  Answering(r)
  <2>1. answer'[r].order = o /\ UNCHANGED cmd
    BY <1>2, <1>5 DEF Success
  <2>2. SuccessHolds(r)'
    BY <1>5, <2>1 DEF SuccessHolds, IsPlace
  <2> QED
    BY <1>2, <1>5, <2>2 DEF Answering
<1>6. CASE Receive(r)
  <2>1. PICK c : cmd' = [cmd EXCEPT ![r] = c]
    BY <1>6 DEF Receive
  <2> QED
    BY <1>6, <2>1 DEF Receive, Answering, TypeInv, TypeOK, RequestsOK
\* The row of a key that is in use names an order placed with that key.
<1>7. CASE CheckHit(r)
  <2> DEFINE row == keys[cmd[r].key]
  <2>1. /\ pc[r] = "check"
        /\ row # Absent
        /\ Respond(r, Success(row.order, "ACCEPTED"))
        /\ UNCHANGED orders
    BY <1>7 DEF CheckHit, tables
  <2>2. cmd[r].key \in Keys /\ IsPlace(r)
    BY <2>1 DEF TypeInv, ControlOK, InHand
  <2>3. row.order \in OrdersWithKey(cmd[r].key)
    BY <2>1, <2>2 DEF KeysOK, OneOrderPerKey
  <2>4. orders[row.order] # Absent /\ cmd[row.order].key = cmd[r].key
    BY <2>3 DEF OrdersWithKey
  <2> QED
    BY <1>5, <2>1, <2>2, <2>4
<1>8. CASE CheckMiss(r)
  BY <1>1, <1>8 DEF CheckMiss
<1>9. CASE CreateOrder(r)
  BY <1>1, <1>4, <1>9 DEF CreateOrder
<1>10. CASE FindOrder(r)
  <2> DEFINE q == cmd[r].order
  <2>1. pc[r] = "find" /\ ~IsPlace(r)
    BY <1>10 DEF FindOrder, TypeInv, ControlOK, InHand
  <2>2. CASE orders[q] = Absent
    BY <1>4, <1>10, <2>2 DEF FindOrder, FindByID
  <2>3. CASE orders[q] # Absent /\ orders[q].status = "CANCELLED"
    <3>1. Respond(r, Success(q, orders[q].status)) /\ UNCHANGED orders
      BY <1>10, <2>3 DEF FindOrder, FindByID, tables
    <3> QED
      BY <1>5, <2>1, <2>3, <3>1
  <2>4. CASE orders[q] # Absent /\ orders[q].status # "CANCELLED"
    BY <1>1, <1>10, <2>1, <2>4 DEF FindOrder, FindByID
  <2> QED
    BY <2>2, <2>3, <2>4
<1>11. CASE LockAndDeduct(r) \/ LockAndUnlock(r)
  BY <1>1, <1>4, <1>11 DEF LockAndDeduct, LockAndUnlock, Locked
<1>12. CASE SaveBalance(r)
  BY <1>1, <1>4, <1>12 DEF SaveBalance
<1>13. CASE InsertOrder(r)
  BY <1>1, <1>4, <1>13 DEF InsertOrder
<1>14. CASE UpdateOrder(r)
  BY <1>1, <1>4, <1>14 DEF UpdateOrder, StageOrder
<1>15. CASE SaveKey(r)
  BY <1>1, <1>4, <1>15 DEF SaveKey, StageKey
<1>16. CASE Commit(r)
  <2> DEFINE q == OrderId(r)
  <2>1. /\ pc[r] = "commit"
        /\ Respond(r, Success(q, order[r].status))
        /\ orders' = [orders EXCEPT ![q] = tx[r].order]
    BY <1>16 DEF Commit, Apply
  <2>2. tx[r].order \in OrderRecords /\ cmd[r] \in Commands
    BY <2>1 DEF TypeInv, ControlOK, InHand
  <2>3. q \in Requests
    BY <2>2, CommandKinds DEF OrderId, IsPlace
  <2>4. orders'[q] = tx[r].order /\ orders'[q] # Absent
    BY <2>1, <2>2, <2>3, AbsentIsNoRow DEF TypeInv, TypeOK, TablesOK
  <2>5. CASE IsPlace(r)
    BY <1>5, <2>1, <2>4, <2>5 DEF OrderId
  <2>6. CASE ~IsPlace(r)
    <3> DEFINE row == orders[q]
    <3>1. /\ q = cmd[r].order
          /\ row \in OrderRecords
          /\ order[r] \in OrderRecords
          /\ order[r] = ClearEvents(Cancel(row))
          /\ tx[r].order = [order[r] EXCEPT !.version = row.version + 1]
      BY <2>1, <2>6, ReadRow DEF OrderId, InTransaction, OrdersOK, ReadOrderInHand
    <3>2. Cancel(row) \in OrderRecords /\ Cancel(row).status = "CANCELLED"
      BY <3>1, OrderMethodsFields, OrderMethodsType
    <3>3. order[r].status = "CANCELLED"
      BY <3>1, <3>2, OrderMethodsFields
    <3>4. orders'[q].status = "CANCELLED"
      BY <2>4, <3>1, <3>3 DEF OrderRecords
    <3> QED
      BY <1>5, <2>1, <2>4, <2>6, <3>1, <3>4
  <2> QED
    BY <2>5, <2>6
<1>17. CASE CommitUnacknowledged(r)
  BY <1>3, <1>17 DEF CommitUnacknowledged
<1>18. CASE Fail(r)
  BY <1>4, <1>18 DEF Fail
<1> QED
  BY <1>6, <1>7, <1>8, <1>9, <1>10, <1>11, <1>12, <1>13, <1>14, <1>15, <1>16, <1>17, <1>18
  DEF StepOf, Serve

AnswersOK == AnswersAreFinal /\ SuccessIsDurable

LEMMA NextAnswers == TypeInv /\ KeysOK /\ OrdersOK /\ AnswersOK /\ [Next]_vars => AnswersOK'
<1> SUFFICES ASSUME TypeInv, KeysOK, OrdersOK, AnswersOK, [Next]_vars PROVE AnswersOK'
  OBVIOUS
\* An answer that was true stays true.
<1>1. ASSUME NEW s \in Requests, answer'[s] = answer[s],
             \A p \in Requests : pc[p] = "done" => cmd'[p] = cmd[p]
      PROVE  SuccessHolds(s)'
  <2> SUFFICES ASSUME answer[s] # Absent, answer[s].ok PROVE SuccessHolds(s)'
    BY <1>1 DEF SuccessHolds
  <2> DEFINE o == answer[s].order
  <2>1. answer[s] \in Answers
    BY DEF TypeInv, TypeOK, RequestsOK
  <2>2. o \in Requests
    BY <2>1, FailureClaimsNothing DEF Answers
  <2>3. pc[s] = "done" /\ SuccessHolds(s)
    BY DEF AnswersOK, AnswersAreFinal, SuccessIsDurable, SuccessHolds
  <2>4. orders[o] # Absent
    BY <2>3 DEF SuccessHolds
  <2>5. pc[o] = "done"
    BY <2>2, <2>4 DEF KeysOK, OrdersComeFromPlacing
  <2>6. cmd'[s] = cmd[s] /\ cmd'[o] = cmd[o] /\ IsPlace(s)' = IsPlace(s)
    BY <1>1, <2>2, <2>3, <2>5 DEF IsPlace
  <2>7. /\ orders'[o] # Absent
        /\ orders[o].status = "CANCELLED" => orders'[o].status = "CANCELLED"
    BY <2>2, <2>4, RowsStay
  <2> QED
    BY <1>1, <2>3, <2>6, <2>7 DEF SuccessHolds
<1>2. ASSUME NEW r \in Requests, StepOf(r) PROVE AnswersOK'
  <2>1. OthersUnchanged(r) /\ Answering(r)
    BY <1>2, StepIsLocal, StepsAnswer
  <2>2. CASE /\ answer' = answer
             /\ \A s \in Requests : pc[s] # "idle" => cmd'[s] = cmd[s]
             /\ pc[r] # "done"
    <3>1. \A s \in Requests : SuccessHolds(s)'
      BY <1>1, <2>2
    <3>2. AnswersAreFinal'
      BY <2>1, <2>2 DEF OthersUnchanged, AnswersOK, AnswersAreFinal
    <3> QED
      BY <3>1, <3>2 DEF AnswersOK, SuccessIsDurable, SuccessHolds
  <2>3. CASE /\ pc'[r] = "done"
             /\ \A s \in Requests \ {r} : answer'[s] = answer[s]
             /\ UNCHANGED cmd
             /\ SuccessHolds(r)'
    <3>1. \A s \in Requests : SuccessHolds(s)'
      BY <1>1, <2>3
    <3>2. AnswersAreFinal'
      BY <2>1, <2>3 DEF OthersUnchanged, AnswersOK, AnswersAreFinal
    <3> QED
      BY <3>1, <3>2 DEF AnswersOK, SuccessIsDurable, SuccessHolds
  <2> QED
    BY <2>1, <2>2, <2>3 DEF Answering
<1>3. CASE UNCHANGED <<pc, cmd, answer>>
  <2>1. \A s \in Requests : SuccessHolds(s)'
    BY <1>1, <1>3
  <2> QED
    BY <1>3, <2>1 DEF AnswersOK, AnswersAreFinal, SuccessIsDurable, SuccessHolds
<1>4. ASSUME NEW k \in Keys, ExpireKey(k) PROVE UNCHANGED <<pc, cmd, answer>>
  BY <1>4 DEF ExpireKey
<1> QED
  BY <1>2, <1>3, <1>4 DEF Next, StepOf, Terminating, vars

\* Whatever races or fails afterwards, an order that a client was told of is in
\* the table, under its key, and a cancellation it was told of stays one.
THEOREM SuccessStaysTrue == Spec => []SuccessIsDurable
<1>1. Init => AnswersOK
  BY DEF Init, AnswersOK, AnswersAreFinal, SuccessIsDurable
<1>2. AnswersOK => SuccessIsDurable
  BY DEF AnswersOK
<1> QED
  BY <1>1, <1>2, InitType, NextType, InitKeys, NextKeys, InitOrders, NextOrders, NextAnswers, PTL
  DEF Spec
=============================================================================
