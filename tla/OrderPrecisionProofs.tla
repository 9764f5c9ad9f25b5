------------------------ MODULE OrderPrecisionProofs ------------------------
(***************************************************************************)
(* Proofs about OrderPrecision, for any orders, prices, quantities and     *)
(* funds, and for any precision of the columns and of what clients ask     *)
(* for: how far rounding can take an account from what it was given.       *)
(***************************************************************************)
EXTENDS OrderPrecision, TLAPS

Unit == One * Fine

\* What is added up: one column unit per save.
Drift == balance.available + balance.locked - Funds

BalanceOK ==
    /\ balance \in [available : Nat, locked : Nat, events : {<<>>}]
    /\ saves \in Nat
    /\ Drift <= saves * Unit
    /\ -Drift <= saves * Unit

\* The amounts that RemainingAmount and RequiredAmount compute are integers.
OrderOK(o) == o.price \in Int /\ o.quantity \in Int /\ o.filledQty \in Int

PrecisionOK == BalanceOK /\ \A o \in Orders : orders[o] # Absent => OrderOK(orders[o])

-----------------------------------------------------------------------------
(* Rounding. *)

\* The part of an amount that is not a whole number of column units is less than the
\* amount and less than a unit.
LEMMA Remainder ==
    ASSUME NEW s \in Nat \ {0}, NEW x \in Nat
    PROVE  x % s \in Nat /\ x % s < s /\ x % s <= x
<1>1. x % s \in Nat /\ x % s < s
  OBVIOUS
<1>2. x < s => x % s = x
  OBVIOUS
<1> QED
  BY <1>1, <1>2

LEMMA UnitPositive == Unit \in Nat \ {0}
BY PrecisionAssumption DEF Unit

\* A column is at most half a unit away from what is written to it, and never
\* below zero.
LEMMA ColumnIsClose ==
    ASSUME NEW x \in Nat
    PROVE  /\ Amount!Column(x) \in Nat
           /\ 2 * (Amount!Column(x) - x) <= Unit
           /\ 2 * (x - Amount!Column(x)) <= Unit
<1>1. PICK s \in Nat \ {0} : s = Unit
  BY UnitPositive
<1>2. PICK r \in Nat : r = x % s /\ r < s /\ r <= x
  BY Remainder
<1>3. Amount!Column(x) = (x - r) + (IF 2 * r >= s THEN s ELSE 0)
  BY <1>1, <1>2 DEF Amount!Column, Unit
<1> QED
  BY <1>1, <1>2, <1>3

LEMMA SizesAreIntegers ==
    ASSUME NEW x \in Int
    PROVE  Size!Column(x) \in Int
BY PrecisionAssumption DEF Size!Column

-----------------------------------------------------------------------------
(* The two operations. *)

\* What is bought or sold amounts to a whole number of units.
LEMMA AmountsAreIntegers ==
    ASSUME NEW o, OrderOK(o)
    PROVE  /\ O!RequiredAmount(o) \in Int
           /\ O!RemainingAmount(o) \in Int
BY PrecisionAssumption
DEF OrderOK, O!RequiredAmount, O!RemainingAmount, O!RemainingQty, O!AmountOf

\* Written to its columns, a balance keeps its sum up to one column unit.
LEMMA SavingDriftsByAUnit ==
    ASSUME BalanceOK,
           NEW b, b.available \in Nat, b.locked \in Nat,
           b.available + b.locked = balance.available + balance.locked,
           b = [available |-> b.available, locked |-> b.locked, events |-> b.events],
           SaveBalance(b)
    PROVE  BalanceOK'
<1> DEFINE a == Amount!Column(b.available)
           l == Amount!Column(b.locked)
<1>1. balance' = [available |-> a, locked |-> l, events |-> <<>>] /\ saves' = saves + 1
  BY DEF SaveBalance, B!ClearBalanceEvents
<1>2. /\ a \in Nat /\ 2 * (a - b.available) <= Unit /\ 2 * (b.available - a) <= Unit
      /\ l \in Nat /\ 2 * (l - b.locked) <= Unit /\ 2 * (b.locked - l) <= Unit
  BY ColumnIsClose
<1>3. PICK u \in Nat : u = Unit
  BY UnitPositive
<1>4. PICK n \in Nat : n = saves
  BY DEF BalanceOK
<1>5. (n + 1) * u = n * u + u /\ n * u \in Int
  BY <1>3, <1>4
<1>6. PICK d \in Int : d = Drift /\ d = b.available + b.locked - Funds
  <2>1. balance.available \in Nat /\ balance.locked \in Nat
    BY DEF BalanceOK
  <2> QED
    BY <2>1, PrecisionAssumption DEF Drift
<1>7. d <= n * u /\ -d <= n * u
  BY <1>3, <1>4, <1>6, Zenon DEF BalanceOK
<1>8. PICK k \in Int : k = n * u
  BY <1>5
<1> HIDE DEF a, l
<1>9. PICK e \in Int : e = a + l - Funds
  BY <1>2, PrecisionAssumption
<1>10. e <= d + u /\ -e <= -d + u
  BY <1>2, <1>3, <1>6, <1>9, PrecisionAssumption
<1>11. e <= k + u /\ -e <= k + u
  BY <1>7, <1>8, <1>10
<1>12. /\ balance' \in [available : Nat, locked : Nat, events : {<<>>}]
       /\ Drift' = e
  BY <1>1, <1>2, <1>9 DEF Drift
<1>13. saves' \in Nat /\ saves' * Unit = k + u
  BY <1>1, <1>3, <1>4, <1>5, <1>8
<1> QED
  BY <1>11, <1>12, <1>13 DEF BalanceOK, Unit

LEMMA PlaceKeepsOK ==
    ASSUME PrecisionOK, NEW o \in Orders, Place(o)
    PROVE  PrecisionOK'
<1>1. PICK c \in PlaceCommands :
          LET amount == O!RequiredAmount(O!NewOrder(c))
          IN  /\ B!CanDeductAndLock(balance, amount)
              /\ SaveBalance(B!DeductAndLock(balance, amount, o))
              /\ orders' = [orders EXCEPT ![o] = InsertOrder(O!Accept(O!NewOrder(c)))]
  BY DEF Place
<1>2. OrderOK(O!NewOrder(c)) /\ OrderOK(InsertOrder(O!Accept(O!NewOrder(c))))
  BY PrecisionAssumption, SizesAreIntegers
  DEF OrderOK, O!NewOrder, InsertOrder, O!Accept, O!ClearEvents
<1>3. PICK amount \in Int : amount = O!RequiredAmount(O!NewOrder(c))
  BY <1>2, AmountsAreIntegers
<1>4. PICK b : b = B!DeductAndLock(balance, amount, o)
  OBVIOUS
<1>5. /\ amount > 0 /\ balance.available >= amount
      /\ SaveBalance(b)
  BY <1>1, <1>3, <1>4 DEF B!CanDeductAndLock
<1>6. /\ b.available = balance.available - amount
      /\ b.locked = balance.locked + amount
      /\ b = [available |-> b.available, locked |-> b.locked, events |-> b.events]
  BY <1>4 DEF B!DeductAndLock, PrecisionOK, BalanceOK
<1>7. BalanceOK'
  BY <1>3, <1>5, <1>6, SavingDriftsByAUnit DEF PrecisionOK, BalanceOK
<1> QED
  BY <1>1, <1>2, <1>7 DEF PrecisionOK

LEMMA CancelKeepsOK ==
    ASSUME PrecisionOK, NEW o \in Orders, Cancel(o)
    PROVE  PrecisionOK'
<1>1. /\ orders[o] # Absent
      /\ B!CanUnlock(balance, O!RemainingAmount(orders[o]))
      /\ SaveBalance(B!Unlock(balance, O!RemainingAmount(orders[o]), o))
      /\ orders' = [orders EXCEPT ![o] = UpdateOrder(O!Cancel(orders[o]))]
  BY DEF Cancel
<1>2. OrderOK(orders[o]) /\ OrderOK(UpdateOrder(O!Cancel(orders[o])))
  BY <1>1 DEF PrecisionOK, OrderOK, UpdateOrder, O!Cancel, O!ClearEvents
<1>3. PICK amount \in Int : amount = O!RemainingAmount(orders[o])
  BY <1>2, AmountsAreIntegers
<1>4. PICK b : b = B!Unlock(balance, amount, o)
  OBVIOUS
<1>5. /\ amount > 0 /\ balance.locked >= amount
      /\ SaveBalance(b)
  BY <1>1, <1>3, <1>4 DEF B!CanUnlock
<1>6. /\ b.available = balance.available + amount
      /\ b.locked = balance.locked - amount
      /\ b = [available |-> b.available, locked |-> b.locked, events |-> b.events]
  BY <1>4 DEF B!Unlock, PrecisionOK, BalanceOK
<1>7. BalanceOK'
  BY <1>3, <1>5, <1>6, SavingDriftsByAUnit DEF PrecisionOK, BalanceOK
<1> QED
  BY <1>1, <1>2, <1>7 DEF PrecisionOK

-----------------------------------------------------------------------------
\* Whatever is asked for and however many orders are placed and cancelled, the two
\* columns of balances lose or gain at most one unit per UPDATE, and an unlock of
\* an amount that rounding made too large is refused before it takes an account
\* below zero (Balance.Unlock, MySQLBalanceRepo.Save).
THEOREM RoundingIsBounded == Spec => []DriftIsBounded
<1>1. Init => PrecisionOK
  BY PrecisionAssumption DEF Init, PrecisionOK, BalanceOK, Drift, Unit
<1>2. PrecisionOK /\ [Next]_vars => PrecisionOK'
  <2>1. ASSUME PrecisionOK, UNCHANGED vars PROVE PrecisionOK'
    BY <2>1 DEF vars, PrecisionOK, BalanceOK, Drift
  <2> QED
    BY <2>1, PlaceKeepsOK, CancelKeepsOK DEF Next
<1>3. PrecisionOK => DriftIsBounded
  <2> SUFFICES ASSUME PrecisionOK PROVE DriftIsBounded
    OBVIOUS
  <2>1. saves * One * Fine = saves * Unit
    BY PrecisionAssumption DEF PrecisionOK, BalanceOK, Unit
  <2> QED
    BY <2>1 DEF PrecisionOK, BalanceOK, Drift, DriftIsBounded
<1> QED
  BY <1>1, <1>2, <1>3, PTL DEF Spec
=============================================================================
