-------------------------- MODULE BalanceAggregate --------------------------
(***************************************************************************)
(* The Balance aggregate (internal/balance/domain/balance.go): one user's  *)
(* holdings of one currency, split into available and locked.  Each event  *)
(* carries the balance as it is after the operation, and the order it was  *)
(* done for.                                                               *)
(***************************************************************************)
EXTENDS Integers, Sequences

\* The events quote the balance as it is when they are built.
BalanceEvent(type, b, amount, ref) ==
    [type |-> type, ref |-> ref, amount |-> amount,
     availableAfter |-> b.available, lockedAfter |-> b.locked]

BalanceDeductedEvent(b, amount, ref) == BalanceEvent("BalanceDeducted", b, amount, ref)
BalanceRestoredEvent(b, amount, ref) == BalanceEvent("BalanceRestored", b, amount, ref)

CanDeductAndLock(b, amount) == amount > 0 /\ b.available >= amount

\* Mutation: the event is built from the balance before the deduction.
DeductAndLockEventFirst(b, amount, ref) ==
    [b EXCEPT !.available = @ - amount, !.locked = @ + amount,
              !.events = Append(@, BalanceDeductedEvent(b, amount, ref))]

DeductAndLock(b, amount, ref) ==
    LET after == [b EXCEPT !.available = @ - amount, !.locked = @ + amount]
    IN  [after EXCEPT !.events = Append(@, BalanceDeductedEvent(after, amount, ref))]

CanUnlock(b, amount) == amount > 0 /\ b.locked >= amount

\* Mutation: the amount is made available but stays locked.
UnlockKeepsLocked(b, amount, ref) ==
    LET after == [b EXCEPT !.available = @ + amount]
    IN  [after EXCEPT !.events = Append(@, BalanceRestoredEvent(after, amount, ref))]

Unlock(b, amount, ref) ==
    LET after == [b EXCEPT !.available = @ + amount, !.locked = @ - amount]
    IN  [after EXCEPT !.events = Append(@, BalanceRestoredEvent(after, amount, ref))]

\* Mutation: the settled amount is not compared with what is locked.
CanSettleAny(b, amount) == amount > 0

CanSettleFill(b, amount) == amount > 0 /\ b.locked >= amount

\* A settled amount leaves the balance, and no event says so.
SettleFill(b, amount) == [b EXCEPT !.locked = @ - amount]

ClearBalanceEvents(b) == [b EXCEPT !.events = <<>>]
=============================================================================
